---------------------------- MODULE NatGateways ----------------------------
(***************************************************************************)
(* Private nodes of one kind behind their NAT gateways.  Every private     *)
(* node VM has a gateway VM of the same number, and only one way to the    *)
(* Internet: through it.                                                   *)
(*                                                                         *)
(* The two kinds of cone are provisioned in four steps: prepare the        *)
(* gateways, configure the node VMs, complete the gateways, install the    *)
(* nodes.  The symmetric gateways are complete after the first.  A node VM *)
(* that is private can be reached over its gateway only, so a command has  *)
(* to know from the start which VMs those are.  `upscale` prepares none    *)
(* but the full cone gateways that were not in its inventory when it       *)
(* began, while it configures and provisions every node VM; it does not    *)
(* know the port restricted ones at all and removes them.  Any step may    *)
(* fail on any VM, terraform may stop between any two VMs, and the         *)
(* operator may run any command after that.                                *)
(***************************************************************************)
EXTENDS Integers, FiniteSets

CONSTANTS
  MaxPairs,       \* bound: pairs of a gateway and a node VM
  MaxFailures     \* bound: `failures`

ASSUME BoundsAssumption == MaxPairs \in Nat \ {0} /\ MaxFailures \in Nat

VARIABLES
  kind,        \* what the gateways do; an environment may have all three kinds
  gateways,    \* the gateway VMs there are, by their number
  nodes,       \* the node VMs there are
  nat,         \* gateways that were completed
  unfinished,  \* gateways that were given some of their rules and will get no more
  open,        \* those of them through which node VMs can download
  private,     \* node VMs whose only way out is their gateway
  running,     \* node VMs with nodes on them
  orphans,     \* private node VMs that lost their gateway and have no new one
  details,     \* the environment details are in S3
  options,     \* the options of a deployment in S3, if it asked for VMs of the kind
  cmd,         \* the last command
  pc,          \* its next step, "idle" when it ended
  target,      \* how many pairs it asks terraform for
  current,     \* gateways in its inventory when it began
  routes,      \* node VMs that its SSH client reaches over their gateways
  batch,       \* gateways it prepares
  calm,        \* nothing failed since it began
  report,      \* how it ended; "failed" is an error, or a warning at its end
  failures     \* how many commands failed so far

vms == <<gateways, nodes>>
gates == <<nat, unfinished, open>>
state == <<gates, private, running, orphans>>
env == <<kind, details, options>>
plan == <<cmd, target, current>>
vars == <<vms, state, env, plan, pc, routes, batch, calm, report, failures>>

Pairs == 1..MaxPairs
Kinds == {"full_cone", "port_restricted", "symmetric"}
Steps == {"save", "apply", "list", "step1", "config", "step2", "nodes"}

TypeOK ==
  /\ kind \in Kinds
  /\ gateways \subseteq Pairs /\ nodes \subseteq Pairs
  /\ nat \subseteq gateways /\ unfinished \subseteq gateways \ nat /\ open \subseteq unfinished
  /\ private \subseteq nodes /\ running \subseteq nodes /\ orphans \subseteq private
  /\ current \subseteq Pairs /\ routes \subseteq Pairs /\ batch \subseteq Pairs
  /\ details \in BOOLEAN /\ calm \in BOOLEAN
  /\ options \in {"none", "zero", "some"}
  /\ cmd \in {"none", "deploy", "bootstrap", "upscale", "provision", "clean"}
  /\ pc \in Steps \cup {"idle"}
  /\ target \in 0..MaxPairs /\ failures \in 0..MaxFailures
  /\ report \in {"none", "ok", "unrequested", "refused", "failed", "infra"}

Init ==
  /\ kind \in Kinds
  /\ gateways = {} /\ nodes = {}
  /\ nat = {} /\ unfinished = {} /\ open = {}
  /\ private = {} /\ running = {} /\ orphans = {}
  /\ details = FALSE /\ options = "none"
  /\ cmd = "none" /\ pc = "idle" /\ target = 0
  /\ current = {} /\ routes = {} /\ batch = {}
  /\ calm = TRUE /\ report = "none" /\ failures = 0

\* The command ends, and what it knew is gone.
Finish(how) ==
  /\ pc' = "idle" /\ report' = how
  /\ current' = {} /\ routes' = {} /\ batch' = {} /\ target' = 0
  /\ UNCHANGED cmd

Fail ==
  /\ failures < MaxFailures /\ failures' = failures + 1
  /\ calm' = FALSE
  /\ Finish("failed")

Proceed(to) ==
  /\ pc' = to
  /\ UNCHANGED <<plan, routes, batch, calm, report, failures>>

-----------------------------------------------------------------------------
(***************************************************************************)
(* The inventory a command begins with, and terraform.                     *)
(***************************************************************************)

\* Without details the inventory is empty.  With them the gateways and node
\* VMs have to match; only the symmetric ones are not looked at when there are
\* no gateways at all.
Readable ==
  details => gateways = nodes \/ (kind = "symmetric" /\ gateways = {})

Inventory == IF details THEN gateways ELSE {}

\* `upscale` must not ask for fewer VMs than there are.  It finds no port
\* restricted ones in the terraform state, and like `bootstrap` asks for none.
Targets(c) ==
  IF c = "provision" \/ (kind = "port_restricted" /\ c # "deploy") THEN {0}
  ELSE IF c = "upscale" THEN Cardinality(nodes)..MaxPairs
  ELSE 0..MaxPairs

\* Mutant: the SSH client is not told about the gateways.
StartUnrouted(c) ==
  /\ pc = "idle" /\ Readable
  /\ c \in {"upscale", "provision"} => details
  /\ c = "provision" => options # "none"
  /\ cmd' = c /\ calm' = TRUE /\ report' = "none"
  /\ current' = Inventory /\ routes' = {} /\ batch' = {}
  /\ pc' = CASE c = "provision" -> "list" [] c = "bootstrap" -> "save" [] OTHER -> "apply"
  /\ target' \in Targets(c)
  /\ UNCHANGED <<vms, state, env, failures>>

\* `deploy` and `bootstrap` may be run again; `provision` needs the genesis node
\* and the options which a `deploy` that stopped at that node has left.
Start(c) ==
  /\ pc = "idle" /\ Readable
  /\ c \in {"upscale", "provision"} => details
  /\ c = "provision" => options # "none"
  /\ cmd' = c /\ calm' = TRUE /\ report' = "none"
  /\ current' = Inventory /\ routes' = Inventory /\ batch' = {}
  /\ pc' = CASE c = "provision" -> "list" [] c = "bootstrap" -> "save" [] OTHER -> "apply"
  /\ target' \in Targets(c)
  /\ UNCHANGED <<vms, state, env, failures>>

\* A gateway without a node VM, or the other way round, is an error before
\* anything else is looked at.
StartRefused(c) ==
  /\ pc = "idle" /\ ~Readable
  /\ cmd' = c /\ calm' = TRUE /\ report' = "refused"
  /\ UNCHANGED <<vms, state, env, target, current, pc, routes, batch, failures>>

\* `bootstrap` saves the details before there are VMs, `deploy` after that; one
\* that is to stop at the genesis node saves its options too.
SaveDetails ==
  /\ pc = "save" /\ details' = TRUE
  /\ \/ Proceed(IF cmd = "bootstrap" THEN "apply" ELSE "list") /\ UNCHANGED options
     \/ /\ cmd = "deploy" /\ options' = IF target = 0 THEN "zero" ELSE "some"
        /\ Finish("infra") /\ UNCHANGED <<calm, failures>>
  /\ UNCHANGED <<vms, state, kind>>

\* A VM that is made anew is bare, and has an address nobody knows.
CreateVm ==
  /\ pc = "apply"
  /\ \E i \in 1..target :
       \/ i \notin gateways /\ gateways' = gateways \cup {i} /\ UNCHANGED nodes
       \/ i \notin nodes /\ nodes' = nodes \cup {i} /\ UNCHANGED gateways
  /\ UNCHANGED <<state, env, plan, pc, routes, batch, calm, report, failures>>

\* Mutant: a gateway made anew counts as prepared.
DestroyedStale(gs, ns) ==
  /\ gateways' = gateways \ gs /\ nodes' = nodes \ ns
  /\ private' = private \ ns /\ running' = running \ ns
  /\ orphans' = (orphans \cup (private \cap gs)) \ ns
  /\ UNCHANGED <<nat, unfinished, open>>

\* A gateway that is destroyed takes its rules with it; a private node VM that
\* is left without one is an orphan, until it is configured for a new gateway
\* and that one is complete.
Destroyed(gs, ns) ==
  /\ gateways' = gateways \ gs /\ nodes' = nodes \ ns
  /\ nat' = nat \ gs /\ unfinished' = unfinished \ gs /\ open' = open \ gs
  /\ private' = private \ ns /\ running' = running \ ns
  /\ orphans' = (orphans \cup (private \cap gs)) \ ns

DestroyVm ==
  /\ pc = "apply"
  /\ \E i \in Pairs \ (1..target) :
       \/ i \in gateways /\ Destroyed({i}, {}) /\ current' = current \ {i} /\ UNCHANGED routes
       \/ i \in nodes /\ Destroyed({}, {i}) /\ routes' = routes \ {i} /\ UNCHANGED current
  /\ UNCHANGED <<env, cmd, target, pc, batch, calm, report, failures>>

Applied ==
  /\ pc = "apply" /\ gateways = 1..target /\ nodes = 1..target
  /\ \/ Proceed(IF cmd = "deploy" THEN "save" ELSE "list")
     \/ cmd = "upscale" /\ Finish("infra") /\ UNCHANGED <<calm, failures>>
  /\ UNCHANGED <<vms, state, env>>

-----------------------------------------------------------------------------
(***************************************************************************)
(* Provisioning.  A playbook runs on its VMs in parallel, and fails if it  *)
(* failed on one of them.                                                  *)
(***************************************************************************)

LeavesOut == cmd = "upscale" /\ kind = "full_cone"

NewGateways == gateways \ current

Requested == cmd = "provision" => options = "some"

\* Mutant: every command leaves out the gateways it knew.
ListPairsNewOnly ==
  /\ pc = "list"
  /\ \/ /\ nodes # {} /\ Cardinality(gateways) = Cardinality(nodes)
        /\ batch' = IF NewGateways # {} THEN NewGateways ELSE gateways
        /\ pc' = "step1"
        /\ UNCHANGED <<plan, routes, calm, report, failures>>
     \/ /\ nodes = {} \/ Cardinality(gateways) # Cardinality(nodes)
        /\ Finish("unrequested") /\ UNCHANGED <<calm, failures>>
  /\ UNCHANGED <<vms, state, env>>

\* `upscale` leaves out the full cone gateways it knew, unless it finds no
\* others.  `provision` goes by the options there are, which may be those of an
\* environment that was cleaned since.
ListPairs ==
  /\ pc = "list"
  /\ \/ ~Requested /\ Finish("unrequested") /\ UNCHANGED <<calm, failures>>
     \/ /\ Requested /\ nodes # {} /\ Cardinality(gateways) = Cardinality(nodes)
        /\ batch' = IF LeavesOut /\ NewGateways # {} THEN NewGateways ELSE gateways
        /\ pc' = "step1"
        /\ UNCHANGED <<plan, routes, calm, report, failures>>
     \/ /\ Requested /\ nodes = {} /\ gateways = {} /\ Finish("ok") /\ UNCHANGED <<calm, failures>>
     \/ /\ Requested /\ Cardinality(gateways) # Cardinality(nodes)
        /\ Finish("failed") /\ UNCHANGED <<calm, failures>>
  /\ UNCHANGED <<vms, state, env>>

\* Step 1 of the cones has no effect that matters here: a gateway that has it
\* only is as good as none.  For the symmetric ones it is all there is.
Prepared(done) == IF kind = "symmetric" THEN done ELSE {}

PrepareGateways ==
  /\ pc = "step1"
  /\ \E done \in SUBSET batch :
       /\ nat' = nat \cup Prepared(done)
       /\ \/ done = batch /\ Proceed("config")
          \/ done # batch /\ Fail
  /\ UNCHANGED <<vms, unfinished, open, private, running, orphans, env>>

\* The routes of the symmetric node VMs are set once more, with the gateways
\* there are, before the VMs are waited for; those of the cones only after.
Reachable(i) == i \notin private \/ i \in routes \/ kind = "symmetric"

\* Mutant: only the node VMs of this batch are configured.
ConfigureBatch ==
  /\ pc = "config" /\ \A i \in nodes : Reachable(i)
  /\ private' = private \cup (nodes \cap batch)
  /\ Proceed("step2")
  /\ UNCHANGED <<vms, gates, running, orphans, env>>

\* Mutant: VMs that could not be configured are passed over.
ConfigureTolerant ==
  /\ pc = "config" /\ \A i \in nodes : Reachable(i)
  /\ \E done \in SUBSET nodes : private' = private \cup done
  /\ Proceed("step2")
  /\ UNCHANGED <<vms, gates, running, orphans, env>>

AfterConfig == IF kind = "symmetric" THEN "nodes" ELSE "step2"

\* Every node VM has to answer, and then gets its gateway as its only way out.
ConfigureNodes ==
  /\ pc = "config"
  /\ \/ /\ \A i \in nodes : Reachable(i)
        /\ \E done \in SUBSET nodes :
             /\ private' = private \cup done
             /\ orphans' = IF kind = "symmetric" THEN orphans \ done ELSE orphans
             /\ \/ done = nodes /\ Proceed(AfterConfig)
                \/ done # nodes /\ Fail
     \/ /\ \E i \in nodes : ~Reachable(i)
        /\ Finish("failed") /\ UNCHANGED <<private, orphans, calm, failures>>
  /\ UNCHANGED <<vms, gates, running, env>>

\* Step 2 adds the rules one by one, unless it finds the node VM's address
\* among them.  A gateway on which it stops after the first rule with that
\* address is never completed: every later run passes over it (full cone), or
\* is itself forwarded and runs on the node VM (port restricted).
Completed(done) == done \ unfinished

CompleteGateways ==
  /\ pc = "step2"
  /\ \E done \in SUBSET batch :
     \E left \in SUBSET (batch \ (done \cup nat \cup unfinished)) :
     \E through \in SUBSET left :
       /\ nat' = nat \cup Completed(done)
       /\ unfinished' = unfinished \cup left /\ open' = open \cup through
       /\ orphans' = orphans \ Completed(done)
       /\ \/ done = batch /\ Proceed("nodes")
          \/ done # batch /\ Fail
  /\ UNCHANGED <<vms, private, running, env>>

\* What has to be downloaded comes through the gateway, so a node VM behind one
\* that does not translate cannot be provisioned.
Online(i) == i \notin private \/ i \in nat \cup open

ProvisionNodes ==
  /\ pc = "nodes"
  /\ LET able == {i \in nodes : Online(i)}
     IN  \E done \in SUBSET able :
           /\ running' = running \cup done
           /\ \/ done = nodes /\ Finish("ok") /\ UNCHANGED <<calm, failures>>
              \/ done = able /\ done # nodes /\ Finish("failed") /\ UNCHANGED <<calm, failures>>
              \/ done # able /\ Fail
  /\ UNCHANGED <<vms, gates, private, orphans, env>>

\* A command may be interrupted, or fail in a part that is not modelled.
Interrupt ==
  /\ pc # "idle" /\ Fail
  /\ UNCHANGED <<vms, state, env>>

\* `clean` may leave VMs behind when it fails, and the details when they cannot
\* be deleted; it never deletes the options.
Clean ==
  /\ pc = "idle" /\ cmd' = "clean" /\ calm' = TRUE
  /\ \/ /\ Destroyed(gateways, nodes)
        /\ \/ details' = FALSE /\ UNCHANGED failures
           \/ failures < MaxFailures /\ failures' = failures + 1 /\ UNCHANGED details
     \/ /\ \E gs \in SUBSET gateways, ns \in SUBSET nodes : Destroyed(gs, ns)
        /\ failures < MaxFailures /\ failures' = failures + 1
        /\ UNCHANGED details
  /\ report' = "none"
  /\ UNCHANGED <<kind, options, pc, target, current, routes, batch>>

Next ==
  \/ \E c \in {"deploy", "bootstrap", "upscale", "provision"} : Start(c) \/ StartRefused(c)
  \/ SaveDetails \/ CreateVm \/ DestroyVm \/ Applied
  \/ ListPairs \/ PrepareGateways \/ ConfigureNodes \/ CompleteGateways
  \/ ProvisionNodes \/ Interrupt \/ Clean

Spec == Init /\ [][Next]_vars

-----------------------------------------------------------------------------
\* A command never waits for a node VM that it does not know how to reach:
\* wherever the commands before it stopped, the VMs that were taken off the
\* Internet are among those its SSH client reaches over a gateway.  Only a VM
\* whose gateway was destroyed may be out of reach (provisioning.rs:886-904,
\* 1328-1360).
NoneUnreachable == pc = "config" => \A i \in nodes \ orphans : Reachable(i)

\* A command that reports success leaves every private node behind a gateway
\* that serves it, also those of earlier commands that failed
\* (provisioning.rs:759-1226).
OkMeansServed ==
  report = "ok" /\ pc = "idle" /\ cmd # "clean" =>
    /\ gateways = nodes /\ gateways \subseteq nat \cup open
    /\ private = nodes /\ running = nodes

\* After any sequence of commands that failed, one that prepares all gateways
\* and does not itself fail repairs everything: each step may be repeated
\* (deploy.rs:328-382, cmd/provision.rs:111-190).  What may stop it is a gateway
\* that was left unfinished, and, but for the symmetric kind, a node VM that
\* lost its gateway.
CalmRunRepairs ==
  pc = "idle" /\ calm /\ cmd # "clean" /\ ~LeavesOut /\ report = "failed" =>
    \/ gateways = {} \/ unfinished \ open # {}
    \/ kind # "symmetric" /\ orphans # {}

\* Private nodes run only on VMs that are off the Internet, behind a gateway
\* that translates for them, whatever failed before: the configuration of the
\* VMs comes before the nodes, and an error in it ends the command
\* (provisioning.rs:907-960, 1342-1379).
NodesAreBehindNat ==
  \A i \in running : i \in private /\ (i \in nat \cup open \/ i \in orphans)

\* "If we are upscaling, then we cannot access the gateway VMs which are
\* already deployed" (provisioning.rs:790): the gateways that an upscale leaves
\* out are deployed.
LeftOutIsDeployed == pc = "step1" => \A i \in gateways \ batch : i \in nat
=============================================================================
