---------------------------- MODULE NodeCommands ----------------------------
(***************************************************************************)
(* The commands that act on the nodes of a network that is deployed:       *)
(* start, stop, reset, reset-to-n-nodes, upgrade, upgrade-antctl,          *)
(* extend-volume-size and the like, given by one operator on his machine   *)
(* while others deploy, provision, upscale, clean and stop or reset nodes  *)
(* from theirs.                                                            *)
(*                                                                         *)
(* A command does not act on what is there.  It generates an inventory,    *)
(* reads the binary versions from one VM, and then runs a playbook for one *)
(* kind of node after another, each over an inventory file of the          *)
(* operator's machine: a dynamic file lists the VMs of the moment, a       *)
(* static file (private nodes, a custom list) lists those of the moment it *)
(* was written, and stays when another machine destroys them.              *)
(***************************************************************************)
EXTENDS Integers, Sequences

CONSTANTS
  VM,      \* the VMs the instance can have
  KindOf,  \* the kind of node each is for
  Ops      \* the commands of the instance

AllKinds == {"genesis", "full_cone", "generic", "peer_cache",
             "port_restricted", "symmetric", "upnp"}
AllOps == {"start", "stop", "reset", "reset_to_n", "cron", "status",
           "start_telegraf", "stop_telegraf", "upgrade", "upgrade_antctl",
           "upgrade_telegraf", "upgrade_geoip", "upgrade_nginx",
           "configure_swapfile", "extend_volume"}

ASSUME KindOfAssumption == KindOf \in [VM -> AllKinds]
ASSUME OpsAssumption == Ops \subseteq AllOps

VARIABLES
  record,   \* the environment: "none", "up", or "gone" with its details left
  svc,      \* the node services on each VM; "absent": there is no such VM
  files,    \* the machine has the dynamic inventory files
  static,   \* the machine's static inventory files
  pc, op, sel,
  todo,     \* the inventories the command's playbook has still to run over
  due,      \* the VMs the operator asked for and the command has not reached
  calm      \* no call of the command failed, and nobody else did anything

machine == <<files, static>>
vars == <<record, svc, files, static, pc, op, sel, todo, due, calm>>

Kinds == {KindOf[v] : v \in VM}
PrivateKinds == {"full_cone", "port_restricted", "symmetric"}
StaticFiles == PrivateKinds \cup {"custom"}

\* "bare": created and never provisioned; "empty": antctl is installed and
\* its registry is empty, which `antctl reset` leaves.
Services == {"absent", "bare", "empty", "stopped", "running"}

\* `old`: the VMs the file lists were destroyed; others may have their names.
File == [vms : SUBSET VM, old : BOOLEAN]
NoFile == [vms |-> {}, old |-> FALSE]

Selections == {"all", "custom"} \cup Kinds
Pcs == {"idle", "inventory", "apply", "playbooks", "status", "done", "failed",
        "unreadable"}

TypeOK ==
  /\ record \in {"none", "up", "gone"}
  /\ svc \in [VM -> Services]
  /\ files \in BOOLEAN
  /\ static \in [StaticFiles -> File]
  /\ pc \in Pcs
  /\ op \in AllOps \cup {"none"}
  /\ sel \in Selections
  /\ todo \subseteq Kinds \cup {"custom"}
  /\ due \subseteq VM
  /\ calm \in BOOLEAN

Existing == {v \in VM : svc[v] # "absent"}
Of(k) == {v \in Existing : KindOf[v] = k}
HasServices(v) == svc[v] \in {"stopped", "running"}

-----------------------------------------------------------------------------
(***************************************************************************)
(* What the commands run over, and how.                                    *)
(***************************************************************************)
IterNodeType == <<"genesis", "full_cone", "generic", "peer_cache",
                  "port_restricted", "symmetric", "upnp">>

\* Without --node-type and --custom-inventory.  Three of them leave kinds out
\* that their help includes: see LeftOut.
Plan(o) ==
  CASE o = "upgrade" -> <<"peer_cache", "generic", "symmetric", "genesis">>
    [] o = "upgrade_telegraf" -> <<"peer_cache", "generic", "symmetric", "full_cone">>
    [] o \in {"upgrade_nginx", "upgrade_geoip"} -> <<"peer_cache">>
    [] o = "configure_swapfile" -> <<"generic", "peer_cache">>
    [] o = "extend_volume" ->
         <<"peer_cache", "genesis", "generic", "symmetric", "full_cone">>
    [] OTHER -> IterNodeType

Before(o, j, k) ==
  \E a, b \in DOMAIN Plan(o) : a < b /\ Plan(o)[a] = j /\ Plan(o)[b] = k

PlanKinds(o) == {k \in Kinds : \E a \in DOMAIN Plan(o) : Plan(o)[a] = k}

\* The playbook ignores hosts that cannot be reached ...
Lenient(o) == o \in {"upgrade_antctl", "status"}
\* ... or the command ignores that the playbook failed.
Tolerant(o) == o = "upgrade"
Strict(o) == ~Lenient(o) /\ ~Tolerant(o)

\* Most commands take one kind, or a list of VMs; these do not (main.rs:293,
\* 456, 487, 745, 750).
NoList == {"status", "upgrade_telegraf", "upgrade_geoip", "configure_swapfile",
           "extend_volume"}
MaySelect(o, s) ==
  CASE s = "all" -> TRUE
    [] s = "custom" -> o \notin NoList
    [] OTHER -> \/ o \notin NoList \cup {"upgrade_nginx"}
                \/ o = "extend_volume" /\ s \in PlanKinds(o)
                \/ o = "configure_swapfile" /\ s = "generic"

\* Mutant: also the kinds that the environment does not have.
TargetsEverywhere(o, s) ==
  IF s = "all" THEN {Plan(o)[a] : a \in DOMAIN Plan(o)} ELSE {s}

Targets(o, s) == IF s = "all" THEN PlanKinds(o) ELSE {s}

\* The kinds that the operator asks for, as the help of the commands says:
\* without --node-type "all the node VMs" (cmd/mod.rs:1061 of upgrade, and so
\* of the others), "all nodes in the environment" (:295, the swapfile, with
\* --peer-cache "also" on those).  Only peer caches have nginx and the GeoIP
\* configuration, and extend-volume-size has an option for each kind it does.
AskedKinds(o, s) ==
  CASE o = "configure_swapfile" -> IF s = "all" THEN Kinds ELSE Kinds \ {"peer_cache"}
    [] s = "all" /\ o \notin {"upgrade_nginx", "upgrade_geoip", "extend_volume"} -> Kinds
    [] OTHER -> Targets(o, s)

Asked(o, s) == UNION {Of(k) : k \in AskedKinds(o, s)}

\* What the playbook makes of a VM's services.
Effect(o, s) ==
  CASE o \in {"start", "upgrade"} /\ s = "stopped" -> "running"
    [] o = "stop" /\ s = "running" -> "stopped"
    [] o = "reset" /\ s # "bare" -> "empty"
    [] o = "reset_to_n" /\ s \notin {"bare", "empty"} -> "running"
    [] OTHER -> s

\* ... and what it may leave where it fails.  Resetting to n nodes is
\* resetting, then adding.
Remains(o, s) ==
  {s, Effect(o, s)} \cup (IF o = "reset_to_n" /\ s # "bare" THEN {"empty"} ELSE {})

\* Most playbooks call antctl, which a bare VM does not have.  Resetting to n
\* nodes takes their settings from the first node of the registry.
MustBreak(o) ==
  {v \in Existing :
     \/ svc[v] = "bare" /\ o \in {"start", "stop", "reset", "reset_to_n", "upgrade", "status"}
     \/ svc[v] = "empty" /\ o = "reset_to_n"}
MayBreak(o) == MustBreak(o) \cup {v \in Existing : svc[v] = "bare"}

-----------------------------------------------------------------------------
(***************************************************************************)
(* The inventory files of the machine.                                     *)
(***************************************************************************)

\* Mutant: a static file that exists is kept, as the dynamic ones are.
FreshOnce(services) ==
  [f \in StaticFiles |->
     LET those == {v \in VM : KindOf[v] = f /\ services[v] # "absent"}
     IN IF those # {} /\ static[f] = NoFile
          THEN [vms |-> those, old |-> FALSE] ELSE static[f]]

\* A static file is written for a kind that has gateways, else left as it is.
Fresh(services) ==
  [f \in StaticFiles |->
     LET those == {v \in VM : KindOf[v] = f /\ services[v] # "absent"}
     IN IF those # {} THEN [vms |-> those, old |-> FALSE] ELSE static[f]]

\* What a terraform apply may destroy: the counts it is given are those of its
\* state, read by the names of the resources, and that of the port restricted
\* nodes is wrong.  Given up early it destroys none.
Losses == {{}, Of("port_restricted")}

Destroyed(lost) == [v \in VM |-> IF v \in lost THEN "absent" ELSE svc[v]]

Outdated(those, lost) ==
  IF lost = {} THEN those
  ELSE [those EXCEPT !["port_restricted"] =
          [vms |-> @.vms, old |-> @.vms # {}]]

UsesStatic(t) == t \in StaticFiles /\ static[t] # NoFile

HasInventory(t) == files \/ UsesStatic(t)

Listed(t) == IF UsesStatic(t) THEN static[t].vms ELSE Of(t)

\* A private node is reached through its gateway, which only the static file
\* of its kind says; an old file lists addresses that are gone.
Reachable(t) ==
  IF UsesStatic(t)
    THEN {v \in static[t].vms :
            /\ ~static[t].old /\ v \in Existing
            /\ t = "custom" => KindOf[v] \notin PrivateKinds}
    ELSE IF t \in PrivateKinds THEN {} ELSE Of(t)

-----------------------------------------------------------------------------
(***************************************************************************)
(* A command of the operator.                                              *)
(***************************************************************************)
Init ==
  /\ record = "none" /\ svc = [v \in VM |-> "absent"]
  /\ files = FALSE /\ static = [f \in StaticFiles |-> NoFile]
  /\ pc = "idle" /\ op = "none" /\ sel = "all"
  /\ todo = {} /\ due = {} /\ calm = TRUE

\* Which command it is and what it selects matters when it goes on to its
\* playbooks, and is chosen then.
Begin ==
  /\ pc = "idle"
  /\ pc' \in {"inventory"} \cup (IF "extend_volume" \in Ops THEN {"apply"} ELSE {})
  /\ UNCHANGED <<record, svc, machine, op, sel, todo, due, calm>>

\* The command ends, well or not.  The custom list stays on the machine, but
\* is written anew before it is used again.
Forget ==
  /\ pc' = "idle" /\ op' = "none" /\ sel' = "all"
  /\ todo' = {} /\ due' = {} /\ calm' = TRUE
  /\ static' = [static EXCEPT !["custom"] = NoFile]
  /\ UNCHANGED <<record, svc, files>>

Return == pc \in {"done", "failed", "unreadable"} /\ Forget
Interrupt == pc \in {"inventory", "apply", "playbooks", "status"} /\ Forget

Fail(how) == pc' = how /\ todo' = {} /\ due' = {}

\* The VMs whose binary versions may be read: any generic node, else any peer
\* cache, else genesis.
Probed ==
  IF Of("generic") # {} THEN Of("generic")
  ELSE IF Of("peer_cache") # {} THEN Of("peer_cache")
  ELSE Of("genesis")

\* is_empty looks at these kinds only.
Counted == {v \in Existing : KindOf[v] \notin {"port_restricted", "upnp"}}

\* The command goes on to its playbooks over `targets`.
GoOn(o, s, targets, wanted) ==
  /\ op' = o /\ sel' = s
  /\ pc' = IF targets = {} THEN "done" ELSE "playbooks"
  /\ todo' = targets
  /\ due' = wanted

\* The inventory is generated; the names of a custom list are looked up in
\* it and the list is written.
Inventory(o, s) ==
  /\ pc = "inventory"
  /\ o # "extend_volume" /\ MaySelect(o, s)
  /\ record = "up"
  /\ Probed # {} => \E v \in Probed : HasServices(v)
  /\ Counted # {}
  /\ files' = TRUE
  /\ IF s = "custom"
       THEN \E list \in (SUBSET Existing) \ {{}} :
              /\ static' = [Fresh(svc) EXCEPT !["custom"] = [vms |-> list, old |-> FALSE]]
              /\ GoOn(o, s, {"custom"}, list)
       ELSE /\ static' = Fresh(svc)
            /\ GoOn(o, s, Targets(o, s), Asked(o, s))
  /\ UNCHANGED <<record, svc, calm>>

\* The VM whose versions are read has no node services.
InventoryUnreadable ==
  /\ pc = "inventory"
  /\ record = "up"
  /\ \E v \in Probed : ~HasServices(v)
  /\ files' = TRUE
  /\ static' = Fresh(svc)
  /\ Fail("unreadable")
  /\ UNCHANGED <<record, svc, op, sel, calm>>

\* There are no details, or there is no VM.
InventoryRefused ==
  /\ pc = "inventory"
  /\ record # "up" \/ Counted = {}
  /\ files' = TRUE
  /\ static' = Fresh(svc)
  /\ Fail("failed")
  /\ UNCHANGED <<record, svc, op, sel, calm>>

\* A listing, a registry or the versions cannot be read, or a name of the
\* custom list is wrong.
InventoryFails ==
  /\ pc = "inventory"
  /\ files' = TRUE
  /\ static' \in {static, Fresh(svc)}
  /\ Fail("failed")
  /\ calm' = FALSE
  /\ UNCHANGED <<record, svc, op, sel>>

\* extend-volume-size generates no inventory: it applies the new sizes with
\* terraform, which destroys what it does not find by name, and relies on the
\* files that are there.
ApplyVolumes(s) ==
  /\ pc = "apply"
  /\ MaySelect("extend_volume", s)
  /\ record = "up" /\ Existing # {}
  /\ svc' = Destroyed(Of("port_restricted"))
  /\ static' = Outdated(static, Of("port_restricted"))
  /\ GoOn("extend_volume", s, Targets("extend_volume", s), Asked("extend_volume", s))
  /\ UNCHANGED <<record, files, calm>>

ApplyVolumesFails ==
  /\ pc = "apply"
  /\ \E lost \in Losses : svc' = Destroyed(lost) /\ static' = Outdated(static, lost)
  /\ Fail("failed")
  /\ calm' = (record # "up" /\ calm)
  /\ UNCHANGED <<record, files, op, sel>>

\* Mutant: the first playbook that succeeds returns from the loop.
AfterFirst(rest) == IF op = "upgrade" THEN "status" ELSE "done"

After(rest) ==
  IF rest # {} THEN "playbooks" ELSE IF op = "upgrade" THEN "status" ELSE "done"

\* The playbook over the next inventory.  The hosts in `down` cannot be
\* reached, those in `broken` fail a task.
Run(t, down, broken) ==
  LET hosts == Reachable(t)
      reached == hosts \ (down \cup broken)
      ok == broken = {} /\ (Lenient(op) \/ (down = {} /\ Listed(t) = hosts))
  IN /\ pc = "playbooks" /\ t \in todo
     /\ \A j \in todo : ~Before(op, j, t)
     /\ HasInventory(t)
     /\ \E left \in [broken -> Services] :
          /\ \A v \in broken : left[v] \in Remains(op, svc[v])
          /\ svc' = [v \in VM |-> IF v \in reached THEN Effect(op, svc[v])
                                  ELSE IF v \in broken THEN left[v] ELSE svc[v]]
     /\ IF ok \/ Tolerant(op)
          THEN /\ todo' = todo \ {t}
               /\ due' = due \ reached
               /\ pc' = After(todo')
          ELSE Fail("failed")
     /\ calm' = (calm /\ down = {} /\ broken \subseteq MayBreak(op))
     /\ UNCHANGED <<record, machine, op, sel>>

Playbook(t) ==
  \E down \in SUBSET Reachable(t) : \E broken \in SUBSET (Reachable(t) \ down) :
    /\ MustBreak(op) \cap Reachable(t) \subseteq down \cup broken
    /\ Run(t, down, broken)

\* No call fails that does not have to.
Unhindered(t) == Run(t, {}, MustBreak(op) \cap Reachable(t))

\* get_inventory_path
PlaybookMissing ==
  /\ pc = "playbooks"
  /\ \E t \in todo : (\A j \in todo : ~Before(op, j, t)) /\ ~HasInventory(t)
  /\ Fail("failed")
  /\ UNCHANGED <<record, svc, machine, op, sel, calm>>

\* An upgrade ends with the status playbooks, which may fail.
Status ==
  /\ pc = "status"
  /\ \/ pc' = "done" /\ UNCHANGED <<todo, due, calm>>
     \/ Fail("failed") /\ calm' = FALSE
     \/ MayBreak("start") # {} /\ Fail("failed") /\ UNCHANGED calm
  /\ UNCHANGED <<record, svc, machine, op, sel>>

Command ==
  \/ Begin \/ Return \/ Interrupt
  \/ \E o \in Ops, s \in Selections : Inventory(o, s)
  \/ InventoryUnreadable \/ InventoryRefused \/ InventoryFails
  \/ \E s \in Selections : ApplyVolumes(s)
  \/ ApplyVolumesFails
  \/ \E t \in Kinds \cup {"custom"} : Playbook(t)
  \/ PlaybookMissing \/ Status

-----------------------------------------------------------------------------
(***************************************************************************)
(* What else happens to the environment.  `here`: on the operator's own    *)
(* machine, which runs one command at a time.  A deploy, a provision and   *)
(* an upscale may be given up; what they had not provisioned is left bare. *)
(***************************************************************************)
Disturbed == calm' = (pc = "idle")

\* An inventory, as the other commands generate it for themselves.
Generated(here, services) ==
  IF here
    THEN pc = "idle" /\ files' = TRUE /\ static' = Fresh(services)
    ELSE UNCHANGED machine

\* Mutant: a VM that has antctl is taken to be provisioned.
ProvisionedBare(vms) ==
  [v \in VM |-> IF v \in vms /\ svc[v] \in {"absent", "bare"} THEN "running"
                ELSE svc[v]]

Provisioned(vms) ==
  [v \in VM |-> IF v \in vms /\ svc[v] \in {"absent", "bare", "empty"} THEN "running"
                ELSE svc[v]]

Created(vms) ==
  [v \in VM |-> IF v \in vms /\ svc[v] = "absent" THEN "bare" ELSE svc[v]]

\* deploy and bootstrap, which know their binaries and read no versions.  The
\* counts are those of before or larger.
Deploy(vms, complete, here) ==
  /\ Existing \subseteq vms /\ vms # {}
  /\ record' = "up"
  /\ svc' = IF complete THEN Provisioned(vms) ELSE Created(vms)
  /\ Generated(here, IF complete THEN svc' ELSE svc)
  /\ Disturbed
  /\ UNCHANGED <<pc, op, sel, todo, due>>

\* upscale, which generates its inventory as the node commands do, and once
\* more with the VMs it created.
Upscale(vms, lost, complete, here) ==
  /\ record = "up"
  /\ Probed # {} => \E v \in Probed : HasServices(v)
  /\ Existing \subseteq vms
  /\ \A v \in vms \ Existing : KindOf[v] \notin {"genesis", "port_restricted"}
  /\ lost \in Losses /\ (complete => lost = Of("port_restricted"))
  /\ svc' = [v \in VM |-> IF v \in vms \ Existing
                            THEN IF complete THEN "running" ELSE "bare"
                            ELSE Destroyed(lost)[v]]
  /\ IF here
       THEN /\ pc = "idle" /\ files' = TRUE
            /\ static' = Outdated(Fresh(Created(vms)), lost)
       ELSE static' = Outdated(static, lost) /\ UNCHANGED files
  /\ due' = due \ lost
  /\ Disturbed
  /\ UNCHANGED <<record, pc, op, sel, todo>>

\* Mutant: genesis is not asked for its address.
ProvisionAlone(k, vms, here) ==
  /\ record = "up"
  /\ k # "genesis" /\ Of(k) # {} /\ vms \subseteq Of(k)
  /\ svc' = Provisioned(vms)
  /\ Generated(here, svc)
  /\ Disturbed
  /\ UNCHANGED <<record, pc, op, sel, todo, due>>

\* provision: all the nodes of a kind but genesis, from which the new nodes
\* get the address they join by.
Provision(k, vms, here) ==
  /\ record = "up"
  /\ \E g \in Of("genesis") : HasServices(g)
  /\ k # "genesis" /\ Of(k) # {} /\ vms \subseteq Of(k)
  /\ svc' = Provisioned(vms)
  /\ Generated(here, svc)
  /\ Disturbed
  /\ UNCHANGED <<record, pc, op, sel, todo, due>>

\* clean.  Given up after the workspace is gone it leaves the details, and
\* the files of the machine.
Clean(complete, here) ==
  /\ record = "up"
  /\ record' = IF complete THEN "none" ELSE "gone"
  /\ svc' = [v \in VM |-> "absent"]
  /\ here => pc = "idle"
  /\ IF complete /\ here
       THEN files' = FALSE /\ static' = [f \in StaticFiles |-> NoFile]
       ELSE /\ static' = [f \in StaticFiles |->
                            IF static[f].vms = {} THEN static[f]
                            ELSE [vms |-> static[f].vms, old |-> TRUE]]
            /\ UNCHANGED files
  /\ due' = {}
  /\ Disturbed
  /\ UNCHANGED <<pc, op, sel, todo>>

\* A command of another operator reaches a VM.
OthersCommand(o, v) ==
  /\ o \in {"start", "stop", "reset"}
  /\ record = "up" /\ svc[v] # "absent" /\ Effect(o, svc[v]) # svc[v]
  /\ svc' = [svc EXCEPT ![v] = Effect(o, svc[v])]
  /\ Disturbed
  /\ UNCHANGED <<record, machine, pc, op, sel, todo, due>>

Others ==
  \/ \E vms \in SUBSET VM, complete, here \in BOOLEAN :
       \/ Deploy(vms, complete, here)
       \/ \E lost \in Losses : Upscale(vms, lost, complete, here)
  \/ \E k \in Kinds, vms \in SUBSET VM, here \in BOOLEAN : Provision(k, vms, here)
  \/ \E complete, here \in BOOLEAN : Clean(complete, here)
  \/ \E o \in AllOps, v \in VM : OthersCommand(o, v)

Next == Command \/ Others

Spec == Init /\ [][Next]_vars

\* A command goes on.  The operator starts the nodes and provisions their kinds
\* again and again, and what is tried again and again does not fail for ever.
FairSpec ==
  /\ Spec
  /\ WF_vars(Begin)
  /\ WF_vars(Return)
  /\ WF_vars(InventoryUnreadable)
  /\ SF_vars(Inventory("start", "all"))
  /\ \A t \in Kinds : SF_vars(Unhindered(t))
  /\ \A k \in Kinds \ {"genesis"} : SF_vars(Provision(k, Of(k), TRUE))

-----------------------------------------------------------------------------
(***************************************************************************)
(* Properties                                                              *)
(***************************************************************************)

\* The code disagrees with the help of three commands about which kinds they
\* act on.  "If not provided, the antnode services on all the node VMs will be
\* upgraded" (cmd/mod.rs:1061): upgrade_nodes runs over four kinds and reports
\* success with the others at their old version (provisioning.rs:1993-2033).
\* upgrade-node-config (cmd/telegraf.rs:68) and configure-swapfile
\* (cmd/mod.rs:295) likewise (provisioning.rs:1906, cmd/misc.rs:164).
LeftOut(o) ==
  CASE o = "upgrade" -> {"full_cone", "port_restricted", "upnp"}
    [] o = "upgrade_telegraf" -> {"genesis", "port_restricted", "upnp"}
    [] o = "configure_swapfile" ->
         {"genesis", "full_cone", "port_restricted", "symmetric", "upnp"}
    [] OTHER -> {}

\* What a command that reports success may have passed over: the kinds that
\* its code leaves out; private nodes that extend-volume-size did not find in
\* the files it was left, or that a playbook that ignores what it cannot reach
\* found in a custom list; and, in an upgrade, VMs that were not provisioned.
Overlooked ==
  {v \in VM : \/ KindOf[v] \in LeftOut(op) /\ (sel = "all" \/ op = "configure_swapfile")
              \/ /\ KindOf[v] \in PrivateKinds
                 /\ op = "extend_volume" \/ (sel = "custom" /\ ~Strict(op))
              \/ Tolerant(op) /\ svc[v] = "bare"}

\* A command that reports success has acted on every VM that its help says it
\* acts on, was there when it listed them and still is, whatever happened in
\* the meantime, but for those of Overlooked.  Of a command that is lenient or
\* tolerant this holds only if no call failed: an upgrade that warns of a kind
\* leaves its versions mixed (provisioning.rs:1632, 1953, ansible/mod.rs:376).
OkMeansReached ==
  pc = "done" /\ (Strict(op) \/ calm) => due \subseteq Overlooked

LeftOver(k) == static[k].old /\ Of(k) = {}

\* The reasons for which a command fails although nothing went wrong.
Excused ==
  \/ record # "up" \/ Counted = {}
  \/ \E v \in Existing : ~HasServices(v)
  \/ \E k \in PrivateKinds : LeftOver(k)
  \/ sel = "custom" /\ \E v \in static["custom"].vms : KindOf[v] \in PrivateKinds
  \/ op = "extend_volume" /\ ~files
  \/ op = "extend_volume" /\ \E k \in PrivateKinds : static[k].old \/ static[k].vms # Of(k)

\* A command during which no call fails and nobody else does anything fails
\* only where the code leaves it no choice: a VM without services, a static
\* file left over from an environment that had private nodes, a private node
\* in a custom list, files that extend-volume-size needs and nobody wrote.
CalmCommandSucceeds == pc = "failed" /\ calm => Excused

\* When every VM of an environment has lost its services, only a deploy or a
\* clean gets it out: the versions cannot be read, and genesis has no address.
LockedOut == record = "up" /\ Probed # {} /\ \A v \in Existing : ~HasServices(v)
LockedOutUntilDeploy ==
  [][LockedOut /\ ~LockedOut' =>
       record' # "up" \/ \E vms \in SUBSET VM, here \in BOOLEAN : Deploy(vms, TRUE, here)]_vars

\* Once nobody stops, resets, removes or adds nodes any more, an operator who
\* provisions and starts, again and again, gets every node running, if genesis
\* keeps its services and no static file is left over: a start that stopped at
\* one kind of node does not keep the next from the rest, and one that could
\* not read the versions can after a provision.
NothingUndone == record' = record /\ \A v \in VM : svc'[v] \in {svc[v], "running"}
Startable ==
  /\ record = "up" /\ \E g \in Of("genesis") : HasServices(g)
  /\ \A k \in PrivateKinds : ~LeftOver(k)
  /\ pc # "apply" /\ op \in {"none", "start"} /\ sel = "all"
StartingStartsAll ==
  <>[][NothingUndone]_vars /\ <>[]Startable
    => <>[](\A v \in Existing : svc[v] = "running")

=============================================================================
