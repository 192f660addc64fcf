-------------------------- MODULE NatGatewaysProofs --------------------------
(***************************************************************************)
(* Proofs about NatGateways, for the three kinds and any number of pairs   *)
(* and of failures.  The inductive invariant says what each step may count on: while a command   *)
(* provisions there is a gateway for every node VM, and before it takes    *)
(* VMs off the Internet it knows the way to those that already are.        *)
(***************************************************************************)
EXTENDS NatGateways, TLAPS, FiniteSetTheorems

Provisioning == pc \in {"step1", "config", "step2", "nodes"}

\* Details exist from the moment there may be private VMs, and a command that
\* reaches a later step has found or written them.
DetailsKept ==
  /\ private # {} => details
  /\ pc = "list" \/ Provisioning => details
  /\ pc = "apply" /\ cmd # "deploy" => details
  /\ pc = "save" => cmd \in {"deploy", "bootstrap"}

\* Gateways and node VMs match wherever a command relies on it.
Paired ==
  /\ pc = "list" \/ (pc = "save" /\ cmd = "deploy") =>
       gateways = nodes \/ gateways = {}
  /\ Provisioning => gateways = nodes

\* A private VM has its gateway, and a command its route to it.
Routed ==
  /\ private \ orphans \subseteq gateways
  /\ pc \in {"save", "apply", "list", "step1", "config"} =>
       kind = "symmetric" \/ private \ orphans \subseteq routes

\* What the steps of a command have achieved so far.
Achieved ==
  /\ pc \in {"step2", "nodes"} => nodes \subseteq private
  /\ Provisioning => batch \subseteq gateways
  /\ Provisioning /\ ~LeavesOut => batch = gateways
  /\ kind = "symmetric" => unfinished = {} /\ pc # "step2"
  /\ kind = "symmetric" /\ pc \in {"config", "nodes"} => batch \subseteq nat
  /\ pc = "nodes" => batch \subseteq nat \cup unfinished

Inv ==
  /\ TypeOK /\ DetailsKept /\ Paired /\ Routed /\ Achieved
  /\ NodesAreBehindNat /\ OkMeansServed /\ CalmRunRepairs

-----------------------------------------------------------------------------
\* What the bounds allow.
LEMMA Bounds ==
  /\ MaxPairs \in Int
  /\ 0 \in 0..MaxPairs /\ 0 \in 0..MaxFailures
  /\ \A n \in 0..MaxPairs : 1..n \subseteq 1..MaxPairs
  /\ \A n \in 0..MaxFailures : n < MaxFailures => n + 1 \in 0..MaxFailures
BY BoundsAssumption

\* Gateways and node VMs are finitely many, so equal sets are all that an equal
\* count leaves once one of them is known to be empty or the other.
LEMMA CountsMatch ==
  ASSUME nodes \subseteq Pairs, nodes # {}, Cardinality(gateways) = Cardinality(nodes),
         gateways = nodes \/ gateways = {}
  PROVE  gateways = nodes
<1>1. IsFiniteSet(nodes)
  <2>1. IsFiniteSet(1..MaxPairs)
    BY Bounds, FS_Interval
  <2> QED
    BY <2>1, FS_Subset DEF Pairs
<1>2. Cardinality(nodes) # 0
  BY <1>1, FS_EmptySet
<1> QED
  BY <1>2, FS_EmptySet

\* The invariant holds before the first command.
LEMMA InitInv == Init => Inv
BY Bounds DEF Init, Inv, LeavesOut, TypeOK, DetailsKept, Paired, Routed, Achieved, Provisioning,
       NodesAreBehindNat, OkMeansServed, CalmRunRepairs, Pairs, Steps

\* A command begins with the routes its inventory gave it.
LEMMA StartInv ==
  ASSUME Inv, NEW c \in {"deploy", "bootstrap", "upscale", "provision"}, Start(c)
  PROVE  Inv'
<1> USE DEF Inv, LeavesOut, gates, Start, vms, state, env
<1>1. TypeOK'
  <2>1. target' \in 0..MaxPairs
    <3>1. IsFiniteSet(nodes)
      <4>1. IsFiniteSet(1..MaxPairs)
        BY Bounds, FS_Interval
      <4> QED
        BY <4>1, FS_Subset DEF TypeOK, Pairs
    <3>2. Cardinality(nodes)..MaxPairs \subseteq 0..MaxPairs
      BY <3>1, FS_CardinalityType, Bounds
    <3> QED
      BY <3>2, Bounds DEF Targets
  <2>2. current' \subseteq Pairs /\ routes' \subseteq Pairs
    BY DEF TypeOK, Inventory
  <2>3. pc' \in {"list", "save", "apply"}
    OBVIOUS
  <2> QED
    BY <2>1, <2>2, <2>3 DEF TypeOK, Steps
<1>2. pc' = "list" => cmd' = "provision" /\ details
  OBVIOUS
<1>3. pc' = "save" => cmd' = "bootstrap"
  OBVIOUS
<1>4. pc' = "apply" => cmd' \in {"deploy", "upscale"}
  OBVIOUS
<1>5. pc' \in {"list", "save", "apply"}
  OBVIOUS
<1>6. DetailsKept'
  BY <1>2, <1>3, <1>4, <1>5 DEF DetailsKept, Provisioning
<1>7. Paired'
  BY <1>2, <1>3, <1>5 DEF Paired, Provisioning, Readable
<1>8. Routed'
  BY DEF Routed, Inventory, DetailsKept
<1>9. Achieved'
  BY <1>5 DEF Achieved, Provisioning
<1>10. (NodesAreBehindNat /\ OkMeansServed /\ CalmRunRepairs)'
  BY <1>5 DEF NodesAreBehindNat, OkMeansServed, CalmRunRepairs
<1> QED
  BY <1>1, <1>6, <1>7, <1>8, <1>9, <1>10

\* A command that is refused changes nothing.
LEMMA RefusedInv ==
  ASSUME Inv, NEW c \in {"deploy", "bootstrap", "upscale", "provision"}, StartRefused(c)
  PROVE  Inv'
BY DEF Inv, LeavesOut, gates, StartRefused, vms, state, env, TypeOK, Steps, DetailsKept, Paired, Routed,
       Achieved, Provisioning, NodesAreBehindNat, OkMeansServed, CalmRunRepairs

\* Once the command ended the invariant asks for no more than what the VMs are.
LEMMA FailInv ==
  ASSUME Inv, pc # "idle", Fail,
         (private \subseteq nodes)', UNCHANGED env,
         UNCHANGED <<gateways, nodes, running>>, (orphans \subseteq private)',
         (nat \subseteq gateways)', (unfinished \subseteq gateways \ nat)',
         (open \subseteq unfinished)', (kind = "symmetric" => unfinished = {})',
         (private # {} => details)', NodesAreBehindNat',
         (private \ orphans \subseteq gateways)'
  PROVE  Inv'
<1> USE DEF Inv, LeavesOut, gates, env, Fail, Finish
<1>1. TypeOK'
  BY Bounds DEF TypeOK, Steps
<1>2. (DetailsKept /\ Paired /\ Routed /\ Achieved)'
  BY DEF DetailsKept, Paired, Routed, Achieved, Provisioning
<1> QED
  BY <1>1, <1>2 DEF OkMeansServed, CalmRunRepairs

\* Saving the details is what `deploy` needs before it provisions.
LEMMA SaveInv == ASSUME Inv, SaveDetails PROVE Inv'
<1> USE DEF Inv, LeavesOut, gates, SaveDetails, Proceed, Finish, plan, vms, state
<1>1. TypeOK'
  BY Bounds DEF TypeOK, Steps
<1>2. DetailsKept'
  BY DEF DetailsKept, Provisioning
<1>3. Paired'
  BY DEF Paired, Provisioning, DetailsKept
<1>4. Routed'
  BY DEF Routed
<1>5. Achieved'
  BY DEF Achieved, Provisioning
<1>6. (NodesAreBehindNat /\ OkMeansServed /\ CalmRunRepairs)'
  BY DEF NodesAreBehindNat, OkMeansServed, CalmRunRepairs
<1> QED
  BY <1>1, <1>2, <1>3, <1>4, <1>5, <1>6

\* A new VM disturbs nothing.
LEMMA CreateInv == ASSUME Inv, CreateVm PROVE Inv'
<1> USE DEF Inv, LeavesOut, gates, CreateVm, plan, env, state
<1>1. TypeOK'
  BY Bounds DEF TypeOK, Steps, Pairs
<1>2. (DetailsKept /\ Paired /\ Routed /\ Achieved)'
  BY DEF DetailsKept, Paired, Routed, Achieved, Provisioning
<1> QED
  BY <1>1, <1>2 DEF NodesAreBehindNat, OkMeansServed, CalmRunRepairs

\* What a gateway that is destroyed leaves behind are orphans.
LEMMA DestroyedKeeps ==
  ASSUME TypeOK, NodesAreBehindNat, private \ orphans \subseteq gateways,
         NEW gs, NEW ns, Destroyed(gs, ns)
  PROVE  /\ (gateways \subseteq Pairs /\ nodes \subseteq Pairs)'
         /\ (nat \subseteq gateways /\ unfinished \subseteq gateways \ nat /\ open \subseteq unfinished)'
         /\ (private \subseteq nodes /\ running \subseteq nodes /\ orphans \subseteq private)'
         /\ (private \ orphans)' \subseteq (private \ orphans) \ ns
         /\ (private \ orphans \subseteq gateways)'
         /\ NodesAreBehindNat'
BY DEF TypeOK, NodesAreBehindNat, Destroyed

LEMMA DestroyInv == ASSUME Inv, DestroyVm PROVE Inv'
<1> USE DEF Inv, LeavesOut, gates
<1>1. PICK gs, ns :
        /\ Destroyed(gs, ns)
        /\ current' \subseteq current /\ routes' \subseteq routes /\ routes \ routes' \subseteq ns
  BY DEF DestroyVm
<1>2. pc = "apply" /\ UNCHANGED <<env, cmd, target, pc, batch, calm, report, failures>>
  BY DEF DestroyVm
<1>3. private \ orphans \subseteq gateways /\ (kind = "symmetric" \/ private \ orphans \subseteq routes)
  BY <1>2 DEF Routed
<1>4. TypeOK'
  BY <1>1, <1>2, <1>3, DestroyedKeeps DEF TypeOK, env
<1>5. /\ kind = "symmetric" \/ (private \ orphans)' \subseteq routes'
      /\ private' \subseteq private /\ unfinished' \subseteq unfinished
  BY <1>1, <1>3, DestroyedKeeps DEF Destroyed
<1>6. (DetailsKept /\ Paired /\ Achieved)'
  BY <1>2, <1>5 DEF DetailsKept, Paired, Achieved, Provisioning, env
<1>7. (Routed /\ NodesAreBehindNat)'
  BY <1>1, <1>2, <1>3, <1>5, DestroyedKeeps DEF Routed, env
<1> QED
  BY <1>2, <1>4, <1>6, <1>7 DEF OkMeansServed, CalmRunRepairs

\* Terraform ends with a gateway for every node VM.
LEMMA AppliedInv == ASSUME Inv, Applied PROVE Inv'
<1> USE DEF Inv, LeavesOut, gates, Applied, Proceed, Finish, plan, vms, state, env
<1>1. TypeOK'
  BY Bounds DEF TypeOK, Steps
<1>2. (DetailsKept /\ Paired)'
  BY DEF DetailsKept, Paired, Provisioning
<1>3. (Routed /\ Achieved)'
  BY DEF Routed, Achieved, Provisioning
<1> QED
  BY <1>1, <1>2, <1>3 DEF NodesAreBehindNat, OkMeansServed, CalmRunRepairs

\* Provisioning goes on with as many gateways as node VMs, which are then the
\* same ones, and leaves gateways out in an upscale only.
LEMMA ListInv == ASSUME Inv, ListPairs PROVE Inv'
<1> USE DEF Inv, LeavesOut, gates, ListPairs, plan, vms, state, env
<1>1. CASE /\ nodes # {} /\ Cardinality(gateways) = Cardinality(nodes) /\ pc' = "step1"
           /\ batch' = IF LeavesOut /\ NewGateways # {} THEN NewGateways ELSE gateways
           /\ UNCHANGED <<cmd, target, current, routes, calm, report, failures>>
  <2>1. gateways = nodes
    BY <1>1, CountsMatch DEF Paired, TypeOK
  <2>2. batch' \subseteq gateways /\ (~LeavesOut => batch' = gateways)
    BY <1>1 DEF NewGateways
  <2>3. UNCHANGED <<cmd, target, current, routes, calm, report, failures>>
    BY <1>1
  <2>4. TypeOK'
    BY <1>1, <2>2, <2>3 DEF TypeOK, Steps
  <2>5. (DetailsKept /\ Paired /\ Routed /\ Achieved)'
    BY <1>1, <2>1, <2>2, <2>3 DEF DetailsKept, Paired, Routed, Achieved, Provisioning
  <2> QED
    BY <1>1, <2>3, <2>4, <2>5 DEF NodesAreBehindNat, OkMeansServed, CalmRunRepairs
<1>2. CASE nodes = {} /\ gateways = {} /\ Finish("ok") /\ UNCHANGED <<calm, failures>>
  <2>1. TypeOK'
    BY <1>2, Bounds DEF TypeOK, Steps, Finish
  <2>2. (DetailsKept /\ Paired /\ Routed /\ Achieved)'
    BY <1>2 DEF DetailsKept, Paired, Routed, Achieved, Provisioning, Finish
  <2> QED
    BY <1>2, <2>1, <2>2 DEF NodesAreBehindNat, OkMeansServed, CalmRunRepairs, Finish, TypeOK
<1>3. CASE Cardinality(gateways) # Cardinality(nodes) /\ Finish("failed")
           /\ UNCHANGED <<calm, failures>>
  <2>1. TypeOK'
    BY <1>3, Bounds DEF TypeOK, Steps, Finish
  <2>2. (DetailsKept /\ Paired /\ Routed /\ Achieved)'
    BY <1>3 DEF DetailsKept, Paired, Routed, Achieved, Provisioning, Finish
  <2>3. gateways' = {}
    BY <1>3 DEF Paired
  <2> QED
    BY <1>3, <2>1, <2>2, <2>3 DEF NodesAreBehindNat, OkMeansServed, CalmRunRepairs, Finish
<1>4. CASE Finish("unrequested") /\ UNCHANGED <<calm, failures>>
  <2>1. TypeOK'
    BY <1>4, Bounds DEF TypeOK, Steps, Finish
  <2>2. (DetailsKept /\ Paired /\ Routed /\ Achieved)'
    BY <1>4 DEF DetailsKept, Paired, Routed, Achieved, Provisioning, Finish
  <2> QED
    BY <1>4, <2>1, <2>2 DEF NodesAreBehindNat, OkMeansServed, CalmRunRepairs, Finish
<1> QED
  BY <1>1, <1>2, <1>3, <1>4

\* Step 1 completes symmetric gateways, and no others.
LEMMA PrepareInv == ASSUME Inv, PrepareGateways PROVE Inv'
<1> USE DEF Inv, LeavesOut, gates
<1>1. PICK done \in SUBSET batch :
        /\ nat' = nat \cup IF kind = "symmetric" THEN done ELSE {}
        /\ (done = batch /\ Proceed("config")) \/ Fail
  BY DEF PrepareGateways, Prepared
<1>2. pc = "step1" /\ UNCHANGED <<vms, unfinished, open, private, running, orphans, env>>
  BY DEF PrepareGateways
<1>3. (nat \subseteq gateways /\ unfinished \subseteq gateways \ nat /\ nodes \subseteq gateways)'
  BY <1>1, <1>2 DEF Achieved, Paired, Provisioning, TypeOK, vms
<1>4. NodesAreBehindNat' /\ nat \subseteq nat'
  BY <1>1, <1>2 DEF NodesAreBehindNat
<1>5. CASE Fail
  BY <1>2, <1>3, <1>4, <1>5, FailInv DEF TypeOK, DetailsKept, Routed, Achieved, vms, env
<1>6. CASE done = batch /\ Proceed("config")
  <2>1. TypeOK'
    BY <1>2, <1>3, <1>6 DEF TypeOK, Steps, Proceed, plan, vms, env
  <2>2. (DetailsKept /\ Paired /\ Routed)'
    BY <1>2, <1>6 DEF DetailsKept, Paired, Routed, Provisioning, Proceed, plan, vms, env
  <2>3. Achieved'
    BY <1>1, <1>2, <1>6 DEF Achieved, Provisioning, Proceed, plan, vms, env
  <2> QED
    BY <1>2, <1>4, <1>6, <2>1, <2>2, <2>3 DEF OkMeansServed, CalmRunRepairs, Proceed
<1> QED
  BY <1>1, <1>5, <1>6

\* The node VMs are all behind their gateways, or the command ends; without a
\* failure or an orphan every one of them answers.
LEMMA ConfigureInv == ASSUME Inv, ConfigureNodes PROVE Inv'
<1> USE DEF Inv, LeavesOut, gates
<1> DEFINE cured(done) == orphans' = IF kind = "symmetric" THEN orphans \ done ELSE orphans
<1>1. pc = "config" /\ UNCHANGED <<vms, gates, running, env>>
  BY DEF ConfigureNodes
<1>2. gateways = nodes /\ details /\ (kind # "symmetric" => private \ orphans \subseteq routes)
  BY <1>1 DEF Paired, DetailsKept, Provisioning, Routed
<1>3. kind = "symmetric" => nodes \subseteq nat
  BY <1>1, <1>2 DEF Achieved, Provisioning
<1>4. ASSUME NEW done \in SUBSET nodes, private' = private \cup done, cured(done)
      PROVE  /\ NodesAreBehindNat' /\ (private \subseteq nodes /\ orphans \subseteq private)'
             /\ (private \ orphans \subseteq gateways)'
  BY <1>1, <1>2, <1>3, <1>4 DEF NodesAreBehindNat, TypeOK, vms
<1>5. CASE \E done \in SUBSET nodes :
             private' = private \cup done /\ cured(done) /\ done # nodes /\ Fail
  BY <1>1, <1>2, <1>4, <1>5, FailInv DEF TypeOK, Achieved, vms, env
<1>6. CASE /\ private' = private \cup nodes /\ cured(nodes)
           /\ Proceed(IF kind = "symmetric" THEN "nodes" ELSE "step2")
  <2>1. private' = nodes
    BY <1>6 DEF TypeOK
  <2>2. NodesAreBehindNat' /\ (orphans \subseteq private)' /\ (private \ orphans \subseteq gateways)'
    BY <1>4, <1>6
  <2>3. TypeOK'
    BY <1>1, <1>6, <2>1, <2>2 DEF TypeOK, Steps, Proceed, plan, vms, env
  <2>4. (DetailsKept /\ Paired /\ Routed)'
    BY <1>1, <1>2, <1>6, <2>1, <2>2
       DEF DetailsKept, Paired, Routed, Provisioning, Proceed, plan, vms, env
  <2>5. Achieved'
    BY <1>1, <1>2, <1>3, <1>6, <2>1 DEF Achieved, Provisioning, Proceed, plan, vms, env
  <2> QED
    BY <1>1, <1>6, <2>2, <2>3, <2>4, <2>5 DEF OkMeansServed, CalmRunRepairs, Proceed
<1>7. CASE (\E i \in nodes : ~Reachable(i)) /\ Finish("failed")
           /\ UNCHANGED <<private, orphans, calm, failures>>
  <2>1. orphans # {} /\ kind # "symmetric"
    BY <1>2, <1>7 DEF Reachable
  <2>2. TypeOK'
    BY <1>1, <1>7, Bounds
       DEF TypeOK, Steps, Finish, vms, env
  <2>3. (DetailsKept /\ Paired /\ Routed /\ Achieved)'
    BY <1>1, <1>2, <1>7
       DEF DetailsKept, Paired, Routed, Achieved, Provisioning, Finish, vms, env, TypeOK
  <2> QED
    BY <1>1, <1>7, <2>1, <2>2, <2>3
       DEF NodesAreBehindNat, OkMeansServed, CalmRunRepairs, Finish, env
<1> QED
  BY <1>5, <1>6, <1>7 DEF ConfigureNodes, AfterConfig

\* Step 2 completes the gateways it was given.
LEMMA CompleteInv == ASSUME Inv, CompleteGateways PROVE Inv'
<1> USE DEF Inv, LeavesOut, gates
<1>1. pc = "step2" /\ kind # "symmetric" /\ UNCHANGED <<vms, private, running, env>>
  BY DEF CompleteGateways, Achieved
<1>2. PICK done, left, through :
        /\ done \subseteq batch /\ left \subseteq batch \ (done \cup nat \cup unfinished)
        /\ through \subseteq left
        /\ nat' = nat \cup (done \ unfinished)
        /\ unfinished' = unfinished \cup left /\ open' = open \cup through
        /\ orphans' = orphans \ (done \ unfinished)
        /\ (done = batch /\ Proceed("nodes")) \/ Fail
  BY DEF CompleteGateways, Completed
<1>3. batch \subseteq gateways /\ nodes \subseteq private /\ gateways = nodes
  BY <1>1 DEF Achieved, Paired, Provisioning
<1>4. (nat \subseteq gateways /\ unfinished \subseteq gateways \ nat /\ open \subseteq unfinished)'
  BY <1>1, <1>2, <1>3 DEF TypeOK, vms
<1>5. (orphans \subseteq private /\ private \ orphans \subseteq gateways)'
  BY <1>1, <1>2, <1>3 DEF TypeOK, vms
<1>6. NodesAreBehindNat'
  BY <1>1, <1>2 DEF NodesAreBehindNat
<1>7. CASE Fail
  BY <1>1, <1>4, <1>5, <1>6, <1>7, FailInv DEF TypeOK, DetailsKept, Achieved, vms, env
<1>8. CASE done = batch /\ Proceed("nodes")
  <2>1. TypeOK'
    BY <1>1, <1>4, <1>5, <1>8 DEF TypeOK, Steps, Proceed, plan, vms, env
  <2>2. (DetailsKept /\ Paired /\ Routed)'
    BY <1>1, <1>5, <1>8 DEF DetailsKept, Paired, Routed, Provisioning, Proceed, plan, vms, env
  <2>3. Achieved'
    BY <1>1, <1>2, <1>8 DEF Achieved, Provisioning, Proceed, plan, vms, env
  <2> QED
    BY <1>1, <1>6, <1>8, <2>1, <2>2, <2>3 DEF OkMeansServed, CalmRunRepairs, Proceed
<1> QED
  BY <1>2, <1>7, <1>8

\* Nodes get onto VMs that are behind a complete gateway, as all VMs are by
\* now; a VM is left out only if an upscale left out its gateway.
LEMMA ProvisionInv == ASSUME Inv, ProvisionNodes PROVE Inv'
<1> USE DEF Inv, LeavesOut, gates
<1> DEFINE able == {i \in nodes : Online(i)}
<1>1. pc = "nodes" /\ UNCHANGED <<vms, gates, private, orphans, env>>
  BY DEF ProvisionNodes
<1>2. PICK done \in SUBSET able :
        /\ running' = running \cup done
        /\ \/ done = nodes /\ Finish("ok") /\ UNCHANGED <<calm, failures>>
           \/ done = able /\ done # nodes /\ Finish("failed") /\ UNCHANGED <<calm, failures>>
           \/ Fail
  BY DEF ProvisionNodes
<1>3. private = nodes /\ gateways = nodes /\ details
  BY <1>1 DEF Achieved, Paired, DetailsKept, Provisioning, TypeOK
<1>4. able \subseteq nat \cup open
  BY <1>3 DEF Online
<1>5. NodesAreBehindNat' /\ (running \subseteq nodes)'
  BY <1>1, <1>2, <1>3, <1>4 DEF NodesAreBehindNat, TypeOK, vms
<1>6. (DetailsKept /\ Paired /\ Routed /\ Achieved)'
  BY <1>1, <1>2, <1>3
     DEF DetailsKept, Paired, Routed, Achieved, Provisioning, Finish, Fail, vms, env, TypeOK
<1>7. TypeOK'
  <2>1. pc' = "idle" /\ report' \in {"ok", "failed"} /\ cmd' = cmd /\ target' = 0
        /\ current' = {} /\ routes' = {} /\ batch' = {} /\ calm' \in BOOLEAN
    BY <1>2 DEF Finish, Fail, TypeOK
  <2>2. failures' \in 0..MaxFailures
    BY <1>2, Bounds DEF Fail, TypeOK
  <2> QED
    BY <1>1, <1>5, <2>1, <2>2, Bounds DEF TypeOK, vms, env
<1>8. CASE done = nodes /\ Finish("ok") /\ UNCHANGED <<calm, failures>>
  <2>1. gateways \subseteq nat \cup open /\ running' = nodes
    BY <1>2, <1>3, <1>4, <1>8 DEF TypeOK
  <2> QED
    BY <1>1, <1>3, <1>5, <1>6, <1>7, <1>8, <2>1
       DEF OkMeansServed, CalmRunRepairs, Finish, vms
<1>9. CASE done # nodes /\ done = able /\ Finish("failed") /\ UNCHANGED <<calm, failures>>
  <2>1. ~(gateways \subseteq nat \cup open)
    BY <1>3, <1>9 DEF Online
  <2>2. (cmd = "upscale" /\ kind = "full_cone") \/ unfinished \ open # {}
    BY <1>1, <2>1 DEF Achieved, Provisioning, TypeOK
  <2> QED
    BY <1>1, <1>5, <1>6, <1>7, <1>9, <2>2 DEF OkMeansServed, CalmRunRepairs, Finish, env
<1>10. CASE Fail
  BY <1>5, <1>6, <1>7, <1>10 DEF OkMeansServed, CalmRunRepairs, Fail, Finish
<1> QED
  BY <1>2, <1>8, <1>9, <1>10

\* A command may stop anywhere.
LEMMA InterruptInv == ASSUME Inv, Interrupt PROVE Inv'
BY FailInv DEF Inv, Achieved, LeavesOut, gates, Interrupt, TypeOK, DetailsKept, Routed, NodesAreBehindNat, vms, state, env

\* `clean` deletes the details only after every VM.
LEMMA CleanInv == ASSUME Inv, Clean PROVE Inv'
<1> USE DEF Inv, LeavesOut, gates
<1>1. pc = "idle" /\ pc' = "idle" /\ cmd' = "clean" /\ calm' = TRUE /\ report' = "none"
      /\ UNCHANGED <<kind, options, pc, target, current, routes, batch>>
  BY DEF Clean
<1>2. PICK gs, ns : Destroyed(gs, ns) /\ (details' = details \/ (gs = gateways /\ ns = nodes))
  BY DEF Clean
<1>3. failures' \in 0..MaxFailures /\ details' \in BOOLEAN
  BY Bounds DEF Clean, TypeOK
<1>4. private \ orphans \subseteq gateways
  BY DEF Routed
<1>5. TypeOK'
  BY <1>1, <1>2, <1>3, <1>4, DestroyedKeeps DEF TypeOK
<1>6. (private # {} => details)' /\ unfinished' \subseteq unfinished
  BY <1>2 DEF Destroyed, DetailsKept, TypeOK
<1>7. (DetailsKept /\ Paired /\ Achieved)'
  BY <1>1, <1>6 DEF DetailsKept, Paired, Achieved, Provisioning
<1>8. (Routed /\ NodesAreBehindNat)'
  BY <1>1, <1>2, <1>4, DestroyedKeeps DEF Routed
<1> QED
  BY <1>1, <1>5, <1>7, <1>8 DEF OkMeansServed, CalmRunRepairs

\* Nothing changes in a step that changes no variable.
LEMMA StutterInv == ASSUME Inv, UNCHANGED vars PROVE Inv'
BY DEF Inv, LeavesOut, gates, vars, vms, state, env, plan, TypeOK, Steps, DetailsKept, Paired, Routed,
       Achieved, Provisioning, NodesAreBehindNat, OkMeansServed, CalmRunRepairs

-----------------------------------------------------------------------------
\* The invariant holds whatever sequence of commands, failures and interrupts.
THEOREM NatInvariant == Spec => []Inv
<1>1. Inv /\ [Next]_vars => Inv'
  BY StartInv, RefusedInv, SaveInv, CreateInv, DestroyInv, AppliedInv, ListInv, PrepareInv,
     ConfigureInv, CompleteInv, ProvisionInv, InterruptInv, CleanInv, StutterInv DEF Next
<1> QED
  BY InitInv, <1>1, PTL DEF Spec

\* The variables keep their types, in particular nothing is known of a gateway
\* or a VM that is gone (provisioning.rs:745-964).
THEOREM TypeCorrect == Spec => []TypeOK
<1>1. Inv => TypeOK
  BY DEF Inv
<1> QED
  BY <1>1, NatInvariant, PTL

\* No command loses its way to a VM whose gateway was not destroyed
\* (provisioning.rs:886-904, inventory.rs:300-318).
THEOREM KeepsItsWay == Spec => []NoneUnreachable
<1>1. Inv => NoneUnreachable
  BY DEF Inv, NoneUnreachable, Routed, Reachable
<1> QED
  BY <1>1, NatInvariant, PTL

\* Private nodes run behind a gateway that translates for them
\* (provisioning.rs:907-960).
THEOREM AlwaysBehindNat == Spec => []NodesAreBehindNat
<1>1. Inv => NodesAreBehindNat
  BY DEF Inv
<1> QED
  BY <1>1, NatInvariant, PTL

\* Success means that every private node is served (provisioning.rs:759-968).
THEOREM SuccessMeansServed == Spec => []OkMeansServed
<1>1. Inv => OkMeansServed
  BY DEF Inv
<1> QED
  BY <1>1, NatInvariant, PTL

\* A command for all gateways that meets no failure of its own and no orphan
\* succeeds, whatever failed before it (deploy.rs:328-345).
THEOREM Repairs == Spec => []CalmRunRepairs
<1>1. Inv => CalmRunRepairs
  BY DEF Inv
<1> QED
  BY <1>1, NatInvariant, PTL
=============================================================================
