------------------------- MODULE NodeCommandsProofs -------------------------
(***************************************************************************)
(* What holds of the node commands whatever VMs an environment has and     *)
(* whatever fails: the types, that success means that every VM was         *)
(* reached, that a failure without a failing call has one of a few         *)
(* reasons, and that only a deploy ends a lock-out.                        *)
(***************************************************************************)
EXTENDS NodeCommands, TLAPS

-----------------------------------------------------------------------------
(***************************************************************************)
(* What playbooks make of services.                                        *)
(***************************************************************************)

\* A playbook neither creates nor removes a VM, and gives none services that
\* has none (playbooks start_nodes, stop_nodes, reset_nodes, upgrade_nodes).
LEMMA EffectFacts ==
  ASSUME NEW o, NEW s \in Services \ {"absent"}
  PROVE  /\ Effect(o, s) \in Services \ {"absent"}
         /\ s = "bare" => Effect(o, s) = "bare"
         /\ s = "empty" => Effect(o, s) = "empty"
<1>1. Effect(o, s) \in {s, "running", "stopped", "empty"}
  BY DEF Effect
<1>2. s = "bare" => Effect(o, s) = "bare"
  BY DEF Effect
<1>3. s = "empty" => Effect(o, s) = "empty"
  BY DEF Effect
<1> QED BY <1>1, <1>2, <1>3 DEF Services

\* The same of what a playbook leaves where it fails.
LEMMA RemainsFacts ==
  ASSUME NEW o, NEW s \in Services \ {"absent"}, NEW left \in Remains(o, s)
  PROVE  /\ left \in Services \ {"absent"}
         /\ s = "bare" => left = "bare"
         /\ s = "empty" => left = "empty"
<1>1. left \in {s, Effect(o, s), "empty"}
  BY DEF Remains
<1>2. s = "bare" => left # "empty" \/ left = Effect(o, s)
  BY EffectFacts DEF Remains, Services
<1> QED BY <1>1, <1>2, EffectFacts DEF Services

-----------------------------------------------------------------------------
(***************************************************************************)
(* Types.                                                                  *)
(***************************************************************************)

LEMMA FreshType ==
  ASSUME TypeOK, NEW services
  PROVE  Fresh(services) \in [StaticFiles -> File]
<1> SUFFICES ASSUME NEW f \in StaticFiles PROVE Fresh(services)[f] \in File
  BY DEF Fresh
<1>1. static[f] \in File
  BY DEF TypeOK
<1>2. [vms |-> {v \in VM : KindOf[v] = f /\ services[v] # "absent"}, old |-> FALSE] \in File
  BY DEF File
<1> QED BY <1>1, <1>2 DEF Fresh

LEMMA NoFileType == NoFile \in File
  BY DEF NoFile, File

\* Forgetting a custom list.
LEMMA ForgetType ==
  ASSUME TypeOK, Forget
  PROVE  TypeOK'
<1>1. static' \in [StaticFiles -> File]
  BY NoFileType DEF Forget, TypeOK
<1> QED BY <1>1 DEF Forget, TypeOK, Pcs, Selections

LEMMA TargetsType ==
  ASSUME NEW o, NEW s \in Selections
  PROVE  Targets(o, s) \subseteq Kinds \cup {"custom"}
  BY DEF Targets, PlanKinds, Selections

\* What is asked for is there, in a kind the command runs over or leaves out.
LEMMA AskedFacts ==
  ASSUME NEW o \in AllOps, NEW s \in Selections \ {"custom"}, MaySelect(o, s),
         NEW v \in Asked(o, s)
  PROVE  /\ v \in Existing
         /\ \/ \E k \in Targets(o, s) : v \in Of(k)
            \/ KindOf[v] \in LeftOut(o) /\ (s = "all" \/ o = "configure_swapfile")
<1>1. PICK k \in AskedKinds(o, s) : v \in Of(k)
  BY DEF Asked
<1>2. v \in Existing /\ KindOf[v] = k
  BY <1>1 DEF Of
<1>3. k \in Kinds /\ k \in AllKinds
  BY <1>2, KindOfAssumption DEF Existing, Kinds
<1>4. k \in Targets(o, s) \/ (k \in LeftOut(o) /\ (s = "all" \/ o = "configure_swapfile"))
  <2>1. CASE s = "all"
    <3>1. (\E a \in DOMAIN Plan(o) : Plan(o)[a] = k) \/ k \in LeftOut(o) \/ k \in Targets(o, s)
      <4>1. CASE o = "upgrade"
        <5>1. Plan(o) = <<"peer_cache", "generic", "symmetric", "genesis">>
          BY <4>1 DEF Plan
        <5>2. k \in {Plan(o)[1], Plan(o)[2], Plan(o)[3], Plan(o)[4]} \/ k \in LeftOut(o)
          BY <1>3, <4>1, <5>1 DEF AllKinds, LeftOut
        <5> QED BY <5>1, <5>2
      <4>2. CASE o = "upgrade_telegraf"
        <5>1. Plan(o) = <<"peer_cache", "generic", "symmetric", "full_cone">>
          BY <4>2 DEF Plan
        <5>2. k \in {Plan(o)[1], Plan(o)[2], Plan(o)[3], Plan(o)[4]} \/ k \in LeftOut(o)
          BY <1>3, <4>2, <5>1 DEF AllKinds, LeftOut
        <5> QED BY <5>1, <5>2
      <4>3. CASE o = "configure_swapfile"
        <5>1. Plan(o) = <<"generic", "peer_cache">>
          BY <4>3 DEF Plan
        <5>2. k \in {Plan(o)[1], Plan(o)[2]} \/ k \in LeftOut(o)
          BY <1>3, <4>3, <5>1 DEF AllKinds, LeftOut
        <5> QED BY <5>1, <5>2
      <4>4. CASE o \in {"upgrade_nginx", "upgrade_geoip", "extend_volume"}
        BY <1>1, <4>4 DEF AskedKinds
      <4>5. CASE o \notin {"upgrade", "upgrade_telegraf", "configure_swapfile",
                          "upgrade_nginx", "upgrade_geoip", "extend_volume"}
        <5>1. Plan(o) = IterNodeType
          BY <4>5 DEF Plan
        <5>2. k \in {IterNodeType[1], IterNodeType[2], IterNodeType[3], IterNodeType[4],
                     IterNodeType[5], IterNodeType[6], IterNodeType[7]}
          BY <1>3 DEF AllKinds, IterNodeType
        <5> QED BY <5>1, <5>2 DEF IterNodeType
      <4> QED BY <4>1, <4>2, <4>3, <4>4, <4>5
    <3> QED BY <1>3, <2>1, <3>1 DEF Targets, PlanKinds
  <2>2. CASE s # "all" /\ o = "configure_swapfile"
    <3>1. s = "generic"
      BY <2>2 DEF MaySelect, NoList
    <3> QED BY <1>1, <1>3, <2>2, <3>1 DEF AskedKinds, Targets, LeftOut, AllKinds
  <2>3. CASE s # "all" /\ o # "configure_swapfile"
    BY <1>1, <2>3 DEF AskedKinds
  <2> QED BY <2>1, <2>2, <2>3
<1> QED BY <1>1, <1>2, <1>4

LEMMA ProvisionedType ==
  ASSUME TypeOK, NEW vms
  PROVE  /\ Provisioned(vms) \in [VM -> Services]
         /\ Created(vms) \in [VM -> Services]
  BY DEF TypeOK, Provisioned, Created, Services

LEMMA DestroyedType ==
  ASSUME TypeOK, NEW lost
  PROVE  Destroyed(lost) \in [VM -> Services]
  BY DEF TypeOK, Destroyed, Services

LEMMA OutdatedType ==
  ASSUME NEW those \in [StaticFiles -> File], NEW lost
  PROVE  Outdated(those, lost) \in [StaticFiles -> File]
<1>1. \A file \in File : [vms |-> file.vms, old |-> file.vms # {}] \in File
  BY DEF File
<1> QED BY <1>1 DEF Outdated

\* What a playbook run does to the services and to the command's state.
LEMMA RunType ==
  ASSUME TypeOK, NEW t, NEW down \in SUBSET Reachable(t),
         NEW broken \in SUBSET (Reachable(t) \ down), Run(t, down, broken)
  PROVE  TypeOK'
<1>1. Reachable(t) \subseteq Existing
  BY DEF Reachable, Of
<1>2. svc' \in [VM -> Services]
  <2>1. PICK left \in [broken -> Services] :
          /\ \A v \in broken : left[v] \in Remains(op, svc[v])
          /\ svc' = [v \in VM |-> IF v \in Reachable(t) \ (down \cup broken)
                                    THEN Effect(op, svc[v])
                                    ELSE IF v \in broken THEN left[v] ELSE svc[v]]
    BY DEF Run
  <2>2. \A v \in Reachable(t) : Effect(op, svc[v]) \in Services
    BY <1>1, EffectFacts DEF TypeOK, Existing
  <2> QED BY <2>1, <2>2 DEF TypeOK
<1>3. /\ todo' \subseteq Kinds \cup {"custom"} /\ due' \subseteq VM
      /\ pc' \in Pcs /\ calm' \in BOOLEAN
  BY DEF Run, TypeOK, After, Fail, Pcs
<1> QED BY <1>2, <1>3 DEF Run, TypeOK, machine

\* The initial state has its types.
LEMMA InitType ==
  ASSUME Init
  PROVE  TypeOK
<1>1. svc \in [VM -> Services]
  BY DEF Init, Services
<1>2. static \in [StaticFiles -> File]
  BY NoFileType DEF Init
<1> QED BY <1>1, <1>2 DEF Init, TypeOK, Selections, Pcs

\* Every step keeps them.
LEMMA StepType ==
  ASSUME TypeOK, [Next]_vars
  PROVE  TypeOK'
<1>1. CASE Begin
  BY <1>1 DEF Begin, TypeOK, machine, Pcs
<1>2. CASE Return \/ Interrupt
  BY <1>2, ForgetType DEF Return, Interrupt
<1>3. ASSUME NEW o \in Ops, NEW s \in Selections, Inventory(o, s) PROVE TypeOK'
  <2>1. static' \in [StaticFiles -> File]
    <3>1. Fresh(svc) \in [StaticFiles -> File]
      BY FreshType
    <3>2. \A list \in SUBSET Existing : [vms |-> list, old |-> FALSE] \in File
      BY DEF File, Existing
    <3> QED BY <1>3, <3>1, <3>2 DEF Inventory
  <2>2. todo' \subseteq Kinds \cup {"custom"} /\ due' \subseteq VM
    BY <1>3, TargetsType DEF Inventory, GoOn, Asked, Existing, Of
  <2>3. pc' \in Pcs /\ op' \in AllOps /\ sel' \in Selections
    BY <1>3, OpsAssumption DEF Inventory, GoOn, Pcs
  <2> QED BY <1>3, <2>1, <2>2, <2>3 DEF Inventory, TypeOK
<1>4. CASE InventoryUnreadable \/ InventoryRefused \/ InventoryFails
  BY <1>4, FreshType
     DEF InventoryUnreadable, InventoryRefused, InventoryFails, Fail, TypeOK, Pcs
<1>5. ASSUME NEW s \in Selections, ApplyVolumes(s) PROVE TypeOK'
  <2>1. todo' \subseteq Kinds \cup {"custom"} /\ due' \subseteq VM
    BY <1>5, TargetsType DEF ApplyVolumes, GoOn, Asked, Existing, Of
  <2>2. pc' \in Pcs /\ op' \in AllOps /\ sel' \in Selections
    BY <1>5 DEF ApplyVolumes, GoOn, Pcs, AllOps
  <2>3. svc' \in [VM -> Services] /\ static' \in [StaticFiles -> File]
    BY <1>5, DestroyedType, OutdatedType DEF ApplyVolumes, TypeOK
  <2> QED BY <1>5, <2>1, <2>2, <2>3 DEF ApplyVolumes, TypeOK
<1>6. CASE ApplyVolumesFails
  <2>1. svc' \in [VM -> Services] /\ static' \in [StaticFiles -> File]
    BY <1>6, DestroyedType, OutdatedType DEF ApplyVolumesFails, TypeOK
  <2> QED BY <1>6, <2>1 DEF ApplyVolumesFails, Fail, TypeOK, Pcs
<1>7. ASSUME NEW t \in Kinds \cup {"custom"}, Playbook(t) PROVE TypeOK'
  BY <1>7, RunType DEF Playbook
<1>8. CASE PlaybookMissing \/ Status
  BY <1>8 DEF PlaybookMissing, Status, Fail, TypeOK, machine, Pcs
<1>9. ASSUME NEW vms \in SUBSET VM, NEW complete \in BOOLEAN, NEW here \in BOOLEAN,
             Deploy(vms, complete, here)
      PROVE  TypeOK'
  BY <1>9, ProvisionedType, FreshType
     DEF Deploy, Generated, Disturbed, TypeOK, machine
<1>10. ASSUME NEW vms \in SUBSET VM, NEW lost \in Losses, NEW complete \in BOOLEAN,
              NEW here \in BOOLEAN, Upscale(vms, lost, complete, here)
       PROVE  TypeOK'
  <2>1. svc' \in [VM -> Services]
    BY <1>10, DestroyedType DEF Upscale, Services
  <2>2. static' \in [StaticFiles -> File]
    <3>1. PICK those \in [StaticFiles -> File] : static' = Outdated(those, lost)
      <4>1. CASE here
        BY <1>10, <4>1, FreshType DEF Upscale
      <4>2. CASE ~here
        BY <1>10, <4>2 DEF Upscale, TypeOK
      <4> QED BY <4>1, <4>2
    <3> QED BY <3>1, OutdatedType
  <2> QED BY <1>10, <2>1, <2>2 DEF Upscale, Disturbed, TypeOK
<1>11. ASSUME NEW k \in Kinds, NEW vms \in SUBSET VM, NEW here \in BOOLEAN,
              Provision(k, vms, here)
       PROVE  TypeOK'
  BY <1>11, ProvisionedType, FreshType
     DEF Provision, Generated, Disturbed, TypeOK, machine
<1>12. ASSUME NEW complete \in BOOLEAN, NEW here \in BOOLEAN, Clean(complete, here)
       PROVE  TypeOK'
  <2>1. svc' \in [VM -> Services]
    BY <1>12 DEF Clean, Services
  <2>2. static' \in [StaticFiles -> File]
    <3>1. \A f \in StaticFiles :
            /\ static[f] \in [vms : SUBSET VM, old : BOOLEAN]
            /\ [vms |-> static[f].vms, old |-> TRUE] \in [vms : SUBSET VM, old : BOOLEAN]
      BY DEF TypeOK, File
    <3> QED BY <1>12, <3>1, NoFileType DEF Clean, File
  <2> QED BY <1>12, <2>1, <2>2 DEF Clean, Disturbed, TypeOK
<1>13. ASSUME NEW o \in AllOps, NEW v \in VM, OthersCommand(o, v) PROVE TypeOK'
  <2>1. Effect(o, svc[v]) \in Services
    BY <1>13, EffectFacts DEF OthersCommand, TypeOK
  <2> QED BY <1>13, <2>1 DEF OthersCommand, Disturbed, TypeOK, machine
<1>14. CASE UNCHANGED vars
  BY <1>14 DEF vars, TypeOK
<1> QED BY <1>1, <1>2, <1>3, <1>4, <1>5, <1>6, <1>7, <1>8, <1>9, <1>10, <1>11,
           <1>12, <1>13, <1>14 DEF Next, Command, Others

\* Every variable keeps its type, in every command and whatever others do.
THEOREM TypeCorrect == Spec => []TypeOK
<1>1. TypeOK /\ [Next]_vars => TypeOK'
  BY StepType
<1> QED BY <1>1, InitType, PTL DEF Spec

-----------------------------------------------------------------------------
(***************************************************************************)
(* The inductive invariant.  The first part says what the static files are *)
(* worth, the second what a command has still before it, the third what    *)
(* the inventory left for its playbooks if nobody disturbed it since.      *)
(***************************************************************************)
StaticFilesHold ==
  /\ \A f \in StaticFiles : ~static[f].old =>
       \A v \in static[f].vms :
         v \in Existing \/ (f = "custom" /\ KindOf[v] \in PrivateKinds)
  /\ \A k \in PrivateKinds : \A v \in static[k].vms : KindOf[v] = k

\* A VM is still before the command: an inventory to come lists it and, for a
\* command that does not fail where it reaches nothing, reaches it.
Ahead(v) ==
  \E t \in todo : v \in Listed(t) /\ (Strict(op) \/ v \in Reachable(t))

DueIsAhead ==
  Strict(op) \/ calm =>
    /\ pc = "playbooks" => \A v \in due : v \in Overlooked \/ Ahead(v)
    /\ pc \in {"status", "done"} => due \subseteq Overlooked

FreshWhileCalm ==
  calm /\ pc = "playbooks" =>
    /\ "custom" \in todo => sel = "custom" /\ ~static["custom"].old
    /\ op # "extend_volume" =>
         /\ files
         /\ \A k \in PrivateKinds :
              Of(k) # {} => static[k] = [vms |-> Of(k), old |-> FALSE]

IInv ==
  /\ TypeOK
  /\ StaticFilesHold
  /\ DueIsAhead
  /\ FreshWhileCalm
  /\ CalmCommandSucceeds

-----------------------------------------------------------------------------
(***************************************************************************)
(* The shapes of the steps.                                                *)
(***************************************************************************)

\* A file that is written lists the VMs of its kind; another stays.
LEMMA FreshFacts ==
  ASSUME NEW services, NEW f \in StaticFiles
  PROVE  \/ Fresh(services)[f] = static[f]
         \/ Fresh(services)[f] =
              [vms |-> {v \in VM : KindOf[v] = f /\ services[v] # "absent"}, old |-> FALSE]
  BY DEF Fresh

\* A kind that has VMs has its file written.
LEMMA FreshWrites ==
  ASSUME NEW k \in PrivateKinds, Of(k) # {}
  PROVE  Fresh(svc)[k] = [vms |-> Of(k), old |-> FALSE]
<1>1. Of(k) = {v \in VM : KindOf[v] = k /\ svc[v] # "absent"}
  BY DEF Of, Existing
<1> QED BY <1>1 DEF Fresh, StaticFiles

\* "custom" is no kind of node.
LEMMA CustomIsNoKind == "custom" \notin Kinds /\ "custom" \notin PrivateKinds
  BY KindOfAssumption DEF Kinds, AllKinds, PrivateKinds

\* A playbook adds and removes no VM, and gives none services that has none.
LEMMA RunShape ==
  ASSUME TypeOK, NEW t, NEW down \in SUBSET Reachable(t),
         NEW broken \in SUBSET (Reachable(t) \ down), Run(t, down, broken)
  PROVE  /\ Existing' = Existing
         /\ \A v \in VM : svc[v] \in {"bare", "empty"} => svc'[v] = svc[v]
<1>1. Reachable(t) \subseteq Existing
  BY DEF Reachable, Of
<1>2. PICK left \in [broken -> Services] :
        /\ \A v \in broken : left[v] \in Remains(op, svc[v])
        /\ svc' = [v \in VM |-> IF v \in Reachable(t) \ (down \cup broken)
                                  THEN Effect(op, svc[v])
                                  ELSE IF v \in broken THEN left[v] ELSE svc[v]]
  BY DEF Run
<1>3. ASSUME NEW v \in VM
      PROVE  /\ svc'[v] # "absent" <=> svc[v] # "absent"
             /\ svc[v] \in {"bare", "empty"} => svc'[v] = svc[v]
  <2>1. CASE v \in Reachable(t) \ (down \cup broken)
    <3>1. svc[v] \in Services \ {"absent"} /\ svc'[v] = Effect(op, svc[v])
      BY <1>1, <1>2, <2>1 DEF TypeOK, Existing
    <3> QED BY <3>1, EffectFacts
  <2>2. CASE v \in broken
    <3>1. svc[v] \in Services \ {"absent"} /\ svc'[v] \in Remains(op, svc[v])
      BY <1>1, <1>2, <2>2 DEF TypeOK, Existing
    <3> QED BY <3>1, RemainsFacts
  <2>3. CASE v \notin Reachable(t) \ (down \cup broken) /\ v \notin broken
    BY <1>2, <2>3
  <2> QED BY <2>1, <2>2, <2>3
<1> QED BY <1>3 DEF Existing

\* What others do adds VMs and may remove port restricted ones, or removes them
\* all.  A file that they write on this machine lists what there is.
Lists(base, lost) ==
  \/ base = static
  \/ \E services :
       /\ pc = "idle" /\ base = Fresh(services)
       /\ {v \in VM : services[v] # "absent"} \subseteq Existing' \cup lost
Lost(lost) ==
  /\ lost \subseteq VM /\ \A v \in lost : KindOf[v] = "port_restricted"
  /\ Existing \ lost \subseteq Existing'
Grown ==
  \E lost, base :
    /\ Lost(lost) /\ Lists(base, lost)
    /\ due' = due \ lost /\ static' = Outdated(base, lost)
Cleaned ==
  /\ due' = {}
  /\ \A f \in StaticFiles :
       \/ static'[f] = NoFile
       \/ static'[f].vms = static[f].vms /\ (~static'[f].old => static[f].vms = {})

\* What others do that loses nothing.
LEMMA KeptIsGrown ==
  ASSUME Existing \subseteq Existing', due' = due,
         \/ static' = static
         \/ pc = "idle" /\ static' \in {Fresh(svc), Fresh(svc')}
  PROVE  Grown
<1>1. Lost({})
  BY DEF Lost
<1>2. Lists(static', {})
  <2>1. CASE static' = static
    BY <2>1 DEF Lists
  <2>2. CASE pc = "idle" /\ static' = Fresh(svc)
    BY <2>2 DEF Lists, Existing
  <2>3. CASE pc = "idle" /\ static' = Fresh(svc')
    BY <2>3 DEF Lists, Existing
  <2> QED BY <2>1, <2>2, <2>3
<1>3. Outdated(static', {}) = static' /\ due' = due \ {}
  BY DEF Outdated
<1> QED BY <1>1, <1>2, <1>3 DEF Grown

\* What an apply may destroy.
LEMMA LossesFacts ==
  ASSUME NEW lost \in Losses
  PROVE  lost \subseteq Existing /\ \A v \in lost : KindOf[v] = "port_restricted"
  BY DEF Losses, Of

LEMMA OthersShape ==
  ASSUME TypeOK, Others
  PROVE  /\ UNCHANGED <<pc, op, sel, todo>>
         /\ pc # "idle" => calm' = FALSE
         /\ Grown \/ Cleaned
<1>1. ASSUME NEW vms \in SUBSET VM, NEW complete \in BOOLEAN, NEW here \in BOOLEAN,
             Deploy(vms, complete, here)
      PROVE  Grown
  <2>1. Existing \subseteq Existing'
    BY <1>1 DEF Deploy, Provisioned, Created, Existing
  <2> QED BY <1>1, <2>1, KeptIsGrown DEF Deploy, Generated, machine
<1>2. ASSUME NEW vms \in SUBSET VM, NEW lost \in Losses, NEW complete \in BOOLEAN,
             NEW here \in BOOLEAN, Upscale(vms, lost, complete, here)
      PROVE  Grown
  <2>1. \A v \in vms \ lost : v \in Existing'
    BY <1>2 DEF Upscale, Destroyed, Existing
  <2>2. Lost(lost)
    BY <1>2, <2>1, LossesFacts DEF Upscale, Lost, Existing
  <2>3. {v \in VM : Created(vms)[v] # "absent"} \subseteq Existing' \cup lost
    BY <1>2, <2>1 DEF Upscale, Created, Existing
  <2>4. PICK base : Lists(base, lost) /\ static' = Outdated(base, lost)
    BY <1>2, <2>3 DEF Upscale, Lists
  <2> QED BY <1>2, <2>2, <2>4 DEF Upscale, Grown
<1>3. ASSUME NEW k \in Kinds, NEW vms \in SUBSET VM, NEW here \in BOOLEAN,
             Provision(k, vms, here)
      PROVE  Grown
  <2>1. Existing \subseteq Existing'
    BY <1>3 DEF Provision, Provisioned, Existing
  <2> QED BY <1>3, <2>1, KeptIsGrown DEF Provision, Generated, machine
<1>4. ASSUME NEW complete \in BOOLEAN, NEW here \in BOOLEAN, Clean(complete, here)
      PROVE  Cleaned
  <2>1. CASE complete /\ here
    BY <1>4, <2>1 DEF Clean, Cleaned
  <2>2. CASE ~(complete /\ here)
    <3>1. ASSUME NEW f \in StaticFiles
          PROVE  /\ static'[f].vms = static[f].vms
                 /\ ~static'[f].old => static[f].vms = {}
      BY <1>4, <2>2 DEF Clean
    <3> QED BY <1>4, <3>1 DEF Clean, Cleaned
  <2> QED BY <2>1, <2>2
<1>5. ASSUME NEW o \in AllOps, NEW v \in VM, OthersCommand(o, v) PROVE Grown
  <2>1. Effect(o, svc[v]) # "absent"
    BY <1>5, EffectFacts DEF OthersCommand, TypeOK
  <2>2. Existing \subseteq Existing'
    BY <1>5, <2>1 DEF OthersCommand, Existing, TypeOK
  <2> QED BY <1>5, <2>2, KeptIsGrown DEF OthersCommand, machine
<1>6. UNCHANGED <<pc, op, sel, todo>> /\ (pc # "idle" => calm' = FALSE)
  BY DEF Others, Deploy, Upscale, Provision, Clean, OthersCommand, Disturbed
<1> QED BY <1>1, <1>2, <1>3, <1>4, <1>5, <1>6 DEF Others

-----------------------------------------------------------------------------
(***************************************************************************)
(* The static files.                                                       *)
(***************************************************************************)

\* What is written lists VMs that are there, of the kind of the file.
LEMMA FilesHoldAfter ==
  ASSUME StaticFilesHold, Existing \subseteq Existing',
         \A f \in StaticFiles :
           \/ static'[f] = static[f]
           \/ /\ static'[f].vms \subseteq Existing'
              /\ f \in PrivateKinds => \A v \in static'[f].vms : KindOf[v] = f
  PROVE  StaticFilesHold'
<1>1. PrivateKinds \subseteq StaticFiles
  BY DEF StaticFiles
<1> QED BY <1>1 DEF StaticFilesHold

\* So does what is marked as old where VMs are lost.
LEMMA LossHolds ==
  ASSUME TypeOK, StaticFilesHold, NEW lost, NEW base, Lost(lost), Lists(base, lost),
         static' = Outdated(base, lost)
  PROVE  StaticFilesHold'
<1>1. base \in [StaticFiles -> File]
  BY FreshType DEF Lists, TypeOK
<1>2. ASSUME NEW f \in StaticFiles
      PROVE  /\ ~base[f].old => \A v \in base[f].vms :
                  \/ v \in Existing' \cup lost
                  \/ f = "custom" /\ KindOf[v] \in PrivateKinds
             /\ f \in PrivateKinds => \A v \in base[f].vms : KindOf[v] = f
  <2>1. CASE base[f] = static[f]
    BY <2>1 DEF StaticFilesHold, Lost
  <2>2. CASE base[f] # static[f]
    <3>1. PICK services :
            /\ base = Fresh(services)
            /\ {v \in VM : services[v] # "absent"} \subseteq Existing' \cup lost
      BY <2>2 DEF Lists
    <3>2. base[f].vms = {v \in VM : KindOf[v] = f /\ services[v] # "absent"}
      BY <2>2, <3>1 DEF Fresh
    <3> QED BY <3>1, <3>2
  <2> QED BY <2>1, <2>2
<1>3. ASSUME NEW f \in StaticFiles
      PROVE  /\ static'[f].vms = base[f].vms
             /\ f # "port_restricted" \/ lost = {} => static'[f] = base[f]
             /\ f = "port_restricted" /\ lost # {} =>
                  static'[f].old \/ static'[f].vms = {}
  BY <1>1 DEF Outdated
<1>4. ASSUME NEW f \in StaticFiles, ~static'[f].old, NEW v \in static'[f].vms
      PROVE  v \in Existing' \/ (f = "custom" /\ KindOf[v] \in PrivateKinds)
  <2>1. static'[f] = base[f]
    BY <1>3, <1>4
  <2>2. v \in Existing' \cup lost \/ (f = "custom" /\ KindOf[v] \in PrivateKinds)
    BY <1>2, <1>4, <2>1
  <2>3. ASSUME v \in lost PROVE f = "custom" /\ KindOf[v] \in PrivateKinds
    <3>1. KindOf[v] = "port_restricted" /\ f # "port_restricted"
      BY <1>3, <1>4, <2>3 DEF Lost
    <3>2. f \notin PrivateKinds
      BY <1>2, <1>4, <2>1, <3>1
    <3> QED BY <3>1, <3>2 DEF StaticFiles, PrivateKinds
  <2> QED BY <2>2, <2>3
<1> QED BY <1>2, <1>3, <1>4 DEF StaticFilesHold, StaticFiles

\* A listing written to the files is such a one.
LEMMA FreshHolds ==
  ASSUME NEW services, NEW f \in StaticFiles,
         {v \in VM : services[v] # "absent"} \subseteq Existing'
  PROVE  \/ Fresh(services)[f] = static[f]
         \/ /\ Fresh(services)[f].vms \subseteq Existing'
            /\ f \in PrivateKinds => \A v \in Fresh(services)[f].vms : KindOf[v] = f
<1>1. {v \in VM : KindOf[v] = f /\ services[v] # "absent"} \subseteq Existing'
  OBVIOUS
<1>2. CASE Fresh(services)[f] = static[f]
  BY <1>2
<1>3. CASE Fresh(services)[f] =
             [vms |-> {v \in VM : KindOf[v] = f /\ services[v] # "absent"}, old |-> FALSE]
  BY <1>1, <1>3
<1> QED BY <1>2, <1>3, FreshFacts

\* A static file that is not left over lists VMs that exist, of its kind.
LEMMA StaticFilesStep ==
  ASSUME TypeOK, StaticFilesHold, [Next]_vars
  PROVE  StaticFilesHold'
<1>1. CASE Others
  <2>1. CASE Grown
    BY <2>1, LossHolds DEF Grown
  <2>2. CASE Cleaned
    <3>1. ASSUME NEW f \in StaticFiles
          PROVE  /\ static'[f].vms \in {{}, static[f].vms}
                 /\ ~static'[f].old => static'[f].vms = {}
      BY <2>2 DEF Cleaned, NoFile, TypeOK, File
    <3> QED BY <3>1 DEF StaticFilesHold, StaticFiles
  <2> QED BY <1>1, <2>1, <2>2, OthersShape
<1>2. CASE UNCHANGED <<svc, static>>
  BY <1>2, FilesHoldAfter DEF Existing
<1>3. CASE Return \/ Interrupt
  <2>1. \A f \in StaticFiles : static'[f] = static[f] \/ static'[f] = NoFile
    BY <1>3 DEF Return, Interrupt, Forget, TypeOK
  <2> QED BY <1>3, <2>1, FilesHoldAfter DEF Return, Interrupt, Forget, NoFile, Existing
<1>4. ASSUME NEW o \in Ops, NEW s \in Selections, Inventory(o, s) PROVE StaticFilesHold'
  <2>1. UNCHANGED svc /\ Existing' = Existing
    BY <1>4 DEF Inventory, Existing
  <2>2. {v \in VM : svc[v] # "absent"} \subseteq Existing'
    BY <2>1 DEF Existing
  <2>3. \A f \in StaticFiles :
          \/ static'[f] = Fresh(svc)[f]
          \/ f = "custom" /\ static'[f].vms \subseteq Existing'
    <3> DEFINE F == Fresh(svc)
    <3>1. F \in [StaticFiles -> File]
      BY FreshType
    <3>2. \/ static' = F
          \/ \E list \in SUBSET Existing :
               static' = [F EXCEPT !["custom"] = [vms |-> list, old |-> FALSE]]
      BY <1>4 DEF Inventory
    <3> HIDE DEF F
    <3>3. \A f \in StaticFiles :
            static'[f] = F[f] \/ (f = "custom" /\ static'[f].vms \subseteq Existing)
      BY <3>1, <3>2
    <3> QED BY <3>3, <2>1 DEF F
  <2> QED BY <2>1, <2>2, <2>3, FreshHolds, FilesHoldAfter, CustomIsNoKind
<1>5. CASE InventoryUnreadable \/ InventoryRefused \/ InventoryFails
  <2>1. UNCHANGED svc /\ static' \in {static, Fresh(svc)}
    BY <1>5 DEF InventoryUnreadable, InventoryRefused, InventoryFails
  <2>2. {v \in VM : svc[v] # "absent"} \subseteq Existing' /\ Existing' = Existing
    BY <2>1 DEF Existing
  <2> QED BY <2>1, <2>2, FreshHolds, FilesHoldAfter
<1>6. ASSUME NEW t \in Kinds \cup {"custom"}, Playbook(t) PROVE StaticFilesHold'
  BY <1>6, RunShape, FilesHoldAfter DEF Playbook, Run, machine
<1>7. ASSUME NEW lost \in Losses, svc' = Destroyed(lost), static' = Outdated(static, lost)
      PROVE  StaticFilesHold'
  <2>1. Lost(lost) /\ Lists(static, lost)
    BY <1>7, LossesFacts DEF Lost, Lists, Destroyed, Existing
  <2> QED BY <1>7, <2>1, LossHolds
<1>8. CASE ApplyVolumesFails \/ \E s \in Selections : ApplyVolumes(s)
  BY <1>7, <1>8 DEF ApplyVolumes, ApplyVolumesFails, Losses
<1> QED BY <1>1, <1>2, <1>3, <1>4, <1>5, <1>6, <1>8
        DEF Next, Command, vars, Begin, PlaybookMissing, Status, machine

-----------------------------------------------------------------------------
(***************************************************************************)
(* What is due is still ahead of the command.                              *)
(***************************************************************************)

\* What others do while a command runs leaves what is ahead of a strict one.
LEMMA DueUnderOthers ==
  ASSUME TypeOK, StaticFilesHold, DueIsAhead, Others
  PROVE  DueIsAhead'
<1>1. UNCHANGED <<pc, op, sel, todo>> /\ (pc # "idle" => calm' = FALSE)
  BY OthersShape
<1>2. CASE Cleaned
  BY <1>2 DEF Cleaned, DueIsAhead
<1>3. CASE Grown /\ pc \in {"playbooks", "status", "done"}
  <2> SUFFICES ASSUME Strict(op)
               PROVE  /\ pc = "playbooks" => \A v \in due' : v \in Overlooked' \/ Ahead(v)'
                      /\ pc \in {"status", "done"} => due' \subseteq Overlooked'
    BY <1>1, <1>3 DEF DueIsAhead, Strict, Lenient, Tolerant
  <2>1. Overlooked \subseteq Overlooked'
    BY <1>1 DEF Overlooked, Strict, Lenient, Tolerant
  <2>2. PICK lost : Lost(lost) /\ static' = Outdated(static, lost) /\ due' = due \ lost
    BY <1>3 DEF Grown, Lists
  <2>3. ASSUME NEW v, v \notin lost, Ahead(v) PROVE Ahead(v)'
    <3>1. PICK t \in todo : v \in Listed(t)
      BY <2>3 DEF Ahead
    <3>2. v \in Listed(t)'
      <4>1. t \in StaticFiles =>
              /\ static'[t].vms = static[t].vms
              /\ static[t] = NoFile => static'[t] = NoFile
        <5>1. CASE lost = {} \/ t # "port_restricted"
          BY <2>2, <5>1 DEF Outdated, TypeOK
        <5>2. CASE lost # {} /\ t = "port_restricted"
          <6>1. t \in StaticFiles => static'[t] =
                  [vms |-> static[t].vms, old |-> static[t].vms # {}]
            BY <2>2, <5>2 DEF Outdated, TypeOK
          <6>2. static[t] = NoFile => static[t].vms = {}
            BY DEF NoFile
          <6>3. t \in StaticFiles => static'[t].vms = static[t].vms
            BY <6>1
          <6>4. static[t].vms = {} =>
                  [vms |-> static[t].vms, old |-> static[t].vms # {}] = NoFile
            BY Zenon DEF NoFile
          <6> QED BY <6>1, <6>2, <6>3, <6>4
        <5> QED BY <5>1, <5>2
      <4>2. CASE UsesStatic(t)
        <5>1. v \in static'[t].vms /\ t \in StaticFiles
          BY <3>1, <4>1, <4>2 DEF Listed, UsesStatic
        <5> QED BY <5>1 DEF Listed, UsesStatic, NoFile
      <4>3. CASE ~UsesStatic(t)
        <5>1. ~UsesStatic(t)' /\ v \in Of(t)'
          BY <2>2, <2>3, <3>1, <4>1, <4>3 DEF Listed, UsesStatic, Of, Lost
        <5> QED BY <5>1 DEF Listed
      <4> QED BY <4>2, <4>3
    <3> QED BY <1>1, <3>2 DEF Ahead, Strict, Lenient, Tolerant
  <2> QED BY <1>1, <2>1, <2>2, <2>3 DEF DueIsAhead
<1> QED BY <1>1, <1>2, <1>3, OthersShape DEF DueIsAhead

\* The inventory lists every VM that is due, in one of the files to come.
LEMMA DueAfterInventory ==
  ASSUME TypeOK, NEW o \in Ops, NEW s \in Selections, Inventory(o, s)
  PROVE  DueIsAhead'
<1>1. UNCHANGED <<svc, calm>> /\ Existing' = Existing /\ op' = o /\ sel' = s
      /\ pc' \in {"playbooks", "done"}
  BY DEF Inventory, Existing, GoOn
<1>2. Fresh(svc) \in [StaticFiles -> File]
  BY FreshType
<1>3. CASE s = "custom"
  <2>1. PICK list \in (SUBSET Existing) \ {{}} :
          /\ static' = [Fresh(svc) EXCEPT !["custom"] = [vms |-> list, old |-> FALSE]]
          /\ pc' = "playbooks" /\ todo' = {"custom"} /\ due' = list
    BY <1>3 DEF Inventory, GoOn
  <2>2. static'["custom"] = [vms |-> list, old |-> FALSE]
    BY <1>2, <2>1 DEF StaticFiles
  <2>3. UsesStatic("custom")' /\ static'["custom"].vms = list /\ ~static'["custom"].old
    BY <2>1, <2>2 DEF UsesStatic, StaticFiles, NoFile
  <2>4. ASSUME NEW v \in list, ~Strict(o), v \notin Overlooked'
        PROVE  v \in Reachable("custom")'
    <3>1. KindOf[v] \notin PrivateKinds
      BY <2>4, <1>1, <1>3 DEF Overlooked, Strict, Lenient, Tolerant, Existing
    <3> QED BY <2>3, <1>1, <3>1 DEF Reachable
  <2>5. \A v \in list : v \in Listed("custom")'
    BY <2>3 DEF Listed
  <2>6. Strict(op)' = Strict(o)
    BY <1>1 DEF Strict, Lenient, Tolerant
  <2> QED BY <2>1, <2>4, <2>5, <2>6 DEF DueIsAhead, Ahead
<1>4. CASE s # "custom"
  <2>1. /\ static' = Fresh(svc) /\ todo' = Targets(o, s)
        /\ due' = Asked(o, s)
        /\ pc' = "done" => todo' = {}
    BY <1>4 DEF Inventory, GoOn
  <2>2. ASSUME NEW v \in due', v \notin Overlooked' PROVE Ahead(v)'
    <3>1. PICK k \in Targets(o, s) : v \in Of(k)
      <4>1. MaySelect(o, s) /\ o \in AllOps /\ s \in Selections \ {"custom"}
        BY <1>4, OpsAssumption DEF Inventory
      <4>2. v \in VM /\ ~(KindOf[v] \in LeftOut(o) /\ (s = "all" \/ o = "configure_swapfile"))
        BY <1>1, <2>1, <2>2, <4>1, AskedFacts DEF Overlooked, Existing
      <4> QED BY <2>1, <2>2, <4>1, <4>2, AskedFacts
    <3>2. Of(k)' = Of(k)
      BY <1>1 DEF Of
    <3>3. k # "custom"
      BY <1>4, CustomIsNoKind DEF Targets, PlanKinds
    <3>4. CASE k \in PrivateKinds
      <4>1. static'[k] = [vms |-> Of(k), old |-> FALSE]
        BY <2>1, <3>1, <3>4, FreshWrites
      <4>2. UsesStatic(k)' /\ static'[k].vms = Of(k) /\ ~static'[k].old
        BY <3>1, <3>4, <4>1 DEF UsesStatic, StaticFiles, NoFile
      <4>3. v \in Listed(k)' /\ v \in Reachable(k)'
        BY <1>1, <3>1, <3>3, <4>2 DEF Listed, Reachable, Of
      <4> QED BY <2>1, <4>3 DEF Ahead
    <3>5. CASE k \notin PrivateKinds
      <4>1. v \in Listed(k)' /\ v \in Reachable(k)'
        BY <3>1, <3>2, <3>3, <3>5 DEF Listed, Reachable, UsesStatic, StaticFiles
      <4> QED BY <2>1, <4>1 DEF Ahead
    <3> QED BY <3>4, <3>5
  <2>3. pc' = "done" => \A v : ~Ahead(v)'
    BY <2>1 DEF Ahead
  <2> QED BY <1>1, <2>2, <2>3 DEF DueIsAhead
<1> QED BY <1>3, <1>4

\* So do the files that extend-volume-size is left, private nodes excepted.
LEMMA DueAfterApply ==
  ASSUME TypeOK, NEW s \in Selections, ApplyVolumes(s)
  PROVE  DueIsAhead'
<1>1. /\ UNCHANGED calm /\ op' = "extend_volume"
      /\ svc' = Destroyed(Of("port_restricted"))
      /\ pc' \in {"playbooks", "done"}
      /\ todo' = Targets("extend_volume", s)
      /\ due' = UNION {Of(k) : k \in Targets("extend_volume", s)}
      /\ pc' = "done" => due' = {}
  BY DEF ApplyVolumes, GoOn, Asked, AskedKinds
<1>2. Strict(op)'
  BY <1>1 DEF Strict, Lenient, Tolerant
<1>3. ASSUME NEW v \in due', v \notin Overlooked' PROVE Ahead(v)'
  <2>1. PICK k \in Targets("extend_volume", s) : v \in Of(k)
    BY <1>1
  <2>2. k \notin PrivateKinds
    BY <1>1, <1>3, <2>1 DEF Overlooked, Of, Existing
  <2>3. CASE UsesStatic(k)'
    <3>1. k = "custom"
      BY <2>2, <2>3 DEF UsesStatic, StaticFiles
    <3>2. KindOf[v] = "custom"
      BY <2>1, <3>1 DEF Of
    <3> QED BY <2>1, <3>2, KindOfAssumption DEF Of, Existing, AllKinds
  <2>4. CASE ~UsesStatic(k)'
    <3>1. v \in Of(k)'
      BY <1>1, <2>1, <2>2 DEF Of, Existing, Destroyed, PrivateKinds
    <3> QED BY <1>1, <1>2, <2>1, <2>4, <3>1 DEF Ahead, Listed
  <2> QED BY <2>3, <2>4
<1> QED BY <1>1, <1>3 DEF DueIsAhead

\* A playbook that is passed reached what it had to.
LEMMA DueAfterPlaybook ==
  ASSUME TypeOK, DueIsAhead, NEW t, NEW down \in SUBSET Reachable(t),
         NEW broken \in SUBSET (Reachable(t) \ down), Run(t, down, broken)
  PROVE  DueIsAhead'
<1>1. /\ Existing' = Existing
      /\ \A v \in VM : svc[v] \in {"bare", "empty"} => svc'[v] = svc[v]
  BY RunShape
<1>2. UNCHANGED <<static, op, sel>> /\ pc = "playbooks"
  BY DEF Run, machine
<1>3. CASE pc' = "failed"
  BY <1>3 DEF DueIsAhead
<1>4. CASE pc' # "failed"
  <2> DEFINE reached == Reachable(t) \ (down \cup broken)
  <2>1. /\ todo' = todo \ {t} /\ due' = due \ reached
        /\ todo' # {} => pc' = "playbooks"
        /\ pc' = "playbooks" => todo' # {}
        /\ \/ Tolerant(op)
           \/ /\ broken = {}
              /\ Lenient(op) \/ (down = {} /\ Listed(t) = Reachable(t))
        /\ calm' => calm /\ down = {} /\ broken \subseteq MayBreak(op)
    BY <1>4 DEF Run, Fail, After
  <2> HIDE DEF reached
  <2>2. Overlooked \subseteq Overlooked'
    BY <1>1, <1>2 DEF Overlooked, Strict, Lenient, Tolerant
  <2>3. ASSUME Strict(op) \/ calm', NEW v \in due', v \notin Overlooked'
        PROVE  \E u \in todo' : v \in Listed(u) /\ (Strict(op) \/ v \in Reachable(u))
    <3>1. v \in due /\ v \notin reached /\ v \notin Overlooked /\ v \in VM
      BY <2>1, <2>2, <2>3 DEF TypeOK
    <3>2. PICK u \in todo : v \in Listed(u) /\ (Strict(op) \/ v \in Reachable(u))
      BY <1>2, <2>1, <2>3, <3>1 DEF DueIsAhead, Ahead
    <3>3. ASSUME u = t PROVE FALSE
      <4>1. CASE Strict(op)
        BY <2>1, <3>1, <3>2, <3>3, <4>1 DEF reached, Strict
      <4>2. CASE ~Strict(op) /\ ~Tolerant(op)
        BY <2>1, <2>3, <3>1, <3>2, <3>3, <4>2 DEF reached
      <4>3. CASE Tolerant(op)
        <5>1. v \in MayBreak(op)
          BY <2>1, <2>3, <3>1, <3>2, <3>3, <4>3 DEF reached, Strict
        <5>2. svc[v] = "bare"
          BY <4>3, <5>1 DEF MayBreak, MustBreak, Tolerant
        <5> QED BY <3>1, <4>3, <5>2 DEF Overlooked
      <4> QED BY <4>1, <4>2, <4>3
    <3> QED BY <2>1, <3>2, <3>3
  <2>4. \A u : Listed(u)' = Listed(u) /\ Reachable(u)' = Reachable(u)
    BY <1>1, <1>2 DEF Listed, Reachable, UsesStatic, Of
  <2>5. Strict(op)' = Strict(op)
    BY <1>2 DEF Strict, Lenient, Tolerant
  <2>6. CASE todo' = {}
    BY <1>2, <2>1, <2>3, <2>5, <2>6 DEF DueIsAhead
  <2>7. CASE todo' # {}
    BY <1>2, <2>1, <2>3, <2>4, <2>5, <2>7 DEF DueIsAhead, Ahead
  <2> QED BY <2>6, <2>7
<1> QED BY <1>3, <1>4

\* Whatever is due, a strict command or a calm one has it still before it.
LEMMA DueStep ==
  ASSUME TypeOK, StaticFilesHold, DueIsAhead, [Next]_vars
  PROVE  DueIsAhead'
<1>1. CASE UNCHANGED vars
  BY <1>1 DEF vars, DueIsAhead, Overlooked, Ahead, Listed, Reachable, UsesStatic, Of,
              Existing, Strict, Lenient, Tolerant
<1>2. CASE Begin \/ Return \/ Interrupt
  BY <1>2 DEF Begin, Return, Interrupt, Forget, DueIsAhead
<1>3. CASE \/ InventoryUnreadable \/ InventoryRefused \/ InventoryFails
           \/ ApplyVolumesFails \/ PlaybookMissing
  BY <1>3 DEF InventoryUnreadable, InventoryRefused, InventoryFails, ApplyVolumesFails,
              PlaybookMissing, Fail, DueIsAhead
<1>4. CASE Status
  <2>1. /\ UNCHANGED <<svc, op, sel>> /\ pc = "status" /\ pc' \in {"done", "failed"}
        /\ pc' = "done" => UNCHANGED <<due, calm>>
    BY <1>4 DEF Status, Fail
  <2>2. Overlooked' = Overlooked /\ Strict(op)' = Strict(op)
    BY <2>1 DEF Overlooked, Strict, Lenient, Tolerant
  <2> QED BY <2>1, <2>2 DEF DueIsAhead
<1> QED BY <1>1, <1>2, <1>3, <1>4, DueUnderOthers, DueAfterInventory, DueAfterApply,
           DueAfterPlaybook DEF Next, Command, Playbook

-----------------------------------------------------------------------------
(***************************************************************************)
(* A command that nothing disturbs.                                        *)
(***************************************************************************)

\* What the inventory wrote is there as long as nobody interferes.
LEMMA FreshStep ==
  ASSUME TypeOK, FreshWhileCalm, [Next]_vars
  PROVE  FreshWhileCalm'
<1>1. CASE Others
  BY <1>1, OthersShape DEF FreshWhileCalm
<1>2. CASE pc' # "playbooks"
  BY <1>2 DEF FreshWhileCalm
<1>3. ASSUME NEW o \in Ops, NEW s \in Selections, Inventory(o, s) PROVE FreshWhileCalm'
  <2>1. UNCHANGED svc /\ files' /\ op' = o /\ sel' = s
    BY <1>3 DEF Inventory, GoOn
  <2>2. \A k : Of(k)' = Of(k)
    BY <2>1 DEF Of, Existing
  <2> DEFINE F == Fresh(svc)
  <2>3. F \in [StaticFiles -> File]
    BY FreshType
  <2>4. \A k \in PrivateKinds : Of(k) # {} => F[k] = [vms |-> Of(k), old |-> FALSE]
    BY FreshWrites
  <2>5. CASE s = "custom"
    <3>1. PICK list \in (SUBSET Existing) \ {{}} :
            static' = [F EXCEPT !["custom"] = [vms |-> list, old |-> FALSE]]
      BY <1>3, <2>5 DEF Inventory
    <3> HIDE DEF F
    <3>2. ~static'["custom"].old /\ \A k \in PrivateKinds : static'[k] = F[k]
      BY <2>3, <3>1, CustomIsNoKind DEF StaticFiles
    <3> QED BY <2>1, <2>2, <2>4, <2>5, <3>2 DEF FreshWhileCalm
  <2>6. CASE s # "custom"
    <3>1. static' = F /\ todo' = Targets(o, s)
      BY <1>3, <2>6 DEF Inventory, GoOn
    <3>2. "custom" \notin todo'
      BY <2>6, <3>1, CustomIsNoKind DEF Targets, PlanKinds
    <3> HIDE DEF F
    <3> QED BY <2>1, <2>2, <2>4, <3>1, <3>2 DEF FreshWhileCalm
  <2> QED BY <2>5, <2>6
<1>4. ASSUME NEW s \in Selections, ApplyVolumes(s) PROVE FreshWhileCalm'
  <2>1. op' = "extend_volume" /\ todo' = Targets("extend_volume", s) /\ s # "custom"
    BY <1>4 DEF ApplyVolumes, GoOn, MaySelect, NoList
  <2>2. "custom" \notin todo'
    BY <2>1, CustomIsNoKind DEF Targets, PlanKinds
  <2> QED BY <2>1, <2>2 DEF FreshWhileCalm
<1>5. ASSUME NEW t, Playbook(t) PROVE FreshWhileCalm'
  <2>1. UNCHANGED <<files, static, op, sel>> /\ pc = "playbooks" /\ (calm' => calm)
    BY <1>5 DEF Playbook, Run, machine
  <2>2. todo' \subseteq todo
    BY <1>5 DEF Playbook, Run, Fail
  <2>3. Existing' = Existing
    BY <1>5, RunShape DEF Playbook
  <2>4. \A k : Of(k)' = Of(k)
    BY <2>3 DEF Of
  <2> QED BY <2>1, <2>2, <2>4 DEF FreshWhileCalm
<1>6. CASE UNCHANGED vars
  BY <1>6 DEF vars, FreshWhileCalm, Of, Existing
<1> QED BY <1>1, <1>2, <1>3, <1>4, <1>5, <1>6
        DEF Next, Command, Begin, Return, Interrupt, Forget, InventoryUnreadable,
            InventoryRefused, InventoryFails, ApplyVolumesFails, PlaybookMissing,
            Status, Fail

\* A playbook over files that nobody disturbed fails for an excuse.
LEMMA PlaybookExcused ==
  ASSUME IInv, NEW t \in todo, NEW down \in SUBSET Reachable(t),
         NEW broken \in SUBSET (Reachable(t) \ down), Run(t, down, broken),
         pc' = "failed", calm'
  PROVE  Excused'
<1>1. TypeOK
  BY DEF IInv
<1>2. /\ Existing' = Existing
      /\ \A v \in VM : svc[v] \in {"bare", "empty"} => svc'[v] = svc[v]
  BY <1>1, RunShape
<1>3. /\ UNCHANGED <<static, files, op, sel, record>>
      /\ pc = "playbooks" /\ calm /\ down = {} /\ broken \subseteq MayBreak(op)
      /\ broken # {} \/ Listed(t) # Reachable(t)
  BY DEF Run, machine, After
<1>4. CASE broken # {}
  <2>1. PICK v \in broken : v \in Existing /\ svc[v] \in {"bare", "empty"}
    BY <1>3, <1>4 DEF MayBreak, MustBreak
  <2>2. v \in Existing'
    BY <1>2, <2>1
  <2>3. svc'[v] \in {"bare", "empty"}
    BY <1>2, <2>1 DEF Existing
  <2> QED BY <2>2, <2>3 DEF Excused, HasServices
<1>5. CASE broken = {} /\ t = "custom"
  <2>1. /\ sel = "custom" /\ ~static["custom"].old
        /\ \A v \in static["custom"].vms : v \in Existing \/ KindOf[v] \in PrivateKinds
    BY <1>3, <1>5 DEF IInv, FreshWhileCalm, StaticFilesHold, StaticFiles
  <2>2. CASE UsesStatic(t)
    <3>1. \E v \in static["custom"].vms : KindOf[v] \in PrivateKinds
      BY <1>3, <1>5, <2>1, <2>2 DEF Listed, Reachable
    <3> QED BY <1>3, <2>1, <3>1 DEF Excused
  <2>3. CASE ~UsesStatic(t)
    BY <1>3, <1>5, <2>3, CustomIsNoKind DEF Listed, Reachable
  <2> QED BY <2>2, <2>3
<1>6. CASE broken = {} /\ t # "custom" /\ t \notin PrivateKinds
  BY <1>3, <1>6 DEF Listed, Reachable, UsesStatic, StaticFiles
<1>7. CASE broken = {} /\ t \in PrivateKinds
  <2>1. t # "custom" /\ t \in StaticFiles
    BY <1>7, CustomIsNoKind DEF StaticFiles
  <2>2. Of(t)' = Of(t)
    BY <1>2 DEF Of
  <2>3. CASE op = "extend_volume"
    <3>1. static[t].old \/ static[t].vms # Of(t)
      BY <1>3, <1>7, <2>1 DEF Listed, Reachable, UsesStatic, NoFile, Of
    <3> QED BY <1>3, <1>7, <2>2, <2>3, <3>1 DEF Excused
  <2>4. CASE op # "extend_volume" /\ Of(t) # {}
    <3>1. static[t] = [vms |-> Of(t), old |-> FALSE]
      BY <1>3, <1>7, <2>4 DEF IInv, FreshWhileCalm
    <3>2. UsesStatic(t) /\ static[t].vms = Of(t) /\ ~static[t].old
      BY <2>1, <2>4, <3>1 DEF UsesStatic, NoFile
    <3>3. Listed(t) = Of(t)
      BY <3>2 DEF Listed
    <3>4. Reachable(t) = Of(t)
      BY <2>1, <3>2 DEF Reachable, Of
    <3> QED BY <1>3, <1>7, <3>3, <3>4
  <2>5. CASE op # "extend_volume" /\ Of(t) = {}
    <3>1. UsesStatic(t)
      BY <1>3, <1>7, <2>5 DEF Listed, Reachable
    <3>2. static[t] \in [vms : SUBSET VM, old : BOOLEAN]
      BY <2>1 DEF IInv, TypeOK, File
    <3>3. ~static[t].old => static[t].vms = {}
      BY <1>7, <2>1, <2>5, <3>2 DEF IInv, StaticFilesHold, Of, Existing
    <3>4. static[t].old
      BY <3>1, <3>2, <3>3 DEF UsesStatic, NoFile
    <3> QED BY <1>3, <1>7, <2>2, <2>5, <3>4 DEF Excused, LeftOver
  <2> QED BY <2>3, <2>4, <2>5
<1> QED BY <1>4, <1>5, <1>6, <1>7

\* So does every other step that fails.
LEMMA CalmStep ==
  ASSUME IInv, [Next]_vars
  PROVE  CalmCommandSucceeds'
<1> SUFFICES ASSUME pc' = "failed", calm' PROVE Excused'
  BY DEF CalmCommandSucceeds
<1>1. CASE UNCHANGED vars
  BY <1>1 DEF vars, IInv, CalmCommandSucceeds, Excused, Counted, LeftOver, Of, Existing,
              HasServices
<1>2. CASE Others
  BY <1>2, OthersShape DEF IInv
<1>3. CASE InventoryRefused
  BY <1>3 DEF InventoryRefused, Excused, Counted, Existing
<1>4. CASE ApplyVolumesFails
  BY <1>4 DEF ApplyVolumesFails, Excused
<1>5. ASSUME NEW t \in Kinds \cup {"custom"}, Playbook(t) PROVE Excused'
  BY <1>5, PlaybookExcused DEF Playbook, Run
<1>6. CASE PlaybookMissing
  BY <1>6 DEF PlaybookMissing, HasInventory, IInv, FreshWhileCalm, Excused, machine
<1>7. CASE Status
  <2>1. UNCHANGED svc /\ MayBreak("start") # {}
    BY <1>7 DEF Status
  <2>2. PICK v \in Existing : svc[v] \in {"bare", "empty"}
    BY <2>1 DEF MayBreak, MustBreak
  <2> QED BY <2>1, <2>2 DEF Excused, HasServices, Existing
<1> QED BY <1>1, <1>2, <1>3, <1>4, <1>5, <1>6, <1>7
        DEF Next, Command, Begin, Return, Interrupt, Forget, Inventory, GoOn,
            InventoryUnreadable, InventoryFails, ApplyVolumes, Fail

-----------------------------------------------------------------------------
(***************************************************************************)
(* The theorems.                                                           *)
(***************************************************************************)

LEMMA InvariantHolds == Spec => []IInv
<1>1. Init => IInv
  <2> SUFFICES ASSUME Init PROVE IInv
    OBVIOUS
  <2>1. TypeOK
    BY InitType
  <2>2. StaticFilesHold
    BY DEF Init, StaticFilesHold, StaticFiles, NoFile
  <2>3. pc = "idle"
    BY DEF Init
  <2> QED BY <2>1, <2>2, <2>3 DEF IInv, DueIsAhead, FreshWhileCalm, CalmCommandSucceeds
<1>2. IInv /\ [Next]_vars => IInv'
  BY StepType, StaticFilesStep, DueStep, FreshStep, CalmStep DEF IInv
<1> QED BY <1>1, <1>2, PTL DEF Spec

\* A command that reports success has acted on every VM that its help says it
\* acts on, was there when it listed them and still is, but for those that the
\* code leaves out or passes over (Overlooked).
THEOREM SuccessMeansReached == Spec => []OkMeansReached
<1>1. IInv => OkMeansReached
  BY DEF IInv, DueIsAhead, OkMeansReached
<1> QED BY <1>1, InvariantHolds, PTL

\* A command during which no call fails and nobody else does anything fails
\* only where the code leaves it no choice.
THEOREM CalmFailureIsExcused == Spec => []CalmCommandSucceeds
<1>1. IInv => CalmCommandSucceeds
  BY DEF IInv
<1> QED BY <1>1, InvariantHolds, PTL

\* When every VM has lost its services, only a deploy or a clean gets the
\* environment out.
THEOREM OnlyDeployUnlocks == Spec => LockedOutUntilDeploy
<1> DEFINE Unlocked ==
      LockedOut /\ ~LockedOut' =>
        record' # "up" \/ \E vms \in SUBSET VM, here \in BOOLEAN : Deploy(vms, TRUE, here)
<1>1. ASSUME TypeOK, [Next]_vars, LockedOut, ~LockedOut', record' = "up",
             ~\E vms \in SUBSET VM, here \in BOOLEAN : Deploy(vms, TRUE, here)
      PROVE  FALSE
  <2> DEFINE Bare == \A v \in Existing : svc[v] \in {"bare", "empty"}
  <2>1. Bare
    BY <1>1 DEF LockedOut, HasServices, TypeOK, Services, Existing
  <2>2. \E v \in Existing : KindOf[v] \in {"generic", "peer_cache", "genesis"}
    BY <1>1 DEF LockedOut, Probed, Of
  <2>3. ASSUME \A v \in Existing : v \in Existing' \/ KindOf[v] = "port_restricted",
               \A v \in Existing' : ~HasServices(v)'
        PROVE  FALSE
    <3>1. Probed' # {}
      BY <2>2, <2>3 DEF Probed, Of
    <3> QED BY <1>1, <2>3, <3>1 DEF LockedOut
  <2>4. CASE UNCHANGED svc
    BY <1>1, <2>3, <2>4 DEF LockedOut, Existing, HasServices
  <2>5. ASSUME NEW t \in Kinds \cup {"custom"}, Playbook(t) PROVE FALSE
    <3>1. /\ Existing' = Existing
          /\ \A v \in VM : svc[v] \in {"bare", "empty"} => svc'[v] = svc[v]
      BY <1>1, <2>5, RunShape DEF Playbook
    <3>2. \A v \in Existing : svc'[v] \in {"bare", "empty"}
      BY <2>1, <3>1 DEF Existing
    <3> QED BY <2>3, <3>1, <3>2 DEF HasServices
  <2>6. ASSUME NEW vms \in SUBSET VM, NEW complete \in BOOLEAN, NEW here \in BOOLEAN,
               Deploy(vms, complete, here)
        PROVE  FALSE
    <3>1. svc' = Created(vms)
      BY <1>1, <2>6 DEF Deploy
    <3>2. \A v \in Existing' : svc'[v] \in {"bare", "empty"}
      BY <2>1, <3>1 DEF Created, Existing
    <3>3. Existing \subseteq Existing'
      BY <3>1 DEF Created, Existing
    <3> QED BY <2>3, <3>2, <3>3 DEF HasServices
  <2>7. ASSUME NEW vms \in SUBSET VM, NEW lost \in Losses, NEW complete \in BOOLEAN,
               NEW here \in BOOLEAN, Upscale(vms, lost, complete, here)
        PROVE  FALSE
    BY <1>1, <2>7 DEF Upscale, LockedOut, Probed, Of
  <2>8. ASSUME NEW k \in Kinds, NEW vms \in SUBSET VM, NEW here \in BOOLEAN,
               Provision(k, vms, here)
        PROVE  FALSE
    BY <1>1, <2>8 DEF Provision, LockedOut, Of
  <2>9. ASSUME NEW complete \in BOOLEAN, NEW here \in BOOLEAN, Clean(complete, here)
        PROVE  FALSE
    BY <1>1, <2>9 DEF Clean
  <2>10. ASSUME NEW o \in AllOps, NEW v \in VM, OthersCommand(o, v) PROVE FALSE
    <3>1. svc[v] \in {"bare", "empty"} /\ svc[v] \in Services \ {"absent"}
      BY <2>1, <2>10 DEF OthersCommand, Existing, Services
    <3>2. Effect(o, svc[v]) = svc[v]
      BY <3>1, EffectFacts
    <3> QED BY <2>10, <3>2 DEF OthersCommand
  <2>11. ASSUME NEW lost \in Losses, svc' = Destroyed(lost) PROVE FALSE
    <3>1. /\ \A v \in Existing : v \in Existing' \/ KindOf[v] = "port_restricted"
          /\ \A v \in Existing' : svc'[v] \in {"bare", "empty"}
      BY <2>1, <2>11, LossesFacts DEF Destroyed, Existing
    <3> QED BY <2>3, <3>1 DEF HasServices
  <2>12. CASE ApplyVolumesFails \/ \E s \in Selections : ApplyVolumes(s)
    BY <2>11, <2>12 DEF ApplyVolumes, ApplyVolumesFails, Losses
  <2> QED BY <1>1, <2>4, <2>5, <2>6, <2>7, <2>8, <2>9, <2>10, <2>12
          DEF Next, Command, Others, vars, Begin, Return, Interrupt, Forget, Inventory,
              InventoryUnreadable, InventoryRefused, InventoryFails,
              PlaybookMissing, Status
<1>2. TypeOK /\ [Next]_vars => [Unlocked]_vars
  BY <1>1
<1> QED BY <1>2, TypeCorrect, PTL DEF Spec, LockedOutUntilDeploy

=============================================================================
