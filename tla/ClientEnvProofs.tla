--------------------------- MODULE ClientEnvProofs ---------------------------
(***************************************************************************)
(* Proofs about ClientEnv, for every choice of deploy commands, of         *)
(* environment types and of bounds.                                        *)
(***************************************************************************)
EXTENDS ClientEnv, TLAPS

USE DEF Step, End, Finish, Break, durable, history

-----------------------------------------------------------------------------
(***************************************************************************)
(* What the helpers return.                                                *)
(***************************************************************************)

\* Every default is a count of VMs, of one at least.
LEMMA DefaultTyped ==
  ASSUME NEW type \in AllTypes
  PROVE  DefaultCount[type] \in 1..MaxVms
BY BoundsAssumption DEF AllTypes, DefaultCount

\* The commands of the handlers are commands.
LEMMA CommandsTyped ==
  ASSUME NEW type \in AllTypes, NEW count \in 0..MaxVms \cup {NoCount}
  PROVE  DeployCommandsOf(type, count) \subseteq Commands
<1>1. CountGiven(count) \in Nat
  BY DEF CountGiven
<1>2. \A n \in 1..MaxUploaders : CountGiven(count) * n \in Nat
  BY <1>1
<1>3. 0 \in 0..MaxUploaders /\ 1 \in 0..MaxUploaders /\ 1..MaxUploaders \subseteq 0..MaxUploaders
  BY BoundsAssumption
<1>4. \A v \in AllVariants, n \in 0..MaxUploaders, keys \in Nat :
        Command(v, type, count, n, keys) \in Commands
  BY DEF Command, Commands
<1>5. {"deploy", "chunkTrackers", "dataRetrieval", "repairFiles", "scanRepair",
       "staticDownloaders", "staticUploader"} \subseteq AllVariants
  BY DEF AllVariants, PartsOf
<1>6. DeployCommands(type, count) \subseteq Commands
  BY <1>2, <1>3, <1>4, <1>5 DEF DeployCommands
<1>7. QED
  BY <1>1, <1>3, <1>4, <1>5, <1>6
  DEF DeployCommandsOf, ChunkTrackersCommands, DataRetrievalCommands, RepairFilesCommands,
      ScanRepairCommands, StaticDownloadersCommands, StaticUploaderCommands

\* A command of a deploy handler has the type and the count that were given.
LEMMA CommandsSay ==
  ASSUME NEW type, NEW count, NEW c \in DeployCommandsOf(type, count)
  PROVE  c.type = type /\ c.count = count
BY DEF DeployCommandsOf, DeployCommands, ChunkTrackersCommands, DataRetrievalCommands,
       RepairFilesCommands, ScanRepairCommands, StaticDownloadersCommands,
       StaticUploaderCommands, Command

\* What a deploy provisions is a list of parts.
LEMMA PartsTyped ==
  ASSUME NEW variant \in AllVariants
  PROVE  PartsOf[variant] \in Seq(Parts)
<1>1. CASE variant = "deploy"
  BY <1>1 DEF PartsOf, Parts
<1>2. CASE variant = "chunkTrackers"
  BY <1>2 DEF PartsOf, Parts
<1>3. CASE variant = "dataRetrieval"
  BY <1>3 DEF PartsOf, Parts
<1>4. CASE variant = "repairFiles"
  BY <1>4 DEF PartsOf, Parts
<1>5. CASE variant = "scanRepair"
  BY <1>5 DEF PartsOf, Parts
<1>6. CASE variant = "staticDownloaders"
  BY <1>6 DEF PartsOf, Parts
<1>7. CASE variant = "staticUploader"
  BY <1>7 DEF PartsOf, Parts
<1>8. QED
  BY <1>1, <1>2, <1>3, <1>4, <1>5, <1>6, <1>7 DEF AllVariants, PartsOf

\* Terraform leaves well typed VMs, services and keys behind.
LEMMA SetVmsTyped ==
  ASSUME NEW n \in 0..MaxVms, TypeOK, SetVms(n)
  PROVE  /\ vms' \in 0..MaxVms /\ uploaders' \in [1..MaxVms -> 0..MaxUploaders]
         /\ keyed' \in SUBSET (1..MaxVms)
<1>1. 0 \in 0..MaxUploaders
  BY BoundsAssumption
<1>2. uploaders' \in [1..MaxVms -> 0..MaxUploaders]
  BY <1>1 DEF TypeOK, SetVms
<1>3. QED
  BY <1>2 DEF TypeOK, SetVms

\* No VM gets more uploaders than the command asks for, unless it has them.
LEMMA UploadersTyped ==
  ASSUME NEW v \in 1..MaxVms, TypeOK, vms # 0
  PROVE  UploadersAfter(v) \in 0..MaxUploaders /\ uploaders[v] <= UploadersAfter(v)
<1>1. /\ cmd.keys \in Nat /\ cmd.uploaders \in 0..MaxUploaders /\ vms \in Nat \ {0}
      /\ uploaders[v] \in 0..MaxUploaders
  BY DEF TypeOK, Commands
<1>2. cmd.keys \div vms \in Nat
  BY <1>1
<1>3. KeysPerVm \in Nat
  BY <1>1, <1>2 DEF KeysPerVm
<1>4. QED
  BY <1>1, <1>3, BoundsAssumption DEF UploadersAfter

\* So do the playbooks; and they change nothing on other VMs.
LEMMA ProvisionedTyped ==
  ASSUME NEW part, NEW done \in SUBSET Vms, TypeOK, ~Refused(part), Provisioned(part, done)
  PROVE  /\ uploaders' \in [1..MaxVms -> 0..MaxUploaders]
         /\ keyed' \in SUBSET (1..MaxVms)
         /\ \A v \in 1..MaxVms \ done : uploaders'[v] = uploaders[v]
         /\ keyed' \subseteq keyed \cup done
<1>1. done \subseteq 1..MaxVms
  BY BoundsAssumption DEF TypeOK, Vms
<1>2. part = "uploaders" => vms # 0
  BY DEF Refused
<1>3. \A v \in 1..MaxVms : part = "uploaders" => UploadersAfter(v) \in 0..MaxUploaders
  BY <1>2, UploadersTyped
<1>4. uploaders' \in [1..MaxVms -> 0..MaxUploaders]
  BY <1>3 DEF Provisioned, TypeOK
<1>5. keyed' \subseteq keyed \cup done
  BY DEF Provisioned
<1>6. QED
  BY <1>1, <1>4, <1>5 DEF Provisioned, TypeOK

-----------------------------------------------------------------------------
(***************************************************************************)
(* Type correctness, with what it needs of the inventory.                  *)
(***************************************************************************)

TypeInv ==
  /\ TypeOK
  /\ pc = "deploy:apply" => inventory # NoType

\* With a type in the inventory, the tfvars say how many VMs there will be.
LEMMA TargetTyped ==
  ASSUME TypeInv, pc = "deploy:apply"
  PROVE  TargetCount \in 0..MaxVms
<1>1. inventory \in AllTypes
  BY DEF TypeInv, TypeOK
<1>2. DefaultCount[inventory] \in 1..MaxVms
  BY <1>1, DefaultTyped
<1>3. cmd.count \in 0..MaxVms \cup {NoCount}
  BY DEF TypeInv, TypeOK, Commands
<1>4. QED
  BY <1>2, <1>3 DEF TargetCount

\* Every state of the environment and of the running command is well typed.
LEMMA TypeInvariant == Spec => []TypeInv
<1> USE DEF DeployPcs, CleanPcs
<1>1. Init => TypeInv
  <2>1. CleanCommand \in Commands
    BY BoundsAssumption, NoneAssumption DEF CleanCommand, Commands, AllTypes, DefaultCount
  <2>2. [v \in 1..MaxVms |-> 0] \in [1..MaxVms -> 0..MaxUploaders] /\ 0 \in 0..MaxVms
    BY BoundsAssumption
  <2> SUFFICES ASSUME Init
               PROVE  TypeInv
    OBVIOUS
  <2>3. parts \in Seq(Parts)
    BY DEF Init
  <2>4. QED
    BY <2>1, <2>2, <2>3 DEF Init, TypeInv, TypeOK
<1>2. TypeInv /\ [Next]_vars => TypeInv'
  <2> SUFFICES ASSUME TypeInv, [Next]_vars
               PROVE  TypeInv'
    OBVIOUS
  <2>1. TypeOK
    BY DEF TypeInv
  <2>2. "development" \in AllTypes /\ "development" # NoType
    BY NoneAssumption DEF AllTypes, DefaultCount
  <2>3. <<>> \in Seq(Parts)
    OBVIOUS
  <2>4. CASE StartDeploy
    <3>1. PICK type \in Types, count \in 0..MaxVms \cup {NoCount} :
            /\ cmd' \in DeployCommandsOf(type, count) /\ cmd'.variant \in Variants
            /\ first' = IF first = NoType THEN type ELSE first
            /\ steady' = (steady /\ count = NoCount /\ first \in {type, NoType})
      BY <2>4 DEF StartDeploy
    <3>2. type \in AllTypes
      BY SetsAssumption
    <3>3. cmd' \in Commands /\ cmd'.variant \in AllVariants
      BY <3>1, <3>2, CommandsTyped, SetsAssumption
    <3>4. parts' \in Seq(Parts)
      BY <2>4, <3>3, PartsTyped DEF StartDeploy
    <3>5. steady' \in BOOLEAN /\ first' \in AllTypes \cup {NoType}
      BY <2>1, <3>1, <3>2 DEF TypeOK
    <3>6. QED
      BY <2>1, <2>4, <3>3, <3>4, <3>5 DEF StartDeploy, TypeInv, TypeOK
  <2>5. CASE DeployInit
    BY <2>1, <2>5 DEF DeployInit, TypeInv, TypeOK
  <2>6. CASE DeployInventoryNew
    BY <2>1, <2>2, <2>6 DEF DeployInventoryNew, TypeInv, TypeOK
  <2>7. CASE DeployInventoryMisread
    BY <2>1, <2>2, <2>7 DEF DeployInventoryMisread, TypeInv, TypeOK
  <2>8. CASE DeployInventoryKnown
    BY <2>1, <2>8 DEF DeployInventoryKnown, TypeInv, TypeOK
  <2>9. CASE DeployInventoryEmpty
    BY <2>1, <2>3, <2>9 DEF DeployInventoryEmpty, TypeInv, TypeOK
  <2>10. CASE DeployApply
    <3>1. TargetCount \in 0..MaxVms
      BY <2>10, TargetTyped DEF DeployApply
    <3>2. QED
      BY <2>1, <2>10, <3>1, SetVmsTyped DEF DeployApply, TypeInv, TypeOK
  <2>11. CASE DeployApplyFails
    BY <2>1, <2>3, <2>11, SetVmsTyped DEF DeployApplyFails, TypeInv, TypeOK
  <2>12. CASE DeployWrite
    BY <2>1, <2>12 DEF DeployWrite, TypeInv, TypeOK, Commands
  <2>13. CASE DeployPart
    <3>1. Tail(parts) \in Seq(Parts)
      BY <2>1, <2>13 DEF DeployPart, TypeOK
    <3>2. QED
      BY <2>1, <2>13, <3>1, ProvisionedTyped DEF DeployPart, TypeInv, TypeOK
  <2>14. CASE DeployPartRefused
    BY <2>1, <2>3, <2>14 DEF DeployPartRefused, TypeInv, TypeOK
  <2>15. CASE DeployPartShort
    BY <2>1, <2>3, <2>15, ProvisionedTyped DEF DeployPartShort, TypeInv, TypeOK
  <2>16. CASE DeployPartFails
    BY <2>1, <2>3, <2>16, ProvisionedTyped DEF DeployPartFails, TypeInv, TypeOK
  <2>17. CASE DeployEnds
    BY <2>1, <2>3, <2>17 DEF DeployEnds, TypeInv, TypeOK
  <2>18. CASE StartClean
    <3>1. CleanCommand \in Commands
      BY BoundsAssumption, NoneAssumption DEF CleanCommand, Commands, AllTypes, DefaultCount
    <3>2. QED
      BY <2>1, <2>18, <3>1 DEF StartClean, TypeInv, TypeOK
  <2>19. CASE CleanRead \/ CleanDrain \/ CleanSelect \/ CleanShow
    BY <2>1, <2>19 DEF CleanRead, CleanDrain, CleanSelect, CleanShow, TypeInv, TypeOK
  <2>20. CASE CleanRefused
    BY <2>1, <2>3, <2>20 DEF CleanRefused, TypeInv, TypeOK
  <2>21. CASE CleanDestroy
    <3>1. 0 \in 0..MaxVms
      BY BoundsAssumption
    <3>2. QED
      BY <2>1, <2>21, <3>1, SetVmsTyped DEF CleanDestroy, TypeInv, TypeOK
  <2>22. CASE CleanDestroyFails
    <3>1. \A n \in 0..vms : n \in 0..MaxVms
      BY <2>1, BoundsAssumption DEF TypeOK
    <3>2. QED
      BY <2>1, <2>3, <2>22, <3>1, SetVmsTyped DEF CleanDestroyFails, TypeInv, TypeOK
  <2>23. CASE CleanWorkspace \/ CleanFiles
    BY <2>1, <2>23 DEF CleanWorkspace, CleanFiles, TypeInv, TypeOK
  <2>24. CASE CleanRecord
    BY <2>1, <2>3, <2>24 DEF CleanRecord, TypeInv, TypeOK
  <2>25. CASE Abort
    BY <2>1, <2>3, <2>25 DEF Abort, TypeInv, TypeOK
  <2>26. CASE UNCHANGED vars
    BY <2>1, <2>26 DEF vars, TypeInv, TypeOK
  <2>27. QED
    BY <2>4, <2>5, <2>6, <2>7, <2>8, <2>9, <2>10, <2>11, <2>12, <2>13, <2>14, <2>15, <2>16,
       <2>17, <2>18, <2>19, <2>20, <2>21, <2>22, <2>23, <2>24, <2>25, <2>26
    DEF Next, Deploy, Clean
<1>3. QED
  BY <1>1, <1>2, PTL DEF Spec

\* The state of the environment and of the running command stays well typed,
\* whatever fails.
THEOREM TypeCorrect == Spec => []TypeOK
BY TypeInvariant, PTL DEF TypeInv

-----------------------------------------------------------------------------
(***************************************************************************)
(* A client environment implements the abstract environment.               *)
(***************************************************************************)

\* What the abstract environment sees as wallets.
Carriers == {v \in 1..MaxVms : uploaders[v] > 0} \cup keyed

\* When a command knows that the workspace exists, that no VM does, and that
\* the workspace is gone.
HeldPcs == {"deploy:inventory", "deploy:apply", "deploy:write", "clean:show", "clean:destroy"}
ClearedPcs == {"clean:workspace", "clean:files", "clean:record"}
GonePcs == {"clean:files", "clean:record"}

EnvInv ==
  /\ Carriers \subseteq 1..vms
  /\ vms # 0 => workspace
  /\ Carriers # {} => details # NoType
  /\ pc = "deploy:provision" => details # NoType
  /\ pc \in HeldPcs => workspace
  /\ pc \in ClearedPcs => vms = 0
  /\ pc \in GonePcs => ~workspace

\* What terraform leaves of the VMs has the keys it had.
LEMMA SetVmsCarriers ==
  ASSUME NEW n \in 0..MaxVms, TypeOK, SetVms(n)
  PROVE  vms' = n /\ Carriers' = Carriers \cap (1..n)
<1>1. \A v \in 1..MaxVms : uploaders'[v] > 0 <=> uploaders[v] > 0 /\ v <= n
  BY DEF SetVms, TypeOK
<1>2. keyed' = keyed \cap (1..n)
  BY DEF SetVms
<1>3. \A v \in 1..MaxVms : v \in 1..n <=> v <= n
  BY BoundsAssumption
<1>4. QED
  BY <1>1, <1>2, <1>3 DEF SetVms, Carriers

\* A playbook takes no key away and puts keys only where it ran.
LEMMA ProvisionedCarriers ==
  ASSUME NEW part, NEW done \in SUBSET Vms, TypeOK, ~Refused(part), Provisioned(part, done)
  PROVE  \E more \in SUBSET (1..vms) : Carriers' = Carriers \cup more
<1>1. done \subseteq 1..MaxVms
  BY BoundsAssumption DEF TypeOK, Vms
<1>2. part = "uploaders" => vms # 0
  BY DEF Refused
<1>3. \A v \in 1..MaxVms : uploaders[v] > 0 => uploaders'[v] > 0
  <2> SUFFICES ASSUME NEW v \in 1..MaxVms, uploaders[v] > 0
               PROVE  uploaders'[v] > 0
    OBVIOUS
  <2>1. CASE part = "uploaders" /\ v \in done
    <3>1. UploadersAfter(v) \in Nat /\ uploaders[v] \in Nat /\ uploaders[v] <= UploadersAfter(v)
      BY <1>2, <2>1, UploadersTyped DEF TypeOK
    <3>2. uploaders'[v] = UploadersAfter(v)
      BY <2>1 DEF Provisioned
    <3>3. QED
      BY <3>1, <3>2
  <2>2. CASE ~(part = "uploaders" /\ v \in done)
    BY <2>2 DEF Provisioned
  <2>3. QED
    BY <2>1, <2>2
<1>4. keyed \subseteq keyed'
  BY DEF Provisioned
<1>5. Carriers \subseteq Carriers'
  BY <1>3, <1>4 DEF Carriers
<1>6. Carriers' \subseteq Carriers \cup done
  BY ProvisionedTyped DEF Carriers
<1>7. Carriers' = Carriers \cup (Carriers' \cap done)
  BY <1>5, <1>6
<1>8. QED
  BY <1>7 DEF Vms

\* The keys are recorded, the VMs are known to terraform.
LEMMA EnvInvariant == Spec => []EnvInv
<1> USE DEF HeldPcs, ClearedPcs, GonePcs
<1>1. Init => EnvInv
  <2>1. Init => Carriers = {}
    BY DEF Init, Carriers
  <2>2. QED
    BY <2>1 DEF Init, EnvInv
<1>2. TypeInv /\ EnvInv /\ [Next]_vars => EnvInv'
  <2> SUFFICES ASSUME TypeInv, EnvInv, [Next]_vars
               PROVE  EnvInv'
    OBVIOUS
  <2>1. TypeOK
    BY DEF TypeInv
  <2>2. ASSUME NEW n \in 0..MaxVms, SetVms(n), UNCHANGED details
        PROVE  /\ vms' = n /\ Carriers' \subseteq 1..n
               /\ Carriers' # {} => details' # NoType
    BY <2>1, <2>2, SetVmsCarriers DEF EnvInv
  <2>3. ASSUME NEW part, NEW done \in SUBSET Vms, ~Refused(part), Provisioned(part, done),
               UNCHANGED <<vms, details>>, pc = "deploy:provision"
        PROVE  Carriers' \subseteq 1..vms' /\ details' # NoType
    BY <2>1, <2>3, ProvisionedCarriers DEF EnvInv
  <2>4. UNCHANGED <<uploaders, keyed>> => UNCHANGED Carriers
    BY DEF Carriers
  <2>5. CASE StartDeploy \/ DeployInit \/ DeployInventoryNew \/ DeployInventoryMisread
               \/ DeployInventoryKnown \/ DeployInventoryEmpty
    BY <2>4, <2>5
    DEF StartDeploy, DeployInit, DeployInventoryNew, DeployInventoryMisread,
        DeployInventoryKnown, DeployInventoryEmpty, EnvInv
  <2>6. CASE DeployApply
    BY <2>2, <2>6, TargetTyped DEF DeployApply, EnvInv
  <2>7. CASE DeployApplyFails
    BY <2>2, <2>7 DEF DeployApplyFails, EnvInv
  <2>8. CASE DeployWrite
    <3>1. details' # NoType
      BY <2>1, <2>8, NoneAssumption DEF DeployWrite, TypeOK, Commands
    <3>2. QED
      BY <2>4, <2>8, <3>1 DEF DeployWrite, EnvInv
  <2>9. CASE DeployPart
    BY <2>3, <2>9 DEF DeployPart, EnvInv, Vms
  <2>10. CASE DeployPartShort
    BY <2>3, <2>10 DEF DeployPartShort, EnvInv, Vms
  <2>11. CASE DeployPartFails
    BY <2>3, <2>11 DEF DeployPartFails, EnvInv
  <2>12. CASE DeployPartRefused \/ DeployEnds
    BY <2>4, <2>12 DEF DeployPartRefused, DeployEnds, EnvInv
  <2>13. CASE StartClean \/ CleanRead \/ CleanDrain \/ CleanSelect \/ CleanShow \/ CleanRefused
    BY <2>4, <2>13
    DEF StartClean, CleanRead, CleanDrain, CleanSelect, CleanShow, CleanRefused, EnvInv
  <2>14. CASE CleanDestroy
    <3>1. 0 \in 0..MaxVms
      BY BoundsAssumption
    <3>2. QED
      BY <2>2, <2>14, <3>1 DEF CleanDestroy, EnvInv
  <2>15. CASE CleanDestroyFails
    <3>1. \A n \in 0..vms : n \in 0..MaxVms
      BY <2>1, BoundsAssumption DEF TypeOK
    <3>2. QED
      BY <2>2, <2>15, <3>1 DEF CleanDestroyFails, EnvInv
  <2>16. CASE CleanWorkspace \/ CleanFiles
    <3>1. CASE CleanWorkspace
      BY <2>4, <3>1 DEF CleanWorkspace, EnvInv
    <3>2. CASE CleanFiles
      BY <2>4, <3>2 DEF CleanFiles, EnvInv
    <3>3. QED
      BY <2>16, <3>1, <3>2
  <2>17. CASE CleanRecord
    <3>1. vms = 0 /\ Carriers = {}
      BY <2>17 DEF CleanRecord, EnvInv
    <3>2. QED
      BY <2>4, <2>17, <3>1 DEF CleanRecord, EnvInv
  <2>18. CASE Abort
    BY <2>4, <2>18 DEF Abort, EnvInv
  <2>19. CASE UNCHANGED vars
    BY <2>4, <2>19 DEF vars, EnvInv
  <2>20. QED
    BY <2>5, <2>6, <2>7, <2>8, <2>9, <2>10, <2>11, <2>12, <2>13, <2>14, <2>15, <2>16, <2>17,
       <2>18, <2>19
    DEF Next, Deploy, Clean
<1>3. QED
  BY <1>1, <1>2, TypeInvariant, PTL DEF Spec

\* Terraform's changes are changes of size.
LEMMA SetVmsMaps ==
  ASSUME NEW n \in 0..MaxVms, TypeOK, SetVms(n), workspace, UNCHANGED <<workspace, details>>
  PROVE  Env!Next
<1>1. Env!Resize
  BY SetVmsCarriers DEF Env!Resize, Carriers
<1>2. QED
  BY <1>1 DEF Env!Next

\* Keys are put on VMs of a recorded environment.
LEMMA ProvisionedMaps ==
  ASSUME NEW part, NEW done \in SUBSET Vms, TypeOK, EnvInv, ~Refused(part),
         Provisioned(part, done), UNCHANGED <<workspace, vms, details>>,
         pc = "deploy:provision"
  PROVE  [Env!Next]_Env!vars
<1>1. PICK more \in SUBSET (1..vms) : Carriers' = Carriers \cup more
  BY ProvisionedCarriers
<1>2. CASE workspace
  <2>1. Env!Pay
    BY <1>1, <1>2 DEF Env!Pay, EnvInv, Carriers
  <2>2. QED
    BY <2>1 DEF Env!Next
<1>3. CASE ~workspace
  <2>1. vms = 0
    BY <1>3 DEF EnvInv
  <2>2. more = {}
    BY <1>1, <2>1
  <2>3. Carriers' = Carriers
    BY <1>1, <2>2
  <2>4. QED
    BY <2>3 DEF Env!vars, Carriers
<1>4. QED
  BY <1>2, <1>3

\* Every step of a client environment is one of the abstract environment, or
\* none.
LEMMA StepMaps ==
  ASSUME TypeInv, EnvInv, [Next]_vars
  PROVE  [Env!Next]_Env!vars
<1> USE DEF HeldPcs, ClearedPcs, GonePcs
<1>1. TypeOK
  BY DEF TypeInv
<1>2. UNCHANGED <<workspace, vms, uploaders, keyed, details>> => UNCHANGED Env!vars
  BY DEF Env!vars
<1>3. CASE StartDeploy \/ DeployInventoryNew \/ DeployInventoryMisread
             \/ DeployInventoryKnown \/ DeployInventoryEmpty \/ DeployPartRefused \/ DeployEnds
  BY <1>2, <1>3
  DEF StartDeploy, DeployInventoryNew, DeployInventoryMisread, DeployInventoryKnown,
      DeployInventoryEmpty, DeployPartRefused, DeployEnds
<1>4. CASE DeployInit
  BY <1>4 DEF DeployInit, Env!Open, Env!Next
<1>5. CASE DeployApply
  BY <1>1, <1>5, TargetTyped, SetVmsMaps DEF DeployApply
<1>6. CASE DeployApplyFails
  BY <1>1, <1>6, SetVmsMaps DEF DeployApplyFails
<1>7. CASE DeployWrite
  <2>1. details' # NoType
    BY <1>1, <1>7, NoneAssumption DEF DeployWrite, TypeOK, Commands
  <2>2. Env!Record
    BY <1>7, <2>1 DEF DeployWrite, EnvInv, Env!Record
  <2>3. QED
    BY <2>2 DEF Env!Next
<1>8. CASE DeployPart \/ DeployPartShort \/ DeployPartFails
  BY <1>1, <1>8, ProvisionedMaps DEF DeployPart, DeployPartShort, DeployPartFails, Vms
<1>9. CASE \/ StartClean \/ CleanRead \/ CleanDrain \/ CleanSelect \/ CleanShow \/ CleanRefused
           \/ CleanFiles
  BY <1>2, <1>9
  DEF StartClean, CleanRead, CleanDrain, CleanSelect, CleanShow, CleanRefused, CleanFiles
<1>10. CASE CleanDestroy
  <2>1. 0 \in 0..MaxVms
    BY BoundsAssumption
  <2>2. QED
    BY <1>1, <1>10, <2>1, SetVmsMaps DEF CleanDestroy, EnvInv
<1>11. CASE CleanDestroyFails
  <2>1. \A n \in 0..vms : n \in 0..MaxVms
    BY <1>1, BoundsAssumption DEF TypeOK
  <2>2. QED
    BY <1>1, <1>11, <2>1, SetVmsMaps DEF CleanDestroyFails, EnvInv
<1>12. CASE CleanWorkspace
  BY <1>12 DEF CleanWorkspace, EnvInv, Env!Close, Env!Next
<1>13. CASE CleanRecord
  BY <1>13 DEF CleanRecord, EnvInv, Env!Forget, Env!Next
<1>14. CASE Abort \/ UNCHANGED vars
  BY <1>2, <1>14 DEF Abort, vars
<1>15. QED
  BY <1>3, <1>4, <1>5, <1>6, <1>7, <1>8, <1>9, <1>10, <1>11, <1>12, <1>13, <1>14
  DEF Next, Deploy, Clean

\* A client environment keeps what every environment promises.
THEOREM Implements == Spec => ImplementsEnvironment
<1>1. Init => Env!Init
  BY DEF Init, Env!Init
<1>2. QED
  BY <1>1, StepMaps, TypeInvariant, EnvInvariant, PTL
  DEF Spec, ImplementsEnvironment, Env!Spec

\* At every moment, whatever failed before, the keys of client services
\* are on VMs that terraform knows of, in an environment that is on record.
THEOREM PromiseIsKept == Spec => []Env!Promise
<1>1. Env!Init => Env!Promise
  BY DEF Env!Init, Env!Promise
<1>2. Env!Promise /\ [Env!Next]_Env!vars => Env!Promise'
  <2> SUFFICES ASSUME Env!Promise, [Env!Next]_Env!vars
               PROVE  Env!Promise'
    OBVIOUS
  <2>1. CASE Env!Open \/ Env!Record \/ UNCHANGED Env!vars
    BY <2>1 DEF Env!Open, Env!Record, Env!vars, Env!Promise
  <2>2. CASE Env!Resize
    BY <2>2 DEF Env!Resize, Env!Promise
  <2>3. CASE Env!Pay \/ Env!Drain
    BY <2>3 DEF Env!Pay, Env!Drain, Env!Promise
  <2>4. CASE Env!Close \/ Env!Forget
    BY <2>4 DEF Env!Close, Env!Forget, Env!Promise
  <2>5. QED
    BY <2>1, <2>2, <2>3, <2>4 DEF Env!Next
<1>3. Env!Spec => []Env!Promise
  BY <1>1, <1>2, PTL DEF Env!Spec
<1>4. QED
  BY <1>3, Implements, PTL DEF ImplementsEnvironment

-----------------------------------------------------------------------------
(***************************************************************************)
(* Steady deploys remove no VM.                                            *)
(***************************************************************************)

\* The most VMs there are while all deploys were steady: those of the type
\* that is on record, or of a development environment before there is one.
Expected == IF details = NoType THEN 1 ELSE DefaultCount[details]

SteadyInv ==
  steady =>
    /\ details \in {NoType, first}
    /\ vms <= Expected
    /\ pc \in DeployPcs => cmd.type = first /\ cmd.count = NoCount
    /\ pc = "deploy:apply" => DefaultCount[inventory] = Expected

\* What a steady deploy applies is what there is, or more.
LEMMA SteadyTarget ==
  ASSUME SteadyInv, steady, pc = "deploy:apply"
  PROVE  TargetCount = Expected
BY DEF SteadyInv, TargetCount, DeployPcs

\* Expected never goes below one.
LEMMA ExpectedTyped ==
  ASSUME TypeOK
  PROVE  Expected \in 1..MaxVms
BY DefaultTyped, BoundsAssumption DEF TypeOK, Expected

LEMMA SteadyInvariant == Spec => []SteadyInv
<1> USE DEF DeployPcs
<1>1. Init => SteadyInv
  BY DEF Init, SteadyInv, Expected
<1>2. TypeInv /\ EnvInv /\ SteadyInv /\ [Next]_vars => SteadyInv'
  <2> SUFFICES ASSUME TypeInv, EnvInv, SteadyInv, [Next]_vars, steady'
               PROVE  /\ details' \in {NoType, first'}
                      /\ vms' <= Expected'
                      /\ pc' \in DeployPcs => cmd'.type = first' /\ cmd'.count = NoCount
                      /\ pc' = "deploy:apply" => DefaultCount[inventory'] = Expected'
    BY DEF SteadyInv
  <2>1. TypeOK /\ vms \in 0..MaxVms
    BY DEF TypeInv, TypeOK
  <2>2. Expected \in 1..MaxVms
    BY <2>1, ExpectedTyped
  <2>3. UNCHANGED details => UNCHANGED Expected
    BY DEF Expected
  <2>4. CASE StartDeploy
    <3>1. PICK type \in Types, count \in 0..MaxVms \cup {NoCount} :
            /\ cmd' \in DeployCommandsOf(type, count)
            /\ first' = IF first = NoType THEN type ELSE first
            /\ steady' = (steady /\ count = NoCount /\ first \in {type, NoType})
      BY <2>4 DEF StartDeploy
    <3>2. steady /\ count = NoCount /\ first' = type
      BY <3>1
    <3>3. cmd'.type = first' /\ cmd'.count = NoCount
      BY <3>1, <3>2, CommandsSay
    <3>4. details' \in {NoType, first'}
      BY <2>4, <3>1, <3>2 DEF StartDeploy, SteadyInv
    <3>5. QED
      BY <2>3, <2>4, <3>2, <3>3, <3>4 DEF StartDeploy, SteadyInv
  <2>5. CASE DeployInit
    BY <2>3, <2>5 DEF DeployInit, SteadyInv
  <2>6. CASE DeployInventoryNew \/ DeployInventoryKnown
    <3>1. DefaultCount["development"] = 1
      BY DEF DefaultCount
    <3>2. DefaultCount[inventory'] = Expected
      BY <2>6, <3>1 DEF DeployInventoryNew, DeployInventoryKnown, Expected
    <3>3. QED
      BY <2>3, <2>6, <3>2 DEF DeployInventoryNew, DeployInventoryKnown, SteadyInv
  <2>7. CASE DeployInventoryMisread
    BY <2>7 DEF DeployInventoryMisread
  <2>8. CASE DeployInventoryEmpty \/ DeployPartRefused \/ DeployPartShort \/ DeployEnds
    BY <2>3, <2>8
    DEF DeployInventoryEmpty, DeployPartRefused, DeployPartShort, DeployEnds, SteadyInv
  <2>9. CASE DeployApply
    <3>1. vms' = Expected
      BY <2>9, SteadyTarget DEF DeployApply, SetVms
    <3>2. QED
      BY <2>2, <2>3, <2>9, <3>1 DEF DeployApply, SteadyInv
  <2>10. CASE DeployApplyFails
    <3>1. PICK n \in 0..MaxVms : Between(vms, n, TargetCount) /\ vms' = n
      BY <2>10 DEF DeployApplyFails, SetVms
    <3>2. TargetCount = Expected /\ vms <= Expected
      BY <2>10, SteadyTarget DEF DeployApplyFails, SteadyInv
    <3>3. vms' <= Expected
      BY <2>1, <2>2, <3>1, <3>2 DEF Between
    <3>4. QED
      BY <2>3, <2>10, <3>3 DEF DeployApplyFails, SteadyInv
  <2>11. CASE DeployWrite
    <3>1. details' = first /\ cmd.type \in AllTypes
      BY <2>1, <2>11 DEF DeployWrite, SteadyInv, TypeOK, Commands
    <3>2. first \in AllTypes /\ first # NoType
      BY <2>11, <3>1, NoneAssumption DEF DeployWrite, SteadyInv
    <3>3. Expected' = DefaultCount[first] /\ DefaultCount[first] \in 1..MaxVms
      BY <3>1, <3>2, DefaultTyped DEF Expected
    <3>4. Expected <= Expected'
      BY <2>11, <3>2, <3>3 DEF DeployWrite, SteadyInv, Expected
    <3>5. QED
      BY <2>1, <2>2, <2>11, <3>1, <3>3, <3>4 DEF DeployWrite, SteadyInv
  <2>12. CASE DeployPart \/ DeployPartFails
    BY <2>3, <2>12 DEF DeployPart, DeployPartFails, SteadyInv
  <2>13. CASE \/ StartClean \/ CleanRead \/ CleanDrain \/ CleanSelect \/ CleanShow
              \/ CleanRefused \/ CleanWorkspace \/ CleanFiles
    BY <2>3, <2>13
    DEF StartClean, CleanRead, CleanDrain, CleanSelect, CleanShow, CleanRefused,
        CleanWorkspace, CleanFiles, SteadyInv
  <2>14. CASE CleanDestroy
    BY <2>2, <2>3, <2>14 DEF CleanDestroy, SetVms, SteadyInv
  <2>15. CASE CleanDestroyFails
    <3>1. PICK n \in 0..vms : vms' = n
      BY <2>15 DEF CleanDestroyFails, SetVms
    <3>2. QED
      BY <2>1, <2>2, <2>3, <2>15, <3>1 DEF CleanDestroyFails, SteadyInv
  <2>16. CASE CleanRecord
    <3>1. vms' = 0 /\ Expected' = 1
      BY <2>16 DEF CleanRecord, EnvInv, ClearedPcs, Expected
    <3>2. QED
      BY <2>16, <3>1 DEF CleanRecord, SteadyInv
  <2>17. CASE Abort
    BY <2>3, <2>17 DEF Abort, SteadyInv
  <2>18. CASE UNCHANGED vars
    BY <2>3, <2>18 DEF vars, SteadyInv
  <2>19. QED
    BY <2>4, <2>5, <2>6, <2>7, <2>8, <2>9, <2>10, <2>11, <2>12, <2>13, <2>14, <2>15, <2>16,
       <2>17, <2>18
    DEF Next, Deploy, Clean
<1>3. QED
  BY <1>1, <1>2, TypeInvariant, EnvInvariant, PTL DEF Spec

\* No steady deploy removes a VM, whatever failed before it.
THEOREM SteadyDeploysOnlyGrow == Spec => SteadyDeployKeepsVms
<1>1. TypeInv /\ SteadyInv /\ [Next]_vars => [steady /\ pc \in DeployPcs => vms' >= vms]_vars
  <2> SUFFICES ASSUME TypeInv, SteadyInv, Next, steady, pc \in DeployPcs
               PROVE  vms' >= vms
    OBVIOUS
  <2>1. TypeOK /\ vms \in 0..MaxVms
    BY DEF TypeInv, TypeOK
  <2>2. Expected \in 1..MaxVms /\ vms <= Expected
    BY <2>1, ExpectedTyped DEF SteadyInv
  <2>3. CASE DeployApply
    <3>1. vms' = Expected
      BY <2>3, SteadyTarget DEF DeployApply, SetVms
    <3>2. QED
      BY <2>1, <2>2, <3>1
  <2>4. CASE DeployApplyFails
    <3>1. PICK n \in 0..MaxVms : Between(vms, n, TargetCount) /\ vms' = n
      BY <2>4 DEF DeployApplyFails, SetVms
    <3>2. TargetCount = Expected
      BY <2>4, SteadyTarget DEF DeployApplyFails
    <3>3. QED
      BY <2>1, <2>2, <3>1, <3>2 DEF Between
  <2>5. CASE UNCHANGED vms
    BY <2>1, <2>5
  <2>6. Next => DeployApply \/ DeployApplyFails \/ UNCHANGED vms
    BY DEF DeployPcs, Next, Deploy, Clean, StartDeploy, DeployInit, DeployInventoryNew,
           DeployInventoryMisread, DeployInventoryKnown, DeployInventoryEmpty, DeployWrite,
           DeployPart, DeployPartRefused, DeployPartShort, DeployPartFails, DeployEnds,
           StartClean, CleanRead, CleanDrain, CleanSelect, CleanShow, CleanRefused,
           CleanDestroy, CleanDestroyFails, CleanWorkspace, CleanFiles, CleanRecord, Abort
  <2>7. QED
    BY <2>3, <2>4, <2>5, <2>6
<1>2. QED
  BY <1>1, TypeInvariant, SteadyInvariant, PTL DEF Spec, SteadyDeployKeepsVms

-----------------------------------------------------------------------------
(***************************************************************************)
(* What success and failure mean.                                          *)
(***************************************************************************)

\* A command has no outcome while it runs, and is of the kind of its steps.
RunInv ==
  /\ pc # "idle" => outcome = "none"
  /\ pc \in DeployPcs => cmd.variant \in AllVariants
  /\ pc \in CleanPcs => cmd.variant = "clean"

\* The name of no deploy command is that of `clean`.
LEMMA CleanIsNoVariant == "clean" \notin AllVariants
BY DEF AllVariants, PartsOf

LEMMA RunInvariant == Spec => []RunInv
<1> USE DEF DeployPcs, CleanPcs
<1>1. Init => RunInv
  BY DEF Init, RunInv
<1>2. RunInv /\ [Next]_vars => RunInv'
  <2> SUFFICES ASSUME RunInv, [Next]_vars
               PROVE  RunInv'
    OBVIOUS
  <2>1. CASE StartDeploy
    BY <2>1, SetsAssumption DEF StartDeploy, RunInv
  <2>2. CASE StartClean
    BY <2>2 DEF StartClean, CleanCommand, RunInv
  <2>3. CASE \/ DeployInit \/ DeployInventoryNew \/ DeployInventoryMisread
             \/ DeployInventoryKnown \/ DeployApply \/ DeployWrite \/ DeployPart
    BY <2>3
    DEF DeployInit, DeployInventoryNew, DeployInventoryMisread, DeployInventoryKnown,
        DeployApply, DeployWrite, DeployPart, RunInv
  <2>4. CASE \/ CleanRead \/ CleanDrain \/ CleanSelect \/ CleanShow \/ CleanDestroy
             \/ CleanWorkspace \/ CleanFiles
    BY <2>4
    DEF CleanRead, CleanDrain, CleanSelect, CleanShow, CleanDestroy, CleanWorkspace,
        CleanFiles, RunInv
  <2>5. CASE \/ DeployInventoryEmpty \/ DeployApplyFails \/ DeployPartRefused
             \/ DeployPartShort \/ DeployPartFails \/ DeployEnds \/ CleanRefused
             \/ CleanDestroyFails \/ CleanRecord \/ Abort
    BY <2>5
    DEF DeployInventoryEmpty, DeployApplyFails, DeployPartRefused, DeployPartShort,
        DeployPartFails, DeployEnds, CleanRefused, CleanDestroyFails, CleanRecord, Abort,
        RunInv
  <2>6. CASE UNCHANGED vars
    BY <2>6 DEF vars, RunInv
  <2>7. QED
    BY <2>1, <2>2, <2>3, <2>4, <2>5, <2>6 DEF Next, Deploy, Clean
<1>3. QED
  BY <1>1, <1>2, PTL DEF Spec

\* The services the command is for are on every VM.
Served ==
  \A v \in Vms :
    /\ cmd.variant = "deploy" => uploaders[v] >= cmd.uploaders
    /\ cmd.variant \in {"staticUploader", "repairFiles", "scanRepair"} => v \in keyed

\* The first part that a deploy provisions is the one that takes keys.
ServedInv ==
  /\ OkMeansServed
  /\ pc \in DeployPcs \ {"deploy:provision"} => parts = PartsOf[cmd.variant]
  /\ pc \in DeployPcs \ {"deploy:init"} => workspace
  /\ pc \in {"deploy:apply", "deploy:write", "deploy:provision"} => files
  /\ pc = "deploy:provision" =>
       details = cmd.type /\ (parts = PartsOf[cmd.variant] \/ Served)
  /\ pc = "clean:record" => ~files

LEMMA HeadOfParts ==
  /\ \A variant \in AllVariants : PartsOf[variant] # <<>>
  /\ Head(PartsOf["deploy"]) = "uploaders"
  /\ \A variant \in {"staticUploader", "repairFiles", "scanRepair"} :
       Head(PartsOf[variant]) \in Keyed
<1>1. \A variant \in AllVariants : PartsOf[variant] # <<>>
  <2>1. PartsOf["deploy"] # <<>> /\ PartsOf["chunkTrackers"] # <<>>
    BY DEF PartsOf
  <2>2. PartsOf["dataRetrieval"] # <<>> /\ PartsOf["repairFiles"] # <<>>
    BY DEF PartsOf
  <2>3. PartsOf["scanRepair"] # <<>> /\ PartsOf["staticDownloaders"] # <<>>
    BY DEF PartsOf
  <2>4. PartsOf["staticUploader"] # <<>>
    BY DEF PartsOf
  <2>5. AllVariants = {"deploy", "chunkTrackers", "dataRetrieval", "repairFiles",
                       "scanRepair", "staticDownloaders", "staticUploader"}
    BY DEF AllVariants, PartsOf
  <2>6. QED
    BY <2>1, <2>2, <2>3, <2>4, <2>5
<1>2. Head(PartsOf["deploy"]) = "uploaders"
  BY DEF PartsOf
<1>3. Head(PartsOf["staticUploader"]) \in Keyed
  BY DEF PartsOf, Keyed
<1>4. Head(PartsOf["repairFiles"]) \in Keyed
  BY DEF PartsOf, Keyed
<1>5. Head(PartsOf["scanRepair"]) \in Keyed
  BY DEF PartsOf, Keyed
<1>6. QED
  BY <1>1, <1>2, <1>3, <1>4, <1>5

\* A part that is provisioned on all VMs takes nothing away, and the first one
\* brings what the command is for.
LEMMA PartServes ==
  ASSUME TypeOK, DeployPart, parts = PartsOf[cmd.variant] \/ Served
  PROVE  Served'
<1> SUFFICES ASSUME NEW v \in Vms
             PROVE  /\ cmd.variant = "deploy" => uploaders'[v] >= cmd.uploaders
                    /\ cmd.variant \in {"staticUploader", "repairFiles", "scanRepair"}
                         => v \in keyed'
  BY DEF Served, DeployPart, Vms
<1>1. v \in 1..MaxVms /\ vms # 0 /\ uploaders[v] \in Nat /\ cmd.uploaders \in Nat
  <2>1. vms \in 0..MaxVms /\ v \in 1..vms
    BY DEF TypeOK, Vms
  <2>2. v \in 1..MaxVms /\ vms # 0
    BY <2>1, BoundsAssumption
  <2>3. uploaders[v] \in 0..MaxUploaders /\ cmd.uploaders \in 0..MaxUploaders
    BY <2>2 DEF TypeOK, Commands
  <2>4. QED
    BY <2>2, <2>3, BoundsAssumption
<1>2. UploadersAfter(v) \in Nat /\ uploaders[v] <= UploadersAfter(v)
  BY <1>1, UploadersTyped
<1>3. uploaders'[v] = IF Head(parts) = "uploaders" THEN UploadersAfter(v) ELSE uploaders[v]
  BY <1>1 DEF DeployPart, Provisioned
<1>4. keyed \subseteq keyed' /\ (Head(parts) \in Keyed => v \in keyed')
  BY DEF DeployPart, Provisioned
<1>5. Head(parts) = "uploaders" => UploadersAfter(v) >= cmd.uploaders
  BY <1>1, <1>2 DEF DeployPart, Short
<1>6. CASE parts = PartsOf[cmd.variant]
  BY <1>3, <1>4, <1>5, <1>6, HeadOfParts
<1>7. CASE Served
  BY <1>1, <1>2, <1>3, <1>4, <1>7 DEF Served
<1>8. QED
  BY <1>6, <1>7

LEMMA ServedInvariant == Spec => []ServedInv
<1> USE DEF DeployPcs, CleanPcs
<1>1. Init => ServedInv
  BY DEF Init, ServedInv, OkMeansServed
<1>2. TypeInv /\ EnvInv /\ RunInv /\ ServedInv /\ [Next]_vars => ServedInv'
  <2> SUFFICES ASSUME TypeInv, EnvInv, RunInv, ServedInv, [Next]_vars
               PROVE  ServedInv'
    OBVIOUS
  <2>1. TypeOK
    BY DEF TypeInv
  <2>2. outcome' # "ok" => OkMeansServed'
    BY DEF OkMeansServed
  <2>3. CASE StartDeploy
    BY <2>2, <2>3 DEF StartDeploy, ServedInv
  <2>4. CASE StartClean
    BY <2>2, <2>4 DEF StartClean, ServedInv
  <2>5. CASE DeployInit
    BY <2>2, <2>5 DEF DeployInit, RunInv, ServedInv
  <2>6. CASE DeployInventoryNew \/ DeployInventoryMisread \/ DeployInventoryKnown
    BY <2>2, <2>6
    DEF DeployInventoryNew, DeployInventoryMisread, DeployInventoryKnown, RunInv, ServedInv
  <2>7. CASE DeployApply
    BY <2>2, <2>7 DEF DeployApply, RunInv, ServedInv
  <2>8. CASE DeployWrite
    BY <2>2, <2>8 DEF DeployWrite, RunInv, ServedInv
  <2>9. CASE DeployPart
    <3>1. Served'
      BY <2>1, <2>9, PartServes DEF DeployPart, ServedInv
    <3>2. QED
      BY <2>2, <2>9, <3>1 DEF DeployPart, RunInv, ServedInv
  <2>10. CASE DeployEnds
    <3>1. cmd.variant \in AllVariants /\ cmd.variant # "clean"
      BY <2>10, CleanIsNoVariant DEF DeployEnds, RunInv
    <3>2. Served
      BY <2>10, <3>1, HeadOfParts DEF DeployEnds, ServedInv
    <3>3. workspace /\ files /\ details = cmd.type
      BY <2>10 DEF DeployEnds, ServedInv
    <3>4. OkMeansServed'
      BY <2>10, <3>1, <3>2, <3>3 DEF DeployEnds, OkMeansServed, Served, Vms
    <3>5. QED
      BY <2>10, <3>4 DEF DeployEnds, ServedInv
  <2>11. CASE \/ DeployInventoryEmpty \/ DeployApplyFails \/ DeployPartRefused
              \/ DeployPartShort \/ DeployPartFails \/ CleanRefused
              \/ CleanDestroyFails \/ Abort
    BY <2>2, <2>11
    DEF DeployInventoryEmpty, DeployApplyFails, DeployPartRefused, DeployPartShort,
        DeployPartFails, CleanRefused, CleanDestroyFails, Abort, ServedInv
  <2>12. CASE \/ CleanRead \/ CleanDrain \/ CleanSelect \/ CleanShow \/ CleanDestroy
              \/ CleanWorkspace \/ CleanFiles
    BY <2>2, <2>12
    DEF CleanRead, CleanDrain, CleanSelect, CleanShow, CleanDestroy, CleanWorkspace,
        CleanFiles, RunInv, ServedInv
  <2>13. CASE CleanRecord
    <3>1. ~workspace /\ vms = 0 /\ ~files /\ cmd.variant = "clean"
      BY <2>13 DEF CleanRecord, EnvInv, ClearedPcs, GonePcs, RunInv, ServedInv
    <3>2. QED
      BY <2>13, <3>1 DEF CleanRecord, ServedInv, OkMeansServed
  <2>14. CASE UNCHANGED vars
    BY <2>14 DEF vars, ServedInv, OkMeansServed, Served, Vms
  <2>15. QED
    BY <2>3, <2>4, <2>5, <2>6, <2>7, <2>8, <2>9, <2>10, <2>11, <2>12, <2>13, <2>14
    DEF Next, Deploy, Clean
<1>3. QED
  BY <1>1, <1>2, TypeInvariant, EnvInvariant, RunInvariant, PTL DEF Spec

\* A command that reports success left what it was asked for, or nothing if it
\* was asked to clean, whatever failed in the commands before it.
THEOREM SuccessMeansServed == Spec => []OkMeansServed
BY ServedInvariant, PTL DEF ServedInv

\* Fewer keys for a VM than services are fewer keys than services in all.
LEMMA KeysPerVmShort ==
  ASSUME NEW keys \in Nat, NEW n \in Nat \ {0}, NEW wanted \in Nat, keys \div n < wanted
  PROVE  keys < n * wanted
<1> DEFINE each == keys \div n
<1>1. each \in Int /\ keys < n * (each + 1)
  OBVIOUS
<1>2. each + 1 <= wanted
  BY <1>1
<1>3. n * (each + 1) <= n * wanted
  <2> HIDE DEF each
  <2>1. PICK d \in Nat : wanted = (each + 1) + d
    BY <1>1, <1>2
  <2>2. n * wanted = n * (each + 1) + n * d /\ n * d \in Nat
    BY <1>1, <2>1
  <2>3. QED
    BY <1>1, <2>2
<1>4. QED
  BY <1>1, <1>3

\* The playbook leaves too few services only where the keys given are too few.
LEMMA ShortMeansMisfit ==
  ASSUME TypeOK, DeployPartShort
  PROVE  KeysDoNotFit
<1>1. PICK v \in Vms : UploadersAfter(v) < cmd.uploaders
  BY DEF DeployPartShort, Short
<1>2. vms \in Nat \ {0} /\ cmd.keys \in Nat /\ cmd.uploaders \in Nat /\ v \in 1..MaxVms
  <2>1. vms \in 0..MaxVms /\ v \in 1..vms
    BY <1>1 DEF TypeOK, Vms
  <2>2. cmd.uploaders \in 0..MaxUploaders /\ cmd.keys \in Nat
    BY DEF TypeOK, Commands
  <2>3. QED
    BY <2>1, <2>2, BoundsAssumption
<1>3. uploaders[v] \in Nat
  BY <1>2, BoundsAssumption DEF TypeOK
<1>4. cmd.keys \div vms \in Nat
  BY <1>2
<1>5. KeysPerVm < cmd.uploaders
  BY <1>1, <1>2, <1>3, <1>4 DEF UploadersAfter, KeysPerVm
<1>6. cmd.keys > 0 /\ cmd.keys \div vms < cmd.uploaders
  BY <1>2, <1>5 DEF KeysPerVm
<1>7. cmd.keys < vms * cmd.uploaders
  BY <1>2, <1>6, KeysPerVmShort
<1>8. QED
  BY <1>6, <1>7 DEF KeysDoNotFit

\* What the code refuses before the playbook is too many services or keys
\* that do not match the VMs.
LEMMA RefusedMeansExcused ==
  ASSUME TypeOK, RunInv, DeployPartRefused
  PROVE  \/ vms = 0
         \/ cmd.variant # "clean"
              /\ (KeysDoNotFit \/ \E v \in Vms : uploaders[v] > cmd.uploaders)
<1>1. cmd.variant # "clean"
  BY CleanIsNoVariant DEF DeployPartRefused, RunInv, DeployPcs
<1>2. Refused(Head(parts))
  BY DEF DeployPartRefused
<1>3. QED
  BY <1>1, <1>2 DEF Refused, KeysDoNotFit

\* A command in which no call failed fails only for the reasons listed: there
\* are no VMs or no details, or the keys or the services do not match the VMs.
THEOREM CalmFailureIsExcused == Spec => []CalmCommandSucceeds
<1> USE DEF DeployPcs, CleanPcs
<1>1. Init => CalmCommandSucceeds
  BY DEF Init, CalmCommandSucceeds
<1>2. TypeInv /\ EnvInv /\ RunInv /\ CalmCommandSucceeds /\ [Next]_vars
        => CalmCommandSucceeds'
  <2> SUFFICES ASSUME TypeInv, EnvInv, RunInv, CalmCommandSucceeds, [Next]_vars
               PROVE  CalmCommandSucceeds'
    OBVIOUS
  <2>1. outcome' # "error" \/ ~calm' => CalmCommandSucceeds'
    BY DEF CalmCommandSucceeds
  <2>2. CASE StartDeploy \/ StartClean
    BY <2>1, <2>2 DEF StartDeploy, StartClean
  <2>3. CASE \/ DeployInit \/ DeployInventoryNew \/ DeployInventoryMisread
             \/ DeployInventoryKnown \/ DeployApply \/ DeployWrite \/ DeployPart
    BY <2>1, <2>3
    DEF DeployInit, DeployInventoryNew, DeployInventoryMisread, DeployInventoryKnown,
        DeployApply, DeployWrite, DeployPart, RunInv
  <2>4. CASE \/ CleanRead \/ CleanDrain \/ CleanSelect \/ CleanShow \/ CleanDestroy
             \/ CleanWorkspace \/ CleanFiles
    BY <2>1, <2>4
    DEF CleanRead, CleanDrain, CleanSelect, CleanShow, CleanDestroy, CleanWorkspace,
        CleanFiles, RunInv
  <2>5. CASE DeployEnds \/ CleanRecord
    BY <2>1, <2>5 DEF DeployEnds, CleanRecord
  <2>6. CASE \/ DeployApplyFails \/ DeployPartFails \/ CleanDestroyFails \/ Abort
    BY <2>1, <2>6 DEF DeployApplyFails, DeployPartFails, CleanDestroyFails, Abort
  <2>7. CASE DeployInventoryEmpty
    BY <2>7 DEF DeployInventoryEmpty, CalmCommandSucceeds
  <2>8. CASE DeployPartRefused
    BY <2>8, RefusedMeansExcused
    DEF TypeInv, DeployPartRefused, CalmCommandSucceeds, KeysDoNotFit, Vms
  <2>9. CASE DeployPartShort
    <3>1. KeysDoNotFit
      BY <2>9, ShortMeansMisfit DEF TypeInv
    <3>2. KeysDoNotFit'
      BY <2>9, <3>1 DEF DeployPartShort, KeysDoNotFit
    <3>3. cmd'.variant # "clean"
      BY <2>9, CleanIsNoVariant DEF DeployPartShort, RunInv
    <3>4. QED
      BY <3>2, <3>3 DEF CalmCommandSucceeds
  <2>10. CASE CleanRefused
    <3>1. CASE pc = "clean:read" /\ details = NoType
      BY <2>10, <3>1 DEF CleanRefused, RunInv, CalmCommandSucceeds
    <3>2. CASE pc = "clean:select" /\ ~workspace
      BY <2>10, <3>2 DEF CleanRefused, EnvInv, CalmCommandSucceeds
    <3>3. CASE pc = "clean:show" /\ ~StateReadable
      <4>1. vms = 0
        BY <3>3, BoundsAssumption DEF StateReadable, TypeInv, TypeOK
      <4>2. QED
        BY <2>10, <4>1 DEF CleanRefused, CalmCommandSucceeds
    <3>4. QED
      BY <2>10, <3>1, <3>2, <3>3 DEF CleanRefused
  <2>11. CASE UNCHANGED vars
    BY <2>11 DEF vars, CalmCommandSucceeds, KeysDoNotFit, Vms
  <2>12. QED
    BY <2>2, <2>3, <2>4, <2>5, <2>6, <2>7, <2>8, <2>9, <2>10, <2>11
    DEF Next, Deploy, Clean
<1>3. QED
  BY <1>1, <1>2, TypeInvariant, EnvInvariant, RunInvariant, PTL DEF Spec

-----------------------------------------------------------------------------
(***************************************************************************)
(* Details without VMs.                                                    *)
(***************************************************************************)

\* An environment with details and without VMs stays so, whatever is deployed
\* or cleaned and whatever fails, until a deploy cannot read the details.
THEOREM StrandedStays == Spec => StrandedUntilMisread
<1>1. Next /\ Stranded => Stranded' \/ (pc = "deploy:inventory" /\ ~calm')
  <2> SUFFICES ASSUME Next, Stranded
               PROVE  Stranded' \/ (pc = "deploy:inventory" /\ ~calm')
    OBVIOUS
  <2>1. CASE StartDeploy \/ DeployInit \/ DeployInventoryMisread \/ DeployInventoryEmpty
    BY <2>1
    DEF StartDeploy, DeployInit, DeployInventoryMisread, DeployInventoryEmpty, Stranded
  <2>2. CASE StartClean \/ CleanRead \/ CleanDrain \/ CleanSelect \/ CleanRefused
    BY <2>2 DEF StartClean, CleanRead, CleanDrain, CleanSelect, CleanRefused, Stranded
  <2>3. CASE Abort
    BY <2>3 DEF Abort, Stranded
  <2>4. ~(DeployInventoryNew \/ DeployInventoryKnown \/ CleanShow)
    BY DEF DeployInventoryNew, DeployInventoryKnown, CleanShow, StateReadable, Stranded
  <2>5. ~(DeployApply \/ DeployApplyFails \/ DeployWrite)
    BY DEF DeployApply, DeployApplyFails, DeployWrite, Stranded
  <2>6. ~(DeployPart \/ DeployPartRefused \/ DeployPartShort \/ DeployPartFails \/ DeployEnds)
    BY DEF DeployPart, DeployPartRefused, DeployPartShort, DeployPartFails, DeployEnds, Stranded
  <2>7. ~(CleanDestroy \/ CleanDestroyFails \/ CleanWorkspace \/ CleanFiles \/ CleanRecord)
    BY DEF CleanDestroy, CleanDestroyFails, CleanWorkspace, CleanFiles, CleanRecord, Stranded
  <2>8. QED
    BY <2>1, <2>2, <2>3, <2>4, <2>5, <2>6, <2>7 DEF Next, Deploy, Clean
<1>2. QED
  BY <1>1, PTL DEF Spec, StrandedUntilMisread

=============================================================================
