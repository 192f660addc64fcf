------------------------------ MODULE ClientEnv ------------------------------
(***************************************************************************)
(* The life of one client environment: VMs that only run clients, against  *)
(* a network that is somewhere else.  Seven `clients deploy...` commands   *)
(* share one flow (clients.rs), and `clients clean` undoes it.  Each is a  *)
(* chain of calls without a transaction around it: a call that fails ends  *)
(* the command, and the next command starts from what was left.            *)
(*                                                                         *)
(* Different from a testnet: the inventory of an environment without       *)
(* details is that of a development one; the details never have a funding  *)
(* address, so nothing is drained; and `clean` needs the details.          *)
(*                                                                         *)
(* Left out: the VM that builds binaries, sizes, images and regions, and   *)
(* the details of the keys, which are in Uploaders.                        *)
(***************************************************************************)
EXTENDS Integers, Sequences

CONSTANTS
  Variants,      \* the deploy commands the operator uses
  Types,         \* the environment types the operator asks for
  NoType,        \* no environment type: there are no details
  NoCount,       \* --client-vm-count is not used
  MaxVms,        \* bound: client VMs
  MaxUploaders,  \* bound: --uploaders-count
  EmptyStateReadable  \* `terraform show` can be parsed when no VM exists

\* client_vm_count of development.tfvars, staging.tfvars and PROD-01.tfvars.
DefaultCount == [development |-> 1, staging |-> 2, production |-> 1]

\* What a deploy command provisions, in this order.
PartsOf ==
  [deploy            |-> <<"uploaders", "downloaders", "chunk trackers">>,
   chunkTrackers     |-> <<"chunk trackers">>,
   dataRetrieval     |-> <<"data retrieval">>,
   repairFiles       |-> <<"repair files">>,
   scanRepair        |-> <<"scan repair">>,
   staticDownloaders |-> <<"static downloaders">>,
   staticUploader    |-> <<"static uploader">>]

AllTypes == DOMAIN DefaultCount
AllVariants == DOMAIN PartsOf

ASSUME SetsAssumption == Variants \subseteq AllVariants /\ Types \subseteq AllTypes
ASSUME NoneAssumption == NoType \notin AllTypes /\ NoCount \notin Nat
ASSUME BoundsAssumption == MaxVms \in Nat /\ MaxVms >= 2 /\ MaxUploaders \in Nat \ {0}
ASSUME FlagAssumption == EmptyStateReadable \in BOOLEAN

VARIABLES
  workspace,  \* the terraform workspace of the environment exists
  vms,        \* terraform holds the client VMs 1..vms
  uploaders,  \* uploader services, each with a key of its own, by VM
  keyed,      \* the VMs with another service that holds a key
  details,    \* the environment type in the details in S3
  files,      \* the ansible inventory files of the environment exist
  pc,         \* the next step of the running command, "idle" between two
  cmd,        \* the running command, or the last one
  inventory,  \* the environment type in the inventory of the running deploy
  parts,      \* what the running deploy has still to provision
  outcome,    \* how the last command ended
  calm,       \* no call of the running, or last, command failed or misread
  first,      \* the environment type of the first deploy
  steady      \* every deploy asked for that type and no count, and read
              \* the details if there were any

durable == <<workspace, vms, uploaders, keyed, details, files>>
history == <<calm, first, steady>>
vars == <<durable, pc, cmd, inventory, parts, outcome, history>>

Vms == 1..vms
Parts == {"uploaders", "downloaders", "chunk trackers", "data retrieval",
          "repair files", "scan repair", "static downloaders", "static uploader"}
Keyed == {"repair files", "scan repair", "static uploader"}

\* A command: its variant, the type and count the operator gave, the number
\* of uploaders for each VM, and of keys; 0 keys are keys to be generated.
Commands ==
  [variant : AllVariants \cup {"clean"}, type : AllTypes, count : 0..MaxVms \cup {NoCount},
   uploaders : 0..MaxUploaders, keys : Nat]
CleanCommand ==
  [variant |-> "clean", type |-> "development", count |-> NoCount, uploaders |-> 0, keys |-> 0]

DeployPcs == {"deploy:init", "deploy:inventory", "deploy:apply", "deploy:write", "deploy:provision"}
CleanPcs ==
  {"clean:read", "clean:drain", "clean:select", "clean:show", "clean:destroy",
   "clean:workspace", "clean:files", "clean:record"}

TypeOK ==
  /\ workspace \in BOOLEAN /\ vms \in 0..MaxVms
  /\ uploaders \in [1..MaxVms -> 0..MaxUploaders]
  /\ keyed \in SUBSET (1..MaxVms)
  /\ details \in AllTypes \cup {NoType}
  /\ files \in BOOLEAN
  /\ pc \in DeployPcs \cup CleanPcs \cup {"idle"}
  /\ cmd \in Commands
  /\ inventory \in AllTypes \cup {NoType}
  /\ parts \in Seq(Parts)
  /\ outcome \in {"none", "ok", "error"}
  /\ calm \in BOOLEAN /\ first \in AllTypes \cup {NoType} /\ steady \in BOOLEAN

Init ==
  /\ workspace = FALSE /\ vms = 0
  /\ uploaders = [v \in 1..MaxVms |-> 0] /\ keyed = {}
  /\ details = NoType /\ files = FALSE
  /\ pc = "idle" /\ cmd = CleanCommand /\ inventory = NoType /\ parts = <<>>
  /\ outcome = "none"
  /\ calm = TRUE /\ first = NoType /\ steady = TRUE

-----------------------------------------------------------------------------
(***************************************************************************)
(* Steps that both kinds of command share.                                 *)
(***************************************************************************)

\* One call returns, and the command goes on to the next.
Step(from, to) == pc = from /\ pc' = to /\ UNCHANGED <<cmd, outcome, history>>

\* The command ends; what it kept in memory is gone.
End(how) ==
  /\ pc' = "idle" /\ outcome' = how
  /\ inventory' = NoType /\ parts' = <<>>
  /\ UNCHANGED <<cmd, first, steady>>

\* The code ends the command, with success or with an error of its own.
Finish(how) == End(how) /\ UNCHANGED calm

\* A call fails, or the operator interrupts the command.
Break == End("error") /\ calm' = FALSE

\* Mutant: the uploaders of the VMs that go are cut off, not set to none.
SetVmsCutting(n) ==
  /\ vms' = n
  /\ uploaders' = [v \in 1..n |-> uploaders[v]]
  /\ keyed' = keyed \cap (1..n)

\* Terraform brings the VMs to `n`, the highest index first; a VM that goes
\* takes the services and their keys along.
SetVms(n) ==
  /\ vms' = n
  /\ uploaders' = [v \in 1..MaxVms |-> IF v <= n THEN uploaders[v] ELSE 0]
  /\ keyed' = keyed \cap (1..n)

StateReadable == EmptyStateReadable \/ vms > 0

\* Any call may fail without effect.
Abort ==
  /\ pc # "idle"
  /\ Break
  /\ UNCHANGED durable

-----------------------------------------------------------------------------
(***************************************************************************)
(* clients deploy, deploy-chunk-trackers, deploy-data-retrieval, ...       *)
(***************************************************************************)

Command(variant, type, count, n, keys) ==
  [variant |-> variant, type |-> type, count |-> count, uploaders |-> n, keys |-> keys]

\* Where the number of keys depends on the count of VMs, a count that is not
\* given is taken for one.
CountGiven(count) == IF count = NoCount THEN 1 ELSE count

\* The commands of each handler of cmd/clients.rs, for a type and a count.
\* Only `deploy` may come without keys; the number of those that it is given
\* is checked.
DeployCommands(type, count) ==
  {Command("deploy", type, count, n, IF given THEN CountGiven(count) * n ELSE 0) :
     n \in 1..MaxUploaders, given \in BOOLEAN}
ChunkTrackersCommands(type, count) == {Command("chunkTrackers", type, count, 0, 0)}
DataRetrievalCommands(type, count) == {Command("dataRetrieval", type, count, 0, 0)}
RepairFilesCommands(type, count) == {Command("repairFiles", type, count, 0, CountGiven(count))}
ScanRepairCommands(type, count) == {Command("scanRepair", type, count, 0, CountGiven(count))}
StaticDownloadersCommands(type, count) == {Command("staticDownloaders", type, count, 0, 0)}
StaticUploaderCommands(type, count) == {Command("staticUploader", type, count, 1, 1)}

DeployCommandsOf(type, count) ==
  DeployCommands(type, count) \cup ChunkTrackersCommands(type, count)
    \cup DataRetrievalCommands(type, count) \cup RepairFilesCommands(type, count)
    \cup ScanRepairCommands(type, count) \cup StaticDownloadersCommands(type, count)
    \cup StaticUploaderCommands(type, count)

StartDeploy ==
  /\ pc = "idle" /\ pc' = "deploy:init"
  /\ \E type \in Types, count \in 0..MaxVms \cup {NoCount} :
       /\ cmd' \in DeployCommandsOf(type, count) /\ cmd'.variant \in Variants
       /\ first' = IF first = NoType THEN type ELSE first
       /\ steady' = (steady /\ count = NoCount /\ first \in {type, NoType})
  /\ parts' = PartsOf[cmd'.variant]
  /\ outcome' = "none" /\ calm' = TRUE
  /\ UNCHANGED <<durable, inventory>>

DeployInit ==
  /\ Step("deploy:init", "deploy:inventory")
  /\ workspace' = TRUE
  /\ UNCHANGED <<vms, uploaders, keyed, details, files, inventory, parts>>

\* The inventory of an environment that has no details.
DeployInventoryNew ==
  /\ Step("deploy:inventory", "deploy:apply")
  /\ details = NoType
  /\ files' = TRUE
  /\ inventory' = "development"
  /\ UNCHANGED <<workspace, vms, uploaders, keyed, details, parts>>

\* Details that could not be read, four times, count as no details.
DeployInventoryMisread ==
  /\ pc = "deploy:inventory" /\ pc' = "deploy:apply"
  /\ details # NoType
  /\ files' = TRUE
  /\ inventory' = "development"
  /\ calm' = FALSE /\ steady' = FALSE
  /\ UNCHANGED <<workspace, vms, uploaders, keyed, details, parts, cmd, outcome, first>>

\* Mutant: no client VMs are no error.
DeployInventoryKnownEmpty ==
  /\ Step("deploy:inventory", "deploy:apply")
  /\ details # NoType
  /\ files' = TRUE
  /\ inventory' = details
  /\ UNCHANGED <<workspace, vms, uploaders, keyed, details, parts>>

DeployInventoryKnown ==
  /\ Step("deploy:inventory", "deploy:apply")
  /\ details # NoType /\ vms > 0
  /\ files' = TRUE
  /\ inventory' = details
  /\ UNCHANGED <<workspace, vms, uploaders, keyed, details, parts>>

\* get_client_secret_keys takes no client VMs for an error.
DeployInventoryEmpty ==
  /\ pc = "deploy:inventory"
  /\ details # NoType /\ vms = 0
  /\ files' = TRUE
  /\ Finish("error")
  /\ UNCHANGED <<workspace, vms, uploaders, keyed, details>>

\* Mutant: the type asked for, but only in the first deploy.
TargetCountOfFirst ==
  IF cmd.count # NoCount THEN cmd.count
  ELSE IF details = NoType THEN DefaultCount[cmd.type] ELSE DefaultCount["development"]

\* The tfvars are those of the inventory's environment type.
TargetCount == IF cmd.count = NoCount THEN DefaultCount[inventory] ELSE cmd.count

DeployApply ==
  /\ Step("deploy:apply", "deploy:write")
  /\ workspace
  /\ SetVms(TargetCount)
  /\ UNCHANGED <<workspace, details, files, inventory, parts>>

Between(a, b, c) == (a <= b /\ b <= c) \/ (c <= b /\ b <= a)

\* The apply is given up on the way.
DeployApplyFails ==
  /\ pc = "deploy:apply" /\ workspace
  /\ \E n \in 0..MaxVms :
       /\ Between(vms, n, TargetCount)
       /\ SetVms(n)
  /\ Break
  /\ UNCHANGED <<workspace, details, files>>

DeployWrite ==
  /\ Step("deploy:write", "deploy:provision")
  /\ details' = cmd.type
  /\ UNCHANGED <<workspace, vms, uploaders, keyed, files, inventory, parts>>

\* The keys for each VM: those given are dealt evenly.
KeysPerVm == IF cmd.keys = 0 THEN cmd.uploaders ELSE cmd.keys \div vms

\* The uploader services VM `v` has after the playbook: those it had, and as
\* many more as were asked for and have a key.
UploadersAfter(v) ==
  LET able == IF KeysPerVm < cmd.uploaders THEN KeysPerVm ELSE cmd.uploaders
  IN  IF uploaders[v] > able THEN uploaders[v] ELSE able

\* What the code itself refuses before a playbook runs: keys without VMs to
\* put them on, keys that cannot be dealt evenly, and fewer uploaders than
\* there are when the keys are to be generated.
Refused(part) ==
  /\ part \in Keyed \cup {"uploaders"}
  /\ \/ vms = 0
     \/ vms > 0 /\ cmd.keys > 0 /\ cmd.keys % vms # 0
     \/ cmd.keys = 0 /\ \E v \in Vms : uploaders[v] > cmd.uploaders

\* A service without a key cannot be enabled.
Short(part) == part = "uploaders" /\ \E v \in Vms : UploadersAfter(v) < cmd.uploaders

\* The playbook of `part` did its work on the VMs in `done`.
Provisioned(part, done) ==
  /\ uploaders' = [v \in 1..MaxVms |->
       IF part = "uploaders" /\ v \in done THEN UploadersAfter(v) ELSE uploaders[v]]
  /\ keyed' = IF part \in Keyed THEN keyed \cup done ELSE keyed

\* Mutant: VMs on which the playbook failed are passed over.
DeployPartTolerant ==
  /\ parts # <<>> /\ ~Refused(Head(parts)) /\ ~Short(Head(parts))
  /\ Step("deploy:provision", "deploy:provision")
  /\ \E done \in SUBSET Vms : Provisioned(Head(parts), done)
  /\ parts' = Tail(parts)
  /\ UNCHANGED <<workspace, vms, details, files, inventory>>

DeployPart ==
  /\ parts # <<>> /\ ~Refused(Head(parts)) /\ ~Short(Head(parts))
  /\ Step("deploy:provision", "deploy:provision")
  /\ Provisioned(Head(parts), Vms)
  /\ parts' = Tail(parts)
  /\ UNCHANGED <<workspace, vms, details, files, inventory>>

DeployPartRefused ==
  /\ pc = "deploy:provision" /\ parts # <<>> /\ Refused(Head(parts))
  /\ Finish("error")
  /\ UNCHANGED durable

DeployPartShort ==
  /\ pc = "deploy:provision" /\ parts # <<>>
  /\ ~Refused(Head(parts)) /\ Short(Head(parts))
  /\ Provisioned(Head(parts), Vms)
  /\ Finish("error")
  /\ UNCHANGED <<workspace, vms, details, files>>

\* The playbook fails on some VMs.
DeployPartFails ==
  /\ pc = "deploy:provision" /\ parts # <<>> /\ ~Refused(Head(parts))
  /\ \E done \in SUBSET Vms : Provisioned(Head(parts), done)
  /\ Break
  /\ UNCHANGED <<workspace, vms, details, files>>

DeployEnds ==
  /\ pc = "deploy:provision" /\ parts = <<>>
  /\ Finish("ok")
  /\ UNCHANGED durable

Deploy ==
  \/ StartDeploy \/ DeployInit \/ DeployInventoryNew \/ DeployInventoryMisread
  \/ DeployInventoryKnown \/ DeployInventoryEmpty
  \/ DeployApply \/ DeployApplyFails \/ DeployWrite
  \/ DeployPart \/ DeployPartRefused \/ DeployPartShort \/ DeployPartFails \/ DeployEnds

-----------------------------------------------------------------------------
(***************************************************************************)
(* clients clean                                                           *)
(***************************************************************************)
StartClean ==
  /\ pc = "idle" /\ pc' = "clean:read"
  /\ cmd' = CleanCommand
  /\ outcome' = "none" /\ calm' = TRUE
  /\ UNCHANGED <<durable, inventory, parts, first, steady>>

CleanRead ==
  /\ Step("clean:read", "clean:drain")
  /\ details # NoType
  /\ UNCHANGED <<durable, inventory, parts>>

\* Mutant: VMs with keys that cannot be drained are kept.
CleanDrainKeeping ==
  /\ Step("clean:drain", "clean:select")
  /\ keyed = {} /\ \A v \in Vms : uploaders[v] = 0
  /\ UNCHANGED <<durable, inventory, parts>>

\* There is no funding address, so nothing is drained.
CleanDrain ==
  /\ Step("clean:drain", "clean:select")
  /\ UNCHANGED <<durable, inventory, parts>>

\* Mutant: the details are deleted before the VMs are destroyed.
CleanSelectForgetting ==
  /\ Step("clean:select", "clean:show")
  /\ workspace
  /\ details' = NoType
  /\ UNCHANGED <<workspace, vms, uploaders, keyed, files, inventory, parts>>

CleanSelect ==
  /\ Step("clean:select", "clean:show")
  /\ workspace
  /\ UNCHANGED <<durable, inventory, parts>>

CleanShow ==
  /\ Step("clean:show", "clean:destroy")
  /\ StateReadable
  /\ UNCHANGED <<durable, inventory, parts>>

\* Mutant: an environment without a funding address is not cleaned.
CleanRefusedUnfunded ==
  /\ \/ pc = "clean:read" /\ details = NoType
     \/ pc = "clean:drain"
     \/ pc = "clean:select" /\ ~workspace
     \/ pc = "clean:show" /\ ~StateReadable
  /\ Finish("error")
  /\ UNCHANGED durable

\* `clean` ends at details, a workspace or a state that it cannot find.
CleanRefused ==
  /\ \/ pc = "clean:read" /\ details = NoType
     \/ pc = "clean:select" /\ ~workspace
     \/ pc = "clean:show" /\ ~StateReadable
  /\ Finish("error")
  /\ UNCHANGED durable

CleanDestroy ==
  /\ Step("clean:destroy", "clean:workspace")
  /\ SetVms(0)
  /\ UNCHANGED <<workspace, details, files, inventory, parts>>

CleanDestroyFails ==
  /\ pc = "clean:destroy"
  /\ \E n \in 0..vms : SetVms(n)
  /\ Break
  /\ UNCHANGED <<workspace, details, files>>

CleanWorkspace ==
  /\ Step("clean:workspace", "clean:files")
  /\ workspace' = FALSE
  /\ UNCHANGED <<vms, uploaders, keyed, details, files, inventory, parts>>

CleanFiles ==
  /\ Step("clean:files", "clean:record")
  /\ files' = FALSE
  /\ UNCHANGED <<workspace, vms, uploaders, keyed, details, inventory, parts>>

CleanRecord ==
  /\ pc = "clean:record"
  /\ details' = NoType
  /\ Finish("ok")
  /\ UNCHANGED <<workspace, vms, uploaders, keyed, files>>

Clean ==
  \/ StartClean \/ CleanRead \/ CleanDrain \/ CleanSelect \/ CleanShow \/ CleanRefused
  \/ CleanDestroy \/ CleanDestroyFails \/ CleanWorkspace \/ CleanFiles \/ CleanRecord

Next == Deploy \/ Clean \/ Abort

Spec == Init /\ [][Next]_vars

\* The operator who wants the environment gone runs `clean` again and again,
\* and a call that is made again and again does not fail for ever.
FairSpec ==
  /\ Spec
  /\ WF_vars(StartClean)
  /\ SF_vars(CleanRead) /\ SF_vars(CleanDrain) /\ SF_vars(CleanSelect)
  /\ SF_vars(CleanShow) /\ SF_vars(CleanDestroy)

-----------------------------------------------------------------------------
(***************************************************************************)
(* Properties                                                              *)
(***************************************************************************)
Env == INSTANCE Environment WITH
  held <- workspace,
  wallets <- {v \in 1..MaxVms : uploaders[v] > 0} \cup keyed,
  recorded <- details # NoType

\* Keys are on a VM only while the environment is on record, and an
\* environment is forgotten from the VMs up (clients.rs:354-400, 663-684).
ImplementsEnvironment == Env!Spec

\* The mismatches of a deploy's options with what is there that the code
\* finds out only after it changed the VMs.
KeysDoNotFit ==
  /\ cmd.keys > 0
  /\ cmd.keys % vms # 0 \/ cmd.keys < vms * cmd.uploaders

\* A command in which no call failed ends with success, with these exceptions.
\* A deploy: there are no VMs, or the keys do not match the VMs, or there are
\* more uploaders than it asks for.  A clean: there are no details, or no VMs.
\* Details without VMs stop both, for ever: what an interrupted clean, or a
\* deploy of no VMs, leaves behind.
CalmCommandSucceeds ==
  outcome = "error" /\ calm =>
    \/ vms = 0
    \/ cmd.variant = "clean" /\ details = NoType
    \/ cmd.variant # "clean"
         /\ (KeysDoNotFit \/ \E v \in Vms : uploaders[v] > cmd.uploaders)

\* Success means that what was asked for is there: a deploy leaves a record,
\* with the workspace and the files that later commands need, and the
\* uploaders on every VM that there is; a clean leaves nothing.
OkMeansServed ==
  outcome = "ok" =>
    IF cmd.variant = "clean"
      THEN ~workspace /\ vms = 0 /\ details = NoType /\ ~files
      ELSE /\ workspace /\ files /\ details = cmd.type
           /\ \A v \in Vms :
                /\ cmd.variant = "deploy" => uploaders[v] >= cmd.uploaders
                /\ cmd.variant \in {"staticUploader", "repairFiles", "scanRepair"} => v \in keyed

\* An operator who always asks for the same environment type and never for a
\* count does not lose a VM, and the keys on it, to a deploy, as long as the
\* details can be read: the tfvars of a deploy are those of the type recorded
\* before it, and the type of the first deploy's are the smallest.
SteadyDeployKeepsVms == [][steady /\ pc \in DeployPcs => vms' >= vms]_vars

\* Details without VMs: every deploy ends at EmptyInventory (funding.rs:55),
\* and every clean at the empty state that terraform shows.
Stranded ==
  /\ ~EmptyStateReadable
  /\ vms = 0 /\ details # NoType
  /\ pc \in {"idle", "deploy:init", "deploy:inventory",
             "clean:read", "clean:drain", "clean:select", "clean:show"}

\* No command gets a stranded environment going again, nor rid of it, except
\* a deploy that cannot read the details and takes them for missing.
StrandedUntilMisread == [][Stranded /\ ~Stranded' => pc = "deploy:inventory" /\ ~calm']_vars

\* An operator who does nothing but clean an environment that has details
\* gets rid of the VMs.
CleaningFreesVms ==
  <>[](pc \in CleanPcs \cup {"idle"}) => <>[](vms = 0 \/ details = NoType)

=============================================================================
