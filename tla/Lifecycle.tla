------------------------------ MODULE Lifecycle ------------------------------
(***************************************************************************)
(* The life of one testnet environment, driven by one operator who runs    *)
(* the commands `deploy`, `bootstrap`, `upscale`, `clean`, `funds deposit` *)
(* and `funds drain` one after the other.  A command is a chain of calls   *)
(* to terraform, ansible, S3 and the EVM network; it has no transaction    *)
(* around it, so it may stop between any two calls, or in the middle of    *)
(* one, and the next command starts from what was left.                    *)
(*                                                                         *)
(* What outlives a command: the terraform workspace, the VMs it holds, the *)
(* environment details in S3, the wallets on the client VMs, and the local *)
(* inventory files.  What a command forgets when it ends: `target`, `seen` *)
(* `drain` and `opts`.                                                     *)
(***************************************************************************)
EXTENDS Integers

CONSTANTS
  Kinds,              \* the VM kinds terraform counts separately
  Genesis, Client,    \* the genesis kind and the client kind
  Scalable,           \* the kinds whose count `upscale` may change
  Misnamed,           \* the kinds it looks for by a name that no resource has
  MaxVms,             \* bound: VMs of a kind
  Anvil,              \* the environment uses the Anvil (local) EVM network
  FlakyListing,       \* one attempt at listing a kind's VMs may come back empty
  EmptyStateReadable  \* `terraform show` can be parsed when no VM exists

ASSUME KindsAssumption ==
  /\ Genesis \in Kinds /\ Client \in Kinds /\ Genesis # Client
  /\ Client \in Scalable /\ Scalable \subseteq Kinds \ {Genesis}
  /\ Misnamed \subseteq Kinds \ Scalable /\ Genesis \notin Misnamed
ASSUME MaxVmsAssumption == MaxVms \in Nat \ {0}
ASSUME FlagsAssumption == {Anvil, FlakyListing, EmptyStateReadable} \subseteq BOOLEAN

VARIABLES
  workspace,   \* the terraform workspace of the environment exists
  vms,         \* the VMs in the terraform state, by kind
  genesisUp,   \* the genesis node runs
  wallet,      \* the uploader wallet on each client VM
  details,     \* the environment details object in S3
  files,       \* the ansible inventory files of the environment exist
  pc,          \* the next step of the running command, "idle" between two
  opts,        \* the running command's options
  target,      \* the VM counts the running command will apply
  seen,        \* `upscale`: VM counts in the inventory it generated
  drain        \* `clean`: what became of the drain

durable == <<workspace, vms, genesisUp, wallet, details, files>>
locals == <<opts, target, seen, drain>>
vars == <<durable, pc, locals>>

Counts == [Kinds -> 0..MaxVms]
NoVms == [k \in Kinds |-> 0]
Wallets == {"absent", "funded", "dust", "empty"}
Details == [type : {"none", "new", "bootstrap"}, address : BOOLEAN]
NoDetails == [type |-> "none", address |-> FALSE]

(***************************************************************************)
(* A command may stop early by its options: `--to-genesis`, `--plan`,      *)
(* `--infra-only`.  `clients` is TRUE for an upscale that asks for client  *)
(* VMs or uploaders.                                                       *)
(***************************************************************************)
Options == [stop : {"never", "genesis", "plan", "infra"}, clients : BOOLEAN]
NoOptions == [stop |-> "never", clients |-> FALSE]

Pcs == {"idle", "report",
        "deploy:inventory", "deploy:init", "deploy:apply", "deploy:write1",
        "deploy:write2", "deploy:genesis", "deploy:nodes", "deploy:clients",
        "deploy:rest",
        "bootstrap:inventory", "bootstrap:init", "bootstrap:write",
        "bootstrap:apply", "bootstrap:nodes",
        "upscale:init", "upscale:inventory", "upscale:check", "upscale:show",
        "upscale:apply", "upscale:peer", "upscale:clients",
        "clean:read", "clean:drain", "clean:select", "clean:show",
        "clean:destroy", "clean:workspace", "clean:files", "clean:record",
        "deposit:inventory", "deposit:pay", "drain:inventory", "drain:pay"}

TypeOK ==
  /\ workspace \in BOOLEAN
  /\ vms \in Counts
  /\ genesisUp \in BOOLEAN
  /\ wallet \in [1..MaxVms -> Wallets]
  /\ details \in Details
  /\ files \in BOOLEAN
  /\ pc \in Pcs
  /\ opts \in Options
  /\ target \in Counts
  /\ seen \in Counts
  /\ drain \in {"none", "wanted", "skipped", "done"}

ForgetLocals ==
  /\ opts' = NoOptions
  /\ target' = NoVms
  /\ seen' = NoVms
  /\ drain' = "none"

\* The command ends; what it kept in memory is gone.
End == pc' = "idle" /\ ForgetLocals

Step(from, to) == pc = from /\ pc' = to

Init ==
  /\ workspace = FALSE /\ vms = NoVms /\ genesisUp = FALSE
  /\ wallet = [i \in 1..MaxVms |-> "absent"]
  /\ details = NoDetails /\ files = FALSE
  /\ pc = "idle" /\ opts = NoOptions
  /\ target = NoVms /\ seen = NoVms /\ drain = "none"

-----------------------------------------------------------------------------
(***************************************************************************)
(* Steps that several commands share.                                      *)
(***************************************************************************)

\* Mutant: the wallets of the VMs that go are cut off, not emptied.
SetVmsCutting(new) ==
  /\ vms' = new
  /\ genesisUp' = (genesisUp /\ new[Genesis] > 0)
  /\ wallet' = [i \in 1..new[Client] |-> wallet[i]]

\* terraform brings the VMs to `new`: it removes the VMs with the highest
\* index first, and a VM that goes takes what ran on it along.
SetVms(new) ==
  /\ vms' = new
  /\ genesisUp' = (genesisUp /\ new[Genesis] > 0)
  /\ wallet' = [i \in 1..MaxVms |-> IF i <= new[Client] THEN wallet[i] ELSE "absent"]

Between(a, b, c) == (a <= b /\ b <= c) \/ (c <= b /\ b <= a)

\* The inventory files are written, unless they are there already.
GenerateInventory(from, to) ==
  /\ Step(from, to)
  /\ files' = TRUE
  /\ UNCHANGED <<workspace, vms, genesisUp, wallet, details, locals>>

\* An inventory that fails, or needs details that are not there, fails the
\* command after it wrote the files.
InventoryFails ==
  /\ pc \in {"deploy:inventory", "bootstrap:inventory", "upscale:inventory",
             "deposit:inventory", "drain:inventory"}
  /\ files' = TRUE
  /\ End
  /\ UNCHANGED <<workspace, vms, genesisUp, wallet, details>>

\* init creates the workspace if it does not exist.
InitWorkspace(from, to) ==
  /\ Step(from, to)
  /\ workspace' = TRUE
  /\ UNCHANGED <<vms, genesisUp, wallet, details, files, locals>>

\* `terraform apply` in the workspace, to its end ...
Apply(from, to) ==
  /\ Step(from, to)
  /\ workspace
  /\ SetVms(target)
  /\ UNCHANGED <<workspace, details, files, locals>>

\* ... or given up somewhere on the way, which fails the command.
ApplyFails(from) ==
  /\ pc = from
  /\ workspace
  /\ \E mid \in Counts :
       /\ \A k \in Kinds : Between(vms[k], mid[k], target[k])
       /\ SetVms(mid)
  /\ End
  /\ UNCHANGED <<workspace, details, files>>

WriteDetails(from, to, d) ==
  /\ Step(from, to)
  /\ details' = d
  /\ UNCHANGED <<workspace, vms, genesisUp, wallet, files, locals>>

\* The Uploaders playbook reached the client VMs in `done`: their uploaders
\* run with wallets the deposit funded.
Fund(done) ==
  wallet' = [i \in 1..MaxVms |-> IF i \in done THEN "funded" ELSE wallet[i]]

\* Without a count of uploaders, only wallets that exist are funded.
Fundable(count) ==
  {i \in 1..vms[Client] : count \/ wallet[i] # "absent"}

\* deposit_funds_to_clients and the playbook; without client VMs the deposit
\* is an error.
ProvisionClients(from, to) ==
  /\ Step(from, to)
  /\ vms[Client] > 0
  /\ \E count \in BOOLEAN :
       /\ pc = "deploy:clients" => count
       /\ Fund(Fundable(count))
  /\ UNCHANGED <<workspace, vms, genesisUp, details, files, locals>>

\* The deposit or the playbook fails part-way, which fails the command.
ProvisionClientsFails(from) ==
  /\ pc = from
  /\ \E done \in SUBSET Fundable(TRUE) : Fund(done)
  /\ End
  /\ UNCHANGED <<workspace, vms, genesisUp, details, files>>

\* The inventory is generated again and printed; failures are tolerated.
Report ==
  /\ pc = "report"
  /\ files' = TRUE
  /\ End
  /\ UNCHANGED <<workspace, vms, genesisUp, wallet, details>>

\* Any step may fail, or the operator interrupts the command.
Abort ==
  /\ pc # "idle"
  /\ End
  /\ UNCHANGED durable

\* get_client_secret_keys and the transfers of each wallet, in any order.  A
\* drained wallet keeps the gas reserve that the transfer did not use up, or
\* nothing if it used all; a wallet that holds less than the reserve makes
\* the subtraction wrap and the transfer fail.
Drain(done) ==
  \E left \in [done -> {"dust", "empty"}] :
    wallet' = [i \in 1..MaxVms |->
                 IF i \in done /\ wallet[i] = "funded" THEN left[i] ELSE wallet[i]]

\* Mutant: a wallet that fails to drain is skipped.
DrainSome == \E done \in SUBSET (1..MaxVms) : Drain(done)

DrainAll ==
  /\ \A i \in 1..MaxVms : wallet[i] # "dust"
  /\ Drain(1..MaxVms)

\* A transfer fails part-way, which fails the command.
DrainFails(from) ==
  /\ pc = from
  /\ \E done \in SUBSET (1..MaxVms) : Drain(done)
  /\ End
  /\ UNCHANGED <<workspace, vms, genesisUp, details, files>>

StateReadable == EmptyStateReadable \/ \E k \in Kinds : vms[k] > 0

-----------------------------------------------------------------------------
(***************************************************************************)
(* deploy                                                                  *)
(***************************************************************************)
StartDeploy ==
  /\ Step("idle", "deploy:inventory")
  /\ \E counts \in Counts, stop \in {"never", "genesis"} :
       /\ counts[Genesis] = 1
       /\ target' = counts
       /\ opts' = [NoOptions EXCEPT !.stop = stop]
  /\ UNCHANGED <<durable, seen, drain>>

DeployInventory == GenerateInventory("deploy:inventory", "deploy:init")
DeployInit == InitWorkspace("deploy:init", "deploy:apply")
DeployApply == Apply("deploy:apply", "deploy:write1")
DeployApplyFails == ApplyFails("deploy:apply")

\* The details are written twice: the address of the funding wallet is known
\* only after the Anvil node, if there is one, was provisioned.
DeployWriteFirst ==
  WriteDetails("deploy:write1", "deploy:write2", [type |-> "new", address |-> FALSE])
DeployWriteSecond ==
  WriteDetails("deploy:write2", "deploy:genesis", [type |-> "new", address |-> TRUE])

DeployGenesis ==
  /\ Step("deploy:genesis", IF opts.stop = "genesis" THEN "report" ELSE "deploy:nodes")
  /\ genesisUp' = TRUE
  /\ UNCHANGED <<workspace, vms, wallet, details, files, locals>>

\* Nodes that fail to start are tolerated; a failure to list the private
\* nodes or to set up the symmetric gateway is not (Abort).
DeployNodes ==
  /\ Step("deploy:nodes", "deploy:clients")
  /\ UNCHANGED <<durable, locals>>

DeployClients == ProvisionClients("deploy:clients", "deploy:rest")
DeployClientsFails == ProvisionClientsFails("deploy:clients")

\* The downloaders and the chunk trackers.
DeployRest ==
  /\ Step("deploy:rest", "report")
  /\ UNCHANGED <<durable, locals>>

Deploy ==
  \/ StartDeploy \/ DeployInventory \/ DeployInit \/ DeployApply \/ DeployApplyFails
  \/ DeployWriteFirst \/ DeployWriteSecond \/ DeployGenesis \/ DeployNodes
  \/ DeployClients \/ DeployClientsFails \/ DeployRest

-----------------------------------------------------------------------------
(***************************************************************************)
(* bootstrap: nodes that join a network that exists elsewhere; no genesis, *)
(* no clients, none of the misnamed kinds (bootstrap.rs:103), and the      *)
(* details are written before the VMs are created.                         *)
(***************************************************************************)
StartBootstrap ==
  /\ Step("idle", "bootstrap:inventory")
  /\ \E counts \in Counts :
       /\ \A k \in {Genesis, Client} \cup Misnamed : counts[k] = 0
       /\ target' = counts
  /\ UNCHANGED <<durable, opts, seen, drain>>

BootstrapInventory == GenerateInventory("bootstrap:inventory", "bootstrap:init")
BootstrapInit == InitWorkspace("bootstrap:init", "bootstrap:write")
BootstrapWrite ==
  WriteDetails("bootstrap:write", "bootstrap:apply",
               [type |-> "bootstrap", address |-> FALSE])
BootstrapApply == Apply("bootstrap:apply", "bootstrap:nodes")
BootstrapApplyFails == ApplyFails("bootstrap:apply")
BootstrapNodes ==
  /\ Step("bootstrap:nodes", "report")
  /\ UNCHANGED <<durable, locals>>

Bootstrap ==
  \/ StartBootstrap \/ BootstrapInventory \/ BootstrapInit \/ BootstrapWrite
  \/ BootstrapApply \/ BootstrapApplyFails \/ BootstrapNodes

-----------------------------------------------------------------------------
(***************************************************************************)
(* upscale: lists what is there, checks that nothing would shrink, reads   *)
(* the counts of the terraform state, and applies them with the desired    *)
(* counts in place of those of the scalable kinds.                         *)
(***************************************************************************)
StartUpscale ==
  /\ Step("idle", "upscale:init")
  /\ \E o \in Options : o.stop # "genesis" /\ opts' = o
  /\ UNCHANGED <<durable, target, seen, drain>>

UpscaleInit == InitWorkspace("upscale:init", "upscale:inventory")

\* Only the client listing is attempted again when it comes back empty.  The
\* inventory of a bootstrap deployment has no client VMs.
Listing(k) ==
  IF k = Client
    THEN IF details.type = "bootstrap" THEN {0} ELSE {vms[k]}
    ELSE IF FlakyListing THEN {0, vms[k]} ELSE {vms[k]}

UpscaleInventory ==
  /\ Step("upscale:inventory", "upscale:check")
  /\ files' = TRUE
  /\ details.type # "none"
  /\ \E listing \in Counts :
       /\ \A k \in Kinds : listing[k] \in Listing(k)
       /\ seen' = listing
  /\ UNCHANGED <<workspace, vms, genesisUp, wallet, details, opts, target, drain>>

\* Mutant: the check that nothing shrinks is forgotten.
UpscaleCheckNothing ==
  /\ Step("upscale:check", "upscale:show")
  /\ \E desired \in Counts :
       /\ \A k \in Kinds \ Scalable : desired[k] = seen[k]
       /\ desired[Client] > seen[Client] => opts.clients /\ details.type # "bootstrap"
       /\ target' = desired
  /\ UNCHANGED <<durable, opts, seen, drain>>

\* A count that is not given is the one seen; one below it is refused (Abort).
UpscaleCheck ==
  /\ Step("upscale:check", "upscale:show")
  /\ \E desired \in Counts :
       /\ \A k \in Kinds :
            IF k \in Scalable THEN desired[k] >= seen[k] ELSE desired[k] = seen[k]
       /\ desired[Client] > seen[Client] => opts.clients /\ details.type # "bootstrap"
       /\ target' = desired
  /\ UNCHANGED <<durable, opts, seen, drain>>

\* The VMs of a kind in the terraform state, as far as they are found by name.
Shown(k) == IF k \in Misnamed THEN 0 ELSE vms[k]

UpscaleShow ==
  /\ pc = "upscale:show"
  /\ workspace /\ StateReadable
  /\ \/ /\ opts.stop = "plan"
        /\ End
     \/ /\ opts.stop # "plan"
        /\ pc' = "upscale:apply"
        /\ target' = [k \in Kinds |-> IF k \in Scalable THEN target[k] ELSE Shown(k)]
        /\ UNCHANGED <<opts, seen, drain>>
  /\ UNCHANGED durable

UpscaleApply ==
  Apply("upscale:apply", IF opts.stop = "infra" THEN "report" ELSE "upscale:peer")
UpscaleApplyFails == ApplyFails("upscale:apply")

\* The multiaddr of the genesis node, or of any node of a bootstrap
\* deployment, then the nodes.
UpscalePeer ==
  /\ Step("upscale:peer", IF opts.clients THEN "upscale:clients" ELSE "report")
  /\ details.type = "bootstrap" \/ genesisUp
  /\ UNCHANGED <<durable, locals>>

UpscaleClients == ProvisionClients("upscale:clients", "report")
UpscaleClientsFails == ProvisionClientsFails("upscale:clients")

Upscale ==
  \/ StartUpscale \/ UpscaleInit \/ UpscaleInventory \/ UpscaleCheck \/ UpscaleShow
  \/ UpscaleApply \/ UpscaleApplyFails \/ UpscalePeer \/ UpscaleClients
  \/ UpscaleClientsFails

-----------------------------------------------------------------------------
(***************************************************************************)
(* clean: drains the wallets, destroys the VMs, deletes the workspace, the *)
(* inventory files and the details.                                        *)
(***************************************************************************)
StartClean ==
  /\ Step("idle", "clean:read")
  /\ UNCHANGED <<durable, locals>>

\* Details that cannot be read do not stop the command.
CleanRead ==
  /\ Step("clean:read", "clean:drain")
  /\ drain' \in IF details.type = "none" THEN {"skipped"} ELSE {"skipped", "wanted"}
  /\ UNCHANGED <<durable, opts, target, seen>>

\* Mutant: the wallets of an Anvil network are drained too.
DrainableAnywhere ==
  drain = "wanted" /\ details.address /\ \E i \in 1..MaxVms : wallet[i] # "absent"

Drainable ==
  /\ drain = "wanted"
  /\ ~Anvil /\ details.address
  /\ \E i \in 1..MaxVms : wallet[i] # "absent"

\* Skipped also when the client VMs or their uploaders cannot be counted.
CleanDrainSkipped ==
  /\ Step("clean:drain", "clean:select")
  /\ drain' = "skipped"
  /\ UNCHANGED <<durable, opts, target, seen>>

CleanDrain ==
  /\ Step("clean:drain", "clean:select")
  /\ Drainable
  /\ DrainAll
  /\ drain' = "done"
  /\ UNCHANGED <<workspace, vms, genesisUp, details, files, opts, target, seen>>

CleanDrainFails == Drainable /\ DrainFails("clean:drain")

\* Mutant: the details are deleted before the VMs are destroyed.
CleanSelectForgetting ==
  /\ Step("clean:select", "clean:show")
  /\ workspace
  /\ details' = NoDetails
  /\ UNCHANGED <<workspace, vms, genesisUp, wallet, files, locals>>

CleanSelect ==
  /\ Step("clean:select", "clean:show")
  /\ workspace
  /\ UNCHANGED <<durable, locals>>

CleanShow ==
  /\ Step("clean:show", "clean:destroy")
  /\ StateReadable
  /\ UNCHANGED <<durable, locals>>

CleanDestroy ==
  /\ Step("clean:destroy", "clean:workspace")
  /\ SetVms(NoVms)
  /\ UNCHANGED <<workspace, details, files, locals>>

\* Mutant: a destroy that fails does not stop the command.
CleanDestroyTolerant ==
  /\ Step("clean:destroy", "clean:workspace")
  /\ \E rest \in Counts : (\A k \in Kinds : rest[k] <= vms[k]) /\ SetVms(rest)
  /\ UNCHANGED <<workspace, details, files, locals>>

CleanDestroyFails ==
  /\ pc = "clean:destroy"
  /\ \E rest \in Counts : (\A k \in Kinds : rest[k] <= vms[k]) /\ SetVms(rest)
  /\ End
  /\ UNCHANGED <<workspace, details, files>>

\* Mutant: a workspace that cannot be deleted is passed over.
CleanWorkspaceTolerant ==
  /\ Step("clean:workspace", "clean:files")
  /\ workspace' \in {workspace, FALSE}
  /\ UNCHANGED <<vms, genesisUp, wallet, details, files, locals>>

CleanWorkspace ==
  /\ Step("clean:workspace", "clean:files")
  /\ workspace' = FALSE
  /\ UNCHANGED <<vms, genesisUp, wallet, details, files, locals>>

CleanFiles ==
  /\ Step("clean:files", "clean:record")
  /\ files' = FALSE
  /\ UNCHANGED <<workspace, vms, genesisUp, wallet, details, locals>>

\* The command succeeds whether or not S3 deletes the details.
CleanRecord ==
  /\ pc = "clean:record"
  /\ details' \in {details, NoDetails}
  /\ End
  /\ UNCHANGED <<workspace, vms, genesisUp, wallet, files>>

Clean ==
  \/ StartClean \/ CleanRead \/ CleanDrainSkipped \/ CleanDrain \/ CleanDrainFails
  \/ CleanSelect \/ CleanShow \/ CleanDestroy \/ CleanDestroyFails
  \/ CleanWorkspace \/ CleanFiles \/ CleanRecord

-----------------------------------------------------------------------------
(***************************************************************************)
(* funds deposit, funds drain: an inventory first, which needs the details *)
(***************************************************************************)
StartFunds ==
  /\ pc = "idle"
  /\ pc' \in {"deposit:inventory", "drain:inventory"}
  /\ UNCHANGED <<durable, locals>>

FundsInventory ==
  /\ \/ Step("deposit:inventory", "deposit:pay")
     \/ Step("drain:inventory", "drain:pay")
  /\ files' = TRUE
  /\ details.type # "none"
  /\ UNCHANGED <<workspace, vms, genesisUp, wallet, details, locals>>

\* The wallets that exist are funded, all or, on a failure, some.
FundsDeposit ==
  /\ pc = "deposit:pay"
  /\ vms[Client] > 0
  /\ \E done \in SUBSET Fundable(FALSE) : Fund(done)
  /\ End
  /\ UNCHANGED <<workspace, vms, genesisUp, details, files>>

\* Where to: the address the operator gives, else the one in the details.
FundsDrain ==
  /\ pc = "drain:pay"
  /\ ~Anvil /\ vms[Client] > 0
  /\ DrainAll
  /\ End
  /\ UNCHANGED <<workspace, vms, genesisUp, details, files>>

FundsDrainFails == ~Anvil /\ DrainFails("drain:pay")

Funds ==
  StartFunds \/ FundsInventory \/ FundsDeposit \/ FundsDrain \/ FundsDrainFails

Next == Deploy \/ Bootstrap \/ Upscale \/ Clean \/ Funds \/ InventoryFails \/ Report \/ Abort

Spec == Init /\ [][Next]_vars

\* The operator who wants the environment gone runs `clean` again and again,
\* and a call that is made again and again does not fail for ever.
FairSpec ==
  /\ Spec
  /\ WF_vars(StartClean)
  /\ SF_vars(CleanRead)
  /\ SF_vars(CleanDrain \/ (~Drainable /\ CleanDrainSkipped))
  /\ SF_vars(CleanSelect)
  /\ SF_vars(CleanShow)
  /\ SF_vars(CleanDestroy)

-----------------------------------------------------------------------------
(***************************************************************************)
(* Properties                                                              *)
(***************************************************************************)

UpscalePcs ==
  {"upscale:init", "upscale:inventory", "upscale:check", "upscale:show",
   "upscale:apply", "upscale:peer", "upscale:clients"}
CleanPcs ==
  {"clean:read", "clean:drain", "clean:select", "clean:show", "clean:destroy",
   "clean:workspace", "clean:files", "clean:record"}

Env == INSTANCE Environment WITH
  held <- workspace,
  vms <- vms[Client],
  wallets <- {i \in 1..MaxVms : wallet[i] = "funded"},
  recorded <- details.type # "none"

\* Funds are put on a client VM only while the environment is on record, and
\* an environment is forgotten from the VMs up: the VMs, the workspace, the
\* details (deploy.rs:92-232, lib.rs:1049-1106).
ImplementsEnvironment == Env!Spec

\* No VM outlives the workspace that knows it: whatever commands failed on
\* the way, a VM can still be destroyed through terraform.
NoVmWithoutWorkspace == ~workspace => vms = NoVms

\* A wallet on a client VM always has environment details in S3 behind it, so
\* that `clean` and `funds drain` can know the network its funds are on: the
\* details are written before the clients are funded and go after the VMs.
WalletHasDetails ==
  (\E i \in 1..MaxVms : wallet[i] # "absent") => details.type # "none"

\* An upscale removes no VM of a kind that it finds in the terraform state,
\* wherever it and the commands before it stopped (upscale.rs:54-187).  The
\* client VMs of an environment that was bootstrapped over are left out.
UpscaleKeepsVms ==
  [][\A k \in Kinds \ Misnamed :
       pc \in UpscalePcs /\ vms'[k] < vms[k]
         => k = Client /\ details.type = "bootstrap"]_vars

\* "The desired ... VM count is smaller than the current count. This is invalid
\* for an upscale operation" (error.rs:90-102): an upscale removes no VM at all.
UpscaleRemovesNothing ==
  [][\A k \in Kinds :
       pc \in UpscalePcs /\ vms'[k] < vms[k]
         => k = Client /\ details.type = "bootstrap"]_vars

\* `clean` removes a funded wallet only when it skipped the drain: after a
\* drain that came to its end there is nothing left to lose.
CleanLosesFundsOnlyUndrained ==
  [][\A i \in 1..MaxVms :
       pc \in CleanPcs /\ wallet[i] = "funded" /\ wallet'[i] = "absent"
         => drain = "skipped"]_vars

\* An operator who does nothing but clean gets rid of the VMs.
CleaningFreesVms ==
  <>[](pc \in CleanPcs \cup {"idle"}) => <>[](vms = NoVms)

=============================================================================
