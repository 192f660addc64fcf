--------------------------- MODULE LifecycleProofs ---------------------------
(***************************************************************************)
(* Proofs about Lifecycle, for every set of VM kinds, every bound on the   *)
(* VMs and either kind of network.                                         *)
(***************************************************************************)
EXTENDS Lifecycle, TLAPS

USE DEF Step, End, ForgetLocals, durable, locals

-----------------------------------------------------------------------------
(***************************************************************************)
(* Type correctness.                                                       *)
(***************************************************************************)

LEMMA NoVmsTyped == NoVms \in Counts
BY MaxVmsAssumption DEF NoVms, Counts

LEMMA NoDetailsTyped == NoDetails \in Details
BY DEF NoDetails, Details

LEMMA NoOptionsTyped == NoOptions \in Options
BY DEF NoOptions, Options

\* The locals of a command that ends are well typed.
LEMMA EndTyped ==
  ASSUME End
  PROVE  /\ pc' \in Pcs /\ opts' \in Options /\ target' \in Counts
         /\ seen' \in Counts /\ drain' \in {"none", "wanted", "skipped", "done"}
BY NoVmsTyped, NoOptionsTyped DEF Pcs

\* Terraform leaves well typed VMs and wallets behind.
LEMMA SetVmsTyped ==
  ASSUME NEW new \in Counts, TypeOK, SetVms(new)
  PROVE  vms' \in Counts /\ genesisUp' \in BOOLEAN /\ wallet' \in [1..MaxVms -> Wallets]
<1>1. wallet' \in [1..MaxVms -> Wallets]
  BY DEF TypeOK, SetVms, Wallets
<1>2. genesisUp' \in BOOLEAN
  BY DEF TypeOK, SetVms
<1>3. QED
  BY <1>1, <1>2 DEF SetVms

\* Funding keeps the wallets well typed.
LEMMA FundTyped ==
  ASSUME NEW done, TypeOK, Fund(done)
  PROVE  wallet' \in [1..MaxVms -> Wallets]
BY DEF TypeOK, Fund, Wallets

\* Draining keeps the wallets well typed.
LEMMA DrainTyped ==
  ASSUME NEW done, TypeOK, Drain(done)
  PROVE  wallet' \in [1..MaxVms -> Wallets]
BY DEF TypeOK, Drain, Wallets

\* Every state of the environment and of the running command is well typed.
THEOREM TypeCorrect == Spec => []TypeOK
<1>1. Init => TypeOK
  BY NoVmsTyped, NoDetailsTyped, NoOptionsTyped DEF Init, TypeOK, Wallets, Pcs
<1>2. TypeOK /\ [Next]_vars => TypeOK'
  <2> SUFFICES ASSUME TypeOK, [Next]_vars
               PROVE  TypeOK'
    OBVIOUS
  <2>1. CASE Deploy
    <3>1. CASE StartDeploy
      BY <3>1 DEF StartDeploy, TypeOK, Pcs, Options, NoOptions
    <3>2. CASE DeployInventory
      BY <3>2 DEF DeployInventory, GenerateInventory, TypeOK, Pcs
    <3>3. CASE DeployInit
      BY <3>3 DEF DeployInit, InitWorkspace, TypeOK, Pcs
    <3>4. CASE DeployApply
      BY <3>4, SetVmsTyped DEF DeployApply, Apply, TypeOK, Pcs
    <3>5. CASE DeployApplyFails
      BY <3>5, SetVmsTyped, EndTyped DEF DeployApplyFails, ApplyFails, TypeOK
    <3>6. CASE DeployWriteFirst
      BY <3>6 DEF DeployWriteFirst, WriteDetails, TypeOK, Pcs, Details
    <3>7. CASE DeployWriteSecond
      BY <3>7 DEF DeployWriteSecond, WriteDetails, TypeOK, Pcs, Details
    <3>8. CASE DeployGenesis
      BY <3>8 DEF DeployGenesis, TypeOK, Pcs
    <3>9. CASE DeployNodes
      BY <3>9 DEF DeployNodes, TypeOK, Pcs
    <3>10. CASE DeployClients
      BY <3>10, FundTyped DEF DeployClients, ProvisionClients, TypeOK, Pcs
    <3>11. CASE DeployClientsFails
      BY <3>11, FundTyped, EndTyped DEF DeployClientsFails, ProvisionClientsFails, TypeOK
    <3>12. CASE DeployRest
      BY <3>12 DEF DeployRest, TypeOK, Pcs
    <3>13. QED
      BY <2>1, <3>1, <3>2, <3>3, <3>4, <3>5, <3>6, <3>7, <3>8, <3>9, <3>10, <3>11, <3>12
      DEF Deploy
  <2>2. CASE Bootstrap
    <3>1. CASE StartBootstrap
      BY <3>1 DEF StartBootstrap, TypeOK, Pcs
    <3>2. CASE BootstrapInventory
      BY <3>2 DEF BootstrapInventory, GenerateInventory, TypeOK, Pcs
    <3>3. CASE BootstrapInit
      BY <3>3 DEF BootstrapInit, InitWorkspace, TypeOK, Pcs
    <3>4. CASE BootstrapWrite
      BY <3>4 DEF BootstrapWrite, WriteDetails, TypeOK, Pcs, Details
    <3>5. CASE BootstrapApply
      BY <3>5, SetVmsTyped DEF BootstrapApply, Apply, TypeOK, Pcs
    <3>6. CASE BootstrapApplyFails
      BY <3>6, SetVmsTyped, EndTyped DEF BootstrapApplyFails, ApplyFails, TypeOK
    <3>7. CASE BootstrapNodes
      BY <3>7 DEF BootstrapNodes, TypeOK, Pcs
    <3>8. QED
      BY <2>2, <3>1, <3>2, <3>3, <3>4, <3>5, <3>6, <3>7 DEF Bootstrap
  <2>3. CASE Upscale
    <3>1. CASE StartUpscale
      BY <3>1 DEF StartUpscale, TypeOK, Pcs
    <3>2. CASE UpscaleInit
      BY <3>2 DEF UpscaleInit, InitWorkspace, TypeOK, Pcs
    <3>3. CASE UpscaleInventory
      BY <3>3 DEF UpscaleInventory, TypeOK, Pcs
    <3>4. CASE UpscaleCheck
      BY <3>4 DEF UpscaleCheck, TypeOK, Pcs
    <3>5. CASE UpscaleShow
      <4>1. CASE opts.stop = "plan"
        BY <3>5, <4>1, EndTyped DEF UpscaleShow, TypeOK
      <4>2. CASE opts.stop # "plan"
        <5>1. \A k \in Kinds : vms[k] \in 0..MaxVms /\ target[k] \in 0..MaxVms
          BY DEF TypeOK, Counts
        <5>2. \A k \in Kinds : Shown(k) \in 0..MaxVms
          BY <5>1, MaxVmsAssumption DEF Shown
        <5>3. target' \in Counts
          BY <3>5, <4>2, <5>1, <5>2 DEF UpscaleShow, Counts
        <5>4. QED
          BY <3>5, <4>2, <5>3 DEF UpscaleShow, TypeOK, Pcs
      <4>3. QED
        BY <4>1, <4>2
    <3>6. CASE UpscaleApply
      BY <3>6, SetVmsTyped DEF UpscaleApply, Apply, TypeOK, Pcs
    <3>7. CASE UpscaleApplyFails
      BY <3>7, SetVmsTyped, EndTyped DEF UpscaleApplyFails, ApplyFails, TypeOK
    <3>8. CASE UpscalePeer
      BY <3>8 DEF UpscalePeer, TypeOK, Pcs
    <3>9. CASE UpscaleClients
      BY <3>9, FundTyped DEF UpscaleClients, ProvisionClients, TypeOK, Pcs
    <3>10. CASE UpscaleClientsFails
      BY <3>10, FundTyped, EndTyped DEF UpscaleClientsFails, ProvisionClientsFails, TypeOK
    <3>11. QED
      BY <2>3, <3>1, <3>2, <3>3, <3>4, <3>5, <3>6, <3>7, <3>8, <3>9, <3>10 DEF Upscale
  <2>4. CASE Clean
    <3>1. CASE StartClean
      BY <3>1 DEF StartClean, TypeOK, Pcs
    <3>2. CASE CleanRead
      BY <3>2 DEF CleanRead, TypeOK, Pcs
    <3>3. CASE CleanDrainSkipped
      BY <3>3 DEF CleanDrainSkipped, TypeOK, Pcs
    <3>4. CASE CleanDrain
      BY <3>4, DrainTyped DEF CleanDrain, DrainAll, TypeOK, Pcs
    <3>5. CASE CleanDrainFails
      BY <3>5, DrainTyped, EndTyped DEF CleanDrainFails, DrainFails, TypeOK
    <3>6. CASE CleanSelect
      BY <3>6 DEF CleanSelect, TypeOK, Pcs
    <3>7. CASE CleanShow
      BY <3>7 DEF CleanShow, TypeOK, Pcs
    <3>8. CASE CleanDestroy
      BY <3>8, NoVmsTyped, SetVmsTyped DEF CleanDestroy, TypeOK, Pcs
    <3>9. CASE CleanDestroyFails
      BY <3>9, SetVmsTyped, EndTyped DEF CleanDestroyFails, TypeOK
    <3>10. CASE CleanWorkspace
      BY <3>10 DEF CleanWorkspace, TypeOK, Pcs
    <3>11. CASE CleanFiles
      BY <3>11 DEF CleanFiles, TypeOK, Pcs
    <3>12. CASE CleanRecord
      BY <3>12, EndTyped, NoDetailsTyped DEF CleanRecord, TypeOK
    <3>13. QED
      BY <2>4, <3>1, <3>2, <3>3, <3>4, <3>5, <3>6, <3>7, <3>8, <3>9, <3>10, <3>11, <3>12
      DEF Clean
  <2>5. CASE Funds
    <3>1. CASE StartFunds
      BY <3>1 DEF StartFunds, TypeOK, Pcs
    <3>2. CASE FundsInventory
      BY <3>2 DEF FundsInventory, TypeOK, Pcs
    <3>3. CASE FundsDeposit
      BY <3>3, FundTyped, EndTyped DEF FundsDeposit, TypeOK
    <3>4. CASE FundsDrain
      BY <3>4, DrainTyped, EndTyped DEF FundsDrain, DrainAll, TypeOK
    <3>5. CASE FundsDrainFails
      BY <3>5, DrainTyped, EndTyped DEF FundsDrainFails, DrainFails, TypeOK
    <3>6. QED
      BY <2>5, <3>1, <3>2, <3>3, <3>4, <3>5 DEF Funds
  <2>6. CASE InventoryFails \/ Report \/ Abort
    BY <2>6, EndTyped DEF InventoryFails, Report, Abort, TypeOK
  <2>7. CASE UNCHANGED vars
    BY <2>7 DEF vars, TypeOK
  <2>8. QED
    BY <2>1, <2>2, <2>3, <2>4, <2>5, <2>6, <2>7 DEF Next
<1>3. QED
  BY <1>1, <1>2, PTL DEF Spec

-----------------------------------------------------------------------------
(***************************************************************************)
(* Funds are always recorded, VMs are always known to terraform.           *)
(***************************************************************************)

\* The steps that are reached only with environment details in S3.
RecordedPcs ==
  {"deploy:write2", "deploy:genesis", "deploy:nodes", "deploy:clients",
   "upscale:check", "upscale:show", "upscale:apply", "upscale:peer",
   "upscale:clients", "deposit:pay", "drain:pay"}

\* The steps of `clean` that follow a successful destroy.
ClearedPcs == {"clean:workspace", "clean:files", "clean:record"}

WalletOnVm == \A i \in 1..MaxVms : wallet[i] # "absent" => i <= vms[Client]

RecordInv ==
  /\ WalletOnVm
  /\ NoVmWithoutWorkspace
  /\ WalletHasDetails
  /\ pc \in RecordedPcs => details.type # "none"
  /\ pc \in ClearedPcs => vms = NoVms

\* Without VMs there are no wallets.
LEMMA NoVmsNoWallets ==
  ASSUME TypeOK, WalletOnVm, vms = NoVms
  PROVE  \A i \in 1..MaxVms : wallet[i] = "absent"
BY KindsAssumption, MaxVmsAssumption DEF WalletOnVm, NoVms

\* Whatever terraform does to the VMs in an existing workspace, it keeps the
\* wallets on VMs and adds none.
LEMMA SetVmsKeeps ==
  ASSUME NEW new \in Counts, TypeOK, WalletOnVm, WalletHasDetails, SetVms(new),
         UNCHANGED details
  PROVE  WalletOnVm' /\ WalletHasDetails'
<1>1. WalletOnVm'
  BY DEF SetVms, WalletOnVm, TypeOK
<1>2. \A i \in 1..MaxVms : wallet'[i] # "absent" => wallet[i] # "absent"
  BY DEF SetVms
<1>3. QED
  BY <1>1, <1>2 DEF WalletHasDetails

\* Funding reaches wallets of client VMs only, in an environment with details.
LEMMA FundKeeps ==
  ASSUME NEW count \in BOOLEAN, NEW done \in SUBSET Fundable(count),
         TypeOK, WalletOnVm, Fund(done), UNCHANGED <<vms, details>>,
         details.type # "none"
  PROVE  WalletOnVm' /\ WalletHasDetails'
<1>1. WalletOnVm'
  BY DEF Fund, Fundable, WalletOnVm, TypeOK
<1>2. WalletHasDetails'
  BY DEF WalletHasDetails
<1>3. QED
  BY <1>1, <1>2

\* Draining makes no wallet appear.
LEMMA DrainKeeps ==
  ASSUME NEW done, TypeOK, WalletOnVm, WalletHasDetails, Drain(done),
         UNCHANGED <<vms, details>>
  PROVE  WalletOnVm' /\ WalletHasDetails'
<1>1. \A i \in 1..MaxVms : wallet'[i] # "absent" => wallet[i] # "absent"
  BY DEF Drain
<1>2. QED
  BY <1>1 DEF WalletOnVm, WalletHasDetails

\* Steps that leave VMs, wallets and details alone keep what is said of them.
LEMMA SameKeeps ==
  ASSUME WalletOnVm, WalletHasDetails, UNCHANGED <<vms, wallet, details>>
  PROVE  WalletOnVm' /\ WalletHasDetails'
BY DEF WalletOnVm, WalletHasDetails

\* The invariant that the two theorems below follow from.
THEOREM RecordInvariant == Spec => []RecordInv
<1> USE DEF RecordedPcs, ClearedPcs, NoVmWithoutWorkspace
<1>1. Init => RecordInv
  BY KindsAssumption DEF Init, RecordInv, WalletOnVm, WalletHasDetails
<1>2. TypeOK /\ RecordInv /\ [Next]_vars => RecordInv'
  <2> SUFFICES ASSUME TypeOK, RecordInv, [Next]_vars
               PROVE  RecordInv'
    OBVIOUS
  <2>1. CASE Deploy
    <3>1. CASE StartDeploy \/ DeployNodes \/ DeployRest
      BY <3>1, SameKeeps DEF StartDeploy, DeployNodes, DeployRest, RecordInv
    <3>2. CASE DeployInventory \/ DeployInit \/ DeployGenesis
      BY <3>2, SameKeeps
      DEF DeployInventory, DeployInit, DeployGenesis, GenerateInventory, InitWorkspace,
          RecordInv
    <3>3. CASE DeployApply
      BY <3>3, SetVmsKeeps DEF DeployApply, Apply, RecordInv, TypeOK
    <3>4. CASE DeployApplyFails
      BY <3>4, SetVmsKeeps DEF DeployApplyFails, ApplyFails, RecordInv
    <3>5. CASE DeployWriteFirst \/ DeployWriteSecond
      BY <3>5
      DEF DeployWriteFirst, DeployWriteSecond, WriteDetails, RecordInv, WalletOnVm,
          WalletHasDetails
    <3>6. CASE DeployClients
      BY <3>6, FundKeeps DEF DeployClients, ProvisionClients, RecordInv
    <3>7. CASE DeployClientsFails
      BY <3>7, FundKeeps DEF DeployClientsFails, ProvisionClientsFails, RecordInv
    <3>8. QED
      BY <2>1, <3>1, <3>2, <3>3, <3>4, <3>5, <3>6, <3>7 DEF Deploy
  <2>2. CASE Bootstrap
    <3>1. CASE StartBootstrap \/ BootstrapNodes
      BY <3>1, SameKeeps DEF StartBootstrap, BootstrapNodes, RecordInv
    <3>2. CASE BootstrapInventory \/ BootstrapInit
      BY <3>2, SameKeeps
      DEF BootstrapInventory, BootstrapInit, GenerateInventory, InitWorkspace, RecordInv
    <3>3. CASE BootstrapWrite
      BY <3>3 DEF BootstrapWrite, WriteDetails, RecordInv, WalletOnVm, WalletHasDetails
    <3>4. CASE BootstrapApply
      BY <3>4, SetVmsKeeps DEF BootstrapApply, Apply, RecordInv, TypeOK
    <3>5. CASE BootstrapApplyFails
      BY <3>5, SetVmsKeeps DEF BootstrapApplyFails, ApplyFails, RecordInv
    <3>6. QED
      BY <2>2, <3>1, <3>2, <3>3, <3>4, <3>5 DEF Bootstrap
  <2>3. CASE Upscale
    <3>1. CASE StartUpscale \/ UpscaleCheck \/ UpscaleShow \/ UpscalePeer
      BY <3>1, SameKeeps DEF StartUpscale, UpscaleCheck, UpscaleShow, UpscalePeer, RecordInv
    <3>2. CASE UpscaleInit
      BY <3>2, SameKeeps DEF UpscaleInit, InitWorkspace, RecordInv
    <3>3. CASE UpscaleInventory
      BY <3>3, SameKeeps DEF UpscaleInventory, RecordInv
    <3>4. CASE UpscaleApply
      BY <3>4, SetVmsKeeps DEF UpscaleApply, Apply, RecordInv, TypeOK
    <3>5. CASE UpscaleApplyFails
      BY <3>5, SetVmsKeeps DEF UpscaleApplyFails, ApplyFails, RecordInv
    <3>6. CASE UpscaleClients
      BY <3>6, FundKeeps DEF UpscaleClients, ProvisionClients, RecordInv
    <3>7. CASE UpscaleClientsFails
      BY <3>7, FundKeeps DEF UpscaleClientsFails, ProvisionClientsFails, RecordInv
    <3>8. QED
      BY <2>3, <3>1, <3>2, <3>3, <3>4, <3>5, <3>6, <3>7 DEF Upscale
  <2>4. CASE Clean
    <3>1. CASE StartClean \/ CleanRead \/ CleanDrainSkipped \/ CleanSelect \/ CleanShow
      BY <3>1, SameKeeps
      DEF StartClean, CleanRead, CleanDrainSkipped, CleanSelect, CleanShow, RecordInv
    <3>2. CASE CleanDrain
      BY <3>2, DrainKeeps DEF CleanDrain, DrainAll, RecordInv
    <3>3. CASE CleanDrainFails
      BY <3>3, DrainKeeps DEF CleanDrainFails, DrainFails, RecordInv
    <3>4. CASE CleanDestroy
      <4>1. vms' = NoVms /\ WalletOnVm' /\ WalletHasDetails'
        BY <3>4, NoVmsTyped, SetVmsKeeps DEF CleanDestroy, SetVms, RecordInv
      <4>2. pc' = "clean:workspace" /\ UNCHANGED workspace
        BY <3>4 DEF CleanDestroy
      <4>3. QED
        BY <4>1, <4>2 DEF RecordInv
    <3>5. CASE CleanDestroyFails
      <4>1. PICK rest \in Counts : (\A k \in Kinds : rest[k] <= vms[k]) /\ SetVms(rest)
        BY <3>5 DEF CleanDestroyFails
      <4>2. WalletOnVm' /\ WalletHasDetails'
        BY <3>5, <4>1, SetVmsKeeps DEF CleanDestroyFails, RecordInv
      <4>3. vms = NoVms => vms' = NoVms
        <5> SUFFICES ASSUME vms = NoVms
                     PROVE  \A k \in Kinds : rest[k] = 0
          BY <4>1 DEF SetVms, Counts, NoVms
        <5> QED
          BY <4>1 DEF Counts, NoVms
      <4>4. QED
        BY <3>5, <4>2, <4>3 DEF CleanDestroyFails, RecordInv
    <3>6. CASE CleanWorkspace \/ CleanFiles
      BY <3>6, SameKeeps DEF CleanWorkspace, CleanFiles, RecordInv
    <3>7. CASE CleanRecord
      <4>1. \A i \in 1..MaxVms : wallet'[i] = "absent"
        BY <3>7, NoVmsNoWallets DEF CleanRecord, RecordInv
      <4>2. QED
        BY <3>7, <4>1 DEF CleanRecord, RecordInv, WalletOnVm, WalletHasDetails
    <3>8. QED
      BY <2>4, <3>1, <3>2, <3>3, <3>4, <3>5, <3>6, <3>7 DEF Clean
  <2>5. CASE Funds
    <3>1. CASE StartFunds \/ FundsInventory
      BY <3>1, SameKeeps DEF StartFunds, FundsInventory, RecordInv
    <3>2. CASE FundsDeposit
      BY <3>2, FundKeeps DEF FundsDeposit, RecordInv
    <3>3. CASE FundsDrain
      BY <3>3, DrainKeeps DEF FundsDrain, DrainAll, RecordInv
    <3>4. CASE FundsDrainFails
      BY <3>4, DrainKeeps DEF FundsDrainFails, DrainFails, RecordInv
    <3>5. QED
      BY <2>5, <3>1, <3>2, <3>3, <3>4 DEF Funds
  <2>6. CASE InventoryFails \/ Report \/ Abort
    BY <2>6, SameKeeps DEF InventoryFails, Report, Abort, RecordInv
  <2>7. CASE UNCHANGED vars
    BY <2>7, SameKeeps DEF vars, RecordInv
  <2>8. QED
    BY <2>1, <2>2, <2>3, <2>4, <2>5, <2>6, <2>7 DEF Next
<1>3. QED
  BY <1>1, <1>2, TypeCorrect, PTL DEF Spec

\* Commands that fail anywhere leave no funded wallet without details.
THEOREM WalletAlwaysHasDetails == Spec => []WalletHasDetails
<1>1. RecordInv => WalletHasDetails
  BY DEF RecordInv
<1>2. QED
  BY <1>1, RecordInvariant, PTL

\* Commands that fail anywhere leave no VM outside a workspace.
THEOREM VmAlwaysInWorkspace == Spec => []NoVmWithoutWorkspace
<1>1. RecordInv => NoVmWithoutWorkspace
  BY DEF RecordInv
<1>2. QED
  BY <1>1, RecordInvariant, PTL

-----------------------------------------------------------------------------
(***************************************************************************)
(* An upscale never removes a VM when listings are reliable.               *)
(***************************************************************************)

\* counts is no less than what exists, the client VMs of an environment that
\* was bootstrapped over left out, and the kinds with a wrong name.
Covers(counts) ==
  \A k \in Kinds \ Misnamed : vms[k] <= counts[k] \/ (k = Client /\ details.type = "bootstrap")

GrowthInv ==
  /\ pc = "upscale:check" => Covers(seen)
  /\ pc \in {"upscale:show", "upscale:apply"} => Covers(target)

\* The three steps that come before an upscale's apply hand the cover on.
LEMMA GrowthInvariant ==
  ASSUME FlakyListing = FALSE
  PROVE  Spec => []GrowthInv
<1>1. Init => GrowthInv
  BY DEF Init, GrowthInv
<1>2. TypeOK /\ GrowthInv /\ [Next]_vars => GrowthInv'
  <2> SUFFICES ASSUME TypeOK, GrowthInv, [Next]_vars
               PROVE  GrowthInv'
    OBVIOUS
  <2>1. CASE UpscaleInventory
    <3>1. \A k \in Kinds : seen'[k] \in Listing(k)
      BY <2>1 DEF UpscaleInventory
    <3>2. Covers(seen)'
      BY <2>1, <3>1 DEF UpscaleInventory, Listing, Covers, TypeOK, Counts
    <3>3. QED
      BY <2>1, <3>2 DEF UpscaleInventory, GrowthInv
  <2>2. CASE UpscaleCheck
    <3>1. Covers(seen) /\ UNCHANGED <<vms, details, seen>>
      BY <2>2 DEF UpscaleCheck, GrowthInv
    <3>2. \A k \in Kinds : target'[k] >= seen[k] /\ target'[k] \in Nat
      BY <2>2, MaxVmsAssumption DEF UpscaleCheck, TypeOK, Counts
    <3>3. Covers(target)'
      BY <3>1, <3>2, MaxVmsAssumption DEF Covers, TypeOK, Counts
    <3>4. QED
      BY <2>2, <3>3 DEF UpscaleCheck, GrowthInv
  <2>3. CASE UpscaleShow
    <3>1. CASE opts.stop = "plan"
      BY <2>3, <3>1 DEF UpscaleShow, GrowthInv
    <3>2. CASE opts.stop # "plan"
      <4>1. Covers(target) /\ UNCHANGED <<vms, details>>
        BY <2>3 DEF UpscaleShow, GrowthInv
      <4>2. \A k \in Kinds \ Misnamed : target'[k] = target[k] \/ target'[k] = vms[k]
        BY <2>3, <3>2 DEF UpscaleShow, Shown
      <4>3. \A k \in Kinds : vms[k] \in Nat
        BY MaxVmsAssumption DEF TypeOK, Counts
      <4>4. \A k \in Kinds \ Misnamed : vms[k] <= target[k] => vms[k] <= target'[k]
        BY <4>2, <4>3
      <4>5. Covers(target)'
        BY <4>1, <4>2, <4>3 DEF Covers
      <4>6. QED
        BY <2>3, <3>2, <4>5 DEF UpscaleShow, GrowthInv
    <3>3. QED
      BY <3>1, <3>2
  <2>4. CASE pc' \notin {"upscale:check", "upscale:show", "upscale:apply"}
    BY <2>4 DEF GrowthInv
  <2>5. CASE UNCHANGED vars
    BY <2>5 DEF vars, GrowthInv, Covers
  <2>6. Next => \/ UpscaleInventory \/ UpscaleCheck \/ UpscaleShow
                \/ pc' \notin {"upscale:check", "upscale:show", "upscale:apply"}
    <3>1. Deploy => pc' \notin {"upscale:check", "upscale:show", "upscale:apply"}
      BY DEF Deploy, StartDeploy, DeployInventory, DeployInit, DeployApply, DeployApplyFails,
             DeployWriteFirst, DeployWriteSecond, DeployGenesis, DeployNodes, DeployClients,
             DeployClientsFails, DeployRest, GenerateInventory, InitWorkspace, Apply,
             ApplyFails, WriteDetails, ProvisionClients, ProvisionClientsFails
    <3>2. Bootstrap => pc' \notin {"upscale:check", "upscale:show", "upscale:apply"}
      BY DEF Bootstrap, StartBootstrap, BootstrapInventory, BootstrapInit, BootstrapWrite,
             BootstrapApply, BootstrapApplyFails, BootstrapNodes, GenerateInventory,
             InitWorkspace, Apply, ApplyFails, WriteDetails
    <3>3. Upscale => \/ UpscaleInventory \/ UpscaleCheck \/ UpscaleShow
                     \/ pc' \notin {"upscale:check", "upscale:show", "upscale:apply"}
      BY DEF Upscale, StartUpscale, UpscaleInit, UpscaleApply, UpscaleApplyFails, UpscalePeer,
             UpscaleClients, UpscaleClientsFails, InitWorkspace, Apply, ApplyFails,
             ProvisionClients, ProvisionClientsFails
    <3>4. Clean => pc' \notin {"upscale:check", "upscale:show", "upscale:apply"}
      BY DEF Clean, StartClean, CleanRead, CleanDrainSkipped, CleanDrain, CleanDrainFails,
             DrainFails, CleanSelect, CleanShow, CleanDestroy, CleanDestroyFails,
             CleanWorkspace, CleanFiles, CleanRecord
    <3>5. Funds => pc' \notin {"upscale:check", "upscale:show", "upscale:apply"}
      BY DEF Funds, StartFunds, FundsInventory, FundsDeposit, FundsDrain, FundsDrainFails,
             DrainFails
    <3>6. InventoryFails \/ Report \/ Abort
            => pc' \notin {"upscale:check", "upscale:show", "upscale:apply"}
      BY DEF InventoryFails, Report, Abort
    <3>7. QED
      BY <3>1, <3>2, <3>3, <3>4, <3>5, <3>6 DEF Next
  <2>7. QED
    BY <2>1, <2>2, <2>3, <2>4, <2>5, <2>6
<1>3. QED
  BY <1>1, <1>2, TypeCorrect, PTL DEF Spec

\* Only three kinds of step change the VMs: an apply, a destroy, and parts of
\* them.
LEMMA VmsChangedBy ==
  ASSUME Next, pc \in UpscalePcs
  PROVE  UNCHANGED vms \/ UpscaleApply \/ UpscaleApplyFails
<1> USE DEF UpscalePcs
<1>1. CASE Deploy
  BY <1>1
  DEF Deploy, StartDeploy, DeployInventory, DeployInit, DeployApply, DeployApplyFails,
      DeployWriteFirst, DeployWriteSecond, DeployGenesis, DeployNodes, DeployClients,
      DeployClientsFails, DeployRest, GenerateInventory, InitWorkspace, Apply,
      ApplyFails, WriteDetails, ProvisionClients, ProvisionClientsFails
<1>2. CASE Bootstrap
  BY <1>2
  DEF Bootstrap, StartBootstrap, BootstrapInventory, BootstrapInit, BootstrapWrite,
      BootstrapApply, BootstrapApplyFails, BootstrapNodes, GenerateInventory,
      InitWorkspace, Apply, ApplyFails, WriteDetails
<1>3. CASE Upscale
  BY <1>3
  DEF Upscale, StartUpscale, UpscaleInit, UpscaleInventory, UpscaleCheck, UpscaleShow,
      UpscalePeer, UpscaleClients, UpscaleClientsFails, InitWorkspace, ProvisionClients,
      ProvisionClientsFails
<1>4. CASE Clean
  BY <1>4
  DEF Clean, StartClean, CleanRead, CleanDrainSkipped, CleanDrain, CleanDrainFails,
      DrainFails, CleanSelect, CleanShow, CleanDestroy, CleanDestroyFails,
      CleanWorkspace, CleanFiles, CleanRecord
<1>5. CASE Funds
  BY <1>5
  DEF Funds, StartFunds, FundsInventory, FundsDeposit, FundsDrain, FundsDrainFails, DrainFails
<1>6. CASE InventoryFails \/ Report \/ Abort
  BY <1>6 DEF InventoryFails, Report, Abort
<1>7. QED
  BY <1>1, <1>2, <1>3, <1>4, <1>5, <1>6 DEF Next

\* No upscale, complete or given up half-way, removes a VM.
THEOREM UpscaleOnlyGrows ==
  ASSUME FlakyListing = FALSE
  PROVE  Spec => UpscaleKeepsVms
<1>1. TypeOK /\ GrowthInv /\ [Next]_vars
        => [\A k \in Kinds \ Misnamed :
              pc \in UpscalePcs /\ vms'[k] < vms[k]
                => k = Client /\ details.type = "bootstrap"]_vars
  <2> SUFFICES ASSUME TypeOK, GrowthInv, Next, NEW k \in Kinds \ Misnamed,
                      pc \in UpscalePcs, vms'[k] < vms[k]
               PROVE  k = Client /\ details.type = "bootstrap"
    OBVIOUS
  <2>1. vms[k] \in Nat /\ target[k] \in Nat
    BY MaxVmsAssumption DEF TypeOK, Counts
  <2>2. CASE UpscaleApply
    <3>1. vms'[k] = target[k] /\ Covers(target)
      BY <2>2 DEF UpscaleApply, Apply, SetVms, GrowthInv
    <3>2. QED
      BY <2>1, <3>1 DEF Covers
  <2>3. CASE UpscaleApplyFails
    <3>1. Covers(target)
      BY <2>3 DEF UpscaleApplyFails, ApplyFails, GrowthInv
    <3>2. PICK mid \in Counts : Between(vms[k], mid[k], target[k]) /\ vms' = mid
      BY <2>3 DEF UpscaleApplyFails, ApplyFails, SetVms
    <3>3. mid[k] \in Nat
      BY MaxVmsAssumption DEF Counts
    <3>4. QED
      BY <2>1, <3>1, <3>2, <3>3 DEF Between, Covers
  <2>4. CASE UNCHANGED vms
    BY <2>1, <2>4
  <2>5. QED
    BY <2>2, <2>3, <2>4, VmsChangedBy
<1>2. QED
  BY <1>1, TypeCorrect, GrowthInvariant, PTL DEF Spec, UpscaleKeepsVms

\* What an upscale destroys although its checks are there to prevent it, it
\* destroys because it looks for a kind by a name that no resource has: without
\* such a kind it removes no VM at all (infra.rs:30, error.rs:90-102).
THEOREM RightNamesRemoveNothing ==
  ASSUME FlakyListing = FALSE, Misnamed = {}
  PROVE  Spec => UpscaleRemovesNothing
<1>1. [\A k \in Kinds \ Misnamed :
         pc \in UpscalePcs /\ vms'[k] < vms[k]
           => k = Client /\ details.type = "bootstrap"]_vars
      => [\A k \in Kinds :
            pc \in UpscalePcs /\ vms'[k] < vms[k]
              => k = Client /\ details.type = "bootstrap"]_vars
  OBVIOUS
<1>2. QED
  BY <1>1, UpscaleOnlyGrows, PTL DEF UpscaleKeepsVms, UpscaleRemovesNothing

-----------------------------------------------------------------------------
(***************************************************************************)
(* A clean that drained loses no funds.                                    *)
(***************************************************************************)

DrainedPcs == {"clean:select", "clean:show", "clean:destroy"}

DrainInv ==
  pc \in DrainedPcs =>
    \/ drain = "skipped"
    \/ drain = "done" /\ \A i \in 1..MaxVms : wallet[i] # "funded"

\* From the drain to the destroy nothing refills a wallet.
LEMMA DrainInvariant == Spec => []DrainInv
<1>1. Init => DrainInv
  BY DEF Init, DrainInv, DrainedPcs
<1>2. TypeOK /\ DrainInv /\ [Next]_vars => DrainInv'
  <2> SUFFICES ASSUME TypeOK, DrainInv, [Next]_vars, pc' \in DrainedPcs
               PROVE  \/ drain' = "skipped"
                      \/ drain' = "done" /\ \A i \in 1..MaxVms : wallet'[i] # "funded"
    BY DEF DrainInv
  <2>1. CASE UNCHANGED vars
    BY <2>1 DEF vars, DrainInv
  <2>2. CASE Clean
    <3>1. CASE CleanDrainSkipped
      BY <3>1 DEF CleanDrainSkipped
    <3>2. CASE CleanDrain
      <4>1. PICK left \in [1..MaxVms -> {"dust", "empty"}] :
              wallet' = [i \in 1..MaxVms |->
                           IF i \in 1..MaxVms /\ wallet[i] = "funded" THEN left[i]
                           ELSE wallet[i]]
        BY <3>2 DEF CleanDrain, DrainAll, Drain
      <4>2. \A i \in 1..MaxVms : wallet'[i] # "funded"
        BY <4>1
      <4>3. QED
        BY <3>2, <4>2 DEF CleanDrain
    <3>3. CASE CleanSelect \/ CleanShow
      BY <3>3 DEF CleanSelect, CleanShow, DrainInv, DrainedPcs
    <3>4. QED
      BY <2>2, <3>1, <3>2, <3>3
      DEF Clean, StartClean, CleanRead, CleanDrainFails, DrainFails, CleanDestroy,
          CleanDestroyFails, CleanWorkspace, CleanFiles, CleanRecord, DrainedPcs
  <2>3. CASE Deploy
    BY <2>3
    DEF Deploy, StartDeploy, DeployInventory, DeployInit, DeployApply, DeployApplyFails,
        DeployWriteFirst, DeployWriteSecond, DeployGenesis, DeployNodes, DeployClients,
        DeployClientsFails, DeployRest, GenerateInventory, InitWorkspace, Apply,
        ApplyFails, WriteDetails, ProvisionClients, ProvisionClientsFails, DrainedPcs
  <2>4. CASE Bootstrap
    BY <2>4
    DEF Bootstrap, StartBootstrap, BootstrapInventory, BootstrapInit, BootstrapWrite,
        BootstrapApply, BootstrapApplyFails, BootstrapNodes, GenerateInventory,
        InitWorkspace, Apply, ApplyFails, WriteDetails, DrainedPcs
  <2>5. CASE Upscale
    BY <2>5
    DEF Upscale, StartUpscale, UpscaleInit, UpscaleInventory, UpscaleCheck, UpscaleShow,
        UpscaleApply, UpscaleApplyFails, UpscalePeer, UpscaleClients, UpscaleClientsFails,
        InitWorkspace, Apply, ApplyFails, ProvisionClients, ProvisionClientsFails, DrainedPcs
  <2>6. CASE Funds \/ InventoryFails \/ Report \/ Abort
    BY <2>6
    DEF Funds, StartFunds, FundsInventory, FundsDeposit, FundsDrain, FundsDrainFails,
        DrainFails, InventoryFails, Report, Abort, DrainedPcs
  <2>7. QED
    BY <2>1, <2>2, <2>3, <2>4, <2>5, <2>6 DEF Next
<1>3. QED
  BY <1>1, <1>2, TypeCorrect, PTL DEF Spec

\* In `clean`, wallets vanish only when the VMs are destroyed.
LEMMA WalletsVanishBy ==
  ASSUME Next, pc \in CleanPcs, NEW i \in 1..MaxVms,
         wallet[i] = "funded", wallet'[i] = "absent"
  PROVE  pc \in DrainedPcs
<1> USE DEF CleanPcs, DrainedPcs
<1>1. CASE Clean
  <2>1. CASE CleanDrain \/ CleanDrainFails
    <3>1. PICK done : Drain(done)
      BY <2>1 DEF CleanDrain, CleanDrainFails, DrainAll, DrainFails
    <3>2. wallet'[i] # "absent"
      BY <3>1 DEF Drain
    <3>3. QED
      BY <3>2
  <2>2. QED
    BY <1>1, <2>1
    DEF Clean, StartClean, CleanRead, CleanDrainSkipped, CleanSelect, CleanShow,
        CleanDestroy, CleanDestroyFails, CleanWorkspace, CleanFiles, CleanRecord
<1>2. CASE Deploy
  BY <1>2
  DEF Deploy, StartDeploy, DeployInventory, DeployInit, DeployApply, DeployApplyFails,
      DeployWriteFirst, DeployWriteSecond, DeployGenesis, DeployNodes, DeployClients,
      DeployClientsFails, DeployRest, GenerateInventory, InitWorkspace, Apply,
      ApplyFails, WriteDetails, ProvisionClients, ProvisionClientsFails
<1>3. CASE Bootstrap
  BY <1>3
  DEF Bootstrap, StartBootstrap, BootstrapInventory, BootstrapInit, BootstrapWrite,
      BootstrapApply, BootstrapApplyFails, BootstrapNodes, GenerateInventory,
      InitWorkspace, Apply, ApplyFails, WriteDetails
<1>4. CASE Upscale
  BY <1>4
  DEF Upscale, StartUpscale, UpscaleInit, UpscaleInventory, UpscaleCheck, UpscaleShow,
      UpscaleApply, UpscaleApplyFails, UpscalePeer, UpscaleClients, UpscaleClientsFails,
      InitWorkspace, Apply, ApplyFails, ProvisionClients, ProvisionClientsFails
<1>5. CASE Funds
  BY <1>5
  DEF Funds, StartFunds, FundsInventory, FundsDeposit, FundsDrain, FundsDrainFails, DrainFails
<1>6. CASE InventoryFails \/ Report \/ Abort
  BY <1>6 DEF InventoryFails, Report, Abort
<1>7. QED
  BY <1>1, <1>2, <1>3, <1>4, <1>5, <1>6 DEF Next

\* A clean whose drain came to its end destroys no funded wallet.
THEOREM CleanKeepsDrainedFunds == Spec => CleanLosesFundsOnlyUndrained
<1>1. DrainInv /\ [Next]_vars
        => [\A i \in 1..MaxVms :
              pc \in CleanPcs /\ wallet[i] = "funded" /\ wallet'[i] = "absent"
                => drain = "skipped"]_vars
  BY WalletsVanishBy DEF DrainInv
<1>2. QED
  BY <1>1, DrainInvariant, PTL DEF Spec, CleanLosesFundsOnlyUndrained

-----------------------------------------------------------------------------
(***************************************************************************)
(* A testnet implements the abstract environment.                          *)
(***************************************************************************)

\* When a command knows that the workspace exists, or that it is gone.
HeldPcs ==
  {"deploy:apply", "deploy:write1", "deploy:write2", "bootstrap:write", "clean:show",
   "clean:destroy"}
GonePcs == {"clean:files", "clean:record"}

HeldInv ==
  /\ pc \in HeldPcs => workspace
  /\ pc \in GonePcs => ~workspace

\* A command creates or selects the workspace before it relies on it.
LEMMA HeldInvariant == Spec => []HeldInv
<1> USE DEF HeldInv, HeldPcs, GonePcs
<1>1. Init => HeldInv
  BY DEF Init
<1>2. HeldInv /\ [Next]_vars => HeldInv'
  <2> SUFFICES ASSUME HeldInv, [Next]_vars
               PROVE  HeldInv'
    OBVIOUS
  <2>1. CASE Deploy
    BY <2>1
    DEF Deploy, StartDeploy, DeployInventory, DeployInit, DeployApply, DeployApplyFails,
        DeployWriteFirst, DeployWriteSecond, DeployGenesis, DeployNodes, DeployClients,
        DeployClientsFails, DeployRest, GenerateInventory, InitWorkspace, Apply,
        ApplyFails, WriteDetails, ProvisionClients, ProvisionClientsFails
  <2>2. CASE Bootstrap
    BY <2>2
    DEF Bootstrap, StartBootstrap, BootstrapInventory, BootstrapInit, BootstrapWrite,
        BootstrapApply, BootstrapApplyFails, BootstrapNodes, GenerateInventory,
        InitWorkspace, Apply, ApplyFails, WriteDetails
  <2>3. CASE Upscale
    BY <2>3
    DEF Upscale, StartUpscale, UpscaleInit, UpscaleInventory, UpscaleCheck, UpscaleShow,
        UpscaleApply, UpscaleApplyFails, UpscalePeer, UpscaleClients, UpscaleClientsFails,
        InitWorkspace, Apply, ApplyFails, ProvisionClients, ProvisionClientsFails
  <2>4. CASE Clean
    BY <2>4
    DEF Clean, StartClean, CleanRead, CleanDrainSkipped, CleanDrain, CleanDrainFails,
        DrainFails, CleanSelect, CleanShow, CleanDestroy, CleanDestroyFails,
        CleanWorkspace, CleanFiles, CleanRecord
  <2>5. CASE Funds \/ InventoryFails \/ Report \/ Abort
    BY <2>5
    DEF Funds, StartFunds, FundsInventory, FundsDeposit, FundsDrain, FundsDrainFails,
        DrainFails, InventoryFails, Report, Abort
  <2>6. CASE UNCHANGED vars
    BY <2>6 DEF vars
  <2>7. QED
    BY <2>1, <2>2, <2>3, <2>4, <2>5, <2>6 DEF Next
<1>3. QED
  BY <1>1, <1>2, PTL DEF Spec

\* What the abstract environment sees of the wallets.
Funded == {i \in 1..MaxVms : wallet[i] = "funded"}

\* A step that leaves all that the abstract environment sees alone.
LEMMA SameMaps ==
  ASSUME UNCHANGED <<workspace, vms, wallet>>, (details.type # "none") = (details'.type # "none")
  PROVE  UNCHANGED Env!vars
BY DEF Env!vars

\* Terraform's changes are changes of size.
LEMMA SetVmsMaps ==
  ASSUME NEW new \in Counts, TypeOK, SetVms(new), workspace, UNCHANGED <<workspace, details>>
  PROVE  Env!Resize
<1>1. new[Client] \in 0..MaxVms
  BY KindsAssumption DEF Counts
<1>2. Funded' = Funded \cap (1..new[Client])
  BY <1>1, MaxVmsAssumption DEF SetVms, Funded
<1>3. QED
  BY <1>1, <1>2 DEF SetVms, Env!Resize, Funded

\* A command that pays clients pays them in a recorded environment.
LEMMA FundMaps ==
  ASSUME NEW count \in BOOLEAN, NEW done \in SUBSET Fundable(count),
         TypeOK, RecordInv, Fund(done), UNCHANGED <<workspace, vms, details>>,
         details.type # "none"
  PROVE  [Env!Next]_Env!vars
<1>1. vms[Client] \in 0..MaxVms
  BY KindsAssumption DEF TypeOK, Counts
<1>2. done \in SUBSET (1..vms[Client])
  BY DEF Fundable
<1>3. Funded' = Funded \cup done
  <2>1. \A i \in done : i \in 1..MaxVms
    BY <1>1, <1>2, MaxVmsAssumption
  <2>2. Funded' = {i \in 1..MaxVms : i \in done \/ wallet[i] = "funded"}
    BY DEF Fund, Funded
  <2>3. QED
    BY <2>1, <2>2 DEF Funded
<1>4. CASE workspace
  <2>1. Env!Pay
    BY <1>2, <1>3, <1>4 DEF Env!Pay, Funded
  <2>2. QED
    BY <2>1 DEF Env!Next
<1>5. CASE ~workspace
  <2>1. vms[Client] = 0
    BY <1>5, KindsAssumption DEF RecordInv, NoVmWithoutWorkspace, NoVms
  <2>2. done = {}
    BY <1>2, <2>1
  <2>3. Funded' = Funded
    BY <1>3, <2>2
  <2>4. QED
    BY <2>3 DEF Env!vars, Funded
<1>6. QED
  BY <1>4, <1>5

\* Where there is money to drain, there are a workspace and a record.
LEMMA DrainMaps ==
  ASSUME NEW done, TypeOK, RecordInv, Drain(done), UNCHANGED <<workspace, vms, details>>
  PROVE  [Env!Next]_Env!vars
<1>1. Funded' \in SUBSET Funded
  BY DEF Drain, Funded
<1>2. CASE Funded = {}
  BY <1>1, <1>2 DEF Env!vars, Funded
<1>3. CASE Funded # {}
  <2>1. PICK i \in 1..MaxVms : wallet[i] = "funded"
    BY <1>3 DEF Funded
  <2>2. i <= vms[Client] /\ details.type # "none"
    BY <2>1 DEF RecordInv, WalletOnVm, WalletHasDetails
  <2>3. vms[Client] # 0
    BY <2>2, KindsAssumption DEF TypeOK, Counts
  <2>4. workspace
    BY <2>3, KindsAssumption DEF RecordInv, NoVmWithoutWorkspace, NoVms, TypeOK
  <2>5. Env!Drain
    BY <1>1, <2>2, <2>4 DEF Env!Drain, Funded
  <2>6. QED
    BY <2>5 DEF Env!Next
<1>4. QED
  BY <1>2, <1>3

\* Every step of a testnet is one of the abstract environment, or none.
LEMMA StepMaps ==
  ASSUME TypeOK, RecordInv, HeldInv, [Next]_vars
  PROVE  [Env!Next]_Env!vars
<1> USE DEF RecordedPcs, ClearedPcs, HeldPcs, GonePcs
<1>1. CASE Deploy
  <2>1. CASE StartDeploy \/ DeployInventory \/ DeployGenesis \/ DeployNodes \/ DeployRest
    BY <2>1, SameMaps
    DEF StartDeploy, DeployInventory, DeployGenesis, DeployNodes, DeployRest, GenerateInventory
  <2>2. CASE DeployInit
    BY <2>2 DEF DeployInit, InitWorkspace, Env!Open, Env!Next
  <2>3. CASE DeployApply
    BY <2>3, SetVmsMaps DEF DeployApply, Apply, TypeOK, Env!Next
  <2>4. CASE DeployApplyFails
    BY <2>4, SetVmsMaps DEF DeployApplyFails, ApplyFails, Env!Next
  <2>5. CASE DeployWriteFirst \/ DeployWriteSecond
    BY <2>5
    DEF DeployWriteFirst, DeployWriteSecond, WriteDetails, HeldInv, Env!Record, Env!Next
  <2>6. CASE DeployClients
    BY <2>6, FundMaps DEF DeployClients, ProvisionClients, RecordInv
  <2>7. CASE DeployClientsFails
    BY <2>7, FundMaps DEF DeployClientsFails, ProvisionClientsFails, RecordInv
  <2>8. QED
    BY <1>1, <2>1, <2>2, <2>3, <2>4, <2>5, <2>6, <2>7 DEF Deploy
<1>2. CASE Bootstrap
  <2>1. CASE StartBootstrap \/ BootstrapInventory \/ BootstrapNodes
    BY <2>1, SameMaps
    DEF StartBootstrap, BootstrapInventory, BootstrapNodes, GenerateInventory
  <2>2. CASE BootstrapInit
    BY <2>2 DEF BootstrapInit, InitWorkspace, Env!Open, Env!Next
  <2>3. CASE BootstrapWrite
    BY <2>3 DEF BootstrapWrite, WriteDetails, HeldInv, Env!Record, Env!Next
  <2>4. CASE BootstrapApply
    BY <2>4, SetVmsMaps DEF BootstrapApply, Apply, TypeOK, Env!Next
  <2>5. CASE BootstrapApplyFails
    BY <2>5, SetVmsMaps DEF BootstrapApplyFails, ApplyFails, Env!Next
  <2>6. QED
    BY <1>2, <2>1, <2>2, <2>3, <2>4, <2>5 DEF Bootstrap
<1>3. CASE Upscale
  <2>1. CASE StartUpscale \/ UpscaleInventory \/ UpscaleCheck \/ UpscaleShow \/ UpscalePeer
    BY <2>1, SameMaps
    DEF StartUpscale, UpscaleInventory, UpscaleCheck, UpscaleShow, UpscalePeer
  <2>2. CASE UpscaleInit
    BY <2>2 DEF UpscaleInit, InitWorkspace, Env!Open, Env!Next
  <2>3. CASE UpscaleApply
    BY <2>3, SetVmsMaps DEF UpscaleApply, Apply, TypeOK, Env!Next
  <2>4. CASE UpscaleApplyFails
    BY <2>4, SetVmsMaps DEF UpscaleApplyFails, ApplyFails, Env!Next
  <2>5. CASE UpscaleClients
    BY <2>5, FundMaps DEF UpscaleClients, ProvisionClients, RecordInv
  <2>6. CASE UpscaleClientsFails
    BY <2>6, FundMaps DEF UpscaleClientsFails, ProvisionClientsFails, RecordInv
  <2>7. QED
    BY <1>3, <2>1, <2>2, <2>3, <2>4, <2>5, <2>6 DEF Upscale
<1>4. CASE Clean
  <2>1. CASE \/ StartClean \/ CleanRead \/ CleanDrainSkipped \/ CleanSelect \/ CleanShow
             \/ CleanFiles
    BY <2>1, SameMaps
    DEF StartClean, CleanRead, CleanDrainSkipped, CleanSelect, CleanShow, CleanFiles
  <2>2. CASE CleanDrain \/ CleanDrainFails
    BY <2>2, DrainMaps DEF CleanDrain, DrainAll, CleanDrainFails, DrainFails
  <2>3. CASE CleanDestroy
    BY <2>3, SetVmsMaps, NoVmsTyped DEF CleanDestroy, HeldInv, Env!Next
  <2>4. CASE CleanDestroyFails
    BY <2>4, SetVmsMaps DEF CleanDestroyFails, HeldInv, Env!Next
  <2>5. CASE CleanWorkspace
    BY <2>5, KindsAssumption DEF CleanWorkspace, RecordInv, NoVms, Env!Close, Env!Next
  <2>6. CASE CleanRecord
    <3>1. CASE details' = NoDetails
      BY <2>6, <3>1 DEF CleanRecord, HeldInv, NoDetails, Env!Forget, Env!Next
    <3>2. CASE details' = details
      BY <2>6, <3>2, SameMaps DEF CleanRecord
    <3>3. QED
      BY <2>6, <3>1, <3>2 DEF CleanRecord
  <2>7. QED
    BY <1>4, <2>1, <2>2, <2>3, <2>4, <2>5, <2>6 DEF Clean
<1>5. CASE Funds
  <2>1. CASE StartFunds \/ FundsInventory
    BY <2>1, SameMaps DEF StartFunds, FundsInventory
  <2>2. CASE FundsDeposit
    BY <2>2, FundMaps DEF FundsDeposit, RecordInv
  <2>3. CASE FundsDrain \/ FundsDrainFails
    BY <2>3, DrainMaps DEF FundsDrain, DrainAll, FundsDrainFails, DrainFails
  <2>4. QED
    BY <1>5, <2>1, <2>2, <2>3 DEF Funds
<1>6. CASE InventoryFails \/ Report \/ Abort \/ UNCHANGED vars
  BY <1>6, SameMaps DEF InventoryFails, Report, Abort, vars
<1>7. QED
  BY <1>1, <1>2, <1>3, <1>4, <1>5, <1>6 DEF Next

\* A testnet keeps what every environment promises.
THEOREM Implements == Spec => ImplementsEnvironment
<1>1. Init => Env!Init
  BY KindsAssumption DEF Init, Env!Init, NoVms, NoDetails
<1>2. QED
  BY <1>1, StepMaps, TypeCorrect, RecordInvariant, HeldInvariant, PTL
  DEF Spec, ImplementsEnvironment, Env!Spec

=============================================================================
