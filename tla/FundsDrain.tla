----------------------------- MODULE FundsDrain -----------------------------
(***************************************************************************)
(* `funds drain` and the drain inside `clean`: the balance of every        *)
(* uploader wallet is read and then sent to one address, wallet after      *)
(* wallet, tokens before gas.  Nothing holds a wallet still in between:    *)
(* the uploader it belongs to may be running and paying for uploads, and   *)
(* a transfer may fail, or be carried out and still be reported as failed. *)
(*                                                                         *)
(* Gas is counted in units small enough that the fixed amount the drain    *)
(* holds back for fees, `Reserve`, is a few of them.  Amounts are 256-bit  *)
(* in the code and a subtraction wraps around: `Wrap` is that modulus.     *)
(***************************************************************************)
EXTENDS Integers

CONSTANTS
  Vms,           \* the client VMs
  Services,      \* uploader services, and wallets, on each of them
  MaxTokens,     \* bound: tokens a wallet starts with
  MaxGas,        \* bound: gas a wallet starts with
  MaxFee,        \* the most gas one transfer costs
  Reserve,       \* the gas that a drain does not send
  Wrap,          \* one more than the largest amount
  MaxFailures    \* bound: calls that fail for a reason outside of the wallets

ASSUME CountsAssumption ==
  /\ Services \in Nat \ {0} /\ MaxTokens \in Nat /\ MaxGas \in Nat
  /\ MaxFailures \in Nat
ASSUME AmountsAssumption ==
  /\ MaxFee \in Nat \ {0} /\ Reserve \in Nat \ {0}
  /\ Wrap \in Nat /\ Wrap > MaxGas + Reserve

VARIABLES
  live,          \* the uploaders run while the drain does; it is not changed
  tokens, gas,   \* what each wallet holds
  pc,            \* the next step of the drain
  left,          \* VMs whose wallets the running drain has not reached
  at,            \* the wallet it is at
  read,          \* the balance it read last
  failures       \* how many calls failed so far

vars == <<live, tokens, gas, pc, left, at, read, failures>>

\* A wallet is named by its VM and the number of the service that uses it.
Wallets == Vms \X (1..Services)

TypeOK ==
  /\ live \in BOOLEAN
  /\ tokens \in [Wallets -> 0..MaxTokens]
  /\ gas \in [Wallets -> 0..MaxGas]
  /\ pc \in {"idle", "vm", "readTokens", "sendTokens", "readGas", "sendGas"}
  /\ left \subseteq Vms
  /\ at \in Wallets
  /\ read \in Nat
  /\ failures \in 0..MaxFailures

\* Every wallet was funded when its service was provisioned; the uploader
\* may have spent any part of it since.
Init ==
  /\ live \in BOOLEAN
  /\ tokens \in [Wallets -> 0..MaxTokens] /\ gas \in [Wallets -> 0..MaxGas]
  /\ pc = "idle" /\ left = {} /\ at \in Vms \X {1}
  /\ read = 0 /\ failures = 0

\* Mutant: subtraction that stops at zero.
SubSaturating(a, b) == IF a >= b THEN a - b ELSE 0

\* 256-bit subtraction, which wraps around.
Sub(a, b) == IF a >= b THEN a - b ELSE a - b + Wrap

\* The transfer's sender pays a fee that depends on the state of the network.
Fees == 1..MaxFee

-----------------------------------------------------------------------------
StartDrain ==
  /\ pc = "idle" /\ pc' = "vm"
  /\ left' = Vms
  /\ UNCHANGED <<live, tokens, gas, at, read, failures>>

\* The keys are in a map by VM, so the VMs come in any order; the keys of one
\* VM come in the order of its services.
NextVm ==
  /\ pc = "vm" /\ pc' = "readTokens"
  /\ \E v \in left : left' = left \ {v} /\ at' = <<v, 1>>
  /\ UNCHANGED <<live, tokens, gas, read, failures>>

ReadTokens ==
  /\ pc = "readTokens"
  /\ read' = tokens[at]
  /\ pc' = IF tokens[at] = 0 THEN "readGas" ELSE "sendTokens"
  /\ UNCHANGED <<live, tokens, gas, left, at, failures>>

\* Moves `amount` tokens away from the wallet at hand and takes the fee.
MoveTokens(amount, fee) ==
  /\ tokens[at] >= amount /\ gas[at] >= fee
  /\ tokens' = [tokens EXCEPT ![at] = @ - amount]
  /\ gas' = [gas EXCEPT ![at] = @ - fee]

\* Mutant: the fee is not part of what the wallet must hold.
MoveGasUnchecked(amount, fee) ==
  /\ gas[at] >= amount
  /\ gas' = [gas EXCEPT ![at] = @ - amount - fee]
  /\ UNCHANGED tokens

MoveGas(amount, fee) ==
  /\ gas[at] >= amount + fee
  /\ gas' = [gas EXCEPT ![at] = @ - amount - fee]
  /\ UNCHANGED tokens

SendTokens ==
  /\ pc = "sendTokens" /\ pc' = "readGas"
  /\ \E fee \in Fees : MoveTokens(read, fee)
  /\ UNCHANGED <<live, left, at, read, failures>>

\* Mutant: one wallet of each VM is visited.
AdvanceToVm == at' = at /\ pc' = "vm"

\* The next wallet of this VM, or the next VM.
Advance ==
  IF at[2] < Services
    THEN at' = <<at[1], at[2] + 1>> /\ pc' = "readTokens"
    ELSE at' = at /\ pc' = "vm"

\* Mutant: a wallet without gas ends the visit to its VM.
ReadGasLeavingVm ==
  /\ pc = "readGas"
  /\ read' = gas[at]
  /\ IF gas[at] = 0 THEN at' = at /\ pc' = "vm" ELSE at' = at /\ pc' = "sendGas"
  /\ UNCHANGED <<live, tokens, gas, left, failures>>

ReadGas ==
  /\ pc = "readGas"
  /\ read' = gas[at]
  /\ IF gas[at] = 0 THEN Advance ELSE at' = at /\ pc' = "sendGas"
  /\ UNCHANGED <<live, tokens, gas, left, failures>>

SendGas ==
  /\ pc = "sendGas"
  /\ \E fee \in Fees : MoveGas(Sub(read, Reserve), fee)
  /\ Advance
  /\ UNCHANGED <<live, left, read, failures>>

FinishDrain ==
  /\ pc = "vm" /\ left = {}
  /\ pc' = "idle" /\ at' = <<at[1], 1>> /\ read' = 0
  /\ UNCHANGED <<live, tokens, gas, left, failures>>

-----------------------------------------------------------------------------
(***************************************************************************)
(* Failure.  Every error ends the drain where it stands.                   *)
(***************************************************************************)
EndFailed == pc' = "idle" /\ left' = {} /\ at' = <<at[1], 1>> /\ read' = 0

\* The wallet does not hold what the transfer asks for, or not the fee.
CanBeRejected ==
  \E fee \in Fees :
    \/ pc = "sendTokens" /\ (tokens[at] < read \/ gas[at] < fee)
    \/ pc = "sendGas" /\ gas[at] < Sub(read, Reserve) + fee

TransferRejected ==
  /\ CanBeRejected
  /\ EndFailed
  /\ UNCHANGED <<live, tokens, gas, failures>>

\* A call fails for a reason of its own; the transfer it asked for may have
\* been carried out all the same.
CallFails ==
  /\ pc \in {"vm", "readTokens", "sendTokens", "readGas", "sendGas"}
  /\ failures < MaxFailures /\ failures' = failures + 1
  /\ \/ UNCHANGED <<tokens, gas>>
     \/ pc = "sendTokens" /\ \E fee \in Fees : MoveTokens(read, fee)
     \/ pc = "sendGas" /\ \E fee \in Fees : MoveGas(Sub(read, Reserve), fee)
  /\ EndFailed
  /\ UNCHANGED live

\* A running uploader pays for an upload.
Spend ==
  /\ live
  /\ \E w \in Wallets :
       \E t \in 0..tokens[w], g \in Fees \cap 1..gas[w] :
         /\ tokens' = [tokens EXCEPT ![w] = @ - t]
         /\ gas' = [gas EXCEPT ![w] = @ - g]
  /\ UNCHANGED <<live, pc, left, at, read, failures>>

-----------------------------------------------------------------------------
DrainStep ==
  \/ StartDrain \/ NextVm \/ ReadTokens \/ SendTokens \/ ReadGas \/ SendGas
  \/ FinishDrain

Next == DrainStep \/ TransferRejected \/ CallFails \/ Spend

Spec == Init /\ [][Next]_vars

(***************************************************************************)
(* The operator runs the command again whenever it ended, and every call   *)
(* is answered in the end.  Strong fairness of the choice of the VM, which *)
(* a map with a random hash seed makes, is one condition for each VM.      *)
(***************************************************************************)
Fairness ==
  /\ WF_vars(DrainStep) /\ WF_vars(TransferRejected)
  /\ \A v \in Vms : SF_vars(NextVm /\ at' = <<v, 1>> /\ left = Vms)

FairSpec == Spec /\ Fairness

-----------------------------------------------------------------------------
\* The wallets that the running drain is done with.
Visited(w) == w[1] \notin left /\ (pc = "vm" \/ w[1] # at[1] \/ w[2] < at[2])

Draining == pc # "idle"

\* Whatever the uploaders spend meanwhile, a wallet that the drain has moved
\* on from holds no tokens and less gas than the reserve: a drain that reports
\* success left nothing behind but dust (funding.rs:174-256, the two transfers).
VisitedIsEmpty ==
  Draining => \A w \in Wallets : Visited(w) => tokens[w] = 0 /\ gas[w] < Reserve

\* What a drain leaves in a wallet is dust: a wallet with no tokens and some
\* gas, but less than the reserve, ends every later drain that comes to it, so
\* unless somebody uses the wallet no drain succeeds again: what is held back is
\* more than there is, and the amount that wraps around is never covered
\* (funding.rs:241).
Dusty == \E w \in Wallets : tokens[w] = 0 /\ gas[w] \in 1..Reserve - 1

DustBlocksDrain ==
  [](pc = "idle" /\ Dusty /\ ~live => [](~(pc = "vm" /\ left = {})))

AllDrained == \A w \in Wallets : tokens[w] = 0

\* The reserve covers a fee, and each wallet has the reserve and one fee.
CanPay == MaxFee <= Reserve /\ \A w \in Wallets : gas[w] >= Reserve + MaxFee

\* "Drain all the funds from the local ANT wallets to the provided wallet"
\* (funding.rs:153): an operator who goes on running the drain gets every
\* token out of wallets that can all pay for their transfers.
AllTokensDrained == CanPay /\ ~live => <>AllDrained

\* It is so if no call fails.
CalmDrainsAll == [](failures = 0) => AllTokensDrained

\* Where all wallets can pay and nobody uses them, what the drain asks for is
\* never rejected before all tokens are drained: until then it ends early only
\* when a call fails for a reason of its own (funding.rs:163-262).
OnlyFailuresStopDrains ==
  CanPay /\ ~live => [](failures = 0 => AllDrained \/ ~CanBeRejected)
=============================================================================
