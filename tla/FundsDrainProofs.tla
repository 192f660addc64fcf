-------------------------- MODULE FundsDrainProofs --------------------------
(***************************************************************************)
(* What holds of a drain for any number of VMs and wallets, any balances   *)
(* and any reserve.                                                        *)
(***************************************************************************)
EXTENDS FundsDrain, TLAPS

THEOREM TypeCorrect == Spec => []TypeOK
<1>1. Init => TypeOK
  BY CountsAssumption DEF Init, TypeOK, Wallets
<1>2. TypeOK /\ [Next]_vars => TypeOK'
  <2> SUFFICES ASSUME TypeOK, [Next]_vars PROVE TypeOK'
    OBVIOUS
  <2> USE CountsAssumption, AmountsAssumption
  <2>1. CASE StartDrain
    BY <2>1 DEF TypeOK, StartDrain
  <2>2. CASE NextVm
    BY <2>2 DEF TypeOK, NextVm, Wallets
  <2>3. CASE ReadTokens
    BY <2>3 DEF TypeOK, ReadTokens
  <2>4. CASE SendTokens
    BY <2>4 DEF TypeOK, SendTokens, MoveTokens, Fees
  <2>5. CASE ReadGas
    BY <2>5 DEF TypeOK, ReadGas, Advance, Wallets
  <2>6. CASE SendGas
    <3>1. PICK fee \in Fees : MoveGas(Sub(read, Reserve), fee)
      BY <2>6 DEF SendGas
    <3>2. Sub(read, Reserve) \in Nat
      BY DEF Sub, TypeOK
    <3>3. gas' \in [Wallets -> 0..MaxGas] /\ tokens' = tokens
      BY <3>1, <3>2 DEF MoveGas, TypeOK, Fees
    <3>4. at' \in Wallets /\ pc' \in {"vm", "readTokens"}
      BY <2>6 DEF SendGas, Advance, TypeOK, Wallets
    <3> QED BY <2>6, <3>3, <3>4 DEF TypeOK, SendGas
  <2>7. CASE FinishDrain
    BY <2>7 DEF TypeOK, FinishDrain, Wallets
  <2>8. CASE TransferRejected
    BY <2>8 DEF TypeOK, TransferRejected, EndFailed, Wallets
  <2>9. CASE CallFails
    <3>1. Sub(read, Reserve) \in Nat
      BY DEF Sub, TypeOK
    <3>2. tokens' \in [Wallets -> 0..MaxTokens] /\ gas' \in [Wallets -> 0..MaxGas]
      <4>1. CASE UNCHANGED <<tokens, gas>>
        BY <4>1 DEF TypeOK
      <4>2. CASE \E fee \in Fees : MoveTokens(read, fee)
        BY <4>2 DEF TypeOK, MoveTokens, Fees
      <4>3. CASE \E fee \in Fees : MoveGas(Sub(read, Reserve), fee)
        BY <4>3, <3>1 DEF TypeOK, MoveGas, Fees
      <4> QED BY <2>9, <4>1, <4>2, <4>3 DEF CallFails
    <3>3. pc' = "idle" /\ left' = {} /\ at' \in Wallets /\ read' = 0
      BY <2>9 DEF CallFails, EndFailed, TypeOK, Wallets
    <3> QED BY <2>9, <3>2, <3>3 DEF TypeOK, CallFails
  <2>10. CASE Spend
    BY <2>10 DEF TypeOK, Spend
  <2>11. CASE UNCHANGED vars
    BY <2>11 DEF TypeOK, vars
  <2> QED
    BY <2>1, <2>2, <2>3, <2>4, <2>5, <2>6, <2>7, <2>8, <2>9, <2>10, <2>11
      DEF Next, DrainStep
<1> QED BY <1>1, <1>2, PTL DEF Spec

(***************************************************************************)
(* No wallet can cover an amount that wrapped around: this is the bound    *)
(* that AmountsAssumption puts on what the wallets hold.                   *)
(***************************************************************************)
\* Holding the reserve back from a smaller balance wraps around to a huge
\* amount.  No wallet ever holds that amount, so the transfer is rejected.
WrappedAmountNeverSent ==
  pc = "sendGas" /\ read < Reserve => gas[at] < Sub(read, Reserve)

LEMMA WrappedIsTooMuch ==
  ASSUME TypeOK PROVE WrappedAmountNeverSent
BY CountsAssumption, AmountsAssumption DEF TypeOK, WrappedAmountNeverSent, Sub

\* A drain never sends an amount that wrapped around (funding.rs:241).
THEOREM NeverSendsWrapped == Spec => []WrappedAmountNeverSent
BY TypeCorrect, WrappedIsTooMuch, PTL

(***************************************************************************)
(* VisitedIsEmpty is not inductive: it says nothing of the wallet at hand. *)
(* What was read of it bounds what it holds, because uploaders only spend. *)
(***************************************************************************)
AtHand ==
  /\ pc \in {"readTokens", "sendTokens", "readGas", "sendGas"} => at[1] \notin left
  /\ pc = "sendTokens" => tokens[at] <= read
  /\ pc \in {"readGas", "sendGas"} => tokens[at] = 0
  /\ pc = "sendGas" => gas[at] <= read

DrainInv == TypeOK /\ VisitedIsEmpty /\ AtHand

\* The drain leaves the wallet at hand, which is as empty as it should be.
LEMMA AdvanceKeepsInv ==
  ASSUME DrainInv, pc \in {"readGas", "sendGas"}, Advance, left' = left,
         tokens' = tokens, tokens[at] = 0, gas'[at] < Reserve,
         \A w \in Wallets : w # at => gas'[w] = gas[w]
  PROVE  VisitedIsEmpty' /\ AtHand'
<1> USE CountsAssumption
<1>1. at[1] \notin left /\ at[1] \in Vms /\ at[2] \in 1..Services
  BY DEF DrainInv, AtHand, TypeOK, Wallets
<1>2. ASSUME NEW w \in Wallets, Visited(w)' PROVE tokens'[w] = 0 /\ gas'[w] < Reserve
  <2>1. w = <<w[1], w[2]>> /\ at = <<at[1], at[2]>> /\ w[2] \in 1..Services
    BY DEF Wallets, DrainInv, TypeOK
  <2>2. CASE w = at
    BY <2>2
  <2>3. CASE w # at
    <3>1. w[1] # at[1] \/ w[2] < at[2]
      BY <1>1, <1>2, <2>1, <2>3 DEF Advance, Visited
    <3>2. Visited(w)
      BY <1>2, <3>1 DEF Visited
    <3> QED BY <2>3, <3>2 DEF DrainInv, VisitedIsEmpty, Draining
  <2> QED BY <2>2, <2>3
<1>3. AtHand'
  BY <1>1 DEF Advance, AtHand
<1> QED BY <1>2, <1>3 DEF VisitedIsEmpty

THEOREM DrainInvariant == Spec => []DrainInv
<1>1. Init => VisitedIsEmpty /\ AtHand
  BY DEF Init, VisitedIsEmpty, AtHand, Draining
<1>2. DrainInv /\ TypeOK' /\ [Next]_vars => (VisitedIsEmpty /\ AtHand)'
  <2> SUFFICES ASSUME DrainInv, TypeOK', [Next]_vars PROVE (VisitedIsEmpty /\ AtHand)'
    OBVIOUS
  <2> USE CountsAssumption, AmountsAssumption
  <2>1. CASE StartDrain
    BY <2>1 DEF StartDrain, VisitedIsEmpty, AtHand, Visited, Draining, Wallets
  <2>2. CASE NextVm
    <3>1. PICK v \in left : left' = left \ {v} /\ at' = <<v, 1>>
      BY <2>2 DEF NextVm
    <3>2. AtHand'
      BY <2>2, <3>1 DEF NextVm, AtHand
    <3>3. ASSUME NEW w \in Wallets, Visited(w)' PROVE Visited(w)
      <4>1. w[2] >= 1 /\ w[2] \in Nat
        BY DEF Wallets
      <4> QED BY <2>2, <3>1, <3>3, <4>1 DEF NextVm, Visited
    <3> QED BY <2>2, <3>2, <3>3 DEF NextVm, DrainInv, VisitedIsEmpty, Draining
  <2>3. CASE ReadTokens
    BY <2>3 DEF ReadTokens, DrainInv, TypeOK, VisitedIsEmpty, AtHand, Visited, Draining
  <2>4. CASE SendTokens
    <3>1. PICK fee \in Fees : MoveTokens(read, fee)
      BY <2>4 DEF SendTokens
    <3>2. tokens'[at] = 0
      BY <2>4, <3>1 DEF SendTokens, MoveTokens, DrainInv, TypeOK, AtHand
    <3>3. \A w \in Wallets : tokens'[w] <= tokens[w] /\ gas'[w] <= gas[w]
      BY <3>1 DEF MoveTokens, DrainInv, TypeOK, Fees
    <3>4. AtHand'
      BY <2>4, <3>2 DEF SendTokens, AtHand, DrainInv
    <3>5. ASSUME NEW w \in Wallets, Visited(w)' PROVE tokens'[w] = 0 /\ gas'[w] < Reserve
      <4>1. Visited(w)
        BY <2>4, <3>5 DEF SendTokens, Visited
      <4>2. tokens[w] = 0 /\ gas[w] < Reserve
        BY <2>4, <4>1 DEF SendTokens, DrainInv, VisitedIsEmpty, Draining
      <4> QED BY <3>3, <4>2 DEF DrainInv, TypeOK
    <3> QED BY <3>4, <3>5 DEF VisitedIsEmpty
  <2>5. CASE ReadGas
    <3>1. CASE gas[at] = 0
      <4>1. tokens[at] = 0 /\ gas'[at] < Reserve
        BY <2>5, <3>1 DEF ReadGas, DrainInv, AtHand
      <4> QED BY <2>5, <3>1, <4>1, AdvanceKeepsInv DEF ReadGas
    <3>2. CASE gas[at] # 0
      BY <2>5, <3>2 DEF ReadGas, DrainInv, TypeOK, VisitedIsEmpty, AtHand, Visited, Draining
    <3> QED BY <3>1, <3>2
  <2>6. CASE SendGas
    <3>1. PICK fee \in Fees : MoveGas(Sub(read, Reserve), fee)
      BY <2>6 DEF SendGas
    <3>2. read >= Reserve
      BY <2>6, <3>1, WrappedIsTooMuch
        DEF SendGas, MoveGas, DrainInv, TypeOK, WrappedAmountNeverSent, Sub, Fees
    <3>3. gas'[at] < Reserve /\ (\A w \in Wallets : w # at => gas'[w] = gas[w])
      BY <2>6, <3>1, <3>2 DEF SendGas, MoveGas, DrainInv, TypeOK, AtHand, Sub, Fees
    <3>4. tokens[at] = 0 /\ tokens' = tokens
      BY <2>6, <3>1 DEF SendGas, MoveGas, DrainInv, AtHand
    <3> QED BY <2>6, <3>3, <3>4, AdvanceKeepsInv DEF SendGas
  <2>7. CASE FinishDrain
    BY <2>7 DEF FinishDrain, VisitedIsEmpty, AtHand, Draining
  <2>8. CASE TransferRejected
    BY <2>8 DEF TransferRejected, EndFailed, VisitedIsEmpty, AtHand, Draining
  <2>9. CASE CallFails
    BY <2>9 DEF CallFails, EndFailed, VisitedIsEmpty, AtHand, Draining
  <2>10. CASE Spend
    <3>1. \A w \in Wallets : tokens'[w] <= tokens[w] /\ gas'[w] <= gas[w]
      BY <2>10 DEF Spend, DrainInv, TypeOK
    <3>2. AtHand'
      BY <2>10, <3>1 DEF Spend, AtHand, DrainInv, TypeOK
    <3>3. ASSUME NEW w \in Wallets, Visited(w)', Draining'
          PROVE  tokens'[w] = 0 /\ gas'[w] < Reserve
      <4>1. tokens[w] = 0 /\ gas[w] < Reserve
        BY <2>10, <3>3 DEF Spend, Visited, Draining, DrainInv, VisitedIsEmpty
      <4> QED BY <3>1, <4>1 DEF DrainInv, TypeOK
    <3> QED BY <3>2, <3>3 DEF VisitedIsEmpty
  <2>11. CASE UNCHANGED vars
    BY <2>11 DEF vars, VisitedIsEmpty, AtHand, Visited, Draining, DrainInv
  <2> QED
    BY <2>1, <2>2, <2>3, <2>4, <2>5, <2>6, <2>7, <2>8, <2>9, <2>10, <2>11
      DEF Next, DrainStep
<1> QED BY <1>1, <1>2, TypeCorrect, PTL DEF Spec, DrainInv

\* Whatever the uploaders spend while it runs, a drain leaves nothing but dust
\* in the wallets it has moved on from (funding.rs:163-257).
THEOREM DrainedIsEmpty == Spec => []VisitedIsEmpty
BY DrainInvariant, PTL DEF DrainInv

(***************************************************************************)
(* A wallet with some gas, less than the reserve, and no tokens.  Where no *)
(* uploader runs, no drain gets past it: when the drain is at this wallet  *)
(* it goes on to the gas, and what it read there is what the wallet has.   *)
(***************************************************************************)
Blocking(w) ==
  /\ tokens[w] = 0 /\ gas[w] \in 1..Reserve - 1
  /\ Draining => ~Visited(w)
  /\ at = w => pc # "sendTokens" /\ (pc = "sendGas" => read = gas[w])

Blocked == ~live /\ \E w \in Wallets : Blocking(w)

\* A transfer of gas out of such a wallet would be one of a wrapped amount.
LEMMA BlockingKeepsGas ==
  ASSUME DrainInv, NEW w \in Wallets, Blocking(w), pc = "sendGas",
         NEW fee \in Fees, MoveGas(Sub(read, Reserve), fee)
  PROVE  at # w
BY WrappedIsTooMuch, CountsAssumption, AmountsAssumption
  DEF DrainInv, TypeOK, Blocking, MoveGas, WrappedAmountNeverSent, Sub, Fees

\* Moving on from another wallet does not pass this one.
LEMMA AdvanceKeepsUnvisited ==
  ASSUME DrainInv, pc \in {"readGas", "sendGas"}, Advance, left' = left,
         NEW w \in Wallets, w # at, ~Visited(w)
  PROVE  ~Visited(w)'
<1> USE CountsAssumption
<1>1. at[1] \notin left /\ at[2] \in 1..Services /\ w[2] \in 1..Services
  BY DEF DrainInv, AtHand, TypeOK, Wallets
<1>2. w = <<w[1], w[2]>> /\ at = <<at[1], at[2]>>
  BY DEF Wallets, DrainInv, TypeOK
<1> QED BY <1>1, <1>2 DEF Advance, Visited

LEMMA BlockingStays ==
  ASSUME DrainInv, [Next]_vars, ~live, NEW w \in Wallets, Blocking(w)
  PROVE  Blocking(w)'
<1> USE CountsAssumption, AmountsAssumption
<1> USE DEF Blocking, Draining
<1>1. CASE StartDrain
  BY <1>1 DEF StartDrain, Visited, Wallets
<1>2. CASE NextVm
  <2>1. PICK v \in left : left' = left \ {v} /\ at' = <<v, 1>>
    BY <1>2 DEF NextVm
  <2>2. w[2] >= 1 /\ w[2] \in Nat
    BY DEF Wallets
  <2> QED BY <1>2, <2>1, <2>2 DEF NextVm, Visited
<1>3. CASE ReadTokens
  BY <1>3 DEF ReadTokens, Visited
<1>4. CASE SendTokens
  BY <1>4 DEF SendTokens, MoveTokens, Visited, DrainInv, TypeOK
<1>5. CASE ReadGas
  <2>1. CASE w = at
    BY <1>5, <2>1 DEF ReadGas, Visited
  <2>2. CASE w # at
    <3>1. CASE gas[at] = 0
      <4>1. ~Visited(w)'
        BY <1>5, <2>2, <3>1, AdvanceKeepsUnvisited DEF ReadGas
      <4> QED BY <1>5, <2>2, <3>1, <4>1 DEF ReadGas, Advance
    <3>2. CASE gas[at] # 0
      BY <1>5, <2>2, <3>2 DEF ReadGas, Visited
    <3> QED BY <3>1, <3>2
  <2> QED BY <2>1, <2>2
<1>6. CASE SendGas
  <2>1. PICK fee \in Fees : MoveGas(Sub(read, Reserve), fee)
    BY <1>6 DEF SendGas
  <2>2. w # at
    BY <1>6, <2>1, BlockingKeepsGas DEF SendGas
  <2>3. tokens'[w] = tokens[w] /\ gas'[w] = gas[w]
    BY <2>1, <2>2 DEF MoveGas, DrainInv, TypeOK
  <2>4. ~Visited(w)'
    BY <1>6, <2>2, AdvanceKeepsUnvisited DEF SendGas
  <2> QED BY <1>6, <2>3, <2>4 DEF SendGas, Advance
<1>7. CASE FinishDrain
  BY <1>7 DEF FinishDrain
<1>8. CASE TransferRejected
  BY <1>8 DEF TransferRejected, EndFailed
<1>9. CASE CallFails
  <2>1. tokens'[w] = tokens[w] /\ gas'[w] = gas[w]
    <3>1. CASE UNCHANGED <<tokens, gas>>
      BY <3>1
    <3>2. CASE pc = "sendTokens" /\ \E fee \in Fees : MoveTokens(read, fee)
      BY <3>2 DEF MoveTokens, DrainInv, TypeOK
    <3>3. CASE pc = "sendGas" /\ \E fee \in Fees : MoveGas(Sub(read, Reserve), fee)
      BY <3>3, BlockingKeepsGas DEF MoveGas, DrainInv, TypeOK
    <3> QED BY <1>9, <3>1, <3>2, <3>3 DEF CallFails
  <2> QED BY <1>9, <2>1 DEF CallFails, EndFailed
<1>10. CASE Spend
  BY <1>10 DEF Spend
<1>11. CASE UNCHANGED vars
  BY <1>11 DEF vars, Visited
<1> QED
  BY <1>1, <1>2, <1>3, <1>4, <1>5, <1>6, <1>7, <1>8, <1>9, <1>10, <1>11
    DEF Next, DrainStep

\* Where nobody uses the wallets, a wallet without tokens and with some gas, but
\* less than the reserve, keeps every later drain from succeeding
\* (funding.rs:241).
THEOREM DustBlocks == Spec => DustBlocksDrain
<1>1. pc = "idle" /\ Dusty /\ ~live => Blocked
  BY DEF Dusty, Blocked, Blocking, Draining
<1>2. DrainInv /\ Blocked /\ [Next]_vars => Blocked'
  <2> SUFFICES ASSUME DrainInv, Blocked, [Next]_vars PROVE Blocked'
    OBVIOUS
  <2>1. PICK w \in Wallets : Blocking(w)
    BY DEF Blocked
  <2>2. Blocking(w)'
    BY <2>1, BlockingStays DEF Blocked
  <2>3. Wallets' = Wallets /\ ~live'
    BY DEF Wallets, Blocked, Next, DrainStep, StartDrain, NextVm, ReadTokens, SendTokens,
      ReadGas, SendGas, FinishDrain, TransferRejected, CallFails, Spend, vars
  <2> QED BY <2>2, <2>3 DEF Blocked
<1>3. Blocked => ~(pc = "vm" /\ left = {})
  BY DEF Blocked, Blocking, Draining, Visited
<1> QED BY <1>1, <1>2, <1>3, DrainInvariant, PTL DEF Spec, DustBlocksDrain

(***************************************************************************)
(* Wallets that the drain has yet to take the gas of hold the reserve and  *)
(* a fee, the one whose tokens it has taken still holds the reserve, and   *)
(* what was read is what there is.                                         *)
(***************************************************************************)
Pending(w) == Draining => ~Visited(w) /\ (w = at => pc \notin {"readGas", "sendGas"})

Solvent ==
  /\ \A w \in Wallets : Pending(w) => gas[w] >= Reserve + MaxFee
  /\ pc \in {"readGas", "sendGas"} => gas[at] >= Reserve
  /\ pc = "sendTokens" => read = tokens[at]
  /\ pc = "sendGas" => read = gas[at]

Calm == MaxFee <= Reserve /\ ~live /\ (failures = 0 => AllDrained \/ Solvent)

\* The fees fit into what the wallets hold beside the amounts asked for.
LEMMA SolventIsServed ==
  ASSUME DrainInv, Solvent, MaxFee <= Reserve PROVE ~CanBeRejected
<1> USE CountsAssumption, AmountsAssumption
<1>1. ASSUME pc = "sendTokens" PROVE tokens[at] = read /\ gas[at] >= MaxFee
  BY <1>1 DEF Solvent, Pending, Visited, DrainInv, TypeOK, Wallets
<1>2. ASSUME pc = "sendGas", NEW fee \in Fees PROVE gas[at] >= Sub(read, Reserve) + fee
  BY <1>2 DEF Solvent, Sub, Fees, DrainInv, TypeOK
<1>3. gas[at] \in Nat /\ read \in Nat /\ Sub(read, Reserve) \in Nat
  BY DEF DrainInv, TypeOK, Sub
<1>4. ASSUME NEW fee \in Fees, pc = "sendTokens" PROVE ~(tokens[at] < read \/ gas[at] < fee)
  BY <1>1, <1>3, <1>4 DEF Fees
<1>5. ASSUME NEW fee \in Fees, pc = "sendGas" PROVE ~(gas[at] < Sub(read, Reserve) + fee)
  BY <1>2, <1>3, <1>5 DEF Fees
<1> QED BY <1>4, <1>5 DEF CanBeRejected

LEMMA AdvanceKeepsSolvent ==
  ASSUME DrainInv, Solvent, pc \in {"readGas", "sendGas"}, Advance, left' = left,
         \A w \in Wallets : w # at => gas'[w] = gas[w]
  PROVE  Solvent'
<1> USE CountsAssumption
<1>1. at[1] \notin left /\ at[2] \in 1..Services /\ at = <<at[1], at[2]>>
  BY DEF DrainInv, AtHand, TypeOK, Wallets
<1>2. pc' \in {"vm", "readTokens"}
  BY DEF Advance
<1>3. ASSUME NEW w \in Wallets, Pending(w)' PROVE w # at /\ Pending(w)
  <2>1. ~Visited(w)'
    BY <1>2, <1>3 DEF Pending, Draining
  <2>2. w = <<w[1], w[2]>> /\ w[2] \in 1..Services
    BY DEF Wallets
  <2>3. w # at
    BY <1>1, <2>1 DEF Advance, Visited
  <2>4. ~Visited(w)
    BY <1>1, <2>1, <2>2, <2>3 DEF Advance, Visited
  <2> QED BY <2>3, <2>4 DEF Pending
<1> QED BY <1>2, <1>3 DEF Solvent

LEMMA CalmStays ==
  ASSUME DrainInv, Calm, [Next]_vars PROVE Calm'
<1> USE CountsAssumption, AmountsAssumption
<1>1. MaxFee <= Reserve /\ ~live
  BY DEF Calm
<1>2. ~live'
  BY <1>1 DEF Next, DrainStep, StartDrain, NextVm, ReadTokens, SendTokens,
    ReadGas, SendGas, FinishDrain, TransferRejected, CallFails, Spend, vars
<1>3. ASSUME AllDrained PROVE AllDrained'
  <2>1. CASE UNCHANGED tokens
    BY <1>3, <2>1 DEF AllDrained, Wallets
  <2>2. CASE \E fee \in Fees : MoveTokens(read, fee)
    <3>1. read \in Nat
      BY DEF DrainInv, TypeOK
    <3> QED BY <1>3, <2>2, <3>1 DEF AllDrained, MoveTokens, DrainInv, TypeOK, Wallets
  <2> QED
    BY <1>1, <2>1, <2>2 DEF Next, DrainStep, StartDrain, NextVm, ReadTokens, SendTokens,
      ReadGas, SendGas, FinishDrain, TransferRejected, CallFails, Spend, vars, MoveGas
<1>4. ASSUME Solvent, failures' = 0 PROVE AllDrained' \/ Solvent'
  <2>1. CASE StartDrain
    BY <1>4, <2>1 DEF StartDrain, Solvent, Pending, Visited, Draining
  <2>2. CASE NextVm
    <3>1. PICK v \in left : left' = left \ {v} /\ at' = <<v, 1>>
      BY <2>2 DEF NextVm
    <3>2. ASSUME NEW w \in Wallets, Pending(w)' PROVE Pending(w)
      BY <2>2, <3>1, <3>2 DEF NextVm, Pending, Visited, Draining
    <3> QED BY <1>4, <2>2, <3>2 DEF NextVm, Solvent
  <2>3. CASE ReadTokens
    <3>1. gas[at] >= Reserve + MaxFee
      BY <1>4, <2>3 DEF ReadTokens, Solvent, Pending, Visited, DrainInv, TypeOK, Wallets
    <3>2. ASSUME NEW w \in Wallets, Pending(w)' PROVE Pending(w)
      BY <2>3, <3>2 DEF ReadTokens, Pending, Visited, Draining
    <3> QED BY <1>4, <2>3, <3>1, <3>2 DEF ReadTokens, Solvent, DrainInv, TypeOK
  <2>4. CASE SendTokens
    <3>1. PICK fee \in Fees : MoveTokens(read, fee)
      BY <2>4 DEF SendTokens
    <3>2. gas[at] >= Reserve + MaxFee
      BY <1>4, <2>4 DEF SendTokens, Solvent, Pending, Visited, DrainInv, TypeOK, Wallets
    <3>3. gas'[at] >= Reserve
      BY <3>1, <3>2 DEF MoveTokens, Fees, DrainInv, TypeOK
    <3>4. ASSUME NEW w \in Wallets, Pending(w)' PROVE Pending(w) /\ gas'[w] = gas[w]
      BY <2>4, <3>1, <3>4 DEF SendTokens, Pending, Visited, Draining, MoveTokens, DrainInv, TypeOK
    <3> QED BY <1>4, <2>4, <3>3, <3>4 DEF SendTokens, Solvent
  <2>5. CASE ReadGas
    <3>1. CASE gas[at] = 0
      BY <1>4, <2>5, <3>1, AdvanceKeepsSolvent DEF ReadGas
    <3>2. CASE gas[at] # 0
      <4>1. ASSUME NEW w \in Wallets, Pending(w)' PROVE Pending(w)
        BY <2>5, <3>2, <4>1 DEF ReadGas, Pending, Visited, Draining
      <4> QED BY <1>4, <2>5, <3>2, <4>1 DEF ReadGas, Solvent
    <3> QED BY <3>1, <3>2
  <2>6. CASE SendGas
    <3>1. PICK fee \in Fees : MoveGas(Sub(read, Reserve), fee)
      BY <2>6 DEF SendGas
    <3>2. \A w \in Wallets : w # at => gas'[w] = gas[w]
      BY <3>1 DEF MoveGas, DrainInv, TypeOK
    <3> QED BY <1>4, <2>6, <3>2, AdvanceKeepsSolvent DEF SendGas
  <2>7. CASE FinishDrain
    <3>1. AllDrained
      BY <2>7 DEF FinishDrain, AllDrained, DrainInv, VisitedIsEmpty, Visited, Draining
    <3> QED BY <1>3, <3>1
  <2>8. CASE TransferRejected
    BY <1>1, <1>4, <2>8, SolventIsServed DEF TransferRejected
  <2>9. CASE CallFails
    BY <1>4, <2>9 DEF CallFails, DrainInv, TypeOK
  <2>10. CASE Spend
    BY <1>1, <2>10 DEF Spend
  <2>11. CASE UNCHANGED vars
    BY <1>4, <2>11 DEF vars, Solvent, Pending, Visited, Draining
  <2> QED
    BY <2>1, <2>2, <2>3, <2>4, <2>5, <2>6, <2>7, <2>8, <2>9, <2>10, <2>11
      DEF Next, DrainStep
<1>5. failures' = 0 => failures = 0
  BY DEF Next, DrainStep, StartDrain, NextVm, ReadTokens, SendTokens, ReadGas, SendGas,
    FinishDrain, TransferRejected, CallFails, Spend, vars, DrainInv, TypeOK
<1> QED BY <1>1, <1>2, <1>3, <1>4, <1>5 DEF Calm

\* Where all wallets can pay and nobody uses them, a drain that has tokens left
\* to send ends early only when a call fails (funding.rs:163-262).
THEOREM OnlyFailuresStop == Spec => OnlyFailuresStopDrains
<1>1. Init /\ CanPay /\ ~live => Calm
  BY DEF Init, CanPay, Calm, Solvent
<1>2. DrainInv /\ Calm /\ [Next]_vars => Calm'
  BY CalmStays
<1>3. DrainInv /\ Calm => (failures = 0 => AllDrained \/ ~CanBeRejected)
  BY SolventIsServed DEF Calm
<1> QED BY <1>1, <1>2, <1>3, DrainInvariant, PTL DEF Spec, OnlyFailuresStopDrains
=============================================================================
