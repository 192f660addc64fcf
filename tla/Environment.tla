----------------------------- MODULE Environment -----------------------------
(***************************************************************************)
(* What every kind of environment promises about the money on its client   *)
(* VMs, whatever its commands are and wherever they fail.  Money is put on *)
(* a VM only while the environment is on record, so that whoever comes     *)
(* later can find it; the VMs are known to terraform as long as there is   *)
(* one; and an environment is forgotten from the VMs up: first the VMs go, *)
(* then the workspace, and the record last.                                *)
(*                                                                         *)
(* Lifecycle (testnets) and ClientEnv (client environments) implement it.  *)
(***************************************************************************)
EXTENDS Integers

CONSTANT MaxVms   \* bound: client VMs

VARIABLES
  held,       \* terraform holds a workspace for the environment
  vms,        \* the client VMs are 1..vms
  wallets,    \* the client VMs with a wallet that holds money
  recorded    \* the environment details are in S3

vars == <<held, vms, wallets, recorded>>

Init == held = FALSE /\ vms = 0 /\ wallets = {} /\ recorded = FALSE

Open ==
  /\ held' = TRUE
  /\ UNCHANGED <<vms, wallets, recorded>>

\* VMs come without a wallet and take theirs along when they go.
Resize ==
  /\ held
  /\ \E n \in 0..MaxVms :
       /\ vms' = n
       /\ wallets' = wallets \cap (1..n)
  /\ UNCHANGED <<held, recorded>>

Record ==
  /\ held
  /\ recorded' = TRUE
  /\ UNCHANGED <<held, vms, wallets>>

Pay ==
  /\ held /\ recorded
  /\ \E more \in SUBSET (1..vms) : wallets' = wallets \cup more
  /\ UNCHANGED <<held, vms, recorded>>

Drain ==
  /\ held /\ recorded
  /\ wallets' \in SUBSET wallets
  /\ UNCHANGED <<held, vms, recorded>>

Close ==
  /\ vms = 0
  /\ held' = FALSE
  /\ UNCHANGED <<vms, wallets, recorded>>

Forget ==
  /\ ~held
  /\ recorded' = FALSE
  /\ UNCHANGED <<held, vms, wallets>>

Next == Open \/ Resize \/ Record \/ Pay \/ Drain \/ Close \/ Forget

Spec == Init /\ [][Next]_vars

\* What a reader may rely on at any moment: wallets are on VMs that terraform
\* still knows of, the VMs are in a workspace that still exists, and money is
\* nowhere but in an environment that can still be found.
Promise ==
  /\ wallets \subseteq 1..vms
  /\ vms # 0 => held
  /\ wallets # {} => held /\ recorded

=============================================================================
