----------------------------- MODULE Uploaders ------------------------------
(***************************************************************************)
(* How an uploader service gets its wallet.  A command that provisions     *)
(* uploaders reads the keys of the services there are, makes up the keys   *)
(* that are missing, pays every key, and only then runs the playbook that  *)
(* writes the keys into service files; between the payment and the         *)
(* playbook a new key exists in the memory of the command alone.  The      *)
(* command may be given keys that hold funds already, which it deals out   *)
(* to the VMs instead.                                                     *)
(*                                                                         *)
(* The playbook writes a service file only where there is none, then       *)
(* enables the services; systemd lists the ones that are enabled, and      *)
(* their number is what the next command takes for the number of keys.     *)
(* Any step may fail on any VM; a loop of the playbook then goes on with   *)
(* its next item, so the files and the services may have gaps.  Several    *)
(* operators may do this at a time: there is no lock.                      *)
(***************************************************************************)
EXTENDS Integers, Sequences, SequencesExt, FiniteSets

CONSTANTS
  Operators,      \* the people, or workflows, that run commands
  NumVms,         \* client VMs
  MaxServices,    \* bound: uploader services on a VM
  MaxGenerated,   \* bound: keys generated in all
  Wallets,        \* the wallets that the operators have funded themselves
  GivenLists,     \* the lists of their keys that a command may be given
  MaxFailures     \* bound: `failures`

ASSUME BoundsAssumption ==
  /\ NumVms \in Nat \ {0} /\ MaxServices \in Nat \ {0} /\ MaxGenerated \in Nat
  /\ MaxFailures \in Nat

\* A command is given a key once, as its help asks for; another command may be
\* given it again, at the same place or at another.
ASSUME GivenAssumption ==
  /\ GivenLists \subseteq Seq(Wallets)
  /\ \A l \in GivenLists : IsInjective(l)

VARIABLES
  files,      \* the keys in the service files of each VM, by service number
  enabled,    \* the services of each VM that are enabled, which systemd lists
  paid,       \* what each key was sent
  generated,  \* how many keys were generated so far
  skipped,    \* some command had no funding key, and paid nothing
  failures,   \* how many commands failed once they paid, and VMs in a playbook
  pc,         \* each operator's next step, "idle" between two commands
  want,       \* uploaders per VM the command asks for; 0 if it does not say
  keys,       \* the key map in the command's memory
  todo,       \* what is left of its present loop, over VMs or places
  task,       \* how far its playbook is on each VM
  stat        \* service files the playbook found on each VM

vms == <<files, enabled>>
memory == <<want, keys, todo, task, stat>>
vars == <<vms, paid, generated, skipped, failures, pc, memory>>

Vms == 1..NumVms
Services == 1..MaxServices

\* The key of a wallet that is funded already, and the i-th that was generated.
GivenKey(w) == <<"given", w>>
OwnKey(i) == <<"own", i>>
GivenKeys == {GivenKey(w) : w \in Wallets}
OwnKeys == {OwnKey(i) : i \in 1..MaxGenerated}
Keys == GivenKeys \cup OwnKeys
KeyLists == UNION {[1..n -> Keys] : n \in 0..MaxServices}
KeyFiles == UNION {[S -> Keys] : S \in SUBSET Services}
NoKeys == [v \in Vms |-> <<>>]

\* The steps of the playbook on one VM, in order.
Tasks == {"stat", "write", "enable", "done", "failed"}

TypeOK ==
  /\ files \in [Vms -> KeyFiles]
  /\ enabled \in [Vms -> SUBSET Services]
  /\ paid \in [Keys -> {"nothing", "tokens", "both"}]
  /\ generated \in 0..MaxGenerated
  /\ failures \in 0..MaxFailures /\ skipped \in BOOLEAN
  /\ pc \in [Operators -> {"idle", "fetch", "deal", "generate", "pay", "playbook"}]
  /\ want \in [Operators -> 0..MaxServices]
  /\ keys \in [Operators -> [Vms -> KeyLists]]
  /\ stat \in [Operators -> [Vms -> SUBSET Services]]
  /\ todo \in [Operators -> SUBSET (Vms \X (0..MaxServices))]
  /\ task \in [Operators -> [Vms -> Tasks]]

Init ==
  /\ files = NoKeys /\ enabled = [v \in Vms |-> {}]
  /\ paid = [k \in Keys |-> IF k \in GivenKeys THEN "both" ELSE "nothing"]
  /\ generated = 0 /\ failures = 0 /\ skipped = FALSE
  /\ pc = [o \in Operators |-> "idle"]
  /\ want = [o \in Operators |-> 0]
  /\ keys = [o \in Operators |-> NoKeys]
  /\ todo = [o \in Operators |-> {}]
  /\ stat = [o \in Operators |-> [v \in Vms |-> {}]]
  /\ task = [o \in Operators |-> [v \in Vms |-> "stat"]]

Failure == failures < MaxFailures /\ failures' = failures + 1

SetPc(o, from, to) == pc[o] = from /\ pc' = [pc EXCEPT ![o] = to]

\* The command ends, and what it had in memory is gone.
End(o, from) ==
  /\ SetPc(o, from, "idle")
  /\ want' = [want EXCEPT ![o] = 0]
  /\ keys' = [keys EXCEPT ![o] = NoKeys]
  /\ todo' = [todo EXCEPT ![o] = {}]
  /\ task' = [task EXCEPT ![o] = [v \in Vms |-> "stat"]]
  /\ stat' = [stat EXCEPT ![o] = [v \in Vms |-> {}]]

-----------------------------------------------------------------------------
(***************************************************************************)
(* The command before the playbook.                                        *)
(***************************************************************************)

\* `deploy`, `clients deploy` and `cmd/provision` say how many uploaders a VM
\* is to have; `upscale` may leave it out.
Begin(o) ==
  /\ \E n \in 0..MaxServices :
       /\ want' = [want EXCEPT ![o] = n]
       /\ \/ SetPc(o, "idle", "fetch")
          \/ GivenLists # {} /\ n > 0 /\ SetPc(o, "idle", "deal")
  /\ UNCHANGED <<vms, paid, generated, failures, keys, todo, task, stat, skipped>>

\* As many services as systemd lists are read, from the first one on; where
\* one of these has no file, the command fails.
Listed(v) == 1..Cardinality(enabled[v])
ListedKeys(v) == [i \in Listed(v) |-> files[v][i]]

FetchKeys(o) ==
  /\ SetPc(o, "fetch", "generate")
  /\ \A v \in Vms : Listed(v) \subseteq DOMAIN files[v]
  /\ keys' = [keys EXCEPT ![o] = [v \in Vms |-> ListedKeys(v)]]
  /\ todo' = [todo EXCEPT ![o] = IF want[o] = 0 THEN {} ELSE Vms \X {0}]
  /\ UNCHANGED <<vms, paid, generated, failures, want, task, stat, skipped>>

\* Mutant: the number of keys a VM has is not taken off.
GenerateAllKeys(o) ==
  /\ pc[o] = "generate"
  /\ \E v \in Vms :
       /\ <<v, 0>> \in todo[o] /\ want[o] >= Len(keys[o][v])
       /\ generated + want[o] <= MaxGenerated
       /\ keys' = [keys EXCEPT ![o][v] = @ \o [i \in 1..want[o] |-> OwnKey(generated + i)]]
       /\ generated' = generated + want[o]
       /\ todo' = [todo EXCEPT ![o] = @ \ {<<v, 0>>}]
  /\ UNCHANGED <<vms, paid, failures, pc, want, task, stat, skipped>>

\* Mutant: the VMs share the keys that are made up.
GenerateShared(o) ==
  /\ pc[o] = "generate"
  /\ \E v \in Vms :
       LET missing == want[o] - Len(keys[o][v])
       IN  /\ <<v, 0>> \in todo[o] /\ missing >= 0 /\ missing <= MaxGenerated
           /\ keys' = [keys EXCEPT ![o][v] = @ \o [i \in 1..missing |-> OwnKey(i)]]
           /\ todo' = [todo EXCEPT ![o] = @ \ {<<v, 0>>}]
  /\ UNCHANGED <<vms, paid, generated, failures, pc, want, task, stat, skipped>>

\* Mutant: the keys that are made up come before those of the VM.
GenerateKeysFirst(o) ==
  /\ pc[o] = "generate"
  /\ \E v \in Vms :
       LET missing == want[o] - Len(keys[o][v])
       IN  /\ <<v, 0>> \in todo[o] /\ missing >= 0
           /\ generated + missing <= MaxGenerated
           /\ keys' = [keys EXCEPT ![o][v] = [i \in 1..missing |-> OwnKey(generated + i)] \o @]
           /\ generated' = generated + missing
           /\ todo' = [todo EXCEPT ![o] = @ \ {<<v, 0>>}]
  /\ UNCHANGED <<vms, paid, failures, pc, want, task, stat, skipped>>

\* The missing keys of one VM; the VMs come in any order.
GenerateKeys(o) ==
  /\ pc[o] = "generate"
  /\ \E v \in Vms :
       LET missing == want[o] - Len(keys[o][v])
       IN  /\ <<v, 0>> \in todo[o] /\ missing >= 0
           /\ generated + missing <= MaxGenerated
           /\ keys' = [keys EXCEPT ![o][v] = @ \o [i \in 1..missing |-> OwnKey(generated + i)]]
           /\ generated' = generated + missing
           /\ todo' = [todo EXCEPT ![o] = @ \ {<<v, 0>>}]
  /\ UNCHANGED <<vms, paid, failures, pc, want, task, stat, skipped>>

\* Fewer uploaders than there are: the command is refused.
RefuseDownscale(o) ==
  /\ \E v \in Vms : <<v, 0>> \in todo[o] /\ want[o] < Len(keys[o][v])
  /\ End(o, "generate")
  /\ UNCHANGED <<vms, paid, generated, failures, skipped>>

Places(o) == {p \in Vms \X (1..MaxServices) : p[2] <= Len(keys[o][p[1]])}

StartPaying(o) ==
  /\ SetPc(o, "generate", "pay") /\ todo[o] = {}
  /\ todo' = [todo EXCEPT ![o] = Places(o)]
  /\ UNCHANGED <<vms, paid, generated, failures, want, keys, task, stat, skipped>>

\* Only `deploy` and `upscale` insist on a funding key; without one the other
\* commands skip the payment and go on.
SkipPaying(o) ==
  /\ SetPc(o, "generate", "pay") /\ todo[o] = {}
  /\ skipped' = TRUE
  /\ UNCHANGED <<vms, paid, generated, failures, memory>>

\* The keys of one VM are paid in their order, and before those of the next.
NextPlace(o, p) ==
  /\ p \in todo[o]
  /\ \A q \in todo[o] : q[1] = p[1] => p[2] <= q[2]
  /\ \A q \in todo[o] : q[1] # p[1] => <<q[1], 1>> \in todo[o]

\* Mutant: the tokens are sent, the gas is not.
PayTokensOnly(o) ==
  /\ pc[o] = "pay"
  /\ \E p \in Places(o) :
       LET k == keys[o][p[1]][p[2]]
       IN  /\ NextPlace(o, p)
           /\ paid' = [paid EXCEPT ![k] = IF @ = "nothing" THEN "tokens" ELSE @]
           /\ todo' = [todo EXCEPT ![o] = @ \ {p}]
  /\ UNCHANGED <<vms, generated, failures, pc, want, keys, task, stat, skipped>>

\* Each key is sent tokens, then gas; a key that has funds gets more of them.
PayKey(o) ==
  /\ pc[o] = "pay"
  /\ \E p \in Places(o) :
       LET k == keys[o][p[1]][p[2]]
       IN  \/ /\ NextPlace(o, p)
              /\ paid' = [paid EXCEPT ![k] = "both"]
              /\ todo' = [todo EXCEPT ![o] = @ \ {p}]
              /\ UNCHANGED <<failures, pc, want, keys, task, stat>>
           \/ /\ NextPlace(o, p)                   \* the gas transfer fails
              /\ Failure
              /\ paid' = [paid EXCEPT ![k] = IF @ = "nothing" THEN "tokens" ELSE @]
              /\ End(o, "pay")
  /\ UNCHANGED <<vms, generated, skipped>>

\* Mutant: the playbook runs before every key was paid.
StartPlaybookEarly(o) ==
  /\ SetPc(o, "pay", "playbook")
  /\ task' = [task EXCEPT ![o] = [v \in Vms |-> "stat"]]
  /\ UNCHANGED <<vms, paid, generated, failures, want, keys, todo, stat, skipped>>

StartPlaybook(o) ==
  /\ SetPc(o, "pay", "playbook") /\ todo[o] = {}
  /\ task' = [task EXCEPT ![o] = [v \in Vms |-> "stat"]]
  /\ UNCHANGED <<vms, paid, generated, failures, want, keys, todo, stat, skipped>>

\* The command line checks the number of keys against the VM count it was
\* given, and takes that for one if there is none.
GivenCounts(o) == {want[o] * NumVms, want[o]} \ {0}

\* A list of keys that the command line lets through and that gives each of
\* the VMs `n` keys.
Deals(o, l, n) == Len(l) \in GivenCounts(o) /\ Len(l) = n * NumVms

\* Mutant: every VM is dealt the keys from the first one on.
DealSameKeys(o) ==
  \E l \in GivenLists, n \in Services :
    /\ Deals(o, l, n)
    /\ SetPc(o, "deal", "playbook")
    /\ keys' = [keys EXCEPT ![o] = [v \in Vms |-> [i \in 1..n |-> GivenKey(l[i])]]]
    /\ task' = [task EXCEPT ![o] = [v \in Vms |-> "stat"]]
    /\ UNCHANGED <<vms, paid, generated, failures, want, todo, stat, skipped>>

\* Funded keys are dealt to the VMs, the same number to each.  The list of VMs
\* comes out of a hash map, so it has another order in every command.
DealGivenKeys(o) ==
  \E l \in GivenLists, n \in Services, order \in [Vms -> Vms] :
    /\ Deals(o, l, n) /\ IsInjective(order)
    /\ SetPc(o, "deal", "playbook")
    /\ keys' = [keys EXCEPT ![o] =
         [v \in Vms |-> [i \in 1..n |-> GivenKey(l[(order[v] - 1) * n + i])]]]
    /\ task' = [task EXCEPT ![o] = [v \in Vms |-> "stat"]]
    /\ UNCHANGED <<vms, paid, generated, failures, want, todo, stat, skipped>>

\* The number of keys must be a multiple of the number of VMs.
RefuseUnevenDeal(o) ==
  /\ \E l \in GivenLists : Len(l) \in GivenCounts(o) /\ Len(l) % NumVms # 0
  /\ End(o, "deal")
  /\ UNCHANGED <<vms, paid, generated, failures, skipped>>

\* `funds deposit` pays the keys there are and ends there.
DepositEnds(o) ==
  /\ todo[o] = {} /\ want[o] = 0
  /\ End(o, "pay")
  /\ UNCHANGED <<vms, paid, generated, failures, skipped>>

\* A command that fails before it paid anything leaves no trace.
FailsEarly(o) ==
  /\ pc[o] \in {"fetch", "deal", "generate"}
  /\ End(o, pc[o])
  /\ UNCHANGED <<vms, paid, generated, failures, skipped>>

\* One that fails while it pays may leave keys that nobody else knows.
PaymentFails(o) ==
  /\ Failure
  /\ End(o, "pay")
  /\ UNCHANGED <<vms, paid, generated, skipped>>

-----------------------------------------------------------------------------
(***************************************************************************)
(* The playbook, which runs on each VM on its own.                         *)
(***************************************************************************)

\* A command that does not say how many uploaders it wants asks for one.
Instances(o) == IF want[o] = 0 THEN 1 ELSE want[o]

OnVm(o, v, from, to) ==
  /\ pc[o] = "playbook" /\ task[o][v] = from
  /\ task' = [task EXCEPT ![o][v] = to]

StatFiles(o, v) ==
  /\ OnVm(o, v, "stat", "write")
  /\ stat' = [stat EXCEPT ![o][v] = DOMAIN files[v]]
  /\ UNCHANGED <<vms, paid, generated, failures, pc, want, keys, todo, skipped>>

\* The services that are to have a file and have a key, and those of them that
\* the playbook found no file for.
Zipped(o, v) == {i \in DOMAIN keys[o][v] : i <= Instances(o)}
Missing(o, v) == Zipped(o, v) \ stat[o][v]

\* The files of the VM after those of the services in `done` were written.
Written(o, v, done) ==
  [i \in DOMAIN files[v] \cup done |-> IF i \in done THEN keys[o][v][i] ELSE files[v][i]]

\* Mutant: the files that are there are written again.
WriteFilesOver(o, v) ==
  /\ OnVm(o, v, "write", "enable")
  /\ files' = [files EXCEPT ![v] = Written(o, v, Zipped(o, v))]
  /\ UNCHANGED <<enabled, paid, generated, failures, pc, want, keys, todo, stat, skipped>>

\* The loop fails if an item of it did, but tries them all.  That ends the
\* playbook on the VM, unless it is that the VM could not be reached: that is
\* ignored, and the next task run.
WriteFiles(o, v) ==
  /\ \/ /\ OnVm(o, v, "write", "enable")
        /\ files' = [files EXCEPT ![v] = Written(o, v, Missing(o, v))]
        /\ UNCHANGED failures
     \/ /\ Failure
        /\ \E next \in {"enable", "failed"} : OnVm(o, v, "write", next)
        /\ \E done \in SUBSET Missing(o, v) : files' = [files EXCEPT ![v] = Written(o, v, done)]
  /\ UNCHANGED <<enabled, paid, generated, pc, want, keys, todo, stat, skipped>>

\* A service without a file cannot be enabled.
EnableServices(o, v) ==
  LET asked == 1..Instances(o)
      there == asked \cap DOMAIN files[v]
      Enable(services) == enabled' = [enabled EXCEPT ![v] = @ \cup services]
  IN  /\ \/ /\ OnVm(o, v, "enable", IF there = asked THEN "done" ELSE "failed")
            /\ Enable(there) /\ UNCHANGED failures
         \/ /\ Failure
            /\ OnVm(o, v, "enable", "failed")
            /\ \E services \in SUBSET there : Enable(services)
      /\ UNCHANGED <<files, paid, generated, pc, want, keys, todo, stat, skipped>>

\* Ansible fails when it failed on some VM; the others were served.
EndPlaybook(o) ==
  /\ pc[o] = "playbook" /\ \A v \in Vms : task[o][v] \in {"done", "failed"}
  /\ End(o, "playbook")
  /\ UNCHANGED <<vms, paid, generated, failures, skipped>>

Next ==
  \E o \in Operators :
    \/ Begin(o) \/ FetchKeys(o) \/ GenerateKeys(o) \/ RefuseDownscale(o)
    \/ StartPaying(o) \/ SkipPaying(o) \/ PayKey(o) \/ StartPlaybook(o)
    \/ DealGivenKeys(o)
    \/ RefuseUnevenDeal(o) \/ DepositEnds(o) \/ FailsEarly(o) \/ PaymentFails(o)
    \/ EndPlaybook(o)
    \/ \E v \in Vms : StatFiles(o, v) \/ WriteFiles(o, v) \/ EnableServices(o, v)

Spec == Init /\ [][Next]_vars

-----------------------------------------------------------------------------
\* No uploader is set up on a wallet that was not paid in full, unless a
\* command was run without a funding key: the key map is paid before the
\* playbook sees it, whoever else is at work and whatever failed before
\* (provisioning.rs:1489-1520).
ServicesArePaid ==
  skipped \/ \A v \in Vms : \A i \in enabled[v] : paid[files[v][i]] = "both"

\* A key that the operators give in two different lists.
GivenTwice(w) == \E l1, l2 \in GivenLists : l1 # l2 /\ w \in Range(l1) \cap Range(l2)

\* Keys that were given are dealt in another order each time, so after a
\* failure a VM may be dealt one that another VM has.  So it may without one
\* where a deploy of one uploader per VM is repeated with more of them and the
\* list has more keys, but keeps the old ones: the same key is at another place.
MayBeShared(k) == \E w \in Wallets : k = GivenKey(w) /\ (failures > 0 \/ GivenTwice(w))

\* No two services use one wallet: uploaders that spend from the same wallet
\* make each other's transactions fail (cmd/clients.rs:233: a key is meant
\* "for each ANT instance").  A generated key has one place whatever fails, and
\* so has a given one, until something fails, if it is in one list only.
NoSharedKey ==
  \A v1, v2 \in Vms : \A i1 \in DOMAIN files[v1], i2 \in DOMAIN files[v2] :
    files[v1][i1] = files[v2][i2]
      => (v1 = v2 /\ i1 = i2) \/ MayBeShared(files[v1][i1])

\* A service file, once written, keeps its key: what a wallet holds is not
\* cut off by a later command, however the earlier ones ended.
FilesAreKept == [][\A v \in Vms : IsRestriction(files[v], files'[v])]_vars

InFiles(k) == \E v \in Vms : \E i \in DOMAIN files[v] : files[v][i] = k
InMemory(k) ==
  \E o \in Operators : pc[o] # "idle" /\ \E v \in Vms : k \in Range(keys[o][v])

\* If nothing ever failed, every key that was paid is in a service file or is
\* on its way there.
NoKeyLost == failures > 0 \/ \A k \in OwnKeys : paid[k] # "nothing" => InFiles(k) \/ InMemory(k)

\* "We need to make sure the secret keys are in order, the playbook expects
\* them in order" (funding.rs:336): on a VM that the playbook is done with,
\* service i uses the i-th key that was generated for it.
ServicesGetTheirKeys ==
  \A o \in Operators, v \in Vms :
    pc[o] = "playbook" /\ task[o][v] = "done"
      => \A i \in Zipped(o, v) : keys[o][v][i] \in OwnKeys => files[v][i] = keys[o][v][i]

\* It is so until something fails, when one operator is at work: the services
\* that are listed are then those whose files are written (funding.rs:282).
CalmServicesGetTheirKeys == failures > 0 \/ ServicesGetTheirKeys
=============================================================================
