-------------------------- MODULE UploadersProofs ---------------------------
(***************************************************************************)
(* For any number of operators, VMs and services: an uploader is set up    *)
(* only on a wallet that was paid.  The key map of a command is what links *)
(* the payment to the service file, so the invariant follows it: the part  *)
(* of it that is paid while the command pays, all of it when the playbook  *)
(* runs, and every file after that.                                        *)
(***************************************************************************)
EXTENDS Uploaders, FiniteSetTheorems, TLAPS

FilesPaid ==
  skipped \/ \A v \in Vms : \A i \in DOMAIN files[v] : paid[files[v][i]] = "both"

MapPaid(o) ==
  pc[o] = "playbook" =>
    \A v \in Vms : \A i \in DOMAIN keys[o][v] : paid[keys[o][v][i]] = "both"

PaidSoFar(o) ==
  pc[o] = "pay" =>
    \A p \in Places(o) : p \notin todo[o] => paid[keys[o][p[1]][p[2]]] = "both"

MapsPaid == skipped \/ \A o \in Operators : MapPaid(o) /\ PaidSoFar(o)

GivenPaid == \A k \in GivenKeys : paid[k] = "both"

HaveFiles ==
  \A v \in Vms :
    /\ enabled[v] \subseteq DOMAIN files[v]
    /\ \A o \in Operators : stat[o][v] \subseteq DOMAIN files[v]

PaidInv == TypeOK /\ FilesPaid /\ MapsPaid /\ GivenPaid /\ HaveFiles

-----------------------------------------------------------------------------
\* A key list is a sequence of keys of bounded length.
LEMMA KeyListsAreSeqs ==
  ASSUME NEW s
  PROVE  s \in KeyLists <=> s \in Seq(Keys) /\ Len(s) <= MaxServices
<1> USE BoundsAssumption
<1>1. ASSUME s \in KeyLists PROVE s \in Seq(Keys) /\ Len(s) <= MaxServices
  <2>1. PICK n \in 0..MaxServices : s \in [1..n -> Keys]
    BY <1>1 DEF KeyLists
  <2> QED BY <2>1
<1>2. ASSUME s \in Seq(Keys), Len(s) <= MaxServices PROVE s \in KeyLists
  <2>1. Len(s) \in 0..MaxServices /\ s \in [1..Len(s) -> Keys]
    BY <1>2
  <2> QED BY <2>1 DEF KeyLists
<1> QED BY <1>1, <1>2

\* What a key list is indexed by and holds.
LEMMA KeyListDomain ==
  ASSUME NEW s \in KeyLists
  PROVE  /\ Len(s) \in 0..MaxServices /\ DOMAIN s = 1..Len(s)
         /\ \A i \in 1..Len(s) : s[i] \in Keys
BY KeyListsAreSeqs, BoundsAssumption

\* What the files of a VM are indexed by and hold.
LEMMA KeyFilesAre ==
  ASSUME NEW f
  PROVE  f \in KeyFiles <=>
           /\ f = [i \in DOMAIN f |-> f[i]]
           /\ DOMAIN f \subseteq Services /\ \A i \in DOMAIN f : f[i] \in Keys
<1>1. ASSUME f \in KeyFiles
      PROVE  /\ f = [i \in DOMAIN f |-> f[i]]
             /\ DOMAIN f \subseteq Services /\ \A i \in DOMAIN f : f[i] \in Keys
  <2>1. PICK S \in SUBSET Services : f \in [S -> Keys]
    BY <1>1 DEF KeyFiles
  <2> QED BY <2>1
<1>2. ASSUME f = [i \in DOMAIN f |-> f[i]],
             DOMAIN f \subseteq Services, \A i \in DOMAIN f : f[i] \in Keys
      PROVE  f \in KeyFiles
  <2>1. f \in [DOMAIN f -> Keys]
    BY <1>2
  <2> QED BY <1>2, <2>1 DEF KeyFiles
<1> QED BY <1>1, <1>2

\* The map of a command that holds no keys, and the files of new VMs.
LEMMA NoKeysTyped ==
  /\ NoKeys \in [Vms -> KeyLists] /\ NoKeys \in [Vms -> KeyFiles]
  /\ \A v \in Vms : NoKeys[v] = << >> /\ DOMAIN NoKeys[v] = {}
<1>1. << >> \in Seq(Keys) /\ Len(<< >>) = 0 /\ DOMAIN << >> = {}
  OBVIOUS
<1>2. << >> \in KeyLists
  <2>1. PICK s \in Seq(Keys) : s = << >> /\ Len(s) = 0
    BY <1>1
  <2>2. Len(s) <= MaxServices
    BY <2>1, BoundsAssumption
  <2>3. s \in KeyLists
    BY <2>1, <2>2, KeyListsAreSeqs, Zenon
  <2> QED BY <2>1, <2>3
<1>3. << >> \in KeyFiles
  <2>1. << >> \in [{} -> Keys]
    BY <1>1
  <2>2. {} \in SUBSET Services
    OBVIOUS
  <2> QED BY <2>1, <2>2 DEF KeyFiles
<1> QED BY <1>1, <1>2, <1>3 DEF NoKeys

\* A list that gives n keys to each VM has one for every place.
LEMMA DealtKeys ==
  ASSUME NEW l \in GivenLists, NEW n \in Services, Len(l) = n * NumVms,
         NEW r \in Vms, NEW i \in 1..n
  PROVE  (r - 1) * n + i \in DOMAIN l /\ GivenKey(l[(r - 1) * n + i]) \in GivenKeys
<1> USE BoundsAssumption
<1>1. r - 1 \in Nat /\ n \in Nat /\ i \in Nat /\ r \in Nat /\ r <= NumVms /\ r >= 1
  BY DEF Vms, Services
<1> DEFINE j == (r - 1) * n + i
<1>2. (r - 1) * n \in Nat /\ (r - 1) * n + n = r * n
  <2>1. \A a, b \in Nat : a * b \in Nat
    OBVIOUS
  <2>2. \A a, b \in Int : (a - 1) * b + b = a * b
    OBVIOUS
  <2> QED BY <1>1, <2>1, <2>2
<1>3. r * n <= NumVms * n
  BY <1>1
<1>4. j \in Nat /\ j >= 1 /\ j <= n * NumVms
  BY <1>1, <1>2, <1>3
<1>5. l \in Seq(Wallets)
  BY GivenAssumption
<1>6. n * NumVms \in Nat
  BY <1>1
<1> HIDE DEF j
<1>7. j \in 1..Len(l)
  BY <1>4, <1>6
<1>8. j \in DOMAIN l /\ l[j] \in Wallets
  BY <1>5, <1>7
<1> QED BY <1>8 DEF GivenKeys, j

\* What PaidInv says of the keys a command holds.
LEMMA KeysHeld ==
  ASSUME TypeOK, NEW o \in Operators, NEW v \in Vms
  PROVE  /\ keys[o][v] \in KeyLists /\ files[v] \in KeyFiles
         /\ \A i \in DOMAIN keys[o][v] : keys[o][v][i] \in Keys
         /\ \A i \in DOMAIN files[v] : files[v][i] \in Keys
         /\ \A i \in DOMAIN keys[o][v] : <<v, i>> \in Places(o)
<1>1. keys[o][v] \in KeyLists /\ files[v] \in KeyFiles
  BY DEF TypeOK
<1>2. \A i \in DOMAIN keys[o][v] : i \in 1..MaxServices /\ i <= Len(keys[o][v])
  BY <1>1, KeyListDomain, BoundsAssumption
<1> QED BY <1>1, <1>2, KeyListDomain, KeyFilesAre DEF Places

\* What is in the files of a VM is a key of one of its services.
LEMMA FilesHeld ==
  ASSUME TypeOK, NEW v \in Vms
  PROVE  DOMAIN files[v] \subseteq Services /\ \A i \in DOMAIN files[v] : files[v][i] \in Keys
<1>1. files[v] \in KeyFiles
  BY DEF TypeOK
<1> QED BY <1>1, KeyFilesAre

\* At first there are no files and no maps, and given keys hold funds.
LEMMA InitPaid == Init => PaidInv
<1> SUFFICES ASSUME Init PROVE PaidInv
  OBVIOUS
<1> USE BoundsAssumption DEF Init
<1>1. TypeOK
  <2>1. files \in [Vms -> KeyFiles] /\ keys \in [Operators -> [Vms -> KeyLists]]
    BY NoKeysTyped
  <2>2. /\ enabled \in [Vms -> SUBSET Services]
        /\ generated \in 0..MaxGenerated /\ failures \in 0..MaxFailures
        /\ want \in [Operators -> 0..MaxServices]
        /\ stat \in [Operators -> [Vms -> SUBSET Services]]
    OBVIOUS
  <2>3. /\ paid \in [Keys -> {"nothing", "tokens", "both"}]
        /\ task \in [Operators -> [Vms -> Tasks]]
    BY DEF Tasks
  <2>4. todo \in [Operators -> SUBSET (Vms \X (0..MaxServices))]
    OBVIOUS
  <2> QED BY <2>1, <2>2, <2>3, <2>4 DEF TypeOK
<1>2. \A v \in Vms : DOMAIN files[v] = {}
  BY NoKeysTyped
<1>3. FilesPaid
  BY <1>2 DEF FilesPaid
<1>4. MapsPaid
  BY DEF MapsPaid, MapPaid, PaidSoFar
<1>5. HaveFiles
  BY <1>2 DEF HaveFiles
<1>6. GivenPaid
  BY DEF GivenPaid, Keys
<1> QED BY <1>1, <1>3, <1>4, <1>5, <1>6 DEF PaidInv

-----------------------------------------------------------------------------
\* Payments are not taken back and commands do not touch each other's maps,
\* so a step of `o` has to be looked at for `o` and for the files only.
LEMMA StepKeepsInv ==
  ASSUME PaidInv, NEW o \in Operators, TypeOK',
         skipped' \/ ~skipped,
         \A k \in Keys : paid[k] = "both" => paid'[k] = "both",
         \A p \in Operators : p # o =>
           pc'[p] = pc[p] /\ keys'[p] = keys[p] /\ todo'[p] = todo[p],
         skipped' \/ (MapPaid(o)' /\ PaidSoFar(o)'), FilesPaid', HaveFiles'
  PROVE  PaidInv'
<1> USE DEF PaidInv
<1>1. GivenPaid'
  BY DEF GivenPaid, Keys
<1>2. ASSUME ~skipped', NEW p \in Operators PROVE MapPaid(p)' /\ PaidSoFar(p)'
  <2>1. CASE p = o
    BY <1>2, <2>1
  <2>2. CASE p # o
    <3>1. pc'[p] = pc[p] /\ keys'[p] = keys[p] /\ todo'[p] = todo[p]
      BY <2>2
    <3>2. MapPaid(p) /\ PaidSoFar(p)
      BY <1>2 DEF MapsPaid
    <3>3. MapPaid(p)'
      BY <3>1, <3>2, KeysHeld DEF MapPaid
    <3>4. PaidSoFar(p)'
      <4> SUFFICES ASSUME pc[p] = "pay", NEW q \in Places(p), q \notin todo[p]
                   PROVE  paid'[keys[p][q[1]][q[2]]] = "both"
        BY <3>1 DEF PaidSoFar, Places
      <4>1. keys[p][q[1]][q[2]] \in Keys
        BY KeysHeld, KeyListDomain, BoundsAssumption DEF Places
      <4> QED BY <3>2, <4>1 DEF PaidSoFar
    <3> QED BY <3>3, <3>4
  <2> QED BY <2>1, <2>2
<1>3. MapsPaid'
  BY <1>2 DEF MapsPaid
<1> QED BY <1>1, <1>3

\* A command that ends leaves the invariant, whatever it paid last.
LEMMA EndKeepsInv ==
  ASSUME PaidInv, NEW o \in Operators, NEW from, End(o, from),
         UNCHANGED <<vms, generated, skipped>>, failures' \in 0..MaxFailures,
         paid' \in [Keys -> {"nothing", "tokens", "both"}],
         \A k \in Keys : paid[k] = "both" => paid'[k] = "both"
  PROVE  PaidInv'
<1> USE DEF PaidInv
<1>1. TypeOK'
  BY NoKeysTyped, BoundsAssumption DEF TypeOK, End, SetPc, vms, Tasks
<1>2. \A p \in Operators : p # o =>
        pc'[p] = pc[p] /\ keys'[p] = keys[p] /\ todo'[p] = todo[p] /\ stat'[p] = stat[p]
  BY DEF End, SetPc, TypeOK
<1>3. pc'[o] = "idle" /\ stat'[o] = [v \in Vms |-> {}]
  BY DEF End, SetPc, TypeOK
<1>4. FilesPaid'
  BY FilesHeld DEF FilesPaid, vms
<1>5. MapPaid(o)' /\ PaidSoFar(o)'
  BY <1>3 DEF MapPaid, PaidSoFar
<1>6. HaveFiles'
  <2>1. files' = files /\ enabled' = enabled
    BY DEF vms
  <2>2. \A v \in Vms, p \in Operators : stat'[p][v] \subseteq DOMAIN files[v]
    BY <1>2, <1>3 DEF HaveFiles
  <2> QED BY <2>1, <2>2 DEF HaveFiles
<1> QED BY <1>1, <1>2, <1>4, <1>5, <1>6, StepKeepsInv

\* Before the playbook the VMs are left alone.
LEMMA VmsKept ==
  ASSUME PaidInv, UNCHANGED <<vms, stat>>, skipped' \/ ~skipped,
         \A k \in Keys : paid[k] = "both" => paid'[k] = "both"
  PROVE  FilesPaid' /\ HaveFiles'
<1>1. files' = files /\ enabled' = enabled /\ stat' = stat
  BY DEF vms
<1>2. FilesPaid'
  <2> SUFFICES ASSUME ~skipped', NEW v \in Vms, NEW i \in DOMAIN files[v]
               PROVE  paid'[files[v][i]] = "both"
    BY <1>1 DEF FilesPaid
  <2>1. files[v][i] \in Keys
    BY FilesHeld DEF PaidInv
  <2>2. paid[files[v][i]] = "both"
    BY DEF FilesPaid, PaidInv
  <2> QED BY <2>1, <2>2
<1>3. HaveFiles'
  BY <1>1 DEF HaveFiles, PaidInv
<1> QED BY <1>2, <1>3

-----------------------------------------------------------------------------
(***************************************************************************)
(* The steps before the playbook.                                          *)
(***************************************************************************)
\* A command that begins has no map yet.
LEMMA BeginKeeps ==
  ASSUME PaidInv, NEW o \in Operators, Begin(o)
  PROVE  PaidInv'
<1> USE DEF Begin, PaidInv
<1>1. TypeOK'
  BY DEF TypeOK, SetPc, vms
<1>2. pc'[o] \in {"fetch", "deal"} /\ \A p \in Operators : p # o => pc'[p] = pc[p]
  BY DEF TypeOK, SetPc
<1>3. MapPaid(o)' /\ PaidSoFar(o)'
  BY <1>2 DEF MapPaid, PaidSoFar
<1> QED BY <1>1, <1>2, <1>3, VmsKept, StepKeepsInv

\* There are no more services than there may be.
LEMMA CountsFit ==
  ASSUME NEW S \in SUBSET Services PROVE Cardinality(S) \in 0..MaxServices
<1>1. IsFiniteSet(Services) /\ Cardinality(Services) = MaxServices
  BY FS_Interval, BoundsAssumption DEF Services
<1>2. IsFiniteSet(S) /\ Cardinality(S) <= Cardinality(Services)
  BY <1>1, FS_Subset
<1>3. Cardinality(S) \in Nat
  BY <1>2, FS_CardinalityType
<1> QED BY <1>1, <1>2, <1>3, BoundsAssumption

\* The keys that are read are not paid yet, and the playbook is far.
LEMMA FetchKeeps ==
  ASSUME PaidInv, NEW o \in Operators, FetchKeys(o)
  PROVE  PaidInv'
<1> USE DEF FetchKeys, PaidInv
<1>1. \A v \in Vms : ListedKeys(v) \in KeyLists
  <2> SUFFICES ASSUME NEW v \in Vms PROVE ListedKeys(v) \in KeyLists
    OBVIOUS
  <2>1. Cardinality(enabled[v]) \in 0..MaxServices
    BY CountsFit DEF TypeOK
  <2>2. \A i \in Listed(v) : files[v][i] \in Keys
    BY FilesHeld
  <2>3. ListedKeys(v) \in [1..Cardinality(enabled[v]) -> Keys]
    BY <2>2 DEF ListedKeys, Listed
  <2> QED BY <2>1, <2>3 DEF KeyLists
<1>2. keys' \in [Operators -> [Vms -> KeyLists]]
  BY <1>1 DEF TypeOK
<1>3. todo' \in [Operators -> SUBSET (Vms \X (0..MaxServices))]
  <2>1. Vms \X {0} \in SUBSET (Vms \X (0..MaxServices))
    BY BoundsAssumption
  <2> QED BY <2>1 DEF TypeOK
<1>4. TypeOK'
  BY <1>2, <1>3 DEF TypeOK, SetPc, vms
<1>5. pc'[o] = "generate" /\ \A p \in Operators : p # o =>
        pc'[p] = pc[p] /\ keys'[p] = keys[p] /\ todo'[p] = todo[p]
  BY DEF TypeOK, SetPc
<1>6. MapPaid(o)' /\ PaidSoFar(o)'
  BY <1>5 DEF MapPaid, PaidSoFar
<1> QED BY <1>4, <1>5, <1>6, VmsKept, StepKeepsInv

\* Made up keys fill the map up to the number that was asked for.
LEMMA GenerateKeeps ==
  ASSUME PaidInv, NEW o \in Operators, GenerateKeys(o)
  PROVE  PaidInv'
<1> USE DEF PaidInv
<1>1. PICK v \in Vms :
        LET missing == want[o] - Len(keys[o][v])
        IN  /\ missing >= 0
            /\ generated + missing <= MaxGenerated
            /\ keys' = [keys EXCEPT ![o][v] = @ \o [i \in 1..missing |-> OwnKey(generated + i)]]
            /\ generated' = generated + missing
            /\ todo' = [todo EXCEPT ![o] = @ \ {<<v, 0>>}]
  BY DEF GenerateKeys
<1> DEFINE missing == want[o] - Len(keys[o][v])
           new == [i \in 1..missing |-> OwnKey(generated + i)]
<1>2. keys[o][v] \in Seq(Keys) /\ Len(keys[o][v]) \in 0..MaxServices
  BY KeysHeld, KeyListsAreSeqs, BoundsAssumption
<1>3. /\ want[o] \in 0..MaxServices /\ missing \in Nat /\ generated \in 0..MaxGenerated
      /\ generated + missing \in 0..MaxGenerated
  BY <1>1, <1>2, BoundsAssumption DEF TypeOK
<1>4. new \in Seq(Keys) /\ Len(new) = missing
  <2>1. \A i \in 1..missing : generated + i \in 1..MaxGenerated
    BY <1>3, BoundsAssumption
  <2>2. \A i \in 1..missing : OwnKey(generated + i) \in Keys
    BY <2>1 DEF Keys, OwnKeys
  <2> QED BY <1>3, <2>2
<1>5. keys[o][v] \o new \in KeyLists
  <2> HIDE DEF new
  <2>1. keys[o][v] \o new \in Seq(Keys) /\ Len(keys[o][v] \o new) = Len(keys[o][v]) + missing
    BY <1>2, <1>4
  <2>2. Len(keys[o][v] \o new) <= MaxServices
    BY <1>2, <1>3, <2>1, BoundsAssumption
  <2> QED BY <2>1, <2>2, KeyListsAreSeqs
<1>6. keys' \in [Operators -> [Vms -> KeyLists]]
  <2> HIDE DEF new
  <2>1. keys' = [keys EXCEPT ![o][v] = keys[o][v] \o new]
    BY <1>1 DEF new
  <2> QED BY <1>5, <2>1 DEF TypeOK
<1>7. TypeOK'
  BY <1>1, <1>3, <1>6 DEF TypeOK, GenerateKeys, vms
<1>8. pc'[o] = "generate" /\ \A p \in Operators : p # o =>
        pc'[p] = pc[p] /\ keys'[p] = keys[p] /\ todo'[p] = todo[p]
  BY <1>1 DEF TypeOK, GenerateKeys
<1>9. MapPaid(o)' /\ PaidSoFar(o)'
  BY <1>8 DEF MapPaid, PaidSoFar
<1>10. UNCHANGED <<vms, stat>> /\ paid' = paid /\ skipped' = skipped
  BY DEF GenerateKeys
<1> QED BY <1>7, <1>8, <1>9, <1>10, VmsKept, StepKeepsInv

\* At first every place of the map is still to be paid.
LEMMA StartPayingKeeps ==
  ASSUME PaidInv, NEW o \in Operators, StartPaying(o)
  PROVE  PaidInv'
<1> USE DEF StartPaying, PaidInv
<1>1. Places(o) \in SUBSET (Vms \X (0..MaxServices))
  BY BoundsAssumption DEF Places
<1>2. TypeOK'
  BY <1>1 DEF TypeOK, SetPc, vms
<1>3. /\ pc'[o] = "pay" /\ todo'[o] = Places(o) /\ Places(o)' = Places(o)
      /\ \A p \in Operators : p # o => pc'[p] = pc[p] /\ todo'[p] = todo[p]
  BY DEF TypeOK, SetPc, Places
<1>4. MapPaid(o)' /\ PaidSoFar(o)'
  BY <1>3 DEF MapPaid, PaidSoFar
<1> QED BY <1>2, <1>3, <1>4, VmsKept, StepKeepsInv

\* A command without a funding key is the exception the property names.
LEMMA SkipPayingKeeps ==
  ASSUME PaidInv, NEW o \in Operators, SkipPaying(o)
  PROVE  PaidInv'
<1> USE DEF SkipPaying, PaidInv
<1>1. TypeOK'
  BY DEF TypeOK, SetPc, vms, memory
<1>2. UNCHANGED <<vms, stat>> /\ paid' = paid /\ skipped' = TRUE /\ keys' = keys /\ todo' = todo
  BY DEF memory
<1>3. \A p \in Operators : p # o => pc'[p] = pc[p]
  BY DEF TypeOK, SetPc
<1> QED BY <1>1, <1>2, <1>3, VmsKept, StepKeepsInv

\* A place leaves the list of those to be paid once its key is paid.
LEMMA PayKeyKeeps ==
  ASSUME PaidInv, NEW o \in Operators, PayKey(o)
  PROVE  PaidInv'
<1> USE DEF PaidInv
<1>1. PICK p \in Places(o) :
        LET k == keys[o][p[1]][p[2]]
        IN  \/ /\ paid' = [paid EXCEPT ![k] = "both"]
               /\ todo' = [todo EXCEPT ![o] = @ \ {p}]
               /\ UNCHANGED <<failures, pc, want, keys, task, stat>>
            \/ /\ Failure
               /\ paid' = [paid EXCEPT ![k] = IF @ = "nothing" THEN "tokens" ELSE @]
               /\ End(o, "pay")
  BY DEF PayKey
<1> DEFINE k == keys[o][p[1]][p[2]]
<1>2. k \in Keys
  BY KeysHeld, KeyListDomain, BoundsAssumption DEF Places
<1>3. pc[o] = "pay" /\ UNCHANGED <<vms, generated, skipped>>
  BY DEF PayKey
<1>4. /\ paid' \in [Keys -> {"nothing", "tokens", "both"}]
      /\ \A j \in Keys : paid[j] = "both" => paid'[j] = "both"
  BY <1>1, <1>2 DEF TypeOK
<1>5. CASE End(o, "pay") /\ Failure
  <2>1. failures' \in 0..MaxFailures
    BY <1>5, BoundsAssumption DEF Failure, TypeOK
  <2> QED BY <1>3, <1>4, <1>5, <2>1, EndKeepsInv
<1>6. CASE /\ paid' = [paid EXCEPT ![k] = "both"]
           /\ todo' = [todo EXCEPT ![o] = @ \ {p}]
           /\ UNCHANGED <<failures, pc, want, keys, task, stat>>
  <2>1. TypeOK'
    BY <1>3, <1>4, <1>6 DEF TypeOK, vms
  <2>2. /\ pc' = pc /\ keys' = keys /\ Places(o)' = Places(o)
        /\ todo'[o] = todo[o] \ {p}
        /\ \A q \in Operators : q # o => todo'[q] = todo[q]
    BY <1>6 DEF TypeOK, Places
  <2>3. MapPaid(o)'
    BY <1>3, <2>2 DEF MapPaid
  <2>4. ASSUME ~skipped PROVE PaidSoFar(o)'
    <3> SUFFICES ASSUME NEW q \in Places(o), q \notin todo[o] \ {p}
                 PROVE  paid'[keys[o][q[1]][q[2]]] = "both"
      BY <2>2 DEF PaidSoFar
    <3>1. CASE q = p
      BY <1>2, <1>6, <3>1 DEF TypeOK
    <3>2. CASE q # p
      <4>1. keys[o][q[1]][q[2]] \in Keys
        BY KeysHeld, KeyListDomain, BoundsAssumption DEF Places
      <4>2. paid[keys[o][q[1]][q[2]]] = "both"
        BY <1>3, <2>4, <3>2 DEF MapsPaid, PaidSoFar
      <4> QED BY <1>4, <4>1, <4>2
    <3> QED BY <3>1, <3>2
  <2>5. skipped' \/ (MapPaid(o)' /\ PaidSoFar(o)')
    BY <1>3, <2>3, <2>4
  <2>6. FilesPaid' /\ HaveFiles'
    BY <1>3, <1>4, <1>6, VmsKept
  <2> QED BY <1>3, <1>4, <2>1, <2>2, <2>5, <2>6, StepKeepsInv
<1> QED BY <1>1, <1>5, <1>6

\* With no place left to pay, the whole map is paid.
LEMMA StartPlaybookKeeps ==
  ASSUME PaidInv, NEW o \in Operators, StartPlaybook(o)
  PROVE  PaidInv'
<1> USE DEF StartPlaybook, PaidInv
<1>1. TypeOK'
  BY DEF TypeOK, SetPc, vms, Tasks
<1>2. /\ pc[o] = "pay" /\ todo[o] = {} /\ pc'[o] = "playbook"
      /\ keys' = keys /\ paid' = paid /\ \A p \in Operators : p # o => pc'[p] = pc[p]
  BY DEF TypeOK, SetPc
<1>3. PaidSoFar(o)'
  BY <1>2 DEF PaidSoFar
<1>4. ASSUME ~skipped PROVE MapPaid(o)'
  <2> SUFFICES ASSUME NEW v \in Vms, NEW i \in DOMAIN keys[o][v]
               PROVE  paid[keys[o][v][i]] = "both"
    BY <1>2 DEF MapPaid
  <2>1. <<v, i>> \in Places(o)
    BY KeysHeld
  <2>2. paid[keys[o][<<v, i>>[1]][<<v, i>>[2]]] = "both"
    BY <1>2, <1>4, <2>1 DEF MapsPaid, PaidSoFar
  <2> QED BY <2>2
<1>5. skipped' \/ (MapPaid(o)' /\ PaidSoFar(o)')
  BY <1>3, <1>4
<1> QED BY <1>1, <1>2, <1>5, VmsKept, StepKeepsInv

\* Keys that are handed to a command hold funds already.
LEMMA DealKeeps ==
  ASSUME PaidInv, NEW o \in Operators, DealGivenKeys(o)
  PROVE  PaidInv'
<1> USE DEF PaidInv
<1>1. PICK l \in GivenLists, n \in Services, order \in [Vms -> Vms] :
        /\ Deals(o, l, n)
        /\ SetPc(o, "deal", "playbook")
        /\ keys' = [keys EXCEPT ![o] =
             [v \in Vms |-> [i \in 1..n |-> GivenKey(l[(order[v] - 1) * n + i])]]]
        /\ task' = [task EXCEPT ![o] = [v \in Vms |-> "stat"]]
        /\ UNCHANGED <<vms, paid, generated, failures, want, todo, stat, skipped>>
  BY DEF DealGivenKeys
<1> DEFINE dealt(v) == [i \in 1..n |-> GivenKey(l[(order[v] - 1) * n + i])]
<1>2. n \in 0..MaxServices
  BY BoundsAssumption DEF Services
<1>3. ASSUME NEW v \in Vms
      PROVE  /\ DOMAIN dealt(v) = 1..n
             /\ \A i \in 1..n : dealt(v)[i] \in GivenKeys
  <2> SUFFICES ASSUME NEW i \in 1..n PROVE GivenKey(l[(order[v] - 1) * n + i]) \in GivenKeys
    OBVIOUS
  <2>1. order[v] \in Vms /\ Len(l) = n * NumVms
    BY <1>1 DEF Deals
  <2> QED BY <2>1, DealtKeys
<1>4. ASSUME NEW v \in Vms PROVE dealt(v) \in KeyLists
  <2>1. \A i \in 1..n : dealt(v)[i] \in Keys
    BY <1>3 DEF Keys
  <2>2. dealt(v) = [i \in 1..n |-> dealt(v)[i]]
    OBVIOUS
  <2> HIDE DEF dealt
  <2>3. dealt(v) \in [1..n -> Keys]
    BY <2>1, <2>2
  <2> QED BY <1>2, <2>3 DEF KeyLists
<1>5. /\ keys'[o] = [v \in Vms |-> dealt(v)] /\ pc'[o] = "playbook"
      /\ keys' = [keys EXCEPT ![o] = [v \in Vms |-> dealt(v)]]
      /\ paid' = paid /\ skipped' = skipped /\ UNCHANGED <<vms, stat, todo>>
      /\ \A p \in Operators : p # o => pc'[p] = pc[p] /\ keys'[p] = keys[p]
  BY <1>1 DEF TypeOK, SetPc
<1> HIDE DEF dealt
<1>6. keys' \in [Operators -> [Vms -> KeyLists]]
  BY <1>4, <1>5 DEF TypeOK
<1>7. TypeOK'
  BY <1>1, <1>6 DEF TypeOK, SetPc, vms, Tasks
<1>8. MapPaid(o)' /\ PaidSoFar(o)'
  <2>1. \A v \in Vms : keys'[o][v] = dealt(v)
    BY <1>5
  <2>2. \A v \in Vms : \A i \in DOMAIN dealt(v) : paid[dealt(v)[i]] = "both"
    BY <1>3 DEF GivenPaid
  <2> QED BY <1>5, <2>1, <2>2 DEF MapPaid, PaidSoFar
<1> QED BY <1>5, <1>7, <1>8, VmsKept, StepKeepsInv

-----------------------------------------------------------------------------
(***************************************************************************)
(* The playbook.                                                           *)
(***************************************************************************)
\* The playbook finds the files there are.
LEMMA StatKeeps ==
  ASSUME PaidInv, NEW o \in Operators, NEW v \in Vms, StatFiles(o, v)
  PROVE  PaidInv'
<1> USE DEF StatFiles, OnVm, PaidInv
<1>1. DOMAIN files[v] \in SUBSET Services
  BY FilesHeld
<1>2. TypeOK'
  BY <1>1 DEF TypeOK, vms, Tasks
<1>3. pc' = pc /\ keys' = keys /\ todo' = todo /\ paid' = paid /\ skipped' = skipped /\ vms' = vms
  OBVIOUS
<1>4. HaveFiles'
  <2>1. \A w \in Vms, p \in Operators :
          stat'[p][w] = IF p = o /\ w = v THEN DOMAIN files[v] ELSE stat[p][w]
    BY DEF TypeOK
  <2> QED BY <1>3, <2>1 DEF HaveFiles, vms
<1>5. FilesPaid'
  BY <1>3 DEF FilesPaid, vms
<1>6. skipped' \/ (MapPaid(o)' /\ PaidSoFar(o)')
  BY <1>3 DEF MapsPaid, MapPaid, PaidSoFar, Places
<1> QED BY <1>2, <1>3, <1>4, <1>5, <1>6, StepKeepsInv

\* What the playbook leaves in the files of a VM: the files it did not find
\* come from its key map, the others are as they were.
LEMMA WrittenFiles ==
  ASSUME TypeOK, NEW o \in Operators, NEW v \in Vms, NEW done \in SUBSET Missing(o, v)
  PROVE  /\ Written(o, v, done) \in KeyFiles
         /\ DOMAIN Written(o, v, done) = DOMAIN files[v] \cup done
         /\ \A i \in done : i \in DOMAIN keys[o][v] /\ Written(o, v, done)[i] = keys[o][v][i]
         /\ \A i \in DOMAIN files[v] \ done : Written(o, v, done)[i] = files[v][i]
<1>1. /\ DOMAIN files[v] \subseteq Services
      /\ \A i \in DOMAIN files[v] : files[v][i] \in Keys
      /\ \A i \in DOMAIN keys[o][v] : keys[o][v][i] \in Keys
  BY KeysHeld, FilesHeld
<1>2. done \subseteq DOMAIN keys[o][v]
  BY DEF Missing, Zipped
<1>3. DOMAIN keys[o][v] \subseteq Services
  BY KeysHeld, KeyListDomain, BoundsAssumption DEF Services
<1>4. /\ DOMAIN Written(o, v, done) = DOMAIN files[v] \cup done
      /\ \A i \in DOMAIN files[v] \cup done :
           Written(o, v, done)[i] = IF i \in done THEN keys[o][v][i] ELSE files[v][i]
      /\ Written(o, v, done) = [i \in DOMAIN Written(o, v, done) |-> Written(o, v, done)[i]]
  BY DEF Written
<1> DEFINE f == Written(o, v, done)
<1> HIDE DEF f
<1>5. f = [i \in DOMAIN f |-> f[i]] /\ DOMAIN f \subseteq Services
  BY <1>1, <1>2, <1>3, <1>4 DEF f
<1>6. \A i \in DOMAIN f : f[i] \in Keys
  BY <1>1, <1>2, <1>4 DEF f
<1>7. f \in KeyFiles
  BY <1>5, <1>6, KeyFilesAre
<1> QED BY <1>2, <1>4, <1>7 DEF f

\* The playbook writes files from a paid map, and removes none.
LEMMA WriteKeeps ==
  ASSUME PaidInv, NEW o \in Operators, NEW v \in Vms, WriteFiles(o, v)
  PROVE  PaidInv'
<1> USE BoundsAssumption DEF PaidInv
<1>1. PICK done \in SUBSET Missing(o, v) : files' = [files EXCEPT ![v] = Written(o, v, done)]
  BY DEF WriteFiles
<1>2. /\ pc[o] = "playbook" /\ failures' \in 0..MaxFailures
      /\ task' \in [Operators -> [Vms -> Tasks]]
      /\ UNCHANGED <<enabled, paid, generated, pc, want, keys, todo, stat, skipped>>
  <2>1. failures' = failures \/ Failure
    BY DEF WriteFiles
  <2>2. failures' \in 0..MaxFailures
    BY <2>1 DEF Failure, TypeOK
  <2>3. \E to \in Tasks : OnVm(o, v, "write", to)
    BY DEF WriteFiles, Tasks
  <2>4. task' \in [Operators -> [Vms -> Tasks]]
    BY <2>3 DEF OnVm, TypeOK
  <2> QED BY <2>2, <2>3, <2>4 DEF WriteFiles, OnVm
<1>3. /\ Written(o, v, done) \in KeyFiles
      /\ DOMAIN Written(o, v, done) = DOMAIN files[v] \cup done
      /\ \A i \in done : i \in DOMAIN keys[o][v] /\ Written(o, v, done)[i] = keys[o][v][i]
      /\ \A i \in DOMAIN files[v] \ done : Written(o, v, done)[i] = files[v][i]
  BY WrittenFiles
<1>4. files' \in [Vms -> KeyFiles]
  BY <1>1, <1>3 DEF TypeOK
<1>5. TypeOK'
  BY <1>2, <1>4 DEF TypeOK
<1>6. \A w \in Vms : files'[w] = IF w = v THEN Written(o, v, done) ELSE files[w]
  BY <1>1 DEF TypeOK
<1>7. FilesPaid'
  <2>1. SUFFICES ASSUME ~skipped, NEW w \in Vms, NEW i \in DOMAIN files'[w]
                 PROVE  paid[files'[w][i]] = "both"
    BY <1>2 DEF FilesPaid
  <2>2. CASE w = v /\ i \in done
    BY <1>2, <1>3, <1>6, <2>1, <2>2 DEF MapsPaid, MapPaid
  <2>3. CASE ~(w = v /\ i \in done)
    BY <1>3, <1>6, <2>1, <2>3 DEF FilesPaid
  <2> QED BY <2>2, <2>3
<1>8. HaveFiles'
  BY <1>2, <1>3, <1>6 DEF HaveFiles
<1>9. skipped' \/ (MapPaid(o)' /\ PaidSoFar(o)')
  BY <1>2 DEF MapsPaid, MapPaid, PaidSoFar, Places
<1> QED BY <1>2, <1>5, <1>7, <1>8, <1>9, StepKeepsInv

\* The playbook enables only services that have a file.
LEMMA EnableKeeps ==
  ASSUME PaidInv, NEW o \in Operators, NEW v \in Vms, EnableServices(o, v)
  PROVE  PaidInv'
<1> USE BoundsAssumption DEF PaidInv
<1>1. DOMAIN files[v] \subseteq Services /\ enabled[v] \subseteq DOMAIN files[v]
  BY FilesHeld DEF HaveFiles
<1>2. PICK services \in SUBSET DOMAIN files[v] :
        enabled' = [enabled EXCEPT ![v] = enabled[v] \cup services]
  BY DEF EnableServices
<1>3. /\ failures' \in 0..MaxFailures /\ task' \in [Operators -> [Vms -> Tasks]]
      /\ UNCHANGED <<files, paid, generated, pc, want, keys, todo, stat, skipped>>
  <2>1. failures' = failures \/ Failure
    BY DEF EnableServices
  <2>2. failures' \in 0..MaxFailures
    BY <2>1 DEF Failure, TypeOK
  <2>3. \E to \in Tasks : OnVm(o, v, "enable", to)
    BY DEF EnableServices, Tasks
  <2>4. task' \in [Operators -> [Vms -> Tasks]]
    BY <2>3 DEF OnVm, TypeOK
  <2> QED BY <2>2, <2>4 DEF EnableServices
<1>4. \A w \in Vms : enabled'[w] = IF w = v THEN enabled[v] \cup services ELSE enabled[w]
  BY <1>2 DEF TypeOK
<1>5. enabled' \in [Vms -> SUBSET Services]
  BY <1>1, <1>2 DEF TypeOK
<1>6. TypeOK'
  BY <1>3, <1>5 DEF TypeOK
<1>7. HaveFiles'
  BY <1>1, <1>3, <1>4 DEF HaveFiles
<1>8. FilesPaid'
  BY <1>3 DEF FilesPaid
<1>9. skipped' \/ (MapPaid(o)' /\ PaidSoFar(o)')
  BY <1>3 DEF MapsPaid, MapPaid, PaidSoFar, Places
<1> QED BY <1>3, <1>6, <1>7, <1>8, <1>9, StepKeepsInv

-----------------------------------------------------------------------------
(***************************************************************************)
(* The theorems.                                                           *)
(***************************************************************************)
\* The steps that do nothing but end a command.
LEMMA EndingKeeps ==
  ASSUME PaidInv, NEW o \in Operators,
         \/ RefuseDownscale(o) \/ RefuseUnevenDeal(o) \/ DepositEnds(o)
         \/ FailsEarly(o) \/ PaymentFails(o) \/ EndPlaybook(o)
  PROVE  PaidInv'
<1>1. \E from : End(o, from)
  BY DEF RefuseDownscale, RefuseUnevenDeal, DepositEnds, FailsEarly, PaymentFails, EndPlaybook
<1>2. UNCHANGED <<vms, paid, generated, skipped>>
  BY DEF RefuseDownscale, RefuseUnevenDeal, DepositEnds, FailsEarly, PaymentFails, EndPlaybook
<1>3. failures' = failures \/ Failure
  BY DEF RefuseDownscale, RefuseUnevenDeal, DepositEnds, FailsEarly, PaymentFails, EndPlaybook
<1>4. failures' \in 0..MaxFailures
  BY <1>3, BoundsAssumption DEF Failure, PaidInv, TypeOK
<1>5. paid' \in [Keys -> {"nothing", "tokens", "both"}]
  BY <1>2 DEF PaidInv, TypeOK
<1> QED BY <1>1, <1>2, <1>4, <1>5, EndKeepsInv

\* Whatever the operators do, what is in a service file was paid, and what a
\* playbook holds was paid before it started (provisioning.rs:1489-1520).
THEOREM PaidInvariant == Spec => []PaidInv
<1>1. ASSUME PaidInv, [Next]_vars PROVE PaidInv'
  <2>1. CASE UNCHANGED vars
    BY <1>1, <2>1 DEF vars, vms, memory, PaidInv, TypeOK, FilesPaid, MapsPaid, MapPaid,
      PaidSoFar, Places, GivenPaid, HaveFiles
  <2>2. CASE Next
    <3>1. PICK o \in Operators :
            \/ Begin(o) \/ FetchKeys(o) \/ GenerateKeys(o) \/ RefuseDownscale(o)
            \/ StartPaying(o) \/ SkipPaying(o) \/ PayKey(o) \/ StartPlaybook(o)
            \/ DealGivenKeys(o)
            \/ RefuseUnevenDeal(o) \/ DepositEnds(o) \/ FailsEarly(o) \/ PaymentFails(o)
            \/ EndPlaybook(o)
            \/ \E v \in Vms : StatFiles(o, v) \/ WriteFiles(o, v) \/ EnableServices(o, v)
      BY <2>2 DEF Next
    <3> QED BY <1>1, <3>1, BeginKeeps, FetchKeeps, GenerateKeeps, StartPayingKeeps,
          SkipPayingKeeps, PayKeyKeeps, StartPlaybookKeeps, DealKeeps, StatKeeps,
          WriteKeeps, EnableKeeps, EndingKeeps
  <2> QED BY <1>1, <2>1, <2>2
<1> QED BY <1>1, InitPaid, PTL DEF Spec

\* The variables of the module keep their types: no VM gets more services than
\* a command may ask for, and no more keys are made up than there may be.
THEOREM TypeCorrect == Spec => []TypeOK
<1>1. PaidInv => TypeOK
  BY DEF PaidInv
<1> QED BY <1>1, PaidInvariant, PTL

\* However many operators provision however many VMs, and wherever they fail,
\* an uploader is set up only on a wallet that was paid in full.
THEOREM PaidServices == Spec => []ServicesArePaid
<1>1. PaidInv => ServicesArePaid
  BY DEF ServicesArePaid, PaidInv, FilesPaid, HaveFiles
<1> QED BY <1>1, PaidInvariant, PTL
=============================================================================
