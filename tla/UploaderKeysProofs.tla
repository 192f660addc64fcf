------------------------ MODULE UploaderKeysProofs -------------------------
(***************************************************************************)
(* Where the keys of the uploaders are.  For any number of operators: a    *)
(* key that a command made up is meant for one service of one VM, wherever *)
(* it shows up.  For one operator: a service file keeps its key, and while *)
(* nothing fails a paid key is in a file or on its way there.              *)
(***************************************************************************)
EXTENDS UploadersProofs

\* Key `k` is that of service `i` on `v`, in a file or for some command.
InFile(k, v, i) == i \in DOMAIN files[v] /\ files[v][i] = k
InMap(o, k, v, i) == i \in DOMAIN keys[o][v] /\ keys[o][v][i] = k
Holds(k, v, i) == InFile(k, v, i) \/ \E o \in Operators : InMap(o, k, v, i)

\* A generated key has one place.
OnePlace ==
  \A k \in OwnKeys, v, w \in Vms, i, j \in Nat :
    Holds(k, v, i) /\ Holds(k, w, j) => v = w /\ i = j

\* What has a place was generated before now.
Numbered ==
  \A n \in 1..MaxGenerated, v \in Vms, i \in Nat : Holds(OwnKey(n), v, i) => n <= generated

PlaceInv == PaidInv /\ OnePlace /\ Numbered

-----------------------------------------------------------------------------
(***************************************************************************)
(* Generated keys.                                                         *)
(***************************************************************************)
\* A step that only moves keys between the places they have, or forgets them.
NoNewPlace == \A k \in Keys, v \in Vms, i \in Nat : Holds(k, v, i)' => Holds(k, v, i)

LEMMA PlacesKept ==
  ASSUME PlaceInv, PaidInv', generated' = generated,
         \A k \in OwnKeys, v \in Vms, i \in Nat : Holds(k, v, i)' => Holds(k, v, i)
  PROVE  PlaceInv'
<1>1. OnePlace'
  BY DEF PlaceInv, OnePlace
<1>2. \A n \in 1..MaxGenerated : OwnKey(n) \in OwnKeys
  BY DEF OwnKeys
<1>3. Numbered'
  BY <1>2 DEF PlaceInv, Numbered
<1>4. QED
  BY <1>1, <1>3 DEF PlaceInv

\* Keys that are given are not generated.
LEMMA GivenAreNotOwn == GivenKeys \cap OwnKeys = {}
BY DEF GivenKeys, OwnKeys, GivenKey, OwnKey

\* What the maps and the files hold are natural places.
LEMMA PlacesAreNumbers ==
  ASSUME TypeOK, NEW v \in Vms
  PROVE  /\ DOMAIN files[v] \subseteq Nat
         /\ \A o \in Operators : DOMAIN keys[o][v] = 1..Len(keys[o][v]) /\ Len(keys[o][v]) \in Nat
<1>1. \A o \in Operators : keys[o][v] \in KeyLists
  BY DEF TypeOK
<1>2. QED
  BY <1>1, FilesHeld, KeyListDomain, BoundsAssumption DEF Services

\* Two sequences in a row.
LEMMA Joined ==
  ASSUME NEW S, NEW p \in Seq(S), NEW q \in Seq(S)
  PROVE  /\ DOMAIN (p \o q) = 1..(Len(p) + Len(q)) /\ Len(p \o q) = Len(p) + Len(q)
         /\ \A i \in 1..(Len(p) + Len(q)) :
              (p \o q)[i] = IF i <= Len(p) THEN p[i] ELSE q[i - Len(p)]
<1>1. Len(p) \in Nat /\ Len(q) \in Nat
  OBVIOUS
<1>2. QED
  BY <1>1

\* The steps that touch neither the files nor the maps.
LEMMA StillPlaces ==
  ASSUME UNCHANGED <<files, keys>>
  PROVE  NoNewPlace
BY DEF NoNewPlace, Holds, InFile, InMap

\* A command that ends forgets its map.
LEMMA EndPlaces ==
  ASSUME TypeOK, NEW o \in Operators, NEW from, End(o, from), files' = files
  PROVE  NoNewPlace
<1>1. \A p \in Operators : keys'[p] = IF p = o THEN NoKeys ELSE keys[p]
  BY DEF End, TypeOK
<1>2. \A k, i : \A v \in Vms, p \in Operators : InMap(p, k, v, i)' => InMap(p, k, v, i)
  BY <1>1, NoKeysTyped DEF InMap
<1>3. QED
  BY <1>2 DEF NoNewPlace, Holds, InFile

\* A command that lists the services reads their keys from the files.
LEMMA FetchPlaces ==
  ASSUME PaidInv, NEW o \in Operators, FetchKeys(o)
  PROVE  NoNewPlace
<1>1. TypeOK /\ HaveFiles
  BY DEF PaidInv
<1>2. \A p \in Operators : keys'[p] = IF p = o THEN [v \in Vms |-> ListedKeys(v)] ELSE keys[p]
  BY <1>1 DEF FetchKeys, TypeOK
<1>3. ASSUME NEW v \in Vms, NEW i \in DOMAIN ListedKeys(v)
      PROVE  i \in DOMAIN files[v] /\ ListedKeys(v)[i] = files[v][i]
  BY <1>3 DEF FetchKeys, ListedKeys
<1>4. ASSUME NEW k, NEW v \in Vms, NEW i, NEW p \in Operators, InMap(p, k, v, i)'
      PROVE  Holds(k, v, i)
  <2>1. CASE p = o
    BY <1>2, <1>3, <1>4, <2>1 DEF InMap, InFile, Holds
  <2>2. CASE p # o
    BY <1>2, <1>4, <2>2 DEF InMap, Holds
  <2>3. QED
    BY <2>1, <2>2
<1>5. files' = files
  BY DEF FetchKeys, vms
<1>6. QED
  BY <1>4, <1>5 DEF NoNewPlace, Holds, InFile

\* The playbook writes a key into the file that the map has it for.
LEMMA WritePlaces ==
  ASSUME PaidInv, NEW o \in Operators, NEW u \in Vms, WriteFiles(o, u)
  PROVE  NoNewPlace
<1>1. TypeOK
  BY DEF PaidInv
<1>3. PICK done \in SUBSET Missing(o, u) : files' = [files EXCEPT ![u] = Written(o, u, done)]
  BY DEF WriteFiles
<1>4. \A i \in DOMAIN Written(o, u, done) :
        \/ i \in DOMAIN keys[o][u] /\ Written(o, u, done)[i] = keys[o][u][i]
        \/ i \in DOMAIN files[u] /\ Written(o, u, done)[i] = files[u][i]
  <2>1. SUFFICES ASSUME NEW i \in DOMAIN Written(o, u, done)
                 PROVE  \/ i \in DOMAIN keys[o][u] /\ Written(o, u, done)[i] = keys[o][u][i]
                        \/ i \in DOMAIN files[u] /\ Written(o, u, done)[i] = files[u][i]
    OBVIOUS
  <2>2. /\ DOMAIN Written(o, u, done) = DOMAIN files[u] \cup done
        /\ \A j \in done : j \in DOMAIN keys[o][u] /\ Written(o, u, done)[j] = keys[o][u][j]
        /\ \A j \in DOMAIN files[u] \ done : Written(o, u, done)[j] = files[u][j]
    BY <1>1, WrittenFiles
  <2>3. QED
    BY <2>1, <2>2
<1>5. \A v \in Vms : files'[v] = IF v = u THEN Written(o, u, done) ELSE files[v]
  BY <1>1, <1>3 DEF TypeOK
<1>6. keys' = keys
  BY DEF WriteFiles
<1>7. \A k, i : \A v \in Vms : InFile(k, v, i)' => Holds(k, v, i)
  BY <1>4, <1>5 DEF InFile, InMap, Holds
<1>8. QED
  BY <1>6, <1>7 DEF NoNewPlace, Holds, InMap

\* Keys that are made up have a number that no key has had.
LEMMA GeneratePlaces ==
  ASSUME PlaceInv, PaidInv', NEW o \in Operators, GenerateKeys(o)
  PROVE  /\ PlaceInv'
         /\ \A k \in GivenKeys, v \in Vms, i \in Nat : Holds(k, v, i)' => Holds(k, v, i)
<1>1. TypeOK
  BY DEF PlaceInv, PaidInv
<1>2. PICK w \in Vms :
        LET missing == want[o] - Len(keys[o][w])
        IN  /\ missing >= 0
            /\ generated + missing <= MaxGenerated
            /\ keys' = [keys EXCEPT ![o][w] = @ \o [i \in 1..missing |-> OwnKey(generated + i)]]
            /\ generated' = generated + missing
  BY DEF GenerateKeys
<1> DEFINE missing == want[o] - Len(keys[o][w])
           new == [i \in 1..missing |-> OwnKey(generated + i)]
           had == Len(keys[o][w])
<1>3. missing \in Nat /\ generated \in Nat /\ had \in Nat /\ keys[o][w] \in Seq(Keys)
  BY <1>1, <1>2, KeysHeld, KeyListsAreSeqs, PlacesAreNumbers, BoundsAssumption DEF TypeOK
<1>4. /\ generated' = generated + missing /\ generated' <= MaxGenerated
      /\ keys' = [keys EXCEPT ![o][w] = keys[o][w] \o new]
      /\ files' = files
  BY <1>2 DEF GenerateKeys, vms
<1>5. /\ DOMAIN (keys[o][w] \o new) = 1..(had + missing)
      /\ \A i \in 1..(had + missing) :
           (keys[o][w] \o new)[i] = IF i <= had THEN keys[o][w][i] ELSE OwnKey(generated + (i - had))
  <2> DEFINE S == Keys \cup {OwnKey(n) : n \in Nat}
  <2>1. \A i \in 1..missing : OwnKey(generated + i) \in S
    BY <1>3
  <2>2. new \in Seq(S) /\ Len(new) = missing
    BY <1>3, <2>1
  <2>3. \A i \in 1..missing : new[i] = OwnKey(generated + i)
    OBVIOUS
  <2>4. keys[o][w] \in Seq(S)
    BY <1>3
  <2> HIDE DEF new, missing, S
  <2>5. /\ DOMAIN (keys[o][w] \o new) = 1..(had + missing)
        /\ \A i \in 1..(had + missing) :
             (keys[o][w] \o new)[i] = IF i <= had THEN keys[o][w][i] ELSE new[i - had]
    BY <2>2, <2>4, Joined
  <2>6. \A i \in 1..(had + missing) : ~(i <= had) => i - had \in 1..missing
    BY <1>3
  <2>7. QED
    BY <2>3, <2>5, <2>6
<1> HIDE DEF new, missing, had
<1>6. \A p \in Operators, v \in Vms :
        keys'[p][v] = IF p = o /\ v = w THEN keys[o][w] \o new ELSE keys[p][v]
  BY <1>1, <1>4 DEF TypeOK
<1>7. ASSUME NEW k, NEW v \in Vms, NEW i \in Nat, Holds(k, v, i)', ~Holds(k, v, i)
      PROVE  v = w /\ i - had \in 1..missing /\ k = OwnKey(generated + (i - had))
  <2>1. ~InFile(k, v, i)'
    BY <1>4, <1>7 DEF Holds, InFile
  <2>2. PICK p \in Operators : InMap(p, k, v, i)' /\ ~InMap(p, k, v, i)
    BY <1>7, <2>1 DEF Holds
  <2>3. p = o /\ v = w
    BY <1>6, <2>2 DEF InMap
  <2>4. i \in 1..(had + missing) /\ k = (keys[o][w] \o new)[i]
    BY <1>5, <1>6, <2>2, <2>3 DEF InMap
  <2>5. DOMAIN keys[o][w] = 1..had
    BY <1>3 DEF had
  <2>6. ~(i <= had)
    BY <1>3, <1>5, <2>2, <2>3, <2>4, <2>5 DEF InMap
  <2>7. i - had \in 1..missing
    BY <1>3, <2>4, <2>6
  <2>8. k = OwnKey(generated + (i - had))
    BY <1>5, <2>4, <2>6
  <2>9. QED
    BY <2>3, <2>7, <2>8
<1>8. \A m, n : OwnKey(m) = OwnKey(n) => m = n
  BY DEF OwnKey
<1>9. ASSUME NEW n \in 1..MaxGenerated, NEW v \in Vms, NEW i \in Nat, Holds(OwnKey(n), v, i)
      PROVE  n <= generated
  BY <1>9 DEF PlaceInv, Numbered
<1>10. OnePlace'
  <2>1. SUFFICES ASSUME NEW k \in OwnKeys, NEW v \in Vms, NEW u \in Vms,
                        NEW i \in Nat, NEW j \in Nat, Holds(k, v, i)', Holds(k, u, j)'
                 PROVE  v = u /\ i = j
    BY DEF OnePlace
  <2>2. PICK n \in 1..MaxGenerated : k = OwnKey(n)
    BY DEF OwnKeys
  <2>3. CASE Holds(k, v, i) /\ Holds(k, u, j)
    BY <2>3 DEF PlaceInv, OnePlace
  <2>4. CASE ~Holds(k, v, i) /\ ~Holds(k, u, j)
    <3>1. /\ v = w /\ i - had \in 1..missing /\ k = OwnKey(generated + (i - had))
          /\ u = w /\ j - had \in 1..missing /\ k = OwnKey(generated + (j - had))
      BY <1>7, <2>1, <2>4
    <3>2. generated + (i - had) = generated + (j - had)
      BY <1>8, <3>1
    <3>3. QED
      BY <1>3, <3>1, <3>2
  <2>5. CASE Holds(k, v, i) /\ ~Holds(k, u, j)
    <3>1. n <= generated
      BY <1>9, <2>2, <2>5
    <3>2. j - had \in 1..missing /\ n = generated + (j - had)
      BY <1>7, <1>8, <2>1, <2>2, <2>5
    <3>3. QED
      BY <1>3, <3>1, <3>2
  <2>6. CASE ~Holds(k, v, i) /\ Holds(k, u, j)
    <3>1. n <= generated
      BY <1>9, <2>2, <2>6
    <3>2. i - had \in 1..missing /\ n = generated + (i - had)
      BY <1>7, <1>8, <2>1, <2>2, <2>6
    <3>3. QED
      BY <1>3, <3>1, <3>2
  <2>7. QED
    BY <2>3, <2>4, <2>5, <2>6
<1>11. Numbered'
  <2>1. SUFFICES ASSUME NEW n \in 1..MaxGenerated, NEW v \in Vms, NEW i \in Nat,
                        Holds(OwnKey(n), v, i)'
                 PROVE  n <= generated'
    BY DEF Numbered
  <2>2. CASE Holds(OwnKey(n), v, i)
    <3>1. n <= generated
      BY <1>9, <2>2
    <3>2. QED
      BY <1>3, <1>4, <3>1
  <2>3. CASE ~Holds(OwnKey(n), v, i)
    <3>1. i - had \in 1..missing /\ n = generated + (i - had)
      BY <1>7, <1>8, <2>1, <2>3
    <3>2. QED
      BY <1>3, <1>4, <3>1
  <2>4. QED
    BY <2>2, <2>3
<1>12. ASSUME NEW k \in GivenKeys, NEW v \in Vms, NEW i \in Nat, Holds(k, v, i)'
       PROVE  Holds(k, v, i)
  <2>1. SUFFICES ASSUME ~Holds(k, v, i) PROVE FALSE
    OBVIOUS
  <2>2. \E n : k = OwnKey(n)
    BY <1>7, <1>12, <2>1
  <2>3. QED
    BY <2>2 DEF GivenKeys, GivenKey, OwnKey
<1>13. QED
  BY <1>10, <1>11, <1>12 DEF PlaceInv

\* Keys that are dealt out are not generated ones.
LEMMA DealPlaces ==
  ASSUME PlaceInv, PaidInv', NEW o \in Operators, DealGivenKeys(o)
  PROVE  PlaceInv'
<1>1. TypeOK
  BY DEF PlaceInv, PaidInv
<1>2. PICK l \in GivenLists, n \in Services, order \in [Vms -> Vms] :
        /\ Deals(o, l, n)
        /\ keys' = [keys EXCEPT ![o] =
             [v \in Vms |-> [i \in 1..n |-> GivenKey(l[(order[v] - 1) * n + i])]]]
        /\ UNCHANGED <<vms, generated>>
  BY DEF DealGivenKeys
<1> DEFINE dealt(v) == [i \in 1..n |-> GivenKey(l[(order[v] - 1) * n + i])]
<1>4. ASSUME NEW v \in Vms, NEW i \in DOMAIN dealt(v) PROVE dealt(v)[i] \in GivenKeys
  <2>1. Len(l) = n * NumVms /\ order[v] \in Vms /\ i \in 1..n
    BY <1>2 DEF Deals
  <2>2. QED
    BY <2>1, DealtKeys
<1>5. /\ keys' = [keys EXCEPT ![o] = [v \in Vms |-> dealt(v)]]
      /\ files' = files /\ generated' = generated
  BY <1>2 DEF vms
<1> HIDE DEF dealt
<1>6. \A p \in Operators : keys'[p] = IF p = o THEN [v \in Vms |-> dealt(v)] ELSE keys[p]
  BY <1>1, <1>5 DEF TypeOK
<1>7. \A k \in OwnKeys, v \in Vms, i \in Nat, p \in Operators :
        InMap(p, k, v, i)' => InMap(p, k, v, i)
  BY <1>4, <1>6, GivenAreNotOwn DEF InMap
<1>8. \A k \in OwnKeys, v \in Vms, i \in Nat : Holds(k, v, i)' => Holds(k, v, i)
  BY <1>5, <1>7 DEF Holds, InFile
<1>9. QED
  BY <1>5, <1>8, PlacesKept

\* The other steps give no key a new place.
LEMMA OtherPlaces ==
  ASSUME PaidInv, [Next]_vars,
         \A o \in Operators : ~GenerateKeys(o) /\ ~DealGivenKeys(o)
  PROVE  NoNewPlace /\ generated' = generated
<1>1. TypeOK
  BY DEF PaidInv
<1>2. CASE UNCHANGED vars
  BY <1>2, StillPlaces DEF vars, vms, memory
<1>3. ASSUME NEW o \in Operators,
             Begin(o) \/ StartPaying(o) \/ SkipPaying(o) \/ StartPlaybook(o)
      PROVE  NoNewPlace /\ generated' = generated
  BY <1>3, StillPlaces DEF Begin, StartPaying, SkipPaying, StartPlaybook, vms, memory
<1>4. ASSUME NEW o \in Operators, FetchKeys(o) PROVE NoNewPlace /\ generated' = generated
  BY <1>4, FetchPlaces DEF FetchKeys
<1>5. ASSUME NEW o \in Operators, PayKey(o) PROVE NoNewPlace /\ generated' = generated
  <2>1. UNCHANGED <<vms, generated>> /\ (keys' = keys \/ End(o, "pay"))
    BY <1>5 DEF PayKey
  <2>2. QED
    BY <1>1, <2>1, StillPlaces, EndPlaces DEF vms
<1>6. ASSUME NEW o \in Operators,
             \/ RefuseDownscale(o) \/ RefuseUnevenDeal(o) \/ DepositEnds(o)
             \/ FailsEarly(o) \/ PaymentFails(o) \/ EndPlaybook(o)
      PROVE  NoNewPlace /\ generated' = generated
  <2>1. UNCHANGED <<vms, generated>> /\ \E from : End(o, from)
    BY <1>6 DEF RefuseDownscale, RefuseUnevenDeal, DepositEnds, FailsEarly, PaymentFails,
                EndPlaybook
  <2>2. QED
    BY <1>1, <2>1, EndPlaces DEF vms
<1>7. ASSUME NEW o \in Operators, NEW v \in Vms, StatFiles(o, v) \/ EnableServices(o, v)
      PROVE  NoNewPlace /\ generated' = generated
  BY <1>7, StillPlaces DEF StatFiles, EnableServices, vms
<1>8. ASSUME NEW o \in Operators, NEW v \in Vms, WriteFiles(o, v)
      PROVE  NoNewPlace /\ generated' = generated
  BY <1>8, WritePlaces DEF WriteFiles
<1>9. QED
  BY <1>2, <1>3, <1>4, <1>5, <1>6, <1>7, <1>8 DEF Next

\* However many operators are at work and wherever they fail, a key that was
\* generated has one place, in the files and in the memory of all commands.
THEOREM GeneratedKeysHaveOnePlace == Spec => []PlaceInv
<1>1. Init => PlaceInv
  <2>1. ASSUME Init PROVE \A k, i : \A v \in Vms : ~Holds(k, v, i)
    BY <2>1, NoKeysTyped DEF Init, Holds, InFile, InMap
  <2>2. QED
    BY <2>1, InitPaid DEF PlaceInv, OnePlace, Numbered
<1>2. PlaceInv /\ PaidInv' /\ [Next]_vars => PlaceInv'
  <2>1. SUFFICES ASSUME PlaceInv, PaidInv', [Next]_vars PROVE PlaceInv'
    OBVIOUS
  <2>2. CASE \E o \in Operators : GenerateKeys(o)
    BY <2>1, <2>2, GeneratePlaces
  <2>3. CASE \E o \in Operators : DealGivenKeys(o)
    BY <2>1, <2>3, DealPlaces
  <2>4. CASE \A o \in Operators : ~GenerateKeys(o) /\ ~DealGivenKeys(o)
    <3>1. NoNewPlace /\ generated' = generated
      BY <2>1, <2>4, OtherPlaces DEF PlaceInv
    <3>2. OwnKeys \subseteq Keys
      BY DEF Keys
    <3>3. QED
      BY <2>1, <3>1, <3>2, PlacesKept DEF NoNewPlace
  <2>5. QED
    BY <2>2, <2>3, <2>4
<1>3. QED
  BY <1>1, <1>2, PaidInvariant, PTL DEF Spec

-----------------------------------------------------------------------------
(***************************************************************************)
(* Where no command is given keys.                                         *)
(***************************************************************************)
\* No key that was given has a place, and no command is about to deal any.
NoneGiven ==
  /\ \A o \in Operators : pc[o] # "deal"
  /\ \A k \in GivenKeys, v \in Vms, i \in Nat : ~Holds(k, v, i)

\* A command deals keys only after it was given them.
LEMMA NeverDeals ==
  ASSUME GivenLists = {}, TypeOK, NoneGiven, [Next]_vars
  PROVE  \A o \in Operators : ~DealGivenKeys(o) /\ pc'[o] # "deal"
<1>1. \A o \in Operators : ~DealGivenKeys(o)
  BY DEF DealGivenKeys, SetPc, NoneGiven
<1>2. \A o, p \in Operators : \A from : End(o, from) => pc'[p] = pc[p] \/ pc'[p] = "idle"
  BY DEF End, SetPc, TypeOK
<1>3. ASSUME NEW o \in Operators,
             \/ RefuseDownscale(o) \/ RefuseUnevenDeal(o) \/ DepositEnds(o)
             \/ FailsEarly(o) \/ PaymentFails(o) \/ EndPlaybook(o)
      PROVE  \E from : End(o, from)
  BY <1>3 DEF RefuseDownscale, RefuseUnevenDeal, DepositEnds, FailsEarly, PaymentFails, EndPlaybook
<1>4. ASSUME NEW o \in Operators, PayKey(o) PROVE pc' = pc \/ \E from : End(o, from)
  BY <1>4 DEF PayKey
<1>5. ASSUME NEW o \in Operators, NEW p \in Operators,
             Begin(o) \/ FetchKeys(o) \/ StartPaying(o) \/ SkipPaying(o) \/ StartPlaybook(o)
      PROVE  pc'[p] # "deal"
  BY <1>5 DEF Begin, FetchKeys, StartPaying, SkipPaying, StartPlaybook, SetPc, TypeOK, NoneGiven
<1>6. ASSUME NEW o \in Operators,
             \/ GenerateKeys(o)
             \/ \E v \in Vms : StatFiles(o, v) \/ WriteFiles(o, v) \/ EnableServices(o, v)
      PROVE  pc' = pc
  BY <1>6 DEF GenerateKeys, StatFiles, WriteFiles, EnableServices
<1>7. QED
  BY <1>1, <1>2, <1>3, <1>4, <1>5, <1>6 DEF Next, vars, NoneGiven

\* However many operators make up keys, no two services use one wallet, if no
\* command is given keys (cmd/clients.rs:233).
THEOREM GeneratedKeysAreNotShared ==
  ASSUME GivenLists = {} PROVE Spec => []NoSharedKey
<1>1. Init => NoneGiven
  <2>1. ASSUME Init PROVE \A k, i : \A v \in Vms : ~Holds(k, v, i)
    BY <2>1, NoKeysTyped DEF Init, Holds, InFile, InMap
  <2>2. QED
    BY <2>1 DEF Init, NoneGiven
<1>2. PlaceInv /\ PlaceInv' /\ NoneGiven /\ [Next]_vars => NoneGiven'
  <2>1. SUFFICES ASSUME PlaceInv, PlaceInv', NoneGiven, [Next]_vars PROVE NoneGiven'
    OBVIOUS
  <2>2. \A o \in Operators : ~DealGivenKeys(o) /\ pc'[o] # "deal"
    BY <2>1, NeverDeals DEF PlaceInv, PaidInv
  <2>3. \A k \in GivenKeys, v \in Vms, i \in Nat : Holds(k, v, i)' => Holds(k, v, i)
    <3>1. CASE \E o \in Operators : GenerateKeys(o)
      BY <2>1, <3>1, GeneratePlaces DEF PlaceInv
    <3>2. CASE \A o \in Operators : ~GenerateKeys(o)
      <4>1. NoNewPlace
        BY <2>1, <2>2, <3>2, OtherPlaces DEF PlaceInv
      <4>2. QED
        BY <4>1 DEF NoNewPlace, Keys
    <3>3. QED
      BY <3>1, <3>2
  <2>4. QED
    BY <2>1, <2>2, <2>3 DEF NoneGiven
<1>3. PlaceInv /\ NoneGiven => NoSharedKey
  <2>1. SUFFICES ASSUME PlaceInv, NoneGiven, NEW v \in Vms, NEW w \in Vms,
                        NEW i \in DOMAIN files[v], NEW j \in DOMAIN files[w],
                        files[v][i] = files[w][j]
                 PROVE  v = w /\ i = j
    BY DEF NoSharedKey
  <2>2. i \in Nat /\ j \in Nat /\ files[v][i] \in Keys
    BY <2>1, FilesHeld, PlacesAreNumbers DEF PlaceInv, PaidInv
  <2>3. Holds(files[v][i], v, i) /\ Holds(files[v][i], w, j)
    BY <2>1 DEF Holds, InFile
  <2>4. files[v][i] \in OwnKeys
    BY <2>1, <2>2, <2>3 DEF NoneGiven, Keys
  <2>5. QED
    BY <2>1, <2>2, <2>3, <2>4 DEF PlaceInv, OnePlace
<1>4. QED
  BY <1>1, <1>2, <1>3, GeneratedKeysHaveOnePlace, PTL DEF Spec

-----------------------------------------------------------------------------
(***************************************************************************)
(* One operator: service files are kept.                                   *)
(***************************************************************************)
OneOperator == \A o, p \in Operators : o = p

\* Nobody writes files after the playbook looked for them and before it writes.
StatExact ==
  \A o \in Operators, v \in Vms :
    pc[o] = "playbook" /\ task[o][v] = "write" => stat[o][v] = DOMAIN files[v]

\* What a step does to the files, and to where the playbook is.
LEMMA FilesStep ==
  ASSUME TypeOK, NEW o \in Operators,
         \/ Begin(o) \/ FetchKeys(o) \/ GenerateKeys(o) \/ StartPaying(o) \/ SkipPaying(o)
         \/ PayKey(o) \/ StartPlaybook(o) \/ DealGivenKeys(o)
         \/ RefuseDownscale(o) \/ RefuseUnevenDeal(o) \/ DepositEnds(o)
         \/ FailsEarly(o) \/ PaymentFails(o) \/ EndPlaybook(o)
  PROVE  /\ files' = files
         /\ pc'[o] = "playbook" => task'[o] = [v \in Vms |-> "stat"]
<1>1. CASE Begin(o) \/ FetchKeys(o) \/ StartPaying(o) \/ SkipPaying(o) \/ StartPlaybook(o)
  BY <1>1 DEF Begin, FetchKeys, StartPaying, SkipPaying, StartPlaybook, SetPc, TypeOK, vms
<1>2. CASE DealGivenKeys(o)
  BY <1>2 DEF DealGivenKeys, SetPc, TypeOK, vms
<1>3. CASE GenerateKeys(o)
  BY <1>3 DEF GenerateKeys, vms
<1>4. \A from : End(o, from) => pc'[o] = "idle"
  BY DEF End, SetPc, TypeOK
<1>5. CASE PayKey(o)
  <2>1. files' = files /\ pc[o] = "pay" /\ (pc' = pc \/ End(o, "pay"))
    BY <1>5 DEF PayKey, vms
  <2>2. QED
    BY <1>4, <2>1
<1>6. CASE \/ RefuseDownscale(o) \/ RefuseUnevenDeal(o) \/ DepositEnds(o)
           \/ FailsEarly(o) \/ PaymentFails(o) \/ EndPlaybook(o)
  <2>1. files' = files /\ \E from : End(o, from)
    BY <1>6 DEF RefuseDownscale, RefuseUnevenDeal, DepositEnds, FailsEarly, PaymentFails,
                EndPlaybook, vms
  <2>2. QED
    BY <1>4, <2>1
<1>7. QED
  BY <1>1, <1>2, <1>3, <1>5, <1>6

\* What is written beside files that were all found is more files.
LEMMA WritesAdd ==
  ASSUME TypeOK, NEW o \in Operators, NEW v \in Vms, NEW done \in SUBSET Missing(o, v),
         stat[o][v] = DOMAIN files[v]
  PROVE  /\ done \cap DOMAIN files[v] = {}
         /\ IsRestriction(files[v], Written(o, v, done))
<1>1. done \cap DOMAIN files[v] = {}
  BY DEF Missing
<1>2. /\ DOMAIN Written(o, v, done) = DOMAIN files[v] \cup done
      /\ \A i \in DOMAIN files[v] \ done : Written(o, v, done)[i] = files[v][i]
  BY WrittenFiles
<1>3. QED
  BY <1>1, <1>2 DEF IsRestriction

\* One operator's playbook looks for the files, and only it writes any.
LEMMA StatStaysExact ==
  ASSUME OneOperator, PaidInv, StatExact, [Next]_vars
  PROVE  StatExact'
<1> USE DEF PaidInv
<1>1. CASE UNCHANGED vars
  BY <1>1 DEF StatExact, vars, vms, memory
<1>2. ASSUME NEW o \in Operators,
         \/ Begin(o) \/ FetchKeys(o) \/ GenerateKeys(o) \/ StartPaying(o) \/ SkipPaying(o)
         \/ PayKey(o) \/ StartPlaybook(o) \/ DealGivenKeys(o)
         \/ RefuseDownscale(o) \/ RefuseUnevenDeal(o) \/ DepositEnds(o)
         \/ FailsEarly(o) \/ PaymentFails(o) \/ EndPlaybook(o)
      PROVE  StatExact'
  <2>1. pc'[o] = "playbook" => task'[o] = [v \in Vms |-> "stat"]
    BY <1>2, FilesStep
  <2>2. QED
    BY <2>1 DEF StatExact, OneOperator
<1>3. ASSUME NEW o \in Operators, NEW v \in Vms, StatFiles(o, v) PROVE StatExact'
  <2>1. \A w \in Vms : /\ stat'[o][w] = IF w = v THEN DOMAIN files[v] ELSE stat[o][w]
                       /\ task'[o][w] = IF w = v THEN "write" ELSE task[o][w]
    BY <1>3 DEF StatFiles, OnVm, TypeOK
  <2>2. files' = files /\ pc' = pc
    BY <1>3 DEF StatFiles, vms
  <2>3. QED
    BY <2>1, <2>2 DEF StatExact, OneOperator
<1>4. ASSUME NEW o \in Operators, NEW v \in Vms, WriteFiles(o, v) PROVE StatExact'
  <2>1. \A w \in Vms : w # v => files'[w] = files[w] /\ task'[o][w] = task[o][w]
    BY <1>4 DEF WriteFiles, OnVm, TypeOK
  <2>2. task'[o][v] # "write" /\ pc' = pc /\ stat' = stat
    BY <1>4 DEF WriteFiles, OnVm, TypeOK
  <2>3. QED
    BY <2>1, <2>2 DEF StatExact, OneOperator
<1>5. ASSUME NEW o \in Operators, NEW v \in Vms, EnableServices(o, v) PROVE StatExact'
  <2>1. \A w \in Vms : task'[o][w] = task[o][w] \/ task'[o][w] # "write"
    BY <1>5 DEF EnableServices, OnVm, TypeOK
  <2>2. files' = files /\ pc' = pc /\ stat' = stat
    BY <1>5 DEF EnableServices
  <2>3. QED
    BY <2>1, <2>2 DEF StatExact, OneOperator
<1>6. QED
  BY <1>1, <1>2, <1>3, <1>4, <1>5 DEF Next

\* With one operator a service file, once written, keeps its key, however the
\* commands end (uploaders/tasks/main.yml:101: only "when" there is none).
THEOREM ServiceFilesAreKept ==
  ASSUME OneOperator PROVE Spec => FilesAreKept
<1>1. Init => StatExact
  BY DEF Init, StatExact
<1>2. PaidInv /\ StatExact /\ [Next]_vars => StatExact'
  BY StatStaysExact
<1>3. PaidInv /\ StatExact /\ [Next]_vars => [\A v \in Vms : IsRestriction(files[v], files'[v])]_vars
  <2>1. SUFFICES ASSUME PaidInv, StatExact, Next, NEW v \in Vms
                 PROVE  IsRestriction(files[v], files'[v])
    OBVIOUS
  <2>3. CASE files'[v] = files[v]
    BY <2>3 DEF IsRestriction
  <2>4. CASE \E o \in Operators : WriteFiles(o, v)
    <3>1. PICK o \in Operators : WriteFiles(o, v)
      BY <2>4
    <3>2. PICK done \in SUBSET Missing(o, v) : files' = [files EXCEPT ![v] = Written(o, v, done)]
      BY <3>1 DEF WriteFiles
    <3>3. stat[o][v] = DOMAIN files[v]
      BY <2>1, <3>1 DEF WriteFiles, OnVm, StatExact
    <3>4. files'[v] = Written(o, v, done)
      BY <2>1, <3>2 DEF PaidInv, TypeOK
    <3>5. QED
      BY <2>1, <3>3, <3>4, WritesAdd DEF PaidInv
  <2>5. CASE files'[v] # files[v] /\ ~\E o \in Operators : WriteFiles(o, v)
    <3>1. ASSUME NEW o \in Operators, NEW w \in Vms,
                 StatFiles(o, w) \/ (WriteFiles(o, w) /\ w # v) \/ EnableServices(o, w)
          PROVE  files'[v] = files[v]
      BY <2>1, <3>1 DEF StatFiles, WriteFiles, EnableServices, vms, PaidInv, TypeOK
    <3>2. QED
      BY <2>1, <2>5, <3>1, FilesStep DEF Next, PaidInv
  <2>6. QED
    BY <2>3, <2>4, <2>5
<1>4. QED
  BY <1>1, <1>2, <1>3, PaidInvariant, PTL DEF Spec, FilesAreKept

-----------------------------------------------------------------------------
(***************************************************************************)
(* One operator: no paid key is lost.  The following is true as long as    *)
(* nothing failed.                                                         *)
(***************************************************************************)
\* The files of a VM have no gaps.
Dense == \A v \in Vms : \E n \in 0..MaxServices : DOMAIN files[v] = 1..n

\* Every service with a file is enabled, but for what a playbook just wrote.
AllEnabled ==
  \A v \in Vms :
    \/ enabled[v] = DOMAIN files[v]
    \/ \E o \in Operators :
         pc[o] = "playbook" /\ task[o][v] = "enable" /\ DOMAIN files[v] \subseteq 1..Instances(o)

\* The map has the keys of the files there are.
Matching(o) ==
  \A v \in Vms : \A i \in DOMAIN keys[o][v] :
    keys[o][v][i] \in OwnKeys /\ i \in DOMAIN files[v] => files[v][i] = keys[o][v][i]

\* It has all of them, and is filled up to what the command asks for.
Filling(o) ==
  pc[o] = "generate" =>
    \A v \in Vms :
      /\ DOMAIN files[v] \subseteq DOMAIN keys[o][v]
      /\ \/ DOMAIN keys[o][v] = DOMAIN files[v] /\ (want[o] = 0 \/ <<v, 0>> \in todo[o])
         \/ Len(keys[o][v]) = want[o]

\* A key of the map will be written, or was.
Placed(o) ==
  pc[o] \in {"pay", "playbook"} =>
    \A v \in Vms : \A i \in DOMAIN keys[o][v] :
      keys[o][v][i] \in OwnKeys => i <= want[o] \/ i \in DOMAIN files[v]

\* On a VM where the files are written all keys of the map are in them.
Served(o) ==
  pc[o] = "playbook" =>
    \A v \in Vms : task[o][v] \in {"enable", "done", "failed"} =>
      \A i \in DOMAIN keys[o][v] : keys[o][v][i] \in OwnKeys => i \in DOMAIN files[v]

\* What is paid is in a file, or in the map of the command that pays it.
PaidIsKept ==
  \A k \in OwnKeys : paid[k] # "nothing" =>
    \/ InFiles(k)
    \/ \E o \in Operators, v \in Vms, i \in Nat :
         pc[o] \in {"pay", "playbook"} /\ InMap(o, k, v, i)

Kept ==
  /\ Dense /\ AllEnabled /\ PaidIsKept
  /\ \A o \in Operators : Matching(o) /\ Filling(o) /\ Placed(o) /\ Served(o)

KeptInv == PaidInv /\ StatExact /\ (failures > 0 \/ Kept)

\* Steps that leave files, maps, counts and the playbook alone.
LEMMA StillKept ==
  ASSUME OneOperator, PaidInv, Kept, NEW o \in Operators,
         UNCHANGED <<files, enabled, keys, paid>>,
         pc'[o] # "playbook", pc[o] # "playbook",
         pc[o] = "pay" => pc'[o] = "pay",
         Filling(o)', Placed(o)'
  PROVE  Kept'
<1>1. AllEnabled'
  BY DEF Kept, AllEnabled, OneOperator
<1>2. PaidIsKept'
  BY DEF Kept, PaidIsKept, OneOperator, InFiles, InMap
<1>3. Matching(o)' /\ Served(o)'
  BY DEF Kept, Matching, Served
<1>4. QED
  BY <1>1, <1>2, <1>3 DEF Kept, Dense, OneOperator

\* A command that ends has written what it paid.
LEMMA EndKept ==
  ASSUME OneOperator, PaidInv, Kept, NEW o \in Operators, NEW from, End(o, from),
         UNCHANGED <<vms, paid>>,
         from = "playbook" => \A v \in Vms : task[o][v] \in {"done", "failed"},
         from = "pay" => want[o] = 0
  PROVE  Kept'
<1>1. /\ pc[o] = from /\ pc'[o] = "idle" /\ keys'[o] = NoKeys
      /\ files' = files /\ enabled' = enabled
  BY DEF End, SetPc, PaidInv, TypeOK, vms
<1>2. AllEnabled'
  <2>1. \A v \in Vms : enabled[v] = DOMAIN files[v]
    BY <1>1 DEF Kept, AllEnabled, OneOperator
  <2>2. QED
    BY <1>1, <2>1 DEF AllEnabled
<1>3. ASSUME NEW k \in OwnKeys, paid[k] # "nothing" PROVE InFiles(k)
  <2>1. SUFFICES ASSUME NEW p \in Operators, NEW v \in Vms, NEW i \in Nat,
                        pc[p] \in {"pay", "playbook"}, InMap(p, k, v, i)
                 PROVE  InFiles(k)
    BY <1>3 DEF Kept, PaidIsKept
  <2>2. p = o /\ i \in DOMAIN keys[o][v] /\ keys[o][v][i] = k
    BY <2>1 DEF OneOperator, InMap
  <2>3. i \in DOMAIN files[v]
    <3>1. CASE from = "pay"
      <4>1. i >= 1
        BY <2>2, PlacesAreNumbers DEF PaidInv
      <4>2. i <= want[o] \/ i \in DOMAIN files[v]
        BY <1>1, <1>3, <2>2, <3>1 DEF Kept, Placed
      <4>3. QED
        BY <2>1, <3>1, <4>1, <4>2
    <3>2. CASE from = "playbook"
      BY <1>1, <1>3, <2>2, <3>2 DEF Kept, Served
    <3>3. QED
      BY <1>1, <2>1, <2>2, <3>1, <3>2
  <2>4. files[v][i] = k
    BY <1>3, <2>2, <2>3 DEF Kept, Matching
  <2>5. i \in DOMAIN files[v]
    BY <2>3
  <2>6. QED
    BY <2>4, <2>5 DEF InFiles
<1>4. PaidIsKept'
  BY <1>1, <1>3 DEF PaidIsKept, InFiles
<1>5. Matching(o)' /\ Filling(o)' /\ Placed(o)' /\ Served(o)'
  BY <1>1, NoKeysTyped DEF Matching, Filling, Placed, Served
<1>6. QED
  BY <1>1, <1>2, <1>4, <1>5 DEF Kept, Dense, OneOperator

\* The keys that are listed are those of all files.
LEMMA FetchKept ==
  ASSUME OneOperator, PaidInv, Kept, NEW o \in Operators, FetchKeys(o)
  PROVE  Kept'
<1>1. /\ pc[o] = "fetch" /\ pc'[o] = "generate" /\ files' = files /\ enabled' = enabled
      /\ paid' = paid /\ want' = want
      /\ keys'[o] = [v \in Vms |-> ListedKeys(v)]
      /\ todo'[o] = IF want[o] = 0 THEN {} ELSE Vms \X {0}
  BY DEF FetchKeys, SetPc, PaidInv, TypeOK, vms
<1>2. \A v \in Vms : enabled[v] = DOMAIN files[v]
  BY <1>1 DEF Kept, AllEnabled, OneOperator
<1>3. ASSUME NEW v \in Vms
      PROVE  /\ DOMAIN keys'[o][v] = DOMAIN files[v]
             /\ \A i \in DOMAIN files[v] : keys'[o][v][i] = files[v][i]
  <2>1. PICK n \in 0..MaxServices : DOMAIN files[v] = 1..n
    BY DEF Kept, Dense
  <2>2. Cardinality(1..n) = n
    BY FS_Interval, BoundsAssumption
  <2>3. Listed(v) = DOMAIN files[v]
    BY <1>2, <2>1, <2>2 DEF Listed
  <2>4. QED
    BY <1>1, <2>3 DEF ListedKeys
<1>4. AllEnabled'
  BY <1>1, <1>2 DEF AllEnabled
<1>5. PaidIsKept'
  BY <1>1 DEF Kept, PaidIsKept, OneOperator, InFiles
<1>6. Matching(o)' /\ Placed(o)' /\ Served(o)'
  BY <1>1, <1>3 DEF Matching, Placed, Served
<1>7. Filling(o)'
  BY <1>1, <1>3 DEF Filling
<1>8. QED
  BY <1>1, <1>4, <1>5, <1>6, <1>7 DEF Kept, Dense, OneOperator

\* New keys come after those that the VM has.
LEMMA GenerateKept ==
  ASSUME OneOperator, PaidInv, PaidInv', Kept, NEW o \in Operators, GenerateKeys(o)
  PROVE  Kept'
<1>1. PICK w \in Vms :
        LET missing == want[o] - Len(keys[o][w])
        IN  /\ <<w, 0>> \in todo[o] /\ missing >= 0
            /\ keys' = [keys EXCEPT ![o][w] = @ \o [i \in 1..missing |-> OwnKey(generated + i)]]
            /\ todo' = [todo EXCEPT ![o] = @ \ {<<w, 0>>}]
  BY DEF GenerateKeys
<1>2. /\ pc[o] = "generate" /\ pc' = pc /\ files' = files /\ enabled' = enabled
      /\ want' = want /\ paid' = paid
  BY DEF GenerateKeys, vms
<1>3. \A v \in Vms : v # w => keys'[o][v] = keys[o][v] /\ (<<v, 0>> \in todo[o] => <<v, 0>> \in todo'[o])
  BY <1>1 DEF PaidInv, TypeOK
<1>4. /\ Len(keys'[o][w]) = want[o]
      /\ DOMAIN keys'[o][w] = 1..want[o]
      /\ \A i \in DOMAIN keys[o][w] : keys'[o][w][i] = keys[o][w][i]
  <2> DEFINE missing == want[o] - Len(keys[o][w])
             new == [i \in 1..missing |-> OwnKey(generated + i)]
             S == Keys \cup {new[i] : i \in 1..missing}
  <2>1. keys[o][w] \in Seq(Keys) /\ missing \in Nat /\ want[o] \in Nat /\ Len(keys[o][w]) \in Nat
    BY <1>1, KeysHeld, KeyListsAreSeqs, PlacesAreNumbers, BoundsAssumption DEF PaidInv, TypeOK
  <2>2. new \in Seq(S) /\ Len(new) = missing
    <3>1. \A i \in 1..missing : new[i] \in S
      OBVIOUS
    <3>2. new \in [1..missing -> S]
      BY <3>1
    <3>3. QED
      BY <2>1, <3>2
  <2>3. keys[o][w] \in Seq(S)
    BY <2>1
  <2>4. keys'[o][w] = keys[o][w] \o new
    BY <1>1 DEF PaidInv, TypeOK
  <2> HIDE DEF new, S
  <2>5. Len(keys[o][w]) + Len(new) = want[o]
    BY <2>1, <2>2
  <2> HIDE DEF missing
  <2>6. /\ DOMAIN (keys[o][w] \o new) = 1..(Len(keys[o][w]) + Len(new))
        /\ Len(keys[o][w] \o new) = Len(keys[o][w]) + Len(new)
        /\ \A i \in 1..(Len(keys[o][w]) + Len(new)) :
             (keys[o][w] \o new)[i] =
               IF i <= Len(keys[o][w]) THEN keys[o][w][i] ELSE new[i - Len(keys[o][w])]
    BY <2>2, <2>3, Joined
  <2>7. \A i \in DOMAIN keys[o][w] : (keys[o][w] \o new)[i] = keys[o][w][i]
    BY <2>1, <2>2, <2>6
  <2>8. QED
    BY <2>4, <2>5, <2>6, <2>7
<1>5. DOMAIN files[w] \subseteq DOMAIN keys[o][w] /\ DOMAIN keys[o][w] \subseteq 1..want[o]
  BY <1>1, <1>2, PlacesAreNumbers, BoundsAssumption DEF Kept, Filling, PaidInv, TypeOK
<1>6. AllEnabled'
  BY <1>2 DEF Kept, AllEnabled, OneOperator
<1>7. PaidIsKept'
  BY <1>2 DEF Kept, PaidIsKept, OneOperator, InFiles
<1>8. Matching(o)'
  <2>1. DOMAIN files[w] \subseteq DOMAIN keys[o][w]
    BY <1>5
  <2>2. ASSUME NEW v \in Vms, NEW i \in DOMAIN keys'[o][v],
               keys'[o][v][i] \in OwnKeys, i \in DOMAIN files[v]
        PROVE  files[v][i] = keys'[o][v][i]
    <3>1. i \in DOMAIN keys[o][v] /\ keys'[o][v][i] = keys[o][v][i]
      BY <1>3, <1>4, <2>1, <2>2
    <3>2. QED
      BY <2>2, <3>1 DEF Kept, Matching
  <2>3. OwnKeys' = OwnKeys
    OBVIOUS
  <2>4. QED
    BY <1>2, <2>2, <2>3 DEF Matching
<1>9. Filling(o)'
  BY <1>2, <1>3, <1>4, <1>5 DEF Kept, Filling
<1>10. QED
  BY <1>2, <1>6, <1>7, <1>8, <1>9 DEF Kept, Dense, OneOperator, Placed, Served

\* With nothing left to fill, every place of the map is asked for or filled.
LEMMA StartPayingKept ==
  ASSUME OneOperator, PaidInv, Kept, NEW o \in Operators, StartPaying(o) \/ SkipPaying(o)
  PROVE  Kept'
<1>1. /\ pc[o] = "generate" /\ pc'[o] = "pay" /\ todo[o] = {} /\ files' = files
      /\ enabled' = enabled /\ keys' = keys /\ want' = want /\ paid' = paid
  BY DEF StartPaying, SkipPaying, SetPc, PaidInv, TypeOK, vms, memory
<1>2. \A v \in Vms : DOMAIN keys[o][v] = DOMAIN files[v] \/ Len(keys[o][v]) = want[o]
  BY <1>1 DEF Kept, Filling
<1>3. Placed(o)'
  <2>1. \A v \in Vms : DOMAIN keys[o][v] = 1..Len(keys[o][v]) /\ Len(keys[o][v]) \in Nat
    BY PlacesAreNumbers DEF PaidInv
  <2>2. QED
    BY <1>1, <1>2, <2>1 DEF Placed
<1>4. QED
  BY <1>1, <1>3, StillKept DEF Filling

\* A key is paid while the command has it.
LEMMA PayKept ==
  ASSUME OneOperator, PaidInv, Kept, NEW o \in Operators, PayKey(o), failures' = failures
  PROVE  Kept'
<1>1. ~Failure
  BY DEF Failure, PaidInv, TypeOK
<1>2. PICK p \in Places(o) :
        /\ paid' = [paid EXCEPT ![keys[o][p[1]][p[2]]] = "both"]
        /\ UNCHANGED <<pc, want, keys, task>>
  BY <1>1 DEF PayKey
<1>3. files' = files /\ enabled' = enabled /\ pc[o] = "pay"
  BY DEF PayKey, vms
<1>4. PaidIsKept'
  <2>1. ASSUME NEW k \in OwnKeys, paid'[k] # "nothing"
        PROVE  \/ paid[k] # "nothing"
               \/ InMap(o, k, p[1], p[2]) /\ p[1] \in Vms /\ p[2] \in Nat
    <3>1. k \in Keys
      BY DEF Keys
    <3>2. paid'[k] = IF k = keys[o][p[1]][p[2]] THEN "both" ELSE paid[k]
      BY <1>2, <3>1 DEF PaidInv, TypeOK
    <3>3. /\ p[1] \in Vms /\ p[2] \in Nat /\ p[2] >= 1
          /\ p[2] <= Len(keys[o][p[1]])
      BY BoundsAssumption DEF Places
    <3>4. p[2] \in DOMAIN keys[o][p[1]]
      BY <3>3, PlacesAreNumbers DEF PaidInv
    <3>5. QED
      BY <2>1, <3>2, <3>3, <3>4 DEF InMap
  <2>2. QED
    BY <1>2, <1>3, <2>1 DEF Kept, PaidIsKept, InFiles, InMap
<1>5. AllEnabled'
  BY <1>2, <1>3 DEF Kept, AllEnabled, Instances
<1>6. Matching(o)' /\ Filling(o)' /\ Placed(o)' /\ Served(o)'
  BY <1>2, <1>3 DEF Kept, Matching, Filling, Placed, Served
<1>7. QED
  BY <1>3, <1>4, <1>5, <1>6 DEF Kept, Dense, OneOperator

\* Before the playbook serves a VM, nothing is said of it.
LEMMA PlaybookKept ==
  ASSUME OneOperator, PaidInv, Kept, NEW o \in Operators,
         pc[o] # "playbook", pc'[o] = "playbook", task'[o] = [v \in Vms |-> "stat"],
         UNCHANGED <<vms, paid>>,
         pc[o] = "pay" => keys' = keys,
         Matching(o)', Placed(o)'
  PROVE  Kept'
<1>1. files' = files /\ enabled' = enabled
  BY DEF vms
<1>2. AllEnabled'
  BY <1>1 DEF Kept, AllEnabled, OneOperator
<1>3. PaidIsKept'
  BY <1>1 DEF Kept, PaidIsKept, OneOperator, InFiles, InMap
<1>4. Served(o)' /\ Filling(o)'
  BY DEF Served, Filling
<1>5. QED
  BY <1>1, <1>2, <1>3, <1>4 DEF Kept, Dense, OneOperator

\* Keys that are dealt are nobody's generated ones.
LEMMA DealKept ==
  ASSUME OneOperator, PaidInv, Kept, NEW o \in Operators, DealGivenKeys(o)
  PROVE  Kept'
<1>1. PICK l \in GivenLists, n \in Services, order \in [Vms -> Vms] :
        /\ Deals(o, l, n)
        /\ keys' = [keys EXCEPT ![o] =
             [v \in Vms |-> [i \in 1..n |-> GivenKey(l[(order[v] - 1) * n + i])]]]
  BY DEF DealGivenKeys
<1> DEFINE dealt(v) == [i \in 1..n |-> GivenKey(l[(order[v] - 1) * n + i])]
<1>3. ASSUME NEW v \in Vms, NEW i \in DOMAIN dealt(v) PROVE dealt(v)[i] \notin OwnKeys
  <2>1. Len(l) = n * NumVms /\ order[v] \in Vms /\ i \in 1..n
    BY <1>1 DEF Deals
  <2>2. QED
    BY <2>1, DealtKeys, GivenAreNotOwn
<1>4. \A v \in Vms : keys'[o][v] = dealt(v)
  BY <1>1 DEF PaidInv, TypeOK
<1> HIDE DEF dealt
<1>5. Matching(o)' /\ Placed(o)'
  BY <1>3, <1>4 DEF Matching, Placed
<1>6. /\ pc[o] = "deal" /\ pc'[o] = "playbook" /\ task'[o] = [v \in Vms |-> "stat"]
      /\ UNCHANGED <<vms, paid>>
  BY DEF DealGivenKeys, SetPc, PaidInv, TypeOK
<1>7. QED
  BY <1>5, <1>6, PlaybookKept

\* The files that were found stay as they are.
LEMMA StatKept ==
  ASSUME OneOperator, PaidInv, Kept, NEW o \in Operators, NEW v \in Vms, StatFiles(o, v)
  PROVE  Kept'
<1>1. UNCHANGED <<files, enabled, pc, want, keys, todo, paid>>
  BY DEF StatFiles, vms
<1>2. /\ task[o][v] = "stat" /\ task'[o][v] = "write"
      /\ \A w \in Vms : w # v => task'[o][w] = task[o][w]
  BY DEF StatFiles, OnVm, PaidInv, TypeOK
<1>3. AllEnabled'
  BY <1>1, <1>2 DEF Kept, AllEnabled, Instances, OneOperator
<1>4. PaidIsKept'
  BY <1>1 DEF Kept, PaidIsKept, InFiles, InMap
<1>5. Matching(o)' /\ Filling(o)' /\ Placed(o)'
  BY <1>1 DEF Kept, Matching, Filling, Placed
<1>6. Served(o)'
  BY <1>1, <1>2 DEF Kept, Served
<1>7. QED
  BY <1>1, <1>3, <1>4, <1>5, <1>6 DEF Kept, Dense, OneOperator

\* A loop in which nothing fails writes all keys that have no file.
LEMMA CalmWrite ==
  ASSUME PaidInv, StatExact, NEW o \in Operators, NEW v \in Vms,
         WriteFiles(o, v), failures' = failures
  PROVE  /\ DOMAIN files'[v] = DOMAIN files[v] \cup {i \in DOMAIN keys[o][v] : i <= Instances(o)}
         /\ \A i \in DOMAIN files[v] : files'[v][i] = files[v][i]
         /\ \A i \in DOMAIN files'[v] \ DOMAIN files[v] :
              i \in DOMAIN keys[o][v] /\ files'[v][i] = keys[o][v][i]
         /\ \A w \in Vms : w # v => files'[w] = files[w] /\ task'[o][w] = task[o][w]
         /\ pc[o] = "playbook" /\ task[o][v] = "write" /\ task'[o][v] = "enable"
         /\ UNCHANGED <<enabled, paid, pc, want, keys, todo, stat>>
<1> DEFINE new == Missing(o, v)
<1>1. ~Failure
  BY DEF Failure, PaidInv, TypeOK
<1>2. /\ files' = [files EXCEPT ![v] = Written(o, v, new)]
      /\ OnVm(o, v, "write", "enable")
      /\ UNCHANGED <<enabled, paid, pc, want, keys, todo, stat>>
  BY <1>1 DEF WriteFiles
<1>3. /\ files'[v] = Written(o, v, new)
      /\ \A w \in Vms : w # v => files'[w] = files[w] /\ task'[o][w] = task[o][w]
      /\ pc[o] = "playbook" /\ task[o][v] = "write" /\ task'[o][v] = "enable"
  BY <1>2 DEF OnVm, PaidInv, TypeOK
<1>4. new = {i \in DOMAIN keys[o][v] : i <= Instances(o)} \ DOMAIN files[v]
  BY <1>3 DEF StatExact, Missing, Zipped
<1> HIDE DEF new
<1>5. /\ DOMAIN files'[v] = DOMAIN files[v] \cup new
      /\ \A i \in new : i \in DOMAIN keys[o][v] /\ files'[v][i] = keys[o][v][i]
      /\ \A i \in DOMAIN files[v] : files'[v][i] = files[v][i]
  <2>1. new \in SUBSET Missing(o, v)
    BY DEF new
  <2>2. /\ DOMAIN Written(o, v, new) = DOMAIN files[v] \cup new
        /\ \A i \in new : i \in DOMAIN keys[o][v] /\ Written(o, v, new)[i] = keys[o][v][i]
        /\ \A i \in DOMAIN files[v] \ new : Written(o, v, new)[i] = files[v][i]
    BY <2>1, WrittenFiles DEF PaidInv
  <2>3. QED
    BY <1>3, <1>4, <2>2
<1>6. QED
  BY <1>2, <1>3, <1>4, <1>5

\* All keys of the map that have no file get one.
LEMMA WriteKept ==
  ASSUME OneOperator, PaidInv, StatExact, Kept, NEW o \in Operators, NEW v \in Vms,
         WriteFiles(o, v), failures' = failures
  PROVE  Kept'
<1> DEFINE asked == {i \in DOMAIN keys[o][v] : i <= Instances(o)}
<1>1. UNCHANGED <<enabled, paid, pc, want, keys, todo, stat>>
  BY CalmWrite
<1>2. /\ \A w \in Vms : w # v => files'[w] = files[w] /\ task'[o][w] = task[o][w]
      /\ pc[o] = "playbook" /\ task[o][v] = "write" /\ task'[o][v] = "enable"
  BY CalmWrite
<1>3. /\ DOMAIN keys[o][v] = 1..Len(keys[o][v]) /\ Len(keys[o][v]) \in Nat
      /\ want[o] \in Nat /\ Instances(o) \in Nat /\ Instances(o) >= want[o]
      /\ Instances(o) >= 1
  BY PlacesAreNumbers, BoundsAssumption DEF Instances, PaidInv, TypeOK
<1>4. /\ DOMAIN files'[v] = DOMAIN files[v] \cup asked
      /\ \A i \in DOMAIN files'[v] \ DOMAIN files[v] : files'[v][i] = keys[o][v][i]
      /\ \A i \in DOMAIN files[v] : files'[v][i] = files[v][i]
  BY CalmWrite
<1>5. PICK n \in 0..MaxServices : DOMAIN files[v] = 1..n
  BY DEF Kept, Dense
<1>6. Dense'
  <2> DEFINE m == IF Instances(o) < Len(keys[o][v]) THEN Instances(o) ELSE Len(keys[o][v])
             last == IF n < m THEN m ELSE n
  <2>1. m \in 0..MaxServices
    BY <1>3, KeysHeld, KeyListDomain, BoundsAssumption DEF PaidInv
  <2>2. last \in 0..MaxServices
    BY <2>1
  <2>3. DOMAIN files[v] \cup asked = 1..last
    BY <1>3, <1>5
  <2> HIDE DEF last
  <2>4. \E x \in 0..MaxServices : DOMAIN files'[v] = 1..x
    BY <1>4, <2>2, <2>3
  <2>5. QED
    BY <1>2, <2>4 DEF Kept, Dense
<1>7. AllEnabled'
  <2>1. \A w \in Vms :
          \/ enabled[w] = DOMAIN files[w]
          \/ task[o][w] = "enable" /\ DOMAIN files[w] \subseteq 1..Instances(o)
    BY DEF Kept, AllEnabled, OneOperator
  <2>2. enabled[v] = DOMAIN files[v]
    BY <1>2, <2>1
  <2>3. DOMAIN files'[v] = DOMAIN files[v] \/ DOMAIN files'[v] \subseteq 1..Instances(o)
    <3>1. CASE asked \subseteq DOMAIN files[v]
      BY <1>4, <3>1
    <3>2. ASSUME NEW i \in asked \ DOMAIN files[v] PROVE DOMAIN files'[v] \subseteq 1..Instances(o)
      <4>1. i \in Nat /\ i >= 1 /\ i <= Instances(o) /\ ~(i <= n)
        BY <1>3, <1>5, <3>2
      <4>2. n <= Instances(o)
        BY <1>3, <4>1
      <4>3. DOMAIN files[v] \subseteq 1..Instances(o)
        BY <1>3, <1>5, <4>2
      <4>4. asked \subseteq 1..Instances(o)
        BY <1>3
      <4>5. QED
        BY <1>4, <4>3, <4>4
    <3>3. QED
      BY <3>1, <3>2
  <2>4. Instances(o)' = Instances(o)
    BY <1>1 DEF Instances
  <2>5. QED
    BY <1>1, <1>2, <2>1, <2>2, <2>3, <2>4 DEF AllEnabled
<1>8. PaidIsKept'
  <2>1. ASSUME NEW k, InFiles(k) PROVE InFiles(k)'
    BY <1>2, <1>4, <2>1 DEF InFiles
  <2>2. QED
    BY <1>1, <2>1 DEF Kept, PaidIsKept, InMap
<1>9. Matching(o)'
  <2>1. ASSUME NEW i \in DOMAIN keys[o][v], keys[o][v][i] \in OwnKeys, i \in DOMAIN files'[v]
        PROVE  files'[v][i] = keys[o][v][i]
    <3>1. CASE i \in DOMAIN files[v]
      BY <1>4, <2>1, <3>1 DEF Kept, Matching
    <3>2. QED
      BY <1>4, <2>1, <3>1
  <2>2. \A w \in Vms : w # v => \A i \in DOMAIN keys[o][w] :
          keys[o][w][i] \in OwnKeys /\ i \in DOMAIN files'[w] => files'[w][i] = keys[o][w][i]
    BY <1>2 DEF Kept, Matching
  <2>3. QED
    BY <1>1, <2>1, <2>2 DEF Matching
<1>10. Placed(o)' /\ Served(o)'
  <2>1. ASSUME NEW i \in DOMAIN keys[o][v], keys[o][v][i] \in OwnKeys
        PROVE  i \in DOMAIN files'[v]
    <3>1. i <= want[o] \/ i \in DOMAIN files[v]
      BY <1>2, <2>1 DEF Kept, Placed
    <3>2. QED
      BY <1>3, <1>4, <2>1, <3>1
  <2>2. QED
    BY <1>1, <1>2, <1>4, <2>1 DEF Kept, Placed, Served
<1>11. Filling(o)'
  BY <1>1, <1>2 DEF Filling
<1>12. QED
  BY <1>6, <1>7, <1>8, <1>9, <1>10, <1>11 DEF Kept, OneOperator

\* All services with a file are enabled.
LEMMA EnableKept ==
  ASSUME OneOperator, PaidInv, Kept, NEW o \in Operators, NEW v \in Vms,
         EnableServices(o, v), failures' = failures
  PROVE  Kept'
<1> DEFINE there == 1..Instances(o) \cap DOMAIN files[v]
<1>1. ~Failure
  BY DEF Failure, PaidInv, TypeOK
<1>2. /\ enabled' = [enabled EXCEPT ![v] = @ \cup there]
      /\ pc[o] = "playbook" /\ task[o][v] = "enable"
      /\ task'[o][v] \in {"done", "failed"}
      /\ \A w \in Vms : w # v => task'[o][w] = task[o][w]
      /\ UNCHANGED <<files, paid, pc, want, keys, todo>>
  BY <1>1 DEF EnableServices, OnVm, PaidInv, TypeOK
<1>3. enabled[v] \subseteq DOMAIN files[v]
  BY DEF PaidInv, HaveFiles
<1>4. \A w \in Vms :
        \/ enabled[w] = DOMAIN files[w]
        \/ task[o][w] = "enable" /\ DOMAIN files[w] \subseteq 1..Instances(o)
  BY DEF Kept, AllEnabled, OneOperator
<1>5. enabled'[v] = DOMAIN files[v]
  <2>1. enabled'[v] = enabled[v] \cup there
    BY <1>2 DEF PaidInv, TypeOK
  <2>2. QED
    BY <1>3, <1>4, <2>1
<1>6. \A w \in Vms : w # v => enabled'[w] = enabled[w]
  BY <1>2 DEF PaidInv, TypeOK
<1> HIDE DEF there
<1>7. AllEnabled'
  BY <1>2, <1>4, <1>5, <1>6 DEF AllEnabled, Instances
<1>8. PaidIsKept'
  BY <1>2 DEF Kept, PaidIsKept, InFiles, InMap
<1>9. Matching(o)' /\ Filling(o)' /\ Placed(o)'
  BY <1>2 DEF Kept, Matching, Filling, Placed
<1>10. Served(o)'
  BY <1>2 DEF Kept, Served
<1>11. QED
  BY <1>2, <1>7, <1>8, <1>9, <1>10 DEF Kept, Dense, OneOperator

-----------------------------------------------------------------------------
\* Until the first failure every step keeps what is paid.
LEMMA StepKeepsKept ==
  ASSUME OneOperator, PaidInv, PaidInv', StatExact, Kept, [Next]_vars, failures' = failures
  PROVE  Kept'
<1>1. ~Failure
  BY DEF Failure, PaidInv, TypeOK
<1>2. CASE UNCHANGED vars
  BY <1>2 DEF vars, vms, memory, Kept, Dense, AllEnabled, PaidIsKept, Matching, Filling, Placed, Served,
              InFiles, InMap, Instances
<1>3. ASSUME NEW o \in Operators, Begin(o) PROVE Kept'
  <2>1. pc[o] = "idle" /\ pc'[o] \in {"fetch", "deal"} /\ UNCHANGED <<vms, keys, paid>>
    BY <1>3 DEF Begin, SetPc, PaidInv, TypeOK
  <2>2. QED
    BY <2>1, StillKept DEF Filling, Placed, vms
<1>4. ASSUME NEW o \in Operators, StartPlaybook(o) PROVE Kept'
  <2>1. /\ pc[o] = "pay" /\ pc'[o] = "playbook" /\ task'[o] = [v \in Vms |-> "stat"]
        /\ UNCHANGED <<vms, paid, keys, want>>
    BY <1>4 DEF StartPlaybook, SetPc, PaidInv, TypeOK
  <2>2. Matching(o)' /\ Placed(o)'
    BY <2>1 DEF Kept, Matching, Placed, vms
  <2>3. QED
    BY <2>1, <2>2, PlaybookKept
<1>5. ASSUME NEW o \in Operators,
             \/ RefuseDownscale(o) \/ RefuseUnevenDeal(o) \/ DepositEnds(o)
             \/ FailsEarly(o) \/ PaymentFails(o) \/ EndPlaybook(o)
      PROVE  Kept'
  <2>1. UNCHANGED <<vms, paid>> /\ ~PaymentFails(o)
    BY <1>1, <1>5 DEF RefuseDownscale, RefuseUnevenDeal, DepositEnds, FailsEarly, PaymentFails,
                      EndPlaybook
  <2>2. PICK from : /\ End(o, from)
                    /\ from = "playbook" => \A v \in Vms : task[o][v] \in {"done", "failed"}
                    /\ from = "pay" => want[o] = 0
    BY <1>5, <2>1 DEF RefuseDownscale, RefuseUnevenDeal, DepositEnds, FailsEarly, EndPlaybook
  <2>3. QED
    BY <2>1, <2>2, EndKept
<1>6. QED
  BY <1>2, <1>3, <1>4, <1>5, FetchKept, GenerateKept, StartPayingKept, PayKept, DealKept,
     StatKept, WriteKept, EnableKept DEF Next

\* The count of failures never goes down.
LEMMA FailuresGrow ==
  ASSUME TypeOK, TypeOK', [Next]_vars
  PROVE  failures \in Nat /\ failures' \in Nat /\ (failures' = failures \/ failures' > 0)
<1>1. ASSUME NEW o \in Operators,
             \/ Begin(o) \/ FetchKeys(o) \/ GenerateKeys(o) \/ StartPaying(o)
             \/ SkipPaying(o) \/ StartPlaybook(o) \/ DealGivenKeys(o)
      PROVE  failures' = failures
  BY <1>1 DEF Begin, FetchKeys, GenerateKeys, StartPaying, SkipPaying, StartPlaybook, DealGivenKeys
<1>2. ASSUME NEW o \in Operators,
             \/ PayKey(o) \/ RefuseDownscale(o) \/ RefuseUnevenDeal(o) \/ DepositEnds(o)
             \/ FailsEarly(o) \/ PaymentFails(o) \/ EndPlaybook(o)
      PROVE  failures' = failures \/ Failure
  BY <1>2 DEF PayKey, RefuseDownscale, RefuseUnevenDeal, DepositEnds, FailsEarly,
              PaymentFails, EndPlaybook
<1>3. ASSUME NEW o \in Operators, NEW v \in Vms,
             StatFiles(o, v) \/ WriteFiles(o, v) \/ EnableServices(o, v)
      PROVE  failures' = failures \/ Failure
  BY <1>3 DEF StatFiles, WriteFiles, EnableServices
<1>4. UNCHANGED vars => failures' = failures
  BY DEF vars
<1>5. failures' = failures \/ Failure
  BY <1>1, <1>2, <1>3, <1>4 DEF Next
<1> QED BY <1>5, BoundsAssumption DEF Failure, TypeOK

\* Until the first failure, one operator's files, map and payments agree.
THEOREM KeptInvariant ==
  ASSUME OneOperator PROVE Spec => []KeptInv
<1>1. Init => StatExact /\ Kept
  <2>1. ASSUME Init
        PROVE  /\ \A k \in OwnKeys : paid[k] = "nothing"
               /\ \A v \in Vms : DOMAIN files[v] = {} /\ enabled[v] = {}
               /\ \A o \in Operators : /\ pc[o] = "idle"
                                       /\ \A v \in Vms : DOMAIN keys[o][v] = {}
    BY <2>1, NoKeysTyped, GivenAreNotOwn DEF Init, Keys
  <2>2. ASSUME Init PROVE Dense
    <3>1. 0 \in 0..MaxServices /\ 1..0 = {}
      BY BoundsAssumption
    <3>2. QED
      BY <2>1, <2>2, <3>1 DEF Dense
  <2>3. QED
    BY <2>1, <2>2 DEF StatExact, Kept, AllEnabled, PaidIsKept, Matching, Filling, Placed, Served
<1>2. KeptInv /\ PaidInv' /\ [Next]_vars => KeptInv'
  <2>1. SUFFICES ASSUME KeptInv, PaidInv', [Next]_vars PROVE KeptInv'
    OBVIOUS
  <2>2. StatExact'
    BY <2>1, StatStaysExact DEF KeptInv
  <2>3. failures \in Nat /\ failures' \in Nat /\ (failures' = failures \/ failures' > 0)
    BY <2>1, FailuresGrow DEF KeptInv, PaidInv
  <2>4. CASE failures' = failures /\ Kept
    BY <2>1, <2>2, <2>4, StepKeepsKept DEF KeptInv
  <2>5. QED
    BY <2>1, <2>2, <2>3, <2>4 DEF KeptInv
<1>4. QED
  BY <1>1, <1>2, InitPaid, PaidInvariant, PTL DEF Spec, KeptInv

\* With one operator, and as long as nothing failed, every key that was paid
\* is in a service file or on its way there: what a command forgets when it
\* ends was not paid or is written (provisioning.rs:1489-1520).
THEOREM PaidKeysAreKept ==
  ASSUME OneOperator PROVE Spec => []NoKeyLost
<1>3. KeptInv => NoKeyLost
  <2>1. SUFFICES ASSUME PaidInv, PaidIsKept, NEW k \in OwnKeys, paid[k] # "nothing"
                 PROVE  InFiles(k) \/ InMemory(k)
    BY BoundsAssumption DEF KeptInv, Kept, NoKeyLost, PaidInv, TypeOK
  <2>2. ASSUME NEW o \in Operators, NEW v \in Vms, NEW i,
               pc[o] \in {"pay", "playbook"}, InMap(o, k, v, i)
        PROVE  InMemory(k)
    BY <2>2 DEF InMap, InMemory, Range
  <2>3. QED
    BY <2>1, <2>2 DEF PaidIsKept
<1>4. QED
  BY <1>3, KeptInvariant, PTL

-----------------------------------------------------------------------------
(***************************************************************************)
(* One operator: keys that were given, in one list only, are not shared,   *)
(* as long as nothing failed.  A command that deals out n keys per VM      *)
(* leaves the service files 1 to n on each of them, and a list is dealt    *)
(* with the same n each time: a later deal of the same keys, in another    *)
(* order, finds files in all the places that it has keys for.              *)
(***************************************************************************)
KeysOf(l) == {GivenKey(w) : w \in Range(l)}
OnceKeys == {GivenKey(w) : w \in {x \in Wallets : ~GivenTwice(x)}}

Full(n) == \A v \in Vms : 1..n \subseteq DOMAIN files[v]

\* The command runs its playbook with n keys of the list for each VM, all
\* different.
DealtMap(o, l, n) ==
  /\ Len(l) = n * NumVms
  /\ pc[o] = "playbook" /\ n <= want[o]
  /\ \A v \in Vms : DOMAIN keys[o][v] = 1..n
  /\ \A v, w \in Vms, i, j \in 1..n : keys[o][v][i] = keys[o][w][j] => v = w /\ i = j
  /\ \A v \in Vms, i \in 1..n : keys[o][v][i] \in KeysOf(l)
  /\ \A v \in Vms : task[o][v] \in {"enable", "done", "failed"} => 1..n \subseteq DOMAIN files[v]

\* The given keys in the map were read from service files.
FromFiles(o) ==
  \A k \in GivenKeys, v \in Vms, i \in Nat : InMap(o, k, v, i) => i \in DOMAIN files[v]

\* A key that is in one list only has one place in the files.
OneFile ==
  \A k \in OnceKeys, v, w \in Vms, i, j \in Nat : InFile(k, v, i) /\ InFile(k, w, j) => v = w /\ i = j

\* A key of a deal that is not over is where that deal has it.
Settled ==
  \A l \in GivenLists, n \in Services, k \in OnceKeys, v \in Vms, i \in Nat :
    Len(l) = n * NumVms /\ k \in KeysOf(l) /\ InFile(k, v, i) =>
      Full(n) \/ \E o \in Operators : DealtMap(o, l, n) /\ InMap(o, k, v, i)

Mapped ==
  \A o \in Operators : FromFiles(o) \/ \E l \in GivenLists, n \in Services : DealtMap(o, l, n)

GivenInv == OneFile /\ Settled /\ Mapped

\* A key that is in one list only is a key of no other list.
LEMMA OneList ==
  ASSUME NEW k \in OnceKeys, NEW l1 \in GivenLists, NEW l2 \in GivenLists,
         k \in KeysOf(l1), k \in KeysOf(l2)
  PROVE  l1 = l2
<1>1. PICK w \in Wallets : k = GivenKey(w) /\ ~GivenTwice(w)
  BY DEF OnceKeys
<1>2. w \in Range(l1) /\ w \in Range(l2)
  BY <1>1 DEF KeysOf, GivenKey
<1> QED BY <1>1, <1>2 DEF GivenTwice

\* The VMs' keys per list: a list of one length gives one number of them.
LEMMA OneCount ==
  ASSUME NEW m \in Nat, NEW n \in Nat, m * NumVms = n * NumVms
  PROVE  m = n
<1>1. NumVms \in Nat /\ NumVms >= 1
  BY BoundsAssumption
<1>2. (m - n) * NumVms = 0
  <2>1. \A a, b, c \in Int : (a - b) * c = a * c - b * c
    OBVIOUS
  <2> QED BY <1>1, <2>1
<1>3. \A a, b \in Int : a * b = 0 => a = 0 \/ b = 0
  OBVIOUS
<1>4. m - n \in Int
  OBVIOUS
<1> QED BY <1>1, <1>2, <1>3, <1>4

\* No two VMs are dealt the key of the same place.
LEMMA DealsDiffer ==
  ASSUME NEW n \in Nat, NEW r \in Vms, NEW q \in Vms, NEW i \in 1..n, NEW j \in 1..n,
         (r - 1) * n + i = (q - 1) * n + j
  PROVE  r = q /\ i = j
<1>1. r \in Nat /\ q \in Nat /\ r >= 1 /\ q >= 1 /\ i \in Nat /\ j \in Nat
  BY BoundsAssumption DEF Vms
<1>3. \A a, b, c \in Nat : a > b => (a - 1) * c >= (b - 1) * c + c
  <2> SUFFICES ASSUME NEW a \in Nat, NEW b \in Nat, NEW c \in Nat, a > b
               PROVE  (a - 1) * c >= (b - 1) * c + c
    OBVIOUS
  <2>1. PICK d \in Nat : a - 1 = b + d
    <3>1. a - 1 - b \in Nat /\ a - 1 = b + (a - 1 - b)
      OBVIOUS
    <3> QED BY <3>1
  <2>2. (b + d) * c = b * c + d * c /\ b * c = (b - 1) * c + c
    OBVIOUS
  <2>3. d * c \in Nat /\ b * c \in Int /\ (b - 1) * c \in Int
    OBVIOUS
  <2> QED BY <2>1, <2>2, <2>3
<1>4. (r - 1) * n \in Int /\ (q - 1) * n \in Int
  BY <1>1
<1>5. ~(r > q)
  BY <1>1, <1>3, <1>4
<1>6. ~(q > r)
  BY <1>1, <1>3, <1>4
<1>7. r = q
  BY <1>1, <1>5, <1>6
<1> QED BY <1>1, <1>4, <1>7

\* A VM is dealt no more keys than the uploaders that the command asks for.
LEMMA DealtFits ==
  ASSUME NEW o \in Operators, TypeOK, NEW l, NEW n \in Services, Deals(o, l, n)
  PROVE  n <= want[o]
<1>1. want[o] \in Nat /\ NumVms \in Nat /\ NumVms >= 1 /\ n \in Nat
  BY BoundsAssumption DEF TypeOK, Services
<1>2. CASE n * NumVms = want[o] * NumVms
  <2>1. n = want[o]
    BY <1>1, <1>2, OneCount
  <2> QED BY <1>1, <2>1
<1>3. CASE n * NumVms = want[o]
  <2>1. \A a, b \in Nat : b >= 1 => a * b >= a
    OBVIOUS
  <2> QED BY <1>1, <1>3, <2>1
<1> QED BY <1>2, <1>3 DEF Deals, GivenCounts

\* A key has one place in the map of a deal.
LEMMA DealtOnce ==
  ASSUME NEW o \in Operators, NEW l, NEW n, DealtMap(o, l, n), NEW k,
         NEW v \in Vms, NEW i, InMap(o, k, v, i)
  PROVE  /\ k \in KeysOf(l) /\ i \in 1..n
         /\ \A w \in Vms : \A j : InMap(o, k, w, j) => v = w /\ i = j
<1>1. /\ \A u \in Vms : DOMAIN keys[o][u] = 1..n
      /\ \A u, w \in Vms : \A x, y \in 1..n : keys[o][u][x] = keys[o][w][y] => u = w /\ x = y
      /\ \A u \in Vms : \A x \in 1..n : keys[o][u][x] \in KeysOf(l)
  BY Zenon DEF DealtMap
<1>2. i \in 1..n /\ keys[o][v][i] = k
  BY <1>1 DEF InMap
<1>3. ASSUME NEW w \in Vms, NEW j, InMap(o, k, w, j) PROVE v = w /\ i = j
  <2>1. j \in 1..n /\ keys[o][w][j] = k
    BY <1>1, <1>3 DEF InMap
  <2> QED BY <1>1, <1>2, <2>1
<1> QED BY <1>1, <1>2, <1>3

\* Steps that leave the files alone, give no key a place, and do not take a
\* command out of its playbook.
LEMMA StillGiven ==
  ASSUME OneOperator, TypeOK, GivenInv, files' = files, NEW o \in Operators,
         \A k \in GivenKeys, v \in Vms, i \in Nat : Holds(k, v, i)' => Holds(k, v, i),
         pc[o] # "playbook"
  PROVE  GivenInv'
<1>1. OneFile'
  BY DEF GivenInv, OneFile, InFile
<1>2. \A l, n : ~DealtMap(o, l, n)
  BY DEF DealtMap
<1>3. Settled'
  BY <1>2 DEF GivenInv, Settled, InFile, Full, OneOperator
<1>4. FromFiles(o)
  BY <1>2 DEF GivenInv, Mapped
<1>5. FromFiles(o)'
  <2>1. SUFFICES ASSUME NEW k \in GivenKeys, NEW v \in Vms, NEW i \in Nat, InMap(o, k, v, i)'
                 PROVE  i \in DOMAIN files[v]
    BY DEF FromFiles
  <2>2. Holds(k, v, i)
    BY <2>1 DEF Holds
  <2>3. InFile(k, v, i) \/ InMap(o, k, v, i)
    BY <2>2 DEF Holds, OneOperator
  <2> QED BY <1>4, <2>3 DEF InFile, FromFiles
<1> QED BY <1>1, <1>3, <1>5 DEF GivenInv, Mapped, OneOperator

\* A playbook that ends has written all that was dealt.
LEMMA EndGiven ==
  ASSUME OneOperator, TypeOK, GivenInv, NEW o \in Operators, NEW from, End(o, from),
         files' = files,
         from = "playbook" => \A v \in Vms : task[o][v] \in {"done", "failed"}
  PROVE  GivenInv'
<1>1. pc[o] = from /\ keys'[o] = NoKeys
  BY DEF End, SetPc, TypeOK
<1>2. OneFile'
  BY DEF GivenInv, OneFile, InFile
<1>3. \A l, n : DealtMap(o, l, n) => Full(n)
  BY <1>1 DEF DealtMap, Full
<1>4. Settled'
  BY <1>3 DEF GivenInv, Settled, InFile, Full, OneOperator
<1>5. FromFiles(o)'
  BY <1>1, NoKeysTyped DEF FromFiles, InMap
<1> QED BY <1>2, <1>4, <1>5 DEF GivenInv, Mapped, OneOperator

\* The deal itself.
LEMMA DealGiven ==
  ASSUME OneOperator, TypeOK, GivenInv, NEW o \in Operators, DealGivenKeys(o)
  PROVE  GivenInv'
<1>1. PICK l \in GivenLists, n \in Services, order \in [Vms -> Vms] :
        /\ Deals(o, l, n) /\ IsInjective(order)
        /\ keys' = [keys EXCEPT ![o] =
             [v \in Vms |-> [i \in 1..n |-> GivenKey(l[(order[v] - 1) * n + i])]]]
  BY DEF DealGivenKeys
<1> DEFINE at(v, i) == (order[v] - 1) * n + i
           dealt(v) == [i \in 1..n |-> GivenKey(l[at(v, i)])]
<1>2. n \in Nat /\ n <= want[o] /\ Len(l) = n * NumVms
  BY <1>1, DealtFits, BoundsAssumption DEF Services, Deals
<1>3. /\ pc[o] = "deal" /\ pc'[o] = "playbook" /\ task'[o] = [v \in Vms |-> "stat"]
      /\ files' = files /\ want' = want
  BY DEF DealGivenKeys, SetPc, TypeOK, vms
<1>4. \A v \in Vms : keys'[o][v] = dealt(v)
  BY <1>1 DEF TypeOK
<1>5. \A v \in Vms : /\ DOMAIN dealt(v) = 1..n
                     /\ \A i \in 1..n : dealt(v)[i] = GivenKey(l[at(v, i)])
  OBVIOUS
<1>6. \A v \in Vms : \A i \in 1..n : at(v, i) \in DOMAIN l
  <2> SUFFICES ASSUME NEW v \in Vms, NEW i \in 1..n PROVE at(v, i) \in DOMAIN l
    OBVIOUS
  <2>1. order[v] \in Vms
    OBVIOUS
  <2> QED BY <1>2, <2>1, DealtKeys
<1>7. ASSUME NEW v \in Vms, NEW w \in Vms, NEW i \in 1..n, NEW j \in 1..n, at(v, i) = at(w, j)
      PROVE  v = w /\ i = j
  <2>1. order[v] \in Vms /\ order[w] \in Vms
    OBVIOUS
  <2>2. order[v] = order[w] /\ i = j
    BY <1>2, <1>7, <2>1, DealsDiffer
  <2>3. DOMAIN order = Vms /\ IsInjective(order)
    BY <1>1
  <2> QED BY <2>2, <2>3 DEF IsInjective
<1> HIDE DEF dealt, at
<1>8. \A v, w \in Vms, i, j \in 1..n : dealt(v)[i] = dealt(w)[j] => v = w /\ i = j
  <2> SUFFICES ASSUME NEW v \in Vms, NEW w \in Vms, NEW i \in 1..n, NEW j \in 1..n,
                      dealt(v)[i] = dealt(w)[j]
               PROVE  v = w /\ i = j
    OBVIOUS
  <2>1. l[at(v, i)] = l[at(w, j)]
    BY <1>5 DEF GivenKey
  <2>2. IsInjective(l)
    BY GivenAssumption
  <2>3. at(v, i) = at(w, j)
    BY <1>6, <2>1, <2>2 DEF IsInjective
  <2> QED BY <1>7, <2>3
<1>9. \A v \in Vms, i \in 1..n : dealt(v)[i] \in KeysOf(l)
  BY <1>5, <1>6 DEF KeysOf, Range
<1>10. DealtMap(o, l, n)'
  BY <1>2, <1>3, <1>4, <1>5, <1>8, <1>9 DEF DealtMap
<1>11. OneFile'
  BY <1>3 DEF GivenInv, OneFile, InFile
<1>12. \A d, m : ~DealtMap(o, d, m)
  BY <1>3 DEF DealtMap
<1>13. Settled'
  BY <1>3, <1>12 DEF GivenInv, Settled, InFile, Full, OneOperator
<1> QED BY <1>10, <1>11, <1>13 DEF GivenInv, Mapped, OneOperator

\* What the playbook writes on a VM is new there, and nowhere else.
LEMMA WriteGiven ==
  ASSUME OneOperator, PaidInv, StatExact, GivenInv, NEW o \in Operators, NEW v \in Vms,
         WriteFiles(o, v), failures' = failures
  PROVE  GivenInv'
<1> DEFINE asked == {i \in DOMAIN keys[o][v] : i <= Instances(o)}
<1>1. UNCHANGED <<pc, want, keys>>
  BY CalmWrite
<1>2. /\ \A w \in Vms : w # v => files'[w] = files[w] /\ task'[o][w] = task[o][w]
      /\ pc[o] = "playbook" /\ task[o][v] = "write"
  BY CalmWrite
<1>3. /\ DOMAIN files'[v] = DOMAIN files[v] \cup asked
      /\ \A i \in DOMAIN files'[v] \ DOMAIN files[v] :
           i \in DOMAIN keys[o][v] /\ files'[v][i] = keys[o][v][i]
      /\ \A i \in DOMAIN files[v] : files'[v][i] = files[v][i]
  BY CalmWrite
<1>4. Instances(o) \in Nat /\ Instances(o) >= want[o] /\ want[o] \in Nat
  BY BoundsAssumption DEF Instances, PaidInv, TypeOK
\* Files that there were are there, and new ones have keys of the map.
<1>5. \A k, i : \A w \in Vms :
        /\ InFile(k, w, i) => InFile(k, w, i)'
        /\ InFile(k, w, i)' => \/ InFile(k, w, i)
                               \/ w = v /\ InMap(o, k, v, i) /\ i \notin DOMAIN files[v]
  BY <1>2, <1>3 DEF InFile, InMap
<1>6. \A w \in Vms : DOMAIN files[w] \subseteq DOMAIN files'[w]
  BY <1>2, <1>3
<1>7. \A n : Full(n) => Full(n)'
  BY <1>6 DEF Full
<1>8. \A k : \A w \in Vms, i \in Nat : InMap(o, k, w, i) <=> InMap(o, k, w, i)'
  BY <1>1 DEF InMap
<1>9. ASSUME NEW l \in GivenLists, NEW n \in Services, DealtMap(o, l, n) PROVE DealtMap(o, l, n)'
  <2>1. n \in Nat /\ n <= Instances(o)
    BY <1>4, <1>9, BoundsAssumption DEF DealtMap, Services
  <2>2. 1..n \subseteq asked
    BY <1>4, <1>9, <2>1 DEF DealtMap
  <2>3. 1..n \subseteq DOMAIN files'[v]
    BY <1>3, <2>2
  <2>4. \A w \in Vms : task'[o][w] \in {"enable", "done", "failed"} => 1..n \subseteq DOMAIN files'[w]
    BY <1>2, <1>9, <2>3 DEF DealtMap
  <2> QED BY <1>1, <1>9, <2>4 DEF DealtMap
<1> HIDE DEF asked
\* A key that was in a file before is as settled as it was.
<1>10. ASSUME NEW l \in GivenLists, NEW n \in Services, NEW k \in OnceKeys, NEW u \in Vms,
              NEW i \in Nat, Len(l) = n * NumVms, k \in KeysOf(l), InFile(k, u, i)
       PROVE  Full(n)' \/ \E p \in Operators : DealtMap(p, l, n)' /\ InMap(p, k, u, i)'
  <2>1. Full(n) \/ (DealtMap(o, l, n) /\ InMap(o, k, u, i))
    BY <1>10 DEF GivenInv, Settled, OneOperator
  <2> QED BY <1>7, <1>8, <1>9, <2>1
<1>11. OnceKeys \subseteq GivenKeys
  BY DEF OnceKeys, GivenKeys
<1>12. CASE FromFiles(o)
  <2>1. \A k \in GivenKeys, w \in Vms, i \in Nat : InFile(k, w, i)' => InFile(k, w, i)
    BY <1>5, <1>12 DEF FromFiles
  <2>2. OneFile'
    BY <1>11, <2>1 DEF GivenInv, OneFile
  <2>3. FromFiles(o)'
    BY <1>6, <1>8, <1>12 DEF FromFiles
  <2>4. Settled'
    <3> SUFFICES ASSUME NEW l \in GivenLists, NEW n \in Services, NEW k \in OnceKeys, NEW u \in Vms,
                        NEW i \in Nat, Len(l) = n * NumVms, k \in KeysOf(l), InFile(k, u, i)'
                 PROVE  Full(n)' \/ \E p \in Operators : DealtMap(p, l, n)' /\ InMap(p, k, u, i)'
      BY DEF Settled
    <3>1. InFile(k, u, i)
      BY <1>11, <2>1
    <3> QED BY <1>10, <3>1
  <2> QED BY <2>2, <2>3, <2>4 DEF GivenInv, Mapped, OneOperator
<1>13. ASSUME NEW d \in GivenLists, NEW m \in Services, DealtMap(o, d, m) PROVE GivenInv'
  <2>1. DealtMap(o, d, m)' /\ m \in Nat
    BY <1>9, <1>13, BoundsAssumption DEF Services
  <2>2. \A k : \A w \in Vms, i \in Nat : InMap(o, k, w, i) => k \in KeysOf(d)
    BY <1>13, DealtOnce
  <2>3. Settled'
    <3> SUFFICES ASSUME NEW l \in GivenLists, NEW n \in Services, NEW k \in OnceKeys, NEW u \in Vms,
                        NEW i \in Nat, Len(l) = n * NumVms, k \in KeysOf(l), InFile(k, u, i)'
                 PROVE  Full(n)' \/ \E p \in Operators : DealtMap(p, l, n)' /\ InMap(p, k, u, i)'
      BY DEF Settled
    <3>1. CASE InFile(k, u, i)
      BY <1>10, <3>1
    <3>2. CASE ~InFile(k, u, i)
      <4>1. InMap(o, k, u, i)
        BY <1>5, <3>2
      <4>2. l = d
        BY <2>2, <4>1, OneList
      <4>3. n = m
        <5>1. n * NumVms = m * NumVms /\ n \in Nat
          BY <1>13, <4>2, BoundsAssumption DEF DealtMap, Services
        <5> QED BY <2>1, <5>1, OneCount
      <4> QED BY <1>8, <2>1, <4>1, <4>2, <4>3
    <3> QED BY <3>1, <3>2
  <2>4. OneFile'
    <3>1. ASSUME NEW k \in OnceKeys, NEW u \in Vms, NEW i \in Nat, NEW j \in Nat,
                 InFile(k, u, i), InMap(o, k, v, j), j \notin DOMAIN files[v]
          PROVE  u = v /\ i = j
      <4>1. k \in KeysOf(d) /\ Len(d) = m * NumVms
        BY <1>13, <2>2, <3>1 DEF DealtMap
      <4>2. ~Full(m)
        <5>1. j \in 1..m
          BY <1>13, <3>1, DealtOnce
        <5> QED BY <3>1, <5>1 DEF Full
      <4>3. InMap(o, k, u, i)
        BY <3>1, <4>1, <4>2 DEF GivenInv, Settled, OneOperator
      <4> QED BY <1>13, <3>1, <4>3, DealtOnce
    <3>2. \A k : \A i, j \in Nat : InMap(o, k, v, i) /\ InMap(o, k, v, j) => i = j
      BY <1>13, DealtOnce
    <3> QED BY <1>5, <3>1, <3>2 DEF GivenInv, OneFile
  <2> QED BY <2>1, <2>3, <2>4 DEF GivenInv, Mapped, OneOperator
<1> QED BY <1>12, <1>13 DEF GivenInv, Mapped

\* The other steps of the playbook touch neither files nor maps.
LEMMA TaskGiven ==
  ASSUME OneOperator, PaidInv, GivenInv, NEW o \in Operators, NEW v \in Vms,
         StatFiles(o, v) \/ EnableServices(o, v)
  PROVE  GivenInv'
<1>1. UNCHANGED <<files, pc, want, keys>>
  BY DEF StatFiles, EnableServices, vms
<1>2. \A w \in Vms : task'[o][w] \in {"enable", "done", "failed"}
                       => task[o][w] \in {"enable", "done", "failed"}
  BY DEF StatFiles, EnableServices, OnVm, PaidInv, TypeOK
<1>3. \A l, n : DealtMap(o, l, n) => DealtMap(o, l, n)'
  BY <1>1, <1>2 DEF DealtMap
<1>4. OneFile'
  BY <1>1 DEF GivenInv, OneFile, InFile
<1>5. Settled'
  BY <1>1, <1>3 DEF GivenInv, Settled, InFile, InMap, Full, OneOperator
<1>6. Mapped'
  BY <1>1, <1>3 DEF GivenInv, Mapped, FromFiles, InMap, OneOperator
<1> QED BY <1>4, <1>5, <1>6 DEF GivenInv

LEMMA StepKeepsGiven ==
  ASSUME OneOperator, PlaceInv, PaidInv', StatExact, GivenInv, [Next]_vars,
         failures' = failures
  PROVE  GivenInv'
<1> USE DEF PlaceInv, PaidInv
<1>1. CASE UNCHANGED vars
  BY <1>1 DEF vars, vms, memory, GivenInv, OneFile, Settled, Mapped, FromFiles, DealtMap, Full,
              InFile, InMap
<1>2. ASSUME NEW o \in Operators, GenerateKeys(o) PROVE GivenInv'
  <2>1. files' = files /\ pc[o] # "playbook"
    BY <1>2 DEF GenerateKeys, vms
  <2> QED BY <1>2, <2>1, GeneratePlaces, StillGiven
<1>3. ASSUME NEW o \in Operators,
             \/ Begin(o) \/ FetchKeys(o) \/ StartPaying(o) \/ SkipPaying(o) \/ PayKey(o)
             \/ StartPlaybook(o)
      PROVE  GivenInv'
  <2>1. files' = files /\ pc[o] # "playbook"
    BY <1>3 DEF Begin, FetchKeys, StartPaying, SkipPaying, PayKey, StartPlaybook, SetPc, vms
  <2>2. NoNewPlace
    <3>1. CASE FetchKeys(o)
      BY <3>1, FetchPlaces
    <3>2. CASE ~FetchKeys(o)
      <4>1. keys' = keys \/ \E from : End(o, from)
        BY <1>3, <3>2 DEF Begin, StartPaying, SkipPaying, PayKey, StartPlaybook, memory
      <4> QED BY <2>1, <4>1, StillPlaces, EndPlaces
    <3> QED BY <3>1, <3>2
  <2> QED BY <2>1, <2>2, StillGiven DEF NoNewPlace, Keys
<1>4. ASSUME NEW o \in Operators,
             \/ RefuseDownscale(o) \/ RefuseUnevenDeal(o) \/ DepositEnds(o)
             \/ FailsEarly(o) \/ PaymentFails(o) \/ EndPlaybook(o)
      PROVE  GivenInv'
  <2>1. PICK from : /\ End(o, from) /\ files' = files
                    /\ from = "playbook" => \A v \in Vms : task[o][v] \in {"done", "failed"}
    BY <1>4 DEF RefuseDownscale, RefuseUnevenDeal, DepositEnds, FailsEarly, PaymentFails,
                EndPlaybook, vms
  <2> QED BY <2>1, EndGiven
<1> QED
  BY <1>1, <1>2, <1>3, <1>4, DealGiven, WriteGiven, TaskGiven DEF Next

SharedInv == PlaceInv /\ StatExact /\ (failures > 0 \/ GivenInv)

\* One operator's uploaders share no wallet, whether their keys were made up or
\* given; of a key that was given this is so until something fails, and if it
\* is in one list only (cmd/clients.rs:233, funding.rs:116-151).  Nothing else
\* is asked of the lists: any number of them, of any lengths.
THEOREM KeysAreNotShared ==
  ASSUME OneOperator PROVE Spec => []NoSharedKey
<1>1. Init => StatExact /\ GivenInv
  <2>1. ASSUME Init
        PROVE  /\ \A v \in Vms : DOMAIN files[v] = {}
               /\ \A o \in Operators : pc[o] = "idle" /\ \A v \in Vms : DOMAIN keys[o][v] = {}
    BY <2>1, NoKeysTyped DEF Init
  <2> QED
    BY <2>1 DEF StatExact, GivenInv, OneFile, Settled, Mapped, FromFiles, InFile, InMap
<1>2. SharedInv /\ PlaceInv' /\ [Next]_vars => SharedInv'
  <2> SUFFICES ASSUME SharedInv, PlaceInv', [Next]_vars PROVE SharedInv'
    OBVIOUS
  <2>1. StatExact'
    BY StatStaysExact DEF SharedInv, PlaceInv
  <2>2. failures \in Nat /\ failures' \in Nat /\ (failures' = failures \/ failures' > 0)
    BY FailuresGrow DEF SharedInv, PlaceInv, PaidInv
  <2>3. CASE failures' = failures /\ GivenInv
    BY <2>1, <2>3, StepKeepsGiven DEF SharedInv, PlaceInv
  <2> QED BY <2>1, <2>2, <2>3 DEF SharedInv
<1>3. SharedInv => NoSharedKey
  <2> SUFFICES ASSUME SharedInv, NEW v \in Vms, NEW w \in Vms,
                      NEW i \in DOMAIN files[v], NEW j \in DOMAIN files[w],
                      files[v][i] = files[w][j],
                      ~MayBeShared(files[v][i])
               PROVE  v = w /\ i = j
    BY DEF NoSharedKey
  <2>1. i \in Nat /\ j \in Nat /\ files[v][i] \in Keys
    BY FilesHeld, PlacesAreNumbers DEF SharedInv, PlaceInv, PaidInv
  <2>2. InFile(files[v][i], v, i) /\ InFile(files[v][i], w, j)
    BY DEF InFile
  <2>3. CASE files[v][i] \in OwnKeys
    BY <2>1, <2>2, <2>3 DEF SharedInv, PlaceInv, OnePlace, Holds
  <2>4. CASE files[v][i] \in GivenKeys
    <3>1. PICK x \in Wallets : files[v][i] = GivenKey(x)
      BY <2>4 DEF GivenKeys
    <3>2. ~(failures > 0) /\ ~GivenTwice(x)
      BY <3>1 DEF MayBeShared
    <3>3. files[v][i] \in OnceKeys
      BY <3>1, <3>2 DEF OnceKeys
    <3> QED BY <2>1, <2>2, <3>2, <3>3 DEF SharedInv, GivenInv, OneFile
  <2> QED BY <2>1, <2>3, <2>4 DEF Keys
<1> QED BY <1>1, <1>2, <1>3, GeneratedKeysHaveOnePlace, InitPaid, PTL DEF Spec, SharedInv

\* With one operator, and until something fails, service i of a VM that the
\* playbook is done with uses the i-th key that was generated for it
\* (funding.rs:336).
THEOREM ServicesGetTheirOwn ==
  ASSUME OneOperator PROVE Spec => []CalmServicesGetTheirKeys
<1>1. KeptInv => CalmServicesGetTheirKeys
  <2> SUFFICES ASSUME PaidInv, Kept, NEW o \in Operators, NEW v \in Vms,
                      pc[o] = "playbook", task[o][v] = "done",
                      NEW i \in Zipped(o, v), keys[o][v][i] \in OwnKeys
               PROVE  files[v][i] = keys[o][v][i]
    BY BoundsAssumption DEF KeptInv, CalmServicesGetTheirKeys, ServicesGetTheirKeys, PaidInv, TypeOK
  <2>1. i \in DOMAIN keys[o][v]
    BY DEF Zipped
  <2>2. i \in DOMAIN files[v]
    BY <2>1 DEF Kept, Served
  <2> QED BY <2>1, <2>2 DEF Kept, Matching
<1> QED BY <1>1, KeptInvariant, PTL
=============================================================================
