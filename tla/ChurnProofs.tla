---------------------------- MODULE ChurnProofs ----------------------------
(***************************************************************************)
(* For any number of VMs, nodes, cycles and disturbances: what a cycle     *)
(* lists it restarts once, a churn that is left alone completes, groups    *)
(* are limited and the pauses of a batch never run backwards.              *)
(*                                                                         *)
(* All rests on the queue.  It holds each listed node once; what left it   *)
(* was restarted; and as long as nobody else is at work, a restart makes   *)
(* stale none of the peer ids that it still holds.                         *)
(***************************************************************************)
EXTENDS Churn, FiniteSetTheorems, TLAPS

\* The nodes that are listed and not restarted yet.
Queued == {queue[i].node : i \in 1..Len(queue)}

\* The queue holds each node once, and no more than was listed; what is not
\* asked yet is not listed, and the queue is empty between two cycles.
Lists ==
  /\ \A i, j \in 1..Len(queue) : queue[i].node = queue[j].node => i = j
  /\ \A i \in 1..Len(queue) : queue[i].node \in listed
  /\ \A n \in listed : n[1] \notin todo
  /\ pc = "cycle" => queue = <<>>
  /\ mode = "fixed" /\ pc = "list" => queue = <<>>

\* There is no cycle too many.
InCycle == pc \notin {"cycle", "done"} => cycle < cycles

\* In each cycle the nodes that left the queue were restarted, once.
Counted == \A n \in Nodes : restarts[n] = IF n \in listed \ Queued THEN 1 ELSE 0

\* The peer ids in the queue are those of the nodes, unless somebody else is at
\* work.
Fresh == events = 0 => \A i \in 1..Len(queue) : queue[i].peer = peer[queue[i].node]

\* The cuts are in order, begin after the clock, and last for the batch.
CutsAhead ==
  /\ mode = "fixed" => frame = 0
  /\ mode = "random" =>
       /\ \A i \in 1..Len(cuts) - 1 : cuts[i] <= cuts[i + 1]
       /\ cuts # <<>> => clock <= cuts[1]
       /\ IF pc = "pause" THEN frame < Len(cuts) ELSE frame <= Len(cuts)

\* The restarts of a VM that earlier cycles left without a pause after them.
Earlier == cycle * (Most - 1)

\* The counter of a group bounds what this cycle adds to them on the VM at hand;
\* on the VMs to come it has added nothing.
Bursts ==
  mode = "fixed" =>
    /\ \A i, j \in 1..Len(queue) : queue[i].node[1] = queue[j].node[1]
    /\ group = 0 \/ group < limit
    /\ \A v \in Vms : burst[v] <= Earlier + Most
    /\ pc # "pause" => \A v \in Vms : burst[v] <= Earlier + (Most - 1)
    /\ \A v \in todo : burst[v] <= Earlier
    /\ pc = "cycle" => \A v \in Vms : burst[v] <= Earlier
    /\ pc = "restart" => \A i \in 1..Len(queue) : burst[queue[i].node[1]] <= Earlier + group

Inv ==
  /\ TypeOK /\ Lists /\ InCycle /\ Counted /\ Fresh /\ CutsAhead /\ Bursts
  /\ CalmChurnCompletes

-----------------------------------------------------------------------------
(***************************************************************************)
(* Numbers and sequences.                                                  *)
(***************************************************************************)

\* The smaller and the greater of two numbers.
LEMMA MinMax ==
  ASSUME NEW a \in Nat, NEW b \in Nat
  PROVE  /\ Min({a, b}) = IF a <= b THEN a ELSE b
         /\ Max({a, b}) = IF a >= b THEN a ELSE b
<1>1. CASE a <= b
  <2>1. Min({a, b}) = a
    BY <1>1 DEF Min
  <2>2. Max({a, b}) = b
    BY <1>1 DEF Max
  <2>3. QED
    BY <1>1, <2>1, <2>2
<1>2. CASE a > b
  <2>1. Min({a, b}) = b
    BY <1>2 DEF Min
  <2>2. Max({a, b}) = a
    BY <1>2 DEF Max
  <2>3. QED
    BY <1>2, <2>1, <2>2
<1>3. QED
  BY <1>1, <1>2

\* Each cycle may leave one restart less than a group.
LEMMA EarlierGrows ==
  ASSUME TypeOK
  PROVE  /\ Most \in Nat /\ Most >= 1 /\ Most >= limit /\ Earlier \in Nat
         /\ limit' = limit => Most' = Most
         /\ limit' = limit /\ cycle' = cycle => Earlier' = Earlier
         /\ limit' = limit /\ cycle' = cycle + 1 => Earlier' = Earlier + (Most - 1)
<1>1. limit \in Nat /\ cycle \in Nat
  BY BoundsAssumption DEF TypeOK
<1>2. Most \in Nat /\ Most >= 1 /\ Most >= limit
  BY <1>1, MinMax DEF Most
<1>3. limit' = limit => Most' = Most
  BY DEF Most
<1>4. cycle * (Most - 1) \in Nat
  <2>1. \A a, b \in Nat : a * b \in Nat
    OBVIOUS
  <2> QED BY <1>1, <1>2, <2>1
<1>5. (cycle + 1) * (Most - 1) = cycle * (Most - 1) + (Most - 1)
  <2>1. \A a, b \in Nat : (a + 1) * b = a * b + b
    OBVIOUS
  <2>2. Most - 1 \in Nat
    BY <1>2
  <2> QED BY <1>1, <2>1, <2>2
<1> QED BY <1>2, <1>3, <1>4, <1>5 DEF Earlier

\* A daemon answers with each node of its VM that runs, once.
LEMMA Answer ==
  ASSUME TypeOK, NEW v \in Vms, NEW order \in RunningNodes(v)
  PROVE  /\ order \in Seq(Nodes) /\ DOMAIN order = 1..Len(order)
         /\ \A i, j \in 1..Len(order) : order[i] = order[j] => i = j
         /\ \A n : n \in running /\ n[1] = v <=> \E i \in 1..Len(order) : order[i] = n
<1> DEFINE here == {n \in running : n[1] = v}
<1>1. IsFiniteSet(here)
  <2>1. IsFiniteSet(1..MaxNodes)
    BY BoundsAssumption, FS_Interval
  <2>2. IsFiniteSet(Nodes)
    BY <2>1, BoundsAssumption, FS_Product DEF Nodes
  <2>3. here \subseteq Nodes
    BY DEF TypeOK
  <2>4. QED
    BY <2>2, <2>3, FS_Subset
<1>2. Cardinality(here) \in Nat
  BY <1>1, FS_CardinalityType
<1>3. /\ order \in [1..Cardinality(here) -> here]
      /\ \A i, j \in 1..Cardinality(here) : i # j => order[i] # order[j]
  BY DEF RunningNodes, SetToSeqs
<1>4. order \in Injection(1..Cardinality(here), here)
  BY <1>3 DEF Injection, IsInjective
<1>5. order \in Surjection(1..Cardinality(here), here)
  <2>1. Cardinality(1..Cardinality(here)) = Cardinality(here)
    BY <1>2, FS_Interval
  <2>2. QED
    BY <1>1, <1>4, <2>1, FS_Injection
<1>6. \A n \in here : \E i \in 1..Cardinality(here) : order[i] = n
  BY <1>5 DEF Surjection
<1>7. here \subseteq Nodes
  BY DEF TypeOK
<1>8. order \in Seq(Nodes) /\ Len(order) = Cardinality(here)
  BY <1>2, <1>3, <1>7
<1>9. QED
  BY <1>2, <1>3, <1>6, <1>8

\* What is left of a sequence without its first element.
LEMMA TailFacts ==
  ASSUME NEW S, NEW q \in Seq(S), q # <<>>
  PROVE  /\ Len(q) \in Nat /\ 1 \in 1..Len(q) /\ Head(q) = q[1] /\ q[1] \in S
         /\ Tail(q) \in Seq(S) /\ Len(Tail(q)) = Len(q) - 1
         /\ \A i \in 1..Len(Tail(q)) :
              i + 1 \in 1..Len(q) /\ i + 1 # 1 /\ Tail(q)[i] = q[i + 1] /\ Tail(q)[i] \in S
<1>1. Len(q) \in Nat /\ Len(q) # 0
  OBVIOUS
<1>2. 1 \in 1..Len(q) /\ Head(q) = q[1] /\ q[1] \in S
  BY <1>1
<1>3. Tail(q) \in Seq(S) /\ Len(Tail(q)) = Len(q) - 1
  BY <1>1
<1>4. \A i \in 1..Len(q) - 1 : i + 1 \in 1..Len(q) /\ i + 1 # 1 /\ Tail(q)[i] = q[i + 1]
  BY <1>1
<1>5. \A i \in 1..Len(q) : q[i] \in S
  BY <1>1
<1>6. QED
  BY <1>1, <1>2, <1>3, <1>4, <1>5

\* What a restart does to the lists: the node leaves the queue and is counted,
\* and the others keep their peer ids.
LEMMA RestartKeeps ==
  ASSUME Inv, queue # <<>>, Restarted(Head(queue)), UNCHANGED <<todo, listed, events>>,
         pc' \in {"pause", "restart"}
  PROVE  /\ queue' \in Seq(Entries) /\ Len(queue') = Len(queue) - 1
         /\ running' \subseteq Nodes /\ peer' \in [Nodes -> Nat]
         /\ restarts' \in [Nodes -> Nat] /\ burst' \in [Vms -> Nat]
         /\ Lists' /\ Counted' /\ Fresh'
<1> DEFINE e == queue[1]
<1>1. TypeOK /\ Lists /\ Counted /\ Fresh
  BY DEF Inv
<1>2. /\ Len(queue) \in Nat /\ 1 \in 1..Len(queue) /\ Head(queue) = e /\ e \in Entries
      /\ queue' \in Seq(Entries) /\ Len(queue') = Len(queue) - 1
      /\ \A i \in 1..Len(queue') :
           i + 1 \in 1..Len(queue) /\ i + 1 # 1 /\ queue'[i] = queue[i + 1] /\ queue'[i] \in Entries
  BY <1>1, TailFacts DEF Restarted, TypeOK
<1>3. /\ e.node \in Nodes /\ e.node[1] \in Vms
      /\ \A i \in 1..Len(queue') : queue'[i].node \in Nodes
  BY <1>2 DEF Entries, Nodes
<1>4. /\ running' \subseteq Nodes /\ peer' \in [Nodes -> Nat]
      /\ restarts' \in [Nodes -> Nat] /\ burst' \in [Vms -> Nat]
  <2>1. /\ peer \in [Nodes -> Nat] /\ running \subseteq Nodes
        /\ restarts \in [Nodes -> Nat] /\ burst \in [Vms -> Nat]
    BY <1>1 DEF TypeOK
  <2>2. QED
    BY <1>2, <1>3, <2>1 DEF Restarted
<1>5. \A i \in 1..Len(queue') : queue'[i].node # e.node
  <2> HIDE DEF e
  <2>1. SUFFICES ASSUME NEW i \in 1..Len(queue') PROVE queue[i + 1].node # e.node
    BY <1>2
  <2>2. queue[i + 1].node = queue[1].node => i + 1 = 1
    BY <1>1, <1>2 DEF Lists
  <2>3. QED
    BY <1>2, <2>2 DEF e
<1>6. Lists'
  <2>1. \A i, j \in 1..Len(queue') : queue'[i].node = queue'[j].node => i = j
    <3>1. SUFFICES ASSUME NEW i \in 1..Len(queue'), NEW j \in 1..Len(queue'),
                          queue[i + 1].node = queue[j + 1].node
                   PROVE  i = j
      BY <1>2
    <3>2. i + 1 = j + 1
      BY <1>1, <1>2, <3>1 DEF Lists
    <3>3. QED
      BY <3>2
  <2>2. \A i \in 1..Len(queue') : queue'[i].node \in listed'
    BY <1>1, <1>2 DEF Lists
  <2>3. QED
    BY <1>1, <2>1, <2>2 DEF Lists
<1>7. \A n : n \in Queued' <=> n \in Queued /\ n # e.node
  <2>1. ASSUME NEW n, n \in Queued' PROVE n \in Queued /\ n # e.node
    BY <1>2, <1>5, <2>1 DEF Queued
  <2>2. ASSUME NEW n, n \in Queued, n # e.node PROVE n \in Queued'
    <3>1. PICK i \in 1..Len(queue) : queue[i].node = n
      BY <2>2 DEF Queued
    <3>2. i # 1 /\ i - 1 \in 1..Len(queue') /\ queue'[i - 1] = queue[i]
      BY <1>2, <2>2, <3>1
    <3>3. QED
      BY <3>1, <3>2 DEF Queued
  <2>3. QED
    BY <2>1, <2>2
<1>8. Counted'
  <2>1. e.node \in Queued /\ e.node \in listed
    BY <1>1, <1>2 DEF Queued, Lists
  <2>2. restarts[e.node] = 0
    BY <1>1, <1>3, <2>1 DEF Counted
  <2>3. restarts' = [restarts EXCEPT ![e.node] = restarts[e.node] + 1] /\ listed' = listed
    BY <1>2 DEF Restarted
  <2>4. \A n \in Nodes : restarts'[n] = IF n = e.node THEN 1 ELSE restarts[n]
    BY <1>1, <1>3, <2>2, <2>3 DEF TypeOK
  <2>5. QED
    BY <1>1, <1>7, <2>1, <2>3, <2>4 DEF Counted
<1>9. Fresh'
  <2>1. \A n \in Nodes : n # e.node => peer'[n] = peer[n]
    BY <1>1, <1>2 DEF Restarted, TypeOK
  <2>2. QED
    BY <1>1, <1>2, <1>3, <1>5, <2>1 DEF Fresh
<1>10. QED
  BY <1>2, <1>4, <1>6, <1>8, <1>9

\* Two sequences in a row.
LEMMA ConcatFacts ==
  ASSUME NEW S, NEW p \in Seq(S), NEW q \in Seq(S), NEW r, r = p \o q
  PROVE  /\ r \in Seq(S) /\ Len(r) = Len(p) + Len(q)
         /\ Len(p) \in Nat /\ Len(q) \in Nat
         /\ \A k \in 1..Len(r) :
              \/ k \in 1..Len(p) /\ r[k] = p[k]
              \/ k - Len(p) \in 1..Len(q) /\ r[k] = q[k - Len(p)]
         /\ \A i \in 1..Len(p) : i \in 1..Len(r) /\ r[i] = p[i]
         /\ \A i \in 1..Len(q) : Len(p) + i \in 1..Len(r) /\ r[Len(p) + i] = q[i]
<1>1. Len(p) \in Nat /\ Len(q) \in Nat
  OBVIOUS
<1>2. r \in Seq(S) /\ Len(r) = Len(p) + Len(q)
  OBVIOUS
<1>3. \A k \in 1..Len(p) + Len(q) :
        r[k] = IF k <= Len(p) THEN p[k] ELSE q[k - Len(p)]
  BY <1>1
<1>4. QED
  BY <1>1, <1>2, <1>3

-----------------------------------------------------------------------------
(***************************************************************************)
(* Each step keeps the invariant.                                          *)
(***************************************************************************)
\* Nothing is listed before the first cycle.
LEMMA InitKeeps == Init => Inv
<1> SUFFICES ASSUME Init PROVE Inv
  OBVIOUS
<1>1. TypeOK
  <2>1. <<>> \in Seq(Entries) /\ <<>> \in Seq(1..time_frame) /\ Len(<<>>) = 0
    OBVIOUS
  <2>2. /\ node_count \in [Vms -> 0..MaxNodes] /\ time_frame \in 1..MaxFrame
        /\ limit \in Nat /\ cycles \in Nat
    BY BoundsAssumption DEF Init
  <2>3. QED
    BY <2>1, <2>2, BoundsAssumption DEF Init, TypeOK
<1>2. Lists /\ InCycle /\ Counted /\ Fresh
  BY DEF Init, Lists, InCycle, Counted, Fresh, Queued
<1>3. CutsAhead /\ Bursts /\ CalmChurnCompletes
  BY <1>1, EarlierGrows, BoundsAssumption DEF Init, CutsAhead, Bursts, CalmChurnCompletes
<1>4. QED
  BY <1>1, <1>2, <1>3 DEF Inv

\* What a VM lists was not listed before, and has its peer ids of now.
LEMMA ListKeeps == ASSUME Inv, ListVm PROVE Inv'
<1>1. TypeOK /\ Lists /\ InCycle /\ Counted /\ Fresh /\ CutsAhead /\ Bursts
  BY DEF Inv
<1>2. PICK v \in todo :
        /\ todo' = todo \ {v} /\ listed' = listed \cup {n \in running : n[1] = v}
        /\ \E order \in RunningNodes(v) :
             queue' = queue \o [i \in DOMAIN order |->
                                  [node |-> order[i], peer |-> peer[order[i]]]]
  BY DEF ListVm
<1>3. PICK order \in RunningNodes(v) :
        queue' = queue \o [i \in DOMAIN order |->
                             [node |-> order[i], peer |-> peer[order[i]]]]
  BY <1>2
<1> DEFINE new == [i \in DOMAIN order |-> [node |-> order[i], peer |-> peer[order[i]]]]
<1>4. v \in Vms
  BY <1>1 DEF TypeOK
<1>5. /\ order \in Seq(Nodes) /\ DOMAIN order = 1..Len(order)
      /\ \A i, j \in 1..Len(order) : order[i] = order[j] => i = j
      /\ \A n : n \in running /\ n[1] = v <=> \E i \in 1..Len(order) : order[i] = n
  BY <1>1, <1>4, Answer
<1>6. /\ new \in Seq(Entries) /\ Len(new) = Len(order)
      /\ \A i \in 1..Len(new) :
           /\ new[i].node = order[i] /\ new[i].peer = peer[order[i]]
           /\ order[i] \in Nodes /\ order[i] \in running /\ order[i][1] = v
  <2>1. Len(order) \in Nat /\ \A i \in 1..Len(order) : order[i] \in Nodes
    BY <1>5
  <2>2. \A n \in Nodes : peer[n] \in Nat
    BY <1>1 DEF TypeOK
  <2>3. \A i \in 1..Len(order) : new[i] \in Entries
    BY <1>5, <2>1, <2>2 DEF Entries
  <2>4. new \in Seq(Entries) /\ Len(new) = Len(order)
    BY <1>5, <2>1, <2>3
  <2>5. QED
    BY <1>5, <2>1, <2>4
<1>7. queue \in Seq(Entries)
  BY <1>1 DEF TypeOK
<1> HIDE DEF new
<1>8. queue' = queue \o new
  BY <1>3 DEF new
<1>9. /\ queue' \in Seq(Entries) /\ Len(queue') = Len(queue) + Len(new)
      /\ Len(queue) \in Nat /\ Len(new) \in Nat
      /\ \A k \in 1..Len(queue') :
           \/ k \in 1..Len(queue) /\ queue'[k] = queue[k]
           \/ k - Len(queue) \in 1..Len(new) /\ queue'[k] = new[k - Len(queue)]
      /\ \A i \in 1..Len(queue) : i \in 1..Len(queue') /\ queue'[i] = queue[i]
      /\ \A i \in 1..Len(new) :
           Len(queue) + i \in 1..Len(queue') /\ queue'[Len(queue) + i] = new[i]
  <2>1. new \in Seq(Entries)
    BY <1>6
  <2>2. QED
    BY <1>7, <1>8, <2>1, ConcatFacts, SMTT(60)
<1>10. \A i \in 1..Len(queue) : queue[i].node \in listed /\ queue[i].node[1] # v
  BY <1>1 DEF Lists
<1>11. \A k \in 1..Len(queue') :
         \/ k \in 1..Len(queue) /\ queue'[k] = queue[k]
         \/ /\ k \notin 1..Len(queue)
            /\ queue'[k].node \in running /\ queue'[k].node[1] = v
            /\ queue'[k].peer = peer[queue'[k].node]
  <2>1. SUFFICES ASSUME NEW k \in 1..Len(queue'), k \notin 1..Len(queue)
                 PROVE  /\ queue'[k].node \in running /\ queue'[k].node[1] = v
                        /\ queue'[k].peer = peer[queue'[k].node]
    BY <1>9
  <2>2. k - Len(queue) \in 1..Len(new) /\ queue'[k] = new[k - Len(queue)]
    BY <1>9, <2>1
  <2>3. QED
    BY <1>6, <2>2
<1>12. TypeOK'
  <2>1. frame \in 0..Len(queue')
    BY <1>1, <1>9 DEF TypeOK
  <2>2. listed' \subseteq Nodes
    BY <1>1, <1>2 DEF TypeOK
  <2>3. QED
    BY <1>1, <1>2, <1>9, <2>1, <2>2, BoundsAssumption DEF TypeOK, ListVm, options, nodes
<1>13. Lists'
  <2>1. \A i, j \in 1..Len(queue') : queue'[i].node = queue'[j].node => i = j
    <3>1. SUFFICES ASSUME NEW i \in 1..Len(queue'), NEW j \in 1..Len(queue'),
                          queue'[i].node = queue'[j].node
                   PROVE  i = j
      OBVIOUS
    <3>2. CASE i \in 1..Len(queue) /\ j \in 1..Len(queue)
      BY <1>1, <1>9, <3>1, <3>2 DEF Lists
    <3>3. CASE i \notin 1..Len(queue) /\ j \notin 1..Len(queue)
      <4>1. /\ i - Len(queue) \in 1..Len(new) /\ j - Len(queue) \in 1..Len(new)
            /\ queue'[i] = new[i - Len(queue)] /\ queue'[j] = new[j - Len(queue)]
        BY <1>9, <3>3
      <4>2. order[i - Len(queue)] = order[j - Len(queue)]
        BY <1>6, <3>1, <4>1
      <4>3. i - Len(queue) = j - Len(queue)
        BY <1>5, <1>6, <4>1, <4>2
      <4>4. QED
        BY <1>9, <4>3
    <3>4. CASE ~(i \in 1..Len(queue) <=> j \in 1..Len(queue))
      BY <1>10, <1>11, <3>1, <3>4
    <3>5. QED
      BY <3>2, <3>3, <3>4
  <2>2. \A i \in 1..Len(queue') : queue'[i].node \in listed'
    BY <1>2, <1>10, <1>11
  <2>3. \A n \in listed' : n[1] \notin todo'
    BY <1>1, <1>2 DEF Lists
  <2>4. pc' # "cycle" /\ (mode' = "fixed" => pc' # "list")
    BY DEF ListVm, options
  <2>5. QED
    BY <2>1, <2>2, <2>3, <2>4 DEF Lists
<1>14. Counted'
  <2>1. \A n : n \in Queued' <=> n \in Queued \/ (n \in running /\ n[1] = v)
    <3>1. ASSUME NEW n, n \in Queued' PROVE n \in Queued \/ (n \in running /\ n[1] = v)
      <4>1. PICK k \in 1..Len(queue') : queue'[k].node = n
        BY <3>1 DEF Queued
      <4>2. QED
        BY <1>11, <4>1 DEF Queued
    <3>2. ASSUME NEW n, n \in Queued PROVE n \in Queued'
      <4>1. PICK k \in 1..Len(queue) : queue[k].node = n
        BY <3>2 DEF Queued
      <4>2. QED
        BY <1>9, <4>1 DEF Queued
    <3>3. ASSUME NEW n, n \in running, n[1] = v PROVE n \in Queued'
      <4>1. PICK i \in 1..Len(order) : order[i] = n
        BY <1>5, <3>3
      <4>2. Len(queue) + i \in 1..Len(queue') /\ queue'[Len(queue) + i].node = n
        BY <1>6, <1>9, <4>1
      <4>3. QED
        BY <4>2 DEF Queued
    <3>4. QED
      BY <3>1, <3>2, <3>3
  <2>2. \A n : n \in listed => n[1] # v
    BY <1>1 DEF Lists
  <2>3. \A n : n \in listed' \ Queued' <=> n \in listed \ Queued
    BY <1>2, <2>1, <2>2
  <2>4. restarts' = restarts
    BY DEF ListVm
  <2>5. QED
    BY <1>1, <2>3, <2>4 DEF Counted
<1>15. Fresh'
  <2>1. peer' = peer /\ events' = events
    BY DEF ListVm, nodes
  <2>2. QED
    BY <1>1, <1>11, <2>1 DEF Fresh
<1>16. CutsAhead'
  BY <1>1 DEF CutsAhead, ListVm, options
<1>17. Bursts'
  <2>1. SUFFICES ASSUME mode = "fixed" PROVE Bursts'
    BY DEF Bursts, ListVm, options
  <2>2. queue = <<>> /\ Len(queue) = 0
    BY <1>1, <2>1 DEF Lists, ListVm
  <2>3. \A k \in 1..Len(queue') : queue'[k].node[1] = v
    BY <1>6, <1>9, <2>2
  <2>4. group' = 0 /\ burst' = burst /\ cycle' = cycle /\ pc' = "restart" /\ limit' = limit
    BY <2>1 DEF ListVm, options
  <2>5. Most' = Most /\ Earlier' = Earlier /\ pc = "list"
    BY <1>1, <2>4, EarlierGrows DEF ListVm
  <2>6. burst[v] <= Earlier + 0 /\ v \in Vms
    BY <1>1, <1>2, <1>4, <2>1, EarlierGrows DEF Bursts, TypeOK
  <2>7. QED
    BY <1>1, <1>2, <2>1, <2>3, <2>4, <2>5, <2>6 DEF Bursts
<1>18. CalmChurnCompletes' /\ InCycle'
  BY <1>1 DEF CalmChurnCompletes, InCycle, ListVm, options
<1>19. QED
  BY <1>12, <1>13, <1>14, <1>15, <1>16, <1>17, <1>18 DEF Inv

\* A cycle begins with an empty queue and nothing restarted.
LEMMA BeginKeeps == ASSUME Inv, BeginCycle PROVE Inv'
<1>1. TypeOK /\ Lists /\ InCycle /\ Counted /\ Fresh /\ CutsAhead /\ Bursts
  BY DEF Inv
<1>2. /\ pc = "cycle" /\ pc' = "list" /\ todo' = Vms /\ listed' = {}
      /\ restarts' = [n \in Nodes |-> 0]
      /\ UNCHANGED <<options, nodes, cycle, queue, batch, burst, events>>
  BY DEF BeginCycle
<1>3. TypeOK'
  BY <1>1, <1>2 DEF TypeOK, options, nodes, batch
<1>4. queue' = <<>> /\ Len(queue') = 0
  BY <1>1, <1>2 DEF Lists
<1>5. Lists' /\ Fresh'
  BY <1>2, <1>4 DEF Lists, Fresh
<1>6. Counted'
  BY <1>2 DEF Counted
<1>7. CutsAhead' /\ CalmChurnCompletes' /\ InCycle'
  BY <1>1, <1>2 DEF CutsAhead, CalmChurnCompletes, InCycle, BeginCycle, options, batch
<1>8. Bursts'
  <2>1. Most' = Most /\ Earlier' = Earlier
    BY <1>1, <1>2, EarlierGrows DEF options
  <2>2. QED
    BY <1>1, <1>2, <2>1, EarlierGrows DEF Bursts, TypeOK, options, batch
<1>9. QED
  BY <1>3, <1>5, <1>6, <1>7, <1>8 DEF Inv

\* The ends of a churn, of a listing, of a VM and of a cycle.
LEMMA EndsKeep ==
  ASSUME Inv, EndChurn \/ EndListing \/ EndVm \/ EndCycle
  PROVE  Inv'
<1>1. TypeOK /\ Lists /\ InCycle /\ Counted /\ Fresh /\ CutsAhead /\ Bursts
  BY DEF Inv
<1>2. /\ UNCHANGED <<options, nodes, todo, queue, batch, history, events>>
      /\ pc' \in {"done", "cycle", "restart", "list"} /\ pc # "pause"
      /\ pc' = "cycle" => queue = <<>>
      /\ pc' = "list" => queue = <<>>
      /\ pc' = "restart" => mode # "fixed"
      /\ IF pc' = "cycle" THEN cycle' = cycle + 1 /\ cycle < cycles
         ELSE cycle' = cycle /\ (pc' # "done" => cycle < cycles)
  BY <1>1 DEF EndChurn, EndListing, EndVm, EndCycle, Lists, InCycle
<1>3. TypeOK'
  BY <1>1, <1>2 DEF TypeOK, options, nodes, batch, history
<1>4. Lists' /\ Fresh'
  BY <1>1, <1>2 DEF Lists, Fresh, options, nodes, history
<1>5. Counted'
  BY <1>1, <1>2 DEF Counted, Queued, history
<1>6. CutsAhead' /\ CalmChurnCompletes' /\ InCycle'
  BY <1>1, <1>2 DEF CutsAhead, CalmChurnCompletes, InCycle, options, batch
<1>7. Bursts'
  <2>1. SUFFICES ASSUME mode = "fixed" PROVE Bursts'
    BY <1>2 DEF Bursts, options
  <2>2. /\ Most' = Most /\ Most \in Nat /\ Most >= 1 /\ Earlier \in Nat /\ Earlier' \in Nat
        /\ Earlier' = IF pc' = "cycle" THEN Earlier + (Most - 1) ELSE Earlier
    BY <1>1, <1>2, EarlierGrows DEF options
  <2>3. burst \in [Vms -> Nat] /\ burst' = burst /\ todo \subseteq Vms
    BY <1>1, <1>2 DEF TypeOK, history
  <2>4. \A v \in Vms : burst[v] <= Earlier + (Most - 1)
    BY <1>1, <1>2, <2>1 DEF Bursts
  <2>5. QED
    BY <1>1, <1>2, <2>1, <2>2, <2>3, <2>4 DEF Bursts, options, batch
<1>8. QED
  BY <1>3, <1>4, <1>5, <1>6, <1>7 DEF Inv

\* A churn that fails leaves the lists as they were.
LEMMA FailuresKeep ==
  ASSUME Inv, ListFails \/ BatchPanics \/ RestartFails
  PROVE  Inv'
<1>1. TypeOK /\ Lists /\ InCycle /\ Counted /\ Fresh /\ CutsAhead /\ Bursts
  BY DEF Inv
<1>2. /\ UNCHANGED <<options, nodes, cycle, todo, queue, batch, history>>
      /\ pc' = "failed" /\ pc # "pause" /\ cycle < cycles
      /\ events' = events \/ (events' = events + 1 /\ events < MaxEvents)
  BY <1>1 DEF ListFails, BatchPanics, RestartFails, InCycle
<1>3. events \in Nat /\ events' \in 0..MaxEvents /\ (events' = 0 => events = 0)
  BY <1>1, <1>2, BoundsAssumption DEF TypeOK
<1>4. TypeOK'
  BY <1>1, <1>2, <1>3 DEF TypeOK, options, nodes, batch, history
<1>5. Lists' /\ Fresh'
  BY <1>1, <1>2, <1>3 DEF Lists, Fresh, options, nodes, history
<1>6. Counted'
  BY <1>1, <1>2 DEF Counted, Queued, history
<1>7. CutsAhead' /\ Bursts' /\ InCycle'
  <2>1. Most' = Most /\ Earlier' = Earlier
    BY <1>1, <1>2, EarlierGrows DEF options
  <2>2. QED
    BY <1>1, <1>2, <2>1 DEF CutsAhead, Bursts, InCycle, options, batch, history
<1>8. CalmChurnCompletes'
  <2>1. CASE ListFails
    <3>1. events' # 0
      BY <1>3, <2>1 DEF ListFails
    <3>2. QED
      BY <3>1 DEF CalmChurnCompletes
  <2>2. CASE BatchPanics
    BY <2>2 DEF BatchPanics, CalmChurnCompletes, options
  <2>3. CASE RestartFails
    <3>1. CASE events' = events + 1
      BY <1>3, <3>1 DEF CalmChurnCompletes
    <3>2. CASE peer[Head(queue).node] # Head(queue).peer /\ UNCHANGED events
      <4>1. queue \in Seq(Entries) /\ queue # <<>>
        BY <1>1, <2>3 DEF RestartFails, TypeOK
      <4>2. 1 \in 1..Len(queue) /\ Head(queue) = queue[1]
        BY <4>1, TailFacts
      <4>3. events # 0
        BY <1>1, <3>2, <4>2 DEF Fresh
      <4>4. QED
        BY <3>2, <4>3 DEF CalmChurnCompletes
    <3>3. QED
      BY <2>3, <3>1, <3>2 DEF RestartFails
  <2>4. QED
    BY <2>1, <2>2, <2>3
<1>9. QED
  BY <1>4, <1>5, <1>6, <1>7, <1>8 DEF Inv

\* What somebody else does to the nodes makes the peer ids in the queue stale,
\* and nothing else.
LEMMA MeanwhileKeeps == ASSUME Inv, Meanwhile PROVE Inv'
<1>1. TypeOK /\ Lists /\ InCycle /\ Counted /\ CutsAhead /\ Bursts
  BY DEF Inv
<1>2. /\ UNCHANGED <<options, pc, cycle, todo, queue, batch, history>>
      /\ pc \notin {"done", "failed"} /\ events' = events + 1 /\ events < MaxEvents
      /\ \E n \in Nodes :
           \/ running' = running \ {n} /\ UNCHANGED peer
           \/ running' = running \cup {n} /\ UNCHANGED peer
           \/ peer' = [peer EXCEPT ![n] = @ + 1] /\ UNCHANGED running
  BY DEF Meanwhile
<1>3. events' \in 0..MaxEvents /\ events' # 0
  BY <1>1, <1>2, BoundsAssumption DEF TypeOK
<1>4. running' \subseteq Nodes /\ peer' \in [Nodes -> Nat]
  <2>1. running \subseteq Nodes /\ peer \in [Nodes -> Nat]
    BY <1>1 DEF TypeOK
  <2>2. QED
    BY <1>2, <2>1
<1>5. TypeOK'
  BY <1>1, <1>2, <1>3, <1>4 DEF TypeOK, options, batch, history
<1>6. Lists' /\ Fresh' /\ CalmChurnCompletes'
  BY <1>1, <1>2, <1>3 DEF Lists, Fresh, CalmChurnCompletes, options, history
<1>7. Counted'
  BY <1>1, <1>2 DEF Counted, Queued, history
<1>8. CutsAhead' /\ Bursts' /\ InCycle'
  <2>1. Most' = Most /\ Earlier' = Earlier
    BY <1>1, <1>2, EarlierGrows DEF options
  <2>2. QED
    BY <1>1, <1>2, <2>1 DEF CutsAhead, Bursts, InCycle, options, batch, history
<1>9. QED
  BY <1>5, <1>6, <1>7, <1>8 DEF Inv


\* The counter of a group grows with the restarts on the VM at hand, and stays
\* below the limit.
LEMMA GroupKeeps == ASSUME Inv, RestartInGroup PROVE Inv'
<1>1. TypeOK /\ Lists /\ InCycle /\ Counted /\ Fresh /\ CutsAhead /\ Bursts
  BY DEF Inv
<1> DEFINE e == queue[1]
           most == Min({limit, node_count[e.node[1]]})
<1>2. /\ Len(queue) \in Nat /\ 1 \in 1..Len(queue) /\ Head(queue) = e /\ e \in Entries
      /\ \A i \in 1..Len(Tail(queue)) : i + 1 \in 1..Len(queue) /\ Tail(queue)[i] = queue[i + 1]
  BY <1>1, TailFacts DEF RestartInGroup, TypeOK
<1>3. /\ pc = "restart" /\ mode = "fixed" /\ queue # <<>> /\ Restarted(Head(queue))
      /\ IF group + 1 >= most THEN pc' = "pause" /\ UNCHANGED group
         ELSE pc' = "restart" /\ group' = group + 1
      /\ UNCHANGED <<options, cycle, todo, frame, cuts, clock, listed, events>>
  BY <1>2 DEF RestartInGroup
<1>4. /\ queue' \in Seq(Entries) /\ Len(queue') = Len(queue) - 1
      /\ running' \subseteq Nodes /\ peer' \in [Nodes -> Nat]
      /\ restarts' \in [Nodes -> Nat] /\ burst' \in [Vms -> Nat]
      /\ Lists' /\ Counted' /\ Fresh'
  BY <1>3, RestartKeeps DEF Inv
<1>5. e.node[1] \in Vms /\ e.node \in Nodes
  BY <1>2 DEF Entries, Nodes
<1>6. most \in Nat /\ most <= limit /\ limit \in 0..MaxLimit /\ group \in 0..MaxLimit
  <2>1. limit \in 0..MaxLimit /\ group \in 0..MaxLimit /\ node_count \in [Vms -> 0..MaxNodes]
    BY <1>1 DEF TypeOK
  <2>2. node_count[e.node[1]] \in Nat
    <3>1. \A v \in Vms : node_count[v] \in 0..MaxNodes
      BY <2>1
    <3>2. QED
      BY <1>5, <3>1
  <2>3. QED
    BY <2>1, <2>2, BoundsAssumption, MinMax
<1> HIDE DEF most
<1>7. group' \in 0..MaxLimit /\ (group' = 0 \/ group' < limit)
  BY <1>1, <1>3, <1>6, BoundsAssumption DEF Bursts
<1>8. TypeOK'
  <2>1. frame' \in 0..Len(queue')
    BY <1>1, <1>2, <1>3, <1>4 DEF CutsAhead
  <2>2. QED
    BY <1>1, <1>3, <1>4, <1>7, <2>1 DEF TypeOK, options
<1>9. CutsAhead' /\ InCycle' /\ CalmChurnCompletes'
  BY <1>1, <1>3 DEF CutsAhead, InCycle, CalmChurnCompletes, options
<1>10. Bursts'
  <2>1. \A i \in 1..Len(queue') : queue'[i].node[1] = e.node[1]
    BY <1>1, <1>2, <1>3 DEF Bursts, Restarted
  <2>2. /\ Most' = Most /\ Most \in Nat /\ Most >= 1 /\ Most >= limit
        /\ Earlier' = Earlier /\ Earlier \in Nat
    BY <1>1, <1>3, EarlierGrows DEF options
  <2>3. \A v \in Vms : burst'[v] = IF v = e.node[1] THEN burst[v] + 1 ELSE burst[v]
    BY <1>1, <1>2, <1>3, <1>5 DEF Restarted, TypeOK
  <2>4. burst[e.node[1]] <= Earlier + group /\ burst[e.node[1]] \in Nat
    BY <1>1, <1>2, <1>3, <1>5 DEF Bursts, TypeOK
  <2>5. /\ burst'[e.node[1]] <= Earlier + Most
        /\ pc' = "restart" => /\ burst'[e.node[1]] <= Earlier + group'
                              /\ burst'[e.node[1]] <= Earlier + (Most - 1)
    <3>1. burst'[e.node[1]] = burst[e.node[1]] + 1
      BY <1>5, <2>3
    <3>2. group \in Nat /\ limit \in Nat /\ (group = 0 \/ group < limit)
      BY <1>1, <1>3, <1>6, BoundsAssumption DEF Bursts
    <3>3. burst'[e.node[1]] <= Earlier + Most
      BY <2>2, <2>4, <3>1, <3>2
    <3>4. ASSUME pc' = "restart" PROVE group' = group + 1 /\ group + 1 < limit
      BY <1>3, <1>6, <3>2, <3>4
    <3>5. QED
      BY <2>2, <2>4, <3>1, <3>2, <3>3, <3>4
  <2>6. e.node[1] \notin todo /\ todo \subseteq Vms
    BY <1>1, <1>2 DEF Lists, TypeOK
  <2>7. \A v \in Vms : burst[v] <= Earlier + (Most - 1) /\ burst[v] <= Earlier + Most
    BY <1>1, <1>3 DEF Bursts
  <2>8. \A v \in todo : burst'[v] <= Earlier
    BY <1>1, <1>3, <2>3, <2>6 DEF Bursts
  <2>9. /\ pc' \in {"restart", "pause"} /\ cycle' = cycle /\ todo' = todo /\ limit' = limit
    BY <1>3 DEF options
  <2>10. QED
    BY <1>7, <2>1, <2>2, <2>3, <2>5, <2>7, <2>8, <2>9 DEF Bursts
<1>11. QED
  BY <1>4, <1>8, <1>9, <1>10 DEF Inv

\* There are at least as many cuts as restarts in a batch.
LEMMA BatchKeeps == ASSUME Inv, BeginBatch PROVE Inv'
<1>1. TypeOK /\ Lists /\ InCycle /\ Counted /\ Fresh /\ CutsAhead /\ Bursts
  BY DEF Inv
<1>2. /\ pc = "restart" /\ mode = "random"
      /\ frame' = Min({limit, Len(queue)}) /\ cuts' \in Cuts /\ clock' = 0
      /\ UNCHANGED <<options, nodes, pc, cycle, todo, queue, group, history, events>>
  BY DEF BeginBatch
<1>3. limit \in Nat /\ time_frame \in Nat /\ Len(queue) \in Nat
  BY <1>1, BoundsAssumption DEF TypeOK
<1>4. frame' \in 0..Len(queue) /\ frame' <= limit
  BY <1>2, <1>3, MinMax
<1>5. /\ cuts' \in [1..limit -> 1..time_frame]
      /\ \A i \in 1..limit - 1 : cuts'[i] <= cuts'[i + 1]
  BY <1>2 DEF Cuts
<1>6. cuts' \in Seq(1..time_frame) /\ Len(cuts') = limit
  BY <1>3, <1>5
<1>7. TypeOK'
  <2>1. clock' \in 0..time_frame
    BY <1>2, <1>3
  <2>2. QED
    BY <1>1, <1>2, <1>4, <1>6, <2>1 DEF TypeOK, options, nodes, history
<1>8. Lists' /\ Fresh' /\ InCycle' /\ CalmChurnCompletes'
  BY <1>1, <1>2 DEF Lists, Fresh, InCycle, CalmChurnCompletes, options, nodes, history
<1>9. Counted' /\ Bursts'
  BY <1>1, <1>2 DEF Counted, Queued, Bursts, options, history
<1>10. CutsAhead'
  <2>1. cuts' # <<>> => cuts'[1] \in 1..time_frame
    BY <1>6, TailFacts
  <2>2. cuts' # <<>> => clock' <= cuts'[1]
    BY <1>2, <1>3, <2>1
  <2>3. mode' = "random" /\ pc' = "restart"
    BY <1>2 DEF options
  <2>4. QED
    BY <1>4, <1>5, <1>6, <2>2, <2>3 DEF CutsAhead
<1>11. QED
  BY <1>7, <1>8, <1>9, <1>10 DEF Inv

\* A restart of a batch takes one node off the queue, before the cut for it.
LEMMA InBatchKeeps == ASSUME Inv, RestartInBatch PROVE Inv'
<1>1. TypeOK /\ Lists /\ InCycle /\ Counted /\ Fresh /\ CutsAhead /\ Bursts
  BY DEF Inv
<1>2. /\ pc = "restart" /\ mode = "random" /\ frame > 0 /\ Restarted(Head(queue))
      /\ frame' = frame - 1 /\ pc' = "pause"
      /\ UNCHANGED <<options, cycle, todo, cuts, clock, group, listed, events>>
  BY DEF RestartInBatch
<1>3. frame \in 1..Len(queue) /\ queue # <<>>
  BY <1>1, <1>2 DEF TypeOK
<1>4. /\ queue' \in Seq(Entries) /\ Len(queue') = Len(queue) - 1
      /\ running' \subseteq Nodes /\ peer' \in [Nodes -> Nat]
      /\ restarts' \in [Nodes -> Nat] /\ burst' \in [Vms -> Nat]
      /\ Lists' /\ Counted' /\ Fresh'
  BY <1>2, <1>3, RestartKeeps DEF Inv
<1>5. TypeOK'
  <2>1. frame' \in 0..Len(queue')
    BY <1>2, <1>3, <1>4
  <2>2. QED
    BY <1>1, <1>2, <1>4, <2>1 DEF TypeOK, options
<1>6. CutsAhead'
  <2>1. Len(cuts) \in Nat /\ frame \in Nat
    BY <1>1, <1>3 DEF TypeOK
  <2>2. QED
    BY <1>1, <1>2, <2>1 DEF CutsAhead, options
<1>7. InCycle' /\ CalmChurnCompletes' /\ Bursts'
  BY <1>1, <1>2 DEF InCycle, CalmChurnCompletes, Bursts, options
<1>8. QED
  BY <1>4, <1>5, <1>6, <1>7 DEF Inv

\* A pause ends a group, or lasts until the next cut.
LEMMA PauseKeeps == ASSUME Inv, Pause PROVE Inv'
<1>1. TypeOK /\ Lists /\ InCycle /\ Counted /\ Fresh /\ CutsAhead /\ Bursts
  BY DEF Inv
<1>2. /\ pc = "pause" /\ pc' = "restart"
      /\ UNCHANGED <<options, nodes, cycle, todo, queue, restarts, listed, events>>
  BY DEF Pause
<1>3. Lists' /\ Fresh' /\ InCycle' /\ CalmChurnCompletes'
  BY <1>1, <1>2 DEF Lists, Fresh, InCycle, CalmChurnCompletes, options, nodes
<1>4. Counted'
  BY <1>1, <1>2 DEF Counted, Queued
<1>5. CASE /\ mode = "fixed" /\ group' = 0 /\ burst' = [v \in Vms |-> 0]
           /\ UNCHANGED <<frame, cuts, clock>>
  <2>1. TypeOK'
    BY <1>1, <1>2, <1>5, BoundsAssumption DEF TypeOK, options, nodes
  <2>2. CutsAhead'
    BY <1>1, <1>2, <1>5 DEF CutsAhead, options
  <2>3. \A v \in Vms : burst'[v] = 0
    BY <1>5
  <2>4. \A i \in 1..Len(queue) : queue[i].node[1] \in Vms
    <3>1. \A i \in 1..Len(queue) : queue[i] \in Entries
      BY <1>1 DEF TypeOK
    <3>2. QED
      BY <3>1 DEF Entries, Nodes
  <2>5. Bursts'
    <3>1. todo \subseteq Vms /\ limit \in 0..MaxLimit
      BY <1>1 DEF TypeOK
    <3>2. Most' = Most /\ Earlier' = Earlier /\ Most \in Nat /\ Most >= 1 /\ Earlier \in Nat
      BY <1>1, <1>2, EarlierGrows DEF options
    <3>3. QED
      BY <1>1, <1>2, <1>5, <2>3, <2>4, <3>1, <3>2 DEF Bursts, options
  <2>6. QED
    BY <1>3, <1>4, <2>1, <2>2, <2>5 DEF Inv
<1>6. CASE /\ mode = "random" /\ clock' = Head(cuts) /\ cuts' = Tail(cuts)
           /\ burst' = (IF Head(cuts) = clock THEN burst ELSE [v \in Vms |-> 0])
           /\ UNCHANGED <<frame, group>>
  <2>1. cuts \in Seq(1..time_frame) /\ frame \in Nat /\ frame < Len(cuts) /\ time_frame \in Nat
    BY <1>1, <1>2, <1>6, BoundsAssumption DEF TypeOK, CutsAhead
  <2>2. cuts # <<>>
    BY <2>1
  <2>3. /\ Len(cuts) \in Nat /\ 1 \in 1..Len(cuts) /\ Head(cuts) = cuts[1]
        /\ cuts[1] \in 1..time_frame
        /\ cuts' \in Seq(1..time_frame) /\ Len(cuts') = Len(cuts) - 1
        /\ \A i \in 1..Len(cuts') : i + 1 \in 1..Len(cuts) /\ cuts'[i] = cuts[i + 1]
    BY <1>6, <2>1, <2>2, TailFacts
  <2>4. TypeOK'
    <3>1. clock' \in 0..time_frame /\ burst' \in [Vms -> Nat]
      BY <1>1, <1>6, <2>1, <2>3 DEF TypeOK
    <3>2. QED
      BY <1>1, <1>2, <1>6, <2>3, <3>1 DEF TypeOK, options, nodes
  <2>5. CutsAhead'
    <3>1. \A i \in 1..Len(cuts) - 1 : cuts[i] <= cuts[i + 1]
      BY <1>1, <1>6 DEF CutsAhead
    <3>2. \A i \in 1..Len(cuts') - 1 : cuts'[i] <= cuts'[i + 1]
      <4>1. SUFFICES ASSUME NEW i \in 1..Len(cuts') - 1 PROVE cuts'[i] <= cuts'[i + 1]
        OBVIOUS
      <4>2. /\ cuts'[i] = cuts[i + 1] /\ cuts'[i + 1] = cuts[i + 1 + 1]
            /\ i + 1 \in 1..Len(cuts) - 1
        BY <2>3
      <4>3. QED
        BY <3>1, <4>2
    <3>3. cuts' # <<>> => clock' <= cuts'[1]
      <4>1. SUFFICES ASSUME cuts' # <<>> PROVE clock' <= cuts'[1]
        OBVIOUS
      <4>2. 1 \in 1..Len(cuts') /\ cuts'[1] = cuts[1 + 1] /\ 1 \in 1..Len(cuts) - 1
        BY <2>3, <4>1
      <4>3. QED
        BY <1>6, <2>3, <3>1, <4>2
    <3>4. frame' <= Len(cuts') /\ mode' = "random" /\ pc' = "restart"
      BY <1>2, <1>6, <2>1, <2>3 DEF options
    <3>5. QED
      BY <3>2, <3>3, <3>4 DEF CutsAhead
  <2>6. Bursts'
    BY <1>2, <1>6 DEF Bursts, options
  <2>7. QED
    BY <1>3, <1>4, <2>4, <2>5, <2>6 DEF Inv
<1>7. QED
  BY <1>5, <1>6 DEF Pause

LEMMA StutterKeeps == ASSUME Inv, UNCHANGED vars PROVE Inv'
<1> USE DEF vars, options, nodes, batch, history
<1>1. TypeOK' /\ Lists' /\ InCycle' /\ Fresh'
  BY DEF Inv, TypeOK, Lists, InCycle, Fresh
<1>2. Counted' /\ CutsAhead' /\ Bursts' /\ CalmChurnCompletes'
  BY DEF Inv, Counted, Queued, CutsAhead, Bursts, CalmChurnCompletes, Earlier, Most
<1>3. QED
  BY <1>1, <1>2 DEF Inv

-----------------------------------------------------------------------------
\* The invariant, from which all of the properties follow.
THEOREM ChurnInvariant == Spec => []Inv
<1>1. Inv /\ [Next]_vars => Inv'
  BY BeginKeeps, EndsKeep, ListKeeps, FailuresKeep, GroupKeeps, BatchKeeps, InBatchKeeps,
     PauseKeeps, MeanwhileKeeps, StutterKeeps
  DEF Next
<1>2. QED
  BY InitKeeps, <1>1, PTL DEF Spec

\* Every state of a churn is well typed: no batch is larger than its queue.
THEOREM TypeCorrect == Spec => []TypeOK
<1>1. Inv => TypeOK
  BY DEF Inv
<1>2. QED
  BY <1>1, ChurnInvariant, PTL

\* A churn that nobody interferes with fails only where the time frame leaves
\* nothing to choose from.
THEOREM CalmChurnsComplete == Spec => []CalmChurnCompletes
<1>1. Inv => CalmChurnCompletes
  BY DEF Inv
<1>2. QED
  BY <1>1, ChurnInvariant, PTL

\* A cycle that ends has restarted each node that it listed exactly once, and no
\* other.
THEOREM RestartsOnce == Spec => []EachListedNodeOnce
<1>1. Inv => EachListedNodeOnce
  <2>1. SUFFICES ASSUME Inv, pc = "cycle", NEW n \in Nodes
                 PROVE  restarts[n] = IF n \in listed THEN 1 ELSE 0
    BY DEF EachListedNodeOnce
  <2>2. n \notin Queued
    BY <2>1 DEF Inv, Lists, Queued
  <2>3. QED
    BY <2>1, <2>2 DEF Inv, Counted
<1>2. QED
  BY <1>1, ChurnInvariant, PTL

\* No more nodes of a VM restart between two pauses than were asked for, and than
\* the groups that earlier cycles left without a pause.
THEOREM LimitsGroups == Spec => []GroupsAreLimited
<1>1. Inv => GroupsAreLimited
  BY DEF Inv, Bursts, GroupsAreLimited, Earlier
<1>2. QED
  BY <1>1, ChurnInvariant, PTL

\* The next cut of a batch is never before the clock.
THEOREM NeverSleepsBackwards == Spec => []SleepsForward
<1>1. Inv => SleepsForward
  <2>1. SUFFICES ASSUME Inv, pc = "pause", mode = "random" PROVE Head(cuts) >= clock
    BY DEF SleepsForward
  <2>2. /\ cuts \in Seq(1..time_frame) /\ frame < Len(cuts) /\ frame \in Nat /\ clock \in Nat
        /\ time_frame \in Nat
    BY <2>1, BoundsAssumption DEF Inv, TypeOK, CutsAhead
  <2>3. cuts # <<>> /\ Head(cuts) = cuts[1] /\ cuts[1] \in Nat
    BY <2>2
  <2>4. QED
    BY <2>1, <2>2, <2>3 DEF Inv, CutsAhead
<1>2. QED
  BY <1>1, ChurnInvariant, PTL

=============================================================================
