------------------------------- MODULE Churn -------------------------------
(***************************************************************************)
(* The churn of a running network: a process that asks the daemon of every *)
(* VM for its running nodes and restarts them, pausing between them.  At   *)
(* fixed intervals it goes from VM to VM and restarts a group of nodes     *)
(* between two pauses; at random intervals it asks all VMs first, cuts the *)
(* list into batches and spreads each batch over a time frame.             *)
(*                                                                         *)
(* Meanwhile nodes stop, start or are reset by somebody else: what the     *)
(* process has listed may not be what it meets.                            *)
(***************************************************************************)
EXTENDS Integers, SequencesExt

CONSTANTS
  Vms,          \* the VMs whose daemon has an endpoint, as numbers
  MaxNodes,     \* bound: nodes of a VM
  MaxLimit,     \* bound: `limit`
  MaxFrame,     \* bound: `time_frame`
  MaxCycles,    \* bound: `cycles`
  MaxEvents     \* bound: `events`

ASSUME BoundsAssumption ==
  /\ Vms \subseteq Nat /\ IsFiniteSet(Vms)
  /\ MaxNodes \in Nat /\ MaxLimit \in Nat /\ MaxEvents \in Nat
  /\ MaxFrame \in Nat \ {0} /\ MaxCycles \in Nat \ {0}

VARIABLES
  mode,         \* "fixed" or "random" intervals
  limit,        \* concurrent_churns, or churn_count
  cycles,       \* max_churn_cycles
  retain,       \* retain_peer_id
  time_frame,   \* of a batch
  node_count,   \* per VM, what the inventory says of its kind of VM
  running,      \* the nodes that run, per VM
  peer,         \* the generation of a node's peer id
  pc,           \* next step of the process
  cycle,        \* cycles completed
  todo,         \* VMs to ask in this cycle
  queue,        \* nodes listed and not restarted yet, in their order
  frame,        \* random: how many of them belong to this batch
  cuts,         \* random: the times of the restarts to come
  clock,        \* random: time since the batch began
  group,        \* fixed: concurrent_churns, the counter
  burst,        \* per VM, the restarts since the last pause
  restarts,     \* per node, its restarts in this cycle
  listed,       \* the nodes listed in this cycle
  events        \* how many things happened to the nodes meanwhile

options == <<mode, limit, cycles, retain, time_frame, node_count>>
nodes == <<running, peer>>
batch == <<frame, cuts, clock, group>>
history == <<burst, restarts, listed>>
vars == <<options, nodes, pc, cycle, todo, queue, batch, history, events>>

Nodes == Vms \X (1..MaxNodes)

\* A node as it was listed, with the generation of its peer id at that time.
Entries == [node : Nodes, peer : Nat]

TypeOK ==
  /\ mode \in {"fixed", "random"} /\ limit \in 0..MaxLimit
  /\ cycles \in 1..MaxCycles /\ retain \in BOOLEAN
  /\ time_frame \in 1..MaxFrame /\ node_count \in [Vms -> 0..MaxNodes]
  /\ running \subseteq Nodes /\ peer \in [Nodes -> Nat]
  /\ pc \in {"cycle", "list", "restart", "pause", "done", "failed"}
  /\ cycle \in 0..cycles /\ todo \subseteq Vms
  /\ queue \in Seq(Entries) /\ frame \in 0..Len(queue)
  /\ cuts \in Seq(1..time_frame) /\ clock \in 0..time_frame /\ group \in 0..MaxLimit
  /\ burst \in [Vms -> Nat] /\ restarts \in [Nodes -> Nat]
  /\ listed \subseteq Nodes /\ events \in 0..MaxEvents

\* A churn count of zero is refused.
Init ==
  /\ mode \in {"fixed", "random"} /\ limit \in 0..MaxLimit
  /\ mode = "random" => limit > 0
  /\ cycles \in 1..MaxCycles /\ retain \in BOOLEAN
  /\ time_frame \in (IF mode = "random" THEN 1..MaxFrame ELSE {1})
  /\ node_count \in (IF mode = "fixed" THEN [Vms -> 0..MaxNodes]
                     ELSE {[v \in Vms |-> MaxNodes]})
  /\ running \in SUBSET Nodes /\ peer = [n \in Nodes |-> 0]
  /\ pc = "cycle" /\ cycle = 0 /\ todo = {}
  /\ queue = <<>> /\ frame = 0 /\ cuts = <<>> /\ clock = 0 /\ group = 0
  /\ burst = [v \in Vms |-> 0] /\ restarts = [n \in Nodes |-> 0]
  /\ listed = {} /\ events = 0

-----------------------------------------------------------------------------
(***************************************************************************)
(* Cycles and listings.                                                    *)
(***************************************************************************)

\* Mutant: the nodes are asked for in the first cycle only.
BeginCycleListed ==
  /\ pc = "cycle" /\ cycle < cycles
  /\ IF cycle = 0 THEN todo' = Vms /\ listed' = {} /\ pc' = "list" /\ UNCHANGED queue
     ELSE /\ queue' = SetToSeq({[node |-> n, peer |-> 0] : n \in listed})
          /\ pc' = "restart" /\ UNCHANGED <<todo, listed>>
  /\ restarts' = [n \in Nodes |-> 0]
  /\ UNCHANGED <<options, nodes, cycle, batch, burst, events>>

BeginCycle ==
  /\ pc = "cycle" /\ cycle < cycles
  /\ todo' = Vms /\ pc' = "list"
  /\ restarts' = [n \in Nodes |-> 0] /\ listed' = {}
  /\ UNCHANGED <<options, nodes, cycle, queue, batch, burst, events>>

EndChurn ==
  /\ pc = "cycle" /\ cycle = cycles /\ pc' = "done"
  /\ UNCHANGED <<options, nodes, cycle, todo, queue, batch, history, events>>

\* What a daemon answers: the nodes that run, in the order of their numbers.
RunningNodes(v) ==
  {order \in SetToSeqs({n \in running : n[1] = v}) :
     \A i, j \in DOMAIN order : i < j => order[i][2] < order[j][2]}

\* At fixed intervals VMs come in the order of their node counts and addresses
\* and each is churned before the next is asked.
Before(v, w) ==
  node_count[v] < node_count[w] \/ (node_count[v] = node_count[w] /\ v <= w)

ListVm ==
  /\ pc = "list" /\ todo # {}
  /\ \E v \in todo :
       /\ mode = "fixed" => \A w \in todo : Before(v, w)
       /\ todo' = todo \ {v}
       /\ \E order \in RunningNodes(v) :
            queue' = queue \o [i \in DOMAIN order |-> [node |-> order[i], peer |-> peer[order[i]]]]
       /\ listed' = listed \cup {n \in running : n[1] = v}
  /\ pc' = IF mode = "fixed" THEN "restart" ELSE "list"
  /\ group' = 0
  /\ UNCHANGED <<options, nodes, cycle, frame, cuts, clock, burst, restarts, events>>

EndListing ==
  /\ pc = "list" /\ todo = {}
  /\ IF mode = "fixed" THEN pc' = "cycle" /\ cycle' = cycle + 1
     ELSE pc' = "restart" /\ UNCHANGED cycle
  /\ UNCHANGED <<options, nodes, todo, queue, batch, history, events>>

\* A daemon that cannot be reached, or does not answer, ends the churn.
ListFails ==
  /\ pc = "list" /\ todo # {} /\ events < MaxEvents /\ events' = events + 1
  /\ pc' = "failed"
  /\ UNCHANGED <<options, nodes, cycle, todo, queue, batch, history>>

-----------------------------------------------------------------------------
(***************************************************************************)
(* Restarts and pauses.                                                    *)
(***************************************************************************)

\* A daemon finds a node by its peer id, restarts it whether it runs or not, and
\* gives it a new peer id unless the old one is to be retained.
Restarted(e) ==
  /\ peer[e.node] = e.peer
  /\ peer' = IF retain THEN peer ELSE [peer EXCEPT ![e.node] = @ + 1]
  /\ running' = running \cup {e.node}
  /\ queue' = Tail(queue)
  /\ restarts' = [restarts EXCEPT ![e.node] = @ + 1]
  /\ burst' = [burst EXCEPT ![e.node[1]] = @ + 1]

\* Mutant: the inventory's node count is not looked at, and the counter is
\* compared one restart late.
RestartInGroupLate ==
  /\ pc = "restart" /\ mode = "fixed" /\ queue # <<>>
  /\ Restarted(Head(queue))
  /\ IF group > limit THEN pc' = "pause" ELSE pc' = "restart"
  /\ group' = Min({group + 1, MaxLimit})
  /\ UNCHANGED <<options, cycle, todo, frame, cuts, clock, listed, events>>

RestartInGroup ==
  /\ pc = "restart" /\ mode = "fixed" /\ queue # <<>>
  /\ LET e == Head(queue)
         max_concurrent_churns == Min({limit, node_count[e.node[1]]})
     IN  /\ Restarted(e)
         /\ IF group + 1 >= max_concurrent_churns THEN pc' = "pause" /\ UNCHANGED group
            ELSE pc' = "restart" /\ group' = group + 1
  /\ UNCHANGED <<options, cycle, todo, frame, cuts, clock, listed, events>>

EndVm ==
  /\ pc = "restart" /\ mode = "fixed" /\ queue = <<>> /\ pc' = "list"
  /\ UNCHANGED <<options, nodes, cycle, todo, queue, batch, history, events>>

\* Mutant: the cuts are not sorted.
CutsUnsorted ==
  {c \in [1..limit -> 1..time_frame] :
     c[limit] = time_frame /\ \A i \in 1..limit - 1 : c[i] < time_frame}

\* The times of the restarts of a batch: one at its end, the others anywhere.
Cuts ==
  {c \in [1..limit -> 1..time_frame] :
     /\ c[limit] = time_frame
     /\ \A i \in 1..limit - 1 : c[i] < time_frame /\ c[i] <= c[i + 1]}

\* Mutant: every batch is taken to be full.
BeginBatchFull ==
  /\ pc = "restart" /\ mode = "random" /\ frame = 0 /\ queue # <<>>
  /\ limit > 1 => time_frame > 1
  /\ frame' = limit /\ cuts' \in Cuts /\ clock' = 0
  /\ UNCHANGED <<options, nodes, pc, cycle, todo, queue, group, history, events>>

\* The last batch may be smaller, but gets as many cuts as the others.
BeginBatch ==
  /\ pc = "restart" /\ mode = "random" /\ frame = 0 /\ queue # <<>>
  /\ limit > 1 => time_frame > 1
  /\ frame' = Min({limit, Len(queue)}) /\ cuts' \in Cuts /\ clock' = 0
  /\ UNCHANGED <<options, nodes, pc, cycle, todo, queue, group, history, events>>

\* There is no time between one and one to choose from.
BatchPanics ==
  /\ pc = "restart" /\ mode = "random" /\ frame = 0 /\ queue # <<>>
  /\ limit > 1 /\ time_frame = 1
  /\ pc' = "failed"
  /\ UNCHANGED <<options, nodes, cycle, todo, queue, batch, history, events>>

RestartInBatch ==
  /\ pc = "restart" /\ mode = "random" /\ frame > 0
  /\ Restarted(Head(queue))
  /\ frame' = frame - 1 /\ pc' = "pause"
  /\ UNCHANGED <<options, cycle, todo, cuts, clock, group, listed, events>>

\* Mutant: what does not fill a batch is dropped.
EndCycleEarly ==
  /\ pc = "restart" /\ mode = "random" /\ frame = 0 /\ Len(queue) < limit
  /\ pc' = "cycle" /\ cycle' = cycle + 1 /\ queue' = <<>>
  /\ UNCHANGED <<options, nodes, todo, batch, history, events>>

EndCycle ==
  /\ pc = "restart" /\ mode = "random" /\ frame = 0 /\ queue = <<>>
  /\ pc' = "cycle" /\ cycle' = cycle + 1
  /\ UNCHANGED <<options, nodes, todo, queue, batch, history, events>>

Pause ==
  /\ pc = "pause" /\ pc' = "restart"
  /\ \/ /\ mode = "fixed" /\ group' = 0
        /\ burst' = [v \in Vms |-> 0]
        /\ UNCHANGED <<frame, cuts, clock>>
     \/ /\ mode = "random"
        /\ clock' = Head(cuts) /\ cuts' = Tail(cuts)
        /\ burst' = IF Head(cuts) = clock THEN burst ELSE [v \in Vms |-> 0]
        /\ UNCHANGED <<frame, group>>
  /\ UNCHANGED <<options, nodes, cycle, todo, queue, restarts, listed, events>>

\* The daemon does not know the peer id any more, or does not answer.
RestartFails ==
  /\ pc = "restart" /\ queue # <<>> /\ (mode = "random" => frame > 0)
  /\ \/ peer[Head(queue).node] # Head(queue).peer /\ UNCHANGED events
     \/ events < MaxEvents /\ events' = events + 1
  /\ pc' = "failed"
  /\ UNCHANGED <<options, nodes, cycle, todo, queue, batch, history>>

\* Somebody else stops or starts a node, or resets it, which changes its id.
Meanwhile ==
  /\ pc \notin {"done", "failed"} /\ events < MaxEvents /\ events' = events + 1
  /\ \E n \in Nodes :
       \/ running' = running \ {n} /\ UNCHANGED peer
       \/ running' = running \cup {n} /\ UNCHANGED peer
       \/ n \in running /\ peer' = [peer EXCEPT ![n] = @ + 1] /\ UNCHANGED running
  /\ UNCHANGED <<options, pc, cycle, todo, queue, batch, history>>

Next ==
  \/ BeginCycle \/ EndChurn \/ ListVm \/ EndListing \/ ListFails
  \/ RestartInGroup \/ EndVm \/ BeginBatch \/ BatchPanics \/ RestartInBatch \/ EndCycle
  \/ Pause \/ RestartFails \/ Meanwhile

Spec == Init /\ [][Next]_vars

-----------------------------------------------------------------------------
\* A churn that nobody interferes with does not fail, also over several cycles
\* in which the nodes change their peer ids (cmd/network.rs:225-227), unless the
\* time frame leaves nothing to choose from.
CalmChurnCompletes ==
  pc = "failed" /\ events = 0 => mode = "random" /\ limit > 1 /\ time_frame = 1

\* When a cycle ends, each node that was listed in it has been restarted exactly
\* once and no other, whatever happened to the nodes meanwhile
\* (cmd/network.rs:156-174, 226-268).
EachListedNodeOnce ==
  pc = "cycle" /\ cycle > 0 =>
    \A n \in Nodes : restarts[n] = (IF n \in listed THEN 1 ELSE 0)

\* How many nodes of a VM may restart without a pause between them.
Most == Max({limit, 1})

\* At fixed intervals no more nodes of a VM restart without a pause between them
\* than were asked for, except across cycles: a group that does not fill up ends
\* its VM without a pause, so each earlier cycle may have left one node less
\* than that, and no more than that (cmd/network.rs:163-173).
GroupsAreLimited ==
  mode = "fixed" => \A v \in Vms : burst[v] <= cycle * (Most - 1) + Most

\* Time never runs backwards within a batch: the difference of two intervals is
\* an unsigned number of seconds (cmd/network.rs:250).
SleepsForward == pc = "pause" /\ mode = "random" => Head(cuts) >= clock

=============================================================================
