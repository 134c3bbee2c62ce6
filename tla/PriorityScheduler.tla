-------------------------- MODULE PriorityScheduler --------------------------
(***************************************************************************)
(* A thread of the priority scheduler (thread/prio.cpp): which node it     *)
(* runs next.  It differs from static_local (module StaticScheduler, where *)
(* the protocol of the threads is) by the heap of the nodes with a         *)
(* priority and by the operations that change a node's priority while the  *)
(* nodes run.  The other threads are the environment: they put tuples into *)
(* the thread's buffer.  Priorities are numbers of the type FLOAT.         *)
(***************************************************************************)
EXTENDS NodeQueues

CONSTANTS
  Levels,           \* bound: the priorities; 0 is none
  Inputs,           \* what programs set and add
  InitialPriority,  \* program::initial_priority
  Bonus,            \* what schedule_next adds to the best priority
  MaxTuples,        \* bound: tuples that arrive or are derived
  MaxActions        \* bound: changes of priorities by the program

ASSUME PrioritySchedulerAssumption ==
  /\ InitialPriority \in Levels /\ Levels \subseteq Nat /\ 0 \in Levels
  /\ Inputs \subseteq Levels /\ Bonus \in Nat \ {0}
  /\ MaxTuples \in Nat /\ MaxActions \in Nat

VARIABLES
  pc,            \* "init", "check", "retrieve", "wait", "pick", "gather",
                 \* "run" or "failed"
  work,          \* node -> tuples in its queue
  on_queue,      \* in_queue_node::i_am_on_queue
  level,         \* node -> its priority level
  queue_nodes,   \* the list
  prio_queue,    \* the heap
  current_node,
  buffer,        \* nodes of the tuples that other threads have sent
  tuples,        \* tuples so far
  actions        \* changes of priorities so far

vars == <<pc, work, on_queue, level, queue_nodes, prio_queue, current_node, buffer,
          tuples, actions>>

has_priority_level(n) == level[n] > 0
has_work == \/ queue_nodes.head # Null \/ buffer # <<>> \/ prio_queue.heap # <<>>

Init ==
  /\ pc = "init"
  /\ work = [n \in Nodes |-> 0]
  /\ on_queue = [n \in Nodes |-> FALSE]
  /\ level = [n \in Nodes |-> InitialPriority]
  /\ queue_nodes = EmptyList
  /\ prio_queue = EmptyHeap
  /\ current_node = Null
  /\ buffer = <<>>
  /\ tuples = 0
  /\ actions = 0

------------------------------------------------------------------------------
(* Nodes get tuples.                                                        *)

\* The assertions of do_insert and push_tail_node.
add_to_queue(n) ==
  IF has_priority_level(n)
  THEN /\ prio_queue' = do_insert(prio_queue, n, level[n])
       /\ pc' = IF prio_queue.in[n] THEN "failed" ELSE pc
       /\ UNCHANGED queue_nodes
  ELSE /\ queue_nodes' = push_tail_node(queue_nodes, n)
       /\ pc' = IF queue_nodes.in[n] THEN "failed" ELSE pc
       /\ UNCHANGED prio_queue

AddWork(n) ==
  /\ work' = [work EXCEPT ![n] = @ + 1]
  /\ on_queue' = [on_queue EXCEPT ![n] = TRUE]
  /\ IF on_queue[n] THEN UNCHANGED <<pc, queue_nodes, prio_queue>> ELSE add_to_queue(n)

\* init and init_node: every node gets its first tuple.
InitNode(n) ==
  /\ pc = "init"
  /\ \A m \in Nodes : work[m] = 0 <=> m >= n
  /\ AddWork(n)
  /\ UNCHANGED <<level, current_node, buffer, tuples, actions>>

InitDone ==
  /\ pc = "init" /\ \A n \in Nodes : work[n] > 0
  /\ pc' = "retrieve"
  /\ UNCHANGED <<work, on_queue, level, queue_nodes, prio_queue, current_node, buffer,
                 tuples, actions>>

NewTuple == tuples < MaxTuples /\ tuples' = tuples + 1

\* new_work: the node that is run sends a tuple to a node of the same thread.
new_work(n) ==
  /\ pc = "run"
  /\ NewTuple
  /\ AddWork(n)
  /\ UNCHANGED <<level, current_node, buffer, actions>>

\* new_agg: between two iterations the aggregates send tuples.
new_agg(n) ==
  /\ pc = "wait" /\ ~has_work
  /\ NewTuple
  /\ AddWork(n)
  /\ UNCHANGED <<level, current_node, buffer, actions>>

\* new_work_other, called by another thread.
new_work_other(n) ==
  /\ pc \notin {"init", "failed"}
  /\ NewTuple
  /\ buffer' = Append(buffer, n)
  /\ UNCHANGED <<pc, work, on_queue, level, queue_nodes, prio_queue, current_node, actions>>

\* retrieve_tuples.
RetrieveTuple ==
  /\ pc = "retrieve" /\ buffer # <<>>
  /\ AddWork(Head(buffer))
  /\ buffer' = Tail(buffer)
  /\ UNCHANGED <<level, current_node, tuples, actions>>

\* The buffer is empty, and busy_wait waits until there is something to do,
\* which may be a tuple that has come to the buffer in the meantime.
RetrieveDone ==
  /\ \/ pc = "retrieve" /\ buffer = <<>> /\ pc' = "wait"
     \/ pc = "wait" /\ has_work /\ pc' = "pick"
  /\ UNCHANGED <<work, on_queue, level, queue_nodes, prio_queue, current_node, buffer,
                 tuples, actions>>

------------------------------------------------------------------------------
(* set_next_node.                                                           *)

\* Mutant: the list comes first.
PickListFirst ==
  /\ pc = "pick"
  /\ \/ /\ queue_nodes.head = Null
        /\ current_node' = prio_queue.heap[1]
        /\ prio_queue' = do_pop(prio_queue)
        /\ UNCHANGED queue_nodes
     \/ /\ queue_nodes.head # Null
        /\ current_node' = queue_nodes.head
        /\ queue_nodes' = pop_node(queue_nodes)
        /\ UNCHANGED prio_queue
  /\ pc' = "check"
  /\ UNCHANGED <<work, on_queue, level, buffer, tuples, actions>>

\* The best node of the heap, or else the first one of the list.
PickNode ==
  /\ pc = "pick"
  /\ \/ /\ prio_queue.heap # <<>>
        /\ current_node' = prio_queue.heap[1]
        /\ prio_queue' = do_pop(prio_queue)
        /\ UNCHANGED queue_nodes
        /\ pc' = "check"
     \/ /\ prio_queue.heap = <<>> /\ queue_nodes.head # Null
        /\ current_node' = queue_nodes.head
        /\ queue_nodes' = pop_node(queue_nodes)
        /\ UNCHANGED prio_queue
        /\ pc' = "check"
     \/ /\ prio_queue.heap = <<>> /\ queue_nodes.head = Null
        /\ pc' = "retrieve"
        /\ UNCHANGED <<current_node, prio_queue, queue_nodes>>
  /\ UNCHANGED <<work, on_queue, level, buffer, tuples, actions>>

\* Mutant: the node that has nothing left to do keeps its priority, and stays
\* marked as queued.
UselessStaysQueued ==
  /\ pc = "check" /\ work[current_node] = 0
  /\ UNCHANGED <<on_queue, level>>
  /\ IF prio_queue.heap # <<>>
     THEN /\ current_node' = prio_queue.heap[1]
          /\ prio_queue' = do_pop(prio_queue)
          /\ pc' = IF work[prio_queue.heap[1]] > 0 THEN "gather" ELSE "failed"
     ELSE /\ current_node' = Null /\ UNCHANGED prio_queue
          /\ pc' = "retrieve"
  /\ UNCHANGED <<work, queue_nodes, buffer, tuples, actions>>

\* check_if_current_useless: the node has nothing left to do.  The node that
\* is taken instead is not looked at before get_work asserts that it has work.
CurrentUseless ==
  /\ pc = "check" /\ work[current_node] = 0
  /\ on_queue' = [on_queue EXCEPT ![current_node] = FALSE]
  /\ level' = [level EXCEPT ![current_node] = 0]
  /\ IF prio_queue.heap # <<>>
     THEN /\ current_node' = prio_queue.heap[1]
          /\ prio_queue' = do_pop(prio_queue)
          /\ pc' = IF work[prio_queue.heap[1]] > 0 THEN "gather" ELSE "failed"
     ELSE /\ current_node' = Null /\ UNCHANGED prio_queue
          /\ pc' = "retrieve"
  /\ UNCHANGED <<work, queue_nodes, buffer, tuples, actions>>

CurrentUseful ==
  /\ pc = "check" /\ work[current_node] > 0
  /\ pc' = IF on_queue[current_node] THEN "gather" ELSE "failed"
  /\ UNCHANGED <<work, on_queue, level, queue_nodes, prio_queue, current_node, buffer,
                 tuples, actions>>

\* gather_next_tuples takes the tuples of the lowest level, and the node runs.
GatherTuples ==
  /\ pc = "gather"
  /\ \E left \in 0 .. work[current_node] - 1 :
       work' = [work EXCEPT ![current_node] = left]
  /\ pc' = "run"
  /\ UNCHANGED <<on_queue, level, queue_nodes, prio_queue, current_node, buffer,
                 tuples, actions>>

finish_work ==
  /\ pc = "run"
  /\ pc' = IF on_queue[current_node] THEN "check" ELSE "failed"
  /\ UNCHANGED <<work, on_queue, level, queue_nodes, prio_queue, current_node, buffer,
                 tuples, actions>>

------------------------------------------------------------------------------
(* machine::run_action: the node that is run changes priorities.  A change  *)
(* of a node of another thread is dropped (set_node_priority_other).        *)

Better(new, old) == IF Desc THEN old < new ELSE old > new

set_node_priority(n, p) ==
  IF n = current_node \/ ~on_queue[n]
  THEN /\ level' = [level EXCEPT ![n] = p]
       /\ UNCHANGED <<pc, queue_nodes, prio_queue>>
  ELSE IF prio_queue.in[n]
  THEN \/ /\ p = 0 /\ level[n] # 0
          /\ level' = [level EXCEPT ![n] = 0]
          /\ prio_queue' = do_remove(prio_queue, n)
          /\ queue_nodes' = push_tail_node(queue_nodes, n)
          /\ pc' = IF queue_nodes.in[n] THEN "failed" ELSE pc
       \/ /\ p # 0 /\ Better(p, level[n])
          /\ level' = [level EXCEPT ![n] = p]
          /\ prio_queue' = move_node(prio_queue, n, p)
          /\ UNCHANGED <<pc, queue_nodes>>
       \/ /\ p = level[n] \/ (p # 0 /\ ~Better(p, level[n]))
          /\ UNCHANGED <<pc, level, queue_nodes, prio_queue>>
  ELSE \/ /\ p > 0
          /\ level' = [level EXCEPT ![n] = p]
          /\ queue_nodes' = remove_node(queue_nodes, n)
          /\ prio_queue' = do_insert(prio_queue, n, p)
          /\ pc' = IF queue_nodes.in[n] THEN pc ELSE "failed"
       \/ /\ p = 0
          /\ UNCHANGED <<pc, level, queue_nodes, prio_queue>>

NewPriority(n, p) ==
  /\ pc = "run"
  /\ p \in Levels
  /\ actions < MaxActions
  /\ actions' = actions + 1
  /\ set_node_priority(n, p)
  /\ UNCHANGED <<work, on_queue, current_node, buffer, tuples>>

SetPriority(n) == \E p \in Inputs : NewPriority(n, p)

add_node_priority(n) == \E p \in Inputs : NewPriority(n, level[n] + p)

schedule_next(n) ==
  NewPriority(n, Bonus + IF prio_queue.heap = <<>> THEN 0 ELSE min_value(prio_queue))

\* The thread waits for tuples that do not come, or an assertion has failed.
Idle ==
  /\ pc = "failed" \/ (pc = "wait" /\ ~has_work /\ tuples = MaxTuples)
  /\ UNCHANGED vars

Thread ==
  \/ \E n \in Nodes : InitNode(n)
  \/ InitDone \/ RetrieveTuple \/ RetrieveDone \/ PickNode \/ CurrentUseless
  \/ CurrentUseful \/ GatherTuples \/ finish_work

Program ==
  \E n \in Nodes : \/ new_work(n) \/ new_agg(n) \/ SetPriority(n)
                   \/ add_node_priority(n) \/ schedule_next(n)

Next == Thread \/ Program \/ (\E n \in Nodes : new_work_other(n)) \/ Idle

\* The thread runs: the loop of base::do_loop goes on as long as there is work,
\* and a node's run ends.
Fairness == WF_vars(Thread)

Spec == Init /\ [][Next]_vars /\ Fairness

------------------------------------------------------------------------------
(* Properties.                                                              *)

\* The nodes of a list, in the order of the links.
WalkOf(q) ==
  LET from[i \in 0 .. Cardinality(Nodes)] ==
        IF i = 0 THEN q.head ELSE IF from[i - 1] = Null THEN Null ELSE q.next[from[i - 1]]
      nodes == {i \in 0 .. Cardinality(Nodes) : from[i] # Null}
  IN [i \in 1 .. Cardinality(nodes) |-> from[i - 1]]

Walk == WalkOf(queue_nodes)

\* However the program moves nodes between the queues, the links of the list go
\* through its nodes in both directions, assert_heap holds, and every node of
\* the heap knows its place and its priority; no assertion of the queues, of
\* get_work or of finish_work fails.
QueuesSound ==
  /\ pc # "failed"
  /\ \A i \in DOMAIN Walk :
       /\ queue_nodes.in[Walk[i]]
       /\ queue_nodes.prev[Walk[i]] = IF i = 1 THEN Null ELSE Walk[i - 1]
  /\ queue_nodes.tail = IF Walk = <<>> THEN Null ELSE Walk[Len(Walk)]
  /\ \A i \in DOMAIN prio_queue.heap :
       /\ \A c \in Children(prio_queue, i) :
            HEAP_COMPARE(HEAP_GET_PRIORITY(prio_queue, i), HEAP_GET_PRIORITY(prio_queue, c))
       /\ prio_queue.pos[prio_queue.heap[i]] = i
       /\ prio_queue.in[prio_queue.heap[i]]
       /\ prio_queue.prio[prio_queue.heap[i]] = level[prio_queue.heap[i]]

\* A node is marked as queued if and only if it is in exactly one place: it is
\* the current node, in the list or in the heap; a node with tuples is marked,
\* and one that waits has tuples, so that none is forgotten or run in vain.
QueuedOnce ==
  pc # "failed" =>
    \A n \in Nodes :
      LET places == {i \in DOMAIN Walk : Walk[i] = n}
          heaps == {i \in DOMAIN prio_queue.heap : prio_queue.heap[i] = n}
          held == IF current_node = n THEN 1 ELSE 0
      IN /\ Cardinality(places) + Cardinality(heaps) + held = IF on_queue[n] THEN 1 ELSE 0
         /\ queue_nodes.in[n] <=> places # {}
         /\ prio_queue.in[n] <=> heaps # {}
         /\ work[n] > 0 => on_queue[n]
         /\ on_queue[n] /\ work[n] = 0 => current_node = n

\* The thread runs the nodes in the order that the priorities promise.
Order == INSTANCE NodeOrder WITH
  fifo <- Walk,
  ranked <- [n \in Nodes |-> IF prio_queue.in[n] THEN level[n] ELSE 0],
  current <- current_node

ImplementsNodeOrder == Order!Spec

\* Every tuple is handed to its node's run in the end, whatever the priorities.
AllWorkDone == <>[](buffer = <<>> /\ \A n \in Nodes : work[n] = 0)
==============================================================================
