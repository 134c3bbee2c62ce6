------------------------- MODULE MCPriorityScheduler -------------------------
(***************************************************************************)
(* PriorityScheduler with four nodes, and the heap alone with seven: the   *)
(* node that fills a gap moves up only in a heap of six nodes or more.     *)
(***************************************************************************)
EXTENDS PriorityScheduler

CONSTANT HeapPriorities   \* bound: the priorities of the seven nodes

\* NodeQueues with the nodes 1 .. 7.
Seven == INSTANCE NodeQueues WITH Nodes <- 1 .. 7

\* The heap that has got the seven nodes in their order.
Filled(prio) ==
  LET with[i \in 0 .. 7] ==
        IF i = 0 THEN Seven!EmptyHeap ELSE Seven!do_insert(with[i - 1], i, prio[i])
  IN with[7]

\* It holds these nodes, each at its place and below its parent.
HeapOf(h, nodes) ==
  /\ {h.heap[i] : i \in DOMAIN h.heap} = nodes /\ Len(h.heap) = Cardinality(nodes)
  /\ \A i \in DOMAIN h.heap :
       /\ h.pos[h.heap[i]] = i
       /\ i > 1 => HEAP_COMPARE(HEAP_GET_PRIORITY(h, parent(i)), HEAP_GET_PRIORITY(h, i))

\* Insertion, removal and popping keep the heap.
ASSUME HeapKept ==
  \A prio \in [1 .. 7 -> HeapPriorities] :
    LET h == Filled(prio)
    IN /\ HeapOf(h, 1 .. 7)
       /\ HeapOf(Seven!do_pop(h), 1 .. 7 \ {h.heap[1]})
       /\ \A n \in 1 .. 7 : HeapOf(Seven!do_remove(h, n), 1 .. 7 \ {n})
==============================================================================
