------------------------------ MODULE NodeQueues ------------------------------
(***************************************************************************)
(* The two queues of nodes of a scheduler thread: the doubly linked list   *)
(* (queue/intrusive_implementation.hpp, safe_double_queue.hpp) and the     *)
(* binary heap (queue/heap_implementation.hpp, safe_complex_pqueue.hpp).   *)
(* Both are intrusive: the links, the place in the heap and the flags are  *)
(* in the nodes.  A list is [head, tail, next, prev, in], a heap is [heap, *)
(* pos, prio, in]; places in the heap are counted from 1.                  *)
(***************************************************************************)
EXTENDS Integers, Sequences, FiniteSets

CONSTANTS Nodes, Null, Desc   \* Desc: the highest priority comes first

ASSUME NodeQueuesAssumption ==
  Nodes \subseteq Nat /\ IsFiniteSet(Nodes) /\ Null \notin Nodes /\ Desc \in BOOLEAN

------------------------------------------------------------------------------
(* The list.                                                                *)

EmptyList ==
  [head |-> Null, tail |-> Null, next |-> [n \in Nodes |-> Null],
   prev |-> [n \in Nodes |-> Null], in |-> [n \in Nodes |-> FALSE]]

\* The old last node gets a successor; its own `next' is not read before.
push_tail_node(q, n) ==
  [head |-> IF q.head = Null THEN n ELSE q.head,
   tail |-> n,
   next |-> [x \in Nodes |-> IF x = n THEN Null ELSE IF x = q.tail THEN n ELSE q.next[x]],
   prev |-> [q.prev EXCEPT ![n] = q.tail],
   in |-> [q.in EXCEPT ![n] = TRUE]]

\* The links of the node that leaves stay as they are.
pop_node(q) ==
  LET first == q.next[q.head]
  IN [q EXCEPT !.head = first,
               !.tail = IF first = Null THEN Null ELSE @,
               !.prev = [x \in Nodes |-> IF x = first THEN Null ELSE @[x]],
               !.in = [@ EXCEPT ![q.head] = FALSE]]

\* Mutant: the node before the removed one keeps its successor.
RemoveForwardOnly(q, n) ==
  [head |-> IF q.head = n THEN q.next[n] ELSE q.head,
   tail |-> IF q.tail = n THEN q.prev[n] ELSE q.tail,
   next |-> [q.next EXCEPT ![n] = Null],
   prev |-> [x \in Nodes |-> IF x = n THEN Null
                             ELSE IF x = q.next[n] THEN q.prev[n] ELSE q.prev[x]],
   in |-> [q.in EXCEPT ![n] = FALSE]]

remove_node(q, n) ==
  [head |-> IF q.head = n THEN q.next[n] ELSE q.head,
   tail |-> IF q.tail = n THEN q.prev[n] ELSE q.tail,
   next |-> [x \in Nodes |-> IF x = n THEN Null
                             ELSE IF x = q.prev[n] THEN q.next[n] ELSE q.next[x]],
   prev |-> [x \in Nodes |-> IF x = n THEN Null
                             ELSE IF x = q.next[n] THEN q.prev[n] ELSE q.prev[x]],
   in |-> [q.in EXCEPT ![n] = FALSE]]

------------------------------------------------------------------------------
(* The heap.                                                                *)

EmptyHeap ==
  [heap |-> <<>>, pos |-> [n \in Nodes |-> 0], prio |-> [n \in Nodes |-> 0],
   in |-> [n \in Nodes |-> FALSE]]

Heaps ==
  [heap : Seq(Nodes), pos : [Nodes -> Nat], prio : [Nodes -> Int], in : [Nodes -> BOOLEAN]]

HEAP_COMPARE(v1, v2) == IF Desc THEN v1 >= v2 ELSE v1 <= v2
HEAP_GET_PRIORITY(h, i) == h.prio[h.heap[i]]
HEAP_SET_INDEX(h, i, n) == [h EXCEPT !.heap[i] = n, !.pos[n] = i]

parent(i) == i \div 2
Children(h, i) == {2 * i, 2 * i + 1} \cap DOMAIN h.heap

SwapPlaces(h, i, j) == HEAP_SET_INDEX(HEAP_SET_INDEX(h, i, h.heap[j]), j, h.heap[i])

\* A heap and a place in it.
HeapPlaces == {s \in Heaps \X (Nat \ {0}) : s[2] <= Len(s[1].heap)}

heapifyup[s \in HeapPlaces] ==
  LET h == s[1]
      i == s[2]
  IN IF i = 1 \/ HEAP_COMPARE(HEAP_GET_PRIORITY(h, parent(i)), HEAP_GET_PRIORITY(h, i))
     THEN h
     ELSE heapifyup[<<SwapPlaces(h, i, parent(i)), parent(i)>>]

\* The child that must be above the other one; the left one if they are equal
\* in a heap that compares strictly, the right one in this heap.
SmallerChild(h, i) ==
  IF /\ 2 * i + 1 \in Children(h, i)
     /\ HEAP_COMPARE(HEAP_GET_PRIORITY(h, 2 * i + 1), HEAP_GET_PRIORITY(h, 2 * i))
  THEN 2 * i + 1 ELSE 2 * i

heapifydown[s \in Heaps \X (Nat \ {0})] ==
  LET h == s[1]
      i == s[2]
  IN IF \A c \in Children(h, i) :
          HEAP_COMPARE(HEAP_GET_PRIORITY(h, i), HEAP_GET_PRIORITY(h, c))
     THEN h
     ELSE heapifydown[<<SwapPlaces(h, i, SmallerChild(h, i)), SmallerChild(h, i)>>]

do_insert(h, n, p) ==
  LET last == Len(h.heap) + 1
      added == [heap |-> Append(h.heap, n), pos |-> [h.pos EXCEPT ![n] = last],
                prio |-> [h.prio EXCEPT ![n] = p], in |-> [h.in EXCEPT ![n] = TRUE]]
  IN heapifyup[<<added, last>>]

WithoutLast(h) == [h EXCEPT !.heap = SubSeq(@, 1, Len(@) - 1)]

do_pop(h) ==
  LET last == h.heap[Len(h.heap)]
      moved == WithoutLast(HEAP_SET_INDEX(h, 1, last))
      sunk == heapifydown[<<moved, 1>>]
  IN [sunk EXCEPT !.in[h.heap[1]] = FALSE]

\* The last node fills the gap, and moves up or down from there.
do_remove(h, n) ==
  LET i == h.pos[n]
      last == h.heap[Len(h.heap)]
      short == [WithoutLast(h) EXCEPT !.in[n] = FALSE]
      filled == HEAP_SET_INDEX(short, i, last)
  IN IF i = Len(h.heap) THEN short
     ELSE IF i > 1 /\ HEAP_COMPARE(h.prio[last], HEAP_GET_PRIORITY(filled, parent(i)))
          THEN heapifyup[<<filled, i>>]
          ELSE heapifydown[<<filled, i>>]

move_node(h, n, p) == do_insert(do_remove(h, n), n, p)
min_value(h) == HEAP_GET_PRIORITY(h, 1)
==============================================================================
