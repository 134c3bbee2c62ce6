----------------------- MODULE PrioritySchedulerProofs -----------------------
(***************************************************************************)
(* The queues of a thread of the priority scheduler, for every number of   *)
(* nodes: the heap stays a heap and the list a list however nodes are      *)
(* moved between them, every node that waits is in one of them once, and   *)
(* the thread runs the nodes in the order that the priorities promise.     *)
(*                                                                         *)
(* The two loops of the heap, heapifyup and heapifydown, are recursive     *)
(* functions.  What they compute follows from an invariant of the loop,    *)
(* with LoopInvariant of CommonLemmas: the heap is in order but at the     *)
(* place where the loop is.                                                *)
(***************************************************************************)
EXTENDS PriorityScheduler, CommonLemmas

------------------------------------------------------------------------------
(* The order of priorities, and parents.                                    *)

LEMMA CompareTotal ==
  ASSUME NEW x \in Int, NEW y \in Int, ~HEAP_COMPARE(x, y)
  PROVE  HEAP_COMPARE(y, x)
BY NodeQueuesAssumption DEF HEAP_COMPARE

LEMMA CompareTransitive ==
  ASSUME NEW x \in Int, NEW y \in Int, NEW z \in Int, HEAP_COMPARE(x, y), HEAP_COMPARE(y, z)
  PROVE  HEAP_COMPARE(x, z)
BY NodeQueuesAssumption DEF HEAP_COMPARE

LEMMA CompareReflexive == \A x \in Int : HEAP_COMPARE(x, x)
BY NodeQueuesAssumption DEF HEAP_COMPARE

LEMMA ParentAbove ==
  ASSUME NEW i \in Nat, i > 1
  PROVE  parent(i) \in Nat /\ parent(i) >= 1 /\ parent(i) < i
BY DEF parent

\* The children of a place are the places whose parent it is.
LEMMA ChildrenAreBelow ==
  ASSUME NEW h \in Heaps, NEW i \in Nat, i >= 1
  PROVE  \A c : c \in Children(h, i) <=> c \in 2 .. Len(h.heap) /\ parent(c) = i
<1>1. Len(h.heap) \in Nat /\ DOMAIN h.heap = 1 .. Len(h.heap)
  BY DEF Heaps
<1>2. \A c \in Nat : c \div 2 = i <=> c \in {2 * i, 2 * i + 1}
  OBVIOUS
<1>3. \A c : c \in Children(h, i) <=> c \in {2 * i, 2 * i + 1} /\ c \in 1 .. Len(h.heap)
  BY <1>1 DEF Children
<1>4. \A c : c \in {2 * i, 2 * i + 1} => c \in Nat /\ c >= 2
  OBVIOUS
<1> QED BY <1>1, <1>2, <1>3, <1>4 DEF parent

------------------------------------------------------------------------------
(* Heaps.                                                                   *)

\* The node at place i is above the one at place j.
Above(h, i, j) == HEAP_COMPARE(HEAP_GET_PRIORITY(h, i), HEAP_GET_PRIORITY(h, j))

\* Every node of the heap knows its place.
Placed(h) == \A i \in DOMAIN h.heap : h.pos[h.heap[i]] = i

Members(h) == {h.heap[i] : i \in DOMAIN h.heap}

\* assert_heap.
Ordered(h) == \A j \in 2 .. Len(h.heap) : Above(h, parent(j), j)

\* The heap is in order but for a node that may have to rise from place i.
OrderedButUp(h, i) ==
  /\ \A j \in 2 .. Len(h.heap) : j # i => Above(h, parent(j), j)
  /\ \A j \in 2 .. Len(h.heap) : parent(j) = i /\ i > 1 => Above(h, parent(i), j)

\* The heap is in order but for a node that may have to sink from place i.
OrderedButDown(h, i) ==
  /\ \A j \in 2 .. Len(h.heap) : parent(j) # i => Above(h, parent(j), j)
  /\ \A j \in 2 .. Len(h.heap) : parent(j) = i /\ i > 1 => Above(h, parent(i), j)

\* The heap k has the same nodes as h, with the same priorities and flags.
SameNodes(h, k) ==
  /\ Len(k.heap) = Len(h.heap) /\ Members(k) = Members(h)
  /\ k.prio = h.prio /\ k.in = h.in

LEMMA InMembers ==
  ASSUME NEW h, NEW x
  PROVE  x \in Members(h) <=> \E i \in DOMAIN h.heap : x = h.heap[i]
BY DEF Members

LEMMA HeapTypes ==
  ASSUME NEW h \in Heaps
  PROVE  /\ h.heap \in Seq(Nodes) /\ Len(h.heap) \in Nat /\ DOMAIN h.heap = 1 .. Len(h.heap)
         /\ \A i \in 1 .. Len(h.heap) : h.heap[i] \in Nodes /\ HEAP_GET_PRIORITY(h, i) \in Int
         /\ h.pos \in [Nodes -> Nat] /\ h.prio \in [Nodes -> Int] /\ h.in \in [Nodes -> BOOLEAN]
BY DEF Heaps, HEAP_GET_PRIORITY

\* Setting one place.
LEMMA SetIndex ==
  ASSUME NEW h \in Heaps, NEW i \in 1 .. Len(h.heap), NEW n \in Nodes,
         NEW k, k = HEAP_SET_INDEX(h, i, n)
  PROVE  /\ k \in Heaps /\ k.prio = h.prio /\ k.in = h.in
         /\ Len(k.heap) = Len(h.heap)
         /\ \A l \in 1 .. Len(h.heap) : k.heap[l] = IF l = i THEN n ELSE h.heap[l]
         /\ \A x \in Nodes : k.pos[x] = IF x = n THEN i ELSE h.pos[x]
<1>1. /\ k.heap = [h.heap EXCEPT ![i] = n] /\ k.pos = [h.pos EXCEPT ![n] = i]
      /\ k.prio = h.prio /\ k.in = h.in
  <2>1. k.heap = [h.heap EXCEPT ![i] = n]
    BY DEF HEAP_SET_INDEX, Heaps
  <2>2. k.pos = [h.pos EXCEPT ![n] = i]
    BY DEF HEAP_SET_INDEX, Heaps
  <2>3. k.prio = h.prio /\ k.in = h.in
    BY DEF HEAP_SET_INDEX, Heaps
  <2> QED BY <2>1, <2>2, <2>3
<1>2. PICK a \in Seq(Nodes), b \in [Nodes -> Nat] :
        a = [h.heap EXCEPT ![i] = n] /\ b = [h.pos EXCEPT ![n] = i] /\ Len(a) = Len(h.heap)
  <2>1. [h.heap EXCEPT ![i] = n] \in Seq(Nodes) /\ Len([h.heap EXCEPT ![i] = n]) = Len(h.heap)
    BY HeapTypes
  <2>2. [h.pos EXCEPT ![n] = i] \in [Nodes -> Nat]
    BY HeapTypes
  <2> QED BY <2>1, <2>2
<1>3. k = [h EXCEPT !.heap = a, !.pos = b]
  BY <1>2 DEF HEAP_SET_INDEX, Heaps
<1>4. k \in Heaps
  BY <1>3 DEF Heaps
<1>5. /\ \A l \in 1 .. Len(h.heap) : k.heap[l] = IF l = i THEN n ELSE h.heap[l]
      /\ \A x \in Nodes : k.pos[x] = IF x = n THEN i ELSE h.pos[x]
  <2>1. DOMAIN h.heap = 1 .. Len(h.heap) /\ DOMAIN h.pos = Nodes
    BY HeapTypes
  <2>2. \A l \in DOMAIN h.heap : [h.heap EXCEPT ![i] = n][l] = IF l = i THEN n ELSE h.heap[l]
    OBVIOUS
  <2>3. \A x \in DOMAIN h.pos : [h.pos EXCEPT ![n] = i][x] = IF x = n THEN i ELSE h.pos[x]
    OBVIOUS
  <2> QED BY <1>1, <2>1, <2>2, <2>3
<1> QED BY <1>1, <1>2, <1>4, <1>5

LEMMA SwapShape ==
  ASSUME NEW h \in Heaps, Placed(h), NEW i \in 1 .. Len(h.heap), NEW j \in 1 .. Len(h.heap),
         i # j, NEW k, k = SwapPlaces(h, i, j)
  PROVE  /\ k \in Heaps /\ Placed(k) /\ SameNodes(h, k)
         /\ HEAP_GET_PRIORITY(k, i) = HEAP_GET_PRIORITY(h, j)
         /\ HEAP_GET_PRIORITY(k, j) = HEAP_GET_PRIORITY(h, i)
         /\ \A l \in 1 .. Len(h.heap) : l \notin {i, j} =>
              HEAP_GET_PRIORITY(k, l) = HEAP_GET_PRIORITY(h, l)
<1>0. /\ h.heap[i] \in Nodes /\ h.heap[j] \in Nodes /\ DOMAIN h.heap = 1 .. Len(h.heap)
      /\ h.heap[i] # h.heap[j]
  BY HeapTypes DEF Placed
<1> DEFINE m == HEAP_SET_INDEX(h, i, h.heap[j])
<1>1. /\ m \in Heaps /\ m.prio = h.prio /\ m.in = h.in /\ Len(m.heap) = Len(h.heap)
      /\ \A l \in 1 .. Len(h.heap) : m.heap[l] = IF l = i THEN h.heap[j] ELSE h.heap[l]
      /\ \A x \in Nodes : m.pos[x] = IF x = h.heap[j] THEN i ELSE h.pos[x]
  BY <1>0, SetIndex
<1> HIDE DEF m
<1>2. /\ k \in Heaps /\ k.prio = m.prio /\ k.in = m.in /\ Len(k.heap) = Len(m.heap)
      /\ \A l \in 1 .. Len(m.heap) : k.heap[l] = IF l = j THEN h.heap[i] ELSE m.heap[l]
      /\ \A x \in Nodes : k.pos[x] = IF x = h.heap[i] THEN j ELSE m.pos[x]
  <2>1. k = HEAP_SET_INDEX(m, j, h.heap[i])
    BY DEF SwapPlaces, m
  <2>2. j \in 1 .. Len(m.heap)
    BY <1>1
  <2> QED BY <1>0, <1>1, <2>1, <2>2, SetIndex
<1>3. /\ DOMAIN k.heap = DOMAIN h.heap
      /\ k.heap[i] = h.heap[j] /\ k.heap[j] = h.heap[i]
      /\ \A l \in DOMAIN h.heap : l \notin {i, j} => k.heap[l] = h.heap[l]
  BY <1>0, <1>1, <1>2, HeapTypes
<1>4. Members(k) = Members(h)
  <2>1. \A l \in DOMAIN h.heap : \E x \in DOMAIN h.heap : k.heap[l] = h.heap[x]
    BY <1>0, <1>3
  <2>2. \A l \in DOMAIN h.heap : \E x \in DOMAIN h.heap : h.heap[l] = k.heap[x]
    BY <1>0, <1>3
  <2>3. Members(k) \subseteq Members(h)
    <3> SUFFICES ASSUME NEW x \in Members(k) PROVE x \in Members(h)
      OBVIOUS
    <3>1. PICK l \in DOMAIN h.heap : x = k.heap[l]
      BY <1>3, InMembers
    <3> QED BY <2>1, <3>1, InMembers
  <2>4. Members(h) \subseteq Members(k)
    <3> SUFFICES ASSUME NEW x \in Members(h) PROVE x \in Members(k)
      OBVIOUS
    <3>1. PICK l \in DOMAIN h.heap : x = h.heap[l]
      BY InMembers
    <3> QED BY <1>3, <2>2, <3>1, InMembers
  <2> QED BY <2>3, <2>4
<1>5. Placed(k)
  <2> SUFFICES ASSUME NEW l \in DOMAIN h.heap PROVE k.pos[k.heap[l]] = l
    BY <1>3 DEF Placed
  <2>1. h.pos \in [Nodes -> Nat] /\ h.heap[l] \in Nodes
    BY <1>0, HeapTypes
  <2>2. \A n \in Nodes : k.pos[n] = IF n = h.heap[i] THEN j ELSE IF n = h.heap[j] THEN i ELSE h.pos[n]
    BY <1>0, <1>1, <1>2, <2>1
  <2>3. CASE l = i
    BY <1>0, <1>3, <2>2, <2>3
  <2>4. CASE l = j
    BY <1>0, <1>3, <2>2, <2>4
  <2>5. CASE l \notin {i, j}
    <3>1. k.heap[l] = h.heap[l] /\ h.pos[h.heap[l]] = l /\ h.pos[h.heap[i]] = i /\ h.pos[h.heap[j]] = j
      BY <1>0, <1>3, <2>5 DEF Placed
    <3> QED BY <2>1, <2>2, <2>5, <3>1
  <2> QED BY <2>3, <2>4, <2>5
<1> QED BY <1>0, <1>1, <1>2, <1>3, <1>4, <1>5 DEF HEAP_GET_PRIORITY, SameNodes

------------------------------------------------------------------------------
(* heapifyup.                                                               *)

UpStop == {s \in HeapPlaces : s[2] = 1 \/ Above(s[1], parent(s[2]), s[2])}
UpNext == [s \in HeapPlaces |-> <<SwapPlaces(s[1], s[2], parent(s[2])), parent(s[2])>>]
HeapOf == [s \in Heaps \X (Nat \ {0}) |-> s[1]]

\* The loop's invariant: the heap has the nodes of h, and may be out of order at
\* the place where the loop is.
UpInv(h) ==
  {s \in HeapPlaces : Placed(s[1]) /\ SameNodes(h, s[1]) /\ OrderedButUp(s[1], s[2])}

LEMMA UpNextTypes ==
  ASSUME NEW h \in Heaps, NEW i \in 2 .. Len(h.heap)
  PROVE  <<SwapPlaces(h, i, parent(i)), parent(i)>> \in HeapPlaces
<1>1. i \in 1 .. Len(h.heap) /\ parent(i) \in 1 .. Len(h.heap) /\ parent(i) \in Nat \ {0}
  BY ParentAbove, HeapTypes
<1> DEFINE m == HEAP_SET_INDEX(h, i, h.heap[parent(i)])
           k == SwapPlaces(h, i, parent(i))
<1>2. h.heap[i] \in Nodes /\ h.heap[parent(i)] \in Nodes
  BY <1>1, HeapTypes
<1>3. m \in Heaps /\ Len(m.heap) = Len(h.heap)
  BY <1>1, <1>2, SetIndex
<1>4. k = HEAP_SET_INDEX(m, parent(i), h.heap[i])
  BY DEF SwapPlaces
<1> HIDE DEF m, k
<1>5. k \in Heaps /\ Len(k.heap) = Len(m.heap)
  <2>1. parent(i) \in 1 .. Len(m.heap)
    BY <1>1, <1>3
  <2> QED BY <1>2, <1>3, <1>4, <2>1, SetIndex
<1>6. <<k, parent(i)>> \in HeapPlaces
  BY <1>1, <1>3, <1>5, HeapTypes DEF HeapPlaces
<1> QED BY <1>6 DEF k

LEMMA HeapifyUpLoop == IsLoop(heapifyup, HeapPlaces, UpStop, UpNext, HeapOf)
<1> DEFINE Body(g, s) ==
             IF s[2] = 1 \/ HEAP_COMPARE(HEAP_GET_PRIORITY(s[1], parent(s[2])),
                                        HEAP_GET_PRIORITY(s[1], s[2]))
             THEN s[1] ELSE g[<<SwapPlaces(s[1], s[2], parent(s[2])), parent(s[2])>>]
           P(g) == g = [s \in HeapPlaces |-> Body(g, s)]
<1>1. StaysIn(HeapPlaces, UpStop, UpNext)
  <2> SUFFICES ASSUME NEW s \in HeapPlaces, s \notin UpStop PROVE UpNext[s] \in HeapPlaces
    BY DEF StaysIn
  <2>1. s[1] \in Heaps /\ s[2] \in 2 .. Len(s[1].heap)
    BY HeapTypes DEF HeapPlaces, UpStop
  <2> QED BY <2>1, UpNextTypes DEF UpNext
<1>2. PICK g : IsLoop(g, HeapPlaces, UpStop, UpNext, HeapOf)
  BY <1>1, LoopExists
<1>3. ASSUME NEW f, NEW s \in HeapPlaces
      PROVE  Body(f, s) = IF s \in UpStop THEN HeapOf[s] ELSE f[UpNext[s]]
  <2>1. HeapOf[s] = s[1] /\ UpNext[s] = <<SwapPlaces(s[1], s[2], parent(s[2])), parent(s[2])>>
    BY DEF HeapOf, UpNext, HeapPlaces
  <2>2. s \in UpStop <=> s[2] = 1 \/ HEAP_COMPARE(HEAP_GET_PRIORITY(s[1], parent(s[2])),
                                               HEAP_GET_PRIORITY(s[1], s[2]))
    BY DEF UpStop, Above
  <2> QED BY <2>1, <2>2
<1>4. heapifyup = CHOOSE f : P(f)
  BY DEF heapifyup
<1> HIDE DEF Body
<1>5. P(g)
  BY <1>2, <1>3 DEF IsLoop
<1> HIDE DEF P
<1>6. P(heapifyup)
  BY <1>4, <1>5
<1> QED BY <1>3, <1>6 DEF P, IsLoop

LEMMA UpInvStep ==
  ASSUME NEW h \in Heaps, NEW s \in UpInv(h), s \notin UpStop
  PROVE  UpNext[s] \in UpInv(h) /\ UpNext[s][2] < s[2]
<1> DEFINE g == s[1]
           i == s[2]
           p == parent(i)
           k == SwapPlaces(g, i, p)
           n == Len(g.heap)
<1>1. /\ g \in Heaps /\ i \in Nat /\ i > 1 /\ i <= n /\ n \in Nat /\ Placed(g) /\ SameNodes(h, g)
      /\ OrderedButUp(g, i) /\ ~Above(g, p, i) /\ UpNext[s] = <<k, p>>
  BY HeapTypes DEF UpInv, HeapPlaces, UpStop, UpNext
<1>2. p \in Nat /\ p >= 1 /\ p < i
  BY <1>1, ParentAbove
<1>3. <<k, p>> \in HeapPlaces
  BY <1>1, UpNextTypes
<1> HIDE DEF g, i, p, k
<1>4. /\ k \in Heaps /\ Placed(k) /\ SameNodes(g, k)
      /\ HEAP_GET_PRIORITY(k, i) = HEAP_GET_PRIORITY(g, p)
      /\ HEAP_GET_PRIORITY(k, p) = HEAP_GET_PRIORITY(g, i)
      /\ \A l \in 1 .. n : l \notin {i, p} => HEAP_GET_PRIORITY(k, l) = HEAP_GET_PRIORITY(g, l)
  BY <1>1, <1>2, SwapShape DEF k
<1>5. Len(k.heap) = n
  BY <1>4 DEF SameNodes
<1> HIDE DEF n
<1>6. \A l \in 1 .. n : HEAP_GET_PRIORITY(g, l) \in Int
  BY <1>1, HeapTypes DEF n
<1>7. Above(g, i, p)
  BY <1>1, <1>2, <1>6, CompareTotal DEF Above
<1>8. \A j \in 2 .. n : /\ j # i => Above(g, parent(j), j)
                        /\ parent(j) = i => Above(g, p, j)
                        /\ parent(j) \in 1 .. n /\ parent(j) < j
  BY <1>1, ParentAbove DEF OrderedButUp, n, p
<1>9. ASSUME NEW j \in 2 .. n, j # p PROVE Above(k, parent(j), j)
  <2>1. CASE j = i
    BY <1>4, <1>7, <2>1 DEF Above, p
  <2>2. CASE j # i /\ parent(j) = p
    <3>1. HEAP_COMPARE(HEAP_GET_PRIORITY(g, i), HEAP_GET_PRIORITY(g, p))
      BY <1>7 DEF Above
    <3>2. HEAP_COMPARE(HEAP_GET_PRIORITY(g, p), HEAP_GET_PRIORITY(g, j))
      BY <1>8, <2>2 DEF Above
    <3>3. HEAP_COMPARE(HEAP_GET_PRIORITY(g, i), HEAP_GET_PRIORITY(g, j))
      BY <1>1, <1>2, <1>6, <3>1, <3>2, CompareTransitive
    <3> QED BY <1>4, <1>9, <2>2, <3>3 DEF Above
  <2>3. CASE j # i /\ parent(j) = i
    BY <1>4, <1>8, <1>9, <2>3 DEF Above
  <2>4. CASE j # i /\ parent(j) \notin {i, p}
    BY <1>4, <1>8, <1>9, <2>4 DEF Above
  <2> QED BY <2>1, <2>2, <2>3, <2>4
<1>10. ASSUME NEW j \in 2 .. n, parent(j) = p, p > 1 PROVE Above(k, parent(p), j)
  <2>1. p \in 2 .. n /\ p # i /\ parent(p) \in 1 .. n /\ parent(p) < p
    BY <1>1, <1>2, <1>8, <1>10
  <2>2. HEAP_COMPARE(HEAP_GET_PRIORITY(g, parent(p)), HEAP_GET_PRIORITY(g, p))
    BY <1>8, <2>1 DEF Above
  <2>3. HEAP_GET_PRIORITY(k, parent(p)) = HEAP_GET_PRIORITY(g, parent(p))
    BY <1>2, <1>4, <2>1
  <2>4. CASE j = i
    BY <1>4, <2>2, <2>3, <2>4 DEF Above
  <2>5. CASE j # i
    <3>1. HEAP_COMPARE(HEAP_GET_PRIORITY(g, p), HEAP_GET_PRIORITY(g, j)) /\ j # p
      BY <1>8, <1>10, <2>1, <2>5 DEF Above
    <3>2. HEAP_COMPARE(HEAP_GET_PRIORITY(g, parent(p)), HEAP_GET_PRIORITY(g, j))
      BY <1>6, <2>1, <2>2, <3>1, CompareTransitive
    <3> QED BY <1>4, <2>3, <2>5, <3>1, <3>2 DEF Above
  <2> QED BY <2>4, <2>5
<1>11. OrderedButUp(k, p)
  BY <1>5, <1>9, <1>10 DEF OrderedButUp
<1>12. SameNodes(h, k)
  BY <1>1, <1>4 DEF SameNodes
<1> QED BY <1>1, <1>2, <1>3, <1>4, <1>11, <1>12 DEF UpInv, i

\* A node that may be too low rises to where it belongs.
LEMMA HeapifyUp ==
  ASSUME NEW h \in Heaps, NEW i \in 1 .. Len(h.heap), Placed(h), OrderedButUp(h, i)
  PROVE  /\ heapifyup[<<h, i>>] \in Heaps /\ Placed(heapifyup[<<h, i>>])
         /\ SameNodes(h, heapifyup[<<h, i>>]) /\ Ordered(heapifyup[<<h, i>>])
<1> DEFINE rank == [s \in HeapPlaces |-> s[2]]
<1>1. <<h, i>> \in UpInv(h)
  BY HeapTypes DEF UpInv, HeapPlaces, SameNodes
<1>2. UpInv(h) \subseteq HeapPlaces /\ \A s \in HeapPlaces : rank[s] = s[2] /\ rank[s] \in Nat
  BY DEF UpInv, HeapPlaces
<1>3. Decreases(UpInv(h), UpStop, UpNext, rank)
  BY <1>2, UpInvStep DEF Decreases
<1> HIDE DEF rank
<1>4. \A s \in UpInv(h) : \E y \in UpInv(h) \cap UpStop : heapifyup[s] = HeapOf[y]
  BY <1>2, <1>3, HeapifyUpLoop, LoopInvariant
<1>5. PICK y \in UpInv(h) \cap UpStop : heapifyup[<<h, i>>] = HeapOf[y]
  BY <1>1, <1>4
<1>6. /\ heapifyup[<<h, i>>] = y[1] /\ y[1] \in Heaps /\ Placed(y[1]) /\ SameNodes(h, y[1])
      /\ OrderedButUp(y[1], y[2]) /\ (y[2] = 1 \/ Above(y[1], parent(y[2]), y[2]))
  BY <1>5 DEF UpInv, UpStop, HeapPlaces, HeapOf
<1>7. Ordered(y[1])
  BY <1>6, HeapTypes DEF Ordered, OrderedButUp
<1> QED BY <1>6, <1>7

------------------------------------------------------------------------------
(* heapifydown.                                                             *)

DownPlaces == Heaps \X (Nat \ {0})
DownStop == {s \in DownPlaces : \A c \in Children(s[1], s[2]) : Above(s[1], s[2], c)}
DownNext ==
  [s \in DownPlaces |->
     <<SwapPlaces(s[1], s[2], SmallerChild(s[1], s[2])), SmallerChild(s[1], s[2])>>]

DownInv(h) ==
  {s \in DownPlaces : /\ Placed(s[1]) /\ SameNodes(h, s[1]) /\ OrderedButDown(s[1], s[2])
                      /\ s[2] <= Len(s[1].heap) + 1}

\* SmallerChild is a child, and above the other one.
LEMMA SmallerChildAbove ==
  ASSUME NEW h \in Heaps, NEW i \in Nat, i >= 1, Children(h, i) # {}
  PROVE  LET c == SmallerChild(h, i) IN
         /\ c \in 2 .. Len(h.heap) /\ i \in 1 .. Len(h.heap) /\ c > i /\ parent(c) = i
         /\ \A j \in 2 .. Len(h.heap) : parent(j) = i => Above(h, c, j)
<1> DEFINE c == SmallerChild(h, i)
           l == 2 * i
           r == 2 * i + 1
           n == Len(h.heap)
<1>1. n \in Nat /\ l \in Nat /\ r \in Nat /\ l > i /\ l > 1 /\ r = l + 1
  BY HeapTypes
<1>2. \A j : j \in Children(h, i) <=> j \in {l, r} /\ j \in 1 .. n
  BY HeapTypes DEF Children
<1>3. \A j : j \in Children(h, i) <=> j \in 2 .. n /\ parent(j) = i
  BY ChildrenAreBelow
<1>4. c = IF r \in Children(h, i) /\ Above(h, r, l) THEN r ELSE l
  BY DEF SmallerChild, Above
<1> HIDE DEF l, r, c
<1>5. l \in Children(h, i)
  BY <1>1, <1>2
<1>6. c \in Children(h, i)
  BY <1>4, <1>5
<1> HIDE DEF n
<1>7. c \in 2 .. n /\ i \in 1 .. n /\ c > i /\ parent(c) = i
  <2>1. c \in {l, r} /\ c \in 2 .. n /\ parent(c) = i
    BY <1>2, <1>3, <1>6
  <2> QED BY <1>1, <2>1
<1>8. ASSUME NEW j \in 2 .. n, parent(j) = i PROVE Above(h, c, j)
  <2>1. j \in {l, r} /\ j \in Children(h, i) /\ j \in 1 .. n /\ l \in 1 .. n
    BY <1>1, <1>2, <1>3, <1>5, <1>8
  <2>2. \A k \in 1 .. n : HEAP_GET_PRIORITY(h, k) \in Int
    BY HeapTypes DEF n
  <2>3. Above(h, j, j) /\ (~Above(h, r, l) => r \notin 1 .. n \/ Above(h, l, r))
    BY <2>1, <2>2, CompareReflexive, CompareTotal DEF Above
  <2> QED BY <1>4, <2>1, <2>3
<1> QED BY <1>7, <1>8 DEF c, n

LEMMA DownNextTypes ==
  ASSUME NEW s \in DownPlaces, s \notin DownStop
  PROVE  /\ DownNext[s] \in DownPlaces /\ Children(s[1], s[2]) # {}
         /\ \E c \in Children(s[1], s[2]) : ~Above(s[1], s[2], c)
<1> DEFINE h == s[1]
           i == s[2]
           c == SmallerChild(h, i)
           m == HEAP_SET_INDEX(h, i, h.heap[c])
           k == SwapPlaces(h, i, c)
<1>1. /\ h \in Heaps /\ i \in Nat /\ i >= 1 /\ DownNext[s] = <<k, c>>
      /\ \E x \in Children(h, i) : ~Above(h, i, x)
  BY DEF DownPlaces, DownStop, DownNext
<1> HIDE DEF h, i
<1>2. c \in 1 .. Len(h.heap) /\ i \in 1 .. Len(h.heap) /\ c \in Nat \ {0}
  BY <1>1, SmallerChildAbove, HeapTypes
<1> HIDE DEF c
<1>3. h.heap[i] \in Nodes /\ h.heap[c] \in Nodes
  BY <1>1, <1>2, HeapTypes
<1>4. m \in Heaps /\ Len(m.heap) = Len(h.heap)
  BY <1>1, <1>2, <1>3, SetIndex
<1>5. k = HEAP_SET_INDEX(m, c, h.heap[i])
  BY DEF SwapPlaces
<1> HIDE DEF m, k
<1>6. k \in Heaps
  <2>1. c \in 1 .. Len(m.heap)
    BY <1>2, <1>4
  <2> QED BY <1>3, <1>4, <1>5, <2>1, SetIndex
<1>7. <<k, c>> \in DownPlaces
  BY <1>2, <1>6 DEF DownPlaces
<1> QED BY <1>1, <1>7 DEF h, i

LEMMA HeapifyDownLoop == IsLoop(heapifydown, DownPlaces, DownStop, DownNext, HeapOf)
<1> DEFINE Body(g, s) ==
             IF \A c \in Children(s[1], s[2]) :
                  HEAP_COMPARE(HEAP_GET_PRIORITY(s[1], s[2]), HEAP_GET_PRIORITY(s[1], c))
             THEN s[1]
             ELSE g[<<SwapPlaces(s[1], s[2], SmallerChild(s[1], s[2])), SmallerChild(s[1], s[2])>>]
           P(g) == g = [s \in DownPlaces |-> Body(g, s)]
<1>1. StaysIn(DownPlaces, DownStop, DownNext)
  BY DownNextTypes DEF StaysIn
<1>2. PICK g : IsLoop(g, DownPlaces, DownStop, DownNext, HeapOf)
  BY <1>1, LoopExists
<1>3. ASSUME NEW f, NEW s \in DownPlaces
      PROVE  Body(f, s) = IF s \in DownStop THEN HeapOf[s] ELSE f[DownNext[s]]
  <2>1. /\ HeapOf[s] = s[1]
        /\ DownNext[s] = <<SwapPlaces(s[1], s[2], SmallerChild(s[1], s[2])),
                           SmallerChild(s[1], s[2])>>
    BY DEF HeapOf, DownNext, DownPlaces
  <2>2. s \in DownStop <=>
          \A c \in Children(s[1], s[2]) :
            HEAP_COMPARE(HEAP_GET_PRIORITY(s[1], s[2]), HEAP_GET_PRIORITY(s[1], c))
    BY DEF DownStop, Above
  <2> QED BY <2>1, <2>2
<1>4. heapifydown = CHOOSE f : P(f)
  BY DEF heapifydown, DownPlaces
<1> HIDE DEF Body
<1>5. P(g)
  BY <1>2, <1>3 DEF IsLoop
<1> HIDE DEF P
<1>6. P(heapifydown)
  BY <1>4, <1>5
<1> QED BY <1>3, <1>6 DEF P, IsLoop

LEMMA DownInvStep ==
  ASSUME NEW h \in Heaps, NEW s \in DownInv(h), s \notin DownStop
  PROVE  DownNext[s] \in DownInv(h) /\ DownNext[s][2] > s[2]
<1> DEFINE g == s[1]
           i == s[2]
           c == SmallerChild(g, i)
           k == SwapPlaces(g, i, c)
           n == Len(g.heap)
<1>0. s \in DownPlaces
  BY DEF DownInv
<1>1. /\ g \in Heaps /\ i \in Nat /\ i >= 1 /\ n \in Nat /\ Placed(g) /\ SameNodes(h, g)
      /\ OrderedButDown(g, i) /\ DownNext[s] = <<k, c>>
  BY HeapTypes DEF DownInv, DownPlaces, DownNext
<1>2. PICK x \in Children(g, i) : ~Above(g, i, x)
  BY <1>0, DownNextTypes
<1>3. <<k, c>> \in DownPlaces
  BY <1>0, <1>1, DownNextTypes
<1>4. /\ c \in 2 .. n /\ i \in 1 .. n /\ c > i /\ parent(c) = i
      /\ \A j \in 2 .. n : parent(j) = i => Above(g, c, j)
  BY <1>1, <1>2, SmallerChildAbove
<1>5. x \in 2 .. n /\ parent(x) = i
  BY <1>1, ChildrenAreBelow
<1> HIDE DEF g, i, c, k
<1>6. /\ k \in Heaps /\ Placed(k) /\ SameNodes(g, k)
      /\ HEAP_GET_PRIORITY(k, i) = HEAP_GET_PRIORITY(g, c)
      /\ HEAP_GET_PRIORITY(k, c) = HEAP_GET_PRIORITY(g, i)
      /\ \A l \in 1 .. n : l \notin {i, c} => HEAP_GET_PRIORITY(k, l) = HEAP_GET_PRIORITY(g, l)
  BY <1>1, <1>4, SwapShape DEF k
<1>7. Len(k.heap) = n
  BY <1>6 DEF SameNodes
<1> HIDE DEF n
<1>8. \A l \in 1 .. n : HEAP_GET_PRIORITY(g, l) \in Int
  BY <1>1, HeapTypes DEF n
<1>9. Above(g, c, i)
  <2>1. HEAP_COMPARE(HEAP_GET_PRIORITY(g, c), HEAP_GET_PRIORITY(g, x))
    BY <1>4, <1>5 DEF Above
  <2>2. HEAP_COMPARE(HEAP_GET_PRIORITY(g, x), HEAP_GET_PRIORITY(g, i))
    BY <1>1, <1>2, <1>4, <1>5, <1>8, CompareTotal DEF Above
  <2> QED BY <1>1, <1>4, <1>5, <1>8, <2>1, <2>2, CompareTransitive DEF Above
<1>10. \A j \in 2 .. n : /\ parent(j) # i => Above(g, parent(j), j)
                         /\ parent(j) = i /\ i > 1 => Above(g, parent(i), j)
                         /\ parent(j) \in 1 .. n /\ parent(j) < j
  BY <1>1, ParentAbove DEF OrderedButDown, n
<1>11. ASSUME NEW j \in 2 .. n, parent(j) # c PROVE Above(k, parent(j), j)
  <2>1. CASE j = c
    BY <1>4, <1>6, <1>9, <2>1 DEF Above
  <2>2. CASE j # c /\ parent(j) = i
    BY <1>4, <1>6, <1>10, <2>2 DEF Above
  <2>3. CASE j = i
    <3>1. i > 1 /\ Above(g, parent(i), c) /\ parent(i) # i /\ parent(i) # c /\ parent(i) \in 1 .. n
      BY <1>1, <1>4, <1>10, <2>3
    <3> QED BY <1>6, <2>3, <3>1 DEF Above
  <2>4. CASE j \notin {i, c} /\ parent(j) # i
    BY <1>6, <1>10, <1>11, <2>4 DEF Above
  <2> QED BY <2>1, <2>2, <2>3, <2>4
<1>12. ASSUME NEW j \in 2 .. n, parent(j) = c PROVE Above(k, parent(c), j)
  <2>1. Above(g, c, j) /\ j \notin {i, c}
    BY <1>1, <1>4, <1>10, <1>12
  <2> QED BY <1>4, <1>6, <2>1 DEF Above
<1>13. OrderedButDown(k, c)
  BY <1>7, <1>11, <1>12 DEF OrderedButDown
<1>14. SameNodes(h, k) /\ c <= Len(k.heap) + 1
  BY <1>1, <1>4, <1>6, <1>7 DEF SameNodes
<1> QED BY <1>1, <1>3, <1>4, <1>6, <1>13, <1>14 DEF DownInv, i

\* A node that may be too high sinks to where it belongs.
LEMMA HeapifyDown ==
  ASSUME NEW h \in Heaps, NEW i \in 1 .. Len(h.heap) + 1, Placed(h), OrderedButDown(h, i)
  PROVE  /\ heapifydown[<<h, i>>] \in Heaps /\ Placed(heapifydown[<<h, i>>])
         /\ SameNodes(h, heapifydown[<<h, i>>]) /\ Ordered(heapifydown[<<h, i>>])
<1> DEFINE rank == [s \in DownPlaces |-> Len(h.heap) + 1 - s[2]]
<1>1. <<h, i>> \in DownInv(h)
  BY HeapTypes DEF DownInv, DownPlaces, SameNodes
<1>2. /\ DownInv(h) \subseteq DownPlaces
      /\ \A s \in DownInv(h) : rank[s] = Len(h.heap) + 1 - s[2] /\ rank[s] \in Nat /\ s[2] \in Nat
  BY HeapTypes DEF DownInv, DownPlaces, SameNodes
<1>3. Decreases(DownInv(h), DownStop, DownNext, rank)
  <2>1. ASSUME NEW s \in DownInv(h), s \notin DownStop
        PROVE  DownNext[s] \in DownInv(h) /\ rank[DownNext[s]] < rank[s]
    <3>1. DownNext[s] \in DownInv(h) /\ DownNext[s][2] > s[2]
      BY <2>1, DownInvStep
    <3> HIDE DEF rank
    <3>2. /\ rank[s] = Len(h.heap) + 1 - s[2] /\ s[2] \in Nat
          /\ rank[DownNext[s]] = Len(h.heap) + 1 - DownNext[s][2] /\ DownNext[s][2] \in Nat
      BY <1>2, <3>1
    <3>3. Len(h.heap) \in Nat
      BY HeapTypes
    <3>4. ASSUME NEW a \in Nat, NEW b \in Nat, NEW c \in Nat, b > a PROVE c + 1 - b < c + 1 - a
      BY <3>4
    <3>5. Len(h.heap) + 1 - DownNext[s][2] < Len(h.heap) + 1 - s[2]
      BY <3>1, <3>2, <3>3, <3>4
    <3> QED BY <3>1, <3>2, <3>5
  <2> QED BY <1>2, <2>1 DEF Decreases
<1> HIDE DEF rank
<1>4. \A s \in DownInv(h) : \E y \in DownInv(h) \cap DownStop : heapifydown[s] = HeapOf[y]
  BY <1>2, <1>3, HeapifyDownLoop, LoopInvariant
<1>5. PICK y \in DownInv(h) \cap DownStop : heapifydown[<<h, i>>] = HeapOf[y]
  BY <1>1, <1>4
<1>6. /\ heapifydown[<<h, i>>] = y[1] /\ y[1] \in Heaps /\ Placed(y[1]) /\ SameNodes(h, y[1])
      /\ OrderedButDown(y[1], y[2]) /\ y[2] \in Nat /\ y[2] >= 1
      /\ \A c \in Children(y[1], y[2]) : Above(y[1], y[2], c)
  BY <1>5 DEF DownInv, DownStop, DownPlaces, HeapOf
<1>7. Ordered(y[1])
  BY <1>6, ChildrenAreBelow DEF Ordered, OrderedButDown
<1> QED BY <1>6, <1>7

------------------------------------------------------------------------------
(* The operations of the heap.                                              *)

\* The nodes of a queue, as their flags say.
Flagged(q) == {n \in Nodes : q.in[n]}

\* A heap at rest.
IsHeap(h) == h \in Heaps /\ Placed(h) /\ Ordered(h) /\ Flagged(h) = Members(h)

Cleared(h, n) == [h EXCEPT !.in[n] = FALSE]

LEMMA WithoutLastShape ==
  ASSUME NEW h \in Heaps, Len(h.heap) >= 1, NEW k, k = WithoutLast(h)
  PROVE  /\ k \in Heaps /\ k.prio = h.prio /\ k.in = h.in /\ k.pos = h.pos
         /\ Len(k.heap) = Len(h.heap) - 1
         /\ \A l \in 1 .. Len(h.heap) - 1 : k.heap[l] = h.heap[l]
<1>1. PICK a \in Seq(Nodes) : /\ a = SubSeq(h.heap, 1, Len(h.heap) - 1)
                              /\ Len(a) = Len(h.heap) - 1
                              /\ \A l \in 1 .. Len(h.heap) - 1 : a[l] = h.heap[l]
  <2> DEFINE n == Len(h.heap) - 1
             a == SubSeq(h.heap, 1, n)
  <2>1. h.heap \in Seq(Nodes) /\ Len(h.heap) \in Nat /\ n \in Nat
    BY HeapTypes
  <2>2. \A l \in 1 .. n : h.heap[l] \in Nodes
    BY <2>1
  <2>3. a = [l \in 1 .. n |-> h.heap[l]]
    BY <2>1
  <2>4. a \in Seq(Nodes) /\ Len(a) = n /\ \A l \in 1 .. n : a[l] = h.heap[l]
    BY <2>1, <2>2, <2>3
  <2> QED BY <2>4
<1>2. k = [h EXCEPT !.heap = a]
  BY <1>1 DEF WithoutLast
<1>3. k.heap = a
  BY <1>2 DEF Heaps
<1>4. k.prio = h.prio /\ k.in = h.in /\ k.pos = h.pos
  BY <1>2 DEF Heaps
<1>5. k \in Heaps
  BY <1>2 DEF Heaps
<1> QED BY <1>1, <1>3, <1>4, <1>5

LEMMA ClearIn ==
  ASSUME NEW h \in Heaps, NEW n \in Nodes, NEW k, k = Cleared(h, n)
  PROVE  /\ k \in Heaps /\ k.heap = h.heap /\ k.prio = h.prio /\ k.pos = h.pos
         /\ Flagged(k) = Flagged(h) \ {n}
<1>1. PICK b \in [Nodes -> BOOLEAN] : b = [h.in EXCEPT ![n] = FALSE]
  BY HeapTypes
<1>2. k = [h EXCEPT !.in = b]
  BY <1>1 DEF Heaps, Cleared
<1>3. k.in = b
  BY <1>2 DEF Heaps
<1>4. k.prio = h.prio /\ k.heap = h.heap /\ k.pos = h.pos
  BY <1>2 DEF Heaps
<1>5. k \in Heaps
  BY <1>2 DEF Heaps
<1>6. \A x \in Nodes : k.in[x] <=> x # n /\ h.in[x]
  BY <1>1, <1>3, HeapTypes
<1>7. Flagged(k) = Flagged(h) \ {n}
  BY <1>6 DEF Flagged
<1> QED BY <1>4, <1>5, <1>7

\* do_insert: a node that is not in the heap comes to it with its priority.
LEMMA InsertHeap ==
  ASSUME NEW h, IsHeap(h), NEW n \in Nodes, n \notin Flagged(h), NEW p \in Int,
         NEW k, k = do_insert(h, n, p)
  PROVE  /\ IsHeap(k) /\ Flagged(k) = Flagged(h) \cup {n}
         /\ \A x \in Nodes : k.prio[x] = IF x = n THEN p ELSE h.prio[x]
<1> DEFINE last == Len(h.heap) + 1
           f == [heap |-> Append(h.heap, n), pos |-> [h.pos EXCEPT ![n] = last],
                 prio |-> [h.prio EXCEPT ![n] = p], in |-> [h.in EXCEPT ![n] = TRUE]]
<1>1. /\ h \in Heaps /\ Placed(h) /\ Ordered(h) /\ n \notin Members(h) /\ Len(h.heap) \in Nat
      /\ h.heap \in Seq(Nodes) /\ DOMAIN h.heap = 1 .. Len(h.heap) /\ last \in Nat
      /\ h.pos \in [Nodes -> Nat] /\ h.prio \in [Nodes -> Int] /\ h.in \in [Nodes -> BOOLEAN]
      /\ Flagged(h) = Members(h)
  BY HeapTypes DEF IsHeap
<1>2. /\ Append(h.heap, n) \in Seq(Nodes) /\ [h.pos EXCEPT ![n] = last] \in [Nodes -> Nat]
      /\ [h.prio EXCEPT ![n] = p] \in [Nodes -> Int]
      /\ [h.in EXCEPT ![n] = TRUE] \in [Nodes -> BOOLEAN]
  BY <1>1
<1>3. f \in Heaps
  BY <1>2 DEF Heaps
<1>4. /\ Len(f.heap) = last /\ DOMAIN f.heap = 1 .. last /\ f.heap[last] = n
      /\ \A l \in 1 .. Len(h.heap) : f.heap[l] = h.heap[l]
  BY <1>1, AppendShape
<1>5. /\ \A x \in Nodes : f.pos[x] = IF x = n THEN last ELSE h.pos[x]
      /\ \A x \in Nodes : f.prio[x] = IF x = n THEN p ELSE h.prio[x]
      /\ \A x \in Nodes : f.in[x] <=> x = n \/ h.in[x]
  BY <1>1
<1>6. k = heapifyup[<<f, last>>]
  BY DEF do_insert
<1> HIDE DEF f
<1>7. \A l \in 1 .. Len(h.heap) : h.heap[l] # n /\ h.heap[l] \in Nodes /\ h.pos[h.heap[l]] = l
  BY <1>1 DEF Members, Placed
<1>8. Placed(f)
  <2> SUFFICES ASSUME NEW l \in 1 .. last PROVE f.pos[f.heap[l]] = l
    BY <1>4 DEF Placed
  <2>1. l = last \/ l \in 1 .. Len(h.heap)
    BY <1>1
  <2>2. CASE l = last
    BY <1>4, <1>5, <2>2
  <2>3. CASE l \in 1 .. Len(h.heap)
    BY <1>4, <1>5, <1>7, <2>3
  <2> QED BY <2>1, <2>2, <2>3
<1>9. Members(f) = Members(h) \cup {n}
  <2>1. DOMAIN f.heap = DOMAIN h.heap \cup {last}
    BY <1>1, <1>4
  <2>2. \A l \in DOMAIN h.heap : f.heap[l] = h.heap[l]
    BY <1>1, <1>4
  <2>3. ASSUME NEW x PROVE x \in Members(f) <=> x \in Members(h) \/ x = n
    <3>1. (\E l \in DOMAIN f.heap : x = f.heap[l]) <=> (\E l \in DOMAIN h.heap : x = h.heap[l]) \/ x = n
      <4> HIDE DEF last
      <4> QED BY <1>4, <2>1, <2>2, Zenon
    <3> QED BY <3>1, InMembers
  <2> QED BY <2>3
<1>10. \A l \in 1 .. Len(h.heap) : HEAP_GET_PRIORITY(f, l) = HEAP_GET_PRIORITY(h, l)
  BY <1>4, <1>5, <1>7 DEF HEAP_GET_PRIORITY
<1>11. OrderedButUp(f, last)
  <2>1. ASSUME NEW j \in 2 .. last, j # last PROVE Above(f, parent(j), j)
    <3>0. j \in Nat /\ j > 1 /\ j <= Len(h.heap)
      <4>1. Len(h.heap) \in Nat
        BY <1>1
      <4> QED BY <2>1, <4>1
    <3>1. j \in 2 .. Len(h.heap) /\ parent(j) \in 1 .. Len(h.heap) /\ j \in 1 .. Len(h.heap)
      BY <1>1, <3>0, ParentAbove
    <3>2. Above(h, parent(j), j)
      BY <1>1, <3>1 DEF Ordered
    <3>3. /\ HEAP_GET_PRIORITY(f, parent(j)) = HEAP_GET_PRIORITY(h, parent(j))
          /\ HEAP_GET_PRIORITY(f, j) = HEAP_GET_PRIORITY(h, j)
      BY <1>10, <3>1
    <3> QED BY <3>2, <3>3 DEF Above
  <2>2. ASSUME NEW j \in 2 .. last PROVE parent(j) # last
    BY <1>1, ParentAbove
  <2> QED BY <1>4, <2>1, <2>2 DEF OrderedButUp
<1>12. last \in 1 .. Len(f.heap)
  BY <1>1, <1>4
<1>13. k \in Heaps /\ Placed(k) /\ SameNodes(f, k) /\ Ordered(k)
  BY <1>3, <1>6, <1>8, <1>11, <1>12, HeapifyUp
<1>14. Flagged(f) = Flagged(h) \cup {n}
  BY <1>5 DEF Flagged
<1>15. Flagged(k) = Flagged(f)
  BY <1>13 DEF Flagged, SameNodes
<1> QED BY <1>1, <1>5, <1>9, <1>15, <1>13, <1>14 DEF IsHeap, SameNodes

\* The last node has filled the gap at place i.
GapFilled(h, f, i, n) ==
  /\ i \in 1 .. Len(h.heap) /\ f \in Heaps /\ n \in Nat /\ n = Len(h.heap) - 1
  /\ Len(f.heap) = n /\ f.prio = h.prio
  /\ \A l \in 1 .. n : f.heap[l] = IF l = i THEN h.heap[n + 1] ELSE h.heap[l]
  /\ \A x \in Nodes : f.pos[x] = IF x = h.heap[n + 1] THEN i ELSE h.pos[x]

LEMMA FilledGap ==
  ASSUME NEW h, NEW f, NEW i, NEW n, IsHeap(h), GapFilled(h, f, i, n)
  PROVE  /\ Placed(f) /\ Members(f) = Members(h) \ {h.heap[i]}
         /\ i \in {1, n + 1} => OrderedButDown(f, i)
         /\ i \in 2 .. n => IF Above(f, i, parent(i)) THEN OrderedButUp(f, i)
                                                      ELSE OrderedButDown(f, i)
         /\ i = n + 1 => Ordered(f)
<1> USE DEF GapFilled
<1>1. /\ h \in Heaps /\ Placed(h) /\ Ordered(h) /\ DOMAIN h.heap = 1 .. n + 1 /\ DOMAIN f.heap = 1 .. n
      /\ Len(h.heap) = n + 1 /\ i \in 1 .. n + 1
      /\ \A l \in 1 .. n + 1 : h.heap[l] \in Nodes /\ h.pos[h.heap[l]] = l
      /\ \A l \in 1 .. n : HEAP_GET_PRIORITY(f, l) \in Int
  <2>1. h \in Heaps /\ Placed(h) /\ Ordered(h)
    BY DEF IsHeap
  <2>2. Len(h.heap) = n + 1 /\ DOMAIN h.heap = 1 .. n + 1 /\ DOMAIN f.heap = 1 .. n
    BY <2>1, HeapTypes
  <2>3. \A l \in 1 .. n + 1 : h.heap[l] \in Nodes /\ h.pos[h.heap[l]] = l
    BY <2>1, <2>2, HeapTypes DEF Placed
  <2>4. \A l \in 1 .. n : HEAP_GET_PRIORITY(f, l) \in Int
    BY HeapTypes
  <2> QED BY <2>1, <2>2, <2>3, <2>4
<1>2. \A l, m \in 1 .. n + 1 : h.heap[l] = h.heap[m] => l = m
  BY <1>1
<1>3. Placed(f)
  <2> SUFFICES ASSUME NEW l \in 1 .. n PROVE f.pos[f.heap[l]] = l
    BY <1>1 DEF Placed
  <2>1. l \in 1 .. n + 1 /\ n + 1 \in 1 .. n + 1 /\ l # n + 1
    OBVIOUS
  <2>2. CASE l = i
    BY <1>1, <2>1, <2>2
  <2>3. CASE l # i
    <3>1. f.heap[l] = h.heap[l] /\ h.heap[l] # h.heap[n + 1] /\ h.heap[l] \in Nodes
      BY <1>1, <1>2, <2>1, <2>3
    <3>2. f.pos[h.heap[l]] = h.pos[h.heap[l]] /\ h.pos[h.heap[l]] = l
      BY <1>1, <2>1, <3>1
    <3> QED BY <3>1, <3>2
  <2> QED BY <2>2, <2>3
<1>4. Members(f) = Members(h) \ {h.heap[i]}
  <2>0. n + 1 \in 1 .. n + 1 /\ 1 .. n \subseteq 1 .. n + 1
    OBVIOUS
  <2>1. ASSUME NEW l \in 1 .. n PROVE f.heap[l] \in Members(h) /\ f.heap[l] # h.heap[i]
    <3>1. l \in 1 .. n + 1 /\ l # n + 1
      OBVIOUS
    <3>2. PICK m \in 1 .. n + 1 : f.heap[l] = h.heap[m] /\ m # i
      <4>1. CASE l = i
        BY <2>0, <3>1, <4>1
      <4>2. CASE l # i
        BY <3>1, <4>2
      <4> QED BY <4>1, <4>2
    <3>3. h.heap[m] # h.heap[i]
      BY <1>1, <1>2, <3>2
    <3> QED BY <1>1, <3>2, <3>3, InMembers
  <2>2. ASSUME NEW m \in 1 .. n + 1, m # i PROVE \E l \in 1 .. n : f.heap[l] = h.heap[m]
    <3>1. CASE m = n + 1
      BY <1>1, <2>2, <3>1
    <3>2. CASE m # n + 1
      <4>1. m \in 1 .. n
        BY <3>2
      <4> QED BY <2>2, <4>1
    <3> QED BY <3>1, <3>2
  <2>3. Members(f) \subseteq Members(h) \ {h.heap[i]}
    <3> SUFFICES ASSUME NEW x \in Members(f) PROVE x \in Members(h) \ {h.heap[i]}
      OBVIOUS
    <3>1. PICK l \in 1 .. n : x = f.heap[l]
      BY <1>1, InMembers
    <3> QED BY <2>1, <3>1
  <2>4. Members(h) \ {h.heap[i]} \subseteq Members(f)
    <3> SUFFICES ASSUME NEW x \in Members(h), x # h.heap[i] PROVE x \in Members(f)
      OBVIOUS
    <3>1. PICK m \in 1 .. n + 1 : x = h.heap[m]
      BY <1>1, InMembers
    <3>2. PICK l \in 1 .. n : f.heap[l] = x
      BY <2>2, <3>1
    <3> QED BY <1>1, <3>2, InMembers
  <2> QED BY <2>3, <2>4
<1>5. \A l \in 1 .. n : l # i => HEAP_GET_PRIORITY(f, l) = HEAP_GET_PRIORITY(h, l)
  BY DEF HEAP_GET_PRIORITY
<1>6. \A j \in 2 .. n + 1 : Above(h, parent(j), j) /\ parent(j) \in 1 .. n /\ parent(j) < j
  BY <1>1, ParentAbove DEF Ordered
<1>7. ASSUME NEW j \in 2 .. n, j # i, parent(j) # i PROVE Above(f, parent(j), j)
  <2>1. j \in 2 .. n + 1 /\ j \in 1 .. n
    OBVIOUS
  <2>2. Above(h, parent(j), j) /\ parent(j) \in 1 .. n
    BY <1>6, <2>1
  <2> QED BY <1>5, <1>7, <2>1, <2>2 DEF Above
<1>8. ASSUME NEW j \in 2 .. n, parent(j) = i, i > 1 PROVE Above(f, parent(i), j)
  <2>1. i \in 2 .. n + 1 /\ j \in 2 .. n + 1 /\ j # i /\ j \in 1 .. n + 1 /\ i \in 1 .. n
    BY <1>6, <1>8
  <2>2. parent(i) \in 1 .. n /\ parent(i) # i
    BY <1>6, <2>1
  <2>3. HEAP_COMPARE(HEAP_GET_PRIORITY(h, parent(i)), HEAP_GET_PRIORITY(h, i))
    BY <1>6, <2>1 DEF Above
  <2>4. HEAP_COMPARE(HEAP_GET_PRIORITY(h, i), HEAP_GET_PRIORITY(h, j))
    BY <1>6, <1>8, <2>1 DEF Above
  <2>5. \A l \in 1 .. n + 1 : HEAP_GET_PRIORITY(h, l) \in Int
    BY <1>1, HeapTypes
  <2>6. parent(i) \in 1 .. n + 1
    BY <2>2
  <2>7. HEAP_COMPARE(HEAP_GET_PRIORITY(h, parent(i)), HEAP_GET_PRIORITY(h, j))
    BY <1>1, <2>1, <2>3, <2>4, <2>5, <2>6, CompareTransitive
  <2> QED BY <1>5, <2>1, <2>2, <2>7 DEF Above
<1>9. \A j \in 2 .. n : j # n + 1 /\ parent(j) # n + 1
  BY <1>6
<1>10. ASSUME i \in {1, n + 1} PROVE OrderedButDown(f, i)
  BY <1>1, <1>7, <1>8, <1>10 DEF OrderedButDown
<1>11. ASSUME i \in 2 .. n, Above(f, i, parent(i)) PROVE OrderedButUp(f, i)
  <2>1. ASSUME NEW j \in 2 .. n, parent(j) = i PROVE Above(f, i, j)
    <3>1. Above(f, parent(i), j)
      BY <1>8, <1>11, <2>1
    <3>2. parent(i) \in 1 .. n
      BY <1>6, <1>11
    <3> QED BY <1>1, <1>11, <3>1, <3>2, CompareTransitive DEF Above
  <2> QED BY <1>7, <1>8, <2>1 DEF OrderedButUp
<1>12. ASSUME i \in 2 .. n, ~Above(f, i, parent(i)) PROVE OrderedButDown(f, i)
  <2>1. parent(i) \in 1 .. n
    BY <1>6, <1>12
  <2>2. Above(f, parent(i), i)
    BY <1>1, <1>12, <2>1, CompareTotal DEF Above
  <2> QED BY <1>7, <1>8, <2>2 DEF OrderedButDown
<1>13. ASSUME i = n + 1 PROVE Ordered(f)
  BY <1>7, <1>9, <1>13 DEF Ordered
<1> QED BY <1>3, <1>4, <1>10, <1>11, <1>12, <1>13

\* do_pop: the node at the top leaves.
LEMMA PopHeap ==
  ASSUME NEW h, IsHeap(h), h.heap # <<>>, NEW k, k = do_pop(h)
  PROVE  /\ IsHeap(k) /\ k.prio = h.prio /\ h.heap[1] \in Flagged(h)
         /\ Flagged(k) = Flagged(h) \ {h.heap[1]}
<1> DEFINE n == Len(h.heap) - 1
           last == h.heap[Len(h.heap)]
           m == HEAP_SET_INDEX(h, 1, last)
           f == WithoutLast(m)
           g == heapifydown[<<f, 1>>]
<1>1. /\ h \in Heaps /\ Len(h.heap) \in Nat /\ n \in Nat /\ Len(h.heap) >= 1 /\ Len(h.heap) = n + 1
      /\ 1 \in 1 .. Len(h.heap) /\ last \in Nodes /\ h.heap[1] \in Nodes
      /\ h.heap[1] \in Members(h)
      /\ Flagged(h) = Members(h)
  <2>1. h \in Heaps /\ h.heap \in Seq(Nodes) /\ Flagged(h) = Members(h)
    BY HeapTypes DEF IsHeap
  <2>2. Len(h.heap) \in Nat /\ Len(h.heap) >= 1 /\ DOMAIN h.heap = 1 .. Len(h.heap)
    BY <2>1
  <2>3. last \in Nodes /\ h.heap[1] \in Nodes /\ h.heap[1] \in Members(h)
    BY <2>1, <2>2 DEF Members
  <2> QED BY <2>1, <2>2, <2>3
<1>2. /\ m \in Heaps /\ m.prio = h.prio /\ m.in = h.in /\ Len(m.heap) = Len(h.heap)
      /\ \A l \in 1 .. Len(h.heap) : m.heap[l] = IF l = 1 THEN last ELSE h.heap[l]
      /\ \A x \in Nodes : m.pos[x] = IF x = last THEN 1 ELSE h.pos[x]
  BY <1>1, SetIndex
<1> HIDE DEF m
<1>3. /\ f \in Heaps /\ f.prio = m.prio /\ f.in = m.in /\ f.pos = m.pos
      /\ Len(f.heap) = n /\ \A l \in 1 .. n : f.heap[l] = m.heap[l]
  BY <1>1, <1>2, WithoutLastShape
<1> HIDE DEF f
<1>4. \A l \in 1 .. n : f.heap[l] = IF l = 1 THEN h.heap[n + 1] ELSE h.heap[l]
  <2>1. 1 .. n \subseteq 1 .. Len(h.heap)
    BY <1>1
  <2> QED BY <1>1, <1>2, <1>3, <2>1
<1>5. \A x \in Nodes : f.pos[x] = IF x = h.heap[n + 1] THEN 1 ELSE h.pos[x]
  BY <1>1, <1>2, <1>3
<1>6. f.prio = h.prio /\ f.in = h.in
  BY <1>2, <1>3
<1> HIDE DEF n
<1>7. Placed(f) /\ Members(f) = Members(h) \ {h.heap[1]} /\ OrderedButDown(f, 1)
  <2>1. n = Len(h.heap) - 1
    BY DEF n
  <2>2. n \in Nat /\ Len(h.heap) \in Nat /\ h \in Heaps
    BY <1>1
  <2>3. f \in Heaps /\ Len(f.heap) = n /\ f.prio = h.prio
    BY <1>3, <1>6
  <2>4. GapFilled(h, f, 1, n)
    BY <1>1, <1>4, <1>5, <2>1, <2>2, <2>3 DEF GapFilled
  <2> QED BY <2>4, FilledGap, Zenon
<1>8. 1 \in 1 .. Len(f.heap) + 1
  BY <1>1, <1>3
<1>9. g \in Heaps /\ Placed(g) /\ SameNodes(f, g) /\ Ordered(g)
  BY <1>3, <1>7, <1>8, HeapifyDown
<1> HIDE DEF g
<1>10. /\ k \in Heaps /\ k.heap = g.heap /\ k.prio = g.prio /\ k.pos = g.pos
       /\ Flagged(k) = Flagged(g) \ {h.heap[1]}
  <2>1. k = Cleared(g, h.heap[1])
    BY DEF do_pop, g, f, m, Cleared
  <2> QED BY <1>1, <1>9, <2>1, ClearIn
<1>11. Placed(k) /\ Ordered(k) /\ Members(k) = Members(g)
  BY <1>9, <1>10 DEF Placed, Ordered, Members, Above, HEAP_GET_PRIORITY
<1>12. Flagged(g) = Flagged(h)
  BY <1>6, <1>9 DEF SameNodes, Flagged
<1>13. Members(k) = Members(h) \ {h.heap[1]}
  BY <1>7, <1>9, <1>11 DEF SameNodes
<1> QED BY <1>1, <1>6, <1>9, <1>10, <1>11, <1>12, <1>13 DEF IsHeap, SameNodes

\* do_remove: a node leaves from the middle.
LEMMA RemoveHeap ==
  ASSUME NEW h, IsHeap(h), NEW n \in Flagged(h), NEW k, k = do_remove(h, n)
  PROVE  IsHeap(k) /\ k.prio = h.prio /\ Flagged(k) = Flagged(h) \ {n}
<1> DEFINE i == h.pos[n]
           c == Len(h.heap) - 1
           last == h.heap[Len(h.heap)]
           w == WithoutLast(h)
           short == Cleared(w, n)
           f == HEAP_SET_INDEX(short, i, last)
<1>1. /\ h \in Heaps /\ Len(h.heap) \in Nat /\ n \in Members(h) /\ DOMAIN h.heap = 1 .. Len(h.heap)
      /\ h.heap \in Seq(Nodes) /\ Placed(h) /\ Flagged(h) = Members(h) /\ n \in Nodes
  BY HeapTypes DEF IsHeap, Flagged
<1>2. i \in 1 .. Len(h.heap) /\ h.heap[i] = n
  BY <1>1 DEF Members, Placed
<1>3. c \in Nat /\ Len(h.heap) = c + 1 /\ last \in Nodes /\ last = h.heap[c + 1] /\ Len(h.heap) >= 1
  BY <1>1, <1>2
<1>4. /\ w \in Heaps /\ w.prio = h.prio /\ w.in = h.in /\ w.pos = h.pos
      /\ Len(w.heap) = c /\ \A l \in 1 .. c : w.heap[l] = h.heap[l]
  BY <1>1, <1>3, WithoutLastShape
<1> HIDE DEF w
<1>5. /\ short \in Heaps /\ short.heap = w.heap /\ short.prio = w.prio /\ short.pos = w.pos
      /\ Flagged(short) = Flagged(w) \ {n}
  BY <1>1, <1>4, ClearIn
<1> HIDE DEF short
<1>6. ASSUME NEW g, IsHeap(h), Placed(g), Ordered(g), g \in Heaps, g.in = short.in,
             Members(g) = Members(h) \ {n}, g.prio = h.prio, k = g
      PROVE  IsHeap(k) /\ k.prio = h.prio /\ Flagged(k) = Flagged(h) \ {n}
  <2>1. Flagged(short) = Flagged(h) \ {n}
    BY <1>4, <1>5 DEF Flagged
  <2>2. Flagged(k) = Flagged(short)
    BY <1>6 DEF Flagged
  <2> QED BY <1>1, <1>6, <2>1, <2>2 DEF IsHeap
<1> HIDE DEF i, last
<1>7. k = IF i = Len(h.heap) THEN short
          ELSE IF i > 1 /\ HEAP_COMPARE(h.prio[last], HEAP_GET_PRIORITY(f, parent(i)))
               THEN heapifyup[<<f, i>>] ELSE heapifydown[<<f, i>>]
  BY DEF do_remove, short, w, i, last, Cleared
<1>8. CASE i = Len(h.heap)
  <2>1. /\ \A l \in 1 .. c : short.heap[l] = IF l = i THEN h.heap[c + 1] ELSE h.heap[l]
        /\ \A x \in Nodes : short.pos[x] = IF x = h.heap[c + 1] THEN i ELSE h.pos[x]
    BY <1>2, <1>3, <1>4, <1>5, <1>8 DEF i
  <2>2. Len(short.heap) = c /\ short.prio = h.prio /\ c = Len(h.heap) - 1 /\ i = c + 1
    BY <1>3, <1>4, <1>5, <1>8
  <2> HIDE DEF c
  <2>3. Placed(short) /\ Members(short) = Members(h) \ {h.heap[i]} /\ Ordered(short)
    <3>1. GapFilled(h, short, i, c)
      BY <1>2, <1>3, <1>5, <2>1, <2>2 DEF GapFilled
    <3>2. Placed(short) /\ Members(short) = Members(h) \ {h.heap[i]} /\ (i = c + 1 => Ordered(short))
      BY <3>1, FilledGap, Zenon
    <3> QED BY <2>2, <3>2
  <2> QED BY <1>2, <1>5, <1>6, <1>7, <1>8, <2>2, <2>3
<1>9. CASE i # Len(h.heap)
  <2>1. i \in 1 .. c /\ Len(short.heap) = c
    BY <1>2, <1>3, <1>4, <1>5, <1>9
  <2>2. /\ f \in Heaps /\ f.prio = short.prio /\ f.in = short.in /\ Len(f.heap) = Len(short.heap)
        /\ \A l \in 1 .. c : f.heap[l] = IF l = i THEN last ELSE short.heap[l]
        /\ \A x \in Nodes : f.pos[x] = IF x = last THEN i ELSE short.pos[x]
    <3>1. i \in 1 .. Len(short.heap)
      BY <2>1
    <3>2. /\ f \in Heaps /\ f.prio = short.prio /\ f.in = short.in /\ Len(f.heap) = Len(short.heap)
          /\ \A l \in 1 .. Len(short.heap) : f.heap[l] = IF l = i THEN last ELSE short.heap[l]
          /\ \A x \in Nodes : f.pos[x] = IF x = last THEN i ELSE short.pos[x]
      BY <1>3, <1>5, <3>1, SetIndex
    <3> QED BY <2>1, <3>2
  <2> HIDE DEF f
  <2>3. /\ \A l \in 1 .. c : f.heap[l] = IF l = i THEN h.heap[c + 1] ELSE h.heap[l]
        /\ \A x \in Nodes : f.pos[x] = IF x = h.heap[c + 1] THEN i ELSE h.pos[x]
    BY <1>3, <1>4, <1>5, <2>2
  <2>4. Len(f.heap) = c /\ f.prio = h.prio /\ c = Len(h.heap) - 1
    BY <1>3, <1>4, <1>5, <2>1, <2>2
  <2> HIDE DEF c
  <2>5. /\ Placed(f) /\ Members(f) = Members(h) \ {h.heap[i]}
        /\ i \in {1, c + 1} => OrderedButDown(f, i)
        /\ i \in 2 .. c => IF Above(f, i, parent(i)) THEN OrderedButUp(f, i)
                                                     ELSE OrderedButDown(f, i)
    <3>1. GapFilled(h, f, i, c)
      BY <1>2, <1>3, <2>2, <2>3, <2>4 DEF GapFilled
    <3> QED BY <3>1, FilledGap, Zenon
  <2>6. i \in 1 .. Len(f.heap) /\ i \in 1 .. Len(f.heap) + 1 /\ (i = 1 \/ (i \in 2 .. c /\ i > 1))
    BY <1>3, <2>1, <2>4
  <2>7. HEAP_COMPARE(h.prio[last], HEAP_GET_PRIORITY(f, parent(i))) <=> Above(f, i, parent(i))
    BY <1>3, <2>1, <2>3, <2>4 DEF Above, HEAP_GET_PRIORITY
  <2>8. CASE i > 1 /\ Above(f, i, parent(i))
    <3> DEFINE g == heapifyup[<<f, i>>]
    <3>1. g \in Heaps /\ Placed(g) /\ SameNodes(f, g) /\ Ordered(g)
      BY <2>2, <2>5, <2>6, <2>8, HeapifyUp
    <3>2. k = g
      BY <1>7, <1>9, <2>7, <2>8
    <3> HIDE DEF g
    <3> QED BY <1>2, <1>6, <2>2, <2>4, <2>5, <3>1, <3>2 DEF SameNodes
  <2>9. CASE ~(i > 1 /\ Above(f, i, parent(i)))
    <3> DEFINE g == heapifydown[<<f, i>>]
    <3>0. OrderedButDown(f, i)
      BY <2>5, <2>6, <2>9
    <3>1. g \in Heaps /\ Placed(g) /\ SameNodes(f, g) /\ Ordered(g)
      BY <2>2, <2>5, <2>6, <3>0, HeapifyDown
    <3>2. k = g
      BY <1>7, <1>9, <2>7, <2>9
    <3> HIDE DEF g
    <3> QED BY <1>2, <1>6, <2>2, <2>4, <2>5, <3>1, <3>2 DEF SameNodes
  <2> QED BY <2>8, <2>9
<1> QED BY <1>8, <1>9

\* move_node: a node of the heap gets another priority.
LEMMA MoveHeap ==
  ASSUME NEW h, IsHeap(h), NEW n \in Flagged(h), NEW p \in Int, NEW k, k = move_node(h, n, p)
  PROVE  /\ IsHeap(k) /\ Flagged(k) = Flagged(h)
         /\ \A x \in Nodes : k.prio[x] = IF x = n THEN p ELSE h.prio[x]
<1> DEFINE m == do_remove(h, n)
<1>1. IsHeap(m) /\ m.prio = h.prio /\ Flagged(m) = Flagged(h) \ {n}
  BY RemoveHeap
<1>2. k = do_insert(m, n, p) /\ n \in Nodes
  BY DEF move_node, Flagged
<1> HIDE DEF m
<1>3. /\ IsHeap(k) /\ Flagged(k) = Flagged(m) \cup {n}
      /\ \A x \in Nodes : k.prio[x] = IF x = n THEN p ELSE m.prio[x]
  BY <1>1, <1>2, InsertHeap
<1> QED BY <1>1, <1>3

\* The node at the top is above every other.
LEMMA TopIsBest ==
  ASSUME NEW h, IsHeap(h), NEW x \in Flagged(h)
  PROVE  h.heap # <<>> /\ HEAP_COMPARE(h.prio[h.heap[1]], h.prio[x])
<1>1. h \in Heaps /\ Len(h.heap) \in Nat /\ DOMAIN h.heap = 1 .. Len(h.heap) /\ h.heap \in Seq(Nodes)
  BY HeapTypes DEF IsHeap
<1>2. PICK l \in 1 .. Len(h.heap) : x = h.heap[l]
  BY <1>1 DEF IsHeap, Members
<1> DEFINE n == Len(h.heap)
           T == {j \in 1 .. n : ~Above(h, 1, j)}
<1>3. T = {}
  <2> SUFFICES ASSUME T # {} PROVE FALSE
    OBVIOUS
  <2>1. T \subseteq Nat
    OBVIOUS
  <2>2. PICK j \in T : \A y \in T : j <= y
    <3> HIDE DEF T
    <3> QED BY <2>1, LeastElement
  <2>3. \A y \in 1 .. n : HEAP_GET_PRIORITY(h, y) \in Int
    BY <1>1, HeapTypes
  <2>4. 1 \in 1 .. n /\ j \in 1 .. n /\ j \in Nat
    BY <1>1
  <2>5. j # 1
    BY <2>3, <2>4, CompareReflexive DEF Above
  <2>6. parent(j) \in 1 .. n /\ parent(j) < j /\ j \in 2 .. n
    BY <1>1, <2>4, <2>5, ParentAbove
  <2>7. parent(j) \notin T
    <3> HIDE DEF T
    <3>1. parent(j) \in Nat
      BY <2>6
    <3> QED BY <2>2, <2>4, <2>6, <3>1
  <2>8. Above(h, 1, parent(j)) /\ Above(h, parent(j), j)
    BY <2>6, <2>7 DEF IsHeap, Ordered
  <2>9. Above(h, 1, j)
    <3> HIDE DEF n
    <3> QED BY <2>3, <2>4, <2>6, <2>8, CompareTransitive DEF Above
  <2> QED BY <2>9
<1>4. Above(h, 1, l)
  BY <1>3
<1> QED BY <1>1, <1>2, <1>4 DEF Above, HEAP_GET_PRIORITY

------------------------------------------------------------------------------
(* The list.                                                                *)

Lists ==
  [head : Nodes \cup {Null}, tail : Nodes \cup {Null}, next : [Nodes -> Nodes \cup {Null}],
   prev : [Nodes -> Nodes \cup {Null}], in : [Nodes -> BOOLEAN]]

\* The node at place i of a sequence; Null outside of it.
At(s, i) == IF i \in 1 .. Len(s) THEN s[i] ELSE Null

\* The links go through the sequence s in both directions.
Links(q, s) ==
  /\ q.head = At(s, 1) /\ q.tail = At(s, Len(s))
  /\ \A i \in 1 .. Len(s) : q.next[s[i]] = At(s, i + 1) /\ q.prev[s[i]] = At(s, i - 1)

\* The list holds the nodes of s, each of them once.
IsList(q, s) ==
  /\ q \in Lists /\ s \in Seq(Nodes) /\ Distinct(s) /\ Flagged(q) = ToSet(s) /\ Links(q, s)

LEMMA ListTypes ==
  ASSUME NEW q, NEW s, IsList(q, s)
  PROVE  /\ q \in Lists /\ s \in Seq(Nodes) /\ Len(s) \in Nat /\ DOMAIN s = 1 .. Len(s)
         /\ \A i \in 1 .. Len(s) : s[i] \in Nodes /\ s[i] # Null
         /\ \A i, j \in 1 .. Len(s) : s[i] = s[j] => i = j
         /\ \A n : n \in Flagged(q) <=> \E i \in 1 .. Len(s) : s[i] = n
<1>1. q \in Lists /\ s \in Seq(Nodes) /\ Distinct(s) /\ Flagged(q) = ToSet(s)
  BY DEF IsList
<1>2. Len(s) \in Nat /\ DOMAIN s = 1 .. Len(s) /\ \A i \in 1 .. Len(s) : s[i] \in Nodes
  BY <1>1
<1> QED BY <1>1, <1>2, NodeQueuesAssumption DEF Distinct, ToSet

LEMMA PushList ==
  ASSUME NEW q, NEW s, IsList(q, s), NEW n \in Nodes, n \notin Flagged(q),
         NEW r, r = push_tail_node(q, n)
  PROVE  IsList(r, Append(s, n)) /\ Flagged(r) = Flagged(q) \cup {n}
<1> DEFINE t == Append(s, n)
           c == Len(s)
<1>1. /\ q \in Lists /\ s \in Seq(Nodes) /\ c \in Nat /\ Links(q, s) /\ Distinct(s)
      /\ n \notin ToSet(s) /\ Flagged(q) = ToSet(s)
      /\ \A i \in 1 .. c : s[i] \in Nodes /\ s[i] # n /\ s[i] # Null
      /\ \A i, j \in 1 .. c : s[i] = s[j] => i = j
  BY ListTypes DEF IsList
<1>2. /\ t \in Seq(Nodes) /\ Distinct(t) /\ ToSet(t) = ToSet(s) \cup {n}
  BY <1>1, DistinctAppend
<1>3. Len(t) = c + 1 /\ t[c + 1] = n /\ \A i \in 1 .. c : t[i] = s[i]
  BY <1>1, AppendShape
<1> HIDE DEF t
<1>4. /\ q.head \in Nodes \cup {Null} /\ q.tail \in Nodes \cup {Null}
      /\ q.next \in [Nodes -> Nodes \cup {Null}] /\ q.prev \in [Nodes -> Nodes \cup {Null}]
      /\ q.in \in [Nodes -> BOOLEAN]
  BY <1>1 DEF Lists
<1>5. /\ r.head = IF q.head = Null THEN n ELSE q.head
      /\ r.tail = n
      /\ \A x \in Nodes : r.next[x] = IF x = n THEN Null ELSE IF x = q.tail THEN n ELSE q.next[x]
      /\ \A x \in Nodes : r.prev[x] = IF x = n THEN q.tail ELSE q.prev[x]
      /\ \A x \in Nodes : r.in[x] <=> x = n \/ q.in[x]
  BY <1>4 DEF push_tail_node
<1>6. r \in Lists
  <2>1. /\ [x \in Nodes |-> IF x = n THEN Null ELSE IF x = q.tail THEN n ELSE q.next[x]]
             \in [Nodes -> Nodes \cup {Null}]
        /\ [q.prev EXCEPT ![n] = q.tail] \in [Nodes -> Nodes \cup {Null}]
        /\ [q.in EXCEPT ![n] = TRUE] \in [Nodes -> BOOLEAN]
    BY <1>4
  <2> QED BY <1>4, <2>1 DEF push_tail_node, Lists
<1>7. Flagged(r) = Flagged(q) \cup {n}
  BY <1>5 DEF Flagged
<1>8. \A i \in 0 .. c : At(t, i) = At(s, i)
  BY <1>1, <1>3 DEF At
<1>9. At(t, c + 1) = n /\ At(t, c + 2) = Null /\ At(s, c + 1) = Null
  BY <1>1, <1>3 DEF At
<1>10. q.head = At(s, 1) /\ q.tail = At(s, c)
  BY <1>1 DEF Links
<1>11. r.head = At(t, 1) /\ r.tail = At(t, c + 1)
  <2>1. CASE c = 0
    BY <1>5, <1>9, <1>10, <2>1 DEF At
  <2>2. CASE c # 0
    BY <1>1, <1>3, <1>5, <1>10, <2>2 DEF At
  <2> QED BY <1>5, <1>9, <2>1, <2>2
<1>12. ASSUME NEW i \in 1 .. c
       PROVE  r.next[t[i]] = At(t, i + 1) /\ r.prev[t[i]] = At(t, i - 1)
  <2>1. /\ t[i] = s[i] /\ s[i] \in Nodes /\ s[i] # n /\ q.next[s[i]] = At(s, i + 1)
        /\ q.prev[s[i]] = At(s, i - 1)
    BY <1>1, <1>3 DEF Links
  <2>2. r.prev[t[i]] = At(t, i - 1)
    <3>1. i - 1 \in 0 .. c
      BY <1>1
    <3> QED BY <1>5, <1>8, <2>1, <3>1
  <2>3. CASE i = c
    <3>1. q.tail = s[i]
      BY <1>10, <2>3 DEF At
    <3> QED BY <1>5, <1>9, <2>1, <2>2, <2>3, <3>1
  <2>4. CASE i # c
    <3>1. i + 1 \in 0 .. c /\ c \in 1 .. c
      BY <1>1, <2>4
    <3>2. s[i] # q.tail
      BY <1>1, <1>10, <2>4, <3>1 DEF At
    <3> QED BY <1>5, <1>8, <2>1, <2>2, <3>1, <3>2
  <2> QED BY <2>3, <2>4
<1>13. r.next[t[c + 1]] = At(t, c + 2) /\ r.prev[t[c + 1]] = At(t, c)
  BY <1>1, <1>3, <1>5, <1>8, <1>9, <1>10
<1>14. Links(r, t)
  <2>1. ASSUME NEW i \in 1 .. c + 1
        PROVE  r.next[t[i]] = At(t, i + 1) /\ r.prev[t[i]] = At(t, i - 1)
    <3>1. CASE i = c + 1
      <4>1. i + 1 = c + 2 /\ i - 1 = c
        BY <1>1, <3>1
      <4> QED BY <1>13, <3>1, <4>1
    <3>2. CASE i # c + 1
      <4>1. i \in 1 .. c
        BY <1>1, <3>2
      <4> QED BY <1>12, <4>1
    <3> QED BY <3>1, <3>2
  <2> QED BY <1>3, <1>11, <2>1 DEF Links
<1>15. IsList(r, t)
  BY <1>1, <1>2, <1>6, <1>7, <1>14 DEF IsList
<1> QED BY <1>7, <1>15 DEF t

\* What taking out one element does to the places.
LEMMA AtDrops ==
  ASSUME NEW s \in Seq(Nodes), NEW t \in Seq(Nodes), NEW d, Drops(s, t, d)
  PROVE  \A i \in 0 .. Len(s) : At(t, i) = IF i < d THEN At(s, i) ELSE At(s, i + 1)
<1>1. /\ Len(s) \in Nat /\ d \in 1 .. Len(s) /\ Len(t) = Len(s) - 1
      /\ \A i \in 1 .. Len(s) - 1 : t[i] = IF i < d THEN s[i] ELSE s[i + 1]
  BY DEF Drops
<1>2. SUFFICES ASSUME NEW i \in 0 .. Len(s)
               PROVE  At(t, i) = IF i < d THEN At(s, i) ELSE At(s, i + 1)
  OBVIOUS
<1>3. CASE i = 0
  BY <1>1, <1>3 DEF At
<1>4. CASE i = Len(s)
  BY <1>1, <1>4 DEF At
<1>5. CASE i \in 1 .. Len(s) - 1
  BY <1>1, <1>5 DEF At
<1> QED BY <1>1, <1>3, <1>4, <1>5

LEMMA PopList ==
  ASSUME NEW q, NEW s, IsList(q, s), q.head # Null, NEW r, r = pop_node(q)
  PROVE  /\ s # <<>> /\ q.head = Head(s) /\ q.head \in Flagged(q)
         /\ IsList(r, Tail(s)) /\ Flagged(r) = Flagged(q) \ {q.head}
<1> DEFINE t == Tail(s)
           c == Len(s)
           first == q.next[q.head]
<1>1. /\ q \in Lists /\ s \in Seq(Nodes) /\ c \in Nat /\ Links(q, s) /\ Distinct(s)
      /\ Flagged(q) = ToSet(s)
      /\ \A i \in 1 .. c : s[i] \in Nodes /\ s[i] # Null /\ s[i] \in Flagged(q)
      /\ \A i, j \in 1 .. c : s[i] = s[j] => i = j
  BY ListTypes DEF IsList
<1>2. c >= 1 /\ q.head = s[1]
  BY <1>1 DEF Links, At
<1>3. s # <<>> /\ q.head = Head(s) /\ q.head \in Flagged(q)
  BY <1>1, <1>2
<1>4. t \in Seq(Nodes) /\ Drops(s, t, 1)
  BY <1>1, <1>3, DropsTail
<1> HIDE DEF t
<1>5. Distinct(t) /\ ToSet(t) = ToSet(s) \ {s[1]} /\ Len(t) = c - 1
  BY <1>1, <1>4, DistinctDrops DEF Drops
<1>6. /\ \A i \in 0 .. c : At(t, i) = IF i < 1 THEN At(s, i) ELSE At(s, i + 1)
      /\ \A i \in 1 .. c - 1 : t[i] = s[i + 1]
  <2>1. \A i \in 1 .. c - 1 : t[i] = IF i < 1 THEN s[i] ELSE s[i + 1]
    BY <1>4 DEF Drops
  <2>2. \A i \in 1 .. c - 1 : t[i] = s[i + 1]
    BY <1>1, <2>1
  <2>3. \A i \in 0 .. c : At(t, i) = IF i < 1 THEN At(s, i) ELSE At(s, i + 1)
    BY <1>1, <1>4, AtDrops
  <2> QED BY <2>2, <2>3
<1>7. first = At(s, 2) /\ first \in Nodes \cup {Null}
  <2>1. 1 \in 1 .. c
    BY <1>1, <1>2
  <2>2. first = At(s, 1 + 1)
    BY <1>1, <1>2, <2>1 DEF Links
  <2> QED BY <1>1, <2>2 DEF At
<1> HIDE DEF first
<1>8. /\ q.head \in Nodes \cup {Null} /\ q.tail \in Nodes \cup {Null}
      /\ q.next \in [Nodes -> Nodes \cup {Null}] /\ q.prev \in [Nodes -> Nodes \cup {Null}]
      /\ q.in \in [Nodes -> BOOLEAN]
  BY <1>1 DEF Lists
<1>9. PICK a \in Nodes \cup {Null}, b \in [Nodes -> Nodes \cup {Null}], e \in [Nodes -> BOOLEAN] :
        /\ a = IF first = Null THEN Null ELSE q.tail
        /\ b = [x \in Nodes |-> IF x = first THEN Null ELSE q.prev[x]]
        /\ e = [q.in EXCEPT ![q.head] = FALSE]
  <2>1. [x \in Nodes |-> IF x = first THEN Null ELSE q.prev[x]] \in [Nodes -> Nodes \cup {Null}]
    BY <1>8
  <2>2. [q.in EXCEPT ![q.head] = FALSE] \in [Nodes -> BOOLEAN]
    BY <1>8
  <2>3. (IF first = Null THEN Null ELSE q.tail) \in Nodes \cup {Null}
    BY <1>8
  <2> QED BY <2>1, <2>2, <2>3
<1>10. r = [q EXCEPT !.head = first, !.tail = a, !.prev = b, !.in = e]
  BY <1>1, <1>9 DEF pop_node, Lists, first
<1>11. r.head = first /\ r.tail = a
  BY <1>1, <1>10 DEF Lists
<1>12. r.prev = b /\ r.in = e
  BY <1>1, <1>10 DEF Lists
<1>13. r.next = q.next
  BY <1>1, <1>10 DEF Lists
<1>14. r \in Lists
  BY <1>1, <1>7, <1>10 DEF Lists
<1>15. Flagged(r) = Flagged(q) \ {q.head}
  <2>1. \A x \in Nodes : r.in[x] <=> x # q.head /\ q.in[x]
    BY <1>8, <1>9, <1>12
  <2> QED BY <2>1 DEF Flagged
<1>16. r.head = At(t, 1)
  BY <1>1, <1>2, <1>6, <1>7, <1>11
<1>17. r.tail = At(t, c - 1)
  <2>1. q.tail = At(s, c)
    BY <1>1 DEF Links
  <2>2. CASE c = 1
    BY <1>5, <1>7, <1>9, <1>11, <2>2 DEF At
  <2>3. CASE c # 1
    <3>0. PICK z \in Nat : z = c /\ z >= 1 /\ z # 1
      BY <1>1, <1>2, <2>3
    <3>1. first = s[2] /\ first # Null
      <4>1. 2 \in 1 .. z
        BY <3>0
      <4> QED BY <1>1, <1>7, <3>0, <4>1 DEF At
    <3>2. c - 1 \in 0 .. c /\ ~(c - 1 < 1) /\ (c - 1) + 1 = c
      <4>1. z - 1 \in 0 .. z /\ ~(z - 1 < 1) /\ (z - 1) + 1 = z
        BY <3>0
      <4> QED BY <3>0, <4>1
    <3> QED BY <1>6, <1>9, <1>11, <2>1, <3>1, <3>2
  <2> QED BY <2>2, <2>3
<1>18. ASSUME NEW i \in 1 .. c - 1
       PROVE  r.next[t[i]] = At(t, i + 1) /\ r.prev[t[i]] = At(t, i - 1)
  <2>1. /\ i + 1 \in 1 .. c /\ i + 1 \in 0 .. c /\ i - 1 \in 0 .. c /\ ~(i + 1 < 1)
        /\ (i + 1) - 1 = i /\ (i - 1) + 1 = i /\ i \in 1 .. c
    BY <1>1
  <2>2. /\ t[i] = s[i + 1] /\ t[i] \in Nodes /\ q.next[t[i]] = At(s, (i + 1) + 1)
        /\ q.prev[t[i]] = At(s, i)
    BY <1>1, <1>6, <2>1 DEF Links
  <2>3. r.next[t[i]] = At(t, i + 1)
    BY <1>6, <1>13, <2>1, <2>2
  <2>4. r.prev[t[i]] = IF t[i] = first THEN Null ELSE At(s, i)
    BY <1>9, <1>12, <2>2
  <2>5. CASE i = 1
    <3>1. t[i] = first /\ At(t, i - 1) = Null
      BY <1>7, <2>1, <2>2, <2>5 DEF At
    <3> QED BY <2>3, <2>4, <3>1
  <2>6. CASE i # 1
    <3>1. i > 1 /\ 2 \in 1 .. c /\ i + 1 # 2 /\ ~(i - 1 < 1)
      BY <2>1, <2>6
    <3>2. t[i] # first
      <4>1. first = s[2]
        BY <1>7, <3>1 DEF At
      <4> QED BY <1>1, <2>1, <2>2, <3>1, <4>1
    <3>3. At(t, i - 1) = At(s, i)
      <4>1. PICK j \in 0 .. c : j = i - 1
        BY <2>1
      <4>2. ~(j < 1) /\ j + 1 = i
        BY <2>1, <3>1, <4>1
      <4> QED BY <1>6, <4>1, <4>2
    <3> QED BY <2>3, <2>4, <3>2, <3>3
  <2> QED BY <2>5, <2>6
<1>19. Links(r, t)
  BY <1>5, <1>16, <1>17, <1>18 DEF Links
<1>20. IsList(r, t)
  BY <1>1, <1>2, <1>4, <1>5, <1>14, <1>15, <1>19 DEF IsList
<1> QED BY <1>3, <1>15, <1>20 DEF t

LEMMA RemoveList ==
  ASSUME NEW q, NEW s, IsList(q, s), NEW d \in 1 .. Len(s), NEW r, r = remove_node(q, s[d])
  PROVE  IsList(r, RemoveAt(s, d)) /\ Flagged(r) = Flagged(q) \ {s[d]}
<1> DEFINE t == RemoveAt(s, d)
           c == Len(s)
           n == s[d]
<1>1. /\ q \in Lists /\ s \in Seq(Nodes) /\ c \in Nat /\ Links(q, s) /\ Distinct(s)
      /\ Flagged(q) = ToSet(s) /\ d \in 1 .. c /\ n \in Nodes
      /\ \A i \in 1 .. c : s[i] \in Nodes /\ s[i] # Null
      /\ \A i, j \in 1 .. c : s[i] = s[j] => i = j
  BY ListTypes DEF IsList
<1>2. t \in Seq(Nodes) /\ Drops(s, t, d)
  BY <1>1, RemoveAtShape
<1> HIDE DEF t
<1>3. Distinct(t) /\ ToSet(t) = ToSet(s) \ {n} /\ Len(t) = c - 1
  <2>1. Distinct(t) /\ ToSet(t) = ToSet(s) \ {n}
    BY <1>1, <1>2, DistinctDrops
  <2>2. Len(t) = c - 1
    BY <1>2 DEF Drops
  <2> QED BY <2>1, <2>2
<1>4. \A i \in 0 .. c : At(t, i) = IF i < d THEN At(s, i) ELSE At(s, i + 1)
  BY <1>1, <1>2, AtDrops
<1>5. q.next[n] = At(s, d + 1) /\ q.prev[n] = At(s, d - 1)
  BY <1>1 DEF Links
<1>6. q.head = At(s, 1) /\ q.tail = At(s, c)
  BY <1>1 DEF Links
<1>7. \A i \in 1 .. c : q.next[s[i]] = At(s, i + 1) /\ q.prev[s[i]] = At(s, i - 1)
  BY <1>1 DEF Links
<1>8. /\ q.head \in Nodes \cup {Null} /\ q.tail \in Nodes \cup {Null}
      /\ q.next \in [Nodes -> Nodes \cup {Null}] /\ q.prev \in [Nodes -> Nodes \cup {Null}]
      /\ q.in \in [Nodes -> BOOLEAN]
  BY <1>1 DEF Lists
<1>9. r = remove_node(q, n)
  OBVIOUS
<1>10. At(s, d) = n /\ \A i \in 1 .. c : At(s, i) = s[i]
  BY <1>1 DEF At
<1>11. \A i \in 1 .. c - 1 : At(t, i) = t[i]
  BY <1>3 DEF At
<1> HIDE DEF n
<1>12. /\ r.head = IF q.head = n THEN q.next[n] ELSE q.head
       /\ r.tail = IF q.tail = n THEN q.prev[n] ELSE q.tail
       /\ \A x \in Nodes : r.next[x] = IF x = n THEN Null
                                       ELSE IF x = q.prev[n] THEN q.next[n] ELSE q.next[x]
       /\ \A x \in Nodes : r.prev[x] = IF x = n THEN Null
                                       ELSE IF x = q.next[n] THEN q.prev[n] ELSE q.prev[x]
       /\ \A x \in Nodes : r.in[x] <=> x # n /\ q.in[x]
  BY <1>1, <1>8, <1>9 DEF remove_node
<1>13. r \in Lists
  <2>1. /\ [x \in Nodes |-> IF x = n THEN Null ELSE IF x = q.prev[n] THEN q.next[n] ELSE q.next[x]]
             \in [Nodes -> Nodes \cup {Null}]
        /\ [x \in Nodes |-> IF x = n THEN Null ELSE IF x = q.next[n] THEN q.prev[n] ELSE q.prev[x]]
             \in [Nodes -> Nodes \cup {Null}]
        /\ [q.in EXCEPT ![n] = FALSE] \in [Nodes -> BOOLEAN]
    BY <1>1, <1>8
  <2> QED BY <1>1, <1>8, <1>9, <2>1 DEF remove_node, Lists
<1>14. Flagged(r) = Flagged(q) \ {n}
  BY <1>12 DEF Flagged
<1>15. \A i \in 1 .. c : s[i] = n <=> i = d
  BY <1>1, <1>10
<1>16. At(s, 0) = Null /\ At(s, c + 1) = Null /\ \A i \in 0 .. c + 1 : i \in 1 .. c \/ At(s, i) = Null
  BY <1>1 DEF At
<1>17. r.head = At(t, 1)
  <2>1. 1 \in 1 .. c /\ 1 \in 0 .. c /\ At(s, 1) = s[1]
    BY <1>1, <1>10
  <2>2. CASE d = 1
    <3>1. q.head = n /\ At(t, 1) = At(s, 2)
      BY <1>4, <1>6, <1>15, <2>1, <2>2
    <3> QED BY <1>5, <1>12, <2>2, <3>1
  <2>3. CASE d # 1
    <3>1. 1 < d
      BY <1>1, <2>3
    <3>2. q.head # n /\ At(t, 1) = At(s, 1)
      BY <1>4, <1>6, <1>15, <2>1, <3>1
    <3> QED BY <1>6, <1>12, <3>2
  <2> QED BY <2>2, <2>3
<1>18. r.tail = At(t, c - 1)
  <2>1. c \in 1 .. c /\ c - 1 \in 0 .. c /\ At(s, c) = s[c] /\ (c - 1) + 1 = c
    BY <1>1, <1>10
  <2>2. CASE d = c
    <3>1. q.tail = n
      BY <1>6, <1>15, <2>1, <2>2
    <3>2. c - 1 < d
      BY <1>1, <2>2
    <3> QED BY <1>4, <1>5, <1>12, <2>1, <2>2, <3>1, <3>2
  <2>3. CASE d # c
    <3>1. ~(c - 1 < d)
      BY <1>1, <2>3
    <3>2. q.tail # n /\ At(t, c - 1) = At(s, c)
      BY <1>4, <1>6, <1>15, <2>1, <2>3, <3>1
    <3> QED BY <1>6, <1>12, <3>2
  <2> QED BY <2>2, <2>3
<1>19. ASSUME NEW i \in 1 .. c - 1
       PROVE  r.next[t[i]] = At(t, i + 1) /\ r.prev[t[i]] = At(t, i - 1)
  <2>1. i \in 0 .. c /\ i + 1 \in 0 .. c /\ i - 1 \in 0 .. c /\ d \in Nat /\ i \in Nat
    BY <1>1
  <2>2. /\ At(t, i) = IF i < d THEN At(s, i) ELSE At(s, i + 1)
        /\ At(t, i + 1) = IF i + 1 < d THEN At(s, i + 1) ELSE At(s, (i + 1) + 1)
        /\ At(t, i - 1) = IF i - 1 < d THEN At(s, i - 1) ELSE At(s, (i - 1) + 1)
        /\ At(t, i) = t[i]
    BY <1>4, <1>11, <2>1
  <2>3. PICK k \in 1 .. c : k = (IF i < d THEN i ELSE i + 1) /\ k # d
    BY <1>1, <2>1
  <2>4. t[i] = s[k] /\ At(s, k) = s[k] /\ t[i] # n /\ t[i] \in Nodes
    BY <1>1, <1>10, <1>15, <2>2, <2>3
  <2>5. q.next[t[i]] = At(s, k + 1) /\ q.prev[t[i]] = At(s, k - 1)
    BY <1>7, <2>4
  <2>6. t[i] = q.prev[n] <=> k = d - 1
    <3>1. d - 1 \in 0 .. c + 1 /\ k # 0
      BY <1>1
    <3>2. CASE d - 1 \in 1 .. c
      <4>1. At(s, d - 1) = s[d - 1]
        BY <1>10, <3>2
      <4> QED BY <1>1, <1>5, <2>4, <3>2, <4>1
    <3>3. CASE d - 1 \notin 1 .. c
      BY <1>1, <1>5, <1>16, <2>4, <3>1, <3>3
    <3> QED BY <3>2, <3>3
  <2>7. t[i] = q.next[n] <=> k = d + 1
    <3>1. d + 1 \in 0 .. c + 1
      BY <1>1
    <3>2. CASE d + 1 \in 1 .. c
      <4>1. At(s, d + 1) = s[d + 1]
        BY <1>10, <3>2
      <4> QED BY <1>1, <1>5, <2>4, <3>2, <4>1
    <3>3. CASE d + 1 \notin 1 .. c
      BY <1>1, <1>5, <1>16, <2>4, <3>1, <3>3
    <3> QED BY <3>2, <3>3
  <2>8. /\ r.next[t[i]] = IF k = d - 1 THEN At(s, d + 1) ELSE At(s, k + 1)
        /\ r.prev[t[i]] = IF k = d + 1 THEN At(s, d - 1) ELSE At(s, k - 1)
    BY <1>5, <1>12, <2>4, <2>5, <2>6, <2>7
  <2>9. r.next[t[i]] = At(t, i + 1)
    <3>1. CASE i + 1 < d
      <4>1. k = i /\ k # d - 1
        BY <2>1, <2>3, <3>1
      <4> QED BY <2>2, <2>8, <3>1, <4>1
    <3>2. CASE i + 1 = d
      <4>1. k = d - 1 /\ ~(i + 1 < d)
        BY <2>1, <2>3, <3>2
      <4> QED BY <2>2, <2>8, <3>2, <4>1
    <3>3. CASE i + 1 > d
      <4>1. k = i + 1 /\ k # d - 1 /\ ~(i + 1 < d)
        BY <2>1, <2>3, <3>3
      <4> QED BY <2>2, <2>8, <4>1
    <3> QED BY <2>1, <3>1, <3>2, <3>3
  <2>10. r.prev[t[i]] = At(t, i - 1)
    <3>1. CASE i < d
      <4>1. k = i /\ k # d + 1 /\ i - 1 < d
        BY <2>1, <2>3, <3>1
      <4> QED BY <2>2, <2>8, <4>1
    <3>2. CASE i = d
      <4>1. k = d + 1 /\ i - 1 < d
        BY <2>1, <2>3, <3>2
      <4> QED BY <2>2, <2>8, <3>2, <4>1
    <3>3. CASE i > d
      <4>1. k = i + 1 /\ k # d + 1 /\ ~(i - 1 < d) /\ k - 1 = i /\ (i - 1) + 1 = i
        BY <2>1, <2>3, <3>3
      <4> QED BY <2>2, <2>8, <4>1
    <3> QED BY <2>1, <3>1, <3>2, <3>3
  <2> QED BY <2>9, <2>10
<1>20. Links(r, t)
  BY <1>3, <1>17, <1>18, <1>19 DEF Links
<1>21. IsList(r, t)
  BY <1>1, <1>2, <1>3, <1>13, <1>14, <1>20 DEF IsList
<1> QED BY <1>14, <1>21 DEF t, n

\* A list of distinct nodes is no longer than there are nodes.
LEMMA ListBound ==
  ASSUME NEW s \in Seq(Nodes), Distinct(s)
  PROVE  Len(s) <= Cardinality(Nodes) /\ Cardinality(Nodes) \in Nat
<1>1. Len(s) \in Nat /\ DOMAIN s = 1 .. Len(s) /\ s \in [1 .. Len(s) -> Nodes]
  OBVIOUS
<1>2. s \in Injection(1 .. Len(s), Nodes)
  BY <1>1 DEF Injection, IsInjective, Distinct
<1>3. Cardinality(1 .. Len(s)) <= Cardinality(Nodes) /\ Cardinality(Nodes) \in Nat
  BY <1>2, FS_Injection, FS_CardinalityType, NodeQueuesAssumption
<1>4. Cardinality(1 .. Len(s)) = Len(s)
  <2>1. ASSUME NEW c \in Nat PROVE Cardinality(1 .. c) = c
    <3>1. Cardinality(1 .. c) = IF 1 > c THEN 0 ELSE c - 1 + 1
      BY FS_Interval
    <3> QED BY <3>1
  <2> QED BY <1>1, <2>1
<1> QED BY <1>3, <1>4

\* Following the links from the head gives the sequence.
LEMMA WalkOfList ==
  ASSUME NEW q, NEW s, IsList(q, s)
  PROVE  WalkOf(q) = s
<1> DEFINE c == Len(s)
           m == Cardinality(Nodes)
           P(f) == f = [i \in 0 .. m |->
                          IF i = 0 THEN q.head
                          ELSE IF f[i - 1] = Null THEN Null ELSE q.next[f[i - 1]]]
           from == CHOOSE f : P(f)
           nodes == {i \in 0 .. m : from[i] # Null}
<1>1. WalkOf(q) = [i \in 1 .. Cardinality(nodes) |-> from[i - 1]]
  BY DEF WalkOf
<1>2. /\ s \in Seq(Nodes) /\ c \in Nat /\ Links(q, s) /\ Distinct(s)
      /\ \A i \in 1 .. c : s[i] \in Nodes /\ s[i] # Null
  BY ListTypes DEF IsList
<1>3. c <= m /\ m \in Nat
  BY <1>2, ListBound
<1>4. q.head = At(s, 1) /\ \A i \in 1 .. c : q.next[s[i]] = At(s, i + 1)
  BY <1>2 DEF Links
<1> HIDE DEF m
<1>5. \A i \in 1 .. m : At(s, i + 1) = IF At(s, i) = Null THEN Null ELSE q.next[At(s, i)]
  <2> SUFFICES ASSUME NEW i \in 1 .. m
               PROVE  At(s, i + 1) = IF At(s, i) = Null THEN Null ELSE q.next[At(s, i)]
    OBVIOUS
  <2>1. CASE i \in 1 .. c
    BY <1>2, <1>4, <2>1 DEF At
  <2>2. CASE i \notin 1 .. c
    <3>1. i + 1 \notin 1 .. c
      BY <1>2, <1>3, <2>2
    <3> QED BY <2>2, <3>1 DEF At
  <2> QED BY <2>1, <2>2
<1> DEFINE w == [i \in 0 .. m |-> At(s, i + 1)]
<1>6. P(w)
  <2>1. ASSUME NEW i \in 0 .. m
        PROVE  At(s, i + 1) = IF i = 0 THEN q.head
                              ELSE IF w[i - 1] = Null THEN Null ELSE q.next[w[i - 1]]
    <3>1. CASE i = 0
      BY <1>4, <3>1
    <3>2. CASE i # 0
      <4>1. i \in 1 .. m /\ i - 1 \in 0 .. m /\ (i - 1) + 1 = i
        BY <1>3, <3>2
      <4>2. w[i - 1] = At(s, i)
        BY <4>1
      <4> QED BY <1>5, <3>2, <4>1, <4>2
    <3> QED BY <3>1, <3>2
  <2> QED BY <2>1
<1>7. P(from)
  <2> HIDE DEF P
  <2> QED BY <1>6
<1>8. \A i \in 0 .. m : from[i] = IF i = 0 THEN q.head
                        ELSE IF from[i - 1] = Null THEN Null ELSE q.next[from[i - 1]]
  <2> HIDE DEF from
  <2> QED BY <1>7
<1> HIDE DEF from, w, P
<1>9. \A i \in 0 .. m : from[i] = At(s, i + 1)
  <2> DEFINE T == {i \in 0 .. m : from[i] # At(s, i + 1)}
  <2> SUFFICES ASSUME T # {} PROVE FALSE
    OBVIOUS
  <2>1. T \subseteq Nat
    BY <1>3
  <2>2. PICK i \in T : \A y \in T : i <= y
    <3> HIDE DEF T
    <3> QED BY <2>1, LeastElement
  <2>3. i \in 0 .. m /\ i \in Nat /\ from[i] # At(s, i + 1)
    BY <2>1
  <2>4. i # 0
    BY <1>4, <1>8, <2>3
  <2>5. i \in 1 .. m /\ i - 1 \in 0 .. m /\ (i - 1) + 1 = i /\ ~(i <= i - 1)
    BY <1>3, <2>3, <2>4
  <2>6. i - 1 \notin T
    <3> HIDE DEF T
    <3> QED BY <2>2, <2>5
  <2>7. from[i - 1] = At(s, i)
    BY <2>5, <2>6
  <2> QED BY <1>5, <1>8, <2>3, <2>4, <2>5, <2>7
<1>10. nodes = 0 .. c - 1
  <2>1. \A i \in 0 .. m : At(s, i + 1) # Null <=> i + 1 <= c
    BY <1>2, <1>3 DEF At
  <2> QED BY <1>2, <1>3, <1>9, <2>1
<1>11. Cardinality(nodes) = c
  <2>1. PICK z \in Int : z = c - 1
    BY <1>2
  <2>2. Cardinality(0 .. z) = IF 0 > z THEN 0 ELSE z - 0 + 1
    BY FS_Interval
  <2>3. (IF 0 > z THEN 0 ELSE z - 0 + 1) = c
    BY <1>2, <2>1
  <2> QED BY <1>10, <2>1, <2>2, <2>3
<1>12. \A i \in 1 .. c : from[i - 1] = s[i]
  <2> SUFFICES ASSUME NEW i \in 1 .. c PROVE from[i - 1] = s[i]
    OBVIOUS
  <2>1. i - 1 \in 0 .. m /\ (i - 1) + 1 = i
    BY <1>2, <1>3
  <2> QED BY <1>9, <2>1 DEF At
<1> HIDE DEF nodes
<1>13. WalkOf(q) = [i \in 1 .. c |-> s[i]]
  BY <1>1, <1>11, <1>12
<1> QED BY <1>2, <1>13

------------------------------------------------------------------------------
(* The inductive invariant.                                                 *)

TypesOK ==
  /\ pc \in {"init", "check", "retrieve", "wait", "pick", "gather", "run"}
  /\ work \in [Nodes -> Nat]
  /\ on_queue \in [Nodes -> BOOLEAN]
  /\ level \in [Nodes -> Levels]
  /\ current_node \in Nodes \cup {Null}
  /\ buffer \in Seq(Nodes)

\* The list is a list, the heap a heap, and its nodes have the priorities by
\* which it has placed them.
QueuesOK ==
  /\ IsList(queue_nodes, Walk) /\ IsHeap(prio_queue)
  /\ \A n \in Flagged(prio_queue) : prio_queue.prio[n] = level[n] /\ level[n] > 0

Marked == {n \in Nodes : on_queue[n]}

\* The marked nodes are those in the list, those in the heap and the current one,
\* each in one place only; the nodes in the queues have tuples, and so has the
\* current one before it gathers them.
PlacesOK ==
  /\ \A n \in Nodes : n \in Marked <=> \/ n \in Flagged(queue_nodes)
                                       \/ n \in Flagged(prio_queue)
                                       \/ n = current_node
  /\ \A n \in Flagged(queue_nodes) : n \notin Flagged(prio_queue)
  /\ current_node \notin Flagged(queue_nodes) /\ current_node \notin Flagged(prio_queue)
  /\ \A n \in Nodes : work[n] > 0 => n \in Marked
  /\ \A n \in Nodes : n \in Flagged(queue_nodes) \/ n \in Flagged(prio_queue) => work[n] > 0
  /\ current_node # Null <=> pc \in {"check", "gather", "run"}
  /\ pc = "gather" => work[current_node] > 0

Inv == TypesOK /\ QueuesOK /\ PlacesOK

\* What the invariant says of the queues, with the sequence in the list.
LEMMA QueueFacts ==
  ASSUME Inv
  PROVE  /\ IsList(queue_nodes, Walk) /\ IsHeap(prio_queue) /\ Walk \in Seq(Nodes)
         /\ Flagged(prio_queue) \subseteq Nodes /\ Flagged(queue_nodes) \subseteq Nodes
         /\ \A n \in Nodes : level[n] \in Nat /\ level[n] \in Levels
         /\ \A n \in Nodes : n \in Flagged(queue_nodes) <=> queue_nodes.in[n]
         /\ \A n \in Nodes : n \in Flagged(prio_queue) <=> prio_queue.in[n]
         /\ \A n \in Nodes : n \in Flagged(queue_nodes) <=> \E i \in DOMAIN Walk : Walk[i] = n
         /\ \A n \in Nodes : n \in Marked <=> on_queue[n]
         /\ prio_queue.heap = <<>> <=> Flagged(prio_queue) = {}
<1>1. IsList(queue_nodes, Walk) /\ IsHeap(prio_queue) /\ level \in [Nodes -> Levels]
  BY DEF Inv, QueuesOK, TypesOK
<1>2. Walk \in Seq(Nodes) /\ Flagged(queue_nodes) = ToSet(Walk)
  BY <1>1 DEF IsList
<1>3. prio_queue.heap \in Seq(Nodes) /\ Flagged(prio_queue) = Members(prio_queue)
  BY <1>1, HeapTypes DEF IsHeap
<1>4. prio_queue.heap = <<>> <=> Members(prio_queue) = {}
  <2>1. CASE prio_queue.heap = <<>>
    BY <2>1 DEF Members
  <2>2. CASE prio_queue.heap # <<>>
    <3>1. 1 \in DOMAIN prio_queue.heap
      BY <1>3, <2>2
    <3> QED BY <2>2, <3>1 DEF Members
  <2> QED BY <2>1, <2>2
<1>5. \A n \in Nodes : level[n] \in Nat /\ level[n] \in Levels
  BY <1>1, PrioritySchedulerAssumption
<1>6. \A n \in Nodes : n \in Flagged(queue_nodes) <=> \E i \in DOMAIN Walk : Walk[i] = n
  BY <1>2 DEF ToSet
<1> QED BY <1>1, <1>2, <1>3, <1>4, <1>5, <1>6 DEF Flagged, Marked

\* Walk is the sequence that the new list holds.
LEMMA NewWalk ==
  ASSUME NEW s, IsList(queue_nodes', s)
  PROVE  Walk' = s /\ IsList(queue_nodes, Walk)'
<1>1. WalkOf(queue_nodes') = s
  BY WalkOfList
<1>2. Walk' = s
  BY <1>1 DEF Walk
<1> QED BY <1>2

------------------------------------------------------------------------------
(* Steps of the abstract specification.                                     *)

Ranked == [n \in Nodes |-> IF prio_queue.in[n] THEN level[n] ELSE 0]

OrderStep == Order!Next \/ UNCHANGED <<Walk, Ranked, current_node>>

LEMMA RankedValue ==
  /\ Ranked = [n \in Nodes |-> Ranked[n]]
  /\ \A n \in Nodes : Ranked[n] = IF n \in Flagged(prio_queue) THEN level[n] ELSE 0
BY DEF Ranked, Flagged

LEMMA WaitingNodes ==
  ASSUME Inv
  PROVE  Order!Waiting = Flagged(prio_queue)
<1>1. \A n \in Nodes : Ranked[n] # 0 <=> n \in Flagged(prio_queue)
  BY RankedValue, QueueFacts DEF Inv, QueuesOK
<1>2. Order!Waiting = {n \in Nodes : Ranked[n] # 0}
  BY DEF Order!Waiting, Ranked
<1> QED BY <1>1, <1>2, QueueFacts

LEMMA FifoNodes ==
  ASSUME Inv, NEW n \in Nodes
  PROVE  Order!InFifo(n) <=> n \in Flagged(queue_nodes)
BY QueueFacts DEF Order!InFifo

\* One node's rank changes.
LEMMA RankedChange ==
  ASSUME NEW n \in Nodes, NEW p,
         \A x \in Nodes : x # n => /\ x \in Flagged(prio_queue)' <=> x \in Flagged(prio_queue)
                                   /\ level'[x] = level[x],
         p = IF n \in Flagged(prio_queue)' THEN level'[n] ELSE 0
  PROVE  Ranked' = [Ranked EXCEPT ![n] = p]
<1>1. Ranked' = [x \in Nodes |-> Ranked'[x]] /\ DOMAIN Ranked = Nodes
  BY DEF Ranked
<1>2. \A x \in Nodes : Ranked'[x] = IF x \in Flagged(prio_queue)' THEN level'[x] ELSE 0
  BY DEF Ranked, Flagged
<1>3. \A x \in Nodes : Ranked'[x] = IF x = n THEN p ELSE Ranked[x]
  BY <1>2, RankedValue
<1> QED BY <1>1, <1>3

LEMMA RankedSame ==
  ASSUME \A x \in Nodes : /\ x \in Flagged(prio_queue)' <=> x \in Flagged(prio_queue)
                          /\ x \in Flagged(prio_queue) => level'[x] = level[x]
  PROVE  Ranked' = Ranked
<1>1. \A x \in Nodes : Ranked'[x] = IF x \in Flagged(prio_queue)' THEN level'[x] ELSE 0
  BY DEF Ranked, Flagged
<1>2. Ranked' = [x \in Nodes |-> Ranked'[x]]
  BY DEF Ranked
<1>3. \A x \in Nodes : Ranked'[x] = Ranked[x]
  BY <1>1, RankedValue
<1> QED BY <1>2, <1>3, RankedValue

\* A node without a place gets one.
LEMMA WaitStep ==
  ASSUME Inv, NEW n \in Nodes, n \notin Flagged(queue_nodes), n \notin Flagged(prio_queue),
         n # current_node, current_node' = current_node,
         IF level[n] > 0 THEN Ranked' = [Ranked EXCEPT ![n] = level[n]] /\ Walk' = Walk
                         ELSE Walk' = Append(Walk, n) /\ Ranked' = Ranked
  PROVE  Order!Next
<1>1. ~Order!InFifo(n) /\ n \notin Order!Waiting
  BY FifoNodes, WaitingNodes
<1>2. PICK p \in Levels : p = level[n]
  BY QueueFacts
<1>3. Order!Wait(n, p)
  BY <1>1, <1>2 DEF Order!Wait, Ranked
<1> QED BY <1>3 DEF Order!Next

\* A node that has a place in one of the queues gets another priority.
LEMMA RankStep ==
  ASSUME Inv, NEW n \in Nodes, NEW p \in Levels, current_node' = current_node,
         Ranked' = [Ranked EXCEPT ![n] = p],
         \/ n \in Flagged(prio_queue) /\ Walk' = IF p = 0 THEN Append(Walk, n) ELSE Walk
         \/ p # 0 /\ \E i \in DOMAIN Walk : Walk[i] = n /\ Walk' = RemoveAt(Walk, i)
  PROVE  Order!Next
<1>1. n \in Flagged(prio_queue) <=> n \in Order!Waiting
  BY WaitingNodes
<1>2. Order!Rank(n, p)
  BY <1>1 DEF Order!Rank, Ranked, Order!RemoveAt, RemoveAt
<1> QED BY <1>2 DEF Order!Next

\* The node at the top of the heap is taken.
LEMMA TakeBest ==
  ASSUME Inv, prio_queue.heap # <<>>, current_node' = prio_queue.heap[1],
         Ranked' = [Ranked EXCEPT ![prio_queue.heap[1]] = 0], Walk' = Walk
  PROVE  Order!Next
<1> DEFINE n == prio_queue.heap[1]
<1>1. n \in Flagged(prio_queue)
  BY QueueFacts, PopHeap
<1>2. n \in Order!Waiting /\ Order!Waiting # {}
  BY <1>1, WaitingNodes
<1>3. ASSUME NEW m \in Flagged(prio_queue) PROVE HEAP_COMPARE(Ranked[n], Ranked[m])
  <2>1. HEAP_COMPARE(prio_queue.prio[n], prio_queue.prio[m])
    BY QueueFacts, TopIsBest
  <2>2. prio_queue.prio[n] = level[n] /\ prio_queue.prio[m] = level[m]
    BY <1>1 DEF Inv, QueuesOK
  <2>3. Ranked[n] = level[n] /\ Ranked[m] = level[m]
    BY <1>1, RankedValue, QueueFacts
  <2> QED BY <2>1, <2>2, <2>3
<1> HIDE DEF n
<1>4. Order!Best(n)
  <2>1. \A m \in Order!Waiting : IF Desc THEN Ranked[n] >= Ranked[m] ELSE Ranked[n] <= Ranked[m]
    BY <1>3, WaitingNodes DEF HEAP_COMPARE
  <2> QED BY <1>2, <2>1 DEF Order!Best, Ranked
<1>5. Order!Take
  <2>1. /\ current_node' = n /\ Ranked' = [Ranked EXCEPT ![n] = 0] /\ Walk' = Walk
    BY DEF n
  <2> QED BY <1>2, <1>4, <2>1 DEF Order!Take, Ranked
<1> QED BY <1>5 DEF Order!Next

\* Without a node in the heap, the first one of the list is taken.
LEMMA TakeFirst ==
  ASSUME Inv, Flagged(prio_queue) = {}, Walk # <<>>, current_node = Null,
         current_node' = Head(Walk), Walk' = Tail(Walk), Ranked' = Ranked
  PROVE  Order!Next
<1>1. Order!Waiting = {}
  BY WaitingNodes
<1>2. Order!Take
  BY <1>1 DEF Order!Take, Ranked
<1> QED BY <1>2 DEF Order!Next

\* Or the current node is given up.
LEMMA TakeNone ==
  ASSUME Inv, Flagged(prio_queue) = {}, current_node # Null, current_node' = Null,
         Walk' = Walk, Ranked' = Ranked
  PROVE  Order!Next
<1>1. Order!Waiting = {}
  BY WaitingNodes
<1>2. Order!Take
  BY <1>1 DEF Order!Take, Ranked
<1> QED BY <1>2 DEF Order!Next

------------------------------------------------------------------------------
(* The steps of the thread.                                                 *)

LEMMA InitStep == ASSUME Init PROVE Inv /\ Order!Init
<1>1. EmptyList \in Lists /\ Flagged(EmptyList) = {} /\ EmptyList.head = Null /\ EmptyList.tail = Null
  BY DEF EmptyList, Lists, Flagged
<1>2. IsList(EmptyList, <<>>)
  <2>1. Links(EmptyList, <<>>)
    BY <1>1 DEF Links, At
  <2> QED BY <1>1, <2>1 DEF IsList, Distinct, ToSet
<1>3. EmptyHeap \in Heaps /\ Flagged(EmptyHeap) = {} /\ EmptyHeap.heap = <<>>
  BY DEF EmptyHeap, Heaps, Flagged
<1>4. IsHeap(EmptyHeap)
  BY <1>3 DEF IsHeap, Placed, Ordered, Members
<1>5. Walk = <<>>
  BY <1>2, WalkOfList DEF Init, Walk
<1>6. QueuesOK
  BY <1>2, <1>3, <1>4, <1>5 DEF Init, QueuesOK
<1>7. TypesOK
  BY PrioritySchedulerAssumption DEF Init, TypesOK
<1>8. PlacesOK
  BY <1>1, <1>3, NodeQueuesAssumption DEF Init, PlacesOK, Marked, Flagged
<1>9. Ranked = [n \in Nodes |-> 0]
  BY <1>3, RankedValue DEF Init
<1>10. Order!Init
  BY <1>5, <1>9 DEF Init, Order!Init, Ranked
<1> QED BY <1>6, <1>7, <1>8, <1>10 DEF Inv

\* The queues and the priorities stay.
LEMMA QueuesSame ==
  ASSUME Inv, UNCHANGED <<queue_nodes, prio_queue, level>>
  PROVE  /\ QueuesOK' /\ UNCHANGED <<Walk, Ranked>>
         /\ Flagged(queue_nodes)' = Flagged(queue_nodes)
         /\ Flagged(prio_queue)' = Flagged(prio_queue)
BY DEF Inv, QueuesOK, Walk, Ranked

\* A node gets a tuple.
LEMMA AddWorkStep ==
  ASSUME Inv, NEW n \in Nodes, AddWork(n), UNCHANGED <<level, current_node>>, buffer' \in Seq(Nodes)
  PROVE  Inv' /\ OrderStep /\ pc' = pc
<1>1. /\ work \in [Nodes -> Nat] /\ work' = [work EXCEPT ![n] = work[n] + 1]
      /\ on_queue \in [Nodes -> BOOLEAN] /\ on_queue' = [on_queue EXCEPT ![n] = TRUE]
  BY DEF Inv, TypesOK, AddWork
<1>2. /\ work' \in [Nodes -> Nat] /\ on_queue' \in [Nodes -> BOOLEAN] /\ work'[n] > 0
      /\ \A x \in Nodes : x # n => work'[x] = work[x]
      /\ \A x \in Nodes : work[x] > 0 => work'[x] > 0
  BY <1>1
<1>3. Marked' = Marked \cup {n}
  BY <1>1 DEF Marked
<1>0. pc = "gather" => current_node \in Nodes /\ work[current_node] > 0
  BY DEF Inv, TypesOK, PlacesOK
<1>4. CASE on_queue[n]
  <2>1. UNCHANGED <<pc, queue_nodes, prio_queue>> /\ Marked' = Marked
    BY <1>3, <1>4 DEF AddWork, Marked
  <2>2. /\ QueuesOK' /\ UNCHANGED <<Walk, Ranked>>
        /\ Flagged(queue_nodes)' = Flagged(queue_nodes)
        /\ Flagged(prio_queue)' = Flagged(prio_queue)
    BY <2>1, QueuesSame
  <2>3. TypesOK'
    BY <1>2, <2>1 DEF Inv, TypesOK
  <2>4. PlacesOK'
    BY <1>2, <1>3, <1>0, <2>1, <2>2 DEF Inv, PlacesOK
  <2> QED BY <2>1, <2>2, <2>3, <2>4 DEF Inv, OrderStep
<1>5. CASE ~on_queue[n]
  <2>1. add_to_queue(n)
    BY <1>5 DEF AddWork
  <2>2. n \notin Marked /\ n \notin Flagged(queue_nodes) /\ n \notin Flagged(prio_queue) /\ n # current_node
    BY <1>5 DEF Inv, PlacesOK, Marked
  <2>3. pc' = pc
    BY <2>1, <2>2, QueueFacts DEF add_to_queue
  <2>4. TypesOK'
    BY <1>2, <2>3 DEF Inv, TypesOK
  <2>5. CASE level[n] > 0
    <3>1. prio_queue' = do_insert(prio_queue, n, level[n]) /\ queue_nodes' = queue_nodes
      BY <2>1, <2>5 DEF add_to_queue, has_priority_level
    <3>2. PICK p \in Int : p = level[n]
      BY QueueFacts
    <3>3. /\ IsHeap(prio_queue') /\ Flagged(prio_queue') = Flagged(prio_queue) \cup {n}
          /\ \A x \in Nodes : prio_queue'.prio[x] = IF x = n THEN p ELSE prio_queue.prio[x]
      BY <2>2, <3>1, <3>2, QueueFacts, InsertHeap
    <3>4. IsList(queue_nodes, Walk)' /\ Walk' = Walk /\ Flagged(queue_nodes)' = Flagged(queue_nodes)
      BY <3>1, QueueFacts DEF Walk
    <3>5. QueuesOK'
      <4>1. \A x \in Flagged(prio_queue') : prio_queue'.prio[x] = level[x] /\ level[x] > 0
        BY <2>5, <3>2, <3>3, QueueFacts DEF Inv, QueuesOK
      <4> QED BY <3>3, <3>4, <4>1 DEF QueuesOK
    <3>6. PlacesOK'
      BY <1>2, <1>3, <1>0, <2>2, <2>3, <3>3, <3>4 DEF Inv, PlacesOK
    <3>7. Ranked' = [Ranked EXCEPT ![n] = level[n]]
      BY <3>3, RankedChange
    <3>8. Order!Next
      BY <2>2, <2>5, <3>4, <3>7, WaitStep
    <3> QED BY <2>3, <2>4, <3>5, <3>6, <3>8 DEF Inv, OrderStep
  <2>6. CASE ~(level[n] > 0)
    <3>1. queue_nodes' = push_tail_node(queue_nodes, n) /\ prio_queue' = prio_queue
      BY <2>1, <2>6 DEF add_to_queue, has_priority_level
    <3>2. /\ IsList(queue_nodes', Append(Walk, n))
          /\ Flagged(queue_nodes') = Flagged(queue_nodes) \cup {n}
      BY <2>2, <3>1, QueueFacts, PushList
    <3>3. Walk' = Append(Walk, n) /\ IsList(queue_nodes, Walk)'
      BY <3>2, NewWalk
    <3>4. QueuesOK'
      BY <3>1, <3>3 DEF Inv, QueuesOK
    <3>5. PlacesOK'
      BY <1>2, <1>3, <1>0, <2>2, <2>3, <3>1, <3>2 DEF Inv, PlacesOK
    <3>6. Ranked' = Ranked
      BY <3>1 DEF Ranked
    <3>7. Order!Next
      BY <2>2, <2>6, <3>3, <3>6, WaitStep
    <3> QED BY <2>3, <2>4, <3>4, <3>5, <3>7 DEF Inv, OrderStep
  <2> QED BY <2>5, <2>6
<1> QED BY <1>4, <1>5

\* Neither the queues nor the priorities nor the current node change.
LEMMA QuietStep ==
  ASSUME Inv, UNCHANGED <<on_queue, level, queue_nodes, prio_queue, current_node>>,
         pc' \in {"init", "check", "retrieve", "wait", "pick", "gather", "run"},
         current_node # Null <=> pc' \in {"check", "gather", "run"},
         pc' = "gather" => work'[current_node] > 0,
         work' \in [Nodes -> Nat], buffer' \in Seq(Nodes),
         \A n \in Nodes : n # current_node => work'[n] = work[n]
  PROVE  Inv' /\ OrderStep
<1>1. /\ QueuesOK' /\ UNCHANGED <<Walk, Ranked>>
      /\ Flagged(queue_nodes)' = Flagged(queue_nodes)
      /\ Flagged(prio_queue)' = Flagged(prio_queue)
  BY QueuesSame
<1>2. TypesOK'
  BY DEF Inv, TypesOK
<1>3. Marked' = Marked
  BY DEF Marked
<1>4. PlacesOK'
  BY <1>1, <1>3 DEF Inv, PlacesOK
<1> QED BY <1>1, <1>2, <1>4 DEF Inv, OrderStep

\* The top of the heap becomes the current node.
LEMMA TopTaken ==
  ASSUME Inv, prio_queue.heap # <<>>, prio_queue' = do_pop(prio_queue), queue_nodes' = queue_nodes,
         \A x \in Flagged(prio_queue) : level'[x] = level[x]
  PROVE  /\ QueuesOK' /\ Walk' = Walk /\ Flagged(queue_nodes)' = Flagged(queue_nodes)
         /\ prio_queue.heap[1] \in Flagged(prio_queue)
         /\ Flagged(prio_queue)' = Flagged(prio_queue) \ {prio_queue.heap[1]}
         /\ Ranked' = [Ranked EXCEPT ![prio_queue.heap[1]] = 0]
<1>1. /\ IsHeap(prio_queue') /\ prio_queue'.prio = prio_queue.prio
      /\ prio_queue.heap[1] \in Flagged(prio_queue)
      /\ Flagged(prio_queue') = Flagged(prio_queue) \ {prio_queue.heap[1]}
  BY QueueFacts, PopHeap
<1>2. IsList(queue_nodes, Walk)' /\ Walk' = Walk /\ Flagged(queue_nodes)' = Flagged(queue_nodes)
  BY QueueFacts DEF Walk
<1>3. \A x \in Flagged(prio_queue') : prio_queue'.prio[x] = level'[x] /\ level'[x] > 0
  BY <1>1 DEF Inv, QueuesOK
<1>4. QueuesOK'
  BY <1>1, <1>2, <1>3 DEF QueuesOK
<1>5. PICK n \in Nodes : n = prio_queue.heap[1]
  BY <1>1, QueueFacts
<1>6. Ranked' = [Ranked EXCEPT ![n] = 0]
  <2>1. \A x \in Nodes : Ranked'[x] = IF x \in Flagged(prio_queue') THEN level'[x] ELSE 0
    BY DEF Ranked, Flagged
  <2>2. \A x \in Nodes : Ranked'[x] = IF x = n THEN 0 ELSE Ranked[x]
    BY <1>1, <1>5, <2>1, RankedValue
  <2>3. Ranked' = [x \in Nodes |-> Ranked'[x]] /\ DOMAIN Ranked = Nodes
    BY DEF Ranked
  <2> QED BY <2>2, <2>3
<1> QED BY <1>1, <1>2, <1>4, <1>5, <1>6

LEMMA PickStep == ASSUME Inv, PickNode PROVE Inv' /\ OrderStep
<1>1. /\ pc = "pick" /\ UNCHANGED <<work, on_queue, level, buffer>> /\ current_node = Null
      /\ Marked' = Marked
  BY DEF PickNode, Inv, PlacesOK, Marked
<1>2. CASE prio_queue.heap # <<>>
  <2>1. /\ current_node' = prio_queue.heap[1] /\ prio_queue' = do_pop(prio_queue)
        /\ queue_nodes' = queue_nodes /\ pc' = "check"
    BY <1>2 DEF PickNode
  <2>2. /\ QueuesOK' /\ Walk' = Walk /\ Flagged(queue_nodes)' = Flagged(queue_nodes)
        /\ prio_queue.heap[1] \in Flagged(prio_queue)
        /\ Flagged(prio_queue)' = Flagged(prio_queue) \ {prio_queue.heap[1]}
        /\ Ranked' = [Ranked EXCEPT ![prio_queue.heap[1]] = 0]
    BY <1>1, <1>2, <2>1, TopTaken
  <2>3. Order!Next
    BY <1>2, <2>1, <2>2, TakeBest
  <2>4. TypesOK'
    BY <1>1, <2>1, <2>2, QueueFacts DEF Inv, TypesOK
  <2>5. PlacesOK'
    BY <1>1, <2>1, <2>2, QueueFacts, NodeQueuesAssumption DEF Inv, PlacesOK
  <2> QED BY <2>2, <2>3, <2>4, <2>5 DEF Inv, OrderStep
<1>3. CASE prio_queue.heap = <<>> /\ queue_nodes.head # Null
  <2>1. /\ current_node' = queue_nodes.head /\ queue_nodes' = pop_node(queue_nodes)
        /\ prio_queue' = prio_queue /\ pc' = "check"
    BY <1>3 DEF PickNode
  <2>2. /\ Walk # <<>> /\ queue_nodes.head = Head(Walk) /\ queue_nodes.head \in Flagged(queue_nodes)
        /\ IsList(queue_nodes', Tail(Walk))
        /\ Flagged(queue_nodes') = Flagged(queue_nodes) \ {queue_nodes.head}
    BY <1>3, <2>1, QueueFacts, PopList
  <2>3. Walk' = Tail(Walk) /\ IsList(queue_nodes, Walk)'
    BY <2>2, NewWalk
  <2>4. QueuesOK' /\ Ranked' = Ranked
    BY <1>1, <2>1, <2>3 DEF Inv, QueuesOK, Ranked
  <2>5. Order!Next
    BY <1>1, <1>3, <2>1, <2>2, <2>3, <2>4, QueueFacts, TakeFirst
  <2>6. TypesOK'
    BY <1>1, <2>1, <2>2, QueueFacts DEF Inv, TypesOK
  <2>7. PlacesOK'
    BY <1>1, <2>1, <2>2, QueueFacts, NodeQueuesAssumption DEF Inv, PlacesOK
  <2> QED BY <2>4, <2>5, <2>6, <2>7 DEF Inv, OrderStep
<1>4. CASE prio_queue.heap = <<>> /\ queue_nodes.head = Null
  <2>1. UNCHANGED <<current_node, prio_queue, queue_nodes>> /\ pc' = "retrieve"
    BY <1>4 DEF PickNode
  <2> QED BY <1>1, <2>1, QuietStep DEF Inv, TypesOK
<1> QED BY <1>2, <1>3, <1>4

LEMMA UselessStep == ASSUME Inv, CurrentUseless PROVE Inv' /\ OrderStep
<1> DEFINE c == current_node
<1>1. /\ pc = "check" /\ c \in Nodes /\ work[c] = 0 /\ c # Null
      /\ c \notin Flagged(queue_nodes) /\ c \notin Flagged(prio_queue)
      /\ UNCHANGED <<work, queue_nodes, buffer>>
      /\ on_queue' = [on_queue EXCEPT ![c] = FALSE] /\ level' = [level EXCEPT ![c] = 0]
  BY DEF CurrentUseless, Inv, PlacesOK, TypesOK
<1>2. /\ on_queue' \in [Nodes -> BOOLEAN] /\ level' \in [Nodes -> Levels]
      /\ \A x \in Nodes : x # c => level'[x] = level[x]
  BY <1>1, PrioritySchedulerAssumption DEF Inv, TypesOK
<1>3. Marked' = Marked \ {c}
  BY <1>1 DEF Marked, Inv, TypesOK
<1>4. CASE prio_queue.heap # <<>>
  <2>1. /\ current_node' = prio_queue.heap[1] /\ prio_queue' = do_pop(prio_queue)
        /\ pc' = IF work[prio_queue.heap[1]] > 0 THEN "gather" ELSE "failed"
    BY <1>4 DEF CurrentUseless
  <2>2. \A x \in Flagged(prio_queue) : level'[x] = level[x]
    BY <1>1, <1>2, QueueFacts
  <2>3. /\ QueuesOK' /\ Walk' = Walk /\ Flagged(queue_nodes)' = Flagged(queue_nodes)
        /\ prio_queue.heap[1] \in Flagged(prio_queue)
        /\ Flagged(prio_queue)' = Flagged(prio_queue) \ {prio_queue.heap[1]}
        /\ Ranked' = [Ranked EXCEPT ![prio_queue.heap[1]] = 0]
    BY <1>1, <1>4, <2>1, <2>2, TopTaken
  <2>4. Order!Next
    BY <1>4, <2>1, <2>3, TakeBest
  <2>5. work[prio_queue.heap[1]] > 0 /\ pc' = "gather" /\ prio_queue.heap[1] \in Nodes
    BY <2>1, <2>3, QueueFacts DEF Inv, PlacesOK
  <2>6. TypesOK'
    BY <1>1, <1>2, <2>1, <2>5 DEF Inv, TypesOK
  <2>7. PlacesOK'
    BY <1>1, <1>3, <2>1, <2>3, <2>5, QueueFacts, NodeQueuesAssumption DEF Inv, PlacesOK
  <2> QED BY <2>3, <2>4, <2>6, <2>7 DEF Inv, OrderStep
<1>5. CASE prio_queue.heap = <<>>
  <2>1. current_node' = Null /\ prio_queue' = prio_queue /\ pc' = "retrieve"
    BY <1>5 DEF CurrentUseless
  <2>2. Flagged(prio_queue) = {}
    BY <1>5, QueueFacts
  <2>3. Walk' = Walk /\ QueuesOK' /\ Ranked' = Ranked
    <3>1. Walk' = Walk /\ IsList(queue_nodes, Walk)' /\ IsHeap(prio_queue)' /\ Flagged(prio_queue)' = {}
      BY <1>1, <2>1, <2>2, QueueFacts DEF Walk
    <3>2. Ranked' = Ranked
      BY <2>2, <3>1, RankedSame
    <3> QED BY <3>1, <3>2 DEF QueuesOK
  <2>4. Order!Next
    BY <1>1, <2>1, <2>2, <2>3, TakeNone
  <2>5. TypesOK'
    BY <1>1, <1>2, <2>1 DEF Inv, TypesOK
  <2>6. PlacesOK'
    <3>1. Flagged(queue_nodes)' = Flagged(queue_nodes) /\ Flagged(prio_queue)' = {}
      BY <1>1, <2>1, <2>2
    <3>2. Null \notin Flagged(queue_nodes)
      BY QueueFacts, NodeQueuesAssumption
    <3>3. \A x \in Nodes : x \in Marked' <=> x \in Flagged(queue_nodes)
      BY <1>1, <1>3, <2>2 DEF Inv, PlacesOK
    <3>4. \A x \in Nodes : work'[x] > 0 => x \in Marked'
      BY <1>1, <1>3 DEF Inv, PlacesOK
    <3>5. \A x \in Nodes : x \in Flagged(queue_nodes) => work'[x] > 0 /\ x # Null
      BY <1>1, <3>2 DEF Inv, PlacesOK
    <3> QED BY <2>1, <3>1, <3>2, <3>3, <3>4, <3>5, NodeQueuesAssumption DEF PlacesOK
  <2> QED BY <2>3, <2>4, <2>5, <2>6 DEF Inv, OrderStep
<1> QED BY <1>4, <1>5

\* set_node_priority, on a node in any of the places.
LEMMA PriorityStep ==
  ASSUME Inv, NEW n \in Nodes, NEW p \in Levels, NewPriority(n, p)
  PROVE  Inv' /\ OrderStep
<1>1. /\ pc = "run" /\ UNCHANGED <<work, on_queue, current_node, buffer>> /\ set_node_priority(n, p)
      /\ p \in Nat /\ p \in Int /\ Marked' = Marked
  BY PrioritySchedulerAssumption DEF NewPriority, Marked
<1>2. [level EXCEPT ![n] = p] \in [Nodes -> Levels]
  BY DEF Inv, TypesOK
<1>3. ASSUME level' = [level EXCEPT ![n] = p] \/ level' = level, pc' = pc,
             \A x \in Nodes : /\ x # n => /\ x \in Flagged(queue_nodes') <=> x \in Flagged(queue_nodes)
                                          /\ x \in Flagged(prio_queue') <=> x \in Flagged(prio_queue)
                              /\ x = n => /\ (x \in Flagged(queue_nodes') \/ x \in Flagged(prio_queue'))
                                               <=> (x \in Flagged(queue_nodes) \/ x \in Flagged(prio_queue))
                                          /\ ~(x \in Flagged(queue_nodes') /\ x \in Flagged(prio_queue'))
      PROVE  TypesOK' /\ PlacesOK'
  <2>1. TypesOK'
    BY <1>1, <1>2, <1>3 DEF Inv, TypesOK
  <2>2. Flagged(queue_nodes)' \subseteq Nodes /\ Flagged(prio_queue)' \subseteq Nodes
    BY DEF Flagged
  <2>3. PlacesOK'
    BY <1>1, <1>3, <2>2, QueueFacts, NodeQueuesAssumption DEF Inv, PlacesOK
  <2> QED BY <2>1, <2>3
<1>4. CASE n = current_node \/ ~on_queue[n]
  <2>1. level' = [level EXCEPT ![n] = p] /\ UNCHANGED <<pc, queue_nodes, prio_queue>>
    BY <1>1, <1>4 DEF set_node_priority
  <2>2. n \notin Flagged(prio_queue) /\ n \notin Flagged(queue_nodes)
    BY <1>4 DEF Inv, PlacesOK, Marked
  <2>3. \A x \in Flagged(prio_queue) : level'[x] = level[x]
    BY <2>1, <2>2, QueueFacts DEF Inv, TypesOK
  <2>4. Walk' = Walk /\ Ranked' = Ranked
    BY <2>1, <2>3, RankedSame DEF Walk
  <2>5. QueuesOK'
    BY <2>1, <2>3 DEF Inv, QueuesOK, Walk
  <2>6. TypesOK' /\ PlacesOK'
    BY <1>3, <2>1, <2>2
  <2> QED BY <1>1, <2>4, <2>5, <2>6 DEF Inv, OrderStep
<1>5. CASE ~(n = current_node \/ ~on_queue[n]) /\ n \in Flagged(prio_queue)
  <2>0. n \notin Flagged(queue_nodes) /\ prio_queue.in[n] /\ ~queue_nodes.in[n]
    BY <1>5, QueueFacts DEF Inv, PlacesOK
  <2>1. \/ /\ p = 0 /\ level' = [level EXCEPT ![n] = 0]
           /\ prio_queue' = do_remove(prio_queue, n)
           /\ queue_nodes' = push_tail_node(queue_nodes, n) /\ pc' = pc
        \/ /\ p # 0 /\ level' = [level EXCEPT ![n] = p]
           /\ prio_queue' = move_node(prio_queue, n, p) /\ UNCHANGED <<pc, queue_nodes>>
        \/ UNCHANGED <<pc, level, queue_nodes, prio_queue>>
    BY <1>1, <1>5, <2>0 DEF set_node_priority
  <2>2. CASE /\ p = 0 /\ level' = [level EXCEPT ![n] = 0]
             /\ prio_queue' = do_remove(prio_queue, n)
             /\ queue_nodes' = push_tail_node(queue_nodes, n) /\ pc' = pc
    <3>1. /\ IsHeap(prio_queue') /\ prio_queue'.prio = prio_queue.prio
          /\ Flagged(prio_queue') = Flagged(prio_queue) \ {n}
      BY <1>5, <2>2, QueueFacts, RemoveHeap
    <3>2. /\ IsList(queue_nodes', Append(Walk, n))
          /\ Flagged(queue_nodes') = Flagged(queue_nodes) \cup {n}
      BY <2>0, <2>2, QueueFacts, PushList
    <3>3. Walk' = Append(Walk, n) /\ IsList(queue_nodes, Walk)'
      BY <3>2, NewWalk
    <3>4. \A x \in Nodes : x # n => level'[x] = level[x]
      BY <2>2 DEF Inv, TypesOK
    <3>5. QueuesOK'
      <4>1. \A x \in Flagged(prio_queue') : prio_queue'.prio[x] = level'[x] /\ level'[x] > 0
        BY <3>1, <3>4, QueueFacts DEF Inv, QueuesOK
      <4> QED BY <3>1, <3>3, <4>1 DEF QueuesOK
    <3>6. Ranked' = [Ranked EXCEPT ![n] = p]
      BY <2>2, <3>1, <3>4, RankedChange
    <3>7. Order!Next
      BY <1>1, <1>5, <2>2, <3>3, <3>6, RankStep
    <3>8. TypesOK' /\ PlacesOK'
      BY <1>3, <1>5, <2>2, <3>1, <3>2
    <3> QED BY <3>5, <3>7, <3>8 DEF Inv, OrderStep
  <2>3. CASE /\ p # 0 /\ level' = [level EXCEPT ![n] = p]
             /\ prio_queue' = move_node(prio_queue, n, p) /\ UNCHANGED <<pc, queue_nodes>>
    <3>1. /\ IsHeap(prio_queue') /\ Flagged(prio_queue') = Flagged(prio_queue)
          /\ \A x \in Nodes : prio_queue'.prio[x] = IF x = n THEN p ELSE prio_queue.prio[x]
      <4>1. IsHeap(prio_queue) /\ n \in Flagged(prio_queue) /\ p \in Int
        BY <1>1, <1>5, QueueFacts
      <4>2. prio_queue' = move_node(prio_queue, n, p)
        BY <2>3
      <4> QED BY <4>1, <4>2, MoveHeap
    <3>2. \A x \in Nodes : level'[x] = IF x = n THEN p ELSE level[x]
      BY <2>3 DEF Inv, TypesOK
    <3>3. IsList(queue_nodes, Walk)' /\ Walk' = Walk
      BY <2>3, QueueFacts DEF Walk
    <3>4. QueuesOK'
      <4>1. \A x \in Flagged(prio_queue') : prio_queue'.prio[x] = level'[x] /\ level'[x] > 0
        BY <1>1, <2>3, <3>1, <3>2, QueueFacts DEF Inv, QueuesOK
      <4> QED BY <3>1, <3>3, <4>1 DEF QueuesOK
    <3>5. Ranked' = [Ranked EXCEPT ![n] = p]
      BY <1>5, <3>1, <3>2, RankedChange
    <3>6. Order!Next
      BY <1>1, <1>5, <2>3, <3>3, <3>5, RankStep
    <3>7. TypesOK' /\ PlacesOK'
      BY <1>3, <2>0, <2>3, <3>1
    <3> QED BY <3>4, <3>6, <3>7 DEF Inv, OrderStep
  <2>4. CASE UNCHANGED <<pc, level, queue_nodes, prio_queue>>
    BY <1>1, <2>4, QuietStep DEF Inv, TypesOK, PlacesOK
  <2> QED BY <2>1, <2>2, <2>3, <2>4
<1>6. CASE ~(n = current_node \/ ~on_queue[n]) /\ n \notin Flagged(prio_queue)
  <2>0. n \in Flagged(queue_nodes) /\ ~prio_queue.in[n] /\ queue_nodes.in[n]
    <3>1. n \in Flagged(queue_nodes)
      BY <1>6 DEF Inv, PlacesOK, Marked
    <3> QED BY <1>6, <3>1, QueueFacts
  <2>1. \/ /\ p > 0 /\ level' = [level EXCEPT ![n] = p] /\ queue_nodes' = remove_node(queue_nodes, n)
           /\ prio_queue' = do_insert(prio_queue, n, p) /\ pc' = pc
        \/ UNCHANGED <<pc, level, queue_nodes, prio_queue>>
    BY <1>1, <1>6, <2>0 DEF set_node_priority
  <2>2. CASE /\ p > 0 /\ level' = [level EXCEPT ![n] = p] /\ queue_nodes' = remove_node(queue_nodes, n)
             /\ prio_queue' = do_insert(prio_queue, n, p) /\ pc' = pc
    <3>1. /\ IsHeap(prio_queue') /\ Flagged(prio_queue') = Flagged(prio_queue) \cup {n}
          /\ \A x \in Nodes : prio_queue'.prio[x] = IF x = n THEN p ELSE prio_queue.prio[x]
      BY <1>1, <1>6, <2>2, QueueFacts, InsertHeap
    <3>2. PICK d \in 1 .. Len(Walk) : Walk[d] = n
      BY <2>0, QueueFacts, ListTypes
    <3>3. IsList(queue_nodes', RemoveAt(Walk, d)) /\ Flagged(queue_nodes') = Flagged(queue_nodes) \ {n}
      BY <2>2, <3>2, QueueFacts, RemoveList
    <3>4. Walk' = RemoveAt(Walk, d) /\ IsList(queue_nodes, Walk)'
      BY <3>3, NewWalk
    <3>5. \A x \in Nodes : level'[x] = IF x = n THEN p ELSE level[x]
      BY <2>2 DEF Inv, TypesOK
    <3>6. QueuesOK'
      <4>1. \A x \in Flagged(prio_queue') : prio_queue'.prio[x] = level'[x] /\ level'[x] > 0
        BY <2>2, <3>1, <3>5, QueueFacts DEF Inv, QueuesOK
      <4> QED BY <3>1, <3>4, <4>1 DEF QueuesOK
    <3>7. Ranked' = [Ranked EXCEPT ![n] = p]
      BY <3>1, <3>5, RankedChange
    <3>8. Order!Next
      <4>1. d \in DOMAIN Walk /\ p # 0
        BY <1>1, <2>2, <3>2, QueueFacts
      <4> QED BY <1>1, <3>2, <3>4, <3>7, <4>1, RankStep
    <3>9. TypesOK' /\ PlacesOK'
      BY <1>3, <2>0, <2>2, <3>1, <3>3
    <3> QED BY <3>6, <3>8, <3>9 DEF Inv, OrderStep
  <2>3. CASE UNCHANGED <<pc, level, queue_nodes, prio_queue>>
    BY <1>1, <2>3, QuietStep DEF Inv, TypesOK, PlacesOK
  <2> QED BY <2>1, <2>2, <2>3
<1> QED BY <1>4, <1>5, <1>6

\* Every step keeps the invariant, and is a step or a stutter of NodeOrder.
LEMMA InvStep == ASSUME Inv, [Next]_vars PROVE Inv' /\ OrderStep
<1>0. /\ work \in [Nodes -> Nat] /\ buffer \in Seq(Nodes) /\ pc # "failed"
      /\ current_node # Null <=> pc \in {"check", "gather", "run"}
      /\ current_node \in Nodes \cup {Null}
      /\ pc \in {"init", "check", "retrieve", "wait", "pick", "gather", "run"}
  BY DEF Inv, TypesOK, PlacesOK
<1>1. ASSUME NEW n \in Nodes, InitNode(n) PROVE Inv' /\ OrderStep
  BY <1>0, <1>1, AddWorkStep DEF InitNode
<1>2. CASE InitDone
  BY <1>0, <1>2, QuietStep DEF InitDone
<1>3. CASE RetrieveTuple
  <2>1. PICK n \in Nodes : n = Head(buffer)
    BY <1>0, <1>3 DEF RetrieveTuple
  <2>2. AddWork(n) /\ UNCHANGED <<level, current_node>> /\ buffer' \in Seq(Nodes)
    BY <1>0, <1>3, <2>1 DEF RetrieveTuple
  <2> QED BY <2>2, AddWorkStep
<1>4. CASE RetrieveDone
  BY <1>0, <1>4, QuietStep DEF RetrieveDone
<1>5. CASE PickNode
  BY <1>5, PickStep
<1>6. CASE CurrentUseless
  BY <1>6, UselessStep
<1>7. CASE CurrentUseful
  <2>1. on_queue[current_node]
    BY <1>0, <1>7 DEF CurrentUseful, Inv, PlacesOK, Marked
  <2> QED BY <1>0, <1>7, <2>1, QuietStep DEF CurrentUseful
<1>8. CASE GatherTuples
  <2>1. PICK left \in 0 .. work[current_node] - 1 : work' = [work EXCEPT ![current_node] = left]
    BY <1>8 DEF GatherTuples
  <2>2. current_node \in Nodes /\ work[current_node] \in Nat
    BY <1>0, <1>8 DEF GatherTuples
  <2>3. left \in Nat
    BY <2>2
  <2>4. work' \in [Nodes -> Nat] /\ \A n \in Nodes : n # current_node => work'[n] = work[n]
    BY <1>0, <2>1, <2>2, <2>3
  <2>5. /\ UNCHANGED <<on_queue, level, queue_nodes, prio_queue, current_node>>
        /\ pc = "gather" /\ pc' = "run" /\ buffer' = buffer
    BY <1>8 DEF GatherTuples
  <2> QED BY <1>0, <2>4, <2>5, QuietStep
<1>9. CASE finish_work
  <2>1. on_queue[current_node]
    BY <1>0, <1>9 DEF finish_work, Inv, PlacesOK, Marked
  <2> QED BY <1>0, <1>9, <2>1, QuietStep DEF finish_work
<1>10. ASSUME NEW n \in Nodes, new_work(n) \/ new_agg(n) PROVE Inv' /\ OrderStep
  BY <1>0, <1>10, AddWorkStep DEF new_work, new_agg
<1>11. ASSUME NEW n \in Nodes, NEW p, NewPriority(n, p) PROVE Inv' /\ OrderStep
  <2>1. p \in Levels
    BY <1>11 DEF NewPriority
  <2> QED BY <1>11, <2>1, PriorityStep
<1>12. ASSUME NEW n \in Nodes, SetPriority(n) \/ add_node_priority(n) \/ schedule_next(n)
       PROVE  Inv' /\ OrderStep
  <2>1. PICK p : NewPriority(n, p)
    BY <1>12 DEF SetPriority, add_node_priority, schedule_next
  <2> QED BY <1>11, <2>1
<1>13. ASSUME NEW n \in Nodes, new_work_other(n) PROVE Inv' /\ OrderStep
  <2>1. buffer' \in Seq(Nodes) /\ UNCHANGED <<pc, work, on_queue, level, queue_nodes, prio_queue, current_node>>
    BY <1>0, <1>13 DEF new_work_other
  <2>2. pc' = "gather" => work'[current_node] > 0
    BY <2>1 DEF Inv, PlacesOK
  <2> QED BY <1>0, <2>1, <2>2, QuietStep
<1>14. CASE UNCHANGED vars
  <2>1. UNCHANGED <<pc, work, on_queue, level, queue_nodes, prio_queue, current_node, buffer>>
    BY <1>14 DEF vars
  <2>2. pc' = "gather" => work'[current_node] > 0
    BY <2>1 DEF Inv, PlacesOK
  <2> QED BY <1>0, <2>1, <2>2, QuietStep
<1> QED BY <1>1, <1>2, <1>3, <1>4, <1>5, <1>6, <1>7, <1>8, <1>9, <1>10, <1>12, <1>13, <1>14
        DEF Next, Thread, Program, Idle

\* The inductive invariant holds in every state that the thread can reach.
LEMMA InvAlways == Spec => []Inv
<1>1. Init => Inv
  BY InitStep
<1>2. Inv /\ [Next]_vars => Inv'
  BY InvStep
<1> QED BY <1>1, <1>2, PTL DEF Spec

------------------------------------------------------------------------------
(* The theorems.                                                            *)

\* QueuesSound: for every number of nodes, and whatever priorities a program sets,
\* the links of the list go through its nodes in both directions, assert_heap
\* holds, every node of the heap knows its place and its priority, and no
\* assertion of the queues, of get_work or of finish_work fails.
THEOREM QueuesStaySound == Spec => []QueuesSound
<1>1. ASSUME Inv PROVE QueuesSound
  <2>1. /\ IsList(queue_nodes, Walk) /\ Links(queue_nodes, Walk) /\ Flagged(queue_nodes) = ToSet(Walk)
        /\ Walk \in Seq(Nodes) /\ DOMAIN Walk = 1 .. Len(Walk) /\ Len(Walk) \in Nat
    BY <1>1, QueueFacts, ListTypes DEF IsList
  <2>2. pc # "failed"
    BY <1>1 DEF Inv, TypesOK
  <2>3. ASSUME NEW i \in DOMAIN Walk
        PROVE  /\ queue_nodes.in[Walk[i]]
               /\ queue_nodes.prev[Walk[i]] = IF i = 1 THEN Null ELSE Walk[i - 1]
    <3>1. Walk[i] \in Nodes /\ queue_nodes.in[Walk[i]]
      BY <2>1 DEF ToSet, Flagged
    <3>2. queue_nodes.prev[Walk[i]] = At(Walk, i - 1)
      BY <2>1 DEF Links
    <3>3. At(Walk, i - 1) = IF i = 1 THEN Null ELSE Walk[i - 1]
      BY <2>1 DEF At
    <3> QED BY <3>1, <3>2, <3>3
  <2>4. queue_nodes.tail = IF Walk = <<>> THEN Null ELSE Walk[Len(Walk)]
    BY <2>1 DEF Links, At
  <2>5. ASSUME NEW i \in DOMAIN prio_queue.heap
        PROVE  /\ \A c \in Children(prio_queue, i) :
                    HEAP_COMPARE(HEAP_GET_PRIORITY(prio_queue, i), HEAP_GET_PRIORITY(prio_queue, c))
               /\ prio_queue.pos[prio_queue.heap[i]] = i
               /\ prio_queue.in[prio_queue.heap[i]]
               /\ prio_queue.prio[prio_queue.heap[i]] = level[prio_queue.heap[i]]
    <3>1. /\ prio_queue \in Heaps /\ Placed(prio_queue) /\ Ordered(prio_queue)
          /\ Flagged(prio_queue) = Members(prio_queue)
      BY <1>1, QueueFacts DEF IsHeap
    <3>2. i \in Nat /\ i >= 1
      BY <3>1, HeapTypes
    <3>3. ASSUME NEW c \in Children(prio_queue, i)
          PROVE  HEAP_COMPARE(HEAP_GET_PRIORITY(prio_queue, i), HEAP_GET_PRIORITY(prio_queue, c))
      <4>1. c \in 2 .. Len(prio_queue.heap) /\ parent(c) = i
        BY <3>1, <3>2, ChildrenAreBelow
      <4> QED BY <3>1, <4>1 DEF Ordered, Above
    <3>4. prio_queue.pos[prio_queue.heap[i]] = i
      BY <3>1 DEF Placed
    <3>5. prio_queue.heap[i] \in Flagged(prio_queue)
      BY <3>1 DEF Members
    <3>6. /\ prio_queue.in[prio_queue.heap[i]]
          /\ prio_queue.prio[prio_queue.heap[i]] = level[prio_queue.heap[i]]
      BY <1>1, <3>5 DEF Flagged, Inv, QueuesOK
    <3> QED BY <3>3, <3>4, <3>6
  <2> QED BY <2>2, <2>3, <2>4, <2>5 DEF QueuesSound
<1> QED BY <1>1, InvAlways, PTL

\* QueuedOnce: a node is marked as queued if and only if it is in exactly one
\* place; a node with tuples is marked, and one that waits has tuples.
THEOREM NodesAreQueuedOnce == Spec => []QueuedOnce
<1>1. ASSUME Inv PROVE QueuedOnce
  <2> SUFFICES ASSUME NEW n \in Nodes
               PROVE  LET places == {i \in DOMAIN Walk : Walk[i] = n}
                          heaps == {i \in DOMAIN prio_queue.heap : prio_queue.heap[i] = n}
                          held == IF current_node = n THEN 1 ELSE 0
                      IN /\ Cardinality(places) + Cardinality(heaps) + held
                              = IF on_queue[n] THEN 1 ELSE 0
                         /\ queue_nodes.in[n] <=> places # {}
                         /\ prio_queue.in[n] <=> heaps # {}
                         /\ work[n] > 0 => on_queue[n]
                         /\ on_queue[n] /\ work[n] = 0 => current_node = n
    BY DEF QueuedOnce
  <2> DEFINE places == {i \in DOMAIN Walk : Walk[i] = n}
             heaps == {i \in DOMAIN prio_queue.heap : prio_queue.heap[i] = n}
             held == IF current_node = n THEN 1 ELSE 0
  <2>1. /\ n \in Flagged(queue_nodes) => \E i : places = {i}
        /\ n \notin Flagged(queue_nodes) => places = {}
    <3>1. /\ Distinct(Walk)
          /\ n \in Flagged(queue_nodes) <=> \E i \in DOMAIN Walk : Walk[i] = n
      BY <1>1, QueueFacts DEF IsList
    <3>2. CASE n \in Flagged(queue_nodes)
      <4>1. PICK i \in DOMAIN Walk : Walk[i] = n
        BY <3>1, <3>2
      <4>2. \A j \in DOMAIN Walk : Walk[j] = n => j = i
        BY <3>1, <4>1 DEF Distinct
      <4>3. places = {i}
        BY <4>1, <4>2
      <4> QED BY <3>2, <4>3
    <3>3. CASE n \notin Flagged(queue_nodes)
      BY <3>1, <3>3
    <3> QED BY <3>2, <3>3
  <2>2. /\ n \in Flagged(prio_queue) => \E i : heaps = {i}
        /\ n \notin Flagged(prio_queue) => heaps = {}
    <3>1. /\ \A i \in DOMAIN prio_queue.heap : prio_queue.pos[prio_queue.heap[i]] = i
          /\ n \in Flagged(prio_queue) <=> \E i \in DOMAIN prio_queue.heap : prio_queue.heap[i] = n
      BY <1>1, QueueFacts, InMembers DEF IsHeap, Placed
    <3>2. CASE n \in Flagged(prio_queue)
      <4>1. PICK i \in DOMAIN prio_queue.heap : prio_queue.heap[i] = n
        BY <3>1, <3>2
      <4>2. \A j \in DOMAIN prio_queue.heap : prio_queue.heap[j] = n => j = i
        BY <3>1, <4>1
      <4>3. heaps = {i}
        BY <4>1, <4>2
      <4> QED BY <3>2, <4>3
    <3>3. CASE n \notin Flagged(prio_queue)
      BY <3>1, <3>3
    <3> QED BY <3>2, <3>3
  <2> HIDE DEF places, heaps
  <2>3. Cardinality(places) = IF n \in Flagged(queue_nodes) THEN 1 ELSE 0
    BY <2>1, FS_EmptySet, FS_Singleton
  <2>4. Cardinality(heaps) = IF n \in Flagged(prio_queue) THEN 1 ELSE 0
    BY <2>2, FS_EmptySet, FS_Singleton
  <2>5. /\ n \in Marked <=> \/ n \in Flagged(queue_nodes) \/ n \in Flagged(prio_queue)
                            \/ n = current_node
        /\ ~(n \in Flagged(queue_nodes) /\ n \in Flagged(prio_queue))
        /\ n = current_node => n \notin Flagged(queue_nodes) /\ n \notin Flagged(prio_queue)
    BY <1>1 DEF Inv, PlacesOK
  <2>6. Cardinality(places) + Cardinality(heaps) + held = IF n \in Marked THEN 1 ELSE 0
    BY <2>3, <2>4, <2>5
  <2>7. queue_nodes.in[n] <=> places # {}
    BY <1>1, <2>1, QueueFacts
  <2>8. prio_queue.in[n] <=> heaps # {}
    BY <1>1, <2>2, QueueFacts
  <2>9. work[n] > 0 => n \in Marked
    BY <1>1 DEF Inv, PlacesOK
  <2>10. n \in Marked /\ work[n] = 0 => current_node = n
    BY <1>1 DEF Inv, PlacesOK
  <2>11. n \in Marked <=> on_queue[n]
    BY DEF Marked
  <2> QED BY <2>6, <2>7, <2>8, <2>9, <2>10, <2>11 DEF places, heaps
<1> QED BY <1>1, InvAlways, PTL

\* ImplementsNodeOrder: for every number of nodes the thread runs them in the
\* order that NodeOrder promises: the best priority first, and the nodes without
\* one in the order in which they came.
THEOREM ThreadImplementsNodeOrder == Spec => ImplementsNodeOrder
<1>1. Init => Order!Init
  BY InitStep
<1>2. Inv /\ [Next]_vars => [Order!Next]_(Order!orderVars)
  BY InvStep DEF OrderStep, Order!orderVars, Ranked
<1> QED BY <1>1, <1>2, InvAlways, PTL DEF Spec, ImplementsNodeOrder, Order!Spec
==============================================================================
