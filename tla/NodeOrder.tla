------------------------------ MODULE NodeOrder ------------------------------
(***************************************************************************)
(* What a scheduler thread with priorities promises: it runs one node at a *)
(* time.  The nodes that wait with a priority come first, best priority    *)
(* first; the others are taken in the order in which they came.            *)
(***************************************************************************)
EXTENDS Integers, SequencesExt

CONSTANTS Nodes, Null, Desc, Levels

VARIABLES
  fifo,     \* the nodes that wait without a priority
  ranked,   \* node -> its priority, 0 unless it waits with one
  current   \* the node that is run, or Null

orderVars == <<fifo, ranked, current>>

Waiting == {n \in Nodes : ranked[n] # 0}
Best(n) ==
  n \in Waiting /\ \A m \in Waiting : IF Desc THEN ranked[n] >= ranked[m]
                                              ELSE ranked[n] <= ranked[m]
InFifo(n) == \E i \in DOMAIN fifo : fifo[i] = n

Init ==
  /\ fifo = <<>>
  /\ ranked = [n \in Nodes |-> 0]
  /\ current = Null

\* A node with tuples starts to wait.
Wait(n, p) ==
  /\ ~InFifo(n) /\ n \notin Waiting /\ n # current
  /\ IF p > 0 THEN ranked' = [ranked EXCEPT ![n] = p] /\ UNCHANGED fifo
              ELSE fifo' = Append(fifo, n) /\ UNCHANGED ranked
  /\ UNCHANGED current

\* A node that waits gets a priority, or loses it and waits behind the others.
Rank(n, p) ==
  /\ \/ n \in Waiting /\ fifo' = IF p = 0 THEN Append(fifo, n) ELSE fifo
     \/ p # 0 /\ \E i \in DOMAIN fifo : fifo[i] = n /\ fifo' = RemoveAt(fifo, i)
  /\ ranked' = [ranked EXCEPT ![n] = p]
  /\ UNCHANGED current

\* The next node, or none; a node that is still run is given up.
Take ==
  /\ \/ /\ Waiting # {}
        /\ \E n \in Waiting : /\ Best(n)
                              /\ current' = n
                              /\ ranked' = [ranked EXCEPT ![n] = 0]
        /\ UNCHANGED fifo
     \/ /\ Waiting = {} /\ fifo # <<>> /\ current = Null
        /\ current' = Head(fifo)
        /\ fifo' = Tail(fifo)
        /\ UNCHANGED ranked
     \/ /\ Waiting = {} /\ current # Null
        /\ current' = Null
        /\ UNCHANGED <<fifo, ranked>>

Next == Take \/ \E n \in Nodes, p \in Levels : Wait(n, p) \/ Rank(n, p)

Spec == Init /\ [][Next]_orderVars
==============================================================================
