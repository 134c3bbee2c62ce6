---------------------------- MODULE ThreadBarrier ----------------------------
(***************************************************************************)
(* What a barrier promises to the threads that wait at it again and again: *)
(* nobody leaves the k-th wait before everybody has entered it.            *)
(***************************************************************************)
EXTENDS Naturals

CONSTANT Threads

VARIABLES
  crossings,  \* thread -> how many waits it has finished
  waiting     \* the threads that are inside wait()

vars == <<crossings, waiting>>

Init ==
  /\ crossings = [t \in Threads |-> 0]
  /\ waiting = {}

Arrive(t) ==
  /\ t \notin waiting
  /\ waiting' = waiting \cup {t}
  /\ UNCHANGED crossings

Depart(t) ==
  /\ t \in waiting
  /\ \A u \in Threads : \/ crossings[u] > crossings[t]
                        \/ crossings[u] = crossings[t] /\ u \in waiting
  /\ waiting' = waiting \ {t}
  /\ crossings' = [crossings EXCEPT ![t] = @ + 1]

Next == \E t \in Threads : Arrive(t) \/ Depart(t)

Spec == Init /\ [][Next]_vars
==============================================================================
