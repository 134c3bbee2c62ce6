----------------------------- MODULE TreeBarrier -----------------------------
(***************************************************************************)
(* The sense-reversing tree barrier the threads meet at when they start    *)
(* (utils::tree_barrier).  Thread t waits until its children in the tree   *)
(* have reported, re-arms its own counter, reports to its parent, and      *)
(* spins until the root reverses the shared sense.                         *)
(***************************************************************************)
EXTENDS Integers, FiniteSets

CONSTANTS
  N,             \* tree_barrier::size, one inner_node per thread
  Parent,        \* inner_node::parent of the threads other than the root
  MaxCrossings   \* bound: how often each thread waits

Threads == 0 .. N - 1
Root == 0
Children(t) == {c \in Threads \ {Root} : Parent[c] = t}

\* What build() establishes (TreeBuild): nodes are numbered in preorder, so
\* that every node but the root has a parent with a smaller number.
ASSUME TreeAssumption ==
  /\ N \in Nat \ {0}
  /\ MaxCrossings \in Nat
  /\ Parent \in [Threads \ {Root} -> Threads]
  /\ \A t \in Threads \ {Root} : Parent[t] < t

VARIABLES
  children_count,  \* thread -> children that have not reported yet
  thread_sense,    \* thread -> the value of sense that ends its next wait
  sense,           \* the shared sense
  my_sense,        \* thread -> local copy of thread_sense during a wait
  pc,              \* thread -> where it is in wait()
  crossings        \* thread -> how many waits it has finished

vars == <<children_count, thread_sense, sense, my_sense, pc, crossings>>

\* inner_node::count, which build() sets with set_count.
count(t) == Cardinality(Children(t))

Init ==
  /\ children_count = [t \in Threads |-> count(t)]
  /\ sense = FALSE
  /\ thread_sense = [t \in Threads |-> ~sense]
  /\ my_sense = [t \in Threads |-> FALSE]
  /\ pc = [t \in Threads |-> "out"]
  /\ crossings = [t \in Threads |-> 0]

Goto(t, label) == pc' = [pc EXCEPT ![t] = label]

Enter(t) ==
  /\ pc[t] = "out"
  /\ crossings[t] < MaxCrossings
  /\ my_sense' = [my_sense EXCEPT ![t] = thread_sense[t]]
  /\ Goto(t, "children")
  /\ UNCHANGED <<children_count, thread_sense, sense, crossings>>

\* while(children_count > 0) {}
ChildrenReported(t) ==
  /\ pc[t] = "children"
  /\ children_count[t] = 0
  /\ Goto(t, "rearm")
  /\ UNCHANGED <<children_count, thread_sense, sense, my_sense, crossings>>

\* children_count = count
Rearm(t) ==
  /\ pc[t] = "rearm"
  /\ children_count' = [children_count EXCEPT ![t] = count(t)]
  /\ Goto(t, IF t = Root THEN "flip" ELSE "report")
  /\ UNCHANGED <<thread_sense, sense, my_sense, crossings>>

\* Mutant: the report to the parent is lost.
ReportLost(t) ==
  /\ pc[t] = "report"
  /\ Goto(t, "spin")
  /\ UNCHANGED <<children_count, thread_sense, sense, my_sense, crossings>>

\* parent->children_count--
Report(t) ==
  /\ pc[t] = "report"
  /\ children_count' = [children_count EXCEPT ![Parent[t]] = @ - 1]
  /\ Goto(t, "spin")
  /\ UNCHANGED <<thread_sense, sense, my_sense, crossings>>

\* while(outer->sense != my_sense) {}
Released(t) ==
  /\ pc[t] = "spin"
  /\ sense = my_sense[t]
  /\ Goto(t, "leave")
  /\ UNCHANGED <<children_count, thread_sense, sense, my_sense, crossings>>

\* The root: outer->sense = !outer->sense
Flip(t) ==
  /\ pc[t] = "flip"
  /\ sense' = ~sense
  /\ Goto(t, "leave")
  /\ UNCHANGED <<children_count, thread_sense, my_sense, crossings>>

\* Mutant: thread_sense is not reversed.
LeaveSameSense(t) ==
  /\ pc[t] = "leave"
  /\ crossings' = [crossings EXCEPT ![t] = @ + 1]
  /\ Goto(t, "out")
  /\ UNCHANGED <<children_count, thread_sense, sense, my_sense>>

\* thread_sense = !my_sense, and wait() returns.
Leave(t) ==
  /\ pc[t] = "leave"
  /\ thread_sense' = [thread_sense EXCEPT ![t] = ~my_sense[t]]
  /\ crossings' = [crossings EXCEPT ![t] = @ + 1]
  /\ Goto(t, "out")
  /\ UNCHANGED <<children_count, sense, my_sense>>

Step(t) ==
  \/ Enter(t) \/ ChildrenReported(t) \/ Rearm(t) \/ Report(t)
  \/ Released(t) \/ Flip(t) \/ Leave(t)

\* Every thread has waited MaxCrossings times.
Finished == \A t \in Threads : pc[t] = "out" /\ crossings[t] = MaxCrossings

Next == (\E t \in Threads : Step(t)) \/ (Finished /\ UNCHANGED vars)

Spec == Init /\ [][Next]_vars

\* The threads run concurrently and each of them keeps on running.
FairSpec == Spec /\ \A t \in Threads : WF_vars(Step(t))

------------------------------------------------------------------------------
(* Properties.                                                              *)

\* Type invariant.
TypeOK ==
  /\ children_count \in [Threads -> Nat]
  /\ thread_sense \in [Threads -> BOOLEAN]
  /\ sense \in BOOLEAN
  /\ my_sense \in [Threads -> BOOLEAN]
  /\ pc \in [Threads -> {"out", "children", "rearm", "report", "spin", "flip", "leave"}]
  /\ crossings \in [Threads -> Nat]

\* A thread that has crossed the barrier more often than another one is exactly
\* one crossing ahead, and the other one is inside wait() and has been released.
NobodyLeftBehind ==
  \A t, u \in Threads : crossings[t] > crossings[u] =>
    /\ crossings[t] = crossings[u] + 1
    /\ pc[u] \in {"spin", "leave"}
    /\ sense = my_sense[u]

\* The root asserts, after it has reversed the sense, that it has the value all
\* the threads of this wait spin for.
SenseAgreed ==
  pc[Root] = "flip" => \A t \in Threads : my_sense[t] = ~sense

\* The barrier implements ThreadBarrier.
Abstract == INSTANCE ThreadBarrier WITH waiting <- {t \in Threads : pc[t] # "out"}
ImplementsThreadBarrier == Abstract!Spec

\* Nobody waits forever: as long as every thread keeps coming to the barrier,
\* every wait ends.
EveryWaitEnds == <>Finished
==============================================================================
