----------------------------- MODULE TupleStore -----------------------------
(***************************************************************************)
(* What the rest of the system expects of a tuple_trie: a multiset of the  *)
(* tuples of one predicate, iterated in the order in which they were first *)
(* inserted.  A tuple whose last copy is retracted stays visible until the *)
(* retraction is committed, after its consequences have been retracted.    *)
(***************************************************************************)
EXTENDS Integers, SequencesExt

CONSTANT Many   \* the numbers of copies that are inserted or retracted at once

VARIABLES
  tuples,    \* the tuples of the predicate
  count,     \* tuple -> copies stored
  order,     \* the stored tuples, first inserted first
  deleting,  \* the tuple whose retraction is not committed, in a set of at most one
  is_new     \* what the last insertion returned

vars == <<tuples, count, order, deleting, is_new>>

Init ==
  /\ count = [t \in tuples |-> 0]
  /\ order = <<>>
  /\ deleting = {}
  /\ is_new = FALSE

Insert(t, many) ==
  /\ deleting = {}
  /\ count' = [count EXCEPT ![t] = @ + many]
  /\ is_new' = (count[t] = 0)
  /\ order' = IF is_new' THEN Append(order, t) ELSE order
  /\ UNCHANGED <<tuples, deleting>>

\* Retract copies of a tuple; the last ones are gone for good with Commit.
Retract(t, many) ==
  /\ deleting = {}
  /\ many <= count[t]
  /\ count' = [count EXCEPT ![t] = @ - many]
  /\ deleting' = {t} \cap {u \in tuples : count'[u] = 0}
  /\ UNCHANGED <<tuples, order, is_new>>

Commit ==
  /\ order' = SelectSeq(order, LAMBDA t : t \notin deleting)
  /\ deleting' = {}
  /\ UNCHANGED <<tuples, count, is_new>>

\* Remove a copy of a tuple at once.
Consume(t) ==
  /\ deleting = {} /\ count[t] > 0
  /\ count' = [count EXCEPT ![t] = @ - 1]
  /\ order' = SelectSeq(order, LAMBDA u : count'[u] > 0)
  /\ UNCHANGED <<tuples, deleting, is_new>>

\* Remove all copies of the tuples in a set.
Drop(set) ==
  /\ deleting = {}
  /\ count' = [t \in tuples |-> IF t \in set THEN 0 ELSE count[t]]
  /\ order' = SelectSeq(order, LAMBDA t : t \notin set)
  /\ UNCHANGED <<tuples, deleting, is_new>>

Next ==
  \/ \E t \in tuples, many \in Many : Insert(t, many) \/ Retract(t, many)
  \/ Commit
  \/ \E t \in tuples : Consume(t)
  \/ \E set \in SUBSET tuples : Drop(set)

Spec == Init /\ [][Next]_vars
==============================================================================
