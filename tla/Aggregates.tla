----------------------------- MODULE Aggregates ------------------------------
(***************************************************************************)
(* Aggregates of one predicate at one node: node::aggs, tuple_aggregate,   *)
(* agg_configuration, and the part of vm::state that feeds them.  Derived  *)
(* tuples of the predicate are contributions; those that agree on the      *)
(* fields before the aggregated one form a group, which has an             *)
(* agg_configuration.  After each contribution the configuration emits the *)
(* retraction of the group's old aggregate and the new aggregate, and both *)
(* take their turn in generated_persistent_tuples.                         *)
(*                                                                         *)
(* The tuples of a configuration are what TupleStore says of a tuple_trie: *)
(* counts and an order.  Floats behave like integers and are left out.     *)
(***************************************************************************)
EXTENDS Integers, FiniteSets, SequencesExt, FiniteSetsExt

CONSTANTS
  Groups,     \* values of the fields before the aggregated one
  Values,     \* values of the aggregated field
  Rests,      \* values of the fields after it
  MaxEvents,  \* bound: derivations and retractions
  MaxRounds   \* bound: iterations that end

ASSUME AggregatesAssumption ==
  /\ Values \subseteq Nat
  /\ MaxEvents \in Nat /\ MaxRounds \in Nat

\* The tuples of the predicate.  A sum may be any number.
Tuples == [group : Groups, val : Values, rest : Rests]
Finals == [group : Groups, val : Nat, rest : Rests]
Types == {"first", "max", "min", "sum"}

VARIABLES
  type,         \* predicate::get_aggregate_type
  queue,        \* generated_persistent_tuples
  leaves,       \* the groups with a leaf in the agg_trie, in their order
  number_of_references,  \* of the agg_trie
  vals,         \* group -> the tuples of its agg_configuration, in their order
  count,        \* tuple -> its count there
  corresponds,  \* group -> the aggregate it has emitted last, {} for NULL
  db,           \* the aggregates in the node's tuple_trie, with their counts
  failed,       \* basic_invariants failed
  base,         \* history: tuple -> derivations that were not retracted
  events, rounds

storeVars == <<leaves, number_of_references, vals, count, corresponds>>
vars == <<type, queue, storeVars, db, failed, base, events, rounds>>

\* A simple_tuple, with simple_tuple::is_final_aggregate.
STuple(t, c, final) == [tpl |-> t, count |-> c, final |-> final]

------------------------------------------------------------------------------
(* agg_configuration                                                        *)

\* The first tuple with the greatest value.
generate_max_int(ts) ==
  ts[Min({i \in DOMAIN ts : \A j \in DOMAIN ts : ts[j].val <= ts[i].val})]

\* The first tuple with the least value.
generate_min_int(ts) ==
  ts[Min({i \in DOMAIN ts : \A j \in DOMAIN ts : ts[j].val >= ts[i].val})]

\* The sum of the values of all copies of the tuples in n; n[t] are there of t.
Total(n) == MapThenSumSet(LAMBDA t : n[t] * t.val, DOMAIN n)

\* Mutant: a tuple counts once in a sum, however often it was derived.
SumOfDistinct(ts, n) == [ts[1] EXCEPT !.val = Total([t \in ToSet(ts) |-> 1])]

\* The first tuple with the sum of all copies of all tuples.
generate_sum_int(ts, n) == [ts[1] EXCEPT !.val = Total([t \in ToSet(ts) |-> n[t]])]

\* The new aggregate; {} stands for the null pointer.
do_generate(ts, n) ==
  IF ts = <<>> THEN {}
  ELSE CASE type = "first" -> {ts[1]}
         [] type = "max" -> {generate_max_int(ts)}
         [] type = "min" -> {generate_min_int(ts)}
         [] type = "sum" -> {generate_sum_int(ts, n)}

\* remove_new and create_new of an aggregate, if there is one.
Emit(agg, c) == IF agg = {} THEN <<>> ELSE <<STuple(CHOOSE f \in agg : TRUE, c, TRUE)>>

\* Mutant: the aggregate of a group that has become empty is not retracted.
GenerateUnlessEmpty(old, new) ==
  IF new \in {{}, old} THEN <<>> ELSE Emit(old, -1) \o Emit(new, 1)

\* Mutant: the new aggregate is emitted before the old one is retracted.
GenerateNewFirst(old, new) == IF new = old THEN <<>> ELSE Emit(new, 1) \o Emit(old, -1)

\* agg_configuration::generate: what is emitted when the aggregate old is
\* replaced by new.
generate(old, new) == IF new = old THEN <<>> ELSE Emit(old, -1) \o Emit(new, 1)

------------------------------------------------------------------------------

Init ==
  /\ type \in Types
  /\ queue = <<>>
  /\ leaves = <<>>
  /\ number_of_references = 0
  /\ vals = [g \in Groups |-> <<>>]
  /\ count = [t \in Tuples |-> 0]
  /\ corresponds = [g \in Groups |-> {}]
  /\ db = <<>>
  /\ failed = FALSE
  /\ base = [t \in Tuples |-> 0]
  /\ events = 0
  /\ rounds = 0

\* The program derives a contribution, or retracts one that it has derived.
Derive(t, c) ==
  /\ ~failed
  /\ events < MaxEvents
  /\ base[t] + c >= 0
  /\ events' = events + 1
  /\ base' = [base EXCEPT ![t] = @ + c]
  /\ queue' = Append(queue, STuple(t, c, FALSE))
  /\ UNCHANGED <<type, storeVars, db, failed, rounds>>

\* search_for_negative_tuple_partial_agg and search_for_negative_tuple_full_agg: a
\* retraction of the same tuple that waits.
Negative(s) == STuple(s.tpl, -1, s.final)

Cancel ==
  /\ ~failed /\ queue # <<>>
  /\ Head(queue).count = 1
  /\ Contains(Tail(queue), Negative(Head(queue)))
  /\ queue' = RemoveFirst(Tail(queue), Negative(Head(queue)))
  /\ UNCHANGED <<type, storeVars, db, failed, base, events, rounds>>

\* There is a tuple at the front of the queue, and nothing that cancels it.
Uncancelled ==
  /\ ~failed /\ queue # <<>>
  /\ Head(queue).count = 1 => ~Contains(Tail(queue), Negative(Head(queue)))

\* process_persistent_tuple for an aggregate: add_tuple, or delete_tuple and its
\* commit; a retraction of what is not there is ignored.
ProcessFinal ==
  LET s == Head(queue)
      there == s.tpl \in DOMAIN db
      n == (IF there THEN db[s.tpl] ELSE 0) + s.count
      stored == (DOMAIN db \ {s.tpl}) \cup (IF n > 0 THEN {s.tpl} ELSE {})
  IN /\ Uncancelled
     /\ s.final
     /\ db' = [f \in stored |-> IF f = s.tpl THEN n ELSE db[f]]
     /\ queue' = Tail(queue)
     /\ UNCHANGED <<type, storeVars, failed, base, events, rounds>>

\* add_to_aggregate: find_configuration, agg_configuration::add_to_set, generate.
\* A configuration is never left changed, which end_iteration would look for.
AddToAggregate ==
  LET s == Head(queue)
      t == s.tpl
      g == t.group
      n == [count EXCEPT ![t] = IF s.count > 0 \/ @ > 0 THEN @ + s.count ELSE @]
      ts == IF n[t] = 0 THEN RemoveFirst(vals[g], t)
            ELSE IF count[t] = 0 THEN Append(vals[g], t) ELSE vals[g]
      new == do_generate(ts, n)
  IN /\ Uncancelled
     /\ ~s.final
     /\ IF Contains(leaves, g)
        THEN UNCHANGED <<leaves, number_of_references>>
        ELSE /\ leaves' = Append(leaves, g)
             /\ number_of_references' = number_of_references + 1
     /\ count' = n
     /\ vals' = [vals EXCEPT ![g] = ts]
     /\ corresponds' = [corresponds EXCEPT ![g] = new]
     /\ queue' = Tail(queue) \o generate(corresponds[g], new)
     /\ UNCHANGED <<type, db, failed, base, events, rounds>>

\* node::end_iteration, tuple_aggregate::generate: agg_trie::erase for every empty
\* configuration.  commit_delete decrements number_of_references but, as
\* agg_trie_leaf::to_delete is false, keeps the leaf; then basic_invariants looks at
\* both.
EndIteration ==
  LET erased == {g \in ToSet(leaves) : vals[g] = <<>>}
      left == number_of_references - Cardinality(erased)
  IN /\ ~failed /\ queue = <<>>
     /\ rounds < MaxRounds
     /\ rounds' = rounds + 1
     /\ failed' = (erased # {} /\ left <= 0)
     /\ number_of_references' = Max({0, left})
     /\ UNCHANGED <<type, queue, leaves, vals, count, corresponds, db, base, events>>

Done ==
  /\ failed \/ queue = <<>>
  /\ UNCHANGED vars

Next ==
  \/ \E t \in Tuples, c \in {1, -1} : Derive(t, c)
  \/ Cancel
  \/ ProcessFinal
  \/ AddToAggregate
  \/ EndIteration
  \/ Done

Spec == Init /\ [][Next]_vars

------------------------------------------------------------------------------
(* Properties                                                               *)

TypeOK ==
  /\ type \in Types
  /\ \A i \in DOMAIN queue : queue[i].tpl \in Finals /\ queue[i].count \in {-1, 1}
  /\ ToSet(leaves) \subseteq Groups /\ Len(leaves) = Cardinality(ToSet(leaves))
  /\ number_of_references \in 0 .. Len(leaves)
  /\ vals \in [Groups -> Seq(Tuples)]
  /\ count \in [Tuples -> 0 .. MaxEvents]
  /\ \A g \in Groups : corresponds[g] \subseteq Finals /\ Cardinality(corresponds[g]) <= 1
  /\ DOMAIN db \subseteq Finals
  /\ base \in [Tuples -> 0 .. MaxEvents]
  /\ events \in 0 .. MaxEvents /\ rounds \in 0 .. MaxRounds
  /\ failed \in BOOLEAN

\* The aggregate of a group by definition: f is one for the contributions in S.
IsAggregate(f, S) ==
  LET values == {t.val : t \in S} IN
  CASE type = "first" -> f \in S
    [] type = "max" -> f \in S /\ f.val = Max(values)
    [] type = "min" -> f \in S /\ f.val = Min(values)
    [] type = "sum" -> f.val = Total([t \in S |-> base[t]])

\* Once the derivations are processed, the database holds one aggregate of each
\* group that has contributions, of all of them and only of them, whatever order
\* they came and went in.
FinalExact ==
  queue = <<>> =>
    \A g \in Groups :
      LET S == {t \in Tuples : t.group = g /\ base[t] > 0}
          finals == {f \in DOMAIN db : f.group = g}
      IN IF S = {} THEN finals = {}
         ELSE \E f \in finals : finals = {f} /\ db[f] = 1 /\ IsAggregate(f, S)

\* While derivations are processed, rules never see two aggregates of a group.
OneAggregateAtATime ==
  \A f \in DOMAIN db : db[f] = 1 /\ \A h \in DOMAIN db : h.group = f.group => h = f

\* How many copies of s are in the queue.
Waiting(s) == Cardinality({i \in DOMAIN queue : queue[i] = s})

\* What a configuration believes it has emitted is what the database holds once
\* the assertions and retractions that wait have been processed or cancelled.
CorrespondsExact ==
  \A f \in DOMAIN db \cup {s.tpl : s \in {s \in ToSet(queue) : s.final}}
           \cup UNION {corresponds[g] : g \in Groups} :
    (IF f \in DOMAIN db THEN db[f] ELSE 0)
      + Waiting(STuple(f, 1, TRUE)) - Waiting(STuple(f, -1, TRUE))
      = (IF f \in corresponds[f.group] THEN 1 ELSE 0)

==============================================================================
