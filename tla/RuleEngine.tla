------------------------------ MODULE RuleEngine ------------------------------
(***************************************************************************)
(* The rule engine of one node: vm::state::run_node with the node's        *)
(* rule_matcher.  A run takes the tuples that wait for the node, derives   *)
(* the persistent consequences, and runs rules as long as one may apply.   *)
(*                                                                         *)
(* A tuple is a member of Tuples; equal tuples are copies of the same      *)
(* member.  The byte code is the program's: a rule fires any number of     *)
(* times, consuming one tuple of each linear predicate of its body and     *)
(* deriving tuples of its heads; a predicate's byte code derives (or       *)
(* retracts) the consequences that the persistent rules give a tuple.      *)
(* Rules that are persistent are ignored by the matcher and are not in     *)
(* Rules.  Aggregates and actions are left out.                            *)
(***************************************************************************)
EXTENDS Integers, SequencesExt

CONSTANTS
  Preds,         \* the predicates
  Kind,          \* predicate -> "linear", "reused" (linear too) or "persistent"
  Level,         \* predicate -> its stratification level
  Tuples, Pred,  \* the tuples, and the predicate of each
  Rules,         \* rule ids: a smaller one has priority
  Body,          \* rule -> how often each predicate occurs in its body
  Heads,         \* rule -> the tuples it derives for its own node
  Consequences,     \* tuple -> the persistent tuples derived from it
  SimConsequences,  \* the same in the simulator
  MaxEvents, MaxSimEvents  \* bounds, also in the simulator, on arrivals, derivations
                           \* by rules, and exhausted runs

ASSUME RuleEngineAssumption ==
  /\ Kind \in [Preds -> {"linear", "reused", "persistent"}]
  /\ Level \in [Preds -> Nat]
  /\ Pred \in [Tuples -> Preds]
  /\ Rules \subseteq Nat /\ IsFiniteSet(Rules)
  /\ IsFiniteSet(Preds)
  /\ Body \in [Rules -> [Preds -> Nat]]
  /\ \A r \in Rules : \E p \in Preds : Body[r][p] > 0 /\ Kind[p] # "persistent"
  /\ Heads \in [Rules -> SUBSET Tuples]
  /\ {Consequences, SimConsequences}
       \subseteq [Tuples -> SUBSET {t \in Tuples : Kind[Pred[t]] = "persistent"}]
  /\ \A t \in Tuples : IsFiniteSet(Consequences[t]) /\ IsFiniteSet(SimConsequences[t])
  /\ {MaxEvents, MaxSimEvents} \subseteq Nat

VARIABLES
  queue,            \* the tuples that wait for the node
  db,               \* tuple -> its count in the node's trie
  predicate_count, total_have, active_rules, dropped_rules,  \* rule_matcher
  gathered,         \* the part of local_tuples that is not marked yet
  local_tuples,     \* tuple -> copies in local_tuples that can be consumed
  consumed,         \* tuple -> copies in local_tuples that will be deleted
  generated_tuples, \* tuple -> copies derived by the rule that is running
  generated_persistent_tuples,
  generated_other_level,
  leaves_for_deletion,  \* tuple -> leaves of reused tuples that were consumed
  rules,            \* the rules flagged as being in the rule queue
  rule_queue,       \* the rules to run
  predicates,       \* the predicates that got a tuple in this turn of the loop
  current_level,
  pc, rule,         \* where run_node is, and the rule that is running
  need,             \* linear predicate -> tuples the rule has yet to consume
  sim_instr_use,    \* the simulator runs the node: a run has a limit of instructions
  limit, aborted,   \* the instructions are exhausted; the run was cut short
  failed,           \* an assertion of deregister_tuple or heap_queue::remove failed
  budget,           \* events that may still happen
  base,             \* history: tuple -> what was added for it from outside
  fresh,            \* history: the rules that got a new tuple since they were run
  copied            \* history: those that got another copy of a stored one

matcherVars == <<predicate_count, total_have, active_rules, dropped_rules>>
listVars == <<generated_tuples, generated_persistent_tuples, generated_other_level>>
agendaVars == <<rules, rule_queue, predicates>>
ruleVars == <<rule, need>>
simVars == <<sim_instr_use, limit, aborted>>
historyVars == <<budget, base, fresh, copied>>
vars == <<queue, db, matcherVars, gathered, local_tuples, consumed, listVars,
          leaves_for_deletion, agendaVars, current_level, pc, ruleVars, simVars,
          failed, historyVars>>

KindOf(t) == Kind[Pred[t]]
RulesOf(p) == {r \in Rules : Body[r][p] > 0}
total_needed(r) == SumFunction(Body[r])

None == [t \in Tuples |-> 0]
Add(f, t, n) == [f EXCEPT ![t] = @ + n]

\* vm::ref_count is a short.
Short(n) == ((n + 32768) % 65536) - 32768

\* A simple_tuple: a tuple to add or, with a negative count, to retract.
STuple(t, c) == [tpl |-> t, count |-> c]
STuples == [tpl : Tuples, count : {-1, 1}]

------------------------------------------------------------------------------
(* rule_matcher                                                             *)

\* register_tuple: the first tuple of a predicate makes it available to rules.
register_tuple(p, c, is_new) ==
  LET gain(r) == IF is_new /\ predicate_count[p] = 0 THEN Body[r][p] ELSE 0
      full == {r \in Rules : total_needed(r) \in total_have[r] + 1 .. total_have[r] + gain(r)}
  IN /\ total_have' = [r \in Rules |-> total_have[r] + gain(r)]
     /\ active_rules' = active_rules \cup full
     /\ dropped_rules' = dropped_rules \ full
     /\ predicate_count' = [predicate_count EXCEPT ![p] = Short(@ + c)]

\* deregister_tuple: the last tuple of a predicate makes it unavailable.
deregister_tuple(p, c) ==
  LET lose(r) == IF predicate_count[p] = c THEN Body[r][p] ELSE 0
      full == {r \in Rules : total_needed(r) \in total_have[r] - lose(r) + 1 .. total_have[r]}
  IN /\ failed' = (predicate_count[p] < c)
     /\ active_rules' = active_rules \ full
     /\ dropped_rules' = dropped_rules \cup full
     /\ total_have' = [r \in Rules |-> total_have[r] - lose(r)]
     /\ predicate_count' = [predicate_count EXCEPT ![p] = Short(@ - c)]

------------------------------------------------------------------------------

Init ==
  /\ queue = <<>>
  /\ db = None
  /\ predicate_count = [p \in Preds |-> 0]
  /\ total_have = [r \in Rules |-> 0]
  /\ active_rules = {} /\ dropped_rules = {}
  /\ gathered = <<>>
  /\ local_tuples = None /\ consumed = None
  /\ generated_tuples = None
  /\ generated_persistent_tuples = <<>> /\ generated_other_level = <<>>
  /\ leaves_for_deletion = None
  /\ rules = {} /\ rule_queue = {} /\ predicates = {}
  /\ current_level = 0
  /\ pc = "idle"
  /\ rule = 0 /\ need = [p \in Preds |-> 0]
  /\ sim_instr_use \in BOOLEAN /\ limit = FALSE /\ aborted = FALSE
  /\ failed = FALSE
  /\ budget = IF sim_instr_use THEN MaxSimEvents ELSE MaxEvents
  /\ base = None
  /\ fresh = {} /\ copied = {}

At(label) == pc = label /\ ~failed

------------------------------------------------------------------------------
(* Tuples from outside, and the start of a run.                             *)

\* The scheduler puts a tuple into the node's queue.  Only what was added is
\* retracted, and linear tuples are not retracted.
Arrive(t, c) ==
  /\ At("idle")
  /\ budget > 0
  /\ c = -1 => KindOf(t) = "persistent" /\ base[t] > 0
  /\ budget' = budget - 1
  /\ base' = Add(base, t, c)
  /\ queue' = Append(queue, STuple(t, c))
  /\ UNCHANGED <<db, matcherVars, gathered, local_tuples, consumed, listVars,
                 leaves_for_deletion, agendaVars, current_level, pc, ruleVars,
                 simVars, failed, fresh, copied>>

\* gather_next_tuples and start_matching.  The schedulers hand out the tuples
\* of the lowest level that has any, the simulator those of all levels.
Gather ==
  /\ At("idle")
  /\ queue # <<>>
  /\ LET lowest == Min({Level[Pred[queue[i].tpl]] : i \in DOMAIN queue})
         Ready(w) == sim_instr_use \/ Level[Pred[w.tpl]] = lowest
         Later(w) == ~Ready(w)
     IN /\ gathered' = SelectSeq(queue, Ready)
        /\ queue' = SelectSeq(queue, Later)
  /\ current_level' = Level[Pred[gathered'[1].tpl]]
  /\ predicates' = {}
  /\ limit' = FALSE /\ aborted' = FALSE
  /\ pc' = "mark"
  /\ UNCHANGED <<db, matcherVars, local_tuples, consumed, listVars,
                 leaves_for_deletion, rules, rule_queue, ruleVars, sim_instr_use,
                 failed, historyVars>>

\* mark_rules_using_local_tuples, one tuple at a time.
MarkTuple ==
  /\ At("mark")
  /\ gathered # <<>>
  /\ gathered' = Tail(gathered)
  /\ LET t == Head(gathered).tpl IN
     IF KindOf(t) = "linear"
     THEN /\ register_tuple(Pred[t], Head(gathered).count, TRUE)
          /\ predicates' = predicates \cup {Pred[t]}
          /\ local_tuples' = Add(local_tuples, t, 1)
          /\ fresh' = fresh \cup RulesOf(Pred[t])
          /\ UNCHANGED generated_persistent_tuples
     ELSE /\ generated_persistent_tuples' =
               Append(generated_persistent_tuples, Head(gathered))
          /\ UNCHANGED <<matcherVars, predicates, local_tuples, fresh>>
  /\ UNCHANGED <<queue, db, consumed, generated_tuples, generated_other_level,
                 leaves_for_deletion, rules, rule_queue, current_level, pc,
                 ruleVars, simVars, failed, budget, base, copied>>

MarkDone ==
  /\ At("mark")
  /\ gathered = <<>>
  /\ pc' = "persistent"
  /\ UNCHANGED <<queue, db, matcherVars, gathered, local_tuples, consumed, listVars,
                 leaves_for_deletion, agendaVars, current_level, ruleVars, simVars,
                 failed, historyVars>>

------------------------------------------------------------------------------
(* do_persistent_tuples                                                     *)

ConsequencesOf(t) == IF sim_instr_use THEN SimConsequences[t] ELSE Consequences[t]

\* execute_bytecode for a persistent tuple: its consequences are derived, or
\* retracted, with the tuple's count.  Those of another level wait.
RunPredicate(t, c, rest) ==
  LET send == SetToSeq({STuple(u, c) : u \in ConsequencesOf(t)})
      Here(w) == Level[Pred[w.tpl]] = current_level
      Elsewhere(w) == ~Here(w)
  IN /\ generated_persistent_tuples' = rest \o SelectSeq(send, Here)
     /\ generated_other_level' = generated_other_level \o SelectSeq(send, Elsewhere)
     /\ generated_tuples' = None

SkipPredicate(rest) ==
  /\ generated_persistent_tuples' = rest
  /\ UNCHANGED <<generated_tuples, generated_other_level>>

\* Another copy of a tuple matters to the rules that consume several.
RulesOfCopies(p) == {r \in Rules : Body[r][p] > 1}

\* process_persistent_tuple with a positive count.  A further copy of a stored tuple
\* is counted, and no rule is marked for it.
PersistentAdd(t, c, rest) ==
  LET is_new == db[t] = 0 IN
  /\ db' = Add(db, t, 1)
  /\ register_tuple(Pred[t], c, is_new)
  /\ IF is_new
     THEN /\ RunPredicate(t, c, rest)
          /\ predicates' = predicates \cup {Pred[t]}
     ELSE SkipPredicate(rest) /\ UNCHANGED predicates
  /\ fresh' = fresh \cup (IF is_new THEN RulesOf(Pred[t]) ELSE {})
  /\ copied' = copied \cup (IF is_new \/ KindOf(t) # "reused" THEN {}
                            ELSE RulesOfCopies(Pred[t]))
  /\ UNCHANGED failed

\* Mutant: the consequences are retracted although the tuple has another
\* derivation.
RetractEager(t, c, rest) ==
  /\ KindOf(t) = "persistent"
  /\ db' = IF db[t] > 0 THEN Add(db, t, c) ELSE db
  /\ deregister_tuple(Pred[t], c)
  /\ RunPredicate(t, c, rest)
  /\ UNCHANGED <<predicates, fresh, copied>>

\* ... with a negative count: a persistent tuple loses a derivation.
PersistentRetract(t, c, rest) ==
  /\ KindOf(t) = "persistent"
  /\ db' = IF db[t] > 0 THEN Add(db, t, c) ELSE db
  /\ deregister_tuple(Pred[t], c)
  /\ IF db[t] = -c THEN RunPredicate(t, c, rest) ELSE SkipPredicate(rest)
  /\ UNCHANGED <<predicates, fresh, copied>>

\* ... a reused tuple was consumed; its leaf is deleted later.
ReusedRetract(t, c, rest) ==
  /\ KindOf(t) = "reused"
  /\ RunPredicate(t, c, rest)
  /\ UNCHANGED <<db, matcherVars, predicates, fresh, copied, failed>>

\* search_for_negative_tuple_normal: a retraction of the same tuple that waits.
Negative(w, rest) ==
  /\ w.count = 1
  /\ KindOf(w.tpl) = "persistent"
  /\ Contains(rest, STuple(w.tpl, -1))

Cancel(w, rest) ==
  /\ SkipPredicate(RemoveFirst(rest, STuple(w.tpl, -1)))
  /\ UNCHANGED <<db, matcherVars, predicates, fresh, copied, failed>>

PersistentTuple ==
  /\ At("persistent")
  /\ ~limit
  /\ generated_persistent_tuples # <<>>
  /\ LET w == Head(generated_persistent_tuples)
         rest == Tail(generated_persistent_tuples)
     IN \/ Negative(w, rest) /\ Cancel(w, rest)
        \/ /\ ~Negative(w, rest)
           /\ \/ w.count > 0 /\ PersistentAdd(w.tpl, w.count, rest)
              \/ w.count < 0 /\ PersistentRetract(w.tpl, w.count, rest)
              \/ w.count < 0 /\ ReusedRetract(w.tpl, w.count, rest)
  /\ UNCHANGED <<queue, gathered, local_tuples, consumed, leaves_for_deletion, rules,
                 rule_queue, current_level, pc, ruleVars, simVars, budget, base>>

\* The instructions are exhausted: run_node is aborted.
PersistentLimit ==
  /\ At("persistent")
  /\ limit
  /\ generated_persistent_tuples # <<>>
  /\ aborted' = TRUE
  /\ pc' = "finish"
  /\ UNCHANGED <<queue, db, matcherVars, gathered, local_tuples, consumed, listVars,
                 leaves_for_deletion, agendaVars, current_level, ruleVars,
                 sim_instr_use, limit, failed, historyVars>>

\* Mutant: rules that lost their last tuple stay in the queue.
MarkActiveKeepsDropped ==
  LET add == {r \in active_rules \ rules : \E p \in predicates : Body[r][p] > 0}
  IN /\ rules' = rules \cup add
     /\ rule_queue' = rule_queue \cup add
     /\ UNCHANGED failed

\* Mutant: a rule is queued only if all its predicates got a tuple.
MarkActiveOnlyFirst ==
  LET add == {r \in active_rules \ rules : \A p \in Preds \ predicates : Body[r][p] = 0}
      drop == dropped_rules \cap (rules \cup add)
  IN /\ rules' = (rules \cup add) \ drop
     /\ rule_queue' = (rule_queue \cup add) \ drop
     /\ UNCHANGED failed

\* Mutant: every active rule is queued, whether or not it got a tuple.
MarkActiveAlways ==
  LET add == active_rules \ rules
      drop == dropped_rules \cap (rules \cup add)
  IN /\ rules' = (rules \cup add) \ drop
     /\ rule_queue' = (rule_queue \cup add) \ drop
     /\ UNCHANGED failed

\* mark_active_rules: the active rules with a predicate that got a tuple are
\* queued, unless they are flagged, and the dropped ones taken out.  remove()
\* asserts that it finds the rule: a flag that outlived its queue stops the program.
mark_active_rules ==
  LET add == {r \in active_rules \ rules : \E p \in predicates : Body[r][p] > 0}
      drop == dropped_rules \cap (rules \cup add)
  IN /\ rules' = (rules \cup add) \ drop
     /\ rule_queue' = (rule_queue \cup add) \ drop
     /\ failed' = ~(drop \subseteq rule_queue \cup add)

\* The consumed leaves are deleted, and do_persistent_tuples returns.
PersistentDone ==
  /\ At("persistent")
  /\ generated_persistent_tuples = <<>>
  /\ db' = [t \in Tuples |-> db[t] - leaves_for_deletion[t]]
  /\ leaves_for_deletion' = None
  /\ mark_active_rules
  /\ pc' = "loop"
  /\ UNCHANGED <<queue, matcherVars, gathered, local_tuples, consumed, listVars,
                 predicates, current_level, ruleVars, simVars, historyVars>>

------------------------------------------------------------------------------
(* The loop over the rule queue, and the byte code of a rule.               *)

PopRule ==
  /\ At("loop")
  /\ ~limit
  /\ rule_queue # {}
  /\ rule' = Min(rule_queue)
  /\ rule_queue' = rule_queue \ {rule'}
  /\ rules' = rules \ {rule'}
  /\ dropped_rules' = {}
  /\ predicates' = {}
  /\ fresh' = fresh \ {rule'} /\ copied' = copied \ {rule'}
  /\ pc' = "rule"
  /\ UNCHANGED <<queue, db, predicate_count, total_have, active_rules, gathered,
                 local_tuples, consumed, listVars, leaves_for_deletion,
                 current_level, need, simVars, failed, budget, base>>

\* No rule is left, or (the break) no instructions are.
LoopDone ==
  /\ At("loop")
  /\ limit \/ rule_queue = {}
  /\ pc' = "finish"
  /\ UNCHANGED <<queue, db, matcherVars, gathered, local_tuples, consumed, listVars,
                 leaves_for_deletion, agendaVars, current_level, ruleVars, simVars,
                 failed, historyVars>>

Stored(t) == db[t] - leaves_for_deletion[t]

\* Linear tuples of the scheduler's queue can be consumed as well; the
\* simulator offers none (gather_active_tuples).
Waiting(t) ==
  IF sim_instr_use THEN 0 ELSE Cardinality({i \in DOMAIN queue : queue[i] = STuple(t, 1)})

\* Sum of a count over the tuples of a predicate.
Total(Op(_), p) == MapThenSumSet(Op, {t \in Tuples : Pred[t] = p})

CanMatch(r) ==
  \A p \in Preds :
    LET Usable(t) == Stored(t) + local_tuples[t] + Waiting(t)
    IN IF Kind[p] = "persistent" THEN Body[r][p] > 0 => Total(Stored, p) > 0
                                 ELSE Body[r][p] <= Total(Usable, p)

\* The body of the rule matches.
Match ==
  /\ At("rule")
  /\ CanMatch(rule)
  /\ need' = [p \in Preds |-> IF Kind[p] = "persistent" THEN 0 ELSE Body[rule][p]]
  /\ pc' = "fire"
  /\ UNCHANGED <<queue, db, matcherVars, gathered, local_tuples, consumed, listVars,
                 leaves_for_deletion, agendaVars, current_level, rule, simVars,
                 failed, historyVars>>

\* execute_remove for a reused tuple: its consequences will be retracted.
RetractLater(t) ==
  generated_persistent_tuples' =
    IF KindOf(t) = "reused" THEN Append(generated_persistent_tuples, STuple(t, -1))
    ELSE generated_persistent_tuples

\* The tuple is a leaf of the trie ...
RemoveLeaf(t) ==
  /\ Stored(t) > 0
  /\ deregister_tuple(Pred[t], 1)
  /\ IF KindOf(t) = "reused"
     THEN leaves_for_deletion' = Add(leaves_for_deletion, t, 1) /\ UNCHANGED db
     ELSE db' = Add(db, t, -1) /\ UNCHANGED leaves_for_deletion
  /\ UNCHANGED <<queue, local_tuples, consumed>>

\* ... or a local tuple, which is marked, and deregistered after the rule ...
RemoveLocal(t) ==
  /\ local_tuples[t] > 0
  /\ local_tuples' = Add(local_tuples, t, -1)
  /\ consumed' = Add(consumed, t, 1)
  /\ UNCHANGED <<queue, db, leaves_for_deletion, matcherVars, failed>>

\* ... or a tuple that waits: it is marked too, and thrown away when gathered.
RemoveWaiting(t) ==
  /\ Waiting(t) > 0
  /\ queue' = RemoveFirst(queue, STuple(t, 1))
  /\ UNCHANGED <<db, leaves_for_deletion, local_tuples, consumed, matcherVars, failed>>

execute_remove(t) ==
  /\ At("fire")
  /\ need[Pred[t]] > 0
  /\ need' = Add(need, Pred[t], -1)
  /\ RemoveLeaf(t) \/ RemoveLocal(t) \/ RemoveWaiting(t)
  /\ RetractLater(t)
  /\ base' = Add(base, t, -1)
  /\ UNCHANGED <<gathered, generated_tuples, generated_other_level, agendaVars,
                 current_level, pc, rule, simVars, budget, fresh, copied>>

\* Mutant: a derived linear tuple is not registered.
SendUnregistered(t) ==
  /\ IF KindOf(t) = "reused"
     THEN /\ generated_persistent_tuples' =
               Append(generated_persistent_tuples, STuple(t, 1))
          /\ UNCHANGED generated_tuples
     ELSE /\ generated_tuples' = Add(generated_tuples, t, 1)
          /\ UNCHANGED generated_persistent_tuples
  /\ predicates' = predicates \cup {Pred[t]}
  /\ fresh' = fresh \cup RulesOf(Pred[t])
  /\ UNCHANGED matcherVars

\* execute_send_self for a linear tuple of the current level.
SendLinear(t) ==
  /\ IF KindOf(t) = "reused"
     THEN /\ generated_persistent_tuples' =
               Append(generated_persistent_tuples, STuple(t, 1))
          /\ UNCHANGED generated_tuples
     ELSE /\ generated_tuples' = Add(generated_tuples, t, 1)
          /\ UNCHANGED generated_persistent_tuples
  /\ register_tuple(Pred[t], 1, TRUE)
  /\ predicates' = predicates \cup {Pred[t]}
  /\ fresh' = fresh \cup RulesOf(Pred[t])

SendPersistent(t) ==
  /\ generated_persistent_tuples' = Append(generated_persistent_tuples, STuple(t, 1))
  /\ UNCHANGED <<generated_tuples, matcherVars, predicates, fresh>>

SendOtherLevel(t) ==
  /\ generated_other_level' = Append(generated_other_level, STuple(t, 1))
  /\ UNCHANGED <<generated_persistent_tuples, generated_tuples, matcherVars,
                 predicates, fresh>>

execute_send_self(t) ==
  /\ At("fire")
  /\ budget > 0
  /\ t \in Heads[rule]
  /\ budget' = budget - 1
  /\ base' = Add(base, t, 1)
  /\ \/ Level[Pred[t]] # current_level /\ SendOtherLevel(t)
     \/ /\ Level[Pred[t]] = current_level
        /\ KindOf(t) = "persistent"
        /\ SendPersistent(t)
        /\ UNCHANGED generated_other_level
     \/ /\ Level[Pred[t]] = current_level
        /\ KindOf(t) # "persistent"
        /\ SendLinear(t)
        /\ UNCHANGED generated_other_level
  /\ UNCHANGED <<queue, db, gathered, local_tuples, consumed, leaves_for_deletion,
                 rules, rule_queue, current_level, pc, ruleVars, simVars, failed, copied>>

\* The derivation is complete; the byte code looks for the next match.
Fired ==
  /\ At("fire")
  /\ \A p \in Preds : need[p] = 0
  /\ pc' = "rule"
  /\ UNCHANGED <<queue, db, matcherVars, gathered, local_tuples, consumed, listVars,
                 leaves_for_deletion, agendaVars, current_level, ruleVars, simVars,
                 failed, historyVars>>

\* The byte code finds no other match.
RuleDone ==
  /\ At("rule")
  /\ pc' = "consumed"
  /\ UNCHANGED <<queue, db, matcherVars, gathered, local_tuples, consumed, listVars,
                 leaves_for_deletion, agendaVars, current_level, ruleVars, simVars,
                 failed, historyVars>>

\* process_consumed_local_tuples, one tuple at a time.
ProcessConsumed(t) ==
  /\ At("consumed")
  /\ consumed[t] > 0
  /\ consumed' = Add(consumed, t, -1)
  /\ deregister_tuple(Pred[t], 1)
  /\ UNCHANGED <<queue, db, gathered, local_tuples, listVars, leaves_for_deletion,
                 agendaVars, current_level, pc, ruleVars, simVars, historyVars>>

\* The generated tuples join the local ones.
ConsumedDone ==
  /\ At("consumed")
  /\ consumed = None
  /\ local_tuples' = [t \in Tuples |-> local_tuples[t] + generated_tuples[t]]
  /\ generated_tuples' = None
  /\ pc' = "persistent"
  /\ UNCHANGED <<queue, db, matcherVars, gathered, consumed,
                 generated_persistent_tuples, generated_other_level,
                 leaves_for_deletion, agendaVars, current_level, ruleVars, simVars,
                 failed, historyVars>>

------------------------------------------------------------------------------
(* The end of a run.                                                        *)

\* A local tuple that is left goes to the database, or, after an abort, back to
\* the tuples that wait.
KeepTuple(t) ==
  /\ At("finish")
  /\ local_tuples[t] > 0
  /\ local_tuples' = Add(local_tuples, t, -1)
  /\ IF aborted THEN queue' = Append(queue, STuple(t, 1)) /\ UNCHANGED db
                ELSE db' = Add(db, t, 1) /\ UNCHANGED queue
  /\ UNCHANGED <<matcherVars, gathered, consumed, listVars, leaves_for_deletion,
                 agendaVars, current_level, pc, ruleVars, simVars, failed,
                 historyVars>>

\* Mutant: the persistent tuples of an aborted run are thrown away.
FinishForgets ==
  /\ At("finish")
  /\ local_tuples = None
  /\ rule_queue' = {}
  /\ queue' = queue \o generated_other_level
  /\ generated_other_level' = <<>>
  /\ generated_persistent_tuples' = <<>>
  /\ pc' = "idle"
  /\ UNCHANGED <<db, matcherVars, gathered, local_tuples, consumed, generated_tuples,
                 leaves_for_deletion, rules, predicates, current_level, ruleVars,
                 simVars, failed, historyVars>>

\* rule_queue.clear() leaves the flags; process_others; the persistent tuples
\* of an aborted run wait.
FinishRun ==
  /\ At("finish")
  /\ local_tuples = None
  /\ rule_queue' = {}
  /\ queue' = queue \o generated_other_level \o generated_persistent_tuples
  /\ generated_other_level' = <<>>
  /\ generated_persistent_tuples' = <<>>
  /\ pc' = "idle"
  /\ UNCHANGED <<db, matcherVars, gathered, local_tuples, consumed, generated_tuples,
                 leaves_for_deletion, rules, predicates, current_level, ruleVars,
                 simVars, failed, historyVars>>

\* check_instruction_limit becomes true as instructions are executed.
LimitReached ==
  /\ sim_instr_use
  /\ ~limit
  /\ pc # "idle"
  /\ ~failed
  /\ budget > 0
  /\ budget' = budget - 1
  /\ limit' = TRUE
  /\ UNCHANGED <<queue, db, matcherVars, gathered, local_tuples, consumed, listVars,
                 leaves_for_deletion, agendaVars, current_level, pc, ruleVars,
                 sim_instr_use, aborted, failed, base, fresh, copied>>

------------------------------------------------------------------------------

run_node ==
  \/ Gather \/ MarkTuple \/ MarkDone
  \/ PersistentTuple \/ PersistentLimit \/ PersistentDone
  \/ PopRule \/ LoopDone \/ Match \/ Fired \/ RuleDone
  \/ \E t \in Tuples : \/ execute_remove(t) \/ execute_send_self(t)
                        \/ ProcessConsumed(t) \/ KeepTuple(t)
  \/ ConsumedDone \/ FinishRun

\* Nothing more arrives, or the process has aborted.
Over == failed \/ (pc = "idle" /\ queue = <<>>)

Next ==
  \/ run_node
  \/ LimitReached
  \/ \E t \in Tuples, c \in {-1, 1} : Arrive(t, c)
  \/ Over /\ UNCHANGED vars

Spec == Init /\ [][Next]_vars

\* The scheduler runs a node that has work, and byte code does not loop.
FairSpec == Spec /\ WF_vars(run_node)

------------------------------------------------------------------------------
(* Properties.                                                              *)

Counts == [Tuples -> Nat]
Labels == {"idle", "mark", "persistent", "loop", "rule", "fire", "consumed", "finish"}

\* Type invariant: no count of a tuple goes below zero.
TypeOK ==
  /\ queue \in Seq(STuples) /\ gathered \in Seq(STuples)
  /\ db \in Counts /\ local_tuples \in Counts /\ consumed \in Counts
  /\ generated_tuples \in Counts /\ leaves_for_deletion \in Counts
  /\ generated_persistent_tuples \in Seq(STuples)
  /\ generated_other_level \in Seq(STuples)
  /\ predicate_count \in [Preds -> -32768 .. 32767]
  /\ total_have \in [Rules -> Nat]
  /\ active_rules \subseteq Rules /\ dropped_rules \subseteq Rules
  /\ rules \subseteq Rules /\ rule_queue \subseteq Rules
  /\ predicates \subseteq Preds /\ need \in [Preds -> Nat]
  /\ current_level \in Nat /\ rule \in Nat
  /\ pc \in Labels
  /\ sim_instr_use \in BOOLEAN /\ limit \in BOOLEAN /\ aborted \in BOOLEAN /\ failed \in BOOLEAN
  /\ budget \in 0 .. (IF sim_instr_use THEN MaxSimEvents ELSE MaxEvents) /\ base \in [Tuples -> Int]
  /\ fresh \subseteq Rules /\ copied \subseteq Rules

Present(t) == Stored(t) + local_tuples[t] + consumed[t] + generated_tuples[t]
TuplesOf(p) == Total(Present, p)

\* Where runs are not cut short, the matcher never counts fewer tuples of a
\* predicate than there are, so that its assertion never fails, and a rule all of
\* whose predicates have tuples is never missing from the active rules.
CountsCover ==
  ~sim_instr_use =>
    /\ ~failed
    /\ \A p \in Preds : predicate_count[p] >= TuplesOf(p)
    /\ \A r \in Rules :
         (\A p \in Preds : Body[r][p] > 0 => TuplesOf(p) > 0) => r \in active_rules

\* The node has tuples for the whole body of the rule.
Applicable(r) ==
  \A p \in Preds :
    LET Own(t) == Stored(t) + local_tuples[t]
    IN IF Kind[p] = "persistent" THEN Body[r][p] > 0 => Total(Own, p) > 0
                                 ELSE Body[r][p] <= Total(Own, p)

\* In the loop the applicable ones of these rules are in the queue; when the run
\* ends none of them is applicable.  (A run whose instructions are exhausted may
\* leave some for the next run.)
NoneMissed(due) ==
  /\ pc = "loop" /\ ~limit => \A r \in due : Applicable(r) => r \in rule_queue
  /\ pc = "idle" /\ ~limit => \A r \in due : ~Applicable(r)

\* A rule that got a tuple the node did not have, after it was last run, is run if
\* it is applicable: run_node does not end before, where it is not cut short.
NewTuplesRunRules == ~sim_instr_use => NoneMissed(fresh)

\* The process repeats "until we have no more applicable rules": a rule that got
\* any tuple after it was last run, be it a further copy of a reused tuple that the
\* node has, is run if it is applicable; if need be by the run that follows one
\* that was cut short.
NoRuleMissed == NoneMissed(fresh \cup copied)

\* A rule that has lost the last tuple of a predicate to another rule is not
\* run: every rule in the queue has tuples of all its predicates, as far as the
\* matcher counts them, and where runs are not cut short the flags agree with
\* the queue.
QueueIsCurrent ==
  pc = "loop" => /\ rule_queue \subseteq rules /\ rules \subseteq active_rules
                 /\ ~sim_instr_use => rules = rule_queue

Pending(t) ==
  LET Net(s) == FoldLeft(LAMBDA n, w : IF w.tpl = t THEN n + w.count ELSE n, 0, s)
  IN Net(queue)

\* Truth maintenance: between runs the count of a persistent tuple is what was
\* added from outside and not retracted, and one for each stored tuple that it
\* is a consequence of; nothing is counted twice, and what has lost its last
\* support is gone.  (Tuples derived from reused ones are not included.)
SupportExact ==
  pc = "idle" =>
    \A t \in Tuples :
      (KindOf(t) = "persistent"
         /\ \A s \in Tuples : t \in ConsequencesOf(s) => KindOf(s) = "persistent")
      => db[t] + Pending(t)
           = base[t] + Cardinality({s \in Tuples : t \in ConsequencesOf(s) /\ db[s] > 0})

\* Every run that is not cut short ends, even when persistent rules derive tuples
\* in a circle.
RunEnds == pc # "idle" /\ ~sim_instr_use ~> pc = "idle"
==============================================================================
