-------------------------- MODULE RuleEngineProofs --------------------------
(***************************************************************************)
(* The rule queue of run_node is current: a rule that is taken from it has *)
(* tuples of all its predicates, as far as rule_matcher counts them.       *)
(*                                                                         *)
(* The property is about the loop; a rule that loses the last tuple of a   *)
(* predicate while another runs stays in the queue until do_persistent_    *)
(* tuples is over.  In between, the queue is covered by the active rules   *)
(* and those the matcher has recorded as dropped, which is the inductive   *)
(* invariant.  The record must not be lost before mark_active_rules reads  *)
(* it, and it is not: only the loop clears it, where nothing in the queue  *)
(* is dropped.                                                             *)
(***************************************************************************)
EXTENDS RuleEngine, TLAPS

\* Every rule in the queue is active, or recorded as dropped; in the loop, where
\* the record has been worked off, it is active.  The flags of a run that is cut
\* short outlive the queue, so that the queue may be the smaller set.
CoverInv ==
  /\ rule_queue \subseteq rules
  /\ rules \subseteq active_rules \cup dropped_rules
  /\ pc = "loop" => rules \subseteq active_rules

\* The flags agree with the queue, also when the queue is cleared at the end of
\* the run.
FlagInv ==
  /\ rules = rule_queue
  /\ pc = "finish" => rule_queue = {}

\* Only under the simulator are the instructions of a run exhausted.
ModeInv == ~sim_instr_use => ~limit /\ FlagInv

\* register_tuple takes from the record only rules it activates.
LEMMA RegisterCovers ==
  ASSUME NEW p, NEW c, NEW is_new, register_tuple(p, c, is_new)
  PROVE  /\ active_rules \cup dropped_rules \subseteq active_rules' \cup dropped_rules'
         /\ active_rules \subseteq active_rules'
BY DEF register_tuple

\* deregister_tuple records the rules it deactivates.
LEMMA DeregisterCovers ==
  ASSUME NEW p, NEW c, deregister_tuple(p, c)
  PROVE  active_rules \cup dropped_rules \subseteq active_rules' \cup dropped_rules'
BY DEF deregister_tuple

LEMMA InitCover == Init => CoverInv /\ ModeInv
BY DEF Init, CoverInv, ModeInv, FlagInv

\* A quiet step leaves the queue alone, and takes no rule out of the active rules
\* without recording it as dropped.
Quiet ==
  /\ UNCHANGED <<rules, rule_queue>>
  /\ active_rules \cup dropped_rules \subseteq active_rules' \cup dropped_rules'
  /\ pc' # "loop" \/ (pc = "loop" /\ UNCHANGED active_rules)

LEMMA QuietCover == CoverInv /\ Quiet => CoverInv'
BY DEF CoverInv, Quiet

LEMMA PersistentTupleQuiet == PersistentTuple => Quiet /\ pc' = "persistent"
<1> SUFFICES ASSUME PersistentTuple
             PROVE  Quiet /\ pc' = "persistent"
  OBVIOUS
<1>1. UNCHANGED <<rules, rule_queue>> /\ pc' = "persistent"
  BY DEF PersistentTuple, At
<1> DEFINE w == Head(generated_persistent_tuples)
           rest == Tail(generated_persistent_tuples)
<1>2. CASE Cancel(w, rest)
  BY <1>1, <1>2 DEF Cancel, Quiet, matcherVars
<1>3. CASE PersistentAdd(w.tpl, w.count, rest)
  <2>1. register_tuple(Pred[w.tpl], w.count, db[w.tpl] = 0)
    BY <1>3 DEF PersistentAdd
  <2> QED BY <1>1, <2>1, RegisterCovers DEF Quiet
<1>4. CASE PersistentRetract(w.tpl, w.count, rest)
  <2>1. deregister_tuple(Pred[w.tpl], w.count)
    BY <1>4 DEF PersistentRetract
  <2> QED BY <1>1, <2>1, DeregisterCovers DEF Quiet
<1>5. CASE ReusedRetract(w.tpl, w.count, rest)
  BY <1>1, <1>5 DEF ReusedRetract, Quiet, matcherVars
<1> QED BY <1>2, <1>3, <1>4, <1>5 DEF PersistentTuple

LEMMA RemoveQuiet == ASSUME NEW t \in Tuples, execute_remove(t)
                     PROVE  Quiet /\ pc' = "fire"
<1>1. UNCHANGED <<rules, rule_queue>> /\ pc' = "fire"
  BY DEF execute_remove, agendaVars, At
<1>2. CASE RemoveLeaf(t)
  BY <1>1, <1>2, DeregisterCovers DEF RemoveLeaf, Quiet
<1>3. CASE RemoveLocal(t)
  BY <1>1, <1>3 DEF RemoveLocal, matcherVars, Quiet
<1>4. CASE RemoveWaiting(t)
  BY <1>1, <1>4 DEF RemoveWaiting, matcherVars, Quiet
<1> QED BY <1>2, <1>3, <1>4 DEF execute_remove

LEMMA SendQuiet == ASSUME NEW t \in Tuples, execute_send_self(t)
                   PROVE  Quiet /\ pc' = "fire"
<1>1. UNCHANGED <<rules, rule_queue>> /\ pc' = "fire"
  BY DEF execute_send_self, At
<1>2. CASE SendOtherLevel(t)
  BY <1>1, <1>2 DEF SendOtherLevel, matcherVars, Quiet
<1>3. CASE SendPersistent(t)
  BY <1>1, <1>3 DEF SendPersistent, matcherVars, Quiet
<1>4. CASE SendLinear(t)
  BY <1>1, <1>4, RegisterCovers DEF SendLinear, Quiet
<1> QED BY <1>2, <1>3, <1>4 DEF execute_send_self

LEMMA MarkTupleQuiet == MarkTuple => Quiet /\ pc' = "mark"
<1> SUFFICES ASSUME MarkTuple PROVE Quiet /\ pc' = "mark"
  OBVIOUS
<1> DEFINE t == Head(gathered).tpl
<1>1. UNCHANGED <<rules, rule_queue>> /\ pc' = "mark"
  BY DEF MarkTuple, At
<1>2. CASE KindOf(t) = "linear"
  <2>1. register_tuple(Pred[t], Head(gathered).count, TRUE)
    BY <1>2 DEF MarkTuple
  <2> QED BY <1>1, <2>1, RegisterCovers DEF Quiet
<1>3. CASE KindOf(t) # "linear"
  BY <1>1, <1>3 DEF MarkTuple, matcherVars, Quiet
<1> QED BY <1>2, <1>3

LEMMA ConsumedQuiet == ASSUME NEW t \in Tuples, ProcessConsumed(t)
                       PROVE  Quiet /\ pc' = "consumed"
<1>1. UNCHANGED <<rules, rule_queue>> /\ pc' = "consumed"
  BY DEF ProcessConsumed, agendaVars, At
<1> QED BY <1>1, DeregisterCovers DEF ProcessConsumed, Quiet

\* mark_active_rules adds active rules, and takes out what the record names.
LEMMA MarkActiveCurrent ==
  ASSUME CoverInv, mark_active_rules, UNCHANGED <<active_rules, dropped_rules>>
  PROVE  /\ CoverInv'
         /\ rules = rule_queue => rules' = rule_queue'
<1> DEFINE add == {r \in active_rules \ rules : \E p \in predicates : Body[r][p] > 0}
           drop == dropped_rules \cap (rules \cup add)
<1>1. /\ rules' = (rules \cup add) \ drop
      /\ rule_queue' = (rule_queue \cup add) \ drop
  BY DEF mark_active_rules
<1>2. add \subseteq active_rules
  OBVIOUS
<1> HIDE DEF add
<1>3. rule_queue \subseteq rules /\ rules \subseteq active_rules \cup dropped_rules
  BY DEF CoverInv
<1>4. rule_queue' \subseteq rules' /\ rules' \subseteq active_rules'
  BY <1>1, <1>2, <1>3
<1> QED BY <1>1, <1>4 DEF CoverInv

\* Each step keeps the queue covered: mark_active_rules works the record off, PopRule
\* forgets it where nothing in the queue is dropped, and the others are quiet.
LEMMA StepCover == CoverInv /\ [Next]_vars => CoverInv'
<1> SUFFICES ASSUME CoverInv, [Next]_vars PROVE CoverInv'
  OBVIOUS
<1> USE QuietCover
<1>1. CASE Gather
  BY <1>1 DEF Gather, matcherVars, Quiet
<1>2. CASE MarkTuple
  BY <1>2, MarkTupleQuiet DEF Quiet
<1>3. CASE MarkDone
  BY <1>3 DEF MarkDone, matcherVars, agendaVars, Quiet
<1>4. CASE PersistentTuple
  BY <1>4, PersistentTupleQuiet
<1>5. CASE PersistentLimit
  BY <1>5 DEF PersistentLimit, matcherVars, agendaVars, Quiet
<1>6. CASE PersistentDone
  BY <1>6, MarkActiveCurrent DEF PersistentDone, matcherVars
<1>7. CASE PopRule
  BY <1>7 DEF PopRule, At, CoverInv
<1>8. CASE LoopDone
  BY <1>8 DEF LoopDone, matcherVars, agendaVars, Quiet
<1>9. CASE Match
  BY <1>9 DEF Match, matcherVars, agendaVars, Quiet
<1>10. CASE Fired
  BY <1>10 DEF Fired, matcherVars, agendaVars, Quiet
<1>11. CASE RuleDone
  BY <1>11 DEF RuleDone, matcherVars, agendaVars, Quiet
<1>12. ASSUME NEW t \in Tuples, execute_remove(t) PROVE CoverInv'
  BY <1>12, RemoveQuiet
<1>13. ASSUME NEW t \in Tuples, execute_send_self(t) PROVE CoverInv'
  BY <1>13, SendQuiet
<1>14. ASSUME NEW t \in Tuples, ProcessConsumed(t) PROVE CoverInv'
  BY <1>14, ConsumedQuiet
<1>15. ASSUME NEW t \in Tuples, KeepTuple(t) PROVE CoverInv'
  BY <1>15 DEF KeepTuple, At, matcherVars, agendaVars, Quiet
<1>16. CASE ConsumedDone
  BY <1>16 DEF ConsumedDone, matcherVars, agendaVars, Quiet
<1>17. CASE FinishRun
  BY <1>17 DEF FinishRun, matcherVars, CoverInv
<1>18. CASE LimitReached
  BY <1>18 DEF LimitReached, matcherVars, agendaVars, Quiet
<1>19. ASSUME NEW t \in Tuples, NEW c \in {-1, 1}, Arrive(t, c) PROVE CoverInv'
  BY <1>19 DEF Arrive, At, matcherVars, agendaVars, Quiet
<1>20. CASE UNCHANGED vars
  BY <1>20 DEF vars, matcherVars, agendaVars, Quiet
<1> QED BY <1>1, <1>2, <1>3, <1>4, <1>5, <1>6, <1>7, <1>8, <1>9, <1>10, <1>11, <1>12,
           <1>13, <1>14, <1>15, <1>16, <1>17, <1>18, <1>19, <1>20 DEF Next, run_node

\* Outside the simulator a run ends only when the queue is empty.
LEMMA StepFlags ==
  ASSUME CoverInv, ~sim_instr_use, ~limit, FlagInv, [Next]_vars
  PROVE  ~limit' /\ FlagInv'
<1>0. ~limit
  OBVIOUS
<1> DEFINE Calm == ~limit' /\ UNCHANGED <<rules, rule_queue>> /\ pc' # "finish"
<1> USE DEF simVars
<1>a. ASSUME Calm PROVE ~limit' /\ FlagInv'
  BY <1>a DEF FlagInv
<1>1. CASE Gather
  BY <1>1, <1>a DEF Gather
<1>2. CASE MarkTuple
  BY <1>0, <1>2, <1>a DEF MarkTuple, At
<1>3. CASE MarkDone
  BY <1>0, <1>3, <1>a DEF MarkDone, agendaVars
<1>4. CASE PersistentTuple
  BY <1>0, <1>4, <1>a DEF PersistentTuple, At
<1>5. CASE PersistentLimit
  BY <1>0, <1>5 DEF PersistentLimit
<1>6. CASE PersistentDone
  BY <1>0, <1>6, MarkActiveCurrent DEF PersistentDone, matcherVars, FlagInv
<1>7. CASE PopRule
  BY <1>0, <1>7 DEF PopRule, FlagInv
<1>8. CASE LoopDone
  BY <1>0, <1>8 DEF LoopDone, agendaVars, FlagInv
<1>9. CASE Match
  BY <1>0, <1>9, <1>a DEF Match, agendaVars
<1>10. CASE Fired
  BY <1>0, <1>10, <1>a DEF Fired, agendaVars
<1>11. CASE RuleDone
  BY <1>0, <1>11, <1>a DEF RuleDone, agendaVars
<1>12. ASSUME NEW t \in Tuples, execute_remove(t) PROVE ~limit' /\ FlagInv'
  BY <1>0, <1>12, <1>a DEF execute_remove, At, agendaVars
<1>13. ASSUME NEW t \in Tuples, execute_send_self(t) PROVE ~limit' /\ FlagInv'
  BY <1>0, <1>13, <1>a DEF execute_send_self, At
<1>14. ASSUME NEW t \in Tuples, ProcessConsumed(t) PROVE ~limit' /\ FlagInv'
  BY <1>0, <1>14, <1>a DEF ProcessConsumed, At, agendaVars
<1>15. ASSUME NEW t \in Tuples, KeepTuple(t) PROVE ~limit' /\ FlagInv'
  BY <1>0, <1>15 DEF KeepTuple, At, agendaVars, FlagInv
<1>16. CASE ConsumedDone
  BY <1>0, <1>16, <1>a DEF ConsumedDone, agendaVars
<1>17. CASE FinishRun
  BY <1>0, <1>17 DEF FinishRun, At, FlagInv
<1>18. CASE LimitReached
  BY <1>18 DEF LimitReached
<1>19. ASSUME NEW t \in Tuples, NEW c \in {-1, 1}, Arrive(t, c)
       PROVE  ~limit' /\ FlagInv'
  BY <1>0, <1>19, <1>a DEF Arrive, At, agendaVars
<1>20. CASE UNCHANGED vars
  BY <1>0, <1>20 DEF vars, agendaVars, FlagInv
<1> QED BY <1>1, <1>2, <1>3, <1>4, <1>5, <1>6, <1>7, <1>8, <1>9, <1>10, <1>11, <1>12,
           <1>13, <1>14, <1>15, <1>16, <1>17, <1>18, <1>19, <1>20 DEF Next, run_node

\* Which scheduler runs the node does not change.
LEMMA ModeKept == [Next]_vars => UNCHANGED sim_instr_use
<1> SUFFICES ASSUME [Next]_vars PROVE UNCHANGED sim_instr_use
  OBVIOUS
<1> USE DEF simVars
<1>1. CASE Gather
  BY <1>1 DEF Gather
<1>2. CASE MarkTuple \/ MarkDone
  BY <1>2 DEF MarkTuple, MarkDone
<1>3. CASE PersistentTuple \/ PersistentLimit \/ PersistentDone
  BY <1>3 DEF PersistentTuple, PersistentLimit, PersistentDone
<1>4. CASE PopRule \/ LoopDone \/ Match \/ Fired \/ RuleDone
  BY <1>4 DEF PopRule, LoopDone, Match, Fired, RuleDone
<1>5. ASSUME NEW t \in Tuples, execute_remove(t) \/ execute_send_self(t)
      PROVE  UNCHANGED sim_instr_use
  BY <1>5 DEF execute_remove, execute_send_self
<1>6. ASSUME NEW t \in Tuples, ProcessConsumed(t) \/ KeepTuple(t)
      PROVE  UNCHANGED sim_instr_use
  BY <1>6 DEF ProcessConsumed, KeepTuple
<1>7. CASE ConsumedDone \/ FinishRun \/ LimitReached
  BY <1>7 DEF ConsumedDone, FinishRun, LimitReached
<1>8. ASSUME NEW t \in Tuples, NEW c \in {-1, 1}, Arrive(t, c)
      PROVE  UNCHANGED sim_instr_use
  BY <1>8 DEF Arrive
<1>9. CASE UNCHANGED vars
  BY <1>9 DEF vars
<1> QED BY <1>1, <1>2, <1>3, <1>4, <1>5, <1>6, <1>7, <1>8, <1>9 DEF Next, run_node

LEMMA StepMode == CoverInv /\ ModeInv /\ [Next]_vars => ModeInv'
BY StepFlags, ModeKept DEF ModeInv

\* A rule that run_node takes from its queue is active, whatever the rules that
\* ran before it consumed, and under the simulator too, whose runs are cut short
\* and leave flags behind.
THEOREM QueuedRulesAreActive ==
  Spec => [](pc = "loop" => rule_queue \subseteq active_rules)
<1>1. CoverInv => (pc = "loop" => rule_queue \subseteq active_rules)
  BY DEF CoverInv
<1> QED BY <1>1, InitCover, StepCover, PTL DEF Spec

\* In the loop of run_node every flagged rule is active: no rule runs that has lost
\* a predicate's last tuple.  Where runs are not cut short the flags and the rule
\* queue agree, so that no flag keeps a rule out of the queue that is not in it;
\* the flags that rule_queue.clear() leaves behind break that under the simulator.
THEOREM RuleQueueCurrent == Spec => []QueueIsCurrent
<1>1. CoverInv /\ ModeInv => QueueIsCurrent
  BY DEF CoverInv, ModeInv, FlagInv, QueueIsCurrent
<1>2. Init => CoverInv /\ ModeInv
  BY InitCover
<1>3. CoverInv /\ ModeInv /\ [Next]_vars => (CoverInv /\ ModeInv)'
  BY StepCover, StepMode
<1> QED BY <1>1, <1>2, <1>3, PTL DEF Spec
=============================================================================
