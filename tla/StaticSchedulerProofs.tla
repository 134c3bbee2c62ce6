------------------------ MODULE StaticSchedulerProofs ------------------------
(***************************************************************************)
(* Proofs about StaticScheduler, for every number of threads, every graph, *)
(* every assignment of nodes to threads and every number of tuples: first  *)
(* types, rounds and the counter; then where the nodes that have tuples    *)
(* are, and that no tuple is left behind when the threads return.          *)
(***************************************************************************)
EXTENDS StaticScheduler, FiniteSetTheorems, SequenceTheorems, TLAPS

Activating == {"set_active", "set_tstate", "set_count"}

\* The subroutines return to the place of the caller that may call them.
ControlInv(t) ==
  /\ pc[t] \in {"retrieve", "add"} => ret[t] \in {"check", "idle"}
  /\ pc[t] \in {"wake", "wake_lock"} => ret[t] \in {"run", "woke"}
  /\ pc[t] \in Activating => ret[t] \in {"run", "woke", "emit", "dec"}

\* Where a thread uses its current node or the tuple it moves, it has one.
DataInv(t) ==
  /\ pc[t] = "run" => current_node[t] # NULL
  /\ pc[t] \in {"wake", "wake_lock"} \cup Activating /\ ret[t] = "run" =>
       current_node[t] # NULL
  /\ pc[t] \in {"add", "push"} => inhand[t] # NULL

\* The conjuncts of TypeOK, grouped like the variables.
SyncTypes ==
  /\ tstate \in [Threads -> {"ACTIVE", "INACTIVE"}]
  /\ active_threads \in 0 .. N
  /\ done \in BOOLEAN
  /\ lock \in [Threads -> Threads \cup {NoThread}]

WorkTypes ==
  /\ buffer \in [Threads -> Seq(Nodes)]
  /\ queue_nodes \in [Threads -> Seq(Nodes)]
  /\ node_queue \in [Nodes -> Nat]
  /\ in_queue \in [Nodes -> BOOLEAN]
  /\ current_node \in [Threads -> Nodes \cup {NULL}]
  /\ budget \in 0 .. MaxTuples

RoundTypes ==
  /\ total_in_agg \in 0 .. N
  /\ round_state \in {0, 1, 2}
  /\ thread_round_state \in [Threads -> {1, 2}]
  /\ iteration \in [Threads -> Nat]

ControlTypes ==
  /\ pc \in [Threads -> Labels]
  /\ ret \in [Threads -> Returns]
  /\ tgt \in [Threads -> Threads]
  /\ inhand \in [Threads -> Nodes \cup {NULL}]
  /\ failed \in Labels \cup {"none"}

TypeInv ==
  /\ SyncTypes /\ WorkTypes /\ RoundTypes /\ ControlTypes
  /\ \A t \in Threads : ControlInv(t) /\ DataInv(t)

------------------------------------------------------------------------------
(* The rounds.                                                              *)

\* The leader has released this follower, which has not noticed yet.
Freed(t) ==
  t # 0 /\ pc[t] = "spin" /\ round_state # 0 /\ round_state # thread_round_state[t]

\* The thread has counted itself out of total_in_agg in this round.
Arrived(t) ==
  IF t = 0 THEN pc[t] \in {"spin", "reset", "end", "exit"}
  ELSE pc[t] \in {"spin", "end", "exit"} /\ ~Freed(t)

Missing == {t \in Threads : ~Arrived(t)}

\* The number of rounds that are over.
RoundsOver == iteration[0] - IF InRound(0) THEN 1 ELSE 0

LeaderInv ==
  /\ round_state = 0 <=> pc[0] \in {"end", "exit"}
  /\ pc[0] \in {"reset", "release", "end", "exit"} =>
       \A t \in Threads \ {0} : Arrived(t)
  /\ total_in_agg = IF pc[0] = "release" THEN N ELSE Cardinality(Missing)

FollowerInv(t) ==
  /\ pc[t] \notin {"reset", "release"}
  /\ pc[t] \in {"end", "exit"} => round_state = 0
  /\ round_state \notin {0, thread_round_state[t]} => pc[t] = "spin"
  /\ iteration[t] = RoundsOver + IF InRound(t) /\ ~Freed(t) THEN 1 ELSE 0

RoundInv == LeaderInv /\ \A t \in Threads \ {0} : FollowerInv(t)

------------------------------------------------------------------------------
(* The counter of active threads.                                           *)

Active == {t \in Threads : is_active(t)}
PCAt(label) == {t \in Threads : pc[t] = label}

\* A thread that has become inactive is counted until it has decremented the
\* counter, one that is being activated not before it has been incremented.
CountInv ==
  Cardinality(Active) + Cardinality(PCAt("idle_dec"))
    <= active_threads + Cardinality(PCAt("set_count"))
------------------------------------------------------------------------------
(* Type correctness.                                                        *)

LEMMA TypeParts == TypeInv => TypeOK
BY DEF TypeInv, TypeOK, SyncTypes, WorkTypes, RoundTypes, ControlTypes

LEMMA InitTypeInv == Init => TypeInv
BY SchedulerAssumption DEF Init, TypeInv, SyncTypes, WorkTypes, RoundTypes,
   ControlTypes, ControlInv, DataInv, Activating, Labels, Returns, Threads, NoThread

LEMMA HeadTail ==
  ASSUME NEW S, NEW s \in Seq(S), s # <<>> PROVE Head(s) \in S /\ Tail(s) \in Seq(S)
BY HeadTailProperties

LEMMA NextTypeInv == TypeInv /\ [Next]_vars => TypeInv'
<1> SUFFICES ASSUME TypeInv, [Next]_vars PROVE TypeInv'
  OBVIOUS
<1> USE SchedulerAssumption
    DEF TypeInv, At, Goto, Call, Unlock, syncVars, nodeVars, roundVars, workVars, ctlVars
<1>1. ASSUME NEW t \in Threads, InitNode(t) PROVE TypeInv'
  <2>1. SyncTypes' /\ RoundTypes'
    BY <1>1 DEF SyncTypes, RoundTypes, InitNode
  <2>2. WorkTypes'
    BY <1>1 DEF WorkTypes, ControlTypes, DataInv, AddWork, OwnNodes, InitNode
  <2>3. ControlTypes'
    BY <1>1 DEF ControlTypes, ControlInv, Activating, Labels, Returns,
       InitNode
  <2>4. \A u \in Threads : ControlInv(u)' /\ DataInv(u)'
    BY <1>1 DEF ControlTypes, WorkTypes, ControlInv, DataInv, Activating,
       InitNode
  <2> QED BY <2>1, <2>2, <2>3, <2>4
<1>2. ASSUME NEW t \in Threads, InitDone(t) PROVE TypeInv'
  <2>1. SyncTypes' /\ WorkTypes' /\ RoundTypes'
    BY <1>2 DEF SyncTypes, WorkTypes, RoundTypes, InitDone
  <2>2. ControlTypes'
    BY <1>2 DEF ControlTypes, ControlInv, Activating, Labels, Returns,
       InitDone
  <2>3. \A u \in Threads : ControlInv(u)' /\ DataInv(u)'
    BY <1>2 DEF ControlTypes, WorkTypes, ControlInv, DataInv, Activating,
       InitDone
  <2> QED BY <2>1, <2>2, <2>3
<1>3. ASSUME NEW t \in Threads, Synchronize(t) PROVE TypeInv'
  <2>1. SyncTypes' /\ WorkTypes' /\ RoundTypes'
    BY <1>3 DEF SyncTypes, WorkTypes, RoundTypes, Synchronize
  <2>2. ControlTypes'
    BY <1>3 DEF ControlTypes, ControlInv, Activating, Labels, Returns,
       Synchronize
  <2>3. \A u \in Threads : ControlInv(u)' /\ DataInv(u)'
    BY <1>3 DEF ControlTypes, WorkTypes, ControlInv, DataInv, Activating,
       Synchronize
  <2> QED BY <2>1, <2>2, <2>3
<1>4. ASSUME NEW t \in Threads, SetNextNode(t) PROVE TypeInv'
  <2>1. SyncTypes' /\ RoundTypes'
    BY <1>4 DEF SyncTypes, RoundTypes, SetNextNode
  <2>2. WorkTypes'
    BY <1>4 DEF WorkTypes, ControlTypes, DataInv, SetNextNode
  <2>3. ControlTypes'
    BY <1>4 DEF ControlTypes, ControlInv, Activating, Labels, Returns,
       SetNextNode
  <2>4. \A u \in Threads : ControlInv(u)'
    BY <1>4 DEF ControlTypes, ControlInv, Activating, SetNextNode
  <2>5. \A u \in Threads : DataInv(u)'
    BY <1>4, SMTT(30) DEF ControlTypes, WorkTypes, DataInv, Activating, SetNextNode
  <2> QED BY <2>1, <2>2, <2>3, <2>4, <2>5
<1>5. ASSUME NEW t \in Threads, RetrieveTake(t) PROVE TypeInv'
  <2>1. SyncTypes' /\ RoundTypes'
    BY <1>5 DEF SyncTypes, RoundTypes, RetrieveTake
  <2>2. CASE buffer[t] = <<>>
    <3>1. UNCHANGED <<buffer, nodeVars, budget, ret, tgt, inhand, failed>> /\ Goto(t, ret[t])
      BY <1>5, <2>2 DEF RetrieveTake
    <3>2. pc[t] = "retrieve"
      BY <1>5 DEF RetrieveTake
    <3>3. ret[t] \in {"check", "idle"}
      BY <3>2 DEF ControlInv
    <3>4. WorkTypes' /\ ControlTypes'
      BY <3>1, <3>3 DEF WorkTypes, ControlTypes, Labels
    <3>5. \A u \in Threads : ControlInv(u)' /\ DataInv(u)'
      BY <3>1, <3>3 DEF ControlTypes, ControlInv, DataInv, Activating
    <3> QED BY <2>1, <3>4, <3>5
  <2>3. CASE buffer[t] # <<>>
    <3> DEFINE tuple == Head(buffer[t])
               rest == Tail(buffer[t])
    <3>1. tuple \in Nodes /\ rest \in Seq(Nodes)
      BY <2>3, HeadTail DEF WorkTypes
    <3>2. /\ buffer' = [buffer EXCEPT ![t] = rest]
          /\ inhand' = [inhand EXCEPT ![t] = tuple]
          /\ Goto(t, "add")
          /\ UNCHANGED <<nodeVars, budget, ret, tgt, failed>>
      BY <1>5, <2>3 DEF RetrieveTake
    <3>3. pc[t] = "retrieve"
      BY <1>5 DEF RetrieveTake
    <3> HIDE DEF tuple, rest
    <3>4. WorkTypes' /\ ControlTypes'
      BY <3>1, <3>2 DEF WorkTypes, ControlTypes, Labels
    <3>5. \A u \in Threads : ControlInv(u)' /\ DataInv(u)'
      BY <3>1, <3>2, <3>3 DEF ControlTypes, ControlInv, DataInv, Activating
    <3> QED BY <2>1, <3>4, <3>5
  <2> QED BY <2>2, <2>3
<1>6. ASSUME NEW t \in Threads, RetrieveAdd(t) PROVE TypeInv'
  <2>1. SyncTypes' /\ RoundTypes'
    BY <1>6 DEF SyncTypes, RoundTypes, RetrieveAdd
  <2>2. WorkTypes'
    BY <1>6 DEF WorkTypes, ControlTypes, DataInv, AddWork, OwnNodes,
       RetrieveAdd
  <2>3. ControlTypes'
    BY <1>6 DEF ControlTypes, ControlInv, Activating, Labels, Returns,
       RetrieveAdd
  <2>4. \A u \in Threads : ControlInv(u)' /\ DataInv(u)'
    BY <1>6 DEF ControlTypes, WorkTypes, ControlInv, DataInv, Activating,
       RetrieveAdd
  <2> QED BY <2>1, <2>2, <2>3, <2>4
<1>7. ASSUME NEW t \in Threads, CheckWork(t) PROVE TypeInv'
  <2>1. SyncTypes' /\ WorkTypes' /\ RoundTypes'
    BY <1>7 DEF SyncTypes, WorkTypes, RoundTypes, CheckWork
  <2>2. ControlTypes'
    BY <1>7 DEF ControlTypes, ControlInv, Activating, Labels, Returns,
       CheckWork
  <2>3. \A u \in Threads : ControlInv(u)' /\ DataInv(u)'
    BY <1>7 DEF ControlTypes, WorkTypes, ControlInv, DataInv, Activating,
       CheckWork
  <2> QED BY <2>1, <2>2, <2>3
<1>8. ASSUME NEW t \in Threads, PopNode(t) PROVE TypeInv'
  <2>1. SyncTypes' /\ RoundTypes'
    BY <1>8 DEF SyncTypes, RoundTypes, PopNode
  <2>2. WorkTypes'
    <3>1. CASE queue_nodes[t] = <<>>
      BY <1>8, <3>1 DEF WorkTypes, PopNode
    <3>2. CASE queue_nodes[t] # <<>>
      <4> DEFINE node == Head(queue_nodes[t])
                 rest == Tail(queue_nodes[t])
      <4>1. node \in Nodes /\ rest \in Seq(Nodes)
        BY <3>2, HeadTail DEF WorkTypes
      <4>2. /\ queue_nodes' = [queue_nodes EXCEPT ![t] = rest]
            /\ in_queue' \in {in_queue, [in_queue EXCEPT ![node] = FALSE]}
            /\ current_node' \in {current_node, [current_node EXCEPT ![t] = node]}
            /\ UNCHANGED <<node_queue, buffer, budget>>
        BY <1>8, <3>2 DEF PopNode
      <4> HIDE DEF node, rest
      <4> QED BY <4>1, <4>2 DEF WorkTypes
    <3> QED BY <3>1, <3>2
  <2>3. ControlTypes'
    BY <1>8 DEF ControlTypes, ControlInv, Activating, Labels, Returns, PopNode
  <2>4. \A u \in Threads : ControlInv(u)' /\ DataInv(u)'
    BY <1>8, SMTT(30) DEF ControlTypes, WorkTypes, ControlInv, DataInv, Activating,
       PopNode
  <2> QED BY <2>1, <2>2, <2>3, <2>4
<1>9. ASSUME NEW t \in Threads, BusyWait(t) PROVE TypeInv'
  <2>1. SyncTypes' /\ WorkTypes' /\ RoundTypes'
    BY <1>9 DEF SyncTypes, WorkTypes, RoundTypes, BusyWait
  <2>2. ControlTypes'
    BY <1>9 DEF ControlTypes, ControlInv, Activating, Labels, Returns,
       BusyWait
  <2>3. \A u \in Threads : ControlInv(u)' /\ DataInv(u)'
    BY <1>9 DEF ControlTypes, WorkTypes, ControlInv, DataInv, Activating,
       BusyWait
  <2> QED BY <2>1, <2>2, <2>3
<1>10. ASSUME NEW t \in Threads, MakeInactiveTest(t) PROVE TypeInv'
  <2>1. SyncTypes' /\ WorkTypes' /\ RoundTypes'
    BY <1>10 DEF SyncTypes, WorkTypes, RoundTypes, MakeInactiveTest
  <2>2. ControlTypes'
    BY <1>10 DEF ControlTypes, ControlInv, Activating, Labels, Returns,
       MakeInactiveTest
  <2>3. \A u \in Threads : ControlInv(u)' /\ DataInv(u)'
    BY <1>10 DEF ControlTypes, WorkTypes, ControlInv, DataInv, Activating,
       MakeInactiveTest
  <2> QED BY <2>1, <2>2, <2>3
<1>11. ASSUME NEW t \in Threads, MakeInactiveLock(t) PROVE TypeInv'
  <2>1. WorkTypes' /\ RoundTypes'
    BY <1>11 DEF WorkTypes, RoundTypes, MakeInactiveLock
  <2>2. SyncTypes'
    BY <1>11 DEF SyncTypes, ControlTypes, MakeInactiveLock
  <2>3. ControlTypes'
    BY <1>11 DEF ControlTypes, ControlInv, Activating, Labels, Returns,
       MakeInactiveLock
  <2>4. \A u \in Threads : ControlInv(u)' /\ DataInv(u)'
    BY <1>11 DEF ControlTypes, WorkTypes, ControlInv, DataInv, Activating,
       MakeInactiveLock
  <2> QED BY <2>1, <2>2, <2>3, <2>4
<1>12. ASSUME NEW t \in Threads, MakeInactiveEnter(t) PROVE TypeInv'
  <2>1. WorkTypes' /\ RoundTypes'
    BY <1>12 DEF WorkTypes, RoundTypes, MakeInactiveEnter
  <2>2. SyncTypes'
    BY <1>12 DEF SyncTypes, ControlTypes, MakeInactiveEnter
  <2>3. ControlTypes'
    BY <1>12 DEF ControlTypes, ControlInv, Activating, Labels, Returns,
       MakeInactiveEnter
  <2>4. \A u \in Threads : ControlInv(u)' /\ DataInv(u)'
    BY <1>12 DEF ControlTypes, WorkTypes, ControlInv, DataInv, Activating,
       MakeInactiveEnter
  <2> QED BY <2>1, <2>2, <2>3, <2>4
<1>13. ASSUME NEW t \in Threads, MakeInactiveCount(t) PROVE TypeInv'
  <2>1. WorkTypes' /\ RoundTypes'
    BY <1>13 DEF WorkTypes, RoundTypes, MakeInactiveCount
  <2>2. SyncTypes'
    BY <1>13 DEF SyncTypes, ControlTypes, AssertHolds, MakeInactiveCount
  <2>3. ControlTypes'
    BY <1>13 DEF ControlTypes, ControlInv, Activating, Labels, Returns,
       MakeInactiveCount
  <2>4. \A u \in Threads : ControlInv(u)' /\ DataInv(u)'
    BY <1>13 DEF ControlTypes, WorkTypes, ControlInv, DataInv, Activating,
       MakeInactiveCount
  <2> QED BY <2>1, <2>2, <2>3, <2>4
<1>14. ASSUME NEW t \in Threads, MakeInactiveDone(t) PROVE TypeInv'
  <2>1. WorkTypes' /\ RoundTypes'
    BY <1>14 DEF WorkTypes, RoundTypes, MakeInactiveDone
  <2>2. SyncTypes'
    BY <1>14 DEF SyncTypes, ControlTypes, MakeInactiveDone
  <2>3. ControlTypes'
    BY <1>14 DEF ControlTypes, ControlInv, Activating, Labels, Returns,
       MakeInactiveDone
  <2>4. \A u \in Threads : ControlInv(u)' /\ DataInv(u)'
    BY <1>14 DEF ControlTypes, WorkTypes, ControlInv, DataInv, Activating,
       MakeInactiveDone
  <2> QED BY <2>1, <2>2, <2>3, <2>4
<1>15. ASSUME NEW t \in Threads, CheckTermination(t) PROVE TypeInv'
  <2>1. SyncTypes' /\ WorkTypes' /\ RoundTypes'
    BY <1>15 DEF SyncTypes, WorkTypes, RoundTypes, CheckTermination
  <2>2. ControlTypes'
    BY <1>15 DEF ControlTypes, ControlInv, Activating, Labels, Returns,
       CheckTermination
  <2>3. \A u \in Threads : ControlInv(u)' /\ DataInv(u)'
    BY <1>15 DEF ControlTypes, WorkTypes, ControlInv, DataInv, Activating,
       CheckTermination
  <2> QED BY <2>1, <2>2, <2>3
<1>16. ASSUME NEW t \in Threads, WaitFinished(t) PROVE TypeInv'
  <2>1. SyncTypes' /\ WorkTypes' /\ RoundTypes'
    BY <1>16 DEF SyncTypes, WorkTypes, RoundTypes, WaitFinished
  <2>2. ControlTypes'
    BY <1>16 DEF ControlTypes, ControlInv, Activating, Labels, Returns,
       WaitFinished
  <2>3. \A u \in Threads : ControlInv(u)' /\ DataInv(u)'
    BY <1>16 DEF ControlTypes, WorkTypes, ControlInv, DataInv, Activating,
       WaitFinished
  <2> QED BY <2>1, <2>2, <2>3
<1>17. ASSUME NEW t \in Threads, WaitWoke(t) PROVE TypeInv'
  <2>1. SyncTypes' /\ WorkTypes' /\ RoundTypes'
    BY <1>17 DEF SyncTypes, WorkTypes, RoundTypes, WaitWoke
  <2>2. ControlTypes'
    BY <1>17 DEF ControlTypes, ControlInv, Activating, Labels, Returns,
       WaitWoke
  <2>3. \A u \in Threads : ControlInv(u)' /\ DataInv(u)'
    BY <1>17 DEF ControlTypes, WorkTypes, ControlInv, DataInv, Activating,
       WaitWoke
  <2> QED BY <2>1, <2>2, <2>3
<1>18. ASSUME NEW t \in Threads, WakeTest(t) PROVE TypeInv'
  <2>1. SyncTypes' /\ WorkTypes' /\ RoundTypes'
    BY <1>18 DEF SyncTypes, WorkTypes, RoundTypes, WakeTest
  <2>2. ControlTypes'
    BY <1>18 DEF ControlTypes, ControlInv, Activating, Labels, Returns,
       WakeTest
  <2>3. \A u \in Threads : ControlInv(u)' /\ DataInv(u)'
    BY <1>18 DEF ControlTypes, WorkTypes, ControlInv, DataInv, Activating,
       WakeTest
  <2> QED BY <2>1, <2>2, <2>3
<1>19. ASSUME NEW t \in Threads, WakeLock(t) PROVE TypeInv'
  <2>1. WorkTypes' /\ RoundTypes'
    BY <1>19 DEF WorkTypes, RoundTypes, WakeLock
  <2>2. SyncTypes'
    BY <1>19 DEF SyncTypes, ControlTypes, WakeLock
  <2>3. ControlTypes'
    BY <1>19 DEF ControlTypes, ControlInv, Activating, Labels, Returns,
       WakeLock
  <2>4. \A u \in Threads : ControlInv(u)' /\ DataInv(u)'
    BY <1>19 DEF ControlTypes, WorkTypes, ControlInv, DataInv, Activating,
       WakeLock
  <2> QED BY <2>1, <2>2, <2>3, <2>4
<1>20. ASSUME NEW t \in Threads, SetActiveAssert(t) PROVE TypeInv'
  <2>1. SyncTypes' /\ WorkTypes' /\ RoundTypes'
    BY <1>20 DEF SyncTypes, WorkTypes, RoundTypes, SetActiveAssert
  <2>2. ControlTypes'
    BY <1>20 DEF ControlTypes, ControlInv, Activating, Labels, Returns,
       SetActiveAssert
  <2>3. \A u \in Threads : ControlInv(u)' /\ DataInv(u)'
    BY <1>20 DEF ControlTypes, WorkTypes, ControlInv, DataInv, Activating,
       SetActiveAssert
  <2> QED BY <2>1, <2>2, <2>3
<1>21. ASSUME NEW t \in Threads, SetActiveStore(t) PROVE TypeInv'
  <2>1. WorkTypes' /\ RoundTypes'
    BY <1>21 DEF WorkTypes, RoundTypes, SetActiveStore
  <2>2. SyncTypes'
    BY <1>21 DEF SyncTypes, ControlTypes, SetActiveStore
  <2>3. ControlTypes'
    BY <1>21 DEF ControlTypes, ControlInv, Activating, Labels, Returns,
       SetActiveStore
  <2>4. \A u \in Threads : ControlInv(u)' /\ DataInv(u)'
    BY <1>21 DEF ControlTypes, WorkTypes, ControlInv, DataInv, Activating,
       SetActiveStore
  <2> QED BY <2>1, <2>2, <2>3, <2>4
<1>22. ASSUME NEW t \in Threads, SetActiveCount(t) PROVE TypeInv'
  <2>1. WorkTypes' /\ RoundTypes'
    BY <1>22 DEF WorkTypes, RoundTypes, SetActiveCount
  <2>2. SyncTypes'
    BY <1>22 DEF SyncTypes, ControlTypes, AssertHolds, SetActiveCount
  <2>3. ControlTypes'
    BY <1>22 DEF ControlTypes, ControlInv, Activating, Labels, Returns,
       SetActiveCount
  <2>4. \A u \in Threads : ControlInv(u)' /\ DataInv(u)'
    BY <1>22 DEF ControlTypes, WorkTypes, ControlInv, DataInv, Activating,
       SetActiveCount
  <2> QED BY <2>1, <2>2, <2>3, <2>4
<1>23. ASSUME NEW t \in Threads, RunNode(t) PROVE TypeInv'
  <2>1. SyncTypes' /\ RoundTypes'
    BY <1>23 DEF SyncTypes, RoundTypes, RunNode
  <2>2. WorkTypes'
    BY <1>23 DEF WorkTypes, ControlTypes, DataInv, RunNode
  <2>3. ControlTypes'
    BY <1>23 DEF ControlTypes, ControlInv, Activating, Labels, Returns,
       RunNode
  <2>4. \A u \in Threads : ControlInv(u)' /\ DataInv(u)'
    BY <1>23 DEF ControlTypes, WorkTypes, ControlInv, DataInv, Activating,
       RunNode
  <2> QED BY <2>1, <2>2, <2>3, <2>4
<1>24. ASSUME NEW t \in Threads, NewWork(t) PROVE TypeInv'
  <2>1. SyncTypes' /\ RoundTypes'
    BY <1>24 DEF SyncTypes, RoundTypes, NewWork
  <2>2. WorkTypes'
    BY <1>24 DEF WorkTypes, ControlTypes, DataInv, AddWork, OwnNodes, NewWork
  <2>3. ControlTypes'
    BY <1>24 DEF ControlTypes, ControlInv, Activating, Labels, Returns,
       NewWork
  <2>4. \A u \in Threads : ControlInv(u)' /\ DataInv(u)'
    BY <1>24 DEF ControlTypes, WorkTypes, ControlInv, DataInv, Activating,
       NewWork
  <2> QED BY <2>1, <2>2, <2>3, <2>4
<1>25. ASSUME NEW t \in Threads, NewWorkOther(t) PROVE TypeInv'
  <2>1. SyncTypes' /\ RoundTypes'
    BY <1>25 DEF SyncTypes, RoundTypes, NewWorkOther
  <2>2. WorkTypes'
    BY <1>25 DEF WorkTypes, ControlTypes, DataInv, NewWorkOther
  <2>3. ControlTypes'
    BY <1>25 DEF ControlTypes, ControlInv, Activating, Labels, Returns,
       NewWorkOther
  <2>4. \A u \in Threads : ControlInv(u)' /\ DataInv(u)'
    BY <1>25 DEF ControlTypes, WorkTypes, ControlInv, DataInv, Activating,
       NewWorkOther
  <2> QED BY <2>1, <2>2, <2>3, <2>4
<1>26. ASSUME NEW t \in Threads, PushOther(t) PROVE TypeInv'
  <2>1. SyncTypes' /\ RoundTypes'
    BY <1>26 DEF SyncTypes, RoundTypes, PushOther
  <2>2. WorkTypes'
    BY <1>26 DEF WorkTypes, ControlTypes, DataInv, PushOther
  <2>3. ControlTypes'
    BY <1>26 DEF ControlTypes, ControlInv, Activating, Labels, Returns,
       PushOther
  <2>4. \A u \in Threads : ControlInv(u)' /\ DataInv(u)'
    BY <1>26 DEF ControlTypes, WorkTypes, ControlInv, DataInv, Activating,
       PushOther
  <2> QED BY <2>1, <2>2, <2>3, <2>4
<1>27. ASSUME NEW t \in Threads, OtherLock(t) PROVE TypeInv'
  <2>1. WorkTypes' /\ RoundTypes'
    BY <1>27 DEF WorkTypes, RoundTypes, OtherLock
  <2>2. SyncTypes'
    BY <1>27 DEF SyncTypes, ControlTypes, OtherLock
  <2>3. ControlTypes'
    BY <1>27 DEF ControlTypes, ControlInv, Activating, Labels, Returns,
       OtherLock
  <2>4. \A u \in Threads : ControlInv(u)' /\ DataInv(u)'
    BY <1>27 DEF ControlTypes, WorkTypes, ControlInv, DataInv, Activating,
       OtherLock
  <2> QED BY <2>1, <2>2, <2>3, <2>4
<1>28. ASSUME NEW t \in Threads, OtherTestQueue(t) PROVE TypeInv'
  <2>1. WorkTypes' /\ RoundTypes'
    BY <1>28 DEF WorkTypes, RoundTypes, OtherTestQueue
  <2>2. SyncTypes'
    BY <1>28 DEF SyncTypes, ControlTypes, OtherTestQueue
  <2>3. ControlTypes'
    BY <1>28 DEF ControlTypes, ControlInv, Activating, Labels, Returns,
       OtherTestQueue
  <2>4. \A u \in Threads : ControlInv(u)' /\ DataInv(u)'
    BY <1>28, SMTT(30) DEF ControlTypes, WorkTypes, ControlInv, DataInv, Activating,
       OtherTestQueue
  <2> QED BY <2>1, <2>2, <2>3, <2>4
<1>29. ASSUME NEW t \in Threads, OtherTestBuffer(t) PROVE TypeInv'
  <2>1. WorkTypes' /\ RoundTypes'
    BY <1>29 DEF WorkTypes, RoundTypes, OtherTestBuffer
  <2>2. SyncTypes'
    BY <1>29 DEF SyncTypes, ControlTypes, OtherTestBuffer
  <2>3. ControlTypes'
    BY <1>29 DEF ControlTypes, ControlInv, Activating, Labels, Returns,
       OtherTestBuffer
  <2>4. \A u \in Threads : ControlInv(u)' /\ DataInv(u)'
    BY <1>29, SMTT(30) DEF ControlTypes, WorkTypes, ControlInv, DataInv, Activating,
       OtherTestBuffer
  <2> QED BY <2>1, <2>2, <2>3, <2>4
<1>30. ASSUME NEW t \in Threads, FinishWork(t) PROVE TypeInv'
  <2>1. SyncTypes' /\ WorkTypes' /\ RoundTypes'
    BY <1>30 DEF SyncTypes, WorkTypes, RoundTypes, FinishWork
  <2>2. ControlTypes'
    BY <1>30 DEF ControlTypes, ControlInv, Activating, Labels, Returns,
       FinishWork
  <2>3. \A u \in Threads : ControlInv(u)' /\ DataInv(u)'
    BY <1>30 DEF ControlTypes, WorkTypes, ControlInv, DataInv, Activating,
       FinishWork
  <2> QED BY <2>1, <2>2, <2>3
<1>31. ASSUME NEW t \in Threads, EndIteration(t) PROVE TypeInv'
  <2>1. SyncTypes' /\ WorkTypes'
    BY <1>31 DEF SyncTypes, WorkTypes, EndIteration
  <2>2. RoundTypes'
    BY <1>31 DEF RoundTypes, GET_NEXT, EndIteration
  <2>3. ControlTypes'
    BY <1>31 DEF ControlTypes, ControlInv, Activating, Labels, Returns,
       EndIteration
  <2>4. \A u \in Threads : ControlInv(u)' /\ DataInv(u)'
    BY <1>31 DEF ControlTypes, WorkTypes, ControlInv, DataInv, Activating,
       EndIteration
  <2> QED BY <2>1, <2>2, <2>3, <2>4
<1>32. ASSUME NEW t \in Threads, StartRound(t) PROVE TypeInv'
  <2>1. SyncTypes' /\ WorkTypes' /\ RoundTypes'
    BY <1>32 DEF SyncTypes, WorkTypes, RoundTypes, StartRound
  <2>2. ControlTypes'
    BY <1>32 DEF ControlTypes, ControlInv, Activating, Labels, Returns,
       StartRound
  <2>3. \A u \in Threads : ControlInv(u)' /\ DataInv(u)'
    BY <1>32 DEF ControlTypes, WorkTypes, ControlInv, DataInv, Activating,
       StartRound
  <2> QED BY <2>1, <2>2, <2>3
<1>33. ASSUME NEW t \in Threads, GenerateAgg(t) PROVE TypeInv'
  <2>1. SyncTypes' /\ RoundTypes'
    BY <1>33 DEF SyncTypes, RoundTypes, GenerateAgg
  <2>2. WorkTypes'
    BY <1>33 DEF WorkTypes, ControlTypes, DataInv, AddWork, OwnNodes,
       GenerateAgg
  <2>3. ControlTypes'
    BY <1>33 DEF ControlTypes, ControlInv, Activating, Labels, Returns,
       GenerateAgg
  <2>4. \A u \in Threads : ControlInv(u)' /\ DataInv(u)'
    BY <1>33 DEF ControlTypes, WorkTypes, ControlInv, DataInv, Activating,
       GenerateAgg
  <2> QED BY <2>1, <2>2, <2>3, <2>4
<1>34. ASSUME NEW t \in Threads, RoundHasWork(t) PROVE TypeInv'
  <2>1. SyncTypes' /\ WorkTypes' /\ RoundTypes'
    BY <1>34 DEF SyncTypes, WorkTypes, RoundTypes, RoundHasWork
  <2>2. ControlTypes'
    BY <1>34 DEF ControlTypes, ControlInv, Activating, Labels, Returns,
       RoundHasWork
  <2>3. \A u \in Threads : ControlInv(u)' /\ DataInv(u)'
    BY <1>34 DEF ControlTypes, WorkTypes, ControlInv, DataInv, Activating,
       RoundHasWork
  <2> QED BY <2>1, <2>2, <2>3
<1>35. ASSUME NEW t \in Threads, EndRoundDec(t) PROVE TypeInv'
  <2>1. SyncTypes' /\ WorkTypes'
    BY <1>35 DEF SyncTypes, WorkTypes, EndRoundDec
  <2>2. RoundTypes'
    BY <1>35 DEF RoundTypes, GET_NEXT, AssertHolds, EndRoundDec
  <2>3. ControlTypes'
    BY <1>35 DEF ControlTypes, ControlInv, Activating, Labels, Returns,
       EndRoundDec
  <2>4. \A u \in Threads : ControlInv(u)' /\ DataInv(u)'
    BY <1>35 DEF ControlTypes, WorkTypes, ControlInv, DataInv, Activating,
       EndRoundDec
  <2> QED BY <2>1, <2>2, <2>3, <2>4
<1>36. ASSUME NEW t \in Threads, LeaderDecides(t) PROVE TypeInv'
  <2>1. SyncTypes' /\ WorkTypes'
    BY <1>36 DEF SyncTypes, WorkTypes, LeaderDecides
  <2>2. RoundTypes'
    BY <1>36 DEF RoundTypes, GET_NEXT, LeaderDecides
  <2>3. ControlTypes'
    BY <1>36 DEF ControlTypes, ControlInv, Activating, Labels, Returns,
       LeaderDecides
  <2>4. \A u \in Threads : ControlInv(u)' /\ DataInv(u)'
    BY <1>36 DEF ControlTypes, WorkTypes, ControlInv, DataInv, Activating,
       LeaderDecides
  <2> QED BY <2>1, <2>2, <2>3, <2>4
<1>37. ASSUME NEW t \in Threads, LeaderResets(t) PROVE TypeInv'
  <2>1. WorkTypes'
    BY <1>37 DEF WorkTypes, LeaderResets
  <2>2. SyncTypes'
    BY <1>37 DEF SyncTypes, ControlTypes, LeaderResets
  <2>3. RoundTypes'
    BY <1>37 DEF RoundTypes, GET_NEXT, LeaderResets
  <2>4. ControlTypes'
    BY <1>37 DEF ControlTypes, ControlInv, Activating, Labels, Returns,
       LeaderResets
  <2>5. \A u \in Threads : ControlInv(u)' /\ DataInv(u)'
    BY <1>37 DEF ControlTypes, WorkTypes, ControlInv, DataInv, Activating,
       LeaderResets
  <2> QED BY <2>1, <2>2, <2>3, <2>4, <2>5
<1>38. ASSUME NEW t \in Threads, LeaderReleases(t) PROVE TypeInv'
  <2>1. SyncTypes' /\ WorkTypes'
    BY <1>38 DEF SyncTypes, WorkTypes, LeaderReleases
  <2>2. RoundTypes'
    BY <1>38 DEF RoundTypes, GET_NEXT, LeaderReleases
  <2>3. ControlTypes'
    BY <1>38 DEF ControlTypes, ControlInv, Activating, Labels, Returns,
       LeaderReleases
  <2>4. \A u \in Threads : ControlInv(u)' /\ DataInv(u)'
    BY <1>38 DEF ControlTypes, WorkTypes, ControlInv, DataInv, Activating,
       LeaderReleases
  <2> QED BY <2>1, <2>2, <2>3, <2>4
<1>39. ASSUME NEW t \in Threads, FollowerReleased(t) PROVE TypeInv'
  <2>1. SyncTypes' /\ WorkTypes'
    BY <1>39 DEF SyncTypes, WorkTypes, FollowerReleased
  <2>2. RoundTypes'
    BY <1>39 DEF RoundTypes, GET_NEXT, FollowerReleased
  <2>3. ControlTypes'
    BY <1>39 DEF ControlTypes, ControlInv, Activating, Labels, Returns,
       FollowerReleased
  <2>4. \A u \in Threads : ControlInv(u)' /\ DataInv(u)'
    BY <1>39 DEF ControlTypes, WorkTypes, ControlInv, DataInv, Activating,
       FollowerReleased
  <2> QED BY <2>1, <2>2, <2>3, <2>4
<1>40. ASSUME NEW t \in Threads, End(t) PROVE TypeInv'
  <2>1. SyncTypes' /\ WorkTypes' /\ RoundTypes'
    BY <1>40 DEF SyncTypes, WorkTypes, RoundTypes, End
  <2>2. ControlTypes'
    BY <1>40 DEF ControlTypes, ControlInv, Activating, Labels, Returns, End
  <2>3. \A u \in Threads : ControlInv(u)' /\ DataInv(u)'
    BY <1>40 DEF ControlTypes, WorkTypes, ControlInv, DataInv, Activating, End
  <2> QED BY <2>1, <2>2, <2>3
<1>41. ASSUME NEW t \in Threads, Abort(t) PROVE TypeInv'
  <2>1. SyncTypes' /\ WorkTypes' /\ RoundTypes'
    BY <1>41 DEF SyncTypes, WorkTypes, RoundTypes, Abort
  <2>2. ControlTypes'
    BY <1>41 DEF ControlTypes, ControlInv, Activating, Labels, Returns, Abort
  <2>3. \A u \in Threads : ControlInv(u)' /\ DataInv(u)'
    BY <1>41 DEF ControlTypes, WorkTypes, ControlInv, DataInv, Activating,
       Abort
  <2> QED BY <2>1, <2>2, <2>3
<1>42. CASE UNCHANGED vars
  BY <1>42 DEF vars, SyncTypes, WorkTypes, RoundTypes, ControlTypes, ControlInv, DataInv
<1> QED
  BY <1>1, <1>2, <1>3, <1>4, <1>5, <1>6, <1>7, <1>8, <1>9, <1>10, <1>11,
     <1>12, <1>13, <1>14, <1>15, <1>16, <1>17, <1>18, <1>19, <1>20, <1>21,
     <1>22, <1>23, <1>24, <1>25, <1>26, <1>27, <1>28, <1>29, <1>30, <1>31,
     <1>32, <1>33, <1>34, <1>35, <1>36, <1>37, <1>38, <1>39, <1>40, <1>41,
     <1>42
     DEF Next, Thread, Step, Terminated

LEMMA InvariantTypeInv == Spec => []TypeInv
BY InitTypeInv, NextTypeInv, PTL DEF Spec

(***************************************************************************)
(* Every variable keeps its type.  In particular the counters of active    *)
(* threads and of threads in the round stay in 0 .. N, the node that is    *)
(* run and the tuple that is moved exist where the code uses them, and     *)
(* every subroutine returns into the code that called it.                  *)
(***************************************************************************)
THEOREM TypeCorrect == Spec => []TypeOK
BY InvariantTypeInv, TypeParts, PTL

------------------------------------------------------------------------------
(* END_ROUND is a barrier.                                                  *)

RoundLabels == {"spin", "reset", "release", "end", "exit"}

LEMMA Zero == 0 \in Threads /\ IsFiniteSet(Threads) /\ Cardinality(Threads) = N
<1>1. 0 \in Threads
  BY SchedulerAssumption DEF Threads
<1>2. IsFiniteSet(Threads) /\ Cardinality(Threads) = N
  BY SchedulerAssumption, FS_Interval DEF Threads
<1> QED BY <1>1, <1>2

LEMMA MissingFinite == IsFiniteSet(Missing) /\ Cardinality(Missing) \in Nat
BY Zero, FS_Subset, FS_CardinalityType DEF Missing

LEMMA InitRoundInv == Init => RoundInv
<1> SUFFICES ASSUME Init PROVE RoundInv
  OBVIOUS
<1>1. \A t \in Threads : ~Freed(t) /\ ~Arrived(t) /\ ~InRound(t)
  BY DEF Init, Freed, Arrived, InRound
<1>2. Missing = Threads
  BY <1>1 DEF Missing
<1>3. RoundsOver = 0
  BY <1>1, Zero DEF Init, RoundsOver
<1>4. LeaderInv
  BY <1>2, Zero DEF Init, LeaderInv
<1>5. \A t \in Threads \ {0} : FollowerInv(t)
  BY <1>1, <1>3 DEF Init, FollowerInv
<1> QED BY <1>4, <1>5 DEF RoundInv

\* A step of a thread that is not in END_ROUND, and does not enter it.
LEMMA QuietRound ==
  ASSUME TypeInv, TypeInv', RoundInv, UNCHANGED roundVars, NEW t \in Threads,
         \A u \in Threads \ {t} : pc'[u] = pc[u] /\ ret'[u] = ret[u],
         pc[t] \notin RoundLabels, pc'[t] \notin RoundLabels,
         InRound(t)' = InRound(t)
  PROVE  RoundInv'
<1>1. \A u \in Threads : InRound(u)' = InRound(u)
  BY DEF InRound
<1>2. \A u \in Threads : Freed(u)' = Freed(u)
  BY DEF Freed, RoundLabels, roundVars
<1>3. \A u \in Threads : Arrived(u)' = Arrived(u)
  BY <1>2 DEF Arrived, RoundLabels
<1>4. Missing' = Missing
  BY <1>3 DEF Missing
<1>5. RoundsOver' = RoundsOver
  BY <1>1, Zero DEF RoundsOver, roundVars
<1>6. LeaderInv'
  BY <1>3, <1>4, Zero DEF RoundInv, LeaderInv, RoundLabels, roundVars
<1>7. \A u \in Threads \ {0} : FollowerInv(u)'
  BY <1>1, <1>2, <1>5 DEF RoundInv, FollowerInv, RoundLabels, roundVars
<1> QED BY <1>6, <1>7 DEF RoundInv

\* The steps of the threads before and in generate_aggs, by sections of the code.
Outside(t) ==
  \/ InitNode(t) \/ InitDone(t) \/ Synchronize(t)
  \/ SetNextNode(t) \/ RetrieveTake(t) \/ RetrieveAdd(t) \/ CheckWork(t) \/
     PopNode(t)
  \/ BusyWait(t) \/ MakeInactiveTest(t) \/ MakeInactiveLock(t) \/
     MakeInactiveEnter(t) \/ MakeInactiveCount(t) \/ MakeInactiveDone(t) \/
     CheckTermination(t) \/ WaitFinished(t) \/ WaitWoke(t)
  \/ WakeTest(t) \/ WakeLock(t)
  \/ SetActiveAssert(t) \/ SetActiveStore(t) \/ SetActiveCount(t)
  \/ RunNode(t) \/ NewWork(t) \/ NewWorkOther(t) \/ PushOther(t) \/
     OtherLock(t) \/ OtherTestQueue(t) \/ OtherTestBuffer(t) \/ FinishWork(t)
  \/ StartRound(t) \/ GenerateAgg(t) \/ RoundHasWork(t)

LEMMA OutsideRound ==
  ASSUME TypeInv, NEW t \in Threads, Outside(t)
  PROVE  /\ UNCHANGED roundVars
         /\ \A u \in Threads \ {t} : pc'[u] = pc[u] /\ ret'[u] = ret[u]
         /\ pc[t] \notin RoundLabels /\ pc'[t] \notin RoundLabels
         /\ InRound(t)' = InRound(t)
<1> DEFINE Goal == /\ UNCHANGED roundVars
                   /\ \A u \in Threads \ {t} : pc'[u] = pc[u] /\ ret'[u] = ret[u]
                   /\ pc[t] \notin RoundLabels /\ pc'[t] \notin RoundLabels
                   /\ InRound(t)' = InRound(t)
<1>0. ControlTypes /\ ControlInv(t)
  BY DEF TypeInv
<1> USE DEF At, Goto, Call, ctlVars, RoundLabels, InRound, ControlTypes, ControlInv, Activating
<1>1. ASSUME InitNode(t) PROVE Goal
  BY <1>0, <1>1 DEF InitNode
<1>2. ASSUME InitDone(t) PROVE Goal
  BY <1>0, <1>2 DEF InitDone
<1>3. ASSUME Synchronize(t) PROVE Goal
  BY <1>0, <1>3 DEF Synchronize
<1>4. ASSUME SetNextNode(t) PROVE Goal
  BY <1>0, <1>4 DEF SetNextNode
<1>5. ASSUME RetrieveTake(t) PROVE Goal
  BY <1>0, <1>5 DEF RetrieveTake
<1>6. ASSUME RetrieveAdd(t) PROVE Goal
  BY <1>0, <1>6 DEF RetrieveAdd
<1>7. ASSUME CheckWork(t) PROVE Goal
  BY <1>0, <1>7 DEF CheckWork
<1>8. ASSUME PopNode(t) PROVE Goal
  BY <1>0, <1>8 DEF PopNode
<1>9. ASSUME BusyWait(t) PROVE Goal
  BY <1>0, <1>9 DEF BusyWait
<1>10. ASSUME MakeInactiveTest(t) PROVE Goal
  BY <1>0, <1>10 DEF MakeInactiveTest
<1>11. ASSUME MakeInactiveLock(t) PROVE Goal
  BY <1>0, <1>11 DEF MakeInactiveLock
<1>12. ASSUME MakeInactiveEnter(t) PROVE Goal
  BY <1>0, <1>12 DEF MakeInactiveEnter
<1>13. ASSUME MakeInactiveCount(t) PROVE Goal
  BY <1>0, <1>13 DEF MakeInactiveCount
<1>14. ASSUME MakeInactiveDone(t) PROVE Goal
  BY <1>0, <1>14 DEF MakeInactiveDone
<1>15. ASSUME CheckTermination(t) PROVE Goal
  BY <1>0, <1>15 DEF CheckTermination
<1>16. ASSUME WaitFinished(t) PROVE Goal
  BY <1>0, <1>16 DEF WaitFinished
<1>17. ASSUME WaitWoke(t) PROVE Goal
  BY <1>0, <1>17 DEF WaitWoke
<1>18. ASSUME WakeTest(t) PROVE Goal
  BY <1>0, <1>18 DEF WakeTest
<1>19. ASSUME WakeLock(t) PROVE Goal
  BY <1>0, <1>19 DEF WakeLock
<1>20. ASSUME SetActiveAssert(t) PROVE Goal
  BY <1>0, <1>20 DEF SetActiveAssert
<1>21. ASSUME SetActiveStore(t) PROVE Goal
  BY <1>0, <1>21 DEF SetActiveStore
<1>22. ASSUME SetActiveCount(t) PROVE Goal
  BY <1>0, <1>22 DEF SetActiveCount
<1>23. ASSUME RunNode(t) PROVE Goal
  BY <1>0, <1>23 DEF RunNode
<1>24. ASSUME NewWork(t) PROVE Goal
  BY <1>0, <1>24 DEF NewWork
<1>25. ASSUME NewWorkOther(t) PROVE Goal
  BY <1>0, <1>25 DEF NewWorkOther
<1>26. ASSUME PushOther(t) PROVE Goal
  BY <1>0, <1>26 DEF PushOther
<1>27. ASSUME OtherLock(t) PROVE Goal
  BY <1>0, <1>27 DEF OtherLock
<1>28. ASSUME OtherTestQueue(t) PROVE Goal
  BY <1>0, <1>28 DEF OtherTestQueue
<1>29. ASSUME OtherTestBuffer(t) PROVE Goal
  BY <1>0, <1>29 DEF OtherTestBuffer
<1>30. ASSUME FinishWork(t) PROVE Goal
  BY <1>0, <1>30 DEF FinishWork
<1>31. ASSUME StartRound(t) PROVE Goal
  BY <1>0, <1>31 DEF StartRound
<1>32. ASSUME GenerateAgg(t) PROVE Goal
  BY <1>0, <1>32 DEF GenerateAgg
<1>33. ASSUME RoundHasWork(t) PROVE Goal
  BY <1>0, <1>33 DEF RoundHasWork
<1> QED
  BY <1>1, <1>2, <1>3, <1>4, <1>5, <1>6, <1>7, <1>8, <1>9, <1>10, <1>11, <1>12,
     <1>13, <1>14, <1>15, <1>16, <1>17, <1>18, <1>19, <1>20, <1>21, <1>22,
     <1>23, <1>24, <1>25, <1>26, <1>27, <1>28, <1>29, <1>30, <1>31, <1>32, <1>33 DEF Outside

LEMMA EndIterationRound ==
  ASSUME TypeInv, RoundInv, NEW t \in Threads, EndIteration(t) PROVE RoundInv'
<1>1. /\ pc[t] = "end_iteration" /\ pc' = [pc EXCEPT ![t] = "round"] /\ ret' = ret
      /\ iteration' = [iteration EXCEPT ![t] = @ + 1]
      /\ UNCHANGED <<total_in_agg, round_state, thread_round_state>>
  BY DEF EndIteration, At, Goto
<1>2. RoundTypes /\ ControlTypes
  BY DEF TypeInv
<1>3. \A u \in Threads : Freed(u)' = Freed(u)
  BY <1>1, <1>2 DEF Freed, ControlTypes
<1>4. \A u \in Threads : Arrived(u)' = Arrived(u)
  BY <1>1, <1>2, <1>3 DEF Arrived, ControlTypes
<1>5. ~InRound(t) /\ InRound(t)' /\ \A u \in Threads \ {t} : InRound(u)' = InRound(u)
  BY <1>1, <1>2 DEF InRound, ControlTypes
<1>6. Missing' = Missing
  BY <1>4 DEF Missing
<1>7. RoundsOver' = RoundsOver
  BY <1>1, <1>2, <1>5, Zero DEF RoundsOver, RoundTypes
<1>8. LeaderInv'
  BY <1>1, <1>2, <1>4, <1>6, Zero DEF RoundInv, LeaderInv, ControlTypes
<1>9. ~Freed(t)
  BY <1>1 DEF Freed
<1>10. RoundsOver \in Int
  BY <1>2, Zero DEF RoundsOver, RoundTypes
<1>11. \A u \in Threads \ {0} : FollowerInv(u)'
  BY <1>1, <1>2, <1>3, <1>5, <1>7, <1>9, <1>10 DEF RoundInv, FollowerInv, ControlTypes, RoundTypes
<1> QED BY <1>8, <1>11 DEF RoundInv

LEMMA EndRoundDecRound ==
  ASSUME TypeInv, RoundInv, NEW t \in Threads, EndRoundDec(t) PROVE RoundInv'
<1>1. /\ pc[t] = "dec" /\ pc' = [pc EXCEPT ![t] = "spin"] /\ ret' = ret
      /\ total_in_agg' = total_in_agg - 1
      /\ UNCHANGED <<round_state, thread_round_state, iteration>>
  BY DEF EndRoundDec, At, Goto
<1>2. RoundTypes /\ ControlTypes
  BY DEF TypeInv
<1>3. ~Freed(t) /\ ~Arrived(t)
  BY <1>1 DEF Freed, Arrived
<1>4. pc[0] \notin {"reset", "release", "end", "exit"}
  BY <1>1, <1>3 DEF RoundInv, LeaderInv
<1>5. round_state # 0
  BY <1>4 DEF RoundInv, LeaderInv
<1>6. t # 0 => thread_round_state[t] = round_state
  BY <1>1, <1>5 DEF RoundInv, FollowerInv
<1>7. \A u \in Threads : Freed(u)' = Freed(u)
  BY <1>1, <1>2, <1>3, <1>6 DEF Freed, ControlTypes
<1>8. Arrived(t)' /\ \A u \in Threads \ {t} : Arrived(u)' = Arrived(u)
  BY <1>1, <1>2, <1>3, <1>7 DEF Arrived, ControlTypes
<1>9. \A u \in Threads : InRound(u)' = InRound(u)
  BY <1>1, <1>2 DEF InRound, ControlTypes
<1>10. Missing' = Missing \ {t} /\ t \in Missing
  BY <1>3, <1>8 DEF Missing
<1>11. Cardinality(Missing') = Cardinality(Missing) - 1
  BY <1>10, MissingFinite, FS_RemoveElement
<1>12. RoundsOver' = RoundsOver
  BY <1>1, <1>9, Zero DEF RoundsOver
<1>13. LeaderInv'
  BY <1>1, <1>2, <1>4, <1>5, <1>11, Zero DEF RoundInv, LeaderInv, ControlTypes
<1>14. \A u \in Threads \ {0} : FollowerInv(u)'
  BY <1>1, <1>2, <1>6, <1>7, <1>9, <1>12 DEF RoundInv, FollowerInv, ControlTypes
<1> QED BY <1>13, <1>14 DEF RoundInv

LEMMA LeaderDecidesRound ==
  ASSUME TypeInv, RoundInv, NEW t \in Threads, LeaderDecides(t) PROVE RoundInv'
<1>1. /\ t = 0 /\ pc[0] = "spin" /\ total_in_agg = 0 /\ ret' = ret
      /\ UNCHANGED <<total_in_agg, thread_round_state, iteration>>
      /\ \/ pc' = [pc EXCEPT ![0] = "reset"] /\ round_state' = round_state
         \/ pc' = [pc EXCEPT ![0] = "end"] /\ round_state' = 0
  BY DEF LeaderDecides, At, Goto
<1>2. RoundTypes /\ ControlTypes
  BY DEF TypeInv
<1>3. Missing = {}
  BY <1>1, MissingFinite, FS_EmptySet DEF RoundInv, LeaderInv
<1>4. round_state # 0 /\ \A u \in Threads : Arrived(u)
  BY <1>1, <1>3 DEF Missing, RoundInv, LeaderInv
<1>5. \A u \in Threads \ {0} : pc[u] = "spin" /\ ~Freed(u)
  BY <1>4 DEF Arrived, RoundInv, FollowerInv
<1>6. \A u \in Threads : ~Freed(u)' /\ Arrived(u)' /\ InRound(u)' = InRound(u)
  BY <1>1, <1>2, <1>5, Zero DEF Freed, Arrived, InRound, ControlTypes
<1>7. Missing' = {}
  BY <1>6 DEF Missing
<1>8. RoundsOver' = RoundsOver
  BY <1>1, <1>6, Zero DEF RoundsOver
<1>9. LeaderInv'
  BY <1>1, <1>2, <1>3, <1>4, <1>6, <1>7, Zero DEF RoundInv, LeaderInv, ControlTypes
<1>10. \A u \in Threads \ {0} : FollowerInv(u)'
  BY <1>1, <1>2, <1>5, <1>6, <1>8 DEF RoundInv, FollowerInv, ControlTypes
<1> QED BY <1>9, <1>10 DEF RoundInv

LEMMA LeaderResetsRound ==
  ASSUME TypeInv, RoundInv, NEW t \in Threads, LeaderResets(t) PROVE RoundInv'
<1>1. /\ pc[t] = "reset" /\ pc' = [pc EXCEPT ![t] = "release"] /\ ret' = ret
      /\ total_in_agg' = N
      /\ UNCHANGED <<round_state, thread_round_state, iteration>>
  BY DEF LeaderResets, At, Goto
<1>2. RoundTypes /\ ControlTypes /\ t = 0
  BY <1>1 DEF TypeInv, RoundInv, FollowerInv
<1>3. \A u \in Threads : Freed(u)' = Freed(u) /\ InRound(u)' = InRound(u)
  BY <1>1, <1>2 DEF Freed, InRound, ControlTypes
<1>4. \A u \in Threads \ {0} : Arrived(u)' = Arrived(u)
  BY <1>1, <1>2, <1>3 DEF Arrived, ControlTypes
<1>5. RoundsOver' = RoundsOver
  BY <1>1, <1>3, Zero DEF RoundsOver
<1>6. LeaderInv'
  BY <1>1, <1>2, <1>4, Zero DEF RoundInv, LeaderInv, ControlTypes
<1>7. \A u \in Threads \ {0} : FollowerInv(u)'
  BY <1>1, <1>2, <1>3, <1>5 DEF RoundInv, FollowerInv, ControlTypes
<1> QED BY <1>6, <1>7 DEF RoundInv

LEMMA LeaderReleasesRound ==
  ASSUME TypeInv, RoundInv, NEW t \in Threads, LeaderReleases(t) PROVE RoundInv'
<1>1. /\ pc[t] = "release" /\ pc' = [pc EXCEPT ![t] = "next"] /\ ret' = ret
      /\ round_state' = GET_NEXT(round_state)
      /\ UNCHANGED <<total_in_agg, thread_round_state, iteration>>
  BY DEF LeaderReleases, At, Goto
<1>2. RoundTypes /\ ControlTypes /\ t = 0
  BY <1>1 DEF TypeInv, RoundInv, FollowerInv
<1>3. round_state \in {1, 2} /\ round_state' \in {1, 2} /\ round_state' # round_state
  BY <1>1, <1>2 DEF RoundInv, LeaderInv, RoundTypes, GET_NEXT
<1>4. \A u \in Threads \ {0} : /\ pc[u] = "spin" /\ ~Freed(u)
                              /\ thread_round_state[u] = round_state
  BY <1>1, <1>2, <1>3 DEF RoundInv, LeaderInv, FollowerInv, Arrived, Freed
<1>5. \A u \in Threads \ {0} : Freed(u)' /\ InRound(u)' /\ InRound(u)
  BY <1>1, <1>2, <1>3, <1>4 DEF Freed, InRound, ControlTypes
<1>6. InRound(0) /\ ~InRound(0)' /\ ~Arrived(0)'
  BY <1>1, <1>2 DEF InRound, Arrived, ControlTypes
<1>7. Missing' = Threads
  BY <1>5, <1>6 DEF Missing, Arrived
<1>8. RoundsOver' = RoundsOver + 1 /\ RoundsOver \in Int
  BY <1>1, <1>2, <1>6, Zero DEF RoundsOver, RoundTypes
<1>9. LeaderInv'
  BY <1>1, <1>2, <1>3, <1>7, Zero DEF RoundInv, LeaderInv, ControlTypes
<1>10. \A u \in Threads \ {0} : FollowerInv(u)'
  BY <1>1, <1>2, <1>3, <1>4, <1>5, <1>8 DEF RoundInv, FollowerInv, ControlTypes
<1> QED BY <1>9, <1>10 DEF RoundInv

LEMMA FollowerReleasedRound ==
  ASSUME TypeInv, RoundInv, NEW t \in Threads, FollowerReleased(t) PROVE RoundInv'
<1>1. /\ t # 0 /\ pc[t] = "spin" /\ ret' = ret /\ round_state # thread_round_state[t]
      /\ UNCHANGED <<total_in_agg, round_state, iteration>>
  BY DEF FollowerReleased, At
<1>2. RoundTypes /\ ControlTypes
  BY DEF TypeInv
<1>3. CASE round_state = 0
  <2>1. pc' = [pc EXCEPT ![t] = "end"] /\ thread_round_state' = thread_round_state
    BY <1>3 DEF FollowerReleased, GET_NEXT, Goto
  <2>2. \A u \in Threads : ~Freed(u) /\ ~Freed(u)' /\ InRound(u)' = InRound(u)
    BY <1>1, <1>2, <1>3, <2>1 DEF Freed, InRound, ControlTypes
  <2>3. \A u \in Threads : Arrived(u)' = Arrived(u)
    BY <1>1, <1>2, <2>1, <2>2 DEF Arrived, ControlTypes
  <2>4. Missing' = Missing
    BY <2>3 DEF Missing
  <2>5. RoundsOver' = RoundsOver
    BY <1>1, <2>2, Zero DEF RoundsOver
  <2>6. LeaderInv'
    BY <1>1, <1>2, <2>1, <2>3, <2>4, Zero DEF RoundInv, LeaderInv, ControlTypes
  <2>7. \A u \in Threads \ {0} : FollowerInv(u)'
    BY <1>1, <1>2, <1>3, <2>1, <2>2, <2>5 DEF RoundInv, FollowerInv, ControlTypes
  <2> QED BY <2>6, <2>7 DEF RoundInv
<1>4. CASE round_state # 0
  <2>1. /\ pc' = [pc EXCEPT ![t] = "next"]
        /\ thread_round_state' = [thread_round_state EXCEPT ![t] = round_state]
    BY <1>1, <1>2, <1>4 DEF FollowerReleased, GET_NEXT, Goto, RoundTypes
  <2>2. Freed(t) /\ ~Freed(t)' /\ InRound(t) /\ ~InRound(t)'
    BY <1>1, <1>2, <1>4, <2>1 DEF Freed, InRound, ControlTypes
  <2>3. \A u \in Threads \ {t} : Freed(u)' = Freed(u) /\ InRound(u)' = InRound(u)
    BY <1>1, <1>2, <2>1 DEF Freed, InRound, ControlTypes, RoundTypes
  <2>4. \A u \in Threads : Arrived(u)' = Arrived(u)
    BY <1>1, <1>2, <2>1, <2>2, <2>3 DEF Arrived, ControlTypes
  <2>5. Missing' = Missing
    BY <2>4 DEF Missing
  <2>6. RoundsOver' = RoundsOver
    BY <1>1, <2>3, Zero DEF RoundsOver
  <2>7. LeaderInv'
    BY <1>1, <1>2, <2>1, <2>4, <2>5, Zero DEF RoundInv, LeaderInv, ControlTypes
  <2>8. \A u \in Threads \ {0} : FollowerInv(u)'
    BY <1>1, <1>2, <2>1, <2>2, <2>3, <2>6 DEF RoundInv, FollowerInv, ControlTypes, RoundTypes
  <2> QED BY <2>7, <2>8 DEF RoundInv
<1> QED BY <1>3, <1>4

LEMMA EndRound ==
  ASSUME TypeInv, RoundInv, NEW t \in Threads, End(t) PROVE RoundInv'
<1>1. /\ pc[t] = "end" /\ pc' = [pc EXCEPT ![t] = "exit"] /\ ret' = ret
      /\ UNCHANGED roundVars
  BY DEF End, At, Goto
<1>2. RoundTypes /\ ControlTypes
  BY DEF TypeInv
<1>3. \A u \in Threads : Freed(u)' = Freed(u) /\ InRound(u)' = InRound(u)
  BY <1>1, <1>2 DEF Freed, InRound, ControlTypes, roundVars
<1>4. \A u \in Threads : Arrived(u)' = Arrived(u)
  BY <1>1, <1>2, <1>3 DEF Arrived, ControlTypes
<1>5. Missing' = Missing
  BY <1>4 DEF Missing
<1>6. RoundsOver' = RoundsOver
  BY <1>1, <1>3, Zero DEF RoundsOver, roundVars
<1>7. LeaderInv'
  BY <1>1, <1>2, <1>4, <1>5, Zero DEF RoundInv, LeaderInv, ControlTypes, roundVars
<1>8. \A u \in Threads \ {0} : FollowerInv(u)'
  BY <1>1, <1>2, <1>3, <1>6 DEF RoundInv, FollowerInv, ControlTypes, roundVars
<1> QED BY <1>7, <1>8 DEF RoundInv

LEMMA NextRoundInv == TypeInv /\ TypeInv' /\ RoundInv /\ [Next]_vars => RoundInv'
<1> SUFFICES ASSUME TypeInv, TypeInv', RoundInv, [Next]_vars PROVE RoundInv'
  OBVIOUS
<1>1. ASSUME NEW t \in Threads, Outside(t) PROVE RoundInv'
  BY <1>1, OutsideRound, QuietRound
<1>2. ASSUME UNCHANGED <<roundVars, ctlVars>> PROVE RoundInv'
  <2>1. \A t \in Threads : /\ Freed(t)' = Freed(t) /\ Arrived(t)' = Arrived(t)
                           /\ InRound(t)' = InRound(t)
    BY <1>2 DEF Freed, Arrived, InRound, roundVars, ctlVars
  <2>2. Missing' = Missing /\ RoundsOver' = RoundsOver
    BY <1>2, <2>1, Zero DEF Missing, RoundsOver, roundVars
  <2> QED BY <1>2, <2>1, <2>2 DEF RoundInv, LeaderInv, FollowerInv, roundVars, ctlVars
<1>3. ASSUME NEW t \in Threads, Abort(t) PROVE RoundInv'
  BY <1>2, <1>3 DEF Abort
<1>4. CASE UNCHANGED vars
  BY <1>2, <1>4 DEF vars
<1>5. ASSUME NEW t \in Threads, Step(t) PROVE RoundInv'
  BY <1>1, <1>5, EndIterationRound, EndRoundDecRound, LeaderDecidesRound, LeaderResetsRound,
     LeaderReleasesRound, FollowerReleasedRound, EndRound DEF Step, Outside
<1> QED BY <1>3, <1>4, <1>5 DEF Next, Thread, Terminated

LEMMA InvariantRoundInv == Spec => [](TypeInv /\ RoundInv)
<1>1. TypeInv /\ RoundInv /\ [Next]_vars => (TypeInv /\ RoundInv)'
  BY NextTypeInv, NextRoundInv
<1> QED BY <1>1, InitTypeInv, InitRoundInv, PTL DEF Spec

(***************************************************************************)
(* No thread is two iterations ahead of another one, and none that is      *)
(* ahead has left its round: START_ROUND .. END_ROUND is a barrier although *)
(* round_state has only two values and total_in_agg is reused every time.  *)
(***************************************************************************)
THEOREM RoundsAreBarriers == Spec => []RoundsInLockstep
<1>1. TypeInv /\ RoundInv => RoundsInLockstep
  <2> SUFFICES ASSUME TypeInv, RoundInv, NEW t \in Threads, NEW u \in Threads,
                      iteration[t] > iteration[u]
               PROVE  iteration[t] = iteration[u] + 1 /\ InRound(t)
    BY DEF RoundsInLockstep
  <2>1. RoundTypes /\ RoundsOver \in Int
    BY Zero DEF TypeInv, RoundsOver, RoundTypes
  <2>2. \A v \in Threads : \/ iteration[v] = RoundsOver + 1 /\ InRound(v)
                           \/ iteration[v] = RoundsOver
    BY <2>1 DEF RoundInv, FollowerInv, RoundsOver, RoundTypes
  <2> QED BY <2>1, <2>2 DEF RoundTypes
<1> QED BY <1>1, InvariantRoundInv, PTL

(***************************************************************************)
(* The threads leave do_loop from the same iteration: when one has left,   *)
(* each of the others has left or is about to see round_state = 0.         *)
(***************************************************************************)
THEOREM ThreadsLeaveTogether == Spec => []LeaveTogether
<1>1. TypeInv /\ RoundInv => LeaveTogether
  <2> SUFFICES ASSUME TypeInv, RoundInv, NEW t \in Threads, pc[t] \in {"end", "exit"},
                      NEW u \in Threads
               PROVE  pc[u] \in {"spin", "end", "exit"} /\ iteration[u] = iteration[t]
    BY DEF LeaveTogether
  <2>1. round_state = 0 /\ pc[0] \in {"end", "exit"}
    BY DEF RoundInv, LeaderInv, FollowerInv
  <2>2. \A v \in Threads : pc[v] \in {"spin", "end", "exit"} /\ ~Freed(v) /\ InRound(v)
    BY <2>1 DEF RoundInv, LeaderInv, Arrived, Freed, InRound
  <2>3. RoundTypes /\ RoundsOver \in Int
    BY Zero DEF TypeInv, RoundsOver, RoundTypes
  <2>4. \A v \in Threads : iteration[v] = RoundsOver + 1
    BY <2>2, <2>3 DEF RoundInv, FollowerInv, RoundsOver, RoundTypes
  <2> QED BY <2>2, <2>4
<1> QED BY <1>1, InvariantRoundInv, PTL

------------------------------------------------------------------------------
(* The counter of active threads never falls short.                         *)

LEMMA CountTypes ==
  /\ IsFiniteSet(Active) /\ Cardinality(Active) \in Nat
  /\ IsFiniteSet(PCAt("idle_dec")) /\ Cardinality(PCAt("idle_dec")) \in Nat
  /\ IsFiniteSet(PCAt("set_count")) /\ Cardinality(PCAt("set_count")) \in Nat
BY Zero, FS_Subset, FS_CardinalityType DEF Active, PCAt

LEMMA InitCountInv == Init => CountInv
<1> SUFFICES ASSUME Init PROVE CountInv
  OBVIOUS
<1>1. Active = Threads /\ PCAt("idle_dec") = {} /\ PCAt("set_count") = {}
  BY DEF Init, Active, PCAt, is_active
<1>2. active_threads = N /\ N \in Nat
  BY SchedulerAssumption DEF Init
<1> QED BY <1>1, <1>2, Zero, FS_EmptySet DEF CountInv

\* A step that changes neither a tstate nor the counter, and begins and ends
\* outside the places where the two differ.
LEMMA QuietCount ==
  ASSUME TypeInv, CountInv, UNCHANGED <<tstate, active_threads>>, NEW t \in Threads,
         \A u \in Threads \ {t} : pc'[u] = pc[u],
         pc[t] \notin {"idle_dec", "set_count"}, pc'[t] \notin {"idle_dec", "set_count"}
  PROVE  CountInv'
<1>1. /\ Active' = Active
      /\ PCAt("idle_dec")' = PCAt("idle_dec") /\ PCAt("set_count")' = PCAt("set_count")
  BY DEF Active, PCAt, is_active
<1> QED BY <1>1 DEF CountInv

LEMMA MakeInactiveEnterCount ==
  ASSUME TypeInv, CountInv, NEW t \in Threads, MakeInactiveEnter(t) PROVE CountInv'
<1>1. ControlTypes /\ ControlInv(t) /\ SyncTypes
  BY DEF TypeInv
<1>2. CASE has_work(t)
  <2>1. /\ pc[t] = "idle_in" /\ pc' = [pc EXCEPT ![t] = "wake"]
        /\ UNCHANGED <<tstate, active_threads>>
    BY <1>2 DEF MakeInactiveEnter, At, Call, Goto
  <2> QED BY <1>1, <2>1, QuietCount DEF ControlTypes
<1>3. CASE ~has_work(t)
  <2>1. /\ pc[t] = "idle_in" /\ pc' = [pc EXCEPT ![t] = "idle_dec"] /\ is_active(t)
        /\ tstate' = [tstate EXCEPT ![t] = "INACTIVE"] /\ active_threads' = active_threads
    BY <1>3 DEF MakeInactiveEnter, At, Goto
  <2>2. /\ t \in Active /\ Active' = Active \ {t}
        /\ t \notin PCAt("idle_dec") /\ PCAt("idle_dec")' = PCAt("idle_dec") \cup {t}
        /\ PCAt("set_count")' = PCAt("set_count")
    BY <1>1, <2>1 DEF Active, PCAt, is_active, ControlTypes, SyncTypes
  <2>3. /\ Cardinality(Active') = Cardinality(Active) - 1
        /\ Cardinality(PCAt("idle_dec")') = Cardinality(PCAt("idle_dec")) + 1
    <3>1. IsFiniteSet(Active) /\ IsFiniteSet(PCAt("idle_dec"))
      BY CountTypes
    <3>2. Cardinality(Active') = Cardinality(Active) - 1
      BY <2>2, <3>1, FS_RemoveElement
    <3>3. Cardinality(PCAt("idle_dec")') = Cardinality(PCAt("idle_dec")) + 1
      BY <2>2, <3>1, FS_AddElement
    <3> QED BY <3>2, <3>3
  <2> QED BY <1>1, <2>1, <2>2, <2>3, CountTypes, SchedulerAssumption DEF CountInv, SyncTypes
<1> QED BY <1>2, <1>3

LEMMA MakeInactiveCountCount ==
  ASSUME TypeInv, CountInv, NEW t \in Threads, MakeInactiveCount(t) PROVE CountInv'
<1>1. ControlTypes /\ SyncTypes
  BY DEF TypeInv
<1>2. /\ pc[t] = "idle_dec" /\ tstate' = tstate /\ active_threads' = active_threads - 1
      /\ pc' \in {[pc EXCEPT ![t] = "idle_done"], [pc EXCEPT ![t] = "term"]}
  BY DEF MakeInactiveCount, At, Goto
<1>3. /\ Active' = Active /\ PCAt("set_count")' = PCAt("set_count")
      /\ t \in PCAt("idle_dec") /\ PCAt("idle_dec")' = PCAt("idle_dec") \ {t}
  BY <1>1, <1>2 DEF Active, PCAt, is_active, ControlTypes
<1>4. Cardinality(PCAt("idle_dec")') = Cardinality(PCAt("idle_dec")) - 1
  BY <1>3, CountTypes, FS_RemoveElement
<1> QED BY <1>1, <1>2, <1>3, <1>4, CountTypes, SchedulerAssumption DEF CountInv, SyncTypes

LEMMA SetActiveStoreCount ==
  ASSUME TypeInv, CountInv, NEW t \in Threads, SetActiveStore(t) PROVE CountInv'
<1>1. ControlTypes /\ SyncTypes
  BY DEF TypeInv
<1>2. /\ pc[t] = "set_tstate" /\ pc' = [pc EXCEPT ![t] = "set_count"]
      /\ tstate' = [tstate EXCEPT ![tgt[t]] = "ACTIVE"] /\ active_threads' = active_threads
  BY DEF SetActiveStore, At, Goto
<1>3. /\ Active' = Active \cup {tgt[t]} /\ PCAt("idle_dec")' = PCAt("idle_dec")
      /\ t \notin PCAt("set_count") /\ PCAt("set_count")' = PCAt("set_count") \cup {t}
  BY <1>1, <1>2 DEF Active, PCAt, is_active, ControlTypes, SyncTypes
<1>4. Cardinality(Active \cup {tgt[t]}) \in {Cardinality(Active), Cardinality(Active) + 1}
  BY CountTypes, FS_AddElement
<1>5. Cardinality(PCAt("set_count") \cup {t}) = Cardinality(PCAt("set_count")) + 1
  BY <1>3, CountTypes, FS_AddElement
<1>6. /\ Cardinality(Active') \in {Cardinality(Active), Cardinality(Active) + 1}
      /\ Cardinality(PCAt("set_count")') = Cardinality(PCAt("set_count")) + 1
      /\ Cardinality(PCAt("idle_dec")') = Cardinality(PCAt("idle_dec"))
      /\ active_threads \in Int
  BY <1>1, <1>3, <1>4, <1>5, SchedulerAssumption DEF SyncTypes
<1> QED BY <1>2, <1>6, CountTypes DEF CountInv

LEMMA SetActiveCountCount ==
  ASSUME TypeInv, CountInv, NEW t \in Threads, SetActiveCount(t) PROVE CountInv'
<1>1. ControlTypes /\ SyncTypes /\ ControlInv(t)
  BY DEF TypeInv
<1>2. /\ pc[t] = "set_count" /\ pc' = [pc EXCEPT ![t] = ret[t]]
      /\ tstate' = tstate /\ active_threads' = active_threads + 1
  BY DEF SetActiveCount, At, Goto
<1>3. /\ Active' = Active /\ PCAt("idle_dec")' = PCAt("idle_dec")
      /\ t \in PCAt("set_count") /\ PCAt("set_count")' = PCAt("set_count") \ {t}
  BY <1>1, <1>2 DEF Active, PCAt, is_active, ControlTypes, ControlInv, Activating
<1>4. Cardinality(PCAt("set_count")') = Cardinality(PCAt("set_count")) - 1
  BY <1>3, CountTypes, FS_RemoveElement
<1> QED BY <1>1, <1>2, <1>3, <1>4, CountTypes, SchedulerAssumption DEF CountInv, SyncTypes

LEMMA NextCountInv == TypeInv /\ CountInv /\ [Next]_vars => CountInv'
<1> SUFFICES ASSUME TypeInv, CountInv, [Next]_vars PROVE CountInv'
  OBVIOUS
<1> DEFINE Still(t) == /\ UNCHANGED <<tstate, active_threads>>
                       /\ \A u \in Threads \ {t} : pc'[u] = pc[u]
                       /\ pc[t] \notin {"idle_dec", "set_count"}
                       /\ pc'[t] \notin {"idle_dec", "set_count"}
<1>0. ASSUME NEW t \in Threads PROVE ControlTypes /\ ControlInv(t)
  BY DEF TypeInv
<1>1. ASSUME NEW t \in Threads, InitNode(t) PROVE Still(t)
  BY <1>0, <1>1 DEF InitNode, At, Goto, Call, ctlVars, syncVars, ControlTypes, ControlInv
<1>2. ASSUME NEW t \in Threads, InitDone(t) PROVE Still(t)
  BY <1>0, <1>2 DEF InitDone, At, Goto, Call, ctlVars, syncVars, ControlTypes, ControlInv
<1>3. ASSUME NEW t \in Threads, Synchronize(t) PROVE Still(t)
  BY <1>0, <1>3 DEF Synchronize, At, Goto, Call, ctlVars, syncVars, ControlTypes, ControlInv
<1>4. ASSUME NEW t \in Threads, SetNextNode(t) PROVE Still(t)
  BY <1>0, <1>4 DEF SetNextNode, At, Goto, Call, ctlVars, syncVars, ControlTypes, ControlInv
<1>5. ASSUME NEW t \in Threads, RetrieveTake(t) PROVE Still(t)
  BY <1>0, <1>5 DEF RetrieveTake, At, Goto, Call, ctlVars, syncVars, ControlTypes, ControlInv
<1>6. ASSUME NEW t \in Threads, RetrieveAdd(t) PROVE Still(t)
  BY <1>0, <1>6 DEF RetrieveAdd, At, Goto, Call, ctlVars, syncVars, ControlTypes, ControlInv
<1>7. ASSUME NEW t \in Threads, CheckWork(t) PROVE Still(t)
  BY <1>0, <1>7 DEF CheckWork, At, Goto, Call, ctlVars, syncVars, ControlTypes, ControlInv
<1>8. ASSUME NEW t \in Threads, PopNode(t) PROVE Still(t)
  BY <1>0, <1>8 DEF PopNode, At, Goto, Call, ctlVars, syncVars, ControlTypes, ControlInv
<1>9. ASSUME NEW t \in Threads, BusyWait(t) PROVE Still(t)
  BY <1>0, <1>9 DEF BusyWait, At, Goto, Call, ctlVars, syncVars, ControlTypes, ControlInv
<1>10. ASSUME NEW t \in Threads, MakeInactiveTest(t) PROVE Still(t)
  BY <1>0, <1>10 DEF MakeInactiveTest, At, Goto, Call, ctlVars, syncVars, ControlTypes, ControlInv
<1>11. ASSUME NEW t \in Threads, MakeInactiveLock(t) PROVE Still(t)
  BY <1>0, <1>11 DEF MakeInactiveLock, At, Goto, Call, ctlVars, syncVars, ControlTypes, ControlInv
<1>12. ASSUME NEW t \in Threads, MakeInactiveDone(t) PROVE Still(t)
  BY <1>0, <1>12 DEF MakeInactiveDone, At, Goto, Call, ctlVars, syncVars, ControlTypes, ControlInv
<1>13. ASSUME NEW t \in Threads, CheckTermination(t) PROVE Still(t)
  BY <1>0, <1>13 DEF CheckTermination, At, Goto, Call, ctlVars, syncVars, ControlTypes, ControlInv
<1>14. ASSUME NEW t \in Threads, WaitFinished(t) PROVE Still(t)
  BY <1>0, <1>14 DEF WaitFinished, At, Goto, Call, ctlVars, syncVars, ControlTypes, ControlInv
<1>15. ASSUME NEW t \in Threads, WaitWoke(t) PROVE Still(t)
  BY <1>0, <1>15 DEF WaitWoke, At, Goto, Call, ctlVars, syncVars, ControlTypes, ControlInv
<1>16. ASSUME NEW t \in Threads, WakeTest(t) PROVE Still(t)
  BY <1>0, <1>16 DEF WakeTest, At, Goto, Call, ctlVars, syncVars, ControlTypes, ControlInv
<1>17. ASSUME NEW t \in Threads, WakeLock(t) PROVE Still(t)
  BY <1>0, <1>17 DEF WakeLock, At, Goto, Call, ctlVars, syncVars, ControlTypes, ControlInv
<1>18. ASSUME NEW t \in Threads, SetActiveAssert(t) PROVE Still(t)
  BY <1>0, <1>18 DEF SetActiveAssert, At, Goto, Call, ctlVars, syncVars, ControlTypes, ControlInv
<1>19. ASSUME NEW t \in Threads, RunNode(t) PROVE Still(t)
  BY <1>0, <1>19 DEF RunNode, At, Goto, Call, ctlVars, syncVars, ControlTypes, ControlInv
<1>20. ASSUME NEW t \in Threads, NewWork(t) PROVE Still(t)
  BY <1>0, <1>20 DEF NewWork, At, Goto, Call, ctlVars, syncVars, ControlTypes, ControlInv
<1>21. ASSUME NEW t \in Threads, NewWorkOther(t) PROVE Still(t)
  BY <1>0, <1>21 DEF NewWorkOther, At, Goto, Call, ctlVars, syncVars, ControlTypes, ControlInv
<1>22. ASSUME NEW t \in Threads, PushOther(t) PROVE Still(t)
  BY <1>0, <1>22 DEF PushOther, At, Goto, Call, ctlVars, syncVars, ControlTypes, ControlInv
<1>23. ASSUME NEW t \in Threads, OtherLock(t) PROVE Still(t)
  BY <1>0, <1>23 DEF OtherLock, At, Goto, Call, ctlVars, syncVars, ControlTypes, ControlInv
<1>24. ASSUME NEW t \in Threads, OtherTestQueue(t) PROVE Still(t)
  BY <1>0, <1>24 DEF OtherTestQueue, At, Goto, Call, ctlVars, syncVars, ControlTypes, ControlInv
<1>25. ASSUME NEW t \in Threads, OtherTestBuffer(t) PROVE Still(t)
  BY <1>0, <1>25 DEF OtherTestBuffer, At, Goto, Call, ctlVars, syncVars, ControlTypes, ControlInv
<1>26. ASSUME NEW t \in Threads, FinishWork(t) PROVE Still(t)
  BY <1>0, <1>26 DEF FinishWork, At, Goto, Call, ctlVars, syncVars, ControlTypes, ControlInv
<1>27. ASSUME NEW t \in Threads, EndIteration(t) PROVE Still(t)
  BY <1>0, <1>27 DEF EndIteration, At, Goto, Call, ctlVars, syncVars, ControlTypes, ControlInv
<1>28. ASSUME NEW t \in Threads, StartRound(t) PROVE Still(t)
  BY <1>0, <1>28 DEF StartRound, At, Goto, Call, ctlVars, syncVars, ControlTypes, ControlInv
<1>29. ASSUME NEW t \in Threads, GenerateAgg(t) PROVE Still(t)
  BY <1>0, <1>29 DEF GenerateAgg, At, Goto, Call, ctlVars, syncVars, ControlTypes, ControlInv
<1>30. ASSUME NEW t \in Threads, RoundHasWork(t) PROVE Still(t)
  BY <1>0, <1>30 DEF RoundHasWork, At, Goto, Call, ctlVars, syncVars, ControlTypes, ControlInv
<1>31. ASSUME NEW t \in Threads, EndRoundDec(t) PROVE Still(t)
  BY <1>0, <1>31 DEF EndRoundDec, At, Goto, Call, ctlVars, syncVars, ControlTypes, ControlInv
<1>32. ASSUME NEW t \in Threads, LeaderDecides(t) PROVE Still(t)
  BY <1>0, <1>32 DEF LeaderDecides, At, Goto, Call, ctlVars, syncVars, ControlTypes, ControlInv
<1>33. ASSUME NEW t \in Threads, LeaderResets(t) PROVE Still(t)
  BY <1>0, <1>33 DEF LeaderResets, At, Goto, Call, ctlVars, syncVars, ControlTypes, ControlInv
<1>34. ASSUME NEW t \in Threads, LeaderReleases(t) PROVE Still(t)
  BY <1>0, <1>34 DEF LeaderReleases, At, Goto, Call, ctlVars, syncVars, ControlTypes, ControlInv
<1>35. ASSUME NEW t \in Threads, FollowerReleased(t) PROVE Still(t)
  BY <1>0, <1>35 DEF FollowerReleased, At, Goto, Call, ctlVars, syncVars, ControlTypes, ControlInv
<1>36. ASSUME NEW t \in Threads, End(t) PROVE Still(t)
  BY <1>0, <1>36 DEF End, At, Goto, Call, ctlVars, syncVars, ControlTypes, ControlInv
<1>37. ASSUME NEW t \in Threads, Still(t) PROVE CountInv'
  BY <1>37, QuietCount
<1> HIDE DEF Still
<1>38. ASSUME NEW t \in Threads, Step(t) PROVE CountInv'
  BY <1>1, <1>2, <1>3, <1>4, <1>5, <1>6, <1>7, <1>8, <1>9, <1>10, <1>11, <1>12,
     <1>13, <1>14, <1>15, <1>16, <1>17, <1>18, <1>19, <1>20, <1>21, <1>22,
     <1>23, <1>24, <1>25, <1>26, <1>27, <1>28, <1>29, <1>30, <1>31, <1>32,
     <1>33, <1>34, <1>35, <1>36, <1>37, <1>38, MakeInactiveEnterCount,
     MakeInactiveCountCount, SetActiveStoreCount, SetActiveCountCount DEF Step
<1>39. ASSUME UNCHANGED <<syncVars, ctlVars>> PROVE CountInv'
  BY <1>39 DEF CountInv, Active, PCAt, is_active, syncVars, ctlVars
<1>40. ASSUME NEW t \in Threads, Abort(t) PROVE CountInv'
  BY <1>39, <1>40 DEF Abort
<1>41. CASE UNCHANGED vars
  BY <1>39, <1>41 DEF vars
<1> QED BY <1>38, <1>40, <1>41 DEF Next, Thread, Terminated

(***************************************************************************)
(* The counter of active threads is never too low, however sends, wake-ups *)
(* and rounds interleave: done is never set while a thread that has been   *)
(* marked active, and whose marking is complete, is left out of the count. *)
(***************************************************************************)
THEOREM CounterNeverShort == Spec => []NeverUndercounted
<1>1. TypeInv /\ CountInv /\ [Next]_vars => (TypeInv /\ CountInv)'
  BY NextTypeInv, NextCountInv
<1>2. TypeInv /\ CountInv => NeverUndercounted
  BY CountTypes, SchedulerAssumption DEF TypeInv, SyncTypes, CountInv, NeverUndercounted, Active, PCAt
<1> QED BY <1>1, <1>2, InitTypeInv, InitCountInv, PTL DEF Spec

------------------------------------------------------------------------------
(* Nodes, tuples and termination.                                           *)

\* The places where a thread is running a node, or may be.
RunLabels ==
  {"next", "wake", "wake_lock", "run", "emit", "push", "other_lock", "other_queue",
   "other_buffer"} \cup Activating

\* The thread is sending a tuple to another thread, and has not activated it.
SendLabels == {"other_lock", "other_queue", "other_buffer", "set_active", "set_tstate"}

\* The thread has finished generating aggregates.
RoundEndLabels == {"dec", "spin", "reset", "release", "end", "exit"}

Queued(n) == \E i \in DOMAIN queue_nodes[Owner[n]] : queue_nodes[Owner[n]][i] = n
Running(n) == current_node[Owner[n]] = n

\* The queue of a thread holds nodes of its own, each once, and the thread runs
\* only its own.
QueueInv(t) ==
  /\ \A i \in DOMAIN queue_nodes[t] : Owner[queue_nodes[t][i]] = t
  /\ \A i, j \in DOMAIN queue_nodes[t] : queue_nodes[t][i] = queue_nodes[t][j] => i = j
  /\ current_node[t] # NULL => Owner[current_node[t]] = t

\* i_am_on_queue tells whether the node is in the queue or being run.
FlagInv(n) ==
  /\ in_queue[n] <=> Queued(n) \/ Running(n)
  /\ ~(Queued(n) /\ Running(n))
  /\ node_queue[n] > 0 => in_queue[n]

PlaceInv == (\A t \in Threads : QueueInv(t)) /\ (\A n \in Nodes : FlagInv(n))

\* A tuple is on the way to the owner of its node.
TupleInv(t) ==
  /\ \A i \in DOMAIN buffer[t] : Owner[buffer[t][i]] = t
  /\ pc[t] = "add" => Owner[inhand[t]] = t
  /\ pc[t] = "push" => Owner[inhand[t]] = tgt[t]

\* A thread holds a node or a tuple only where the code uses it.
HoldInv(t) ==
  /\ current_node[t] # NULL => pc[t] \in RunLabels
  /\ pc[t] \in {"wake", "wake_lock"} \cup Activating /\ ret[t] \in {"woke", "dec"} =>
       current_node[t] = NULL
  /\ inhand[t] # NULL => pc[t] \in {"add", "push"}

NodeInv == PlaceInv /\ \A t \in Threads : TupleInv(t) /\ HoldInv(t)

\* An inactive thread that has ended its round has no work, except for a tuple
\* whose sender is about to activate it.
RestInv(t) ==
  /\ pc[t] \in RoundEndLabels /\ is_inactive(t) =>
       /\ queue_nodes[t] = <<>>
       /\ \/ buffer[t] = <<>>
          \/ \E u \in Threads : pc[u] \in SendLabels /\ tgt[u] = t
  /\ pc[t] \in Activating /\ ret[t] = "dec" => tgt[t] = t
  /\ pc[t] = "set_count" /\ ret[t] = "dec" => is_active(t)

\* Threads return only when all of them are inactive.
LeaveInv == (\E t \in Threads : pc[t] \in {"end", "exit"}) => \A t \in Threads : is_inactive(t)

WorkInv == LeaveInv /\ \A t \in Threads : RestInv(t)
------------------------------------------------------------------------------
(* What a step of a thread may change.                                      *)

\* The variables of the other threads stay, except that PushOther fills a buffer.
LEMMA StepLocal ==
  ASSUME TypeInv, NEW t \in Threads, Step(t)
  PROVE  \A u \in Threads \ {t} :
           /\ pc'[u] = pc[u] /\ ret'[u] = ret[u] /\ tgt'[u] = tgt[u] /\ inhand'[u] = inhand[u]
           /\ queue_nodes'[u] = queue_nodes[u] /\ current_node'[u] = current_node[u]
<1> DEFINE Others ==
             \A u \in Threads \ {t} :
               /\ pc'[u] = pc[u] /\ ret'[u] = ret[u] /\ tgt'[u] = tgt[u]
               /\ inhand'[u] = inhand[u]
               /\ queue_nodes'[u] = queue_nodes[u] /\ current_node'[u] = current_node[u]
<1>0. ControlTypes /\ WorkTypes
  BY DEF TypeInv
<1> USE DEF At, Goto, Call, AddWork, nodeVars, workVars, ctlVars, ControlTypes, WorkTypes
<1>1. ASSUME InitNode(t) PROVE Others
  BY <1>0, <1>1 DEF InitNode
<1>2. ASSUME InitDone(t) PROVE Others
  BY <1>0, <1>2 DEF InitDone
<1>3. ASSUME Synchronize(t) PROVE Others
  BY <1>0, <1>3 DEF Synchronize
<1>4. ASSUME SetNextNode(t) PROVE Others
  BY <1>0, <1>4 DEF SetNextNode
<1>5. ASSUME RetrieveTake(t) PROVE Others
  BY <1>0, <1>5 DEF RetrieveTake
<1>6. ASSUME RetrieveAdd(t) PROVE Others
  BY <1>0, <1>6 DEF RetrieveAdd
<1>7. ASSUME CheckWork(t) PROVE Others
  BY <1>0, <1>7 DEF CheckWork
<1>8. ASSUME PopNode(t) PROVE Others
  BY <1>0, <1>8 DEF PopNode
<1>9. ASSUME BusyWait(t) PROVE Others
  BY <1>0, <1>9 DEF BusyWait
<1>10. ASSUME MakeInactiveTest(t) PROVE Others
  BY <1>0, <1>10 DEF MakeInactiveTest
<1>11. ASSUME MakeInactiveLock(t) PROVE Others
  BY <1>0, <1>11 DEF MakeInactiveLock
<1>12. ASSUME MakeInactiveEnter(t) PROVE Others
  BY <1>0, <1>12 DEF MakeInactiveEnter
<1>13. ASSUME MakeInactiveCount(t) PROVE Others
  BY <1>0, <1>13 DEF MakeInactiveCount
<1>14. ASSUME MakeInactiveDone(t) PROVE Others
  BY <1>0, <1>14 DEF MakeInactiveDone
<1>15. ASSUME CheckTermination(t) PROVE Others
  BY <1>0, <1>15 DEF CheckTermination
<1>16. ASSUME WaitFinished(t) PROVE Others
  BY <1>0, <1>16 DEF WaitFinished
<1>17. ASSUME WaitWoke(t) PROVE Others
  BY <1>0, <1>17 DEF WaitWoke
<1>18. ASSUME WakeTest(t) PROVE Others
  BY <1>0, <1>18 DEF WakeTest
<1>19. ASSUME WakeLock(t) PROVE Others
  BY <1>0, <1>19 DEF WakeLock
<1>20. ASSUME SetActiveAssert(t) PROVE Others
  BY <1>0, <1>20 DEF SetActiveAssert
<1>21. ASSUME SetActiveStore(t) PROVE Others
  BY <1>0, <1>21 DEF SetActiveStore
<1>22. ASSUME SetActiveCount(t) PROVE Others
  BY <1>0, <1>22 DEF SetActiveCount
<1>23. ASSUME RunNode(t) PROVE Others
  BY <1>0, <1>23 DEF RunNode
<1>24. ASSUME NewWork(t) PROVE Others
  BY <1>0, <1>24 DEF NewWork
<1>25. ASSUME NewWorkOther(t) PROVE Others
  BY <1>0, <1>25 DEF NewWorkOther
<1>26. ASSUME PushOther(t) PROVE Others
  BY <1>0, <1>26 DEF PushOther
<1>27. ASSUME OtherLock(t) PROVE Others
  BY <1>0, <1>27 DEF OtherLock
<1>28. ASSUME OtherTestQueue(t) PROVE Others
  BY <1>0, <1>28 DEF OtherTestQueue
<1>29. ASSUME OtherTestBuffer(t) PROVE Others
  BY <1>0, <1>29 DEF OtherTestBuffer
<1>30. ASSUME FinishWork(t) PROVE Others
  BY <1>0, <1>30 DEF FinishWork
<1>31. ASSUME EndIteration(t) PROVE Others
  BY <1>0, <1>31 DEF EndIteration
<1>32. ASSUME StartRound(t) PROVE Others
  BY <1>0, <1>32 DEF StartRound
<1>33. ASSUME GenerateAgg(t) PROVE Others
  BY <1>0, <1>33 DEF GenerateAgg
<1>34. ASSUME RoundHasWork(t) PROVE Others
  BY <1>0, <1>34 DEF RoundHasWork
<1>35. ASSUME EndRoundDec(t) PROVE Others
  BY <1>0, <1>35 DEF EndRoundDec
<1>36. ASSUME LeaderDecides(t) PROVE Others
  BY <1>0, <1>36 DEF LeaderDecides
<1>37. ASSUME LeaderResets(t) PROVE Others
  BY <1>0, <1>37 DEF LeaderResets
<1>38. ASSUME LeaderReleases(t) PROVE Others
  BY <1>0, <1>38 DEF LeaderReleases
<1>39. ASSUME FollowerReleased(t) PROVE Others
  BY <1>0, <1>39 DEF FollowerReleased
<1>40. ASSUME End(t) PROVE Others
  BY <1>0, <1>40 DEF End
<1> QED
  BY <1>1, <1>2, <1>3, <1>4, <1>5, <1>6, <1>7, <1>8, <1>9, <1>10, <1>11, <1>12, <1>13, <1>14,
     <1>15, <1>16, <1>17, <1>18, <1>19, <1>20, <1>21, <1>22, <1>23, <1>24, <1>25, <1>26, <1>27,
     <1>28, <1>29, <1>30, <1>31, <1>32, <1>33, <1>34, <1>35, <1>36, <1>37, <1>38, <1>39, <1>40
     DEF Step

\* A thread keeps hold of a node or a tuple only where it uses it.
LEMMA StepHold ==
  ASSUME TypeInv, NEW t \in Threads, HoldInv(t), Step(t) PROVE HoldInv(t)'
<1>0. ControlTypes /\ WorkTypes /\ ControlInv(t)
  BY DEF TypeInv
<1> USE DEF At, Goto, Call, AddWork, nodeVars, workVars, ctlVars, ControlTypes, WorkTypes, HoldInv,
            ControlInv, RunLabels, Activating
<1>1. ASSUME InitNode(t) PROVE HoldInv(t)'
  BY <1>0, <1>1 DEF InitNode
<1>2. ASSUME InitDone(t) PROVE HoldInv(t)'
  BY <1>0, <1>2 DEF InitDone
<1>3. ASSUME Synchronize(t) PROVE HoldInv(t)'
  BY <1>0, <1>3 DEF Synchronize
<1>4. ASSUME SetNextNode(t) PROVE HoldInv(t)'
  BY <1>0, <1>4 DEF SetNextNode
<1>5. ASSUME RetrieveTake(t) PROVE HoldInv(t)'
  BY <1>0, <1>5 DEF RetrieveTake
<1>6. ASSUME RetrieveAdd(t) PROVE HoldInv(t)'
  BY <1>0, <1>6 DEF RetrieveAdd
<1>7. ASSUME CheckWork(t) PROVE HoldInv(t)'
  BY <1>0, <1>7 DEF CheckWork
<1>8. ASSUME PopNode(t) PROVE HoldInv(t)'
  BY <1>0, <1>8 DEF PopNode
<1>9. ASSUME BusyWait(t) PROVE HoldInv(t)'
  BY <1>0, <1>9 DEF BusyWait
<1>10. ASSUME MakeInactiveTest(t) PROVE HoldInv(t)'
  BY <1>0, <1>10 DEF MakeInactiveTest
<1>11. ASSUME MakeInactiveLock(t) PROVE HoldInv(t)'
  BY <1>0, <1>11 DEF MakeInactiveLock
<1>12. ASSUME MakeInactiveEnter(t) PROVE HoldInv(t)'
  BY <1>0, <1>12 DEF MakeInactiveEnter
<1>13. ASSUME MakeInactiveCount(t) PROVE HoldInv(t)'
  BY <1>0, <1>13 DEF MakeInactiveCount
<1>14. ASSUME MakeInactiveDone(t) PROVE HoldInv(t)'
  BY <1>0, <1>14 DEF MakeInactiveDone
<1>15. ASSUME CheckTermination(t) PROVE HoldInv(t)'
  BY <1>0, <1>15 DEF CheckTermination
<1>16. ASSUME WaitFinished(t) PROVE HoldInv(t)'
  BY <1>0, <1>16 DEF WaitFinished
<1>17. ASSUME WaitWoke(t) PROVE HoldInv(t)'
  BY <1>0, <1>17 DEF WaitWoke
<1>18. ASSUME WakeTest(t) PROVE HoldInv(t)'
  BY <1>0, <1>18 DEF WakeTest
<1>19. ASSUME WakeLock(t) PROVE HoldInv(t)'
  BY <1>0, <1>19 DEF WakeLock
<1>20. ASSUME SetActiveAssert(t) PROVE HoldInv(t)'
  BY <1>0, <1>20 DEF SetActiveAssert
<1>21. ASSUME SetActiveStore(t) PROVE HoldInv(t)'
  BY <1>0, <1>21 DEF SetActiveStore
<1>22. ASSUME SetActiveCount(t) PROVE HoldInv(t)'
  BY <1>0, <1>22 DEF SetActiveCount
<1>23. ASSUME RunNode(t) PROVE HoldInv(t)'
  BY <1>0, <1>23 DEF RunNode
<1>24. ASSUME NewWork(t) PROVE HoldInv(t)'
  BY <1>0, <1>24 DEF NewWork
<1>25. ASSUME NewWorkOther(t) PROVE HoldInv(t)'
  BY <1>0, <1>25 DEF NewWorkOther
<1>26. ASSUME PushOther(t) PROVE HoldInv(t)'
  BY <1>0, <1>26 DEF PushOther
<1>27. ASSUME OtherLock(t) PROVE HoldInv(t)'
  BY <1>0, <1>27 DEF OtherLock
<1>28. ASSUME OtherTestQueue(t) PROVE HoldInv(t)'
  BY <1>0, <1>28 DEF OtherTestQueue
<1>29. ASSUME OtherTestBuffer(t) PROVE HoldInv(t)'
  BY <1>0, <1>29 DEF OtherTestBuffer
<1>30. ASSUME FinishWork(t) PROVE HoldInv(t)'
  BY <1>0, <1>30 DEF FinishWork
<1>31. ASSUME EndIteration(t) PROVE HoldInv(t)'
  BY <1>0, <1>31 DEF EndIteration
<1>32. ASSUME StartRound(t) PROVE HoldInv(t)'
  BY <1>0, <1>32 DEF StartRound
<1>33. ASSUME GenerateAgg(t) PROVE HoldInv(t)'
  BY <1>0, <1>33 DEF GenerateAgg
<1>34. ASSUME RoundHasWork(t) PROVE HoldInv(t)'
  BY <1>0, <1>34 DEF RoundHasWork
<1>35. ASSUME EndRoundDec(t) PROVE HoldInv(t)'
  BY <1>0, <1>35 DEF EndRoundDec
<1>36. ASSUME LeaderDecides(t) PROVE HoldInv(t)'
  BY <1>0, <1>36 DEF LeaderDecides
<1>37. ASSUME LeaderResets(t) PROVE HoldInv(t)'
  BY <1>0, <1>37 DEF LeaderResets
<1>38. ASSUME LeaderReleases(t) PROVE HoldInv(t)'
  BY <1>0, <1>38 DEF LeaderReleases
<1>39. ASSUME FollowerReleased(t) PROVE HoldInv(t)'
  BY <1>0, <1>39 DEF FollowerReleased
<1>40. ASSUME End(t) PROVE HoldInv(t)'
  BY <1>0, <1>40 DEF End
<1> QED
  BY <1>1, <1>2, <1>3, <1>4, <1>5, <1>6, <1>7, <1>8, <1>9, <1>10, <1>11, <1>12, <1>13, <1>14,
     <1>15, <1>16, <1>17, <1>18, <1>19, <1>20, <1>21, <1>22, <1>23, <1>24, <1>25, <1>26, <1>27,
     <1>28, <1>29, <1>30, <1>31, <1>32, <1>33, <1>34, <1>35, <1>36, <1>37, <1>38, <1>39, <1>40
     DEF Step

------------------------------------------------------------------------------
(* Where the nodes are.                                                     *)

LEMMA QuietPlace ==
  ASSUME PlaceInv, UNCHANGED nodeVars PROVE PlaceInv'
BY DEF PlaceInv, QueueInv, FlagInv, Queued, Running, nodeVars

LEMMA AddWorkPlace ==
  ASSUME TypeInv, PlaceInv, NEW t \in Threads, NEW n \in OwnNodes(t), AddWork(t, n),
         current_node' = current_node
  PROVE  PlaceInv'
<1> DEFINE q == queue_nodes[t]
<1>1. WorkTypes /\ n \in Nodes /\ Owner[n] = t /\ q \in Seq(Nodes) /\ QueueInv(t) /\ FlagInv(n)
  BY DEF TypeInv, WorkTypes, OwnNodes, PlaceInv
<1>2. /\ node_queue' = [node_queue EXCEPT ![n] = @ + 1]
      /\ in_queue' = [in_queue EXCEPT ![n] = TRUE]
  BY DEF AddWork
<1>3. \A u \in Threads \ {t} : queue_nodes'[u] = queue_nodes[u]
  BY <1>1 DEF AddWork, WorkTypes
<1>4. CASE in_queue[n]
  <2>1. queue_nodes' = queue_nodes
    BY <1>1, <1>4 DEF AddWork, WorkTypes
  <2>2. in_queue' = in_queue
    BY <1>1, <1>2, <1>4 DEF WorkTypes
  <2>3. \A m \in Nodes : FlagInv(m)'
    <3> SUFFICES ASSUME NEW m \in Nodes PROVE FlagInv(m)'
      OBVIOUS
    <3>1. FlagInv(m)
      BY DEF PlaceInv
    <3>2. node_queue'[m] = node_queue[m] \/ (m = n /\ in_queue[m])
      BY <1>1, <1>2, <1>4 DEF WorkTypes
    <3> QED BY <2>1, <2>2, <3>1, <3>2 DEF FlagInv, Queued, Running
  <2>4. \A u \in Threads : QueueInv(u)'
    BY <2>1 DEF PlaceInv, QueueInv
  <2> QED BY <2>3, <2>4 DEF PlaceInv
<1>5. CASE ~in_queue[n]
  <2> DEFINE r == Append(q, n)
  <2>1. queue_nodes'[t] = r
    BY <1>1, <1>5 DEF AddWork, WorkTypes
  <2>2. /\ DOMAIN q = 1 .. Len(q) /\ DOMAIN r = 1 .. Len(q) + 1 /\ Len(q) \in Nat
        /\ \A i \in DOMAIN q : r[i] = q[i]
        /\ r[Len(q) + 1] = n
    BY <1>1
  <2>3. \A i \in DOMAIN q : q[i] # n
    BY <1>1, <1>5 DEF FlagInv, Queued
  <2> HIDE DEF q, r
  <2>4. QueueInv(t)'
    <3>1. \A i \in DOMAIN r : Owner[r[i]] = t
      BY <1>1, <2>2 DEF QueueInv, q
    <3>2. \A i, j \in DOMAIN r : r[i] = r[j] => i = j
      BY <1>1, <2>2, <2>3 DEF QueueInv, q
    <3> QED BY <1>1, <2>1, <3>1, <3>2 DEF QueueInv
  <2>5. \A u \in Threads : QueueInv(u)'
    BY <1>3, <2>4 DEF PlaceInv, QueueInv
  <2>6. Queued(n)' /\ ~Running(n)'
    BY <1>1, <1>5, <2>1, <2>2 DEF Queued, Running, FlagInv
  <2>7. \A m \in Nodes \ {n} : Queued(m)' = Queued(m) /\ Running(m)' = Running(m)
    <3> SUFFICES ASSUME NEW m \in Nodes \ {n} PROVE Queued(m)' = Queued(m)
      BY DEF Running
    <3>1. CASE Owner[m] # t
      BY <1>3, <3>1, SchedulerAssumption DEF Queued
    <3>2. CASE Owner[m] = t
      BY <2>1, <2>2, <3>2 DEF Queued, q
    <3> QED BY <3>1, <3>2
  <2>8. \A m \in Nodes \ {n} : FlagInv(m)'
    BY <1>1, <1>2, <2>7 DEF PlaceInv, FlagInv, WorkTypes
  <2>9. FlagInv(n)'
    BY <1>1, <1>2, <2>6 DEF FlagInv, WorkTypes
  <2> QED BY <2>5, <2>8, <2>9 DEF PlaceInv
<1> QED BY <1>4, <1>5

LEMMA SetNextNodePlace ==
  ASSUME TypeInv, PlaceInv, NEW t \in Threads, SetNextNode(t) PROVE PlaceInv'
<1>0. PICK n \in Nodes \cup {NULL} : n = current_node[t]
  BY DEF TypeInv, WorkTypes
<1>1. WorkTypes /\ QueueInv(t)
  BY DEF TypeInv, PlaceInv
<1>2. CASE n = NULL \/ node_queue[n] > 0
  <2>1. UNCHANGED nodeVars
    BY <1>0, <1>1, <1>2 DEF SetNextNode, nodeVars, WorkTypes
  <2> QED BY <2>1, QuietPlace
<1>3. CASE ~(n = NULL \/ node_queue[n] > 0)
  <2>1. /\ n \in Nodes /\ Owner[n] = t /\ node_queue[n] = 0 /\ FlagInv(n)
        /\ in_queue' = [in_queue EXCEPT ![n] = FALSE]
        /\ current_node' = [current_node EXCEPT ![t] = NULL]
        /\ queue_nodes' = queue_nodes /\ node_queue' = node_queue
    BY <1>0, <1>1, <1>3 DEF SetNextNode, WorkTypes, QueueInv, PlaceInv
  <2>2. \A u \in Threads : QueueInv(u)'
    BY <1>1, <2>1 DEF PlaceInv, QueueInv, WorkTypes
  <2>3. ~Queued(n)' /\ ~Running(n)'
    BY <1>0, <1>1, <2>1, SchedulerAssumption DEF FlagInv, Queued, Running, WorkTypes
  <2>4. \A m \in Nodes \ {n} : Queued(m)' = Queued(m) /\ Running(m)' = Running(m)
    BY <1>0, <1>1, <2>1, SchedulerAssumption DEF Queued, Running, WorkTypes
  <2>5. \A m \in Nodes : FlagInv(m)'
    BY <1>1, <2>1, <2>3, <2>4 DEF PlaceInv, FlagInv, WorkTypes
  <2> QED BY <2>2, <2>5 DEF PlaceInv
<1> QED BY <1>2, <1>3

LEMMA PopNodePlace ==
  ASSUME TypeInv, PlaceInv, NEW t \in Threads, HoldInv(t), PopNode(t) PROVE PlaceInv'
<1>1. /\ WorkTypes /\ QueueInv(t) /\ queue_nodes[t] \in Seq(Nodes) /\ pc[t] = "pop"
      /\ current_node[t] = NULL
  BY DEF TypeInv, WorkTypes, PlaceInv, PopNode, At, HoldInv, RunLabels, Activating
<1>2. CASE queue_nodes[t] = <<>>
  <2>1. UNCHANGED nodeVars
    BY <1>2 DEF PopNode, nodeVars
  <2> QED BY <2>1, QuietPlace
<1>3. CASE queue_nodes[t] # <<>>
  <2>0. PICK q, r, n : /\ q = queue_nodes[t] /\ n = Head(q) /\ r = Tail(q)
    OBVIOUS
  <2>1. /\ n = q[1] /\ Len(q) \in Nat \ {0} /\ DOMAIN q = 1 .. Len(q)
        /\ DOMAIN r = 1 .. Len(q) - 1 /\ \A i \in DOMAIN r : r[i] = q[i + 1]
    BY <1>1, <1>3, <2>0
  <2>2. n \in Nodes /\ Owner[n] = t /\ Queued(n)
    BY <1>1, <2>0, <2>1 DEF QueueInv, Queued
  <2>3. FlagInv(n) /\ in_queue[n]
    BY <2>2 DEF PlaceInv, FlagInv
  <2>4. /\ queue_nodes' = [queue_nodes EXCEPT ![t] = r] /\ node_queue' = node_queue
        /\ \/ /\ node_queue[n] > 0 /\ in_queue' = in_queue
              /\ current_node' = [current_node EXCEPT ![t] = n]
           \/ /\ ~(node_queue[n] > 0) /\ in_queue' = [in_queue EXCEPT ![n] = FALSE]
              /\ current_node' = current_node
    BY <1>3, <2>0 DEF PopNode
  <2>5. /\ \A i \in DOMAIN q : Owner[q[i]] = t
        /\ \A i, j \in DOMAIN q : q[i] = q[j] => i = j
    BY <1>1, <2>0 DEF QueueInv
  <2>6. \A i \in DOMAIN r : r[i] # n /\ Owner[r[i]] = t
    BY <2>1, <2>5
  <2>7. \A i, j \in DOMAIN r : r[i] = r[j] => i = j
    BY <2>1, <2>5
  <2>8. \A m \in Nodes : (\E i \in DOMAIN q : q[i] = m) <=> m = n \/ \E i \in DOMAIN r : r[i] = m
    <3>1. \A i \in DOMAIN q : i = 1 \/ (i - 1 \in DOMAIN r /\ r[i - 1] = q[i])
      BY <2>1
    <3>2. 1 \in DOMAIN q /\ \A i \in DOMAIN r : i + 1 \in DOMAIN q
      BY <2>1
    <3> QED BY <2>1, <3>1, <3>2
  <2>9. queue_nodes'[t] = r /\ \A u \in Threads \ {t} : queue_nodes'[u] = queue_nodes[u]
    BY <1>1, <2>4 DEF WorkTypes
  <2>10. \A u \in Threads : QueueInv(u)'
    <3>1. current_node'[t] # NULL => Owner[current_node'[t]] = t
      BY <1>1, <2>2, <2>4 DEF WorkTypes
    <3>2. QueueInv(t)'
      BY <2>6, <2>7, <2>9, <3>1 DEF QueueInv
    <3> QED BY <1>1, <2>4, <2>9, <3>2 DEF PlaceInv, QueueInv, WorkTypes
  <2>11. \A m \in Nodes \ {n} : Queued(m)' = Queued(m) /\ Running(m)' = Running(m)
    <3> SUFFICES ASSUME NEW m \in Nodes \ {n}
                 PROVE  Queued(m)' = Queued(m) /\ Running(m)' = Running(m)
      OBVIOUS
    <3>1. CASE Owner[m] # t
      BY <1>1, <2>4, <2>9, <3>1, SchedulerAssumption DEF Queued, Running, WorkTypes
    <3>2. CASE Owner[m] = t
      <4>1. Queued(m)' = Queued(m)
        <5>1. Queued(m) = \E i \in DOMAIN q : q[i] = m
          BY <2>0, <3>2 DEF Queued
        <5>2. Queued(m)' = \E i \in DOMAIN r : r[i] = m
          BY <2>9, <3>2 DEF Queued
        <5> QED BY <2>8, <5>1, <5>2
      <4>2. Running(m)' = Running(m)
        BY <1>1, <2>4, <3>2, SchedulerAssumption DEF Running, WorkTypes
      <4> QED BY <4>1, <4>2
    <3> QED BY <3>1, <3>2
  <2>12. ~Queued(n)'
    BY <2>2, <2>6, <2>9 DEF Queued
  <2>13. \A m \in Nodes \ {n} : FlagInv(m)'
    BY <1>1, <2>2, <2>4, <2>11 DEF PlaceInv, FlagInv, WorkTypes
  <2>14. FlagInv(n)'
    <3>1. CASE node_queue[n] > 0
      <4>1. Running(n)' /\ in_queue'[n]
        BY <1>1, <2>2, <2>3, <2>4, <3>1 DEF Running, WorkTypes
      <4> QED BY <2>12, <4>1 DEF FlagInv
    <3>2. CASE ~(node_queue[n] > 0)
      <4>1. ~Running(n)' /\ ~in_queue'[n] /\ ~(node_queue'[n] > 0)
        BY <1>1, <2>2, <2>4, <3>2, SchedulerAssumption DEF Running, WorkTypes
      <4> QED BY <2>12, <4>1 DEF FlagInv
    <3> QED BY <3>1, <3>2
  <2> QED BY <2>10, <2>13, <2>14 DEF PlaceInv
<1> QED BY <1>2, <1>3

LEMMA RunNodePlace ==
  ASSUME TypeInv, PlaceInv, NEW t \in Threads, RunNode(t) PROVE PlaceInv'
<1> DEFINE n == current_node[t]
<1>1. WorkTypes /\ QueueInv(t) /\ n \in Nodes
  BY DEF TypeInv, WorkTypes, PlaceInv, DataInv, RunNode, At
<1>2. PICK k \in 1 .. node_queue[n] : node_queue' = [node_queue EXCEPT ![n] = @ - k]
  BY DEF RunNode
<1>3. /\ UNCHANGED <<queue_nodes, in_queue, current_node>>
      /\ Owner[n] = t
  BY <1>1, SchedulerAssumption DEF RunNode, QueueInv
<1>4. in_queue[n]
  BY <1>1, <1>3 DEF PlaceInv, FlagInv, Running
<1>5. \A m \in Nodes : node_queue'[m] > 0 => in_queue[m]
  BY <1>1, <1>2, <1>4 DEF PlaceInv, FlagInv, WorkTypes
<1> QED BY <1>3, <1>5 DEF PlaceInv, QueueInv, FlagInv, Queued, Running

(* A tuple in a buffer or in the hand of a thread.                          *)

LEMMA TakeTuple ==
  ASSUME TypeInv, NEW t \in Threads, TupleInv(t), RetrieveTake(t)
  PROVE  TupleInv(t)' /\ \A u \in Threads \ {t} : buffer'[u] = buffer[u]
<1>1. WorkTypes /\ ControlTypes /\ buffer[t] \in Seq(Nodes) /\ ret[t] \in {"check", "idle"}
  BY DEF TypeInv, WorkTypes, ControlInv, RetrieveTake, At
<1>2. CASE buffer[t] = <<>>
  BY <1>1, <1>2 DEF RetrieveTake, At, Goto, TupleInv, ControlTypes
<1>3. CASE buffer[t] # <<>>
  <2>0. PICK b, r, n : b = buffer[t] /\ n = Head(b) /\ r = Tail(b)
    OBVIOUS
  <2>1. /\ n = b[1] /\ 1 \in DOMAIN b
        /\ \A i \in DOMAIN r : i + 1 \in DOMAIN b /\ r[i] = b[i + 1]
    BY <1>1, <1>3, <2>0
  <2>2. /\ buffer' = [buffer EXCEPT ![t] = r] /\ inhand' = [inhand EXCEPT ![t] = n]
        /\ pc' = [pc EXCEPT ![t] = "add"]
    BY <1>3, <2>0 DEF RetrieveTake, Goto
  <2>3. buffer'[t] = r /\ inhand'[t] = n /\ pc'[t] = "add"
    BY <1>1, <2>2 DEF WorkTypes, ControlTypes
  <2>4. Owner[n] = t /\ \A i \in DOMAIN r : Owner[r[i]] = t
    BY <2>0, <2>1 DEF TupleInv
  <2> QED BY <1>1, <2>2, <2>3, <2>4 DEF TupleInv, WorkTypes
<1> QED BY <1>2, <1>3

LEMMA PushTuple ==
  ASSUME TypeInv, \A u \in Threads : TupleInv(u), NEW t \in Threads, PushOther(t)
  PROVE  \A u \in Threads : TupleInv(u)'
<1>0. PICK v \in Threads, n \in Nodes : v = tgt[t] /\ n = inhand[t]
  BY DEF TypeInv, ControlTypes, DataInv, PushOther, At
<1>1. WorkTypes /\ ControlTypes /\ buffer[v] \in Seq(Nodes) /\ pc[t] = "push" /\ Owner[n] = v
  BY <1>0 DEF TypeInv, WorkTypes, TupleInv, PushOther, At
<1>2. /\ buffer' = [buffer EXCEPT ![v] = Append(@, n)] /\ tgt' = tgt
      /\ inhand' = [inhand EXCEPT ![t] = NULL] /\ pc' = [pc EXCEPT ![t] = "other_lock"]
  BY <1>0 DEF PushOther, Goto
<1>3. \A i \in DOMAIN Append(buffer[v], n) : Owner[Append(buffer[v], n)[i]] = v
  BY <1>1 DEF TupleInv
<1>4. \A u \in Threads : \A i \in DOMAIN buffer'[u] : Owner[buffer'[u][i]] = u
  BY <1>1, <1>2, <1>3 DEF TupleInv, WorkTypes
<1>5. \A u \in Threads : /\ pc'[u] = "add" => Owner[inhand'[u]] = u
                         /\ pc'[u] = "push" => Owner[inhand'[u]] = tgt'[u]
  BY <1>1, <1>2 DEF TupleInv, ControlTypes
<1> QED BY <1>4, <1>5 DEF TupleInv

LEMMA StepPlace ==
  ASSUME TypeInv, NodeInv, NEW t \in Threads, Step(t) PROVE PlaceInv'
<1> DEFINE Still == UNCHANGED nodeVars
           Adds == \E n \in OwnNodes(t) : AddWork(t, n) /\ current_node' = current_node
<1>0. PlaceInv /\ HoldInv(t) /\ TupleInv(t) /\ ControlTypes /\ DataInv(t)
  BY DEF NodeInv, TypeInv
<1> USE DEF workVars
<1>1. ASSUME InitDone(t) PROVE Still
  BY <1>1 DEF InitDone
<1>2. ASSUME Synchronize(t) PROVE Still
  BY <1>2 DEF Synchronize
<1>3. ASSUME RetrieveTake(t) PROVE Still
  BY <1>3 DEF RetrieveTake
<1>4. ASSUME CheckWork(t) PROVE Still
  BY <1>4 DEF CheckWork
<1>5. ASSUME BusyWait(t) PROVE Still
  BY <1>5 DEF BusyWait
<1>6. ASSUME MakeInactiveTest(t) PROVE Still
  BY <1>6 DEF MakeInactiveTest
<1>7. ASSUME MakeInactiveLock(t) PROVE Still
  BY <1>7 DEF MakeInactiveLock
<1>8. ASSUME MakeInactiveEnter(t) PROVE Still
  BY <1>8 DEF MakeInactiveEnter
<1>9. ASSUME MakeInactiveCount(t) PROVE Still
  BY <1>9 DEF MakeInactiveCount
<1>10. ASSUME MakeInactiveDone(t) PROVE Still
  BY <1>10 DEF MakeInactiveDone
<1>11. ASSUME CheckTermination(t) PROVE Still
  BY <1>11 DEF CheckTermination
<1>12. ASSUME WaitFinished(t) PROVE Still
  BY <1>12 DEF WaitFinished
<1>13. ASSUME WaitWoke(t) PROVE Still
  BY <1>13 DEF WaitWoke
<1>14. ASSUME WakeTest(t) PROVE Still
  BY <1>14 DEF WakeTest
<1>15. ASSUME WakeLock(t) PROVE Still
  BY <1>15 DEF WakeLock
<1>16. ASSUME SetActiveAssert(t) PROVE Still
  BY <1>16 DEF SetActiveAssert
<1>17. ASSUME SetActiveStore(t) PROVE Still
  BY <1>17 DEF SetActiveStore
<1>18. ASSUME SetActiveCount(t) PROVE Still
  BY <1>18 DEF SetActiveCount
<1>19. ASSUME NewWorkOther(t) PROVE Still
  BY <1>19 DEF NewWorkOther
<1>20. ASSUME PushOther(t) PROVE Still
  BY <1>20 DEF PushOther
<1>21. ASSUME OtherLock(t) PROVE Still
  BY <1>21 DEF OtherLock
<1>22. ASSUME OtherTestQueue(t) PROVE Still
  BY <1>22 DEF OtherTestQueue
<1>23. ASSUME OtherTestBuffer(t) PROVE Still
  BY <1>23 DEF OtherTestBuffer
<1>24. ASSUME FinishWork(t) PROVE Still
  BY <1>24 DEF FinishWork
<1>25. ASSUME EndIteration(t) PROVE Still
  BY <1>25 DEF EndIteration
<1>26. ASSUME StartRound(t) PROVE Still
  BY <1>26 DEF StartRound
<1>27. ASSUME RoundHasWork(t) PROVE Still
  BY <1>27 DEF RoundHasWork
<1>28. ASSUME EndRoundDec(t) PROVE Still
  BY <1>28 DEF EndRoundDec
<1>29. ASSUME LeaderDecides(t) PROVE Still
  BY <1>29 DEF LeaderDecides
<1>30. ASSUME LeaderResets(t) PROVE Still
  BY <1>30 DEF LeaderResets
<1>31. ASSUME LeaderReleases(t) PROVE Still
  BY <1>31 DEF LeaderReleases
<1>32. ASSUME FollowerReleased(t) PROVE Still
  BY <1>32 DEF FollowerReleased
<1>33. ASSUME End(t) PROVE Still
  BY <1>33 DEF End
<1>34. ASSUME InitNode(t) \/ NewWork(t) \/ GenerateAgg(t) PROVE Adds
  BY <1>34 DEF InitNode, NewWork, GenerateAgg
<1>35. ASSUME RetrieveAdd(t) PROVE Adds
  BY <1>0, <1>35 DEF RetrieveAdd, At, TupleInv, DataInv, ControlTypes, OwnNodes
<1>36. ASSUME Still PROVE PlaceInv'
  BY <1>0, <1>36, QuietPlace
<1>37. ASSUME Adds PROVE PlaceInv'
  BY <1>0, <1>37, AddWorkPlace
<1> HIDE DEF Still, Adds
<1> QED
  BY <1>0, <1>1, <1>2, <1>3, <1>4, <1>5, <1>6, <1>7, <1>8, <1>9, <1>10, <1>11, <1>12, <1>13,
     <1>14, <1>15, <1>16, <1>17, <1>18, <1>19, <1>20, <1>21, <1>22, <1>23, <1>24, <1>25, <1>26,
     <1>27, <1>28, <1>29, <1>30, <1>31, <1>32, <1>33, <1>34, <1>35, <1>36, <1>37,
     SetNextNodePlace, PopNodePlace, RunNodePlace DEF Step

LEMMA StepTuple ==
  ASSUME TypeInv, NodeInv, NEW t \in Threads, Step(t) PROVE \A u \in Threads : TupleInv(u)'
<1> DEFINE Still == buffer' = buffer /\ pc'[t] \notin {"add", "push"}
<1>0. /\ ControlTypes /\ ControlInv(t) /\ WorkTypes
      /\ \A u \in Threads : TupleInv(u)
  BY DEF NodeInv, TypeInv
<1> USE DEF At, Goto, Call, nodeVars, workVars, ctlVars, ControlTypes, ControlInv, Activating
<1>1. ASSUME InitNode(t) PROVE Still
  BY <1>0, <1>1 DEF InitNode
<1>2. ASSUME InitDone(t) PROVE Still
  BY <1>0, <1>2 DEF InitDone
<1>3. ASSUME Synchronize(t) PROVE Still
  BY <1>0, <1>3 DEF Synchronize
<1>4. ASSUME SetNextNode(t) PROVE Still
  BY <1>0, <1>4 DEF SetNextNode
<1>5. ASSUME RetrieveAdd(t) PROVE Still
  BY <1>0, <1>5 DEF RetrieveAdd
<1>6. ASSUME CheckWork(t) PROVE Still
  BY <1>0, <1>6 DEF CheckWork
<1>7. ASSUME PopNode(t) PROVE Still
  BY <1>0, <1>7 DEF PopNode
<1>8. ASSUME BusyWait(t) PROVE Still
  BY <1>0, <1>8 DEF BusyWait
<1>9. ASSUME MakeInactiveTest(t) PROVE Still
  BY <1>0, <1>9 DEF MakeInactiveTest
<1>10. ASSUME MakeInactiveLock(t) PROVE Still
  BY <1>0, <1>10 DEF MakeInactiveLock
<1>11. ASSUME MakeInactiveEnter(t) PROVE Still
  BY <1>0, <1>11 DEF MakeInactiveEnter
<1>12. ASSUME MakeInactiveCount(t) PROVE Still
  BY <1>0, <1>12 DEF MakeInactiveCount
<1>13. ASSUME MakeInactiveDone(t) PROVE Still
  BY <1>0, <1>13 DEF MakeInactiveDone
<1>14. ASSUME CheckTermination(t) PROVE Still
  BY <1>0, <1>14 DEF CheckTermination
<1>15. ASSUME WaitFinished(t) PROVE Still
  BY <1>0, <1>15 DEF WaitFinished
<1>16. ASSUME WaitWoke(t) PROVE Still
  BY <1>0, <1>16 DEF WaitWoke
<1>17. ASSUME WakeTest(t) PROVE Still
  BY <1>0, <1>17 DEF WakeTest
<1>18. ASSUME WakeLock(t) PROVE Still
  BY <1>0, <1>18 DEF WakeLock
<1>19. ASSUME SetActiveAssert(t) PROVE Still
  BY <1>0, <1>19 DEF SetActiveAssert
<1>20. ASSUME SetActiveStore(t) PROVE Still
  BY <1>0, <1>20 DEF SetActiveStore
<1>21. ASSUME SetActiveCount(t) PROVE Still
  BY <1>0, <1>21 DEF SetActiveCount
<1>22. ASSUME RunNode(t) PROVE Still
  BY <1>0, <1>22 DEF RunNode
<1>23. ASSUME NewWork(t) PROVE Still
  BY <1>0, <1>23 DEF NewWork
<1>24. ASSUME OtherLock(t) PROVE Still
  BY <1>0, <1>24 DEF OtherLock
<1>25. ASSUME OtherTestQueue(t) PROVE Still
  BY <1>0, <1>25 DEF OtherTestQueue
<1>26. ASSUME OtherTestBuffer(t) PROVE Still
  BY <1>0, <1>26 DEF OtherTestBuffer
<1>27. ASSUME FinishWork(t) PROVE Still
  BY <1>0, <1>27 DEF FinishWork
<1>28. ASSUME EndIteration(t) PROVE Still
  BY <1>0, <1>28 DEF EndIteration
<1>29. ASSUME StartRound(t) PROVE Still
  BY <1>0, <1>29 DEF StartRound
<1>30. ASSUME GenerateAgg(t) PROVE Still
  BY <1>0, <1>30 DEF GenerateAgg
<1>31. ASSUME RoundHasWork(t) PROVE Still
  BY <1>0, <1>31 DEF RoundHasWork
<1>32. ASSUME EndRoundDec(t) PROVE Still
  BY <1>0, <1>32 DEF EndRoundDec
<1>33. ASSUME LeaderDecides(t) PROVE Still
  BY <1>0, <1>33 DEF LeaderDecides
<1>34. ASSUME LeaderResets(t) PROVE Still
  BY <1>0, <1>34 DEF LeaderResets
<1>35. ASSUME LeaderReleases(t) PROVE Still
  BY <1>0, <1>35 DEF LeaderReleases
<1>36. ASSUME FollowerReleased(t) PROVE Still
  BY <1>0, <1>36 DEF FollowerReleased
<1>37. ASSUME End(t) PROVE Still
  BY <1>0, <1>37 DEF End
<1>38. ASSUME \A u \in Threads \ {t} : buffer'[u] = buffer[u]
       PROVE  \A u \in Threads \ {t} : TupleInv(u)'
  BY <1>0, <1>38, StepLocal DEF TupleInv
<1>39. ASSUME Still PROVE \A u \in Threads : TupleInv(u)'
  <2>1. TupleInv(t)'
    BY <1>0, <1>39 DEF TupleInv
  <2> QED BY <1>38, <1>39, <2>1
<1>40. ASSUME NewWorkOther(t) PROVE \A u \in Threads : TupleInv(u)'
  <2>1. PICK n \in Nodes : /\ inhand' = [inhand EXCEPT ![t] = n]
                           /\ tgt' = [tgt EXCEPT ![t] = Owner[n]]
    BY <1>40 DEF NewWorkOther
  <2>2. buffer' = buffer /\ pc' = [pc EXCEPT ![t] = "push"]
    BY <1>40 DEF NewWorkOther
  <2>3. TupleInv(t)'
    BY <1>0, <2>1, <2>2 DEF TupleInv
  <2> QED BY <1>38, <2>2, <2>3
<1>41. ASSUME RetrieveTake(t) PROVE \A u \in Threads : TupleInv(u)'
  BY <1>0, <1>38, <1>41, TakeTuple
<1>42. ASSUME PushOther(t) PROVE \A u \in Threads : TupleInv(u)'
  BY <1>0, <1>42, PushTuple
<1> HIDE DEF Still
<1> QED
  BY <1>1, <1>2, <1>3, <1>4, <1>5, <1>6, <1>7, <1>8, <1>9, <1>10, <1>11, <1>12, <1>13, <1>14,
     <1>15, <1>16, <1>17, <1>18, <1>19, <1>20, <1>21, <1>22, <1>23, <1>24, <1>25, <1>26, <1>27,
     <1>28, <1>29, <1>30, <1>31, <1>32, <1>33, <1>34, <1>35, <1>36, <1>37, <1>39, <1>40, <1>41,
     <1>42 DEF Step

LEMMA InitNodeInv == Init => NodeInv
<1> SUFFICES ASSUME Init PROVE NodeInv
  OBVIOUS
<1>1. \A t \in Threads : /\ queue_nodes[t] = <<>> /\ buffer[t] = <<>> /\ current_node[t] = NULL
                         /\ inhand[t] = NULL /\ pc[t] = "init"
  BY DEF Init
<1>2. \A t \in Threads : QueueInv(t) /\ TupleInv(t) /\ HoldInv(t)
  BY <1>1 DEF QueueInv, TupleInv, HoldInv, Activating
<1>3. \A n \in Nodes : Owner[n] \in Threads /\ n # NULL /\ node_queue[n] = 0 /\ ~in_queue[n]
  BY SchedulerAssumption DEF Init
<1>4. \A n \in Nodes : FlagInv(n)
  BY <1>1, <1>3 DEF FlagInv, Queued, Running
<1> QED BY <1>2, <1>4 DEF NodeInv, PlaceInv

LEMMA NextNodeInv == TypeInv /\ NodeInv /\ [Next]_vars => NodeInv'
<1> SUFFICES ASSUME TypeInv, NodeInv, [Next]_vars PROVE NodeInv'
  OBVIOUS
<1>1. ASSUME NEW t \in Threads, Step(t) PROVE NodeInv'
  <2>1. HoldInv(t)'
    BY <1>1, StepHold DEF NodeInv
  <2>2. \A u \in Threads \ {t} : HoldInv(u)'
    BY <1>1, StepLocal DEF NodeInv, HoldInv
  <2> QED BY <1>1, <2>1, <2>2, StepPlace, StepTuple DEF NodeInv
<1>2. ASSUME UNCHANGED <<workVars, ctlVars>> PROVE NodeInv'
  <2>1. PlaceInv'
    BY <1>2, QuietPlace DEF NodeInv, workVars
  <2> QED BY <1>2, <2>1 DEF NodeInv, TupleInv, HoldInv, workVars, nodeVars, ctlVars
<1>3. ASSUME NEW t \in Threads, Abort(t) PROVE NodeInv'
  BY <1>2, <1>3 DEF Abort
<1>4. CASE UNCHANGED vars
  BY <1>2, <1>4 DEF vars
<1> QED BY <1>1, <1>3, <1>4 DEF Next, Thread, Terminated

(***************************************************************************)
(* A node is in the queue of its owner once, or is the node being run, if  *)
(* its flag is set, and in neither place if it is not; a node that has     *)
(* tuples has its flag set.  So no tuple of a node is ever forgotten, and  *)
(* no node is queued twice, however new_work, retrieve_tuples and new_agg   *)
(* follow each other.                                                      *)
(***************************************************************************)
THEOREM EveryNodeAccountedFor == Spec => []NodesAccountedFor
<1>1. TypeInv /\ NodeInv /\ [Next]_vars => (TypeInv /\ NodeInv)'
  BY NextTypeInv, NextNodeInv
<1>2. TypeInv /\ NodeInv => NodesAccountedFor
  <2> SUFFICES ASSUME TypeInv, NodeInv, NEW n \in Nodes
               PROVE  LET queued == {i \in DOMAIN queue_nodes[Owner[n]] :
                                       queue_nodes[Owner[n]][i] = n}
                          places == Cardinality(queued)
                                    + IF current_node[Owner[n]] = n THEN 1 ELSE 0
                      IN /\ node_queue[n] > 0 => in_queue[n]
                         /\ places = IF in_queue[n] THEN 1 ELSE 0
    BY DEF NodesAccountedFor
  <2> DEFINE queued == {i \in DOMAIN queue_nodes[Owner[n]] : queue_nodes[Owner[n]][i] = n}
  <2>1. FlagInv(n) /\ Owner[n] \in Threads /\ QueueInv(Owner[n])
    BY SchedulerAssumption DEF NodeInv, PlaceInv
  <2>2. Cardinality(queued) = IF Queued(n) THEN 1 ELSE 0
    <3>1. CASE Queued(n)
      <4>1. PICK i \in DOMAIN queue_nodes[Owner[n]] : queue_nodes[Owner[n]][i] = n
        BY <3>1 DEF Queued
      <4>2. queued = {i}
        BY <2>1, <4>1 DEF QueueInv
      <4> QED BY <3>1, <4>2, FS_Singleton
    <3>2. CASE ~Queued(n)
      <4>1. queued = {}
        BY <3>2 DEF Queued
      <4> QED BY <3>2, <4>1, FS_EmptySet
    <3> QED BY <3>1, <3>2
  <2> HIDE DEF queued
  <2>3. /\ node_queue[n] > 0 => in_queue[n]
        /\ Cardinality(queued) + (IF current_node[Owner[n]] = n THEN 1 ELSE 0)
             = IF in_queue[n] THEN 1 ELSE 0
    BY <2>1, <2>2 DEF FlagInv, Running
  <2> QED BY <2>3 DEF queued
<1> QED BY <1>1, <1>2, InitTypeInv, InitNodeInv, PTL DEF Spec

------------------------------------------------------------------------------
(* No tuple is left behind.                                                 *)

LEMMA InitWorkInv == Init => WorkInv
BY DEF Init, WorkInv, LeaveInv, RestInv, RoundEndLabels, Activating

\* A step of a thread that is not in END_ROUND afterwards and sends nothing,
\* or goes on sending.
LEMMA QuietRest ==
  ASSUME NEW t \in Threads, \A u \in Threads : RestInv(u),
         \A u \in Threads \ {t} :
           /\ pc'[u] = pc[u] /\ ret'[u] = ret[u] /\ tgt'[u] = tgt[u]
           /\ queue_nodes'[u] = queue_nodes[u] /\ buffer'[u] = buffer[u] /\ tstate'[u] = tstate[u],
         pc[t] \in SendLabels => pc'[t] \in SendLabels /\ tgt'[t] = tgt[t],
         pc'[t] \notin RoundEndLabels,
         pc'[t] \in Activating /\ ret'[t] = "dec" => tgt'[t] = t,
         pc'[t] = "set_count" /\ ret'[t] = "dec" => is_active(t)'
  PROVE  \A u \in Threads : RestInv(u)'
<1>1. \A u, v \in Threads : u # t /\ pc[v] \in SendLabels /\ tgt[v] = u =>
        pc'[v] \in SendLabels /\ tgt'[v] = u
  OBVIOUS
<1>2. \A u \in Threads \ {t} : RestInv(u)'
  BY <1>1 DEF RestInv, is_active, is_inactive
<1>3. RestInv(t)'
  BY DEF RestInv
<1> QED BY <1>2, <1>3

\* A step of a thread in END_ROUND that stays there.
LEMMA RoundRest ==
  ASSUME NEW t \in Threads, \A u \in Threads : RestInv(u),
         \A u \in Threads \ {t} : pc'[u] = pc[u] /\ ret'[u] = ret[u],
         UNCHANGED <<tgt, queue_nodes, buffer, tstate>>,
         pc[t] \in RoundEndLabels, pc'[t] \in RoundEndLabels
  PROVE  \A u \in Threads : RestInv(u)'
<1>1. \A v \in Threads : pc[v] \in SendLabels => pc'[v] \in SendLabels
  BY DEF SendLabels, RoundEndLabels
<1>2. \A u \in Threads \ {t} : RestInv(u)'
  BY <1>1 DEF RestInv, is_active, is_inactive
<1>3. RestInv(t)'
  BY <1>1 DEF RestInv, is_active, is_inactive, RoundEndLabels, Activating
<1> QED BY <1>2, <1>3

LEMMA StepRest ==
  ASSUME TypeInv, NEW t \in Threads, \A u \in Threads : RestInv(u), Step(t)
  PROVE  \A u \in Threads : RestInv(u)'
<1> DEFINE Still ==
             /\ \A u \in Threads \ {t} : buffer'[u] = buffer[u] /\ tstate'[u] = tstate[u]
             /\ pc[t] \in SendLabels => pc'[t] \in SendLabels /\ tgt'[t] = tgt[t]
             /\ pc'[t] \notin RoundEndLabels
             /\ pc'[t] \in Activating /\ ret'[t] = "dec" => tgt'[t] = t
             /\ pc'[t] = "set_count" /\ ret'[t] = "dec" => is_active(t)'
           Stays ==
             /\ UNCHANGED <<tgt, queue_nodes, buffer, tstate>>
             /\ pc[t] \in RoundEndLabels /\ pc'[t] \in RoundEndLabels
           Goal == \A u \in Threads : RestInv(u)'
<1>0. ControlTypes /\ ControlInv(t) /\ WorkTypes /\ SyncTypes /\ RestInv(t)
  BY DEF TypeInv
<1>a. \A u \in Threads \ {t} :
        /\ pc'[u] = pc[u] /\ ret'[u] = ret[u] /\ tgt'[u] = tgt[u]
        /\ queue_nodes'[u] = queue_nodes[u]
  BY StepLocal
<1>b. ASSUME Still PROVE Goal
  BY <1>a, <1>b, QuietRest
<1>c. ASSUME Stays PROVE Goal
  BY <1>a, <1>c, RoundRest
<1> USE DEF At, Goto, Call, syncVars, nodeVars, workVars, ctlVars, ControlTypes, ControlInv,
            WorkTypes, SyncTypes, Activating, SendLabels, RoundEndLabels
<1>1. ASSUME InitNode(t) PROVE Still
  BY <1>0, <1>1 DEF InitNode
<1>2. ASSUME InitDone(t) PROVE Still
  BY <1>0, <1>2 DEF InitDone
<1>3. ASSUME Synchronize(t) PROVE Still
  BY <1>0, <1>3 DEF Synchronize
<1>4. ASSUME SetNextNode(t) PROVE Still
  BY <1>0, <1>4 DEF SetNextNode
<1>5. ASSUME RetrieveTake(t) PROVE Still
  BY <1>0, <1>5 DEF RetrieveTake
<1>6. ASSUME RetrieveAdd(t) PROVE Still
  BY <1>0, <1>6 DEF RetrieveAdd
<1>7. ASSUME CheckWork(t) PROVE Still
  BY <1>0, <1>7 DEF CheckWork
<1>8. ASSUME PopNode(t) PROVE Still
  BY <1>0, <1>8 DEF PopNode
<1>9. ASSUME BusyWait(t) PROVE Still
  BY <1>0, <1>9 DEF BusyWait
<1>10. ASSUME MakeInactiveTest(t) PROVE Still
  BY <1>0, <1>10 DEF MakeInactiveTest
<1>11. ASSUME MakeInactiveLock(t) PROVE Still
  BY <1>0, <1>11 DEF MakeInactiveLock
<1>12. ASSUME MakeInactiveEnter(t) PROVE Still
  BY <1>0, <1>12 DEF MakeInactiveEnter
<1>13. ASSUME MakeInactiveCount(t) PROVE Still
  BY <1>0, <1>13 DEF MakeInactiveCount
<1>14. ASSUME MakeInactiveDone(t) PROVE Still
  BY <1>0, <1>14 DEF MakeInactiveDone
<1>15. ASSUME CheckTermination(t) PROVE Still
  BY <1>0, <1>15 DEF CheckTermination
<1>16. ASSUME WaitFinished(t) PROVE Still
  BY <1>0, <1>16 DEF WaitFinished
<1>17. ASSUME WaitWoke(t) PROVE Still
  BY <1>0, <1>17 DEF WaitWoke
<1>18. ASSUME WakeTest(t) PROVE Still
  BY <1>0, <1>18 DEF WakeTest
<1>19. ASSUME WakeLock(t) PROVE Still
  BY <1>0, <1>19 DEF WakeLock
<1>20. ASSUME SetActiveAssert(t) PROVE Still
  BY <1>0, <1>20 DEF SetActiveAssert, RestInv
<1>21. ASSUME RunNode(t) PROVE Still
  BY <1>0, <1>21 DEF RunNode
<1>22. ASSUME NewWork(t) PROVE Still
  BY <1>0, <1>22 DEF NewWork
<1>23. ASSUME NewWorkOther(t) PROVE Still
  BY <1>0, <1>23 DEF NewWorkOther
<1>24. ASSUME OtherLock(t) PROVE Still
  BY <1>0, <1>24 DEF OtherLock
<1>25. ASSUME FinishWork(t) PROVE Still
  BY <1>0, <1>25 DEF FinishWork
<1>26. ASSUME EndIteration(t) PROVE Still
  BY <1>0, <1>26 DEF EndIteration
<1>27. ASSUME StartRound(t) PROVE Still
  BY <1>0, <1>27 DEF StartRound
<1>28. ASSUME GenerateAgg(t) PROVE Still
  BY <1>0, <1>28 DEF GenerateAgg
<1>29. ASSUME LeaderReleases(t) PROVE Still
  BY <1>0, <1>29 DEF LeaderReleases
<1>30. ASSUME EndRoundDec(t) PROVE Stays
  BY <1>0, <1>30 DEF EndRoundDec
<1>31. ASSUME LeaderDecides(t) PROVE Stays
  BY <1>0, <1>31 DEF LeaderDecides
<1>32. ASSUME LeaderResets(t) PROVE Stays
  BY <1>0, <1>32 DEF LeaderResets
<1>33. ASSUME End(t) PROVE Stays
  BY <1>0, <1>33 DEF End
<1>34. ASSUME FollowerReleased(t) PROVE Still \/ Stays
  BY <1>0, <1>34 DEF FollowerReleased
<1>35. ASSUME OtherTestQueue(t) PROVE Goal
  <2>1. CASE is_active(tgt[t])
    <3>1. /\ \A v \in Threads \ {t} : pc[v] \in SendLabels => pc'[v] \in SendLabels /\ tgt'[v] = tgt[v]
          /\ pc'[t] = "emit" /\ UNCHANGED <<tstate, buffer, queue_nodes, tgt, ret>>
      BY <1>0, <1>a, <1>35, <2>1 DEF OtherTestQueue, is_active, is_inactive
    <3>2. \A u \in Threads \ {t} : RestInv(u)'
      BY <1>a, <2>1, <3>1 DEF RestInv, is_active, is_inactive
    <3>3. RestInv(t)'
      BY <3>1 DEF RestInv
    <3> QED BY <3>2, <3>3
  <2>2. CASE ~is_active(tgt[t])
    <3>1. Still
      BY <1>0, <1>35, <2>2 DEF OtherTestQueue
    <3> QED BY <1>b, <3>1
  <2> QED BY <2>1, <2>2
<1>36. ASSUME OtherTestBuffer(t) PROVE Goal
  <2>1. CASE buffer[tgt[t]] = <<>>
    <3>1. /\ \A v \in Threads \ {t} : pc[v] \in SendLabels => pc'[v] \in SendLabels /\ tgt'[v] = tgt[v]
          /\ pc'[t] = "emit" /\ UNCHANGED <<tstate, buffer, queue_nodes, tgt, ret>>
      BY <1>0, <1>a, <1>36, <2>1 DEF OtherTestBuffer
    <3>2. \A u \in Threads \ {t} : RestInv(u)'
      BY <1>a, <2>1, <3>1 DEF RestInv, is_active, is_inactive
    <3>3. RestInv(t)'
      BY <3>1 DEF RestInv
    <3> QED BY <3>2, <3>3
  <2>2. CASE buffer[tgt[t]] # <<>>
    <3>1. Still
      BY <1>0, <1>36, <2>2 DEF OtherTestBuffer
    <3> QED BY <1>b, <3>1
  <2> QED BY <2>1, <2>2
<1>37. ASSUME SetActiveStore(t) PROVE Goal
  <2>1. /\ pc[t] = "set_tstate" /\ pc'[t] = "set_count" /\ UNCHANGED <<buffer, queue_nodes, tgt, ret>>
        /\ tstate' = [tstate EXCEPT ![tgt[t]] = "ACTIVE"]
    BY <1>0, <1>37 DEF SetActiveStore
  <2>2. is_active(tgt[t])' /\ \A u \in Threads : u # tgt[t] => tstate'[u] = tstate[u]
    BY <1>0, <2>1 DEF is_active
  <2>3. \A u \in Threads \ {t} : RestInv(u)'
    <3> SUFFICES ASSUME NEW u \in Threads \ {t} PROVE RestInv(u)'
      OBVIOUS
    <3>1. CASE u = tgt[t]
      BY <1>a, <2>1, <2>2, <3>1 DEF RestInv, is_active, is_inactive
    <3>2. CASE u # tgt[t]
      BY <1>a, <2>1, <2>2, <3>2 DEF RestInv, is_active, is_inactive
    <3> QED BY <3>1, <3>2
  <2>4. RestInv(t)'
    BY <1>0, <2>1, <2>2 DEF RestInv
  <2> QED BY <2>3, <2>4
<1>38. ASSUME SetActiveCount(t) PROVE Goal
  <2>1. CASE ret[t] # "dec"
    <3>1. Still
      BY <1>0, <1>38, <2>1 DEF SetActiveCount
    <3> QED BY <1>b, <3>1
  <2>2. CASE ret[t] = "dec"
    <3>1. /\ pc[t] = "set_count" /\ pc'[t] = "dec" /\ UNCHANGED <<tstate, buffer, queue_nodes, tgt>>
      BY <1>0, <1>38, <2>2 DEF SetActiveCount
    <3>2. is_active(t)'
      BY <1>0, <2>2, <3>1 DEF RestInv, is_active
    <3>3. RestInv(t)'
      BY <3>1, <3>2 DEF RestInv, is_active, is_inactive
    <3>4. \A u \in Threads \ {t} : RestInv(u)'
      BY <1>a, <3>1 DEF RestInv, is_active, is_inactive
    <3> QED BY <3>3, <3>4
  <2> QED BY <2>1, <2>2
<1>39. ASSUME PushOther(t) PROVE Goal
  <2>1. /\ pc[t] = "push" /\ pc'[t] = "other_lock" /\ UNCHANGED <<tstate, queue_nodes, tgt, ret>>
        /\ \A u \in Threads : u # tgt[t] => buffer'[u] = buffer[u]
    BY <1>0, <1>39 DEF PushOther
  <2>2. \A u \in Threads \ {t} : RestInv(u)'
    <3> SUFFICES ASSUME NEW u \in Threads \ {t} PROVE RestInv(u)'
      OBVIOUS
    <3>1. CASE u = tgt[t]
      BY <1>a, <2>1, <3>1 DEF RestInv, is_active, is_inactive
    <3>2. CASE u # tgt[t]
      BY <1>a, <2>1, <3>2 DEF RestInv, is_active, is_inactive
    <3> QED BY <3>1, <3>2
  <2>3. RestInv(t)'
    BY <2>1 DEF RestInv
  <2> QED BY <2>2, <2>3
<1>40. ASSUME RoundHasWork(t) PROVE Goal
  <2>1. CASE has_work(t)
    <3>1. Still
      BY <1>0, <1>40, <2>1 DEF RoundHasWork
    <3> QED BY <1>b, <3>1
  <2>2. CASE ~has_work(t)
    <3>1. /\ pc[t] = "aggs" /\ pc'[t] = "dec" /\ UNCHANGED <<tstate, buffer, queue_nodes, tgt, ret>>
      BY <1>0, <1>40, <2>2 DEF RoundHasWork
    <3>2. RestInv(t)'
      BY <2>2, <3>1 DEF RestInv, has_work
    <3>3. \A u \in Threads \ {t} : RestInv(u)'
      BY <1>a, <3>1 DEF RestInv, is_active, is_inactive
    <3> QED BY <3>2, <3>3
  <2> QED BY <2>1, <2>2
<1> HIDE DEF Still, Stays, Goal
<1>41. Goal
  BY <1>b, <1>c, <1>1, <1>2, <1>3, <1>4, <1>5, <1>6, <1>7, <1>8, <1>9, <1>10, <1>11, <1>12, <1>13,
     <1>14, <1>15, <1>16, <1>17, <1>18, <1>19, <1>20, <1>21, <1>22, <1>23, <1>24, <1>25, <1>26,
     <1>27, <1>28, <1>29, <1>30, <1>31, <1>32, <1>33, <1>34, <1>35, <1>36, <1>37, <1>38, <1>39,
     <1>40 DEF Step
<1> QED BY <1>41 DEF Goal

\* Where the other threads are when one has left the loop.
LEMMA LeftTogether ==
  ASSUME TypeInv, RoundInv, NEW t \in Threads, pc[t] \in {"end", "exit"}
  PROVE  /\ round_state = 0 /\ pc[0] \in {"end", "exit"}
         /\ \A u \in Threads : pc[u] \in {"spin", "end", "exit"}
<1>1. round_state = 0 /\ pc[0] \in {"end", "exit"}
  BY DEF RoundInv, LeaderInv, FollowerInv
<1> QED BY <1>1 DEF RoundInv, LeaderInv, Arrived

LEMMA StepLeave ==
  ASSUME TypeInv, RoundInv, CountInv, LeaveInv, NEW t \in Threads, Step(t)
  PROVE  LeaveInv'
<1> DEFINE Still == pc[t] \notin {"spin", "end", "exit"} /\ pc'[t] \notin {"end", "exit"}
<1>0. ControlTypes /\ ControlInv(t) /\ SyncTypes
  BY DEF TypeInv
<1>a. \A u \in Threads \ {t} : pc'[u] = pc[u]
  BY StepLocal
<1>b. ASSUME Still PROVE LeaveInv'
  <2>1. \A u \in Threads : pc'[u] \notin {"end", "exit"}
    BY <1>a, <1>b, LeftTogether
  <2> QED BY <2>1 DEF LeaveInv
<1> USE DEF At, Goto, Call, syncVars, ctlVars, ControlTypes, ControlInv, Activating
<1>1. ASSUME InitNode(t) PROVE Still
  BY <1>0, <1>1 DEF InitNode
<1>2. ASSUME InitDone(t) PROVE Still
  BY <1>0, <1>2 DEF InitDone
<1>3. ASSUME Synchronize(t) PROVE Still
  BY <1>0, <1>3 DEF Synchronize
<1>4. ASSUME SetNextNode(t) PROVE Still
  BY <1>0, <1>4 DEF SetNextNode
<1>5. ASSUME RetrieveTake(t) PROVE Still
  BY <1>0, <1>5 DEF RetrieveTake
<1>6. ASSUME RetrieveAdd(t) PROVE Still
  BY <1>0, <1>6 DEF RetrieveAdd
<1>7. ASSUME CheckWork(t) PROVE Still
  BY <1>0, <1>7 DEF CheckWork
<1>8. ASSUME PopNode(t) PROVE Still
  BY <1>0, <1>8 DEF PopNode
<1>9. ASSUME BusyWait(t) PROVE Still
  BY <1>0, <1>9 DEF BusyWait
<1>10. ASSUME MakeInactiveTest(t) PROVE Still
  BY <1>0, <1>10 DEF MakeInactiveTest
<1>11. ASSUME MakeInactiveLock(t) PROVE Still
  BY <1>0, <1>11 DEF MakeInactiveLock
<1>12. ASSUME MakeInactiveEnter(t) PROVE Still
  BY <1>0, <1>12 DEF MakeInactiveEnter
<1>13. ASSUME MakeInactiveCount(t) PROVE Still
  BY <1>0, <1>13 DEF MakeInactiveCount
<1>14. ASSUME MakeInactiveDone(t) PROVE Still
  BY <1>0, <1>14 DEF MakeInactiveDone
<1>15. ASSUME CheckTermination(t) PROVE Still
  BY <1>0, <1>15 DEF CheckTermination
<1>16. ASSUME WaitFinished(t) PROVE Still
  BY <1>0, <1>16 DEF WaitFinished
<1>17. ASSUME WaitWoke(t) PROVE Still
  BY <1>0, <1>17 DEF WaitWoke
<1>18. ASSUME WakeTest(t) PROVE Still
  BY <1>0, <1>18 DEF WakeTest
<1>19. ASSUME WakeLock(t) PROVE Still
  BY <1>0, <1>19 DEF WakeLock
<1>20. ASSUME SetActiveAssert(t) PROVE Still
  BY <1>0, <1>20 DEF SetActiveAssert
<1>21. ASSUME SetActiveStore(t) PROVE Still
  BY <1>0, <1>21 DEF SetActiveStore
<1>22. ASSUME SetActiveCount(t) PROVE Still
  BY <1>0, <1>22 DEF SetActiveCount
<1>23. ASSUME RunNode(t) PROVE Still
  BY <1>0, <1>23 DEF RunNode
<1>24. ASSUME NewWork(t) PROVE Still
  BY <1>0, <1>24 DEF NewWork
<1>25. ASSUME NewWorkOther(t) PROVE Still
  BY <1>0, <1>25 DEF NewWorkOther
<1>26. ASSUME PushOther(t) PROVE Still
  BY <1>0, <1>26 DEF PushOther
<1>27. ASSUME OtherLock(t) PROVE Still
  BY <1>0, <1>27 DEF OtherLock
<1>28. ASSUME OtherTestQueue(t) PROVE Still
  BY <1>0, <1>28 DEF OtherTestQueue
<1>29. ASSUME OtherTestBuffer(t) PROVE Still
  BY <1>0, <1>29 DEF OtherTestBuffer
<1>30. ASSUME FinishWork(t) PROVE Still
  BY <1>0, <1>30 DEF FinishWork
<1>31. ASSUME EndIteration(t) PROVE Still
  BY <1>0, <1>31 DEF EndIteration
<1>32. ASSUME StartRound(t) PROVE Still
  BY <1>0, <1>32 DEF StartRound
<1>33. ASSUME GenerateAgg(t) PROVE Still
  BY <1>0, <1>33 DEF GenerateAgg
<1>34. ASSUME RoundHasWork(t) PROVE Still
  BY <1>0, <1>34 DEF RoundHasWork
<1>35. ASSUME EndRoundDec(t) PROVE Still
  BY <1>0, <1>35 DEF EndRoundDec
<1>36. ASSUME LeaderResets(t) PROVE Still
  BY <1>0, <1>36 DEF LeaderResets
<1>37. ASSUME LeaderReleases(t) PROVE Still
  BY <1>0, <1>37 DEF LeaderReleases
<1>38. ASSUME LeaderDecides(t) PROVE LeaveInv'
  <2>1. /\ t = 0 /\ pc[0] = "spin" /\ total_in_agg = 0 /\ tstate' = tstate
        /\ active_threads > 0 => pc'[0] = "reset"
    BY <1>0, <1>38 DEF LeaderDecides
  <2>2. Missing = {}
    BY <2>1, MissingFinite, FS_EmptySet DEF RoundInv, LeaderInv
  <2>3. \A u \in Threads : pc[u] = "spin"
    BY <2>1, <2>2 DEF Missing, Arrived, RoundInv, LeaderInv, FollowerInv
  <2>4. CASE active_threads > 0
    <3>1. \A u \in Threads : pc'[u] \notin {"end", "exit"}
      BY <1>a, <2>1, <2>3, <2>4
    <3> QED BY <3>1 DEF LeaveInv
  <2>5. CASE ~(active_threads > 0)
    <3>1. active_threads = 0
      BY <1>0, <2>5, SchedulerAssumption DEF SyncTypes
    <3>2. PCAt("idle_dec") = {} /\ PCAt("set_count") = {}
      BY <2>3 DEF PCAt
    <3>3. Cardinality(Active) = 0
      BY <3>1, <3>2, CountTypes, FS_EmptySet DEF CountInv
    <3>4. Active = {}
      BY <3>3, CountTypes, FS_EmptySet
    <3> QED BY <1>0, <2>1, <3>4 DEF LeaveInv, Active, is_active, is_inactive, SyncTypes
  <2> QED BY <2>4, <2>5
<1>39. ASSUME FollowerReleased(t) PROVE LeaveInv'
  <2>1. /\ t # 0 /\ pc[t] = "spin" /\ tstate' = tstate
        /\ pc'[t] = "end" => round_state = 0
        /\ pc'[t] \in {"end", "next"}
    BY <1>0, <1>39 DEF FollowerReleased, TypeInv, RoundTypes, GET_NEXT
  <2>2. ASSUME NEW u \in Threads, pc'[u] \in {"end", "exit"}
        PROVE  \E v \in Threads : pc[v] \in {"end", "exit"}
    <3>1. CASE u = t
      BY <2>1, <2>2, <3>1, Zero DEF RoundInv, LeaderInv
    <3>2. CASE u # t
      BY <1>a, <2>2, <3>2
    <3> QED BY <3>1, <3>2
  <2> QED BY <2>1, <2>2 DEF LeaveInv, is_inactive
<1>40. ASSUME End(t) PROVE LeaveInv'
  <2>1. pc[t] = "end" /\ tstate' = tstate
    BY <1>40 DEF End
  <2> QED BY <2>1 DEF LeaveInv, is_inactive
<1> HIDE DEF Still
<1> QED
  BY <1>b, <1>1, <1>2, <1>3, <1>4, <1>5, <1>6, <1>7, <1>8, <1>9, <1>10, <1>11, <1>12, <1>13,
     <1>14, <1>15, <1>16, <1>17, <1>18, <1>19, <1>20, <1>21, <1>22, <1>23, <1>24, <1>25, <1>26,
     <1>27, <1>28, <1>29, <1>30, <1>31, <1>32, <1>33, <1>34, <1>35, <1>36, <1>37, <1>38, <1>39,
     <1>40 DEF Step

LEMMA NextWorkInv == TypeInv /\ RoundInv /\ CountInv /\ WorkInv /\ [Next]_vars => WorkInv'
<1> SUFFICES ASSUME TypeInv, RoundInv, CountInv, WorkInv, [Next]_vars PROVE WorkInv'
  OBVIOUS
<1>1. ASSUME NEW t \in Threads, Step(t) PROVE WorkInv'
  BY <1>1, StepRest, StepLeave DEF WorkInv
<1>2. ASSUME UNCHANGED <<syncVars, workVars, ctlVars>> PROVE WorkInv'
  BY <1>2 DEF WorkInv, LeaveInv, RestInv, is_active, is_inactive, syncVars, workVars, nodeVars,
     ctlVars
<1>3. ASSUME NEW t \in Threads, Abort(t) PROVE WorkInv'
  BY <1>2, <1>3 DEF Abort
<1>4. CASE UNCHANGED vars
  BY <1>2, <1>4 DEF vars
<1> QED BY <1>1, <1>3, <1>4 DEF Next, Thread, Terminated

(***************************************************************************)
(* Termination loses no work: when a thread has left do_loop, no tuple is  *)
(* in a buffer, in the queue of a node, or in the hand of a thread.  This  *)
(* holds even in the executions in which the termination flag was set too  *)
(* early: the leader looks at the counter again at the end of the round.   *)
(***************************************************************************)
THEOREM TerminationLosesNoWork == Spec => []NoWorkLost
<1> DEFINE Inv == TypeInv /\ RoundInv /\ CountInv /\ NodeInv /\ WorkInv
<1>1. Init => Inv
  BY InitTypeInv, InitRoundInv, InitCountInv, InitNodeInv, InitWorkInv
<1>2. Inv /\ [Next]_vars => Inv'
  BY NextTypeInv, NextRoundInv, NextCountInv, NextNodeInv, NextWorkInv
<1>3. Inv => NoWorkLost
  <2> SUFFICES ASSUME Inv, NEW t \in Threads, pc[t] \in {"end", "exit"}
               PROVE  ~Outstanding
    BY DEF NoWorkLost
  <2>1. \A u \in Threads : pc[u] \in {"spin", "end", "exit"} /\ is_inactive(u)
    BY LeftTogether DEF WorkInv, LeaveInv
  <2>2. \A u \in Threads : queue_nodes[u] = <<>> /\ buffer[u] = <<>>
    BY <2>1 DEF WorkInv, RestInv, RoundEndLabels, SendLabels
  <2>3. \A u \in Threads : current_node[u] = NULL /\ inhand[u] = NULL /\ pc[u] # "emit"
    BY <2>1 DEF NodeInv, HoldInv, RunLabels, Activating
  <2>4. \A n \in Nodes : ~Queued(n) /\ ~Running(n)
    BY <2>2, <2>3, SchedulerAssumption DEF Queued, Running
  <2>5. \A n \in Nodes : ~(node_queue[n] > 0)
    BY <2>4 DEF NodeInv, PlaceInv, FlagInv
  <2> QED BY <2>2, <2>3, <2>5 DEF Outstanding
<1> HIDE DEF Inv
<1> QED BY <1>1, <1>2, <1>3, PTL DEF Spec
==============================================================================
