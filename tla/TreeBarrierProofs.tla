-------------------------- MODULE TreeBarrierProofs --------------------------
(***************************************************************************)
(* Proofs about TreeBarrier, for every number of threads, every tree whose *)
(* nodes are numbered after their parents, and any number of waits.        *)
(***************************************************************************)
EXTENDS TreeBarrier, CommonLemmas

\* How often the root has reversed the sense.
Phase == crossings[Root] + IF pc[Root] = "leave" THEN 1 ELSE 0

\* The thread takes part in the current phase; otherwise it still has to leave
\* the previous one.
Current(t) == crossings[t] = Phase

\* The thread has reported to its parent in this phase.
Reported(t) == Current(t) /\ pc[t] = "spin"

Unreported(t) == {c \in Children(t) : ~Reported(c)}

\* The thread has seen the reports of all its children in this phase.
PastChildren(t) == Current(t) /\ pc[t] \in {"rearm", "report", "spin", "flip"}

\* The thread has re-armed its counter in this phase.
Rearmed(t) == Current(t) /\ pc[t] \in {"report", "spin", "flip"}

PhaseInv(t) ==
  /\ crossings[t] = Phase \/ crossings[t] + 1 = Phase
  /\ ~Current(t) => pc[t] \in {"spin", "leave"} /\ my_sense[t] = sense
  /\ Current(t) => /\ pc[t] # "leave"
                   /\ pc[t] = "out" => thread_sense[t] = ~sense
                   /\ pc[t] # "out" => my_sense[t] = ~sense

RoleInv(t) ==
  /\ pc[t] = "flip" => t = Root
  /\ pc[t] \in {"report", "spin"} => t # Root

TreeInv(t) == PastChildren(t) => Unreported(t) = {}

CountInv(t) ==
  children_count[t] = IF Rearmed(t) THEN count(t) ELSE Cardinality(Unreported(t))

IInv ==
  /\ TypeOK
  /\ \A t \in Threads : PhaseInv(t) /\ RoleInv(t) /\ TreeInv(t) /\ CountInv(t)

------------------------------------------------------------------------------

LEMMA ThreadsFinite ==
  /\ Root \in Threads
  /\ IsFiniteSet(Threads)
  /\ \A t \in Threads : IsFiniteSet(Children(t)) /\ IsFiniteSet(Unreported(t))
<1>1. Root \in Threads
  BY TreeAssumption DEF Root, Threads
<1>2. IsFiniteSet(Threads)
  BY TreeAssumption, FS_Interval DEF Threads
<1>3. \A t \in Threads : Children(t) \in SUBSET Threads /\ Unreported(t) \in SUBSET Threads
  BY DEF Children, Unreported
<1> QED BY <1>1, <1>2, <1>3, FS_Subset

LEMMA CountType == \A t \in Threads : count(t) \in Nat /\ Cardinality(Unreported(t)) \in Nat
BY ThreadsFinite, FS_CardinalityType DEF count

LEMMA InitIInv == Init => IInv
<1> SUFFICES ASSUME Init PROVE IInv
  OBVIOUS
<1>1. TypeOK
  BY CountType DEF Init, TypeOK
<1>2. Phase = 0
  BY ThreadsFinite DEF Init, Phase
<1>3. \A t \in Threads : Unreported(t) = Children(t)
  BY DEF Init, Unreported, Reported, Children
<1>4. ASSUME NEW t \in Threads
      PROVE  PhaseInv(t) /\ RoleInv(t) /\ TreeInv(t) /\ CountInv(t)
  <2>1. /\ crossings[t] = 0 /\ pc[t] = "out" /\ thread_sense[t] = ~sense
        /\ children_count[t] = count(t)
    BY DEF Init
  <2>2. PhaseInv(t)
    BY <1>2, <2>1 DEF PhaseInv, Current
  <2>3. RoleInv(t) /\ TreeInv(t)
    BY <2>1 DEF RoleInv, TreeInv, PastChildren
  <2>4. CountInv(t)
    BY <1>3, <2>1 DEF CountInv, Rearmed, count
  <2> QED BY <2>2, <2>3, <2>4
<1> QED BY <1>1, <1>4 DEF IInv

\* A step that neither reverses the sense nor reports.
LEMMA QuietStep ==
  ASSUME IInv, TypeOK', Phase' = Phase, sense' = sense,
         NEW t \in Threads,
         \A u \in Threads \ {t} :
           /\ pc'[u] = pc[u] /\ crossings'[u] = crossings[u]
           /\ my_sense'[u] = my_sense[u] /\ thread_sense'[u] = thread_sense[u]
           /\ children_count'[u] = children_count[u],
         Reported(t)' <=> Reported(t),
         PhaseInv(t)', RoleInv(t)',
         PastChildren(t)' => Unreported(t) = {},
         children_count'[t] = IF Rearmed(t)' THEN count(t) ELSE Cardinality(Unreported(t))
  PROVE  IInv'
<1>1. \A u \in Threads : Reported(u)' <=> Reported(u)
  BY DEF Reported, Current
<1>2. \A u \in Threads : Unreported(u)' = Unreported(u)
  BY <1>1 DEF Unreported, Children
<1>3. ASSUME NEW u \in Threads \ {t}
      PROVE  PhaseInv(u)' /\ RoleInv(u)' /\ TreeInv(u)' /\ CountInv(u)'
  <2>1. PhaseInv(u) /\ RoleInv(u) /\ TreeInv(u) /\ CountInv(u)
    BY DEF IInv
  <2>2. PhaseInv(u)' /\ RoleInv(u)'
    BY <2>1 DEF PhaseInv, RoleInv, Current
  <2>3. TreeInv(u)'
    BY <1>2, <2>1 DEF TreeInv, PastChildren, Current
  <2>4. CountInv(u)'
    BY <1>2, <2>1 DEF CountInv, Rearmed, Current
  <2> QED BY <2>2, <2>3, <2>4
<1>4. TreeInv(t)' /\ CountInv(t)'
  BY <1>2 DEF TreeInv, CountInv
<1> QED BY <1>3, <1>4 DEF IInv

LEMMA EnterIInv == ASSUME IInv, NEW t \in Threads, Enter(t) PROVE IInv'
<1>1. TypeOK /\ PhaseInv(t) /\ RoleInv(t) /\ TreeInv(t) /\ CountInv(t)
  BY DEF IInv
<1>2. TypeOK'
  BY <1>1 DEF TypeOK, Enter, Goto
<1>3. /\ Phase' = Phase /\ sense' = sense
      /\ pc[t] = "out" /\ pc'[t] = "children" /\ crossings'[t] = crossings[t]
      /\ my_sense'[t] = thread_sense[t]
      /\ children_count'[t] = children_count[t]
  BY <1>1, ThreadsFinite DEF TypeOK, Enter, Goto, Phase
<1>4. Current(t) /\ Current(t)'
  BY <1>1, <1>3 DEF PhaseInv, Current
<1>5. PhaseInv(t)' /\ RoleInv(t)'
  BY <1>1, <1>3, <1>4 DEF PhaseInv, RoleInv, Current
<1>6. /\ Reported(t)' <=> Reported(t)
      /\ ~PastChildren(t)' /\ ~Rearmed(t)' /\ ~Rearmed(t)
  BY <1>3 DEF Reported, PastChildren, Rearmed
<1>7. children_count'[t] = IF Rearmed(t)' THEN count(t) ELSE Cardinality(Unreported(t))
  BY <1>1, <1>3, <1>6 DEF CountInv
<1>8. \A u \in Threads \ {t} :
        /\ pc'[u] = pc[u] /\ crossings'[u] = crossings[u]
        /\ my_sense'[u] = my_sense[u] /\ thread_sense'[u] = thread_sense[u]
        /\ children_count'[u] = children_count[u]
  BY <1>1 DEF TypeOK, Enter, Goto
<1> QED BY <1>2, <1>3, <1>5, <1>6, <1>7, <1>8, QuietStep

LEMMA ChildrenReportedIInv ==
  ASSUME IInv, NEW t \in Threads, ChildrenReported(t) PROVE IInv'
<1>1. TypeOK /\ PhaseInv(t) /\ RoleInv(t) /\ TreeInv(t) /\ CountInv(t)
  BY DEF IInv
<1>2. TypeOK'
  BY <1>1 DEF TypeOK, ChildrenReported, Goto
<1>3. /\ Phase' = Phase /\ sense' = sense
      /\ pc[t] = "children" /\ pc'[t] = "rearm" /\ crossings'[t] = crossings[t]
      /\ my_sense'[t] = my_sense[t]
      /\ children_count[t] = 0 /\ children_count'[t] = 0
  BY <1>1, ThreadsFinite DEF TypeOK, ChildrenReported, Goto, Phase
<1>4. Current(t) /\ Current(t)'
  BY <1>1, <1>3 DEF PhaseInv, Current
<1>5. PhaseInv(t)' /\ RoleInv(t)'
  BY <1>1, <1>3, <1>4 DEF PhaseInv, RoleInv, Current
<1>6. /\ Reported(t)' <=> Reported(t)
      /\ ~Rearmed(t)' /\ ~Rearmed(t)
  BY <1>3 DEF Reported, Rearmed
<1>7. Cardinality(Unreported(t)) = 0
  BY <1>1, <1>3, <1>6 DEF CountInv
<1>8. Unreported(t) = {}
  BY <1>7, ThreadsFinite, FS_EmptySet
<1>9. \A u \in Threads \ {t} :
        /\ pc'[u] = pc[u] /\ crossings'[u] = crossings[u]
        /\ my_sense'[u] = my_sense[u] /\ thread_sense'[u] = thread_sense[u]
        /\ children_count'[u] = children_count[u]
  BY <1>1 DEF TypeOK, ChildrenReported, Goto
<1> QED BY <1>2, <1>3, <1>5, <1>6, <1>7, <1>8, <1>9, QuietStep

LEMMA RearmIInv == ASSUME IInv, NEW t \in Threads, Rearm(t) PROVE IInv'
<1>1. TypeOK /\ PhaseInv(t) /\ RoleInv(t) /\ TreeInv(t) /\ CountInv(t)
  BY DEF IInv
<1>2. TypeOK'
  BY <1>1, CountType DEF TypeOK, Rearm, Goto
<1>3. /\ Phase' = Phase /\ sense' = sense
      /\ pc[t] = "rearm" /\ pc'[t] = (IF t = Root THEN "flip" ELSE "report")
      /\ crossings'[t] = crossings[t] /\ my_sense'[t] = my_sense[t]
      /\ children_count'[t] = count(t)
  BY <1>1, ThreadsFinite DEF TypeOK, Rearm, Goto, Phase
<1>4. Current(t) /\ Current(t)'
  BY <1>1, <1>3 DEF PhaseInv, Current
<1>5. PhaseInv(t)' /\ RoleInv(t)'
  BY <1>1, <1>3, <1>4 DEF PhaseInv, RoleInv, Current
<1>6. /\ Reported(t)' <=> Reported(t)
      /\ PastChildren(t) /\ Rearmed(t)'
  BY <1>3, <1>4 DEF Reported, Rearmed, PastChildren
<1>7. Unreported(t) = {}
  BY <1>1, <1>6 DEF TreeInv
<1>8. \A u \in Threads \ {t} :
        /\ pc'[u] = pc[u] /\ crossings'[u] = crossings[u]
        /\ my_sense'[u] = my_sense[u] /\ thread_sense'[u] = thread_sense[u]
        /\ children_count'[u] = children_count[u]
  BY <1>1 DEF TypeOK, Rearm, Goto
<1> QED BY <1>2, <1>3, <1>5, <1>6, <1>7, <1>8, QuietStep

LEMMA ReleasedIInv == ASSUME IInv, NEW t \in Threads, Released(t) PROVE IInv'
<1>1. TypeOK /\ PhaseInv(t) /\ RoleInv(t) /\ TreeInv(t) /\ CountInv(t)
  BY DEF IInv
<1>2. TypeOK'
  BY <1>1 DEF TypeOK, Released, Goto
<1>3. t # Root
  BY <1>1 DEF RoleInv, Released
<1>4. /\ Phase' = Phase /\ sense' = sense
      /\ pc[t] = "spin" /\ pc'[t] = "leave" /\ crossings'[t] = crossings[t]
      /\ my_sense'[t] = my_sense[t] /\ my_sense[t] = sense
      /\ children_count'[t] = children_count[t]
  BY <1>1, <1>3, ThreadsFinite DEF TypeOK, Released, Goto, Phase
<1>5. sense \in BOOLEAN /\ my_sense[t] \in BOOLEAN
  BY <1>1 DEF TypeOK
<1>6. ~Current(t) /\ ~Current(t)' /\ crossings[t] + 1 = Phase
  BY <1>1, <1>4, <1>5 DEF PhaseInv, Current
<1>7. PhaseInv(t)' /\ RoleInv(t)'
  BY <1>4, <1>6 DEF PhaseInv, RoleInv
<1>8. /\ Reported(t)' <=> Reported(t)
      /\ ~PastChildren(t)' /\ ~Rearmed(t)' /\ ~Rearmed(t)
  BY <1>6 DEF Reported, Rearmed, PastChildren
<1>9. children_count'[t] = IF Rearmed(t)' THEN count(t) ELSE Cardinality(Unreported(t))
  BY <1>1, <1>4, <1>8 DEF CountInv
<1>10. \A u \in Threads \ {t} :
        /\ pc'[u] = pc[u] /\ crossings'[u] = crossings[u]
        /\ my_sense'[u] = my_sense[u] /\ thread_sense'[u] = thread_sense[u]
        /\ children_count'[u] = children_count[u]
  BY <1>1 DEF TypeOK, Released, Goto
<1> QED BY <1>2, <1>4, <1>7, <1>8, <1>9, <1>10, QuietStep

LEMMA LeaveIInv == ASSUME IInv, NEW t \in Threads, Leave(t) PROVE IInv'
<1>1. TypeOK /\ PhaseInv(t) /\ RoleInv(t) /\ TreeInv(t) /\ CountInv(t)
  BY DEF IInv
<1>2. TypeOK'
  BY <1>1 DEF TypeOK, Leave, Goto
<1>3. /\ sense' = sense
      /\ pc[t] = "leave" /\ pc'[t] = "out" /\ crossings'[t] = crossings[t] + 1
      /\ thread_sense'[t] = ~my_sense[t]
      /\ children_count'[t] = children_count[t]
  BY <1>1 DEF TypeOK, Leave, Goto
<1>4. ~Current(t) /\ crossings[t] + 1 = Phase /\ my_sense[t] = sense
  BY <1>1, <1>3 DEF PhaseInv, Current
<1>5. Phase' = Phase
  BY <1>1, <1>3, ThreadsFinite DEF TypeOK, Leave, Goto, Phase
<1>6. Current(t)'
  BY <1>3, <1>4, <1>5 DEF Current
<1>7. PhaseInv(t)' /\ RoleInv(t)'
  BY <1>3, <1>4, <1>5, <1>6 DEF PhaseInv, RoleInv, Current
<1>8. /\ Reported(t)' <=> Reported(t)
      /\ ~PastChildren(t)' /\ ~Rearmed(t)' /\ ~Rearmed(t)
  BY <1>3, <1>4 DEF Reported, Rearmed, PastChildren
<1>9. children_count'[t] = IF Rearmed(t)' THEN count(t) ELSE Cardinality(Unreported(t))
  BY <1>1, <1>3, <1>8 DEF CountInv
<1>10. \A u \in Threads \ {t} :
        /\ pc'[u] = pc[u] /\ crossings'[u] = crossings[u]
        /\ my_sense'[u] = my_sense[u] /\ thread_sense'[u] = thread_sense[u]
        /\ children_count'[u] = children_count[u]
  BY <1>1 DEF TypeOK, Leave, Goto
<1> QED BY <1>2, <1>3, <1>5, <1>7, <1>8, <1>9, <1>10, QuietStep

LEMMA ReportIInv == ASSUME IInv, NEW t \in Threads, Report(t) PROVE IInv'
<1> DEFINE p == Parent[t]
<1>1. TypeOK /\ \A u \in Threads : PhaseInv(u) /\ RoleInv(u) /\ TreeInv(u) /\ CountInv(u)
  BY DEF IInv
<1>2. t # Root /\ p \in Threads /\ t \in Children(p)
  BY <1>1, TreeAssumption DEF RoleInv, Report, Children
<1>3. \A u \in Threads : t \in Children(u) => u = p
  BY DEF Children
<1>4. /\ sense' = sense /\ my_sense' = my_sense /\ thread_sense' = thread_sense
      /\ crossings' = crossings /\ pc[t] = "report" /\ pc'[t] = "spin"
      /\ \A u \in Threads \ {t} : pc'[u] = pc[u]
      /\ \A u \in Threads \ {p} : children_count'[u] = children_count[u]
      /\ children_count'[p] = children_count[p] - 1
  BY <1>1, <1>2 DEF TypeOK, Report, Goto
<1>5. Phase' = Phase
  BY <1>2, <1>4, ThreadsFinite DEF Phase
<1>6. Current(t) /\ \A u \in Threads : Current(u)' <=> Current(u)
  BY <1>1, <1>4, <1>5 DEF PhaseInv, Current
<1>7. /\ ~Reported(t) /\ Reported(t)'
      /\ \A u \in Threads \ {t} : Reported(u)' <=> Reported(u)
  BY <1>4, <1>6 DEF Reported
<1>8. /\ t \in Unreported(p) /\ Unreported(p)' = Unreported(p) \ {t}
      /\ \A u \in Threads \ {p} : Unreported(u)' = Unreported(u)
  BY <1>2, <1>3, <1>7 DEF Unreported, Children
<1>9. ~PastChildren(p) /\ ~Rearmed(p)
  <2>1. ~PastChildren(p)
    BY <1>1, <1>2, <1>8 DEF TreeInv
  <2> QED BY <2>1 DEF PastChildren, Rearmed
<1>10. p # t
  BY <1>2, TreeAssumption DEF Threads, Children
<1>11. ~PastChildren(p)' /\ ~Rearmed(p)'
  BY <1>2, <1>4, <1>6, <1>9, <1>10 DEF PastChildren, Rearmed
<1>12. Cardinality(Unreported(p)') = Cardinality(Unreported(p)) - 1
  BY <1>2, <1>8, ThreadsFinite, FS_RemoveElement
<1>13. children_count[p] = Cardinality(Unreported(p))
  BY <1>1, <1>2, <1>9 DEF CountInv
<1>14. children_count'[p] = Cardinality(Unreported(p)')
  BY <1>4, <1>12, <1>13
<1>15. children_count[p] - 1 \in Nat
  <2>1. IsFiniteSet(Unreported(p)) /\ Unreported(p) # {}
    BY <1>2, <1>8, ThreadsFinite
  <2>2. Cardinality(Unreported(p)) \in Nat /\ Cardinality(Unreported(p)) # 0
    BY <2>1, FS_EmptySet, FS_CardinalityType
  <2> QED BY <1>13, <2>2
<1>16. TypeOK'
  BY <1>1, <1>2, <1>15 DEF TypeOK, Report, Goto
<1>17. ASSUME NEW u \in Threads PROVE PhaseInv(u)' /\ RoleInv(u)'
  <2>1. CASE u = t
    BY <1>1, <1>2, <1>4, <1>5, <1>6, <2>1 DEF PhaseInv, RoleInv, Current
  <2>2. CASE u # t
    BY <1>1, <1>4, <1>5, <2>2 DEF PhaseInv, RoleInv, Current
  <2> QED BY <2>1, <2>2
<1>18. ASSUME NEW u \in Threads PROVE TreeInv(u)' /\ CountInv(u)'
  <2>1. CASE u = p
    BY <1>11, <1>14, <2>1 DEF TreeInv, CountInv
  <2>2. CASE u # p
    <3>1. (PastChildren(u)' <=> PastChildren(u)) /\ (Rearmed(u)' <=> Rearmed(u))
      BY <1>4, <1>6 DEF PastChildren, Rearmed
    <3> QED BY <1>1, <1>4, <1>8, <2>2, <3>1 DEF TreeInv, CountInv
  <2> QED BY <2>1, <2>2
<1> QED BY <1>16, <1>17, <1>18 DEF IInv

\* When the root has the reports of its children, all threads have reported:
\* a smallest thread that has not would have a parent that has.
LEMMA AllReported ==
  ASSUME IInv, pc[Root] = "flip"
  PROVE  \A t \in Threads \ {Root} : Reported(t)
<1> DEFINE T == {t \in Threads \ {Root} : ~Reported(t)}
<1> SUFFICES ASSUME T # {} PROVE FALSE
  OBVIOUS
<1>1. T \subseteq Nat
  BY DEF Threads
<1>2. PICK t \in T : \A u \in T : t <= u
  BY <1>1, LeastElement
<1> DEFINE p == Parent[t]
<1>3. p \in Threads /\ p < t /\ t \in Children(p)
  BY TreeAssumption DEF Children
<1>4. p \notin T
  BY <1>1, <1>2, <1>3 DEF Threads
<1>5. PastChildren(p)
  <2>1. CASE p = Root
    BY <2>1, ThreadsFinite DEF IInv, PhaseInv, PastChildren
  <2>2. CASE p # Root
    BY <1>3, <1>4, <2>2 DEF Reported, PastChildren
  <2> QED BY <2>1, <2>2
<1>6. Unreported(p) = {}
  BY <1>3, <1>5 DEF IInv, TreeInv
<1> QED BY <1>3, <1>6 DEF Unreported

LEMMA FlipIInv == ASSUME IInv, NEW t \in Threads, Flip(t) PROVE IInv'
<1>1. TypeOK /\ \A u \in Threads : PhaseInv(u) /\ RoleInv(u) /\ TreeInv(u) /\ CountInv(u)
  BY DEF IInv
<1>2. t = Root /\ pc[Root] = "flip"
  BY <1>1 DEF RoleInv, Flip
<1>3. TypeOK'
  BY <1>1 DEF TypeOK, Flip, Goto
<1>4. /\ sense' = ~sense /\ my_sense' = my_sense /\ thread_sense' = thread_sense
      /\ crossings' = crossings /\ children_count' = children_count
      /\ pc'[Root] = "leave" /\ \A u \in Threads \ {Root} : pc'[u] = pc[u]
  BY <1>1, <1>2 DEF TypeOK, Flip, Goto
<1>5. \A u \in Threads : crossings[u] \in Nat
  BY <1>1 DEF TypeOK
<1>6. Phase = crossings[Root] /\ Phase' = Phase + 1 /\ Phase \in Nat
  BY <1>2, <1>4, <1>5, ThreadsFinite DEF Phase
<1>7. \A u \in Threads \ {Root} : Current(u) /\ pc[u] = "spin"
  BY <1>2, AllReported DEF Reported
<1>8. Current(Root)
  BY <1>6 DEF Current
<1>9. \A u \in Threads : my_sense[u] = ~sense
  BY <1>1, <1>2, <1>7, <1>8 DEF PhaseInv
<1>10. \A u \in Threads : ~Current(u)' /\ crossings'[u] + 1 = Phase'
  BY <1>4, <1>5, <1>6, <1>7, <1>8 DEF Current
<1>11. \A u \in Threads : PhaseInv(u)' /\ RoleInv(u)'
  BY <1>1, <1>4, <1>7, <1>9, <1>10 DEF PhaseInv, RoleInv
<1>12. \A u \in Threads : ~Reported(u)' /\ ~PastChildren(u)' /\ ~Rearmed(u)'
  BY <1>10 DEF Reported, PastChildren, Rearmed
<1>13. \A u \in Threads : Unreported(u)' = Children(u)
  BY <1>12 DEF Unreported, Children
<1>14. \A u \in Threads : Rearmed(u)
  BY <1>2, <1>7, <1>8 DEF Rearmed
<1>15. \A u \in Threads : children_count'[u] = Cardinality(Children(u))
  BY <1>1, <1>4, <1>14 DEF CountInv, count
<1>16. \A u \in Threads : TreeInv(u)' /\ CountInv(u)'
  BY <1>12, <1>13, <1>15 DEF TreeInv, CountInv
<1> QED BY <1>3, <1>11, <1>16 DEF IInv

LEMMA NextIInv == IInv /\ [Next]_vars => IInv'
<1> SUFFICES ASSUME IInv, [Next]_vars PROVE IInv'
  OBVIOUS
<1>1. ASSUME NEW t \in Threads, Step(t) PROVE IInv'
  BY <1>1, EnterIInv, ChildrenReportedIInv, RearmIInv, ReportIInv, ReleasedIInv,
     FlipIInv, LeaveIInv DEF Step
<1>2. CASE UNCHANGED vars
  <2>1. TypeOK'
    BY <1>2 DEF IInv, TypeOK, vars
  <2>2. Phase' = Phase
    BY <1>2 DEF Phase, vars
  <2>3. \A t \in Threads : /\ Current(t)' = Current(t)
                           /\ Reported(t)' = Reported(t)
                           /\ PastChildren(t)' = PastChildren(t)
                           /\ Rearmed(t)' = Rearmed(t)
    BY <1>2, <2>2 DEF Current, Reported, PastChildren, Rearmed, vars
  <2>4. \A t \in Threads : Unreported(t)' = Unreported(t)
    BY <2>3 DEF Unreported, Children
  <2>5. \A t \in Threads : PhaseInv(t)' /\ RoleInv(t)'
    BY <1>2, <2>2, <2>3 DEF IInv, PhaseInv, RoleInv, vars
  <2>6. \A t \in Threads : TreeInv(t)' /\ CountInv(t)'
    BY <1>2, <2>3, <2>4 DEF IInv, TreeInv, CountInv, count, vars
  <2> QED BY <2>1, <2>5, <2>6 DEF IInv
<1> QED BY <1>1, <1>2 DEF Next

LEMMA InvariantIInv == Spec => []IInv
BY InitIInv, NextIInv, PTL DEF Spec

(***************************************************************************)
(* Type correctness: in particular no children_count ever goes below zero, *)
(* for which its unsigned type has no value.                               *)
(***************************************************************************)
THEOREM TypeCorrect == Spec => []TypeOK
<1>1. IInv => TypeOK
  BY DEF IInv
<1> QED BY <1>1, InvariantIInv, PTL

(***************************************************************************)
(* The barrier holds back everybody until the last one has come: a thread  *)
(* is at most one wait ahead of another one, and then the other one has    *)
(* entered the wait that the first one has left.                           *)
(***************************************************************************)
THEOREM BarrierSafe == Spec => []NobodyLeftBehind
<1>1. IInv => NobodyLeftBehind
  <2> SUFFICES ASSUME IInv, NEW t \in Threads, NEW u \in Threads,
                      crossings[t] > crossings[u]
               PROVE  /\ crossings[t] = crossings[u] + 1
                      /\ pc[u] \in {"spin", "leave"}
                      /\ sense = my_sense[u]
    BY DEF NobodyLeftBehind
  <2>1. crossings[t] \in Nat /\ crossings[u] \in Nat /\ PhaseInv(t) /\ PhaseInv(u)
    BY DEF IInv, TypeOK
  <2>2. crossings[t] = Phase /\ crossings[u] + 1 = Phase
    BY <2>1 DEF PhaseInv
  <2>3. ~Current(u)
    BY <2>1, <2>2 DEF Current
  <2> QED BY <2>1, <2>2, <2>3 DEF PhaseInv
<1> QED BY <1>1, InvariantIInv, PTL

(***************************************************************************)
(* The assertion of the root after it has reversed the sense never fails,  *)
(* and the value is the one every waiting thread spins for.                *)
(***************************************************************************)
THEOREM RootAssertion == Spec => []SenseAgreed
<1>1. IInv => SenseAgreed
  <2> SUFFICES ASSUME IInv, pc[Root] = "flip", NEW t \in Threads
               PROVE  my_sense[t] = ~sense
    BY DEF SenseAgreed
  <2>1. PhaseInv(t)
    BY DEF IInv
  <2>2. CASE t = Root
    <3>1. Current(t)
      BY <2>2, ThreadsFinite DEF Current, Phase, IInv, TypeOK
    <3> QED BY <2>1, <2>2, <3>1 DEF PhaseInv
  <2>3. CASE t # Root
    BY <2>1, <2>3, AllReported DEF PhaseInv, Reported
  <2> QED BY <2>2, <2>3
<1> QED BY <1>1, InvariantIInv, PTL

(***************************************************************************)
(* The tree barrier implements the abstract barrier: entering wait() is    *)
(* Arrive, leaving it is Depart, and every other step stutters.            *)
(***************************************************************************)
THEOREM Refinement == Spec => ImplementsThreadBarrier
<1> DEFINE W == {t \in Threads : pc[t] # "out"}
<1>1. Init => Abstract!Init
  BY DEF Init, Abstract!Init
<1>2. IInv /\ [Next]_vars => [Abstract!Next]_Abstract!vars
  <2> SUFFICES ASSUME IInv, [Next]_vars PROVE [Abstract!Next]_Abstract!vars
    OBVIOUS
  <2>1. TypeOK
    BY DEF IInv
  <2>2. ASSUME NEW t \in Threads, Enter(t) PROVE Abstract!Arrive(t)
    <3>1. W' = W \cup {t} /\ t \notin W /\ crossings' = crossings
      BY <2>1, <2>2 DEF TypeOK, Enter, Goto
    <3> QED BY <3>1 DEF Abstract!Arrive
  <2>3. ASSUME NEW t \in Threads, Leave(t) PROVE Abstract!Depart(t)
    <3>1. W' = W \ {t} /\ t \in W /\ crossings' = [crossings EXCEPT ![t] = @ + 1]
      BY <2>1, <2>3 DEF TypeOK, Leave, Goto
    <3>2. PhaseInv(t) /\ pc[t] = "leave"
      BY <2>3 DEF IInv, Leave
    <3>3. crossings[t] + 1 = Phase
      BY <3>2 DEF PhaseInv, Current
    <3>4. ASSUME NEW u \in Threads
          PROVE  crossings[u] > crossings[t] \/ (crossings[u] = crossings[t] /\ u \in W)
      <4>1. PhaseInv(u) /\ crossings[u] \in Nat /\ crossings[t] \in Nat
        BY <2>1 DEF IInv, TypeOK
      <4> QED BY <3>3, <4>1 DEF PhaseInv, Current
    <3> QED BY <3>1, <3>4 DEF Abstract!Depart
  <2>4. ASSUME NEW t \in Threads,
               \/ ChildrenReported(t) \/ Rearm(t) \/ Report(t) \/ Released(t) \/ Flip(t)
        PROVE  UNCHANGED Abstract!vars
    <3>1. W' = W /\ crossings' = crossings
      BY <2>1, <2>4 DEF TypeOK, ChildrenReported, Rearm, Report, Released, Flip, Goto
    <3> QED BY <3>1 DEF Abstract!vars
  <2>5. CASE UNCHANGED vars
    BY <2>5 DEF vars, Abstract!vars
  <2> QED BY <2>2, <2>3, <2>4, <2>5 DEF Next, Step, Abstract!Next
<1> QED BY <1>1, <1>2, InvariantIInv, PTL DEF Spec, ImplementsThreadBarrier, Abstract!Spec
==============================================================================
