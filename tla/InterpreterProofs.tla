--------------------------- MODULE InterpreterProofs ---------------------------
(***************************************************************************)
(* Interpreter: no copy of a tuple is in use twice, for every program      *)
(* whose rules consume only what they hold.                                *)
(*                                                                         *)
(* The bookkeeping is spread over three places: `count' of a leaf in the   *)
(* trie, which REMOVE lowers, `used' with the copies that are free, which  *)
(* is filled from count when a leaf is first used and then only changed by *)
(* the loops of execute_iter, and the open calls themselves.  What relates *)
(* them is Covered: the free copies and the copies in use are no more than *)
(* the copies in the trie.  It is kept because REMOVE finds a copy in use, *)
(* which it takes out of both sums, and because an ITER makes the copy of  *)
(* its match free again only if it was not taken.                          *)
(***************************************************************************)
EXTENDS Interpreter, CommonLemmas

LinearLeaves == UNION {TuplesOf[p] : p \in Linear}

\* An open call; the leaves of an ITER over a linear predicate are its own.
IsFrame(f) ==
  /\ f \in [t : {f.t}, at : {f.at}, left : SUBSET DOMAIN Copies, cur : {0} \cup DOMAIN Copies,
            this : BOOLEAN, lin : {f.lin}, old : {f.old}, gone : BOOLEAN]
  /\ \A l \in f.left : f.this <=> l \in LinearLeaves
  /\ f.cur # 0 => (f.this <=> f.cur \in LinearLeaves)
  /\ f.t = "reset" => ~f.this

FramesOK(fs) == fs \in Seq(Range(fs)) /\ \A i \in DOMAIN fs : IsFrame(fs[i])

\* The open calls that hold a copy of the leaf.
Holding(fs, l) == {i \in DOMAIN fs : fs[i].cur = l /\ fs[i].this /\ ~fs[i].gone}

\* Some open ITER over a linear predicate has still to come to the leaf.
Left(fs, l) == \E i \in DOMAIN fs : fs[i].this /\ l \in fs[i].left

Shape ==
  /\ FramesOK(frames)
  /\ count \in [DOMAIN Copies -> Int]
  /\ used \in [DOMAIN used -> Nat] /\ DOMAIN used \subseteq DOMAIN Copies

\* A leaf that was never used has not lost a copy since it was matched.
Covered(l) ==
  /\ l \in DOMAIN used => used[l] + Cardinality(Holding(frames, l)) <= count[l]
  /\ l \notin DOMAIN used =>
       Holding(frames, l) = {} /\ count[l] >= 0 /\ (Left(frames, l) => count[l] > 0)

Tally == \A l \in DOMAIN Copies : Covered(l)

IInv == Shape /\ Tally

------------------------------------------------------------------------------
(* Sequences of open calls.                                                 *)

LEMMA FrontFrames ==
  ASSUME NEW fs, FramesOK(fs), fs # <<>>
  PROVE  /\ FramesOK(Front(fs)) /\ Len(fs) \in DOMAIN fs
         /\ DOMAIN Front(fs) = DOMAIN fs \ {Len(fs)}
         /\ \A i \in DOMAIN Front(fs) : Front(fs)[i] = fs[i]
<1>1. fs \in Seq(Range(fs))
  BY DEF FramesOK
<1>2. Len(fs) \in Nat /\ Len(fs) # 0 /\ DOMAIN fs = 1 .. Len(fs)
  BY <1>1
<1>3. /\ Front(fs) \in Seq(Range(fs)) /\ Len(Front(fs)) = Len(fs) - 1
      /\ \A i \in 1 .. Len(fs) - 1 : Front(fs)[i] = fs[i]
  BY <1>1, <1>2 DEF Front
<1>4. DOMAIN Front(fs) = 1 .. Len(fs) - 1
  BY <1>3
<1>5. Len(fs) \in DOMAIN fs /\ 1 .. Len(fs) - 1 = DOMAIN fs \ {Len(fs)}
  BY <1>2
<1>6. Front(fs) \in Seq(Range(Front(fs)))
  BY <1>3, SeqOfRange
<1> QED BY <1>3, <1>4, <1>5, <1>6 DEF FramesOK

LEMMA PushFrame ==
  ASSUME NEW fs, FramesOK(fs), NEW g, IsFrame(g)
  PROVE  /\ FramesOK(Append(fs, g))
         /\ Len(fs) + 1 \notin DOMAIN fs /\ DOMAIN Append(fs, g) = DOMAIN fs \cup {Len(fs) + 1}
         /\ Append(fs, g)[Len(fs) + 1] = g
         /\ \A i \in DOMAIN fs : Append(fs, g)[i] = fs[i]
<1>1. fs \in Seq(Range(fs) \cup {g}) /\ fs \in Seq(Range(fs))
  BY DEF FramesOK
<1>2. Len(fs) \in Nat /\ DOMAIN fs = 1 .. Len(fs)
  BY <1>1
<1>3. /\ Append(fs, g) \in Seq(Range(fs) \cup {g}) /\ Len(Append(fs, g)) = Len(fs) + 1
      /\ \A i \in 1 .. Len(fs) : Append(fs, g)[i] = fs[i]
      /\ Append(fs, g)[Len(fs) + 1] = g
  BY <1>1, <1>2
<1>4. DOMAIN Append(fs, g) = 1 .. Len(fs) + 1
  BY <1>3
<1>5. Append(fs, g) \in Seq(Range(Append(fs, g)))
  BY <1>3, SeqOfRange
<1>6. Len(fs) + 1 \notin DOMAIN fs /\ 1 .. Len(fs) + 1 = DOMAIN fs \cup {Len(fs) + 1}
  BY <1>2
<1>7. \A i \in DOMAIN Append(fs, g) : IsFrame(Append(fs, g)[i])
  BY <1>2, <1>3, <1>4, <1>6 DEF FramesOK
<1> QED BY <1>2, <1>3, <1>4, <1>5, <1>6, <1>7 DEF FramesOK

LEMMA ReplaceFrame ==
  ASSUME NEW fs, FramesOK(fs), NEW k \in DOMAIN fs, NEW g, IsFrame(g)
  PROVE  /\ FramesOK([fs EXCEPT ![k] = g])
         /\ DOMAIN [fs EXCEPT ![k] = g] = DOMAIN fs
         /\ \A i \in DOMAIN fs : [fs EXCEPT ![k] = g][i] = IF i = k THEN g ELSE fs[i]
<1> DEFINE h == [fs EXCEPT ![k] = g]
<1>1. fs \in Seq(Range(fs)) /\ fs \in Seq(Range(fs) \cup {g})
  BY DEF FramesOK
<1>2. Len(fs) \in Nat /\ DOMAIN fs = 1 .. Len(fs)
  BY <1>1
<1>3. DOMAIN h = DOMAIN fs /\ \A i \in DOMAIN fs : h[i] = IF i = k THEN g ELSE fs[i]
  BY <1>1
<1>4. h \in [1 .. Len(fs) -> Range(fs) \cup {g}]
  BY <1>2 DEF Range
<1>5. h \in Seq(Range(fs) \cup {g})
  <2> HIDE DEF h
  <2> QED BY <1>2, <1>4
<1>6. h \in Seq(Range(h))
  BY <1>5, SeqOfRange
<1>7. \A i \in DOMAIN h : IsFrame(h[i])
  BY <1>3 DEF FramesOK
<1> QED BY <1>3, <1>6, <1>7 DEF FramesOK

\* Sets that differ in one element only.
LEMMA CardinalityChange ==
  ASSUME NEW A, NEW B, NEW k, IsFiniteSet(A), A \ {k} = B \ {k}
  PROVE  /\ Cardinality(A) \in Nat /\ Cardinality(B) \in Nat /\ IsFiniteSet(B)
         /\ Cardinality(B) = Cardinality(A) - (IF k \in A THEN 1 ELSE 0) + (IF k \in B THEN 1 ELSE 0)
<1> DEFINE C == A \ {k}
<1>1. IsFiniteSet(C) /\ k \notin C
  BY FS_Subset
<1>2. Cardinality(C) \in Nat /\ IsFiniteSet(C \cup {k}) /\ Cardinality(C \cup {k}) = Cardinality(C) + 1
  BY <1>1, FS_CardinalityType, FS_AddElement
<1>3. A = IF k \in A THEN C \cup {k} ELSE C
  OBVIOUS
<1>4. B = IF k \in B THEN C \cup {k} ELSE C
  OBVIOUS
<1> HIDE DEF C
<1> QED BY <1>1, <1>2, <1>3, <1>4

LEMMA GreatestElement ==
  ASSUME NEW n \in Nat, NEW T, T \subseteq 1 .. n, T # {}
  PROVE  \E k \in T : \A j \in T : j <= k
<1> DEFINE D == {n - j : j \in T}
<1>1. D \subseteq Nat /\ D # {}
  <2>1. \A j \in T : j \in Int /\ n - j \in Nat
    <3>1. \A j \in 1 .. n : j \in Int /\ n - j \in Nat
      OBVIOUS
    <3> QED BY <3>1
  <2> QED BY <2>1
<1>2. PICK d \in D : \A x \in D : d <= x
  <2> HIDE DEF D
  <2> QED BY <1>1, LeastElement
<1>3. PICK k \in T : d = n - k
  OBVIOUS
<1>4. ASSUME NEW j \in T PROVE j <= k
  <2>1. n - j \in D
    OBVIOUS
  <2>2. n - k <= n - j
    <3> HIDE DEF D
    <3> QED BY <1>2, <1>3, <2>1
  <2>3. j \in 1 .. n /\ k \in 1 .. n
    OBVIOUS
  <2> HIDE DEF D
  <2> QED BY <2>2, <2>3
<1> QED BY <1>4

LEMMA HoldingFinite ==
  ASSUME NEW fs, FramesOK(fs), NEW l
  PROVE  IsFiniteSet(Holding(fs, l)) /\ Cardinality(Holding(fs, l)) \in Nat
<1>1. DOMAIN fs = 1 .. Len(fs) /\ Len(fs) \in Nat
  BY DEF FramesOK
<1>2. IsFiniteSet(DOMAIN fs)
  BY <1>1, FS_Interval
<1>3. Holding(fs, l) \subseteq DOMAIN fs
  BY DEF Holding
<1> QED BY <1>2, <1>3, FS_Subset, FS_CardinalityType

------------------------------------------------------------------------------
(* Steps that take no copy and make none free.                              *)

LEMMA InitCovered == Init => IInv
<1> SUFFICES ASSUME Init PROVE IInv
  OBVIOUS
<1>1. frames = <<>> /\ used = <<>> /\ count = Copies
  BY DEF Init
<1>2. FramesOK(frames)
  BY <1>1 DEF FramesOK, Range
<1>3. count \in [DOMAIN Copies -> Nat] /\ DOMAIN used = {} /\ used \in [DOMAIN used -> Nat]
  BY <1>1, InterpreterAssumption
<1>4. \A l : Holding(frames, l) = {} /\ ~Left(frames, l)
  BY <1>1 DEF Holding, Left
<1> QED BY <1>2, <1>3, <1>4 DEF IInv, Shape, Tally, Covered

LEMMA KeepsCovered ==
  ASSUME IInv, FramesOK(frames)', UNCHANGED <<used, count>>,
         \A l \in DOMAIN Copies : Holding(frames, l)' \subseteq Holding(frames, l),
         \A l \in DOMAIN Copies : Left(frames, l)' => Left(frames, l) \/ count[l] > 0
  PROVE  IInv'
<1>1. Shape'
  BY DEF IInv, Shape
<1>2. ASSUME NEW l \in DOMAIN Copies PROVE Covered(l)'
  <2>1. Covered(l) /\ FramesOK(frames) /\ count[l] \in Int /\ (l \in DOMAIN used => used[l] \in Nat)
    BY DEF IInv, Tally, Shape
  <2>2. /\ Cardinality(Holding(frames, l))' <= Cardinality(Holding(frames, l))
        /\ Cardinality(Holding(frames, l)) \in Nat /\ Cardinality(Holding(frames, l))' \in Nat
    BY <2>1, HoldingFinite, FS_Subset
  <2>3. l \in DOMAIN used => (used[l] + Cardinality(Holding(frames, l)) <= count[l])'
    BY <2>1, <2>2 DEF Covered
  <2>4. l \notin DOMAIN used =>
          (Holding(frames, l) = {} /\ count[l] >= 0 /\ (Left(frames, l) => count[l] > 0))'
    BY <2>1 DEF Covered
  <2> QED BY <2>3, <2>4 DEF Covered
<1> QED BY <1>1, <1>2, InterpreterAssumption DEF IInv, Tally

LEMMA QuietKeeps ==
  ASSUME IInv, UNCHANGED <<frames, used, count>>
  PROVE  IInv'
BY DEF IInv, Shape, Tally, Covered, FramesOK, Holding, Left

\* Only the instructions about loops, and REMOVE, change what is held.
LEMMA MostStepsAreQuiet ==
  ASSUME [Next]_vars
  PROVE  \/ UNCHANGED <<frames, used, count>>
         \/ execute_remove \/ ExecuteReset \/ ExecuteIter \/ NextMatch \/ NoMoreMatches
         \/ ReturnToIter \/ ReturnToReset \/ ReturnFromRule
<1> DEFINE Quiet == UNCHANGED <<frames, used, count>>
<1>1. UNCHANGED vars => Quiet
  BY DEF vars, frameVars, nodeVars
<1>2. PrintStep => Quiet
  BY DEF PrintStep, PrintInstr, PrintBody, PrintReset, PrintSelect, PrintBranch, PrintUntil,
         PrintThrows, Enter, OtherVars, frameVars, nodeVars
<1>3. Continue => Quiet
  BY DEF Continue, Control, frameVars, nodeVars
<1>4. Compute1 => Quiet
  <2>1. \A op, value : Compute(op, value) => Quiet
    BY <1>3 DEF Compute
  <2>2. \A op, off, value : ComputeReg(op, off, value) => Quiet
    BY <1>3 DEF ComputeReg
  <2>3. execute_move \/ execute_move_ptr => Quiet
    BY <1>3 DEF execute_move, execute_move_ptr
  <2>4. execute_move_pcounter => Quiet
    BY DEF execute_move_pcounter, frameVars, nodeVars
  <2> QED BY <2>1, <2>2, <2>3, <2>4
          DEF Compute1, execute_op, execute_not, execute_move_nil, execute_cons,
              execute_test_nil, execute_tail, execute_head, execute_float, execute_colocated,
              execute_alloc, execute_new_node, execute_call, execute_calle
<1>5. DoExecute \/ ExecuteCallf => Quiet
  BY DEF DoExecute, ExecuteCallf, frameVars, nodeVars
<1>6. execute_send \/ execute_new_axioms => Quiet
  BY DEF execute_send, execute_new_axioms, Send, frameVars
<1>7. execute_rule => Quiet
  BY DEF execute_rule, frameVars
<1>8. execute_delete \/ execute_rule_done \/ execute_select \/ ExecutePush \/ ExecutePop
      \/ ExecuteIf \/ ExecuteReturnSelect => Quiet
  BY <1>3 DEF execute_delete, execute_rule_done, execute_select, ExecutePush, ExecutePop,
              ExecuteIf, ExecuteReturnSelect
<1>9. ExecutePushRegs \/ ExecutePopRegs => Quiet
  BY DEF ExecutePushRegs, ExecutePopRegs, Control, frameVars, nodeVars
<1>10. ExecuteReturn => Quiet
  BY DEF ExecuteReturn, RecursionVars, nodeVars
<1>11. Finished => Quiet
  BY <1>1 DEF Finished
<1> QED BY <1>1, <1>2, <1>4, <1>5, <1>6, <1>7, <1>8, <1>9, <1>10, <1>11 DEF Next, Execute

LEMMA ResetKeeps ==
  ASSUME IInv, ExecuteReset PROVE IInv'
<1> DEFINE g == Frame("reset", {}, FALSE)
<1>1. frames' = Append(frames, g) /\ UNCHANGED <<used, count>>
  BY DEF ExecuteReset, RecursionVars, nodeVars
<1>2. IsFrame(g) /\ ~g.this
  BY DEF Frame, IsFrame
<1>3. FramesOK(frames)
  BY DEF IInv, Shape
<1> HIDE DEF g
<1>4. /\ FramesOK(frames') /\ DOMAIN frames' = DOMAIN frames \cup {Len(frames) + 1}
      /\ frames'[Len(frames) + 1] = g /\ \A i \in DOMAIN frames : frames'[i] = frames[i]
  BY <1>1, <1>2, <1>3, PushFrame
<1>5. \A l : Holding(frames', l) \subseteq Holding(frames, l) /\ (Left(frames', l) => Left(frames, l))
  BY <1>2, <1>4 DEF Holding, Left
<1> QED BY <1>1, <1>4, <1>5, KeepsCovered

LEMMA IterKeeps ==
  ASSUME IInv, ConsumesWhatItHolds, ExecuteIter PROVE IInv'
<1> DEFINE p == Source(iter_predicate(code, pc))
<1>1. p \in DOMAIN TuplesOf
  BY DEF ConsumesWhatItHolds, ExecuteIter
<1> HIDE DEF p
<1>2. PICK matches : /\ matches \subseteq {leaf \in TuplesOf[p] : count[leaf] > 0}
                     /\ frames' = Append(frames, Frame("iter", matches, p \in Linear))
                     /\ UNCHANGED <<used, count>>
  BY DEF ExecuteIter, RecursionVars, nodeVars, p
<1>3. PICK g : g = Frame("iter", matches, p \in Linear)
  OBVIOUS
<1>4. matches \subseteq DOMAIN Copies /\ \A l \in matches : (p \in Linear) <=> l \in LinearLeaves
  BY <1>1, <1>2, InterpreterAssumption DEF LinearLeaves
<1>5. IsFrame(g) /\ g.cur = 0 /\ g.left = matches
  <2>1. CASE p \in Linear
    <3>1. g = Frame("iter", matches, TRUE)
      BY <1>3, <2>1
    <3> QED BY <1>4, <2>1, <3>1 DEF Frame, IsFrame
  <2>2. CASE p \notin Linear
    <3>1. g = Frame("iter", matches, FALSE)
      <4>1. (p \in Linear) = FALSE
        BY <2>2
      <4> QED BY <1>3, <4>1
    <3> QED BY <1>4, <2>2, <3>1 DEF Frame, IsFrame
  <2> QED BY <2>1, <2>2
<1>6. FramesOK(frames)
  BY DEF IInv, Shape
<1>7. /\ FramesOK(frames') /\ DOMAIN frames' = DOMAIN frames \cup {Len(frames) + 1}
      /\ frames'[Len(frames) + 1] = g /\ \A i \in DOMAIN frames : frames'[i] = frames[i]
  BY <1>2, <1>3, <1>5, <1>6, PushFrame
<1>8. ASSUME NEW l \in DOMAIN Copies
      PROVE  /\ Holding(frames', l) \subseteq Holding(frames, l)
             /\ Left(frames', l) => Left(frames, l) \/ count[l] > 0
  <2>1. l # 0
    BY InterpreterAssumption
  <2>2. Holding(frames', l) \subseteq Holding(frames, l)
    BY <1>5, <1>7, <2>1 DEF Holding
  <2>3. l \in matches => count[l] > 0
    BY <1>2
  <2>4. Left(frames', l) => Left(frames, l) \/ l \in matches
    BY <1>5, <1>7 DEF Left
  <2> QED BY <2>2, <2>3, <2>4
<1> QED BY <1>2, <1>7, <1>8, KeepsCovered

LEMMA FrontKeeps ==
  ASSUME IInv, frames # <<>>, frames' = Front(frames), UNCHANGED <<used, count>>
  PROVE  IInv'
<1>1. FramesOK(frames)
  BY DEF IInv, Shape
<1>2. /\ FramesOK(frames') /\ DOMAIN frames' = DOMAIN frames \ {Len(frames)}
      /\ \A i \in DOMAIN frames' : frames'[i] = frames[i]
  BY <1>1, FrontFrames
<1>3. \A l : Holding(frames', l) \subseteq Holding(frames, l) /\ (Left(frames', l) => Left(frames, l))
  BY <1>2 DEF Holding, Left
<1> QED BY <1>2, <1>3, KeepsCovered

------------------------------------------------------------------------------
(* Steps that use a copy, make it free again or take it.                    *)

\* What the copy in use of one open call does to the sums of a leaf.
LEMMA OneCallChanges ==
  ASSUME NEW fs, FramesOK(fs), NEW h, DOMAIN h = DOMAIN fs, NEW k \in DOMAIN fs,
         \A i \in DOMAIN fs : i # k => h[i] = fs[i], NEW l
  PROVE  /\ Cardinality(Holding(fs, l)) \in Nat /\ Cardinality(Holding(h, l)) \in Nat
         /\ Cardinality(Holding(h, l)) =
              Cardinality(Holding(fs, l)) - (IF k \in Holding(fs, l) THEN 1 ELSE 0)
                                          + (IF k \in Holding(h, l) THEN 1 ELSE 0)
<1> DEFINE A == Holding(fs, l)
           B == Holding(h, l)
<1>1. IsFiniteSet(A)
  BY HoldingFinite
<1>2. A \ {k} = B \ {k}
  BY DEF Holding
<1> HIDE DEF A, B
<1>3. /\ Cardinality(A) \in Nat /\ Cardinality(B) \in Nat
      /\ Cardinality(B) = Cardinality(A) - (IF k \in A THEN 1 ELSE 0) + (IF k \in B THEN 1 ELSE 0)
  BY <1>1, <1>2, CardinalityChange
<1> QED BY <1>3 DEF A, B

LEMMA MatchKeeps ==
  ASSUME IInv, NextMatch PROVE IInv'
<1> DEFINE n == Len(frames)
           f == frames[n]
<1>1. FramesOK(frames) /\ n \in DOMAIN frames /\ IsFrame(f) /\ f.t = "iter" /\ f.cur = 0
  <2>1. FramesOK(frames) /\ frames # <<>> /\ f.t = "iter" /\ f.cur = 0
    BY DEF NextMatch, Between, Top, IInv, Shape
  <2> QED BY <2>1, FrontFrames DEF FramesOK
<1>2. PICK leaf \in f.left :
        IF f.this /\ ~linear_tuple_can_be_used(leaf)
        THEN frames' = [frames EXCEPT ![n].left = @ \ {leaf}] /\ UNCHANGED used
        ELSE /\ frames' = [frames EXCEPT ![n] =
                  [f EXCEPT !.cur = leaf, !.left = @ \ {leaf}, !.gone = FALSE]]
             /\ used' = IF f.this THEN using_new_linear_tuple(leaf) ELSE used
  BY DEF NextMatch, Top
<1>3. UNCHANGED count
  BY DEF NextMatch, RecursionVars, nodeVars
<1>4. leaf \in DOMAIN Copies /\ leaf # 0 /\ (f.this <=> leaf \in LinearLeaves)
  BY <1>1, <1>2, InterpreterAssumption DEF IsFrame
<1> HIDE DEF n, f
<1> DEFINE passed == [f EXCEPT !.left = @ \ {leaf}]
           run == [f EXCEPT !.cur = leaf, !.left = @ \ {leaf}, !.gone = FALSE]
<1>5. /\ IsFrame(passed) /\ passed.cur = 0 /\ passed.left = f.left \ {leaf} /\ passed.this = f.this
      /\ IsFrame(run) /\ run.cur = leaf /\ run.left = f.left \ {leaf} /\ run.this = f.this
      /\ run.gone = FALSE
  BY <1>1, <1>4 DEF IsFrame
<1> HIDE DEF passed, run
<1>6. ASSUME NEW g \in {passed, run}, frames' = [frames EXCEPT ![n] = g]
      PROVE  FramesOK(frames') /\ \A l : Left(frames', l) => Left(frames, l)
  <2>1. IsFrame(g) /\ g.left \subseteq f.left /\ g.this = f.this
    BY <1>5
  <2>2. FramesOK(frames') /\ DOMAIN frames' = DOMAIN frames
        /\ \A i \in DOMAIN frames : frames'[i] = IF i = n THEN g ELSE frames[i]
    BY <1>1, <1>6, <2>1, ReplaceFrame
  <2> QED BY <2>1, <2>2 DEF Left, f
<1>7. CASE f.this /\ ~linear_tuple_can_be_used(leaf)
  <2>1. frames' = [frames EXCEPT ![n] = passed] /\ UNCHANGED used
    BY <1>2, <1>7 DEF passed, f
  <2>2. DOMAIN frames' = DOMAIN frames
        /\ \A i \in DOMAIN frames : frames'[i] = IF i = n THEN passed ELSE frames[i]
    BY <1>1, <1>5, <2>1, ReplaceFrame
  <2>3. ASSUME NEW l \in DOMAIN Copies PROVE Holding(frames', l) \subseteq Holding(frames, l)
    BY <1>5, <2>2, InterpreterAssumption DEF Holding
  <2> QED BY <1>3, <1>6, <2>1, <2>3, KeepsCovered
<1>8. CASE ~f.this
  <2>1. frames' = [frames EXCEPT ![n] = run] /\ UNCHANGED used
    BY <1>2, <1>8 DEF run
  <2>2. DOMAIN frames' = DOMAIN frames
        /\ \A i \in DOMAIN frames : frames'[i] = IF i = n THEN run ELSE frames[i]
    BY <1>1, <1>5, <2>1, ReplaceFrame
  <2>3. ASSUME NEW l \in DOMAIN Copies PROVE Holding(frames', l) \subseteq Holding(frames, l)
    BY <1>5, <1>8, <2>2 DEF Holding
  <2> QED BY <1>3, <1>6, <2>1, <2>3, KeepsCovered
<1>9. CASE f.this /\ linear_tuple_can_be_used(leaf)
  <2>1. frames' = [frames EXCEPT ![n] = run] /\ used' = using_new_linear_tuple(leaf)
    BY <1>2, <1>9 DEF run
  <2>2. Shape /\ Left(frames, leaf) /\ \A l \in DOMAIN Copies : Covered(l)
    BY <1>1, <1>2, <1>9 DEF IInv, Tally, Left, f
  <2>3. /\ leaf \in DOMAIN used => used[leaf] \in Nat /\ used[leaf] > 0
        /\ leaf \notin DOMAIN used => count[leaf] > 0 /\ Holding(frames, leaf) = {}
        /\ count \in [DOMAIN Copies -> Int]
    BY <1>4, <1>9, <2>2 DEF linear_tuple_can_be_used, Shape, Covered
  <2>4. /\ DOMAIN used' = DOMAIN used \cup {leaf}
        /\ used'[leaf] = IF leaf \in DOMAIN used THEN used[leaf] - 1 ELSE count[leaf] - 1
        /\ \A l \in DOMAIN used : l # leaf => used'[l] = used[l]
        /\ used' = [l \in DOMAIN used' |-> used'[l]]
    BY <2>1 DEF using_new_linear_tuple
  <2>5. Shape'
    <3>1. used'[leaf] \in Nat
      BY <1>4, <2>3, <2>4
    <3>2. \A l \in DOMAIN used : used[l] \in Nat
      BY <2>2 DEF Shape
    <3>3. used' \in [DOMAIN used' -> Nat] /\ DOMAIN used' \subseteq DOMAIN Copies
      BY <1>4, <2>2, <2>4, <3>1, <3>2 DEF Shape
    <3> QED BY <1>3, <1>6, <2>1, <2>3, <3>3 DEF Shape
  <2>6. DOMAIN frames' = DOMAIN frames
        /\ \A i \in DOMAIN frames : frames'[i] = IF i = n THEN run ELSE frames[i]
    BY <1>1, <1>5, <2>1, ReplaceFrame
  <2>7. ASSUME NEW l \in DOMAIN Copies PROVE Covered(l)'
    <3>1. /\ Cardinality(Holding(frames, l)) \in Nat /\ Cardinality(Holding(frames', l)) \in Nat
          /\ Cardinality(Holding(frames', l)) =
               Cardinality(Holding(frames, l)) + (IF l = leaf THEN 1 ELSE 0)
      <4>1. /\ Cardinality(Holding(frames, l)) \in Nat /\ Cardinality(Holding(frames', l)) \in Nat
            /\ Cardinality(Holding(frames', l)) =
                 Cardinality(Holding(frames, l)) - (IF n \in Holding(frames, l) THEN 1 ELSE 0)
                                                 + (IF n \in Holding(frames', l) THEN 1 ELSE 0)
        BY <1>1, <2>6, OneCallChanges
      <4>2. n \notin Holding(frames, l) /\ (n \in Holding(frames', l) <=> l = leaf)
        BY <1>1, <1>5, <1>9, <2>6, InterpreterAssumption DEF Holding, f
      <4> QED BY <4>1, <4>2
    <3>2. CASE l = leaf
      <4>1. l \notin DOMAIN used => Cardinality(Holding(frames, l)) = 0
        BY <2>3, <3>2, FS_EmptySet
      <4>2. l \in DOMAIN used => used[l] + Cardinality(Holding(frames, l)) <= count[l]
        BY <2>2 DEF Covered
      <4>3. used'[l] + Cardinality(Holding(frames', l)) <= count[l]
        BY <2>3, <2>4, <3>1, <3>2, <4>1, <4>2
      <4> QED BY <1>3, <2>4, <3>2, <4>3 DEF Covered
    <3>3. CASE l # leaf
      <4>1. Holding(frames', l) = {} <=> Holding(frames, l) = {}
        <5>1. f.cur # l
          BY <1>1, InterpreterAssumption
        <5> QED BY <1>5, <2>6, <3>3, <5>1 DEF Holding, f
      <4>2. Left(frames', l) => Left(frames, l)
        BY <1>6, <2>1
      <4>3. Covered(l)
        BY <2>2
      <4>4. (l \in DOMAIN used' <=> l \in DOMAIN used) /\ (l \in DOMAIN used => used'[l] = used[l])
        BY <2>4, <3>3
      <4>5. Cardinality(Holding(frames', l)) = Cardinality(Holding(frames, l))
        BY <3>1, <3>3
      <4> QED BY <1>3, <4>1, <4>2, <4>3, <4>4, <4>5 DEF Covered
    <3> QED BY <3>2, <3>3
  <2> QED BY <2>5, <2>7, InterpreterAssumption DEF IInv, Tally
<1> QED
  <2>1. f.this \in BOOLEAN
    BY <1>1 DEF IsFrame
  <2> QED BY <1>7, <1>8, <1>9, <2>1

LEMMA ReturnKeeps ==
  ASSUME IInv, ConsumesWhatItHolds, ReturnToIter PROVE IInv'
<1> DEFINE n == Len(frames)
           f == frames[n]
           leave == ret = "LINEAR" \/ (ret = "DERIVED" /\ f.lin)
           again == [f EXCEPT !.cur = 0]
<1>1. FramesOK(frames) /\ frames # <<>> /\ n \in DOMAIN frames /\ IsFrame(f)
  <2>1. FramesOK(frames) /\ frames # <<>>
    BY DEF ReturnToIter, IInv, Shape
  <2> QED BY <2>1, FrontFrames DEF FramesOK
<1>2. /\ frames' = IF leave THEN Front(frames) ELSE [frames EXCEPT ![n].cur = 0]
      /\ used' = IF f.this /\ ret \notin {"LINEAR", "DERIVED"}
                 THEN [used EXCEPT ![f.cur] = @ + 1] ELSE used
      /\ UNCHANGED count
      /\ ret # "none"
  BY DEF ReturnToIter, Top, RecursionVars, nodeVars
<1>3. ret \notin {"LINEAR", "DERIVED"} => ~f.gone
  BY <1>1, <1>2 DEF ConsumesWhatItHolds, Top
<1>4. IsFrame(again) /\ again.cur = 0 /\ again.left = f.left /\ again.this = f.this
  BY <1>1 DEF IsFrame
<1>5. [frames EXCEPT ![n].cur = 0] = [frames EXCEPT ![n] = again]
  OBVIOUS
<1> HIDE DEF n, f, again
<1>6. /\ FramesOK(frames')
      /\ DOMAIN frames' \in {DOMAIN frames, DOMAIN frames \ {n}}
      /\ \A i \in DOMAIN frames' : frames'[i] = frames[i] \/ (i = n /\ frames'[i] = again)
  <2>1. CASE leave
    BY <1>1, <1>2, <2>1, FrontFrames DEF n
  <2>2. CASE ~leave
    <3>1. frames' = [frames EXCEPT ![n] = again]
      BY <1>2, <1>5, <2>2
    <3> QED BY <1>1, <1>4, <3>1, ReplaceFrame
  <2> QED BY <2>1, <2>2
<1>7. ASSUME NEW l \in DOMAIN Copies
      PROVE  /\ Holding(frames', l) \subseteq Holding(frames, l)
             /\ Left(frames', l) => Left(frames, l)
  BY <1>1, <1>4, <1>6, InterpreterAssumption DEF Holding, Left, f
<1>8. CASE ~(f.this /\ ret \notin {"LINEAR", "DERIVED"}) \/ f.cur \notin DOMAIN used
  <2>1. UNCHANGED used
    <3>1. used = [l \in DOMAIN used |-> used[l]]
      BY DEF IInv, Shape
    <3> QED BY <1>2, <1>8, <3>1
  <2> QED BY <1>2, <1>6, <1>7, <2>1, KeepsCovered
<1>9. CASE f.this /\ ret \notin {"LINEAR", "DERIVED"} /\ f.cur \in DOMAIN used
  <2>1. /\ used \in [DOMAIN used -> Nat] /\ DOMAIN used \subseteq DOMAIN Copies
        /\ count \in [DOMAIN Copies -> Int]
    BY DEF IInv, Shape
  <2>2. /\ DOMAIN used' = DOMAIN used /\ used' \in [DOMAIN used -> Nat]
        /\ \A l \in DOMAIN used : used'[l] = IF l = f.cur THEN used[l] + 1 ELSE used[l]
    BY <1>2, <1>9, <2>1
  <2>3. Shape'
    BY <1>2, <1>6, <2>1, <2>2 DEF Shape
  <2>4. ~leave /\ ~f.gone /\ f.cur # 0
    BY <1>3, <1>9, <2>1, InterpreterAssumption
  <2>5. DOMAIN frames' = DOMAIN frames
        /\ \A i \in DOMAIN frames : frames'[i] = IF i = n THEN again ELSE frames[i]
    <3>1. frames' = [frames EXCEPT ![n] = again]
      BY <1>2, <1>5, <2>4
    <3> QED BY <1>1, <1>4, <3>1, ReplaceFrame
  <2>6. ASSUME NEW l \in DOMAIN Copies PROVE Covered(l)'
    <3>1. Covered(l) /\ l # 0
      BY InterpreterAssumption DEF IInv, Tally
    <3>2. /\ Cardinality(Holding(frames, l)) \in Nat /\ Cardinality(Holding(frames', l)) \in Nat
          /\ Cardinality(Holding(frames', l)) =
               Cardinality(Holding(frames, l)) - (IF n \in Holding(frames, l) THEN 1 ELSE 0)
                                               + (IF n \in Holding(frames', l) THEN 1 ELSE 0)
      BY <1>1, <2>5, OneCallChanges
    <3>3. n \notin Holding(frames', l) /\ (n \in Holding(frames, l) <=> l = f.cur)
      BY <1>1, <1>4, <1>9, <2>4, <2>5, <3>1 DEF Holding, f
    <3>4. l \in DOMAIN used => (used[l] + Cardinality(Holding(frames, l)) <= count[l])'
      <4>1. ASSUME l \in DOMAIN used
            PROVE  /\ used[l] + Cardinality(Holding(frames, l)) <= count[l]
                   /\ used[l] \in Nat /\ count[l] \in Int
        BY <2>1, <3>1, <4>1 DEF Covered
      <4>2. Cardinality(Holding(frames', l)) =
              IF l = f.cur THEN Cardinality(Holding(frames, l)) - 1 ELSE Cardinality(Holding(frames, l))
        BY <3>2, <3>3
      <4> QED BY <1>2, <2>2, <3>2, <4>1, <4>2
    <3>5. l \notin DOMAIN used =>
            (Holding(frames, l) = {} /\ count[l] >= 0 /\ (Left(frames, l) => count[l] > 0))'
      BY <1>2, <1>7, <3>1 DEF Covered
    <3> QED BY <2>2, <3>4, <3>5 DEF Covered
  <2> QED BY <2>3, <2>6, InterpreterAssumption DEF IInv, Tally
<1> QED BY <1>8, <1>9

\* REMOVE finds an open call with a copy in use, and takes it from the innermost
\* one: all that have this leaf go over the predicate it is of.
LEMMA RemoveKeeps ==
  ASSUME IInv, ConsumesWhatItHolds, execute_remove PROVE IInv'
<1> DEFINE leaf == saved_leafs[reg_get(code, pc, 1)]
           holders == {i \in DOMAIN frames : frames[i].cur = leaf /\ ~frames[i].gone}
<1>1. /\ count' = [count EXCEPT ![leaf] = @ - 1]
      /\ frames' = [i \in DOMAIN frames |->
           IF i \in holders /\ \A j \in holders : j <= i
           THEN [frames[i] EXCEPT !.gone = TRUE] ELSE frames[i]]
      /\ UNCHANGED used
  BY DEF execute_remove
<1>2. \E i \in DOMAIN frames : frames[i].cur = leaf /\ frames[i].this /\ ~frames[i].gone
  BY DEF execute_remove, ConsumesWhatItHolds
<1> HIDE DEF leaf
<1>3. FramesOK(frames) /\ DOMAIN frames = 1 .. Len(frames) /\ Len(frames) \in Nat
  BY DEF IInv, Shape, FramesOK
<1>4. PICK k \in holders : \A j \in holders : j <= k
  <2>1. holders \subseteq 1 .. Len(frames) /\ holders # {}
    BY <1>2, <1>3
  <2> HIDE DEF holders
  <2> QED BY <1>3, <2>1, GreatestElement
<1> DEFINE g == [frames[k] EXCEPT !.gone = TRUE]
<1>5. k \in DOMAIN frames /\ frames[k].cur = leaf /\ ~frames[k].gone /\ IsFrame(frames[k])
  BY <1>3 DEF FramesOK
<1>6. IsFrame(g) /\ g.gone = TRUE /\ g.left = frames[k].left /\ g.this = frames[k].this
  BY <1>5 DEF IsFrame
<1>7. /\ DOMAIN frames' = DOMAIN frames
      /\ \A i \in DOMAIN frames : frames'[i] = IF i = k THEN g ELSE frames[i]
      /\ frames' = [frames EXCEPT ![k] = g]
  <2>1. \A i \in DOMAIN frames : (i \in holders /\ \A j \in holders : j <= i) <=> i = k
    BY <1>3, <1>4
  <2> HIDE DEF holders
  <2>2. /\ DOMAIN frames' = DOMAIN frames
        /\ \A i \in DOMAIN frames : frames'[i] = IF i = k THEN g ELSE frames[i]
        /\ frames' = [i \in DOMAIN frames |-> frames'[i]]
    BY <1>1, <2>1
  <2> HIDE DEF g
  <2>3. frames' = [i \in DOMAIN frames |-> IF i = k THEN g ELSE frames[i]]
    BY <2>2
  <2> QED BY <2>2, <2>3
<1> HIDE DEF holders, g
<1>8. FramesOK(frames')
  BY <1>3, <1>5, <1>6, <1>7, ReplaceFrame
<1>9. Shape /\ count \in [DOMAIN Copies -> Int] /\ used \in [DOMAIN used -> Nat]
  BY DEF IInv, Shape
<1>10. /\ count' \in [DOMAIN Copies -> Int]
       /\ \A l \in DOMAIN Copies : count'[l] = IF l = leaf THEN count[l] - 1 ELSE count[l]
  <2>1. count' = [count EXCEPT ![leaf] = count[leaf] - 1] /\ count \in [DOMAIN Copies -> Int]
    BY <1>1, <1>9
  <2>2. leaf \in DOMAIN Copies => count[leaf] - 1 \in Int
    BY <2>1
  <2> QED BY <2>1, <2>2
<1>11. ASSUME NEW l \in DOMAIN Copies PROVE Covered(l)'
  <2>1. Covered(l) /\ l # 0 /\ count[l] \in Int
    BY <1>9, InterpreterAssumption DEF IInv, Tally
  <2>2. Left(frames', l) => Left(frames, l)
    BY <1>6, <1>7 DEF Left
  <2>3. /\ Cardinality(Holding(frames, l)) \in Nat /\ Cardinality(Holding(frames', l)) \in Nat
        /\ Cardinality(Holding(frames', l)) =
             Cardinality(Holding(frames, l)) - (IF k \in Holding(frames, l) THEN 1 ELSE 0)
                                             + (IF k \in Holding(frames', l) THEN 1 ELSE 0)
    <3>1. DOMAIN frames' = DOMAIN frames /\ \A i \in DOMAIN frames : i # k => frames'[i] = frames[i]
      BY <1>7
    <3>2. FramesOK(frames) /\ k \in DOMAIN frames
      BY <1>3, <1>5
    <3> QED BY <3>1, <3>2, OneCallChanges
  <2>4. k \notin Holding(frames', l) /\ Holding(frames', l) \subseteq Holding(frames, l)
    BY <1>6, <1>7 DEF Holding
  <2>5. CASE l = leaf
    <3>1. frames[k].this
      <4>1. leaf \in LinearLeaves
        BY <1>2, <1>3, <2>1, <2>5 DEF FramesOK, IsFrame
      <4> QED BY <1>5, <2>1, <2>5, <4>1 DEF IsFrame
    <3>2. k \in Holding(frames, l)
      BY <1>5, <2>5, <3>1 DEF Holding
    <3>3. l \in DOMAIN used /\ used[l] \in Nat
      BY <1>9, <2>1, <3>2 DEF Covered
    <3>4. used[l] + Cardinality(Holding(frames, l)) <= count[l]
      BY <2>1, <3>3 DEF Covered
    <3>5. Cardinality(Holding(frames', l)) = Cardinality(Holding(frames, l)) - 1
      BY <2>3, <2>4, <3>2
    <3>6. (used[l] + Cardinality(Holding(frames, l)) <= count[l])'
      BY <1>1, <1>10, <2>1, <2>3, <2>5, <3>3, <3>4, <3>5
    <3> QED BY <1>1, <3>3, <3>6 DEF Covered
  <2>6. CASE l # leaf
    <3>1. k \notin Holding(frames, l)
      BY <1>5, <2>6 DEF Holding
    <3>2. Cardinality(Holding(frames', l)) = Cardinality(Holding(frames, l))
      BY <2>3, <2>4, <3>1
    <3>3. count'[l] = count[l]
      BY <1>10, <2>6
    <3> QED BY <1>1, <2>1, <2>2, <2>4, <3>2, <3>3 DEF Covered
  <2> QED BY <2>5, <2>6
<1>12. Shape'
  BY <1>1, <1>8, <1>9, <1>10 DEF Shape
<1> QED BY <1>11, <1>12, InterpreterAssumption DEF IInv, Tally

LEMMA RuleOverKeeps ==
  ASSUME IInv, ReturnFromRule PROVE IInv'
<1>1. frames = <<>> /\ frames' = frames /\ used' = <<>> /\ UNCHANGED count
  BY DEF ReturnFromRule, nodeVars
<1>2. DOMAIN used' = {} /\ used' \in [DOMAIN used' -> Nat]
  BY <1>1
<1>3. Shape'
  BY <1>1, <1>2 DEF IInv, Shape, FramesOK
<1>4. ASSUME NEW l \in DOMAIN Copies PROVE Covered(l)'
  <2>1. Holding(frames, l) = {} /\ ~Left(frames, l)
    BY <1>1 DEF Holding, Left
  <2>2. count[l] >= 0
    <3>1. Covered(l) /\ Shape
      BY DEF IInv, Tally
    <3>2. Cardinality(Holding(frames, l)) = 0
      BY <2>1, FS_EmptySet
    <3> QED BY <3>1, <3>2 DEF Covered, Shape
  <2> QED BY <1>1, <1>2, <2>1, <2>2 DEF Covered
<1> QED BY <1>1, <1>3, <1>4, InterpreterAssumption DEF IInv, Tally

------------------------------------------------------------------------------
LEMMA StepKeeps ==
  ASSUME IInv, ConsumesWhatItHolds, [Next]_vars PROVE IInv'
<1>1. CASE UNCHANGED <<frames, used, count>>
  BY <1>1, QuietKeeps
<1>2. CASE execute_remove
  BY <1>2, RemoveKeeps
<1>3. CASE ExecuteReset
  BY <1>3, ResetKeeps
<1>4. CASE ExecuteIter
  BY <1>4, IterKeeps
<1>5. CASE NextMatch
  BY <1>5, MatchKeeps
<1>6. CASE NoMoreMatches
  BY <1>6, FrontKeeps DEF NoMoreMatches, Between, RecursionVars, nodeVars
<1>7. CASE ReturnToIter
  BY <1>7, ReturnKeeps
<1>8. CASE ReturnToReset
  BY <1>8, FrontKeeps DEF ReturnToReset, nodeVars
<1>9. CASE ReturnFromRule
  BY <1>9, RuleOverKeeps
<1> QED BY <1>1, <1>2, <1>3, <1>4, <1>5, <1>6, <1>7, <1>8, <1>9, MostStepsAreQuiet

\* The copies in use are among those of the sum.
LEMMA CoveredHolds == IInv => HeldWithinCount
<1> SUFFICES ASSUME IInv, NEW l \in DOMAIN Copies
             PROVE  Cardinality(Holding(frames, l)) <= count[l]
  BY DEF HeldWithinCount, Holding
<1>1. Covered(l) /\ Shape /\ count[l] \in Int
  BY DEF IInv, Tally, Shape
<1>2. Cardinality(Holding(frames, l)) \in Nat
  BY <1>1, HoldingFinite DEF Shape
<1>3. CASE l \in DOMAIN used
  <2>1. used[l] \in Nat /\ used[l] + Cardinality(Holding(frames, l)) <= count[l]
    BY <1>1, <1>3 DEF Covered, Shape
  <2> QED BY <1>1, <1>2, <2>1
<1>4. CASE l \notin DOMAIN used
  <2>1. Holding(frames, l) = {} /\ count[l] >= 0
    BY <1>1, <1>4 DEF Covered
  <2>2. Cardinality(Holding(frames, l)) = 0
    BY <2>1, FS_EmptySet
  <2> QED BY <2>1, <2>2
<1> QED BY <1>3, <1>4

(***************************************************************************)
(* No copy is in use twice: however iterations and comprehensions are      *)
(* nested, whichever matches they find and wherever they return to, a leaf *)
(* of the trie is in use by no more open ITERs than it has copies, in      *)
(* every execution of a program that consumes only what it holds.          *)
(***************************************************************************)
THEOREM NoCopyUsedTwice == Spec /\ []ConsumesWhatItHolds => []HeldWithinCount
<1>1. Init => IInv
  BY InitCovered
<1>2. IInv /\ ConsumesWhatItHolds /\ [Next]_vars => IInv'
  BY StepKeeps
<1> QED BY <1>1, <1>2, CoveredHolds, PTL DEF Spec

==============================================================================
