---------------------------- MODULE CommonLemmas ----------------------------
(***************************************************************************)
(* Facts that the proofs of this project share: about the natural numbers, *)
(* about loops, and about how often an element occurs in a sequence and    *)
(* what removing its first occurrence does.                                *)
(***************************************************************************)
EXTENDS Integers, FiniteSetTheorems, SequencesExt, SequenceTheorems, TLAPS

(***************************************************************************)
(* Every non-empty set of naturals has a least element: what stands for    *)
(* induction in the proofs, which argue about a smallest counterexample.   *)
(* It is derived from the well-foundedness of inclusion of finite sets.    *)
(***************************************************************************)
LEMMA LeastElement ==
  ASSUME NEW T, T \subseteq Nat, T # {}
  PROVE  \E x \in T : \A y \in T : x <= y
<1> DEFINE R == StrictSubsetOrdering(Nat)
           U == {0 .. x : x \in T}
<1>1. IsWellFoundedOn(R, FiniteSubsetsOf(Nat))
  BY FS_StrictSubsetOrderingWellFounded
<1>2. U \subseteq FiniteSubsetsOf(Nat) /\ U # {}
  <2>1. \A x \in T : 0 .. x \subseteq Nat /\ IsFiniteSet(0 .. x)
    BY FS_Interval
  <2> QED BY <2>1 DEF FiniteSubsetsOf
<1>3. \E X \in U : \A Y \in U : ~(<<Y, X>> \in R)
  <2> HIDE DEF R, U
  <2> QED BY <1>1, <1>2, WFMin
<1>4. PICK x \in T : \A y \in T : ~(<<0 .. y, 0 .. x>> \in R)
  BY <1>3
<1>5. ASSUME NEW y \in T, y < x PROVE FALSE
  <2>1. x \in Nat /\ y \in Nat
    OBVIOUS
  <2>2. 0 .. y \subseteq 0 .. x /\ x \in 0 .. x /\ x \notin 0 .. y
    BY <2>1, <1>5
  <2> DEFINE A == 0 .. y
             B == 0 .. x
  <2>3. A \subseteq B /\ A # B /\ A \in SUBSET Nat /\ B \in SUBSET Nat
    BY <2>1, <2>2
  <2>4. <<A, B>> \notin R
    BY <1>4
  <2> HIDE DEF A, B
  <2>5. <<A, B>> \in StrictSubsetOrdering(Nat)
    BY <2>3 DEF StrictSubsetOrdering
  <2> QED BY <2>4, <2>5
<1> QED BY <1>5

(***************************************************************************)
(* Loops.  A loop goes from state x to next[x] unless x is in Stop, where  *)
(* it returns out[x].  It is a recursive function, which exists whether    *)
(* the loop ends or not.                                                   *)
(***************************************************************************)
IsLoop(g, D, Stop, next, out) ==
  /\ g = [x \in D |-> g[x]]
  /\ \A x \in D : g[x] = IF x \in Stop THEN out[x] ELSE g[next[x]]

StaysIn(D, Stop, next) == \A x \in D \ Stop : next[x] \in D

\* The loop comes down a rank, and does not leave Inv.
Decreases(Inv, Stop, next, rank) ==
  /\ \A x \in Inv : rank[x] \in Nat
  /\ \A x \in Inv \ Stop : next[x] \in Inv /\ rank[next[x]] < rank[x]

LEMMA LoopExists ==
  ASSUME NEW D, NEW Stop, NEW next, NEW out, StaysIn(D, Stop, next)
  PROVE  \E g : IsLoop(g, D, Stop, next, out)
<1> DEFINE Closed(S) == \A z \in S \ Stop : next[z] \in S
           Reach(x) == {y \in D : \A S \in SUBSET D : x \in S /\ Closed(S) => y \in S}
           Final(x) == out[CHOOSE y : y \in Reach(x) \cap Stop]
           g == [x \in D |-> Final(x)]
<1>1. ASSUME NEW x \in D, x \in Stop PROVE Reach(x) \cap Stop = {x}
  <2>1. {x} \in SUBSET D /\ Closed({x})
    BY <1>1
  <2> QED BY <1>1, <2>1
<1>2. ASSUME NEW x \in D, x \notin Stop PROVE Reach(x) \cap Stop = Reach(next[x]) \cap Stop
  <2>1. next[x] \in D
    BY <1>2 DEF StaysIn
  <2>2. ASSUME NEW y \in Reach(x), y \in Stop PROVE y \in Reach(next[x])
    <3> SUFFICES ASSUME NEW S \in SUBSET D, next[x] \in S, Closed(S) PROVE y \in S
      OBVIOUS
    <3>1. S \cup {x} \in SUBSET D /\ Closed(S \cup {x})
      OBVIOUS
    <3>2. y \in S \cup {x}
      BY <3>1
    <3> QED BY <1>2, <2>2, <3>2
  <2>3. ASSUME NEW y \in Reach(next[x]) PROVE y \in Reach(x)
    <3> SUFFICES ASSUME NEW S \in SUBSET D, x \in S, Closed(S) PROVE y \in S
      OBVIOUS
    <3>1. next[x] \in S
      BY <1>2
    <3> QED BY <3>1
  <2> QED BY <2>2, <2>3
<1>3. ASSUME NEW x \in D PROVE g[x] = IF x \in Stop THEN out[x] ELSE g[next[x]]
  <2> HIDE DEF Reach
  <2>1. CASE x \in Stop
    BY <1>1, <2>1
  <2>2. CASE x \notin Stop
    BY <1>2, <2>2 DEF StaysIn
  <2> QED BY <2>1, <2>2
<1> HIDE DEF Final
<1>4. g = [x \in D |-> g[x]]
  OBVIOUS
<1> QED BY <1>3, <1>4 DEF IsLoop

\* If the loop keeps an invariant and comes down a rank, it returns, from a state
\* that satisfies the invariant.
LEMMA LoopInvariant ==
  ASSUME NEW D, NEW Stop, NEW next, NEW out, NEW g, NEW Inv, NEW rank,
         IsLoop(g, D, Stop, next, out), Inv \subseteq D, Decreases(Inv, Stop, next, rank)
  PROVE  \A x \in Inv : \E y \in Inv \cap Stop : g[x] = out[y]
<1> DEFINE Good(x) == \E y \in Inv \cap Stop : g[x] = out[y]
           Bad == {x \in Inv : ~Good(x)}
<1> SUFFICES ASSUME Bad # {} PROVE FALSE
  OBVIOUS
<1> DEFINE T == {rank[x] : x \in Bad}
<1>1. T \subseteq Nat /\ T # {}
  BY DEF Decreases
<1>2. PICK r \in T : \A y \in T : r <= y
  <2> HIDE DEF T
  <2> QED BY <1>1, LeastElement
<1>3. PICK x \in Bad : r = rank[x]
  OBVIOUS
<1>4. x \in Inv /\ x \in D /\ x \notin Stop
  BY DEF IsLoop
<1>5. next[x] \in Inv /\ rank[next[x]] < rank[x] /\ g[x] = g[next[x]]
  BY <1>4 DEF IsLoop, Decreases
<1>6. next[x] \in Bad
  BY <1>3, <1>4, <1>5
<1>7. rank[next[x]] \in T /\ rank[next[x]] \in Nat /\ rank[x] \in Nat
  BY <1>4, <1>5, <1>6 DEF Decreases
<1>8. rank[x] <= rank[next[x]]
  <2> HIDE DEF T, Bad
  <2> QED BY <1>2, <1>3, <1>7
<1> QED
  <2> HIDE DEF T, Bad
  <2> QED BY <1>5, <1>7, <1>8

(***************************************************************************)
(* Sequences.                                                              *)
(***************************************************************************)
LEMMA AppendShape ==
  ASSUME NEW S, NEW q \in Seq(S), NEW x
  PROVE  /\ Len(q) \in Nat /\ DOMAIN q = 1 .. Len(q)
         /\ DOMAIN Append(q, x) = 1 .. Len(q) + 1 /\ Len(Append(q, x)) = Len(q) + 1
         /\ \A i \in 1 .. Len(q) : Append(q, x)[i] = q[i]
         /\ Append(q, x)[Len(q) + 1] = x
<1>1. q \in Seq(S \cup {x})
  OBVIOUS
<1> QED BY <1>1

\* How often e occurs among the first k elements of q.
Occ(q, e, k) == Cardinality({i \in 1 .. k : q[i] = e})

LEMMA OccType ==
  ASSUME NEW q, NEW e, NEW k \in Nat PROVE Occ(q, e, k) \in Nat
<1>1. {i \in 1 .. k : q[i] = e} \subseteq 1 .. k /\ IsFiniteSet(1 .. k)
  BY FS_Interval
<1> QED BY <1>1, FS_Subset, FS_CardinalityType DEF Occ

LEMMA OccZero ==
  ASSUME NEW q, NEW e PROVE Occ(q, e, 0) = 0
<1>1. {i \in 1 .. 0 : q[i] = e} = {}
  OBVIOUS
<1> QED BY <1>1, FS_EmptySet DEF Occ

LEMMA OccStep ==
  ASSUME NEW q, NEW e, NEW k \in Nat
  PROVE  Occ(q, e, k + 1) = Occ(q, e, k) + IF q[k + 1] = e THEN 1 ELSE 0
<1> DEFINE A == {i \in 1 .. k : q[i] = e}
           B == {i \in 1 .. k + 1 : q[i] = e}
<1>1. IsFiniteSet(A) /\ Cardinality(A) \in Nat
  <2>1. A \subseteq 1 .. k /\ IsFiniteSet(1 .. k)
    BY FS_Interval
  <2> QED BY <2>1, FS_Subset, FS_CardinalityType
<1>2. CASE q[k + 1] = e
  <2>1. B = A \cup {k + 1} /\ k + 1 \notin A
    BY <1>2
  <2>2. Cardinality(B) = Cardinality(A) + 1
    BY <1>1, <2>1, FS_AddElement
  <2> QED BY <1>2, <2>2 DEF Occ
<1>3. CASE q[k + 1] # e
  <2>1. B = A
    BY <1>3
  <2> HIDE DEF A, B
  <2>2. Occ(q, e, k + 1) = Cardinality(B) /\ Occ(q, e, k) = Cardinality(A)
    BY DEF Occ, A, B
  <2> QED BY <1>1, <1>3, <2>1, <2>2
<1> QED BY <1>2, <1>3

\* The n elements of r after place b are the n elements of q after place a.
Same(q, r, a, b, n) == \A i \in 1 .. n : r[i + b] = q[i + a]

\* Two stretches that are the same hold e equally often.
LEMMA OccSlice ==
  ASSUME NEW q, NEW r, NEW e, NEW a \in Nat, NEW b \in Nat, NEW n \in Nat,
         Same(q, r, a, b, n)
  PROVE  \A k \in 0 .. n :
           Occ(r, e, k + b) - Occ(r, e, b) = Occ(q, e, k + a) - Occ(q, e, a)
<1> DEFINE T == {k \in 0 .. n :
                   Occ(r, e, k + b) - Occ(r, e, b) # Occ(q, e, k + a) - Occ(q, e, a)}
<1>1. SUFFICES ASSUME T # {} PROVE FALSE
  OBVIOUS
<1>a. T \subseteq Nat
  OBVIOUS
<1>2. PICK k \in T : \A y \in T : k <= y
  <2> HIDE DEF T
  <2> QED BY <1>1, <1>a, LeastElement
<1>3. k \in Nat /\ Occ(r, e, b) \in Nat /\ Occ(q, e, a) \in Nat
  BY OccType
<1>4. k # 0
  BY <1>3
<1>5. k - 1 \in 0 .. n /\ k - 1 \notin T
  BY <1>2, <1>3, <1>4
<1>6. Occ(r, e, k - 1 + b) - Occ(r, e, b) = Occ(q, e, k - 1 + a) - Occ(q, e, a)
  BY <1>5
<1>7. k - 1 + b \in Nat /\ k - 1 + a \in Nat
  BY <1>3, <1>4
<1>8. /\ Occ(r, e, (k - 1 + b) + 1) = Occ(r, e, k - 1 + b) + IF r[(k - 1 + b) + 1] = e THEN 1 ELSE 0
      /\ Occ(q, e, (k - 1 + a) + 1) = Occ(q, e, k - 1 + a) + IF q[(k - 1 + a) + 1] = e THEN 1 ELSE 0
  BY <1>7, OccStep
<1>9. (k - 1 + b) + 1 = k + b /\ (k - 1 + a) + 1 = k + a /\ r[k + b] = q[k + a]
  BY <1>3, <1>4 DEF Same
<1>10. Occ(r, e, k - 1 + b) \in Nat /\ Occ(q, e, k - 1 + a) \in Nat
  BY <1>7, OccType
<1>11. Occ(r, e, k + b) - Occ(r, e, b) = Occ(q, e, k + a) - Occ(q, e, a)
  BY <1>3, <1>6, <1>8, <1>9, <1>10
<1> QED BY <1>11

LEMMA OccPrefix ==
  ASSUME NEW q, NEW r, NEW e, NEW n \in Nat, Same(q, r, 0, 0, n), NEW k \in 0 .. n
  PROVE  Occ(r, e, k) = Occ(q, e, k)
<1>1. PICK z \in Nat : z = 0
  OBVIOUS
<1>2. Same(q, r, z, z, n)
  BY <1>1
<1>3. \A j \in 0 .. n : Occ(r, e, j + z) - Occ(r, e, z) = Occ(q, e, j + z) - Occ(q, e, z)
  BY <1>2, OccSlice
<1>4. Occ(r, e, k + z) - Occ(r, e, z) = Occ(q, e, k + z) - Occ(q, e, z)
  BY <1>3
<1>5. k \in Nat /\ k + z = k
  BY <1>1
<1>6. Occ(r, e, z) = 0 /\ Occ(q, e, z) = 0
  BY <1>1, OccZero
<1>7. Occ(r, e, k) \in Nat /\ Occ(q, e, k) \in Nat
  BY <1>5, OccType
<1>8. Occ(r, e, k) - Occ(r, e, z) = Occ(q, e, k) - Occ(q, e, z)
  BY <1>4, <1>5
<1> QED BY <1>6, <1>7, <1>8

------------------------------------------------------------------------------
(* Taking out one element.                                                  *)

\* r is q without its element at place d.
Drops(q, r, d) ==
  /\ d \in 1 .. Len(q)
  /\ Len(r) = Len(q) - 1
  /\ \A i \in 1 .. Len(q) - 1 : r[i] = IF i < d THEN q[i] ELSE q[i + 1]

LEMMA DropsTail ==
  ASSUME NEW S, NEW q \in Seq(S), q # <<>>
  PROVE  Tail(q) \in Seq(S) /\ Head(q) = q[1] /\ Drops(q, Tail(q), 1)
BY DEF Drops

LEMMA OccDrops ==
  ASSUME NEW S, NEW q \in Seq(S), NEW r, NEW d, Drops(q, r, d), NEW e, NEW k \in 0 .. Len(q) - 1
  PROVE  Occ(r, e, k) = IF k < d THEN Occ(q, e, k)
                        ELSE Occ(q, e, k + 1) - IF q[d] = e THEN 1 ELSE 0
<1>0. Len(q) \in Nat /\ d \in 1 .. Len(q) /\ k \in Nat
  BY DEF Drops
<1>2. ASSUME NEW j \in 0 .. d - 1 PROVE Occ(r, e, j) = Occ(q, e, j)
  <2>1. d - 1 \in Nat /\ Same(q, r, 0, 0, d - 1)
    <3>1. d - 1 \in Nat
      BY <1>0
    <3>2. ASSUME NEW i \in 1 .. d - 1 PROVE r[i + 0] = q[i + 0]
      <4>1. i \in 1 .. Len(q) - 1 /\ i < d /\ i + 0 = i
        BY <1>0
      <4>2. r[i] = q[i]
        BY <4>1 DEF Drops
      <4> QED BY <4>1, <4>2
    <3> QED BY <3>1, <3>2 DEF Same
  <2> QED BY <2>1, OccPrefix
<1>3. CASE k < d
  BY <1>0, <1>2, <1>3
<1>4. CASE ~(k < d)
  <2> DEFINE b == d - 1
             n == Len(q) - d
             j == k - b
  <2>1. b \in Nat /\ d \in Nat /\ n \in Nat /\ j \in 0 .. n /\ j + b = k /\ j + d = k + 1 /\ b + 1 = d
    BY <1>0, <1>4
  <2>2. Same(q, r, d, b, n)
    BY <1>0, <1>4 DEF Drops, Same
  <2> HIDE DEF b, n, j
  <2>3. Occ(r, e, j + b) - Occ(r, e, b) = Occ(q, e, j + d) - Occ(q, e, d)
    <3>1. \A i \in 0 .. n :
            Occ(r, e, i + b) - Occ(r, e, b) = Occ(q, e, i + d) - Occ(q, e, d)
      BY <2>1, <2>2, OccSlice
    <3> QED BY <2>1, <3>1
  <2>4. Occ(r, e, b) = Occ(q, e, b)
    BY <1>2, <2>1 DEF b
  <2>5. Occ(q, e, b + 1) = Occ(q, e, b) + IF q[b + 1] = e THEN 1 ELSE 0
    BY <2>1, OccStep
  <2>6. /\ Occ(r, e, k) \in Nat /\ Occ(q, e, k + 1) \in Nat /\ Occ(q, e, b) \in Nat
        /\ Occ(q, e, d) \in Nat
    BY <1>0, <2>1, OccType
  <2>7. Occ(r, e, k) - Occ(r, e, b) = Occ(q, e, k + 1) - Occ(q, e, d)
    BY <2>1, <2>3
  <2>8. Occ(q, e, d) = Occ(q, e, b) + IF q[d] = e THEN 1 ELSE 0
    BY <2>1, <2>5
  <2>9. Occ(r, e, k) = Occ(q, e, k + 1) - IF q[d] = e THEN 1 ELSE 0
    BY <2>4, <2>6, <2>7, <2>8
  <2> QED BY <1>4, <2>9
<1> QED BY <1>3, <1>4

LEMMA OccDropsAll ==
  ASSUME NEW S, NEW q \in Seq(S), NEW r, NEW d, Drops(q, r, d), NEW e
  PROVE  Occ(r, e, Len(r)) = Occ(q, e, Len(q)) - IF q[d] = e THEN 1 ELSE 0
<1>1. Len(q) \in Nat /\ Len(r) = Len(q) - 1 /\ d \in 1 .. Len(q)
  BY DEF Drops
<1>2. PICK k \in 0 .. Len(q) - 1 : k = Len(r)
  BY <1>1
<1>3. Occ(r, e, k) = IF k < d THEN Occ(q, e, k) ELSE Occ(q, e, k + 1) - IF q[d] = e THEN 1 ELSE 0
  BY OccDrops
<1>4. k \in Nat /\ k + 1 = Len(q)
  BY <1>1, <1>2
<1>5. Occ(q, e, k + 1) = Occ(q, e, k) + IF q[k + 1] = e THEN 1 ELSE 0
  BY <1>4, OccStep
<1>6. Occ(q, e, k) \in Nat /\ Occ(q, e, k + 1) \in Nat
  BY <1>4, OccType
<1>7. CASE k < d
  <2>1. d = k + 1
    BY <1>1, <1>4, <1>7
  <2> QED BY <1>2, <1>3, <1>4, <1>5, <1>6, <1>7, <2>1
<1>8. CASE ~(k < d)
  BY <1>2, <1>3, <1>4, <1>8
<1> QED BY <1>7, <1>8

LEMMA OccAppend ==
  ASSUME NEW S, NEW q \in Seq(S), NEW x, NEW e
  PROVE  /\ \A k \in 0 .. Len(q) : Occ(Append(q, x), e, k) = Occ(q, e, k)
         /\ Occ(Append(q, x), e, Len(q) + 1) = Occ(q, e, Len(q)) + IF x = e THEN 1 ELSE 0
<1> DEFINE r == Append(q, x)
<1>1. Len(q) \in Nat /\ r[Len(q) + 1] = x /\ \A i \in 1 .. Len(q) : r[i] = q[i]
  BY AppendShape
<1> HIDE DEF r
<1>2. ASSUME NEW k \in 0 .. Len(q) PROVE Occ(r, e, k) = Occ(q, e, k)
  <2>1. Same(q, r, 0, 0, Len(q))
    BY <1>1 DEF Same
  <2> QED BY <1>1, <2>1, OccPrefix
<1>3. Occ(r, e, Len(q) + 1) = Occ(r, e, Len(q)) + IF r[Len(q) + 1] = e THEN 1 ELSE 0
  BY <1>1, OccStep
<1>4. Occ(r, e, Len(q)) = Occ(q, e, Len(q))
  BY <1>1, <1>2
<1> QED BY <1>1, <1>2, <1>3, <1>4 DEF r

\* RemoveAt takes out the element at a place.
LEMMA RemoveAtShape ==
  ASSUME NEW S, NEW q \in Seq(S), NEW k \in 1 .. Len(q)
  PROVE  RemoveAt(q, k) \in Seq(S) /\ Drops(q, RemoveAt(q, k), k)
<1> DEFINE u == SubSeq(q, 1, k - 1)
           v == SubSeq(q, k + 1, Len(q))
<1>1. u \in Seq(S) /\ Len(u) = k - 1 /\ \A i \in 1 .. k - 1 : u[i] = q[i]
  OBVIOUS
<1>2. v \in Seq(S) /\ Len(v) = Len(q) - k /\ \A i \in 1 .. Len(q) - k : v[i] = q[k + i]
  OBVIOUS
<1>3. RemoveAt(q, k) = u \o v
  BY DEF RemoveAt
<1>4. k \in Nat /\ Len(q) \in Nat /\ k <= Len(q)
  OBVIOUS
<1> HIDE DEF u, v
<1>5. u \o v \in Seq(S) /\ Len(u \o v) = Len(q) - 1
  <2>1. u \o v \in Seq(S) /\ Len(u \o v) = Len(u) + Len(v)
    BY <1>1, <1>2, ConcatProperties
  <2> QED BY <1>1, <1>2, <1>4, <2>1
<1>6. ASSUME NEW i \in 1 .. Len(q) - 1 PROVE (u \o v)[i] = IF i < k THEN q[i] ELSE q[i + 1]
  <2>1. CASE i < k
    BY <1>1, <1>2, <1>4, <2>1
  <2>2. CASE ~(i < k)
    <3>1. (u \o v)[i] = v[i - (k - 1)] /\ i - (k - 1) \in 1 .. Len(q) - k
      BY <1>1, <1>2, <1>4, <2>2
    <3>2. k + (i - (k - 1)) = i + 1
      BY <1>4
    <3> QED BY <1>2, <2>2, <3>1, <3>2
  <2> QED BY <2>1, <2>2
<1> QED BY <1>3, <1>4, <1>5, <1>6 DEF Drops

\* RemoveFirst takes out the first of the elements that are e.
LEMMA RemoveFirstShape ==
  ASSUME NEW S, NEW q \in Seq(S), NEW e, Contains(q, e)
  PROVE  \E k \in 1 .. Len(q) :
           /\ q[k] = e /\ \A i \in 1 .. k - 1 : q[i] # e
           /\ RemoveFirst(q, e) \in Seq(S)
           /\ Drops(q, RemoveFirst(q, e), k)
<1> DEFINE I == {i \in 1 .. Len(q) : q[i] = e}
<1>1. I # {} /\ I \subseteq Nat
  BY DEF Contains
<1>2. PICK k \in I : \A y \in I : k <= y
  BY <1>1, LeastElement
<1>3. Min(I) = k
  BY <1>1, <1>2 DEF Min
<1>4. RemoveFirst(q, e) = RemoveAt(q, k)
  BY <1>1, <1>3 DEF RemoveFirst, SelectInSeq
<1>5. k \in 1 .. Len(q) /\ q[k] = e /\ \A i \in 1 .. k - 1 : q[i] # e
  BY <1>2
<1>6. RemoveAt(q, k) \in Seq(S) /\ Drops(q, RemoveAt(q, k), k)
  BY <1>5, RemoveAtShape
<1> QED BY <1>4, <1>5, <1>6

------------------------------------------------------------------------------
(* Sequences without repetition.                                            *)

Distinct(q) == \A i, j \in DOMAIN q : q[i] = q[j] => i = j

LEMMA DistinctDrops ==
  ASSUME NEW S, NEW q \in Seq(S), NEW r \in Seq(S), NEW d, Drops(q, r, d), Distinct(q)
  PROVE  Distinct(r) /\ ToSet(r) = ToSet(q) \ {q[d]}
<1>1. /\ Len(q) \in Nat /\ DOMAIN q = 1 .. Len(q) /\ DOMAIN r = 1 .. Len(q) - 1
      /\ d \in 1 .. Len(q)
      /\ \A i \in 1 .. Len(q) - 1 : r[i] = IF i < d THEN q[i] ELSE q[i + 1]
  BY DEF Drops
<1> DEFINE m == [i \in DOMAIN r |-> IF i < d THEN i ELSE i + 1]
<1>2. \A i \in DOMAIN r : m[i] \in DOMAIN q /\ m[i] # d /\ r[i] = q[m[i]]
  BY <1>1
<1>3. \A i, j \in DOMAIN r : m[i] = m[j] => i = j
  BY <1>1
<1>4. \A k \in DOMAIN q : k # d => \E i \in DOMAIN r : m[i] = k
  <2>1. ASSUME NEW k \in DOMAIN q, k < d PROVE k \in DOMAIN r /\ m[k] = k
    BY <1>1, <2>1
  <2>2. ASSUME NEW k \in DOMAIN q, k > d PROVE k - 1 \in DOMAIN r /\ m[k - 1] = k
    BY <1>1, <2>2
  <2>3. ASSUME NEW k \in DOMAIN q, k # d PROVE \E i \in DOMAIN r : m[i] = k
    <3> HIDE DEF m
    <3>1. CASE k < d
      BY <2>1, <3>1
    <3>2. CASE k > d
      BY <2>2, <3>2
    <3> QED BY <1>1, <2>3, <3>1, <3>2
  <2> QED BY <2>3
<1> HIDE DEF m
<1>5. Distinct(r)
  BY <1>2, <1>3 DEF Distinct
<1>6. ToSet(r) = ToSet(q) \ {q[d]}
  <2>1. ToSet(q) = {q[i] : i \in DOMAIN q} /\ ToSet(r) = {r[i] : i \in DOMAIN r} /\ d \in DOMAIN q
    BY <1>1 DEF ToSet
  <2>2. ASSUME NEW x \in ToSet(r) PROVE x \in ToSet(q) /\ x # q[d]
    BY <1>2, <2>1 DEF Distinct
  <2>3. ASSUME NEW x \in ToSet(q), x # q[d] PROVE x \in ToSet(r)
    BY <1>2, <1>4, <2>1, <2>3
  <2> QED BY <2>2, <2>3
<1> QED BY <1>5, <1>6

LEMMA DistinctAppend ==
  ASSUME NEW S, NEW q \in Seq(S), NEW x \in S, x \notin ToSet(q), Distinct(q)
  PROVE  /\ Append(q, x) \in Seq(S) /\ Distinct(Append(q, x))
         /\ ToSet(Append(q, x)) = ToSet(q) \cup {x}
<1> DEFINE r == Append(q, x)
           n == Len(q)
<1>1. /\ r \in Seq(S) /\ n \in Nat /\ DOMAIN q = 1 .. n /\ DOMAIN r = 1 .. n + 1
      /\ \A i \in 1 .. n : r[i] = q[i]
      /\ r[n + 1] = x
  BY AppendShape
<1>2. DOMAIN r = DOMAIN q \cup {n + 1} /\ n + 1 \notin DOMAIN q
  BY <1>1
<1>3. \A i \in DOMAIN q : r[i] = q[i] /\ q[i] # x
  BY <1>1 DEF ToSet
<1> HIDE DEF r
<1>4. ToSet(r) = {r[i] : i \in DOMAIN r} /\ ToSet(q) = {q[i] : i \in DOMAIN q}
  BY <1>1 DEF ToSet
<1>5. Distinct(r)
  BY <1>1, <1>2, <1>3 DEF Distinct
<1>6. ToSet(r) = ToSet(q) \cup {x}
  BY <1>1, <1>2, <1>3, <1>4
<1> QED BY <1>1, <1>5, <1>6 DEF r
=============================================================================
