-------------------------- MODULE AggregatesProofs ---------------------------
(***************************************************************************)
(* Proofs about Aggregates, for every set of groups, values and other      *)
(* fields, every kind of aggregate and any number of derivations.          *)
(***************************************************************************)
EXTENDS Aggregates, CommonLemmas

\* What a sum can be, and the tuples that can be an aggregate.
Sums == {Total(n) : n \in UNION {[S -> Nat] : S \in SUBSET Tuples}}
Aggs == [group : Groups, val : Values \cup Sums, rest : Rests]
Entries == [tpl : Aggs, count : {-1, 1}, final : {TRUE}]
           \cup [tpl : Tuples, count : {-1, 1}, final : {FALSE}]

\* The two kinds of entries of the queue.
Final(f, c) == STuple(f, c, TRUE)
Contribution(t, c) == STuple(t, c, FALSE)

AggTypes ==
  /\ type \in Types
  /\ queue \in Seq(Entries)
  /\ vals \in [Groups -> Seq(Tuples)]
  /\ count \in [Tuples -> Nat]
  /\ corresponds \in [Groups -> SUBSET Aggs]
  /\ DOMAIN db \subseteq Aggs
  /\ base \in [Tuples -> Nat]

------------------------------------------------------------------------------
(* The aggregates of a group that wait in the queue.                        *)

\* The places of the aggregates of group g in q.
Chain(q, g) == {i \in DOMAIN q : q[i].final /\ q[i].tpl.group = g}

\* Assertions and retractions of a group alternate, a retraction being of the
\* aggregate asserted before it.  They begin from the aggregates stored and end
\* with the aggregate that the configuration corresponds to.
Linked(q, g, stored, last) ==
  LET C == Chain(q, g) IN
  /\ \A i, j \in C : i < j /\ (\A k \in C : k <= i \/ j <= k) =>
       IF q[i].count = 1 THEN q[j].count = -1 /\ q[j].tpl = q[i].tpl ELSE q[j].count = 1
  /\ \A i \in C : (\A k \in C : i <= k) =>
       stored = IF q[i].count = 1 THEN {} ELSE {q[i].tpl}
  /\ \A i \in C : (\A k \in C : k <= i) =>
       last = IF q[i].count = 1 THEN {q[i].tpl} ELSE {}
  /\ C = {} => stored = last

\* The aggregates of a group in the database.
Stored(g) == {f \in DOMAIN db : f.group = g}

ChainInv ==
  /\ \A f \in DOMAIN db : db[f] = 1
  /\ \A g \in Groups : Linked(queue, g, Stored(g), corresponds[g])

------------------------------------------------------------------------------
(* How often tuples wait.                                                   *)

InDb(f) == IF f \in DOMAIN db THEN db[f] ELSE 0

\* What CorrespondsExact says of f.
ExactInv(f) ==
  InDb(f) + Occ(queue, Final(f, 1), Len(queue)) - Occ(queue, Final(f, -1), Len(queue))
    = IF f \in corresponds[f.group] THEN 1 ELSE 0

\* When a retraction takes its turn in q there is something to retract, if now
\* there are n derivations of t.
Balanced(q, t, n) ==
  \A k \in 1 .. Len(q) :
    q[k] = Contribution(t, -1) =>
      n + Occ(q, Contribution(t, 1), k) - Occ(q, Contribution(t, -1), k) >= 0

\* The contributions that wait make up the difference to what the program has
\* derived.
BaseInv(t) ==
  /\ base[t] = count[t] + Occ(queue, Contribution(t, 1), Len(queue))
                        - Occ(queue, Contribution(t, -1), Len(queue))
  /\ Balanced(queue, t, count[t])

\* A configuration has the tuples that are counted, each once, and corresponds
\* to their aggregate.
ConfigInv(g) ==
  /\ \A i, j \in DOMAIN vals[g] : vals[g][i] = vals[g][j] => i = j
  /\ ToSet(vals[g]) = {t \in Tuples : t.group = g /\ count[t] > 0}
  /\ corresponds[g] = do_generate(vals[g], count)

------------------------------------------------------------------------------
(* Steps of a chain.  Chains are compared by a function m from the places   *)
(* of one to the places of the other.                                       *)

LEMMA LinkedSame ==
  ASSUME NEW q, NEW r, NEW g, NEW stored, NEW last, NEW m,
         Chain(q, g) \subseteq Int, Chain(r, g) \subseteq Int,
         \A i \in Chain(q, g) : m[i] \in Chain(r, g) /\ r[m[i]] = q[i],
         \A i, j \in Chain(q, g) : i < j => m[i] < m[j],
         \A k \in Chain(r, g) : \E i \in Chain(q, g) : m[i] = k,
         Linked(q, g, stored, last)
  PROVE  Linked(r, g, stored, last)
<1> DEFINE C == Chain(q, g)
           D == Chain(r, g)
<1>1. \A i, j \in C : m[i] < m[j] <=> i < j
  OBVIOUS
<1>2. \A i, j \in C : m[i] <= m[j] <=> i <= j
  OBVIOUS
<1>3. ASSUME NEW i \in D, NEW j \in D, i < j, \A k \in D : k <= i \/ j <= k
      PROVE  IF r[i].count = 1 THEN r[j].count = -1 /\ r[j].tpl = r[i].tpl ELSE r[j].count = 1
  <2>1. PICK a \in C, b \in C : m[a] = i /\ m[b] = j
    OBVIOUS
  <2>2. a < b /\ \A k \in C : k <= a \/ b <= k
    BY <1>1, <1>2, <1>3, <2>1
  <2>3. r[i] = q[a] /\ r[j] = q[b]
    BY <2>1
  <2> QED BY <2>2, <2>3 DEF Linked
<1>4. ASSUME NEW i \in D, \A k \in D : i <= k
      PROVE  stored = IF r[i].count = 1 THEN {} ELSE {r[i].tpl}
  <2>1. PICK a \in C : m[a] = i
    OBVIOUS
  <2>2. \A k \in C : a <= k
    BY <1>2, <1>4, <2>1
  <2> QED BY <2>1, <2>2 DEF Linked
<1>5. ASSUME NEW i \in D, \A k \in D : k <= i
      PROVE  last = IF r[i].count = 1 THEN {r[i].tpl} ELSE {}
  <2>1. PICK a \in C : m[a] = i
    OBVIOUS
  <2>2. \A k \in C : k <= a
    BY <1>2, <1>5, <2>1
  <2> QED BY <2>1, <2>2 DEF Linked
<1>6. D = {} => stored = last
  BY DEF Linked
<1> QED BY <1>3, <1>4, <1>5, <1>6 DEF Linked

\* m takes the chain of q, without its place p, to the chain of r.
Matches(q, r, g, p, m) ==
  /\ \A i \in Chain(q, g) \ {p} : m[i] \in Chain(r, g) /\ r[m[i]] = q[i]
  /\ \A i, j \in Chain(q, g) \ {p} : i < j => m[i] < m[j]
  /\ \A k \in Chain(r, g) : \E i \in Chain(q, g) \ {p} : m[i] = k

\* The first aggregate of a chain is taken out, by processing or by cancelling it.
LEMMA LinkedDrop ==
  ASSUME NEW q, NEW r, NEW g, NEW stored, NEW last, NEW m, NEW p \in Chain(q, g),
         Chain(q, g) \subseteq Int, Chain(r, g) \subseteq Int,
         \A i \in Chain(q, g) : p <= i,
         Matches(q, r, g, p, m), Linked(q, g, stored, last),
         NEW now, now = IF q[p].count = 1 THEN {q[p].tpl} ELSE {}
  PROVE  Linked(r, g, now, last)
<1> DEFINE C == Chain(q, g)
           D == Chain(r, g)
<1> USE DEF Matches
<1>1. \A i, j \in C \ {p} : m[i] < m[j] <=> i < j
  OBVIOUS
<1>2. \A i, j \in C \ {p} : m[i] <= m[j] <=> i <= j
  OBVIOUS
<1>3. ASSUME NEW i \in D, NEW j \in D, i < j, \A k \in D : k <= i \/ j <= k
      PROVE  IF r[i].count = 1 THEN r[j].count = -1 /\ r[j].tpl = r[i].tpl ELSE r[j].count = 1
  <2>1. PICK a \in C \ {p}, b \in C \ {p} : m[a] = i /\ m[b] = j
    OBVIOUS
  <2>2. a < b /\ \A k \in C : k <= a \/ b <= k
    <3>1. a < b /\ \A k \in C \ {p} : k <= a \/ b <= k
      BY <1>1, <1>2, <1>3, <2>1
    <3> QED BY <3>1
  <2>3. r[i] = q[a] /\ r[j] = q[b]
    BY <2>1
  <2> QED BY <2>2, <2>3 DEF Linked
<1>4. ASSUME NEW i \in D, \A k \in D : i <= k
      PROVE  now = IF r[i].count = 1 THEN {} ELSE {r[i].tpl}
  <2>1. PICK a \in C \ {p} : m[a] = i
    OBVIOUS
  <2>2. \A k \in C \ {p} : a <= k
    BY <1>2, <1>4, <2>1
  <2>3. p < a /\ \A k \in C : k <= p \/ a <= k
    BY <2>2
  <2>4. IF q[p].count = 1 THEN q[a].count = -1 /\ q[a].tpl = q[p].tpl ELSE q[a].count = 1
    BY <2>3 DEF Linked
  <2>5. r[i] = q[a]
    BY <2>1
  <2>6. CASE q[p].count = 1
    BY <2>4, <2>5, <2>6
  <2>7. CASE q[p].count # 1
    BY <2>4, <2>5, <2>7
  <2> QED BY <2>6, <2>7
<1>5. ASSUME NEW i \in D, \A k \in D : k <= i
      PROVE  last = IF r[i].count = 1 THEN {r[i].tpl} ELSE {}
  <2>1. PICK a \in C \ {p} : m[a] = i
    OBVIOUS
  <2>2. \A k \in C : k <= a
    <3>1. \A k \in C \ {p} : k <= a
      BY <1>2, <1>5, <2>1
    <3> QED BY <3>1
  <2> QED BY <2>1, <2>2 DEF Linked
<1>6. D = {} => now = last
  <2>1. ASSUME D = {} PROVE \A k \in C : k <= p
    BY <2>1
  <2> QED BY <2>1 DEF Linked
<1> QED BY <1>3, <1>4, <1>5, <1>6 DEF Linked

\* A configuration that corresponds to no aggregate asserts one, and one that
\* corresponds to f retracts it.
LEMMA LinkedEmit ==
  ASSUME NEW S, NEW q \in Seq(S), NEW g, NEW stored, NEW f, f.group = g, NEW c \in {-1, 1},
         Linked(q, g, stored, IF c = 1 THEN {} ELSE {f})
  PROVE  Linked(Append(q, Final(f, c)), g, stored, IF c = 1 THEN {f} ELSE {})
<1> DEFINE s == Final(f, c)
           r == Append(q, s)
           C == Chain(q, g)
           D == Chain(r, g)
           n == Len(q) + 1
           before == IF c = 1 THEN {} ELSE {f}
           after == IF c = 1 THEN {f} ELSE {}
<1>1. /\ DOMAIN q = 1 .. Len(q) /\ DOMAIN r = 1 .. n /\ n \in Nat
      /\ r[n] = s /\ \A i \in DOMAIN q : r[i] = q[i]
  <2> HIDE DEF s
  <2> QED BY AppendShape
<1>2. /\ r[n].final /\ r[n].count = c /\ r[n].tpl = f
  BY <1>1 DEF Final, STuple
<1> HIDE DEF r, n
<1>a. \A i \in DOMAIN r : i \in DOMAIN q \/ i = n
  BY <1>1 DEF n
<1>b. n \in DOMAIN r /\ \A i \in DOMAIN q : i \in DOMAIN r /\ i \in Int /\ i < n
  BY <1>1 DEF n
<1>3. D = C \cup {n} /\ \A i \in C : i \in Int /\ i < n
  BY <1>1, <1>2, <1>a, <1>b DEF Chain
<1> HIDE DEF C, D, n, before, after
<1>0. Linked(q, g, stored, before)
  BY DEF before
<1>4. ASSUME NEW i \in D, NEW j \in D, i < j, \A k \in D : k <= i \/ j <= k
      PROVE  IF r[i].count = 1 THEN r[j].count = -1 /\ r[j].tpl = r[i].tpl ELSE r[j].count = 1
  <2>1. i \in C /\ r[i] = q[i]
    BY <1>1, <1>3, <1>4 DEF C, Chain
  <2>2. CASE j \in C
    <3>1. r[j] = q[j]
      BY <1>1, <2>2 DEF C, Chain
    <3> QED BY <1>0, <1>3, <1>4, <2>1, <2>2, <3>1 DEF Linked, C
  <2>3. CASE j = n
    <3>1. \A k \in C : k <= i
      BY <1>1, <1>3, <1>4, <2>3
    <3>2. before = IF q[i].count = 1 THEN {q[i].tpl} ELSE {}
      BY <1>0, <2>1, <3>1 DEF Linked, C
    <3>3. IF c = 1 THEN q[i].count # 1 ELSE q[i].count = 1 /\ q[i].tpl = f
      BY <3>2 DEF before
    <3> QED BY <1>2, <2>1, <2>3, <3>3
  <2> QED BY <1>3, <2>2, <2>3
<1>5. ASSUME NEW i \in D, \A k \in D : i <= k
      PROVE  stored = IF r[i].count = 1 THEN {} ELSE {r[i].tpl}
  <2>1. CASE i \in C
    <3>1. r[i] = q[i]
      BY <1>1, <2>1 DEF C, Chain
    <3> QED BY <1>0, <1>3, <1>5, <2>1, <3>1 DEF Linked, C
  <2>2. CASE i = n
    <3>1. C = {}
      BY <1>1, <1>3, <1>5, <2>2
    <3>2. stored = before
      BY <1>0, <3>1 DEF Linked, C
    <3> QED BY <1>2, <2>2, <3>2 DEF before
  <2> QED BY <1>3, <2>1, <2>2
<1>6. ASSUME NEW i \in D, \A k \in D : k <= i
      PROVE  after = IF r[i].count = 1 THEN {r[i].tpl} ELSE {}
  <2>1. i = n
    BY <1>1, <1>3, <1>6
  <2> QED BY <1>2, <2>1 DEF after
<1>7. Linked(r, g, stored, after)
  BY <1>3, <1>4, <1>5, <1>6 DEF Linked, D
<1> QED BY <1>7 DEF r, after

\* A tuple at the end of the queue that is not an aggregate of the group.
LEMMA LinkedOther ==
  ASSUME NEW S, NEW q \in Seq(S), NEW g, NEW stored, NEW last, NEW s,
         ~(s.final /\ s.tpl.group = g), Linked(q, g, stored, last)
  PROVE  Linked(Append(q, s), g, stored, last)
<1> DEFINE r == Append(q, s)
           m == [i \in Chain(q, g) |-> i]
<1>1. /\ DOMAIN q = 1 .. Len(q) /\ DOMAIN r = 1 .. Len(q) + 1 /\ Len(q) \in Nat
      /\ r[Len(q) + 1] = s /\ \A i \in DOMAIN q : r[i] = q[i]
  OBVIOUS
<1> HIDE DEF r
<1>2. Chain(r, g) = Chain(q, g) /\ Chain(q, g) \subseteq Int
  BY <1>1 DEF Chain
<1>3. /\ \A i \in Chain(q, g) : m[i] \in Chain(r, g) /\ r[m[i]] = q[i]
      /\ \A i, j \in Chain(q, g) : i < j => m[i] < m[j]
      /\ \A k \in Chain(r, g) : \E i \in Chain(q, g) : m[i] = k
  BY <1>1, <1>2 DEF Chain
<1> HIDE DEF m
<1>4. Linked(r, g, stored, last)
  BY <1>2, <1>3, LinkedSame
<1> QED BY <1>4 DEF r

\* Another tuple than an aggregate of the group is taken out of the queue.
LEMMA LinkedDropOther ==
  ASSUME NEW S, NEW q \in Seq(S), NEW r \in Seq(S), NEW d, Drops(q, r, d),
         NEW g, NEW stored, NEW last, d \notin Chain(q, g), Linked(q, g, stored, last)
  PROVE  Linked(r, g, stored, last)
<1> DEFINE m == [i \in Chain(q, g) |-> IF i < d THEN i ELSE i - 1]
<1>1. /\ Len(q) \in Nat /\ DOMAIN q = 1 .. Len(q) /\ DOMAIN r = 1 .. Len(q) - 1
      /\ d \in 1 .. Len(q)
      /\ \A i \in 1 .. Len(q) - 1 : r[i] = IF i < d THEN q[i] ELSE q[i + 1]
  BY DEF Drops
<1>2. Chain(q, g) \subseteq Int /\ Chain(r, g) \subseteq Int
  BY <1>1 DEF Chain
<1>3. ASSUME NEW i \in Chain(q, g) PROVE m[i] \in Chain(r, g) /\ r[m[i]] = q[i]
  <2>1. i \in DOMAIN q /\ q[i].final /\ q[i].tpl.group = g /\ i # d
    BY DEF Chain
  <2>2. m[i] \in DOMAIN r /\ r[m[i]] = q[i]
    BY <1>1, <2>1
  <2> QED BY <2>1, <2>2 DEF Chain
<1>4. ASSUME NEW i \in Chain(q, g), NEW j \in Chain(q, g), i < j PROVE m[i] < m[j]
  BY <1>1, <1>2, <1>4
<1>5. ASSUME NEW k \in Chain(r, g) PROVE \E i \in Chain(q, g) : m[i] = k
  <2>1. k \in DOMAIN r /\ r[k].final /\ r[k].tpl.group = g
    BY DEF Chain
  <2>2. PICK i \in DOMAIN q : r[k] = q[i] /\ i # d /\ k = IF i < d THEN i ELSE i - 1
    <3>1. CASE k < d
      BY <1>1, <2>1, <3>1
    <3>2. CASE ~(k < d)
      <4>1. k + 1 \in DOMAIN q /\ r[k] = q[k + 1] /\ k + 1 # d /\ k = (k + 1) - 1 /\ ~(k + 1 < d)
        BY <1>1, <2>1, <3>2
      <4> QED BY <4>1
    <3> QED BY <3>1, <3>2
  <2>3. i \in Chain(q, g)
    BY <2>1, <2>2 DEF Chain
  <2> QED BY <2>2, <2>3
<1> HIDE DEF m
<1> QED BY <1>2, <1>3, <1>4, <1>5, LinkedSame

\* The first aggregate of the group is taken out of the queue.
LEMMA LinkedDropFirst ==
  ASSUME NEW S, NEW q \in Seq(S), NEW r \in Seq(S), NEW d, Drops(q, r, d),
         NEW g, NEW stored, NEW last, d \in Chain(q, g),
         \A i \in Chain(q, g) : d <= i, Linked(q, g, stored, last),
         NEW now, now = IF q[d].count = 1 THEN {q[d].tpl} ELSE {}
  PROVE  Linked(r, g, now, last)
<1> DEFINE m == [i \in Chain(q, g) |-> i - 1]
<1>1. /\ Len(q) \in Nat /\ DOMAIN q = 1 .. Len(q) /\ DOMAIN r = 1 .. Len(q) - 1
      /\ d \in 1 .. Len(q)
      /\ \A i \in 1 .. Len(q) - 1 : r[i] = IF i < d THEN q[i] ELSE q[i + 1]
  BY DEF Drops
<1>2. Chain(q, g) \subseteq Int /\ Chain(r, g) \subseteq Int
  BY <1>1 DEF Chain
<1>3. ASSUME NEW i \in Chain(q, g) \ {d} PROVE m[i] \in Chain(r, g) /\ r[m[i]] = q[i]
  <2>1. i \in DOMAIN q /\ q[i].final /\ q[i].tpl.group = g /\ d < i
    BY <1>1, <1>2 DEF Chain
  <2>2. m[i] \in DOMAIN r /\ r[m[i]] = q[i]
    BY <1>1, <2>1
  <2> QED BY <2>1, <2>2 DEF Chain
<1>4. ASSUME NEW i \in Chain(q, g) \ {d}, NEW j \in Chain(q, g) \ {d}, i < j PROVE m[i] < m[j]
  BY <1>1, <1>2, <1>4
<1>5. ASSUME NEW k \in Chain(r, g) PROVE \E i \in Chain(q, g) \ {d} : m[i] = k
  <2>1. k \in DOMAIN r /\ r[k].final /\ r[k].tpl.group = g
    BY DEF Chain
  <2>2. ~(k < d)
    <3>1. ASSUME k < d PROVE FALSE
      <4>1. k \in DOMAIN q /\ q[k] = r[k]
        BY <1>1, <2>1, <3>1
      <4>2. k \in Chain(q, g)
        BY <2>1, <4>1 DEF Chain
      <4> QED BY <1>1, <2>1, <3>1, <4>2
    <3> QED BY <3>1
  <2>3. k + 1 \in DOMAIN q /\ r[k] = q[k + 1] /\ k + 1 # d /\ (k + 1) - 1 = k
    BY <1>1, <2>1, <2>2
  <2>4. k + 1 \in Chain(q, g)
    BY <2>1, <2>3 DEF Chain
  <2> QED BY <2>3, <2>4
<1>6. Matches(q, r, g, d, m)
  BY <1>3, <1>4, <1>5 DEF Matches
<1> HIDE DEF m
<1> QED BY <1>2, <1>6, LinkedDrop

------------------------------------------------------------------------------
(* What waits for one tuple.                                                *)

\* A tuple is taken out of q: the first one, or the first retraction of t, or one
\* that is no contribution of t.
LEMMA BalancedDrop ==
  ASSUME NEW S, NEW q \in Seq(S), NEW r, NEW d, Drops(q, r, d), NEW t, NEW n \in Int,
         NEW u, NEW v, u = Contribution(t, 1), v = Contribution(t, -1),
         \A i \in 1 .. d - 1 : q[i] = v => q[d] \notin {u, v},
         Balanced(q, t, n)
  PROVE  Balanced(r, t, IF q[d] = u THEN n + 1 ELSE IF q[d] = v THEN n - 1 ELSE n)
<1> DEFINE c == IF q[d] = u THEN n + 1 ELSE IF q[d] = v THEN n - 1 ELSE n
<1>0. /\ Len(q) \in Nat /\ d \in 1 .. Len(q) /\ Len(r) = Len(q) - 1
      /\ \A i \in 1 .. Len(q) - 1 : r[i] = IF i < d THEN q[i] ELSE q[i + 1]
  BY DEF Drops
<1>a. u # v
  BY DEF Contribution, STuple
<1>1. ASSUME NEW k \in 1 .. Len(r), r[k] = v PROVE c + Occ(r, u, k) - Occ(r, v, k) >= 0
  <2>1. k \in 0 .. Len(q) - 1 /\ k \in Nat /\ k + 1 \in Nat
    BY <1>0
  <2>2. /\ Occ(r, u, k) = IF k < d THEN Occ(q, u, k) ELSE Occ(q, u, k + 1) - IF q[d] = u THEN 1 ELSE 0
        /\ Occ(r, v, k) = IF k < d THEN Occ(q, v, k) ELSE Occ(q, v, k + 1) - IF q[d] = v THEN 1 ELSE 0
    BY <2>1, OccDrops
  <2>3. /\ Occ(q, u, k) \in Nat /\ Occ(q, v, k) \in Nat
        /\ Occ(q, u, k + 1) \in Nat /\ Occ(q, v, k + 1) \in Nat
    BY <2>1, OccType
  <2>4. CASE k < d
    <3>1. q[k] = v /\ k \in 1 .. d - 1 /\ k \in 1 .. Len(q)
      BY <1>0, <1>1, <2>4
    <3>2. q[d] # u /\ q[d] # v
      BY <3>1
    <3>3. n + Occ(q, u, k) - Occ(q, v, k) >= 0
      BY <3>1 DEF Balanced
    <3> QED BY <2>2, <2>4, <3>2, <3>3
  <2>5. CASE ~(k < d)
    <3>1. q[k + 1] = v /\ k + 1 \in 1 .. Len(q)
      BY <1>0, <1>1, <2>5
    <3>2. n + Occ(q, u, k + 1) - Occ(q, v, k + 1) >= 0
      BY <3>1 DEF Balanced
    <3> QED BY <1>a, <2>2, <2>3, <2>5, <3>2, SMTT(30)
  <2> QED BY <2>4, <2>5
<1> HIDE DEF c
<1>2. Balanced(r, t, c)
  BY <1>1 DEF Balanced
<1> QED BY <1>2 DEF c

\* A tuple comes to the end of q; if it retracts t there is something to retract.
LEMMA BalancedAppend ==
  ASSUME NEW S, NEW q \in Seq(S), NEW t, NEW n \in Int, NEW s,
         NEW u, NEW v, u = Contribution(t, 1), v = Contribution(t, -1),
         s = v => n + Occ(q, u, Len(q)) - Occ(q, v, Len(q)) > 0,
         Balanced(q, t, n)
  PROVE  Balanced(Append(q, s), t, n)
<1> DEFINE r == Append(q, s)
<1>0. Len(q) \in Nat /\ Len(r) = Len(q) + 1 /\ r[Len(q) + 1] = s /\ \A i \in 1 .. Len(q) : r[i] = q[i]
  BY AppendShape
<1>1. /\ \A k \in 0 .. Len(q) : Occ(r, u, k) = Occ(q, u, k)
      /\ \A k \in 0 .. Len(q) : Occ(r, v, k) = Occ(q, v, k)
      /\ Occ(r, u, Len(q) + 1) = Occ(q, u, Len(q)) + IF s = u THEN 1 ELSE 0
      /\ Occ(r, v, Len(q) + 1) = Occ(q, v, Len(q)) + IF s = v THEN 1 ELSE 0
  BY OccAppend
<1>2. Occ(q, u, Len(q)) \in Nat /\ Occ(q, v, Len(q)) \in Nat
  BY <1>0, OccType
<1>3. u # v
  BY DEF Contribution, STuple
<1> HIDE DEF r
<1>4. ASSUME NEW k \in 1 .. Len(r), r[k] = v PROVE n + Occ(r, u, k) - Occ(r, v, k) >= 0
  <2>1. CASE k \in 1 .. Len(q)
    <3>1. q[k] = v /\ Occ(r, u, k) = Occ(q, u, k) /\ Occ(r, v, k) = Occ(q, v, k)
      BY <1>0, <1>1, <1>4, <2>1
    <3> QED BY <2>1, <3>1 DEF Balanced
  <2>2. CASE k = Len(q) + 1
    BY <1>0, <1>1, <1>2, <1>3, <1>4, <2>2
  <2> QED BY <1>0, <2>1, <2>2
<1>5. Balanced(r, t, n)
  BY <1>4 DEF Balanced
<1> QED BY <1>5 DEF r

LEMMA EntriesDiffer ==
  /\ \A f, h, c, d : Final(f, c) = Final(h, d) <=> f = h /\ c = d
  /\ \A t, u, c, d : Contribution(t, c) = Contribution(u, d) <=> t = u /\ c = d
  /\ \A f, t, c, d : Final(f, c) # Contribution(t, d)
BY DEF Final, Contribution, STuple

\* What a configuration of g can correspond to.
Optional(agg, g) == agg = {} \/ \E f \in Aggs : f.group = g /\ agg = {f}

\* r is q after an aggregate of g, if there is one, has been emitted.
Emitted(q, r, g, agg, c) ==
  /\ r \in Seq(Entries)
  /\ \A stored : Linked(q, g, stored, IF c = 1 THEN {} ELSE agg)
                   => Linked(r, g, stored, IF c = 1 THEN agg ELSE {})
  /\ \A h, stored, last : h # g /\ Linked(q, h, stored, last) => Linked(r, h, stored, last)
  /\ \A e : Occ(r, e, Len(r)) = Occ(q, e, Len(q)) + IF \E f \in agg : e = Final(f, c) THEN 1 ELSE 0
  /\ \A t, n : n \in Int /\ Balanced(q, t, n) => Balanced(r, t, n)

LEMMA EmitStep ==
  ASSUME NEW q \in Seq(Entries), NEW g \in Groups, NEW c \in {-1, 1}, NEW agg, Optional(agg, g)
  PROVE  Emitted(q, q \o Emit(agg, c), g, agg, c)
<1>1. CASE agg = {}
  <2>1. q \o Emit(agg, c) = q
    BY <1>1 DEF Emit
  <2>2. ASSUME NEW e
        PROVE  Occ(q, e, Len(q)) = Occ(q, e, Len(q)) + IF \E f \in agg : e = Final(f, c) THEN 1 ELSE 0
    <3>1. Occ(q, e, Len(q)) \in Nat
      BY OccType
    <3> QED BY <1>1, <3>1
  <2>3. (IF c = 1 THEN {} ELSE agg) = {} /\ (IF c = 1 THEN agg ELSE {}) = {}
    BY <1>1
  <2>4. Emitted(q, q, g, agg, c)
    BY <2>2, <2>3 DEF Emitted
  <2> QED BY <2>1, <2>4
<1>2. ASSUME NEW f \in Aggs, f.group = g, agg = {f} PROVE Emitted(q, q \o Emit(agg, c), g, agg, c)
  <2> DEFINE s == Final(f, c)
             r == Append(q, s)
  <2>1. q \o Emit(agg, c) = r
    <3>1. Emit(agg, c) = <<s>>
      BY <1>2 DEF Emit, Final
    <3> HIDE DEF s
    <3> QED BY <3>1
  <2>2. s \in Entries
    BY DEF Final, STuple, Entries
  <2>3. r \in Seq(Entries) /\ Len(r) = Len(q) + 1
    <3> HIDE DEF s
    <3> QED BY <2>2
  <2>4. ASSUME NEW stored, Linked(q, g, stored, IF c = 1 THEN {} ELSE agg)
        PROVE  Linked(r, g, stored, IF c = 1 THEN agg ELSE {})
    BY <1>2, <2>4, LinkedEmit
  <2>5. ASSUME NEW h, NEW stored, NEW last, h # g, Linked(q, h, stored, last)
        PROVE  Linked(r, h, stored, last)
    <3>1. ~(s.final /\ s.tpl.group = h)
      BY <1>2, <2>5 DEF Final, STuple
    <3> HIDE DEF s
    <3> QED BY <2>5, <3>1, LinkedOther
  <2>6. ASSUME NEW e
        PROVE  Occ(r, e, Len(r)) = Occ(q, e, Len(q)) + IF \E x \in agg : e = Final(x, c) THEN 1 ELSE 0
    <3>1. (\E x \in agg : e = Final(x, c)) <=> s = e
      BY <1>2
    <3> HIDE DEF s
    <3>2. Occ(r, e, Len(q) + 1) = Occ(q, e, Len(q)) + IF s = e THEN 1 ELSE 0
      BY OccAppend
    <3> QED BY <2>3, <3>1, <3>2
  <2>7. ASSUME NEW t, NEW n \in Int, Balanced(q, t, n) PROVE Balanced(r, t, n)
    <3>1. s # Contribution(t, -1)
      BY EntriesDiffer
    <3> HIDE DEF s
    <3> QED BY <2>7, <3>1, BalancedAppend
  <2> HIDE DEF r
  <2>8. Emitted(q, r, g, agg, c)
    BY <2>3, <2>4, <2>5, <2>6, <2>7 DEF Emitted
  <2> QED BY <2>1, <2>8
<1> QED BY <1>1, <1>2 DEF Optional

\* r is q after the aggregate of g has changed from old to new.
Generated(q, r, g, old, new) ==
  /\ r \in Seq(Entries)
  /\ \A stored : Linked(q, g, stored, old) => Linked(r, g, stored, new)
  /\ \A h, stored, last : h # g /\ Linked(q, h, stored, last) => Linked(r, h, stored, last)
  /\ \A f : Occ(r, Final(f, 1), Len(r)) - Occ(r, Final(f, -1), Len(r))
              = Occ(q, Final(f, 1), Len(q)) - Occ(q, Final(f, -1), Len(q))
                  + (IF f \in new THEN 1 ELSE 0) - (IF f \in old THEN 1 ELSE 0)
  /\ \A t, c : Occ(r, Contribution(t, c), Len(r)) = Occ(q, Contribution(t, c), Len(q))
  /\ \A t, n : n \in Int /\ Balanced(q, t, n) => Balanced(r, t, n)

LEMMA GenerateStep ==
  ASSUME NEW q \in Seq(Entries), NEW g \in Groups, NEW old, NEW new,
         Optional(old, g), Optional(new, g)
  PROVE  Generated(q, q \o generate(old, new), g, old, new)
<1>0. ASSUME NEW x \in Seq(Entries), NEW e PROVE Occ(x, e, Len(x)) \in Nat
  BY OccType
<1>1. CASE old = new
  <2>1. q \o generate(old, new) = q
    BY <1>1 DEF generate
  <2>2. ASSUME NEW f
        PROVE  Occ(q, Final(f, 1), Len(q)) - Occ(q, Final(f, -1), Len(q))
                 = Occ(q, Final(f, 1), Len(q)) - Occ(q, Final(f, -1), Len(q))
                  + (IF f \in new THEN 1 ELSE 0) - (IF f \in old THEN 1 ELSE 0)
    BY <1>0, <1>1
  <2>3. Generated(q, q, g, old, new)
    BY <1>1, <2>2 DEF Generated
  <2> QED BY <2>1, <2>3
<1>2. CASE old # new
  <2> DEFINE p == q \o Emit(old, -1)
             r == p \o Emit(new, 1)
  <2>1. Emitted(q, p, g, old, -1)
    BY EmitStep
  <2>2. p \in Seq(Entries)
    BY <2>1 DEF Emitted
  <2>3. Emitted(p, r, g, new, 1)
    <3> HIDE DEF p
    <3> QED BY <2>2, EmitStep
  <2>4. q \o generate(old, new) = r
    <3>1. generate(old, new) = Emit(old, -1) \o Emit(new, 1)
      BY <1>2 DEF generate
    <3>2. ASSUME NEW agg, NEW c \in {-1, 1}, Optional(agg, g) PROVE Emit(agg, c) \in Seq(Entries)
      <4>1. CASE agg = {}
        BY <4>1 DEF Emit
      <4>2. CASE agg # {}
        <5>1. PICK f \in Aggs : agg = {f}
          BY <3>2, <4>2 DEF Optional
        <5>2. Emit(agg, c) = <<Final(f, c)>>
          BY <5>1 DEF Emit, Final
        <5>3. Final(f, c) \in Entries
          BY DEF Final, STuple, Entries
        <5> QED BY <5>2, <5>3
      <4> QED BY <4>1, <4>2
    <3> DEFINE a == Emit(old, -1)
               b == Emit(new, 1)
    <3>3. a \in Seq(Entries) /\ b \in Seq(Entries)
      BY <3>2
    <3> HIDE DEF a, b
    <3>4. q \o (a \o b) = (q \o a) \o b
      BY <3>3, ConcatAssociative
    <3> QED BY <3>1, <3>4 DEF a, b
  <2> HIDE DEF p, r
  <2>5. r \in Seq(Entries)
    BY <2>3 DEF Emitted
  <2>6. ASSUME NEW f
        PROVE  /\ Occ(r, Final(f, 1), Len(r)) = Occ(q, Final(f, 1), Len(q)) + IF f \in new THEN 1 ELSE 0
               /\ Occ(r, Final(f, -1), Len(r)) = Occ(q, Final(f, -1), Len(q)) + IF f \in old THEN 1 ELSE 0
    <3>1. /\ ~\E x \in old : Final(f, 1) = Final(x, -1)
          /\ ~\E x \in new : Final(f, -1) = Final(x, 1)
          /\ (\E x \in new : Final(f, 1) = Final(x, 1)) <=> f \in new
          /\ (\E x \in old : Final(f, -1) = Final(x, -1)) <=> f \in old
      BY EntriesDiffer
    <3>2. /\ Occ(p, Final(f, 1), Len(p)) = Occ(q, Final(f, 1), Len(q)) + 0
          /\ Occ(r, Final(f, 1), Len(r)) = Occ(p, Final(f, 1), Len(p)) + IF f \in new THEN 1 ELSE 0
          /\ Occ(p, Final(f, -1), Len(p)) = Occ(q, Final(f, -1), Len(q)) + IF f \in old THEN 1 ELSE 0
          /\ Occ(r, Final(f, -1), Len(r)) = Occ(p, Final(f, -1), Len(p)) + 0
      BY <2>1, <2>3, <3>1 DEF Emitted
    <3>3. Occ(q, Final(f, 1), Len(q)) \in Nat /\ Occ(p, Final(f, -1), Len(p)) \in Nat
      BY <1>0, <2>2
    <3> QED BY <3>2, <3>3
  <2>7. ASSUME NEW t, NEW c
        PROVE  Occ(r, Contribution(t, c), Len(r)) = Occ(q, Contribution(t, c), Len(q))
    <3>1. /\ ~\E x \in old : Contribution(t, c) = Final(x, -1)
          /\ ~\E x \in new : Contribution(t, c) = Final(x, 1)
      BY EntriesDiffer
    <3>2. /\ Occ(p, Contribution(t, c), Len(p)) = Occ(q, Contribution(t, c), Len(q)) + 0
          /\ Occ(r, Contribution(t, c), Len(r)) = Occ(p, Contribution(t, c), Len(p)) + 0
      BY <2>1, <2>3, <3>1 DEF Emitted
    <3>3. Occ(q, Contribution(t, c), Len(q)) \in Nat
      BY <1>0
    <3> QED BY <3>2, <3>3
  <2>8. ASSUME NEW stored, Linked(q, g, stored, old) PROVE Linked(r, g, stored, new)
    <3>1. Linked(p, g, stored, {})
      BY <2>1, <2>8 DEF Emitted
    <3> QED BY <2>3, <3>1 DEF Emitted
  <2>9. ASSUME NEW h, NEW stored, NEW last, h # g, Linked(q, h, stored, last)
        PROVE  Linked(r, h, stored, last)
    BY <2>1, <2>3, <2>9 DEF Emitted
  <2>10. ASSUME NEW t, NEW n \in Int, Balanced(q, t, n) PROVE Balanced(r, t, n)
    BY <2>1, <2>3, <2>10 DEF Emitted
  <2>11. ASSUME NEW f
         PROVE  Occ(r, Final(f, 1), Len(r)) - Occ(r, Final(f, -1), Len(r))
                  = Occ(q, Final(f, 1), Len(q)) - Occ(q, Final(f, -1), Len(q))
                      + (IF f \in new THEN 1 ELSE 0) - (IF f \in old THEN 1 ELSE 0)
    <3>1. Occ(q, Final(f, 1), Len(q)) \in Nat /\ Occ(q, Final(f, -1), Len(q)) \in Nat
      BY <1>0
    <3> QED BY <2>6, <3>1
  <2>12. Generated(q, r, g, old, new)
    BY <2>5, <2>7, <2>8, <2>9, <2>10, <2>11 DEF Generated
  <2> QED BY <2>4, <2>12
<1> QED BY <1>1, <1>2

------------------------------------------------------------------------------
(* The aggregate of a configuration.                                        *)

LEMMA LeastPlace ==
  ASSUME NEW T, T \subseteq Nat, T # {} PROVE Min(T) \in T
<1>1. \E x \in T : \A y \in T : x <= y
  BY LeastElement
<1> QED BY <1>1 DEF Min

LEMMA TupleFacts ==
  /\ \A t \in Tuples : t.val \in Nat /\ t.group \in Groups /\ t \in Aggs
  /\ \A ts \in Seq(Tuples) :
       /\ Len(ts) \in Nat /\ DOMAIN ts = 1 .. Len(ts)
       /\ \A i \in DOMAIN ts : ts[i] \in Tuples /\ ts[i] \in ToSet(ts)
       /\ \A t \in ToSet(ts) : t \in Tuples /\ \E i \in DOMAIN ts : t = ts[i]
<1>1. \A t \in Tuples : t.val \in Nat /\ t.group \in Groups /\ t \in Aggs
  BY AggregatesAssumption DEF Tuples, Aggs
<1>2. ASSUME NEW ts \in Seq(Tuples)
      PROVE  /\ Len(ts) \in Nat /\ DOMAIN ts = 1 .. Len(ts)
             /\ \A i \in DOMAIN ts : ts[i] \in Tuples /\ ts[i] \in ToSet(ts)
             /\ \A t \in ToSet(ts) : t \in Tuples /\ \E i \in DOMAIN ts : t = ts[i]
  BY DEF ToSet
<1> QED BY <1>1, <1>2

LEMMA GreatestValue ==
  ASSUME NEW n \in Nat \ {0}, NEW v, \A i \in 1 .. n : v[i] \in Nat
  PROVE  \E i \in 1 .. n : \A j \in 1 .. n : v[j] <= v[i]
<1> DEFINE Top(k) == \E i \in 1 .. k : \A j \in 1 .. k : v[j] <= v[i]
           T == {k \in 1 .. n : ~Top(k)}
<1>1. SUFFICES ASSUME T # {} PROVE FALSE
  <2>1. n \in 1 .. n /\ (n \in 1 .. n /\ n \notin T => Top(n))
    OBVIOUS
  <2> QED BY <1>1, <2>1
<1>2. PICK k \in T : \A y \in T : k <= y
  <2>1. T \subseteq Nat
    OBVIOUS
  <2> HIDE DEF T
  <2> QED BY <1>1, <2>1, LeastElement
<1>3. k # 1
  <2>1. Top(1)
    OBVIOUS
  <2> QED BY <2>1
<1>4. k \in 1 .. n /\ ~Top(k) /\ k - 1 \in 1 .. n /\ ~(k <= k - 1)
  BY <1>3
<1>5. Top(k - 1)
  <2> HIDE DEF Top
  <2> QED BY <1>2, <1>4
<1>6. PICK i \in 1 .. k - 1 : \A j \in 1 .. k - 1 : v[j] <= v[i]
  BY <1>5
<1>7. \A j \in 1 .. k : j = k \/ j \in 1 .. k - 1
  BY <1>4
<1>8. v[k] \in Nat /\ v[i] \in Nat /\ \A j \in 1 .. k - 1 : v[j] \in Nat
  BY <1>4
<1>9. CASE v[k] <= v[i]
  <2>1. i \in 1 .. k /\ \A j \in 1 .. k : v[j] <= v[i]
    BY <1>4, <1>6, <1>7, <1>9
  <2> QED BY <1>4, <2>1
<1>10. CASE v[i] <= v[k]
  <2>1. k \in 1 .. k /\ \A j \in 1 .. k : v[j] <= v[k]
    BY <1>4, <1>6, <1>7, <1>8, <1>10
  <2> QED BY <1>4, <2>1
<1> QED BY <1>8, <1>9, <1>10

LEMMA GreatestExists ==
  ASSUME NEW ts \in Seq(Tuples), ts # <<>>
  PROVE  \E i \in DOMAIN ts : \A j \in DOMAIN ts : ts[j].val <= ts[i].val
<1> DEFINE v == [i \in DOMAIN ts |-> ts[i].val]
           n == Len(ts)
<1>1. DOMAIN ts = 1 .. n /\ n \in Nat \ {0} /\ \A i \in DOMAIN ts : v[i] = ts[i].val /\ v[i] \in Nat
  <2>1. n # 0
    OBVIOUS
  <2> QED BY <2>1, TupleFacts
<1> HIDE DEF v, n
<1>2. \E i \in 1 .. n : \A j \in 1 .. n : v[j] <= v[i]
  BY <1>1, GreatestValue
<1> QED BY <1>1, <1>2

LEMMA LeastExists ==
  ASSUME NEW ts \in Seq(Tuples), ts # <<>>
  PROVE  \E i \in DOMAIN ts : \A j \in DOMAIN ts : ts[j].val >= ts[i].val
<1> DEFINE V == {ts[i].val : i \in DOMAIN ts}
<1>1. DOMAIN ts # {} /\ \A i \in DOMAIN ts : ts[i].val \in Nat
  <2>1. Len(ts) # 0
    OBVIOUS
  <2> QED BY <2>1, TupleFacts
<1>2. V # {} /\ V \subseteq Nat
  BY <1>1
<1>3. PICK x \in V : \A y \in V : x <= y
  <2> HIDE DEF V
  <2> QED BY <1>2, LeastElement
<1>4. PICK i \in DOMAIN ts : x = ts[i].val
  OBVIOUS
<1> QED BY <1>1, <1>3, <1>4

LEMMA GenerateValues ==
  ASSUME NEW ts \in Seq(Tuples), ts # <<>>, NEW n \in [Tuples -> Nat]
  PROVE  /\ ts[1] \in ToSet(ts)
         /\ \E i \in DOMAIN ts : /\ generate_max_int(ts) = ts[i]
                                 /\ \A j \in DOMAIN ts : ts[j].val <= ts[i].val
         /\ \E i \in DOMAIN ts : /\ generate_min_int(ts) = ts[i]
                                 /\ \A j \in DOMAIN ts : ts[j].val >= ts[i].val
         /\ generate_sum_int(ts, n).group = ts[1].group
         /\ generate_sum_int(ts, n).val = Total([t \in ToSet(ts) |-> n[t]])
         /\ generate_sum_int(ts, n) \in Aggs
<1>0. DOMAIN ts \subseteq Nat /\ 1 \in DOMAIN ts /\ ts[1] \in Tuples /\ ToSet(ts) \subseteq Tuples
  BY DEF ToSet
<1>1. ts[1] \in ToSet(ts)
  BY <1>0 DEF ToSet
<1>2. \E i \in DOMAIN ts : /\ generate_max_int(ts) = ts[i]
                           /\ \A j \in DOMAIN ts : ts[j].val <= ts[i].val
  <2> DEFINE T == {i \in DOMAIN ts : \A j \in DOMAIN ts : ts[j].val <= ts[i].val}
  <2>1. T # {} /\ T \subseteq Nat
    BY <1>0, GreatestExists
  <2>2. Min(T) \in T
    <3> HIDE DEF T
    <3> QED BY <2>1, LeastPlace
  <2>3. generate_max_int(ts) = ts[Min(T)]
    BY DEF generate_max_int
  <2> QED BY <2>2, <2>3
<1>3. \E i \in DOMAIN ts : /\ generate_min_int(ts) = ts[i]
                           /\ \A j \in DOMAIN ts : ts[j].val >= ts[i].val
  <2> DEFINE T == {i \in DOMAIN ts : \A j \in DOMAIN ts : ts[j].val >= ts[i].val}
  <2>1. T # {} /\ T \subseteq Nat
    BY <1>0, LeastExists
  <2>2. Min(T) \in T
    <3> HIDE DEF T
    <3> QED BY <2>1, LeastPlace
  <2>3. generate_min_int(ts) = ts[Min(T)]
    BY DEF generate_min_int
  <2> QED BY <2>2, <2>3
<1>4. /\ generate_sum_int(ts, n).group = ts[1].group
      /\ generate_sum_int(ts, n).val = Total([t \in ToSet(ts) |-> n[t]])
      /\ generate_sum_int(ts, n) \in Aggs
  <2> DEFINE m == [t \in ToSet(ts) |-> n[t]]
             total == Total(m)
  <2>1. m \in [ToSet(ts) -> Nat]
    BY <1>0
  <2>2. total \in Sums
    <3> HIDE DEF m
    <3> QED BY <1>0, <2>1 DEF Sums
  <2>3. generate_sum_int(ts, n) = [ts[1] EXCEPT !.val = total]
    BY DEF generate_sum_int
  <2> HIDE DEF total
  <2>4. /\ generate_sum_int(ts, n).group = ts[1].group
        /\ generate_sum_int(ts, n).val = total
        /\ generate_sum_int(ts, n) \in Aggs
    BY <1>0, <2>2, <2>3 DEF Tuples, Aggs
  <2> QED BY <2>4 DEF total
<1> QED BY <1>1, <1>2, <1>3, <1>4

\* A configuration with tuples has one aggregate, of its group.
LEMMA GenerateShape ==
  ASSUME type \in Types, NEW g \in Groups, NEW ts \in Seq(Tuples), NEW n \in [Tuples -> Nat],
         \A t \in ToSet(ts) : t.group = g
  PROVE  /\ Optional(do_generate(ts, n), g)
         /\ ts # <<>> => \E f \in Aggs : f.group = g /\ do_generate(ts, n) = {f}
<1>1. CASE ts = <<>>
  BY <1>1 DEF Optional, do_generate
<1>2. CASE ts # <<>>
  <2>0. /\ \A i \in DOMAIN ts : ts[i] \in ToSet(ts) /\ ts[i] \in Tuples
        /\ Tuples \subseteq Aggs
    BY TupleFacts
  <2>1. \E f \in Aggs : f.group = g /\ do_generate(ts, n) = {f}
    <3>1. CASE type = "first"
      <4>1. do_generate(ts, n) = {ts[1]}
        BY <1>2, <3>1 DEF do_generate
      <4> QED BY <1>2, <2>0, <4>1
    <3>2. CASE type = "max"
      <4>1. do_generate(ts, n) = {generate_max_int(ts)}
        BY <1>2, <3>2 DEF do_generate
      <4>2. PICK i \in DOMAIN ts : generate_max_int(ts) = ts[i]
        BY <1>2, GenerateValues
      <4> QED BY <2>0, <4>1, <4>2
    <3>3. CASE type = "min"
      <4>1. do_generate(ts, n) = {generate_min_int(ts)}
        BY <1>2, <3>3 DEF do_generate
      <4>2. PICK i \in DOMAIN ts : generate_min_int(ts) = ts[i]
        BY <1>2, GenerateValues
      <4> QED BY <2>0, <4>1, <4>2
    <3>4. CASE type = "sum"
      <4>1. do_generate(ts, n) = {generate_sum_int(ts, n)}
        BY <1>2, <3>4 DEF do_generate
      <4>2. generate_sum_int(ts, n).group = ts[1].group /\ generate_sum_int(ts, n) \in Aggs
        BY <1>2, GenerateValues
      <4>3. ts[1].group = g
        BY <1>2, <2>0
      <4> QED BY <4>1, <4>2, <4>3
    <3> QED BY <3>1, <3>2, <3>3, <3>4 DEF Types
  <2> QED BY <2>1 DEF Optional
<1> QED BY <1>1, <1>2

\* It is what the aggregate is by definition.
LEMMA GenerateIsAggregate ==
  ASSUME type \in Types, NEW ts \in Seq(Tuples), ts # <<>>, NEW n \in [Tuples -> Nat],
         \A t \in ToSet(ts) : n[t] = base[t], NEW f \in do_generate(ts, n)
  PROVE  IsAggregate(f, ToSet(ts))
<1> DEFINE S == ToSet(ts)
           V == {t.val : t \in S}
<1>0. /\ \A i \in DOMAIN ts : ts[i] \in S
      /\ \A t \in S : \E i \in DOMAIN ts : t = ts[i]
      /\ \A i \in DOMAIN ts : ts[i].val \in Nat
  BY TupleFacts
<1>1. CASE type = "first"
  <2>1. f = ts[1]
    BY <1>1 DEF do_generate
  <2> QED BY <1>1, <2>1, GenerateValues DEF IsAggregate
<1>2. CASE type = "max"
  <2>1. f = generate_max_int(ts)
    BY <1>2 DEF do_generate
  <2>2. PICK i \in DOMAIN ts : f = ts[i] /\ \A j \in DOMAIN ts : ts[j].val <= ts[i].val
    BY <2>1, GenerateValues
  <2>3. f.val \in V /\ \A v \in V : v \in Nat /\ f.val >= v
    BY <1>0, <2>2
  <2>4. f.val = Max(V)
    <3> HIDE DEF V
    <3> QED BY <2>3 DEF Max
  <2>5. f \in S
    BY <1>0, <2>2
  <2> QED BY <1>2, <2>4, <2>5 DEF IsAggregate
<1>3. CASE type = "min"
  <2>1. f = generate_min_int(ts)
    BY <1>3 DEF do_generate
  <2>2. PICK i \in DOMAIN ts : f = ts[i] /\ \A j \in DOMAIN ts : ts[j].val >= ts[i].val
    BY <2>1, GenerateValues
  <2>3. f.val \in V /\ \A v \in V : v \in Nat /\ f.val <= v
    BY <1>0, <2>2
  <2>4. f.val = Min(V)
    <3> HIDE DEF V
    <3> QED BY <2>3 DEF Min
  <2>5. f \in S
    BY <1>0, <2>2
  <2> QED BY <1>3, <2>4, <2>5 DEF IsAggregate
<1>4. CASE type = "sum"
  <2>1. f = generate_sum_int(ts, n)
    BY <1>4 DEF do_generate
  <2>2. f.val = Total([t \in S |-> n[t]])
    BY <2>1, GenerateValues
  <2>3. [t \in S |-> n[t]] = [t \in S |-> base[t]]
    OBVIOUS
  <2>4. f.val = Total([t \in S |-> base[t]])
    BY <2>2, <2>3
  <2> QED BY <1>4, <2>4 DEF IsAggregate
<1> QED BY <1>1, <1>2, <1>3, <1>4 DEF Types

------------------------------------------------------------------------------
(* The inductive invariant.                                                 *)

IInv ==
  /\ AggTypes
  /\ ChainInv
  /\ \A f \in Aggs : ExactInv(f)
  /\ \A t \in Tuples : BaseInv(t)
  /\ \A g \in Groups : ConfigInv(g)

LEMMA InitIInv == Init => IInv
<1> SUFFICES ASSUME Init PROVE IInv
  OBVIOUS
<1>0. DOMAIN queue = {} /\ Len(queue) = 0 /\ DOMAIN db = {}
  BY DEF Init
<1>1. AggTypes
  BY <1>0 DEF AggTypes, Init
<1>2. ChainInv
  <2>1. ASSUME NEW g \in Groups PROVE Linked(queue, g, Stored(g), corresponds[g])
    <3>1. Chain(queue, g) = {} /\ Stored(g) = {} /\ corresponds[g] = {}
      BY <1>0 DEF Chain, Stored, Init
    <3> QED BY <3>1 DEF Linked
  <2> QED BY <1>0, <2>1 DEF ChainInv
<1>3. ASSUME NEW f \in Aggs PROVE ExactInv(f)
  <2>1. InDb(f) = 0 /\ f.group \in Groups /\ f \notin corresponds[f.group]
    BY <1>0 DEF InDb, Aggs, Init
  <2>2. Occ(queue, Final(f, 1), Len(queue)) = 0 /\ Occ(queue, Final(f, -1), Len(queue)) = 0
    BY <1>0, OccZero
  <2> QED BY <2>1, <2>2 DEF ExactInv
<1>4. ASSUME NEW t \in Tuples PROVE BaseInv(t)
  <2>1. base[t] = 0 /\ count[t] = 0
    BY DEF Init
  <2>2. /\ Occ(queue, Contribution(t, 1), Len(queue)) = 0
        /\ Occ(queue, Contribution(t, -1), Len(queue)) = 0
    BY <1>0, OccZero
  <2>3. Balanced(queue, t, count[t])
    BY <1>0 DEF Balanced
  <2> QED BY <2>1, <2>2, <2>3 DEF BaseInv
<1>5. ASSUME NEW g \in Groups PROVE ConfigInv(g)
  <2>1. vals[g] = <<>> /\ corresponds[g] = {} /\ \A t \in Tuples : ~(count[t] > 0)
    BY DEF Init
  <2>2. ToSet(vals[g]) = {} /\ DOMAIN vals[g] = {} /\ do_generate(vals[g], count) = {}
    BY <2>1 DEF ToSet, do_generate
  <2> QED BY <2>1, <2>2 DEF ConfigInv
<1> QED BY <1>1, <1>2, <1>3, <1>4, <1>5 DEF IInv

\* Steps that leave the configurations alone.
LEMMA ConfigSame ==
  ASSUME UNCHANGED <<type, vals, count, corresponds>>, NEW g, ConfigInv(g) PROVE ConfigInv(g)'
<1>1. do_generate(vals[g], count)' = do_generate(vals[g], count)
  BY DEF do_generate
<1> QED BY <1>1 DEF ConfigInv

LEMMA Counts ==
  ASSUME AggTypes, NEW e PROVE Occ(queue, e, Len(queue)) \in Nat
BY OccType DEF AggTypes

LEMMA DeriveStep ==
  ASSUME IInv, NEW t \in Tuples, NEW c \in {1, -1}, Derive(t, c) PROVE IInv'
<1> DEFINE s == Contribution(t, c)
<1>0. /\ queue' = Append(queue, s) /\ base[t] + c >= 0 /\ base' = [base EXCEPT ![t] = @ + c]
      /\ UNCHANGED <<type, vals, count, corresponds, db>>
  BY DEF Derive, storeVars, Contribution
<1>t. AggTypes /\ ChainInv /\ queue \in Seq(Entries) /\ base \in [Tuples -> Nat] /\ count \in [Tuples -> Nat]
  BY DEF IInv, AggTypes
<1>s. s \in Entries /\ ~s.final
  BY DEF Contribution, STuple, Entries
<1> HIDE DEF s
<1>l. Len(queue') = Len(queue) + 1 /\ queue' \in Seq(Entries)
  BY <1>0, <1>t, <1>s
<1>1. AggTypes'
  <2>1. base' \in [Tuples -> Nat]
    BY <1>0, <1>t
  <2> QED BY <1>0, <1>t, <1>l, <2>1 DEF AggTypes
<1>2. ChainInv'
  <2>1. ASSUME NEW g \in Groups PROVE Linked(queue', g, Stored(g), corresponds[g])
    <3>1. Linked(queue, g, Stored(g), corresponds[g])
      BY <1>t DEF ChainInv
    <3> QED BY <1>0, <1>t, <1>s, <3>1, LinkedOther
  <2>2. \A g : Stored(g)' = Stored(g)
    BY <1>0 DEF Stored
  <2> QED BY <1>0, <1>t, <2>1, <2>2 DEF ChainInv
<1>3. ASSUME NEW f \in Aggs PROVE ExactInv(f)'
  <2>1. s # Final(f, 1) /\ s # Final(f, -1)
    BY EntriesDiffer DEF s
  <2>2. /\ Occ(queue', Final(f, 1), Len(queue) + 1) = Occ(queue, Final(f, 1), Len(queue)) + 0
        /\ Occ(queue', Final(f, -1), Len(queue) + 1) = Occ(queue, Final(f, -1), Len(queue)) + 0
    BY <1>0, <1>t, <2>1, OccAppend
  <2>3. InDb(f)' = InDb(f) /\ ExactInv(f)
    BY <1>0 DEF InDb, IInv
  <2>4. Occ(queue, Final(f, 1), Len(queue)) \in Nat /\ Occ(queue, Final(f, -1), Len(queue)) \in Nat
    BY <1>t, Counts
  <2> QED BY <1>0, <1>l, <2>2, <2>3, <2>4 DEF ExactInv
<1>4. ASSUME NEW u \in Tuples PROVE BaseInv(u)'
  <2> DEFINE up == Contribution(u, 1)
             down == Contribution(u, -1)
             n == Occ(queue, up, Len(queue))
             m == Occ(queue, down, Len(queue))
  <2>1. BaseInv(u)
    BY DEF IInv
  <2>2. n \in Nat /\ m \in Nat
    BY <1>t, Counts
  <2>3. (s = up <=> u = t /\ c = 1) /\ (s = down <=> u = t /\ c = -1)
    BY EntriesDiffer DEF s
  <2>4. base[u] = count[u] + n - m /\ Balanced(queue, u, count[u])
    BY <2>1 DEF BaseInv
  <2> HIDE DEF up, down
  <2>5. /\ Occ(queue', up, Len(queue) + 1) = n + IF s = up THEN 1 ELSE 0
        /\ Occ(queue', down, Len(queue) + 1) = m + IF s = down THEN 1 ELSE 0
    BY <1>0, <1>t, OccAppend
  <2>6. Balanced(queue', u, count[u])
    <3>1. s = down => count[u] + n - m > 0
      BY <1>0, <1>t, <2>3, <2>4
    <3> QED BY <1>0, <1>t, <2>4, <3>1, BalancedAppend DEF up, down
  <2>7. base'[u] = base[u] + (IF s = up THEN 1 ELSE 0) - (IF s = down THEN 1 ELSE 0)
    BY <1>0, <1>t, <2>3
  <2>8. base'[u] = count[u] + Occ(queue', up, Len(queue')) - Occ(queue', down, Len(queue'))
    <3> HIDE DEF n, m
    <3> QED BY <1>l, <1>t, <2>2, <2>4, <2>5, <2>7, SMTT(30) DEF n, m
  <2> QED BY <1>0, <2>6, <2>8 DEF BaseInv, up, down
<1>5. ASSUME NEW g \in Groups PROVE ConfigInv(g)'
  BY <1>0, ConfigSame DEF IInv
<1> QED BY <1>1, <1>2, <1>3, <1>4, <1>5 DEF IInv

LEMMA EntryShape ==
  ASSUME NEW s \in Entries
  PROVE  /\ s.count \in {-1, 1} /\ s.final \in BOOLEAN
         /\ s.final => s.tpl \in Aggs /\ s.tpl.group \in Groups /\ s = Final(s.tpl, s.count)
         /\ ~s.final => s.tpl \in Tuples /\ s.tpl.group \in Groups /\ s = Contribution(s.tpl, s.count)
<1>1. s.count \in {-1, 1} /\ s.final \in BOOLEAN
  BY DEF Entries
<1>2. ASSUME s.final
      PROVE  s.tpl \in Aggs /\ s.tpl.group \in Groups /\ s = Final(s.tpl, s.count)
  <2>1. s.tpl \in Aggs
    BY <1>2 DEF Entries
  <2>2. s = Final(s.tpl, s.count)
    BY <1>2 DEF Entries, Final, STuple
  <2>3. \A f \in Aggs : f.group \in Groups
    BY DEF Aggs
  <2> QED BY <2>1, <2>2, <2>3
<1>3. ASSUME ~s.final
      PROVE  s.tpl \in Tuples /\ s.tpl.group \in Groups /\ s = Contribution(s.tpl, s.count)
  <2>1. s.tpl \in Tuples
    BY <1>3 DEF Entries
  <2>2. s = Contribution(s.tpl, s.count)
    BY <1>3 DEF Entries, Contribution, STuple
  <2> QED BY <2>1, <2>2, TupleFacts
<1> QED BY <1>1, <1>2, <1>3

\* The entry at the front of the queue is taken out.
LEMMA HeadShape ==
  ASSUME AggTypes, queue # <<>>
  PROVE  /\ Tail(queue) \in Seq(Entries) /\ Head(queue) = queue[1] /\ queue[1] \in Entries
         /\ Drops(queue, Tail(queue), 1)
         /\ \A g : 1 \in Chain(queue, g) <=> queue[1].final /\ queue[1].tpl.group = g
         /\ \A g : \A i \in Chain(queue, g) : 1 <= i
<1>1. queue \in Seq(Entries)
  BY DEF AggTypes
<1>2. Tail(queue) \in Seq(Entries) /\ Head(queue) = queue[1] /\ Drops(queue, Tail(queue), 1)
  BY <1>1, DropsTail
<1>3. DOMAIN queue = 1 .. Len(queue) /\ 1 \in DOMAIN queue /\ queue[1] \in Entries
  BY <1>1
<1> QED BY <1>2, <1>3 DEF Chain

\* An aggregate is stored when no other one of its group is, and retracted only
\* when it is stored.
LEMMA FinalFinds ==
  ASSUME AggTypes, ChainInv, queue # <<>>, NEW f \in Aggs, NEW c \in {-1, 1}, queue[1] = Final(f, c)
  PROVE  Stored(f.group) = IF c = 1 THEN {} ELSE {f}
<1>1. f.group \in Groups /\ queue[1].final /\ queue[1].tpl = f /\ queue[1].count = c
  BY DEF Aggs, Final, STuple
<1>2. 1 \in Chain(queue, f.group) /\ \A i \in Chain(queue, f.group) : 1 <= i
  BY <1>1, HeadShape
<1>3. Linked(queue, f.group, Stored(f.group), corresponds[f.group])
  BY <1>1 DEF ChainInv
<1>4. Stored(f.group) = IF queue[1].count = 1 THEN {} ELSE {queue[1].tpl}
  BY <1>2, <1>3 DEF Linked
<1> QED BY <1>1, <1>4

LEMMA ProcessFinalStep ==
  ASSUME IInv, ProcessFinal PROVE IInv'
<1>a. AggTypes /\ ChainInv /\ queue # <<>> /\ queue \in Seq(Entries) /\ count \in [Tuples -> Nat]
  BY DEF IInv, AggTypes, ProcessFinal, Uncancelled
<1>b. /\ Tail(queue) \in Seq(Entries) /\ Head(queue) = queue[1] /\ queue[1] \in Entries
      /\ Drops(queue, Tail(queue), 1)
  BY <1>a, HeadShape
<1>c. queue[1].final
  BY <1>b DEF ProcessFinal
<1>d. PICK f \in Aggs, c \in {-1, 1} : queue[1] = Final(f, c) /\ queue[1].tpl = f /\ queue[1].count = c
  BY <1>b, <1>c, EntryShape
<1>e. f.group \in Groups
  BY DEF Aggs
<1>f. /\ f \in DOMAIN db <=> c = -1
      /\ \A h \in DOMAIN db : h.group = f.group => h = f
      /\ \A h \in DOMAIN db : db[h] = 1
  <2>1. Stored(f.group) = IF c = 1 THEN {} ELSE {f}
    BY <1>a, <1>d, FinalFinds
  <2> QED BY <1>a, <2>1 DEF Stored, ChainInv
<1>g. /\ DOMAIN db' = (DOMAIN db \ {f}) \cup (IF c = 1 THEN {f} ELSE {})
      /\ \A h \in DOMAIN db' : db'[h] = 1
  <2> DEFINE n == (IF f \in DOMAIN db THEN db[f] ELSE 0) + c
             stored == (DOMAIN db \ {f}) \cup (IF n > 0 THEN {f} ELSE {})
  <2>1. db' = [h \in stored |-> IF h = f THEN n ELSE db[h]]
    BY <1>b, <1>d DEF ProcessFinal
  <2>2. (c = 1 => n = 1) /\ (c = -1 => n = 0)
    BY <1>f
  <2>3. stored = (DOMAIN db \ {f}) \cup (IF c = 1 THEN {f} ELSE {})
    BY <2>2
  <2> HIDE DEF n
  <2> QED BY <1>f, <2>1, <2>2, <2>3
<1>h. /\ queue' = Tail(queue) /\ Len(queue') \in Nat
      /\ UNCHANGED <<type, vals, count, corresponds, base>>
  BY <1>b DEF ProcessFinal, storeVars
<1>i. ASSUME NEW e
      PROVE  Occ(queue', e, Len(queue')) = Occ(queue, e, Len(queue)) - IF queue[1] = e THEN 1 ELSE 0
  <2>1. PICK p \in Seq(Entries) : p = Tail(queue)
    BY <1>b
  <2>2. Drops(queue, p, 1)
    BY <1>b, <2>1
  <2>3. Occ(p, e, Len(p)) = Occ(queue, e, Len(queue)) - IF queue[1] = e THEN 1 ELSE 0
    BY <1>a, <2>2, OccDropsAll
  <2> QED BY <1>h, <2>1, <2>3
<1>1. AggTypes'
  BY <1>a, <1>b, <1>g, <1>h DEF AggTypes
<1>2. ChainInv'
  <2>1. ASSUME NEW g \in Groups PROVE Linked(queue', g, Stored(g)', corresponds'[g])
    <3>1. Linked(queue, g, Stored(g), corresponds[g])
      BY <1>a DEF ChainInv
    <3>2. CASE g = f.group
      <4>1. Stored(g)' = IF queue[1].count = 1 THEN {queue[1].tpl} ELSE {}
        BY <1>d, <1>f, <1>g, <3>2 DEF Stored
      <4>2. 1 \in Chain(queue, g) /\ \A i \in Chain(queue, g) : 1 <= i
        BY <1>a, <1>c, <1>d, <3>2, HeadShape
      <4>3. Linked(Tail(queue), g, Stored(g)', corresponds[g])
        BY <1>a, <1>b, <3>1, <4>1, <4>2, LinkedDropFirst
      <4> QED BY <1>h, <4>3
    <3>3. CASE g # f.group
      <4>1. Stored(g)' = Stored(g)
        BY <1>g, <3>3 DEF Stored
      <4>2. 1 \notin Chain(queue, g)
        BY <1>a, <1>d, <3>3, HeadShape
      <4>3. Linked(Tail(queue), g, Stored(g), corresponds[g])
        BY <1>a, <1>b, <3>1, <4>2, LinkedDropOther
      <4> QED BY <1>h, <4>1, <4>3
    <3> QED BY <3>2, <3>3
  <2> QED BY <1>g, <2>1 DEF ChainInv
<1>3. ASSUME NEW h \in Aggs PROVE ExactInv(h)'
  <2>1. ExactInv(h)
    BY DEF IInv
  <2>2. /\ queue[1] = Final(h, 1) <=> h = f /\ c = 1
        /\ queue[1] = Final(h, -1) <=> h = f /\ c = -1
    BY <1>d, EntriesDiffer
  <2>3. /\ Occ(queue', Final(h, 1), Len(queue'))
             = Occ(queue, Final(h, 1), Len(queue)) - IF queue[1] = Final(h, 1) THEN 1 ELSE 0
        /\ Occ(queue', Final(h, -1), Len(queue'))
             = Occ(queue, Final(h, -1), Len(queue)) - IF queue[1] = Final(h, -1) THEN 1 ELSE 0
    BY <1>i
  <2>4. Occ(queue, Final(h, 1), Len(queue)) \in Nat /\ Occ(queue, Final(h, -1), Len(queue)) \in Nat
    BY <1>a, Counts
  <2>5. /\ InDb(h) \in Nat
        /\ InDb(h)' = InDb(h) + (IF queue[1] = Final(h, 1) THEN 1 ELSE 0)
                              - (IF queue[1] = Final(h, -1) THEN 1 ELSE 0)
    <3>1. CASE h = f
      BY <1>f, <1>g, <2>2, <3>1 DEF InDb
    <3>2. CASE h # f
      BY <1>f, <1>g, <2>2, <3>2 DEF InDb
    <3> QED BY <3>1, <3>2
  <2> QED BY <1>h, <2>1, <2>3, <2>4, <2>5 DEF ExactInv
<1>4. ASSUME NEW t \in Tuples PROVE BaseInv(t)'
  <2> DEFINE up == Contribution(t, 1)
             down == Contribution(t, -1)
  <2>1. BaseInv(t) /\ count[t] \in Int
    BY <1>a DEF IInv
  <2>2. queue[1] # up /\ queue[1] # down
    BY <1>d, EntriesDiffer
  <2>3. /\ Occ(queue', up, Len(queue')) = Occ(queue, up, Len(queue)) - 0
        /\ Occ(queue', down, Len(queue')) = Occ(queue, down, Len(queue)) - 0
    BY <1>i, <2>2
  <2>4. Occ(queue, up, Len(queue)) \in Nat /\ Occ(queue, down, Len(queue)) \in Nat
    BY <1>a, Counts
  <2>5. Balanced(Tail(queue), t, count[t])
    <3>1. Balanced(queue, t, count[t])
      BY <2>1 DEF BaseInv
    <3>2. Balanced(Tail(queue), t, IF queue[1] = up THEN count[t] + 1
                                   ELSE IF queue[1] = down THEN count[t] - 1 ELSE count[t])
      <4>1. \A i \in 1 .. 1 - 1 : queue[i] = down => queue[1] \notin {up, down}
        OBVIOUS
      <4> QED BY <1>a, <1>b, <2>1, <3>1, <4>1, BalancedDrop
    <3> QED BY <2>2, <3>2
  <2> QED BY <1>h, <2>1, <2>3, <2>4, <2>5 DEF BaseInv
<1>5. ASSUME NEW g \in Groups PROVE ConfigInv(g)'
  BY <1>h, ConfigSame DEF IInv
<1> QED BY <1>1, <1>2, <1>3, <1>4, <1>5 DEF IInv

LEMMA CancelStep ==
  ASSUME IInv, Cancel PROVE IInv'
<1>a. AggTypes /\ ChainInv /\ queue # <<>> /\ queue \in Seq(Entries) /\ count \in [Tuples -> Nat]
  BY DEF IInv, AggTypes, Cancel
<1>b. /\ Tail(queue) \in Seq(Entries) /\ Head(queue) = queue[1] /\ queue[1] \in Entries
      /\ Drops(queue, Tail(queue), 1) /\ queue[1].count = 1
  BY <1>a, HeadShape DEF Cancel
<1>c. PICK p \in Seq(Entries) : p = Tail(queue)
  BY <1>b
<1>d. PICK h \in Entries : h = queue[1] /\ h.count = 1
  BY <1>b
<1>e. PICK neg : neg = Negative(h)
  OBVIOUS
<1>f. /\ neg.tpl = h.tpl /\ neg.final = h.final /\ neg.count = -1 /\ neg # h
      /\ h.final => h = Final(h.tpl, 1) /\ neg = Final(h.tpl, -1) /\ h.tpl \in Aggs /\ h.tpl.group \in Groups
      /\ ~h.final => h = Contribution(h.tpl, 1) /\ neg = Contribution(h.tpl, -1) /\ h.tpl \in Tuples
  <2>1. neg.tpl = h.tpl /\ neg.final = h.final /\ neg.count = -1 /\ neg # h
    BY <1>d, <1>e DEF Negative, STuple
  <2>2. /\ h.final \in BOOLEAN
        /\ h.final => h = Final(h.tpl, 1) /\ h.tpl \in Aggs /\ h.tpl.group \in Groups
        /\ ~h.final => h = Contribution(h.tpl, 1) /\ h.tpl \in Tuples
    BY <1>d, EntryShape
  <2>3. CASE h.final = TRUE
    BY <1>e, <2>1, <2>2, <2>3 DEF Negative, Final
  <2>4. CASE h.final = FALSE
    BY <1>e, <2>1, <2>2, <2>4 DEF Negative, Contribution
  <2> QED BY <2>2, <2>3, <2>4
<1>g. Contains(p, neg) /\ queue' = RemoveFirst(p, neg)
  BY <1>b, <1>c, <1>d, <1>e DEF Cancel
<1>h. PICK d \in 1 .. Len(p) :
        /\ p[d] = neg /\ \A i \in 1 .. d - 1 : p[i] # neg
        /\ RemoveFirst(p, neg) \in Seq(Entries)
        /\ Drops(p, RemoveFirst(p, neg), d)
  BY <1>g, RemoveFirstShape
<1>i. queue' \in Seq(Entries) /\ Drops(p, queue', d) /\ Drops(queue, p, 1)
  BY <1>b, <1>c, <1>g, <1>h
<1>j. UNCHANGED <<type, vals, count, corresponds, base, db>>
  BY DEF Cancel, storeVars
<1>k. ASSUME NEW e
      PROVE  /\ Occ(queue', e, Len(queue'))
                  = Occ(queue, e, Len(queue)) - (IF h = e THEN 1 ELSE 0) - (IF neg = e THEN 1 ELSE 0)
             /\ Occ(queue, e, Len(queue)) \in Nat
  <2>1. Occ(p, e, Len(p)) = Occ(queue, e, Len(queue)) - IF queue[1] = e THEN 1 ELSE 0
    BY <1>a, <1>i, OccDropsAll
  <2>2. Occ(queue', e, Len(queue')) = Occ(p, e, Len(p)) - IF p[d] = e THEN 1 ELSE 0
    BY <1>i, OccDropsAll
  <2>3. Occ(queue, e, Len(queue)) \in Nat
    BY <1>a, Counts
  <2> QED BY <1>d, <1>h, <2>1, <2>2, <2>3
<1>1. AggTypes'
  BY <1>a, <1>i, <1>j DEF AggTypes
<1>2. ChainInv'
  <2>1. ASSUME NEW g \in Groups PROVE Linked(queue', g, Stored(g), corresponds[g])
    <3>1. Linked(queue, g, Stored(g), corresponds[g])
      BY <1>a DEF ChainInv
    <3>2. DOMAIN p = 1 .. Len(p)
      OBVIOUS
    <3>3. d \in Chain(p, g) <=> h.final /\ h.tpl.group = g
      BY <1>f, <1>h, <3>2 DEF Chain
    <3>4. 1 \in Chain(queue, g) <=> h.final /\ h.tpl.group = g
      BY <1>a, <1>d, HeadShape
    <3>5. CASE h.final /\ h.tpl.group = g
      <4>1. Stored(g) = {}
        BY <1>a, <1>d, <1>f, <3>5, FinalFinds
      <4>2. Linked(p, g, {h.tpl}, corresponds[g])
        <5>1. \A i \in Chain(queue, g) : 1 <= i
          BY <1>a, HeadShape
        <5>2. {h.tpl} = IF queue[1].count = 1 THEN {queue[1].tpl} ELSE {}
          BY <1>d
        <5> QED BY <1>a, <1>i, <3>1, <3>4, <3>5, <5>1, <5>2, LinkedDropFirst
      <4>3. PICK k \in Chain(p, g) : \A i \in Chain(p, g) : k <= i
        <5>1. Chain(p, g) \subseteq Nat
          BY <3>2 DEF Chain
        <5> QED BY <3>3, <3>5, <5>1, LeastElement
      <4>4. p[k] = neg
        <5>1. {h.tpl} = IF p[k].count = 1 THEN {} ELSE {p[k].tpl}
          BY <4>2, <4>3 DEF Linked
        <5>2. p[k] \in Entries /\ p[k].final
          BY <3>2 DEF Chain
        <5>3. p[k] = Final(p[k].tpl, p[k].count) /\ p[k].count \in {-1, 1}
          BY <5>2, EntryShape
        <5>4. p[k].count = -1 /\ p[k].tpl = h.tpl
          BY <5>1, <5>3
        <5> QED BY <1>f, <3>5, <5>3, <5>4
      <4>5. k = d
        <5>1. k \in 1 .. Len(p) /\ k <= d
          BY <3>2, <3>3, <3>5, <4>3 DEF Chain
        <5>2. ~(k < d)
          BY <1>h, <4>4, <5>1
        <5> QED BY <5>1, <5>2
      <4>6. {} = IF p[d].count = 1 THEN {p[d].tpl} ELSE {}
        BY <1>f, <1>h
      <4>7. Linked(queue', g, {}, corresponds[g])
        BY <1>i, <4>2, <4>3, <4>5, <4>6, LinkedDropFirst
      <4> QED BY <4>1, <4>7
    <3>6. CASE ~(h.final /\ h.tpl.group = g)
      <4>1. Linked(p, g, Stored(g), corresponds[g])
        BY <1>a, <1>i, <3>1, <3>4, <3>6, LinkedDropOther
      <4> QED BY <1>i, <3>3, <3>6, <4>1, LinkedDropOther
    <3> QED BY <3>5, <3>6
  <2>2. \A g : Stored(g)' = Stored(g)
    BY <1>j DEF Stored
  <2> QED BY <1>a, <1>j, <2>1, <2>2 DEF ChainInv
<1>3. ASSUME NEW f \in Aggs PROVE ExactInv(f)'
  <2>1. ExactInv(f) /\ InDb(f)' = InDb(f)
    BY <1>j DEF IInv, InDb
  <2>2. /\ h = Final(f, 1) <=> neg = Final(f, -1)
        /\ h # Final(f, -1) /\ neg # Final(f, 1)
    BY <1>d, <1>f, EntriesDiffer DEF Entries
  <2>3. /\ Occ(queue', Final(f, 1), Len(queue')) - Occ(queue', Final(f, -1), Len(queue'))
             = Occ(queue, Final(f, 1), Len(queue)) - Occ(queue, Final(f, -1), Len(queue))
    BY <1>k, <2>2
  <2>4. InDb(f) \in Nat
    BY <1>a DEF InDb, ChainInv
  <2>5. /\ Occ(queue, Final(f, 1), Len(queue)) \in Nat /\ Occ(queue, Final(f, -1), Len(queue)) \in Nat
        /\ Occ(queue', Final(f, 1), Len(queue')) \in Int /\ Occ(queue', Final(f, -1), Len(queue')) \in Int
    BY <1>k
  <2> QED BY <1>j, <2>1, <2>3, <2>4, <2>5 DEF ExactInv
<1>4. ASSUME NEW t \in Tuples PROVE BaseInv(t)'
  <2>1. PICK up, down : up = Contribution(t, 1) /\ down = Contribution(t, -1)
    OBVIOUS
  <2>2. BaseInv(t) /\ count[t] \in Int
    BY <1>a DEF IInv
  <2>3. h = up <=> neg = down
    BY <1>d, <1>f, <2>1, EntriesDiffer
  <2>4. h # down /\ neg # up /\ up # down
    BY <1>d, <1>f, <2>1, EntriesDiffer
  <2>5. Occ(queue', up, Len(queue')) - Occ(queue', down, Len(queue'))
             = Occ(queue, up, Len(queue)) - Occ(queue, down, Len(queue))
    BY <1>k, <2>3, <2>4
  <2>6. /\ Occ(queue, up, Len(queue)) \in Nat /\ Occ(queue, down, Len(queue)) \in Nat
        /\ Occ(queue', up, Len(queue')) \in Int /\ Occ(queue', down, Len(queue')) \in Int
    BY <1>k
  <2>7. Balanced(queue', t, count[t])
    <3>1. Balanced(queue, t, count[t])
      BY <2>2 DEF BaseInv
    <3>2. PICK n \in Int : n = IF h = up THEN count[t] + 1 ELSE count[t]
      BY <2>2
    <3>3. Balanced(p, t, n)
      <4>1. \A i \in 1 .. 1 - 1 : queue[i] = down => queue[1] \notin {up, down}
        OBVIOUS
      <4>2. Balanced(p, t, IF queue[1] = up THEN count[t] + 1
                           ELSE IF queue[1] = down THEN count[t] - 1 ELSE count[t])
        BY <1>a, <1>i, <2>1, <2>2, <3>1, <4>1, BalancedDrop
      <4> QED BY <1>d, <2>4, <3>2, <4>2
    <3>4. Balanced(queue', t, IF p[d] = up THEN n + 1 ELSE IF p[d] = down THEN n - 1 ELSE n)
      <4>1. \A i \in 1 .. d - 1 : p[i] = down => p[d] \notin {up, down}
        BY <1>h, <2>4
      <4> QED BY <1>i, <2>1, <3>3, <4>1, BalancedDrop
    <3> QED BY <1>h, <2>2, <2>3, <2>4, <3>2, <3>4
  <2> QED BY <1>j, <2>1, <2>2, <2>5, <2>6, <2>7 DEF BaseInv
<1>5. ASSUME NEW g \in Groups PROVE ConfigInv(g)'
  BY <1>j, ConfigSame DEF IInv
<1> QED BY <1>1, <1>2, <1>3, <1>4, <1>5 DEF IInv

------------------------------------------------------------------------------
(* A contribution is added to its configuration.                            *)

LEMMA GenerateSame ==
  ASSUME NEW ts, NEW m, NEW n, \A u \in ToSet(ts) : m[u] = n[u]
  PROVE  do_generate(ts, m) = do_generate(ts, n)
<1>1. [u \in ToSet(ts) |-> m[u]] = [u \in ToSet(ts) |-> n[u]]
  OBVIOUS
<1>2. generate_sum_int(ts, m) = generate_sum_int(ts, n)
  BY <1>1 DEF generate_sum_int
<1> QED BY <1>2 DEF do_generate

\* The tuples v of a configuration become ts when there are n copies of t instead
\* of m.
Recounted(v, ts, t, m, n) ==
  /\ Distinct(v)
  /\ t \in ToSet(v) <=> m > 0
  /\ m # 0 \/ n # 0
  /\ ts = IF n = 0 THEN RemoveFirst(v, t) ELSE IF m = 0 THEN Append(v, t) ELSE v

LEMMA TuplesStep ==
  ASSUME NEW t \in Tuples, NEW v \in Seq(Tuples), NEW ts, NEW m \in Nat, NEW n \in Nat,
         Recounted(v, ts, t, m, n)
  PROVE  /\ ts \in Seq(Tuples) /\ Distinct(ts)
         /\ \A u : u \in ToSet(ts) <=> IF u = t THEN n > 0 ELSE u \in ToSet(v)
<1> USE DEF Recounted
<1>1. CASE n = 0
  <2>1. Contains(v, t)
    BY <1>1 DEF Contains, ToSet
  <2>2. PICK k \in 1 .. Len(v) :
          v[k] = t /\ RemoveFirst(v, t) \in Seq(Tuples) /\ Drops(v, RemoveFirst(v, t), k)
    BY <2>1, RemoveFirstShape
  <2>3. ts = RemoveFirst(v, t)
    BY <1>1
  <2>4. ts \in Seq(Tuples) /\ Distinct(ts) /\ ToSet(ts) = ToSet(v) \ {v[k]}
    BY <2>2, <2>3, DistinctDrops
  <2> QED BY <1>1, <2>2, <2>4
<1>2. CASE n # 0 /\ m = 0
  <2>1. ts = Append(v, t) /\ t \notin ToSet(v)
    BY <1>2
  <2>2. ts \in Seq(Tuples) /\ Distinct(ts) /\ ToSet(ts) = ToSet(v) \cup {t}
    BY <2>1, DistinctAppend
  <2> QED BY <1>2, <2>2
<1>3. CASE n # 0 /\ m # 0
  BY <1>3
<1> QED BY <1>1, <1>2, <1>3

\* What a configuration corresponds to.
LEMMA ConfigShape ==
  ASSUME AggTypes, NEW g \in Groups, ConfigInv(g) PROVE Optional(corresponds[g], g)
<1>1. type \in Types /\ vals[g] \in Seq(Tuples) /\ count \in [Tuples -> Nat]
  BY DEF AggTypes
<1>2. /\ \A t \in ToSet(vals[g]) : t.group = g
      /\ corresponds[g] = do_generate(vals[g], count)
  BY DEF ConfigInv
<1> QED BY <1>1, <1>2, GenerateShape

LEMMA AddToAggregateStep ==
  ASSUME IInv, AddToAggregate PROVE IInv'
<1>a. AggTypes /\ ChainInv /\ queue # <<>> /\ queue \in Seq(Entries) /\ count \in [Tuples -> Nat]
  BY DEF IInv, AggTypes, AddToAggregate, Uncancelled
<1>b. /\ Tail(queue) \in Seq(Entries) /\ Head(queue) = queue[1] /\ queue[1] \in Entries
      /\ Drops(queue, Tail(queue), 1)
  BY <1>a, HeadShape
<1>c. ~queue[1].final
  BY <1>b DEF AddToAggregate
<1>d. PICK t \in Tuples, c \in {-1, 1} :
        queue[1] = Contribution(t, c) /\ queue[1].tpl = t /\ queue[1].count = c
  BY <1>b, <1>c, EntryShape
<1>e. PICK g \in Groups : g = t.group
  BY TupleFacts
<1>f. count[t] + c >= 0
  <2>1. CASE c = 1
    BY <1>a, <2>1
  <2>2. CASE c = -1
    <3>1. Balanced(queue, t, count[t]) /\ 1 \in 1 .. Len(queue)
      BY <1>a DEF IInv, BaseInv
    <3>2. count[t] + Occ(queue, Contribution(t, 1), 1) - Occ(queue, Contribution(t, -1), 1) >= 0
      BY <1>d, <2>2, <3>1 DEF Balanced
    <3>3. Occ(queue, Contribution(t, 1), 1) = 0 /\ Occ(queue, Contribution(t, -1), 1) = 1
      <4>1. queue[1] # Contribution(t, 1) /\ queue[1] = Contribution(t, -1)
        BY <1>d, <2>2, EntriesDiffer
      <4>2. ASSUME NEW e PROVE Occ(queue, e, 1) = IF queue[1] = e THEN 1 ELSE 0
        <5>1. PICK z \in Nat : z = 0
          OBVIOUS
        <5>2. Occ(queue, e, z + 1) = Occ(queue, e, z) + IF queue[z + 1] = e THEN 1 ELSE 0
          BY OccStep
        <5>3. Occ(queue, e, 0) = 0
          BY OccZero
        <5> QED BY <5>1, <5>2, <5>3
      <4> QED BY <4>1, <4>2
    <3> QED BY <1>a, <2>2, <3>2, <3>3
  <2> QED BY <2>1, <2>2
<1>g. PICK n \in [Tuples -> Nat] : n = [count EXCEPT ![t] = count[t] + c]
  <2>1. count[t] + c \in Nat
    BY <1>a, <1>f
  <2>2. [count EXCEPT ![t] = count[t] + c] \in [Tuples -> Nat]
    BY <1>a, <2>1
  <2> QED BY <2>2
<1>h. PICK ts : ts = IF n[t] = 0 THEN RemoveFirst(vals[g], t)
                     ELSE IF count[t] = 0 THEN Append(vals[g], t) ELSE vals[g]
  OBVIOUS
<1>i. PICK old, new : old = corresponds[g] /\ new = do_generate(ts, n)
  OBVIOUS
<1>j. PICK p \in Seq(Entries) : p = Tail(queue)
  BY <1>b
<1>k. /\ count' = n
      /\ vals' = [vals EXCEPT ![g] = ts]
      /\ corresponds' = [corresponds EXCEPT ![g] = new]
      /\ queue' = p \o generate(old, new)
      /\ UNCHANGED <<type, db, base>>
  <2> DEFINE nn == [count EXCEPT ![t] = IF c > 0 \/ count[t] > 0 THEN count[t] + c ELSE count[t]]
             tt == IF nn[t] = 0 THEN RemoveFirst(vals[g], t)
                   ELSE IF count[t] = 0 THEN Append(vals[g], t) ELSE vals[g]
  <2>1. /\ count' = nn
        /\ vals' = [vals EXCEPT ![g] = tt]
        /\ corresponds' = [corresponds EXCEPT ![g] = do_generate(tt, nn)]
        /\ queue' = Tail(queue) \o generate(corresponds[g], do_generate(tt, nn))
        /\ UNCHANGED <<type, db, base>>
    BY <1>b, <1>d, <1>e DEF AddToAggregate
  <2>2. c > 0 \/ count[t] > 0
    BY <1>a, <1>f
  <2>3. nn = n
    BY <1>g, <2>2
  <2> HIDE DEF nn
  <2>4. tt = ts
    BY <1>h, <2>3
  <2> HIDE DEF tt
  <2> QED BY <1>i, <1>j, <2>1, <2>3, <2>4
<1>l. /\ n[t] = count[t] + c /\ \A u \in Tuples : u # t => n[u] = count[u]
      /\ vals \in [Groups -> Seq(Tuples)] /\ corresponds \in [Groups -> SUBSET Aggs]
  BY <1>a, <1>g DEF AggTypes
<1>m. /\ Distinct(vals[g]) /\ old = do_generate(vals[g], count)
      /\ ToSet(vals[g]) = {u \in Tuples : u.group = g /\ count[u] > 0}
  BY <1>i DEF IInv, ConfigInv, Distinct
<1>n. /\ ts \in Seq(Tuples) /\ Distinct(ts)
      /\ \A u : u \in ToSet(ts) <=> IF u = t THEN n[t] > 0 ELSE u \in ToSet(vals[g])
  <2>1. t \in ToSet(vals[g]) <=> count[t] > 0
    BY <1>e, <1>m
  <2>2. vals[g] \in Seq(Tuples) /\ count[t] \in Nat /\ n[t] \in Nat /\ (count[t] # 0 \/ n[t] # 0)
    BY <1>a, <1>l
  <2>3. PICK v \in Seq(Tuples), k \in Nat, l \in Nat : v = vals[g] /\ k = count[t] /\ l = n[t]
    BY <2>2
  <2>4. Recounted(v, ts, t, k, l)
    BY <1>h, <1>m, <2>1, <2>2, <2>3 DEF Recounted
  <2>5. /\ ts \in Seq(Tuples) /\ Distinct(ts)
        /\ \A u : u \in ToSet(ts) <=> IF u = t THEN l > 0 ELSE u \in ToSet(v)
    BY <2>4, TuplesStep
  <2> QED BY <2>3, <2>5
<1>o. ToSet(ts) = {u \in Tuples : u.group = g /\ n[u] > 0}
  BY <1>e, <1>l, <1>m, <1>n
<1>p. Optional(old, g) /\ Optional(new, g)
  <2>1. type \in Types /\ vals[g] \in Seq(Tuples)
    BY <1>a DEF AggTypes
  <2>2. Optional(do_generate(vals[g], count), g)
    BY <1>a, <1>m, <2>1, GenerateShape
  <2>3. Optional(do_generate(ts, n), g)
    BY <1>n, <1>o, <2>1, GenerateShape
  <2> QED BY <1>i, <1>m, <2>2, <2>3
<1>q. Generated(p, queue', g, old, new)
  BY <1>k, <1>p, GenerateStep
<1>r. ASSUME NEW e
      PROVE  /\ Occ(p, e, Len(p)) = Occ(queue, e, Len(queue)) - IF queue[1] = e THEN 1 ELSE 0
             /\ Occ(queue, e, Len(queue)) \in Nat
  <2>1. Drops(queue, p, 1)
    BY <1>b, <1>j
  <2>2. Occ(p, e, Len(p)) = Occ(queue, e, Len(queue)) - IF queue[1] = e THEN 1 ELSE 0
    BY <1>a, <2>1, OccDropsAll
  <2> QED BY <1>a, <2>2, Counts
<1>1. AggTypes'
  <2>1. queue' \in Seq(Entries)
    BY <1>q DEF Generated
  <2>2. new \subseteq Aggs
    BY <1>p DEF Optional
  <2>3. vals' \in [Groups -> Seq(Tuples)] /\ corresponds' \in [Groups -> SUBSET Aggs]
    BY <1>k, <1>l, <1>n, <2>2
  <2> QED BY <1>a, <1>k, <2>1, <2>3 DEF AggTypes
<1>2. ChainInv'
  <2>1. ASSUME NEW h \in Groups PROVE Linked(queue', h, Stored(h), corresponds'[h])
    <3>1. Linked(queue, h, Stored(h), corresponds[h])
      BY <1>a DEF ChainInv
    <3>2. 1 \notin Chain(queue, h)
      BY <1>a, <1>c, HeadShape
    <3>3. Linked(p, h, Stored(h), corresponds[h])
      BY <1>a, <1>b, <1>j, <3>1, <3>2, LinkedDropOther
    <3>4. corresponds'[h] = IF h = g THEN new ELSE corresponds[h]
      BY <1>k, <1>l
    <3> QED BY <1>i, <1>q, <3>3, <3>4 DEF Generated
  <2>2. \A h : Stored(h)' = Stored(h)
    BY <1>k DEF Stored
  <2> QED BY <1>a, <1>k, <2>1, <2>2 DEF ChainInv
<1>3. ASSUME NEW f \in Aggs PROVE ExactInv(f)'
  <2>1. ExactInv(f) /\ InDb(f)' = InDb(f) /\ InDb(f) \in Nat /\ f.group \in Groups
    BY <1>a, <1>k DEF IInv, InDb, ChainInv, Aggs
  <2>2. queue[1] # Final(f, 1) /\ queue[1] # Final(f, -1)
    BY <1>d, EntriesDiffer
  <2>3. /\ Occ(p, Final(f, 1), Len(p)) = Occ(queue, Final(f, 1), Len(queue)) - 0
        /\ Occ(p, Final(f, -1), Len(p)) = Occ(queue, Final(f, -1), Len(queue)) - 0
        /\ Occ(queue, Final(f, 1), Len(queue)) \in Nat
        /\ Occ(queue, Final(f, -1), Len(queue)) \in Nat
    BY <1>r, <2>2
  <2>4. Occ(queue', Final(f, 1), Len(queue')) - Occ(queue', Final(f, -1), Len(queue'))
          = Occ(p, Final(f, 1), Len(p)) - Occ(p, Final(f, -1), Len(p))
              + (IF f \in new THEN 1 ELSE 0) - (IF f \in old THEN 1 ELSE 0)
    BY <1>q DEF Generated
  <2>5. Occ(queue', Final(f, 1), Len(queue')) \in Nat /\ Occ(queue', Final(f, -1), Len(queue')) \in Nat
    <3>1. Len(queue') \in Nat
      BY <1>q DEF Generated
    <3> QED BY <3>1, OccType
  <2>6. (IF f \in corresponds'[f.group] THEN 1 ELSE 0)
          = (IF f \in corresponds[f.group] THEN 1 ELSE 0)
              + (IF f \in new THEN 1 ELSE 0) - (IF f \in old THEN 1 ELSE 0)
    <3>1. CASE f.group = g
      <4>1. corresponds'[f.group] = new /\ corresponds[f.group] = old
        BY <1>i, <1>k, <1>l, <3>1
      <4> QED BY <4>1
    <3>2. CASE f.group # g
      <4>1. f \notin new /\ f \notin old
        BY <1>p, <3>2 DEF Optional
      <4>2. corresponds'[f.group] = corresponds[f.group]
        BY <1>k, <1>l, <3>2
      <4> QED BY <4>1, <4>2
    <3> QED BY <3>1, <3>2
  <2>7. InDb(f) + Occ(queue, Final(f, 1), Len(queue)) - Occ(queue, Final(f, -1), Len(queue))
          = IF f \in corresponds[f.group] THEN 1 ELSE 0
    BY <2>1 DEF ExactInv
  <2>8. InDb(f) + Occ(queue', Final(f, 1), Len(queue')) - Occ(queue', Final(f, -1), Len(queue'))
          = IF f \in corresponds'[f.group] THEN 1 ELSE 0
    <3>1. PICK x \in Int, y \in Int : x = (IF f \in new THEN 1 ELSE 0) /\ y = (IF f \in old THEN 1 ELSE 0)
      OBVIOUS
    <3>2. PICK before \in Int, after \in Int :
            /\ before = (IF f \in corresponds[f.group] THEN 1 ELSE 0)
            /\ after = (IF f \in corresponds'[f.group] THEN 1 ELSE 0)
      OBVIOUS
    <3>3. InDb(f) + Occ(queue, Final(f, 1), Len(queue)) - Occ(queue, Final(f, -1), Len(queue)) = before
      BY <2>7, <3>2
    <3>4. after = before + x - y
      BY <2>6, <3>1, <3>2
    <3>5. Occ(queue', Final(f, 1), Len(queue')) - Occ(queue', Final(f, -1), Len(queue'))
            = Occ(queue, Final(f, 1), Len(queue)) - Occ(queue, Final(f, -1), Len(queue)) + x - y
      BY <2>3, <2>4, <3>1
    <3>6. PICK i \in Int, j \in Int, k \in Int, l \in Int :
            /\ i = Occ(queue, Final(f, 1), Len(queue)) /\ j = Occ(queue, Final(f, -1), Len(queue))
            /\ k = Occ(queue', Final(f, 1), Len(queue')) /\ l = Occ(queue', Final(f, -1), Len(queue'))
      BY <2>3, <2>5
    <3>7. PICK z \in Int : z = InDb(f)
      BY <2>1
    <3>8. z + i - j = before /\ k - l = i - j + x - y
      BY <3>3, <3>5, <3>6, <3>7
    <3>9. z + k - l = after
      BY <3>4, <3>8
    <3> QED BY <3>2, <3>6, <3>7, <3>9
  <2> QED BY <2>1, <2>8 DEF ExactInv
<1>4. ASSUME NEW u \in Tuples PROVE BaseInv(u)'
  <2>1. PICK up, down : up = Contribution(u, 1) /\ down = Contribution(u, -1)
    OBVIOUS
  <2>2. /\ BaseInv(u) /\ count[u] \in Nat /\ n[u] \in Int
        /\ n[u] = IF queue[1] = up THEN count[u] + 1
                  ELSE IF queue[1] = down THEN count[u] - 1 ELSE count[u]
    BY <1>a, <1>d, <1>l, <2>1, EntriesDiffer DEF IInv
  <2>3. /\ base[u] = count[u] + Occ(queue, up, Len(queue)) - Occ(queue, down, Len(queue))
        /\ Balanced(queue, u, count[u])
    BY <2>1, <2>2 DEF BaseInv
  <2>4. up # down
    BY <2>1, EntriesDiffer
  <2>5. /\ Occ(queue', up, Len(queue')) = Occ(queue, up, Len(queue)) - IF queue[1] = up THEN 1 ELSE 0
        /\ Occ(queue', down, Len(queue')) = Occ(queue, down, Len(queue)) - IF queue[1] = down THEN 1 ELSE 0
    <3>1. Occ(queue', up, Len(queue')) = Occ(p, up, Len(p)) /\ Occ(queue', down, Len(queue')) = Occ(p, down, Len(p))
      BY <1>q, <2>1 DEF Generated
    <3> QED BY <1>r, <3>1
  <2>6. Balanced(queue', u, n[u])
    <3>1. \A i \in 1 .. 1 - 1 : queue[i] = down => queue[1] \notin {up, down}
      OBVIOUS
    <3>2. Balanced(p, u, IF queue[1] = up THEN count[u] + 1
                         ELSE IF queue[1] = down THEN count[u] - 1 ELSE count[u])
      BY <1>a, <1>b, <1>j, <2>1, <2>2, <2>3, <3>1, BalancedDrop
    <3>3. Balanced(p, u, n[u])
      BY <2>2, <3>2
    <3> QED BY <1>q, <2>2, <3>3 DEF Generated
  <2>7. n[u] + Occ(queue', up, Len(queue')) - Occ(queue', down, Len(queue')) = base[u]
    <3>1. PICK i \in Int, j \in Int : i = Occ(queue, up, Len(queue)) /\ j = Occ(queue, down, Len(queue))
      BY <1>r
    <3>2. PICK x \in Int, y \in Int : x = (IF queue[1] = up THEN 1 ELSE 0) /\ y = (IF queue[1] = down THEN 1 ELSE 0)
      OBVIOUS
    <3>3. PICK m \in Int : m = count[u]
      BY <2>2
    <3>4. n[u] = m + x - y
      BY <2>2, <2>4, <3>2, <3>3
    <3>5. Occ(queue', up, Len(queue')) = i - x /\ Occ(queue', down, Len(queue')) = j - y
      BY <2>5, <3>1, <3>2
    <3>6. base[u] = m + i - j
      BY <2>3, <3>1, <3>3
    <3>7. (m + x - y) + (i - x) - (j - y) = m + i - j
      OBVIOUS
    <3> QED BY <3>4, <3>5, <3>6, <3>7
  <2> QED BY <1>k, <2>1, <2>6, <2>7 DEF BaseInv
<1>5. ASSUME NEW h \in Groups PROVE ConfigInv(h)'
  <2>1. do_generate(vals[h], count)' = do_generate(vals'[h], count')
    BY <1>k DEF do_generate
  <2>2. CASE h = g
    <3>1. vals'[h] = ts /\ corresponds'[h] = do_generate(ts, n)
      BY <1>i, <1>k, <1>l, <2>2
    <3> QED BY <1>k, <1>n, <1>o, <2>1, <2>2, <3>1 DEF ConfigInv, Distinct
  <2>3. CASE h # g
    <3>1. vals'[h] = vals[h] /\ corresponds'[h] = corresponds[h]
      BY <1>k, <1>l, <2>3
    <3>2. ConfigInv(h)
      BY DEF IInv
    <3>3. {u \in Tuples : u.group = h /\ n[u] > 0} = {u \in Tuples : u.group = h /\ count[u] > 0}
      BY <1>e, <1>l, <2>3
    <3>4. \A u \in ToSet(vals[h]) : count[u] = n[u]
      BY <1>e, <1>l, <2>3, <3>2 DEF ConfigInv
    <3>5. do_generate(vals[h], count) = do_generate(vals[h], n)
      BY <3>4, GenerateSame
    <3> QED BY <1>k, <2>1, <3>1, <3>2, <3>3, <3>5 DEF ConfigInv
  <2> QED BY <2>2, <2>3
<1> QED BY <1>1, <1>2, <1>3, <1>4, <1>5 DEF IInv

------------------------------------------------------------------------------

LEMMA StepIInv == IInv /\ [Next]_vars => IInv'
<1> SUFFICES ASSUME IInv, [Next]_vars PROVE IInv'
  OBVIOUS
<1>1. ASSUME UNCHANGED <<type, queue, vals, count, corresponds, db, base>> PROVE IInv'
  <2>1. AggTypes' /\ ChainInv'
    BY <1>1 DEF IInv, AggTypes, ChainInv, Stored
  <2>2. ASSUME NEW f \in Aggs PROVE ExactInv(f)'
    BY <1>1 DEF IInv, ExactInv, InDb
  <2>3. ASSUME NEW t \in Tuples PROVE BaseInv(t)'
    BY <1>1 DEF IInv, BaseInv
  <2>4. ASSUME NEW g \in Groups PROVE ConfigInv(g)'
    BY <1>1, ConfigSame DEF IInv
  <2> QED BY <2>1, <2>2, <2>3, <2>4 DEF IInv
<1>2. ASSUME NEW t \in Tuples, NEW c \in {1, -1}, Derive(t, c) PROVE IInv'
  BY <1>2, DeriveStep
<1>3. CASE Cancel
  BY <1>3, CancelStep
<1>4. CASE ProcessFinal
  BY <1>4, ProcessFinalStep
<1>5. CASE AddToAggregate
  BY <1>5, AddToAggregateStep
<1>6. CASE EndIteration
  BY <1>1, <1>6 DEF EndIteration
<1>7. CASE Done
  BY <1>1, <1>7 DEF Done, vars, storeVars
<1>8. CASE UNCHANGED vars
  BY <1>1, <1>8 DEF vars, storeVars
<1> QED BY <1>2, <1>3, <1>4, <1>5, <1>6, <1>7, <1>8 DEF Next

\* The inductive invariant: what waits in generated_persistent_tuples leads from what
\* the database holds to what each agg_configuration corresponds to (generate), and
\* from the counts of its tuples to what the program has derived
\* (add_to_aggregate), however do_persistent_tuples cancels tuples against each other.
THEOREM AggregatesIInv == Spec => []IInv
BY InitIInv, StepIInv, PTL DEF Spec

\* Rules never see two aggregates of a group: an assertion is processed only when
\* the aggregate before it has been retracted (agg_configuration::generate).
THEOREM OneAggregate == Spec => []OneAggregateAtATime
<1>1. IInv => OneAggregateAtATime
  <2> SUFFICES ASSUME IInv, NEW f \in DOMAIN db
               PROVE  db[f] = 1 /\ \A h \in DOMAIN db : h.group = f.group => h = f
    BY DEF OneAggregateAtATime
  <2>1. db[f] = 1 /\ f.group \in Groups
    BY DEF IInv, AggTypes, ChainInv, Aggs
  <2>2. PICK g \in Groups : g = f.group
    BY <2>1
  <2>3. Stored(g) = {} \/ \E x : Stored(g) = {x}
    <3>1. Linked(queue, g, Stored(g), corresponds[g])
      BY DEF IInv, ChainInv
    <3>2. CASE Chain(queue, g) = {}
      <4>1. Optional(corresponds[g], g)
        BY ConfigShape DEF IInv
      <4> QED BY <3>1, <3>2, <4>1 DEF Linked, Optional
    <3>3. CASE Chain(queue, g) # {}
      <4>1. Chain(queue, g) \subseteq Nat
        BY DEF Chain, IInv, AggTypes
      <4>2. PICK i \in Chain(queue, g) : \A k \in Chain(queue, g) : i <= k
        BY <3>3, <4>1, LeastElement
      <4> QED BY <3>1, <4>2 DEF Linked
    <3> QED BY <3>2, <3>3
  <2>4. \A h \in DOMAIN db : h.group = g => h \in Stored(g)
    BY DEF Stored
  <2> QED BY <2>1, <2>2, <2>3, <2>4
<1> QED BY <1>1, AggregatesIInv, PTL

\* What agg_configuration::corresponds says is what the database holds once the
\* entries that wait have been processed or cancelled.
THEOREM Corresponds == Spec => []CorrespondsExact
<1>1. IInv => CorrespondsExact
  <2> SUFFICES ASSUME IInv,
                      NEW f \in DOMAIN db \cup {s.tpl : s \in {s \in ToSet(queue) : s.final}}
                                  \cup UNION {corresponds[g] : g \in Groups}
               PROVE  (IF f \in DOMAIN db THEN db[f] ELSE 0)
                        + Waiting(STuple(f, 1, TRUE)) - Waiting(STuple(f, -1, TRUE))
                        = (IF f \in corresponds[f.group] THEN 1 ELSE 0)
    BY DEF CorrespondsExact
  <2>1. f \in Aggs
    <3>1. \A s \in ToSet(queue) : s \in Entries
      BY DEF IInv, AggTypes, ToSet
    <3>2. \A s \in ToSet(queue) : s.final => s.tpl \in Aggs
      BY <3>1, EntryShape
    <3>3. DOMAIN db \subseteq Aggs /\ \A g \in Groups : corresponds[g] \subseteq Aggs
      BY DEF IInv, AggTypes
    <3> QED BY <3>2, <3>3
  <2>2. DOMAIN queue = 1 .. Len(queue)
    BY DEF IInv, AggTypes
  <2>3. /\ Waiting(STuple(f, 1, TRUE)) = Occ(queue, Final(f, 1), Len(queue))
        /\ Waiting(STuple(f, -1, TRUE)) = Occ(queue, Final(f, -1), Len(queue))
    BY <2>2 DEF Waiting, Occ, Final
  <2>4. ExactInv(f)
    BY <2>1 DEF IInv
  <2> QED BY <2>3, <2>4 DEF ExactInv, InDb
<1> QED BY <1>1, AggregatesIInv, PTL

\* Once the derivations are processed, the database holds one aggregate of each
\* group with contributions, of exactly those that were derived and not retracted,
\* in whatever order they came, cancelled and went.
THEOREM FinalsAreExact == Spec => []FinalExact
<1>1. IInv => FinalExact
  <2> SUFFICES ASSUME IInv, queue = <<>>, NEW g \in Groups
               PROVE  LET S == {t \in Tuples : t.group = g /\ base[t] > 0}
                          finals == {f \in DOMAIN db : f.group = g}
                      IN IF S = {} THEN finals = {}
                         ELSE \E f \in finals : finals = {f} /\ db[f] = 1 /\ IsAggregate(f, S)
    BY DEF FinalExact
  <2> DEFINE S == {t \in Tuples : t.group = g /\ base[t] > 0}
             finals == {f \in DOMAIN db : f.group = g}
  <2>1. finals = corresponds[g]
    <3>1. Chain(queue, g) = {}
      BY DEF Chain
    <3>2. Linked(queue, g, Stored(g), corresponds[g])
      BY DEF IInv, ChainInv
    <3> QED BY <3>1, <3>2 DEF Linked, Stored
  <2>2. ASSUME NEW t \in Tuples PROVE count[t] = base[t]
    <3>1. BaseInv(t) /\ Len(queue) = 0 /\ count[t] \in Nat
      BY DEF IInv, AggTypes
    <3>2. /\ Occ(queue, Contribution(t, 1), Len(queue)) = 0
          /\ Occ(queue, Contribution(t, -1), Len(queue)) = 0
      BY <3>1, OccZero
    <3> QED BY <3>1, <3>2 DEF BaseInv
  <2>3. /\ ToSet(vals[g]) = S /\ corresponds[g] = do_generate(vals[g], count)
        /\ vals[g] \in Seq(Tuples) /\ count \in [Tuples -> Nat] /\ type \in Types
        /\ \A f \in DOMAIN db : db[f] = 1
    BY <2>2 DEF IInv, ConfigInv, AggTypes, ChainInv
  <2> HIDE DEF finals
  <2>4. CASE S = {}
    <3>1. vals[g] = <<>>
      <4>1. \A i \in DOMAIN vals[g] : vals[g][i] \in ToSet(vals[g])
        BY <2>3, TupleFacts
      <4> QED BY <2>3, <2>4, <4>1
    <3>2. corresponds[g] = {}
      BY <2>3, <3>1 DEF do_generate
    <3> QED BY <2>1, <2>4, <3>2 DEF finals
  <2>5. CASE S # {}
    <3>1. vals[g] # <<>>
      BY <2>3, <2>5 DEF ToSet
    <3>2. PICK f \in Aggs : do_generate(vals[g], count) = {f}
      BY <2>3, <3>1, GenerateShape
    <3>3. IsAggregate(f, ToSet(vals[g]))
      <4>1. \A t \in ToSet(vals[g]) : count[t] = base[t]
        BY <2>2, <2>3
      <4> QED BY <2>3, <3>1, <3>2, <4>1, GenerateIsAggregate
    <3>4. finals = {f} /\ db[f] = 1 /\ IsAggregate(f, S)
      BY <2>1, <2>3, <3>2, <3>3 DEF finals
    <3> QED BY <2>5, <3>4 DEF finals
  <2> QED BY <2>4, <2>5 DEF finals
<1> QED BY <1>1, AggregatesIInv, PTL
==============================================================================
