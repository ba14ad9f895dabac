-------------------------- MODULE CollectionLemmas --------------------------
(***************************************************************************)
(* Lemmas about sequences that the proofs of several components rest on:    *)
(* recursion over 0..n, Filter, and the removal and insertion of elements.  *)
(* Induction is over the set of the numbers at which a statement holds.     *)
(***************************************************************************)
EXTENDS Collections, SequencesExt, SequenceTheorems, WellFoundedInduction, TLAPS

\* A set of natural numbers that is not empty has a smallest element.
LEMMA Smallest ==
    ASSUME NEW S, S \subseteq Nat, S # {}
    PROVE  \E m \in S : \A k \in S : m <= k
<1>1. PICK m \in S : \A k \in S : ~(<<k, m>> \in OpToRel(<, Nat))
    BY WFMin, NatLessThanWellFounded, Zenon
<1>2. ASSUME NEW k \in S, k < m  PROVE <<k, m>> \in OpToRel(<, Nat)
    BY <1>2 DEF OpToRel
<1>3. \A k \in S : ~(k < m)  BY <1>1, <1>2
<1> QED  BY <1>3

\* Induction over 0..n, for the set of the numbers at which a statement holds.
LEMMA IntervalInduction ==
    ASSUME NEW n \in Nat, NEW S, 0 \in S,
           \A i \in 1..n : i - 1 \in S => i \in S
    PROVE  \A i \in 0..n : i \in S
<1> DEFINE Bad == {i \in 0..n : i \notin S}
<1>1. SUFFICES ASSUME Bad # {}  PROVE FALSE
    OBVIOUS
<1>2. PICK m \in Bad : \A k \in Bad : m <= k
  <2>1. Bad \subseteq Nat  OBVIOUS
  <2> HIDE DEF Bad
  <2> QED  BY <1>1, <2>1, Smallest
<1>3. m \in 1..n  OBVIOUS
<1>4. m - 1 \notin Bad
  <2> HIDE DEF Bad
  <2> QED  BY <1>2, <1>3
<1> QED  BY <1>3, <1>4

\* The run of a loop with n rounds, G[i] being what round i makes of the value.
Runs(f, n, b, G) == f[0] = b /\ \A i \in 1..n : f[i] = G[i][f[i - 1]]

LEMMA RecursionOnInterval ==
    ASSUME NEW S, NEW b \in S, NEW n \in Nat, NEW G \in [1..n -> [S -> S]]
    PROVE  \E f \in [0..n -> S] : Runs(f, n, b, G)
<1> DEFINE Good(m) == \E f \in [0..m -> S] : Runs(f, m, b, G)
           Goods == {m \in 0..n : Good(m)}
<1>1. 0 \in Goods
  <2>1. [i \in 0..0 |-> b] \in [0..0 -> S] /\ Runs([i \in 0..0 |-> b], 0, b, G)
      BY DEF Runs
  <2> QED  BY <2>1
<1>2. ASSUME NEW m \in 1..n, m - 1 \in Goods  PROVE m \in Goods
  <2>2. PICK g \in [0..(m - 1) -> S] : Runs(g, m - 1, b, G)  BY <1>2
  <2> DEFINE f == [i \in 0..m |-> IF i = 0 THEN b ELSE G[i][g[i - 1]]]
  <2>3. ASSUME NEW i \in 1..m  PROVE i - 1 \in 0..(m - 1) /\ G[i][g[i - 1]] \in S
    <3>1. i \in 1..n /\ i - 1 \in 0..(m - 1)  OBVIOUS
    <3>2. g[i - 1] \in S /\ G[i] \in [S -> S]  BY <3>1
    <3> QED  BY <3>1, <3>2
  <2>4. f \in [0..m -> S]  BY <2>3
  <2>5. ASSUME NEW i \in 0..(m - 1)  PROVE f[i] = g[i]
    BY <2>2 DEF Runs
  <2>6. Runs(f, m, b, G)
    <3>1. \A i \in 1..m : i - 1 \in 0..(m - 1) /\ i \in 0..m /\ i # 0  OBVIOUS
    <3>2. \A i \in 1..m : f[i] = G[i][g[i - 1]] /\ f[i - 1] = g[i - 1]  BY <3>1, <2>5
    <3>3. f[0] = b  OBVIOUS
    <3> HIDE DEF f
    <3> QED  BY <3>2, <3>3 DEF Runs
  <2> HIDE DEF f
  <2>7. Good(m)  BY <2>4, <2>6
  <2> QED  BY <2>7
<1> HIDE DEF Goods
<1>3. \A m \in 0..n : m \in Goods
  <2>1. \A m \in 1..n : m - 1 \in Goods => m \in Goods  BY <1>2
  <2> QED  BY <1>1, <2>1, IntervalInduction
<1> QED  BY <1>3 DEF Goods

\* What stands in r stands in s, and in the same order.
InOrderOf(r, s) ==
    \A a, b \in DOMAIN r : a < b => \E i, j \in DOMAIN s : i < j /\ s[i] = r[a] /\ s[j] = r[b]

\* The values of the loop in Filter.
Filtering(f, s, S) ==
    /\ f[0] = <<>>
    /\ \A i \in 1..Len(s) : f[i] = IF s[i] \in S THEN Append(f[i - 1], s[i]) ELSE f[i - 1]

LEMMA FilterRuns ==
    ASSUME NEW T, NEW s \in Seq(T), NEW S
    PROVE  \E f \in [0..Len(s) -> Seq(T)] : Filtering(f, s, S) /\ Filter(s, S) = f[Len(s)]
<1> DEFINE n == Len(s)
           G == [i \in 1..n |-> [x \in Seq(T) |-> IF s[i] \in S THEN Append(x, s[i]) ELSE x]]
           Rec(f) == f = [i \in 0..n |-> IF i = 0 THEN <<>> ELSE IF s[i] \in S THEN Append(f[i - 1], s[i]) ELSE f[i - 1]]
           kept == CHOOSE f : Rec(f)
<1>1. G \in [1..n -> [Seq(T) -> Seq(T)]] /\ n \in Nat /\ <<>> \in Seq(T)
  OBVIOUS
<1>2. PICK g \in [0..n -> Seq(T)] : Runs(g, n, <<>>, G)
  <2> HIDE DEF G, n
  <2> QED  BY <1>1, RecursionOnInterval
<1>3. \A i \in 1..n : g[i] = IF s[i] \in S THEN Append(g[i - 1], s[i]) ELSE g[i - 1]
  <2>1. \A i \in 1..n : g[i - 1] \in Seq(T)  OBVIOUS
  <2> QED  BY <2>1, <1>2 DEF Runs
<1>4. \A i \in 0..n : g[i] = IF i = 0 THEN <<>> ELSE IF s[i] \in S THEN Append(g[i - 1], s[i]) ELSE g[i - 1]
  <2>1. g[0] = <<>>  BY <1>2 DEF Runs
  <2> HIDE DEF G, n
  <2>2. \A i \in 0..n : i = 0 \/ i \in 1..n  BY <1>1
  <2> QED  BY <1>3, <2>1, <2>2
<1>5. Rec(g)
  <2> HIDE DEF G, n
  <2> QED  BY <1>4
<1>6. Rec(kept)
  <2> HIDE DEF Rec
  <2> QED BY <1>5, Zenon
<1>7. Filter(s, S) = kept[n]
  BY Zenon DEF Filter
<1>8. kept[n] = g[n]
  <2> DEFINE Same == {i \in 0..n : kept[i] = g[i]}
  <2>0. n \in Nat /\ 0 \in 0..n /\ n \in 0..n /\ \A i \in 1..n : i \in 0..n /\ i # 0
      BY <1>1
  <2>1. /\ kept[0] = <<>> /\ g[0] = <<>>
        /\ \A i \in 1..n : kept[i] = IF s[i] \in S THEN Append(kept[i - 1], s[i]) ELSE kept[i - 1]
    <3>1. kept = [i \in 0..n |-> IF i = 0 THEN <<>>
                                 ELSE IF s[i] \in S THEN Append(kept[i - 1], s[i]) ELSE kept[i - 1]]
        BY <1>6
    <3> HIDE DEF kept, G, n, Rec
    <3> QED  BY <1>2, <2>0, <3>1 DEF Runs
  <2> HIDE DEF kept, G, Rec, n
  <2>2. 0 \in Same /\ \A i \in 1..n : i - 1 \in Same => i \in Same
    BY <2>0, <1>3, <2>1
  <2> HIDE DEF Same
  <2>3. n \in Same
    <3>1. \A i \in 0..n : i \in Same  BY <2>0, <2>2, IntervalInduction
    <3> QED BY <2>0, <3>1
  <2> USE DEF Same
  <2> QED  BY <2>3
<1> HIDE DEF kept, G, Rec
<1> QED  BY <1>2, <1>3, <1>7, <1>8 DEF Runs, Filtering

\* Filter keeps the elements of s that are in S, in the order they have in s.
LEMMA FilterProperties ==
    ASSUME NEW T, NEW s \in Seq(T), NEW S
    PROVE  /\ Filter(s, S) \in Seq(T)
           /\ ToSet(Filter(s, S)) = ToSet(s) \cap S
           /\ InOrderOf(Filter(s, S), s)
<1>1a. PICK f \in [0..Len(s) -> Seq(T)] : Filtering(f, s, S) /\ Filter(s, S) = f[Len(s)]
    BY FilterRuns
<1>1. /\ f[0] = <<>>
      /\ \A i \in 1..Len(s) : f[i] = IF s[i] \in S THEN Append(f[i - 1], s[i]) ELSE f[i - 1]
      /\ Filter(s, S) = f[Len(s)]
    BY <1>1a DEF Filtering
<1> DEFINE n == Len(s)
<1>0. n \in Nat /\ DOMAIN s = 1..n  OBVIOUS
<1> DEFINE Exact(m)   == \A x \in T : x \in ToSet(f[m]) <=> x \in S /\ \E i \in 1..m : s[i] = x
           Ordered(m) == \A a, b \in DOMAIN f[m] : a < b =>
                            \E i, j \in 1..m : i < j /\ s[i] = f[m][a] /\ s[j] = f[m][b]
           Good       == {m \in 0..n : Exact(m) /\ Ordered(m)}
<1>2. 0 \in Good
  <2>1. ToSet(f[0]) = {} /\ DOMAIN f[0] = {}  BY <1>1 DEF ToSet
  <2> QED  BY <1>0, <2>1
<1>3. ASSUME NEW m \in 1..n, m - 1 \in Good  PROVE m \in Good
  <2> DEFINE q == f[m - 1]
             r == f[m]
  <2>1. q \in Seq(T) /\ s[m] \in T /\ m \in 0..n /\ m - 1 \in 0..n  BY <1>0
  <2>2. Exact(m - 1) /\ Ordered(m - 1)  BY <1>3
  <2>3. \A i \in 1..(m - 1) : i \in 1..m  BY <1>0
  <2>4. \A i \in 1..m : i \in 1..(m - 1) \/ i = m  BY <1>0
  <2>5. CASE s[m] \notin S
    <3>1. r = q  BY <1>1, <2>5
    <3>2. Exact(m)  BY <2>1, <2>2, <2>3, <2>4, <2>5, <3>1
    <3>3. ASSUME NEW a \in DOMAIN r, NEW b \in DOMAIN r, a < b
          PROVE  \E i, j \in 1..m : i < j /\ s[i] = r[a] /\ s[j] = r[b]
      <4>1. PICK i \in 1..(m - 1), j \in 1..(m - 1) : i < j /\ s[i] = q[a] /\ s[j] = q[b]
          BY <2>2, <3>1, <3>3
      <4> QED  BY <2>3, <3>1, <4>1
    <3> QED  BY <2>1, <3>2, <3>3
  <2>6. CASE s[m] \in S
    <3>1. r = Append(q, s[m])  BY <1>1, <2>6
    <3>2. /\ DOMAIN r = 1..(Len(q) + 1) /\ DOMAIN q = 1..Len(q) /\ Len(q) \in Nat
          /\ \A a \in DOMAIN q : r[a] = q[a]
          /\ r[Len(q) + 1] = s[m]
        BY <2>1, <3>1, AppendProperties
    <3>3. ToSet(r) = ToSet(q) \cup {s[m]}
      <4> HIDE DEF q, r
      <4>1. \A a \in DOMAIN r : a \in DOMAIN q \/ a = Len(q) + 1  BY <3>2
      <4>2. DOMAIN q \subseteq DOMAIN r /\ Len(q) + 1 \in DOMAIN r  BY <3>2
      <4> QED  BY <3>2, <4>1, <4>2 DEF ToSet
    <3>4. Exact(m)  BY <2>1, <2>2, <2>3, <2>4, <2>6, <3>3
    <3>5. ASSUME NEW a \in DOMAIN r, NEW b \in DOMAIN r, a < b
          PROVE  \E i, j \in 1..m : i < j /\ s[i] = r[a] /\ s[j] = r[b]
      <4>1. CASE b \in DOMAIN q
        <5>1. a \in DOMAIN q  BY <3>2, <3>5, <4>1
        <5>2. PICK i \in 1..(m - 1), j \in 1..(m - 1) : i < j /\ s[i] = q[a] /\ s[j] = q[b]
            BY <2>2, <3>5, <4>1, <5>1
        <5> QED  BY <2>3, <3>2, <4>1, <5>1, <5>2
      <4>2. CASE b \notin DOMAIN q
        <5>1. b = Len(q) + 1 /\ a \in DOMAIN q  BY <3>2, <3>5, <4>2
        <5>2. q[a] \in ToSet(q) /\ q[a] \in T  BY <2>1, <5>1 DEF ToSet
        <5>3. PICK i \in 1..(m - 1) : s[i] = q[a]  BY <2>2, <5>2
        <5>4. i < m /\ i \in 1..m /\ m \in 1..m  BY <1>0
        <5> QED  BY <3>2, <5>1, <5>3, <5>4
      <4> QED  BY <4>1, <4>2
    <3> QED  BY <2>1, <3>4, <3>5
  <2> QED  BY <2>5, <2>6
<1> HIDE DEF Good
<1>4. n \in Good
  <2>1. \A m \in 1..n : m - 1 \in Good => m \in Good  BY <1>3
  <2>2. \A m \in 0..n : m \in Good
    <3> HIDE DEF n
    <3> QED  BY <1>0, <1>2, <2>1, IntervalInduction
  <2> QED  BY <1>0, <2>2
<1>5. Exact(n) /\ Ordered(n) /\ f[n] \in Seq(T)  BY <1>0, <1>4 DEF Good
<1>6. ToSet(f[n]) = ToSet(s) \cap S
  <2>1. ToSet(f[n]) \subseteq T /\ ToSet(s) \subseteq T  BY <1>5 DEF ToSet
  <2>2. ToSet(s) = {s[i] : i \in 1..n}  BY <1>0 DEF ToSet
  <2> HIDE DEF n
  <2> QED  BY <1>5, <2>1, <2>2
<1>7. InOrderOf(f[n], s)
  <2>1. \A a, b \in DOMAIN f[n] : a < b => \E i, j \in DOMAIN s : i < j /\ s[i] = f[n][a] /\ s[j] = f[n][b]
    <3>1. Ordered(n)  BY <1>5
    <3> HIDE DEF n
    <3> QED  BY <1>0, <3>1
  <2> QED  BY <2>1, Zenon DEF InOrderOf
<1> QED  BY <1>1, <1>5, <1>6, <1>7

-----------------------------------------------------------------------------
\* Leaving out position i closes the gap and changes nothing else.
LEMMA RemoveAtProperties ==
    ASSUME NEW S, NEW s \in Seq(S), NEW i \in 1..Len(s)
    PROVE  /\ RemoveAt(s, i) \in Seq(S)
           /\ Len(RemoveAt(s, i)) = Len(s) - 1
           /\ \A j \in 1..(Len(s) - 1) :
                RemoveAt(s, i)[j] = IF j < i THEN s[j] ELSE s[j + 1]
  <1> DEFINE before == SubSeq(s, 1, i - 1)
             after  == SubSeq(s, i + 1, Len(s))
  <1>1. /\ before \in Seq(S) /\ Len(before) = i - 1
        /\ \A j \in 1..(i - 1) : before[j] = s[j]
    OBVIOUS
  <1>2. /\ after \in Seq(S) /\ Len(after) = Len(s) - i
        /\ \A j \in 1..(Len(s) - i) : after[j] = s[i + j]
    OBVIOUS
  <1>3. /\ before \o after \in Seq(S)
        /\ Len(before \o after) = Len(s) - 1
        /\ \A j \in 1..(Len(s) - 1) :
             (before \o after)[j] = IF j < i THEN before[j]
                                             ELSE after[j - (i - 1)]
    <2> HIDE DEF before, after
    <2>1. /\ before \o after \in Seq(S)
          /\ Len(before \o after) = Len(before) + Len(after)
          /\ \A j \in 1..(Len(before) + Len(after)) :
               (before \o after)[j] = IF j <= Len(before) THEN before[j]
                                                          ELSE after[j - Len(before)]
      BY <1>1, <1>2, ConcatProperties
    <2>2. Len(before) + Len(after) = Len(s) - 1 /\ Len(before) = i - 1
      BY <1>1, <1>2
    <2>3. \A j \in 1..(Len(s) - 1) : j < i <=> j <= i - 1
      OBVIOUS
    <2> QED
      BY <2>1, <2>2, <2>3
  <1>4. ASSUME NEW j \in 1..(Len(s) - 1)
        PROVE  (before \o after)[j] = IF j < i THEN s[j] ELSE s[j + 1]
    <2> HIDE DEF before, after
    <2>1. CASE j < i
      BY <2>1, <1>1, <1>3
    <2>2. CASE ~(j < i)
      <3>1. j - (i - 1) \in 1..(Len(s) - i)
        BY <2>2
      <3>2. after[j - (i - 1)] = s[j + 1]
        BY <3>1, <1>2
      <3> QED
        BY <2>2, <3>2, <1>3
    <2> QED
      BY <2>1, <2>2
  <1> QED
    BY <1>3, <1>4 DEF RemoveAt

\* RemoveFirst takes one element out of a sequence without duplicates.
LEMMA RemoveFirstProperties ==
    ASSUME NEW T, NEW s \in Seq(T), NEW e, IsInjective(s)
    PROVE  /\ RemoveFirst(s, e) \in Seq(T)
           /\ ToSet(RemoveFirst(s, e)) = ToSet(s) \ {e}
           /\ InOrderOf(RemoveFirst(s, e), s)
           /\ IsInjective(RemoveFirst(s, e))
           /\ Len(RemoveFirst(s, e)) <= Len(s)
<1>0. DOMAIN s = 1..Len(s) /\ Len(s) \in Nat  OBVIOUS
<1>1. CASE ~ \E i \in 1..Len(s) : s[i] = e
  <2>1. RemoveFirst(s, e) = s  BY <1>1 DEF RemoveFirst
  <2>2. e \notin ToSet(s)  BY <1>0, <1>1 DEF ToSet
  <2> QED  BY <1>0, <2>1, <2>2 DEF InOrderOf
<1>2. CASE \E i \in 1..Len(s) : s[i] = e
  <2> DEFINE I == {i \in 1..Len(s) : s[i] = e}
             i == CHOOSE x \in I : \A y \in I : x <= y
             t == RemoveAt(s, i)
  <2>1. PICK k \in 1..Len(s) : s[k] = e  BY <1>2
  <2>2. I = {k}  BY <1>0, <2>1 DEF IsInjective
  <2>3. i = k
    <3>1. k \in I /\ \A y \in I : k <= y  BY <2>2
    <3> HIDE DEF I
    <3>2. i \in I  BY <3>1
    <3> QED  BY <2>2, <3>2
  <2>4. RemoveFirst(s, e) = t  BY <1>2, <2>1, Zenon DEF RemoveFirst, SelectInSeq, Min
  <2> HIDE DEF i, I
  <2>5. /\ t \in Seq(T) /\ Len(t) = Len(s) - 1
        /\ \A j \in 1..(Len(s) - 1) : t[j] = IF j < k THEN s[j] ELSE s[j + 1]
      BY <2>3, RemoveAtProperties
  <2> HIDE DEF t
  <2> DEFINE at(j) == IF j < k THEN j ELSE j + 1
  <2>6. /\ DOMAIN t = 1..(Len(s) - 1)
        /\ \A j \in DOMAIN t : at(j) \in DOMAIN s /\ at(j) # k /\ t[j] = s[at(j)]
        /\ \A j, l \in DOMAIN t : j < l => at(j) < at(l)
      BY <1>0, <2>5
  <2>7. \A j \in DOMAIN s : j # k => \E l \in DOMAIN t : at(l) = j
    <3> SUFFICES ASSUME NEW j \in DOMAIN s, j # k  PROVE \E l \in DOMAIN t : at(l) = j
        OBVIOUS
    <3>1. CASE j < k  BY <1>0, <2>6, <3>1
    <3>2. CASE j > k
      <4>1. j - 1 \in DOMAIN t /\ at(j - 1) = j  BY <1>0, <2>6, <3>2
      <4> QED  BY <4>1
    <3> QED  BY <1>0, <3>1, <3>2
  <2> HIDE DEF at
  <2>8. ToSet(t) = ToSet(s) \ {e}
    <3>1. ASSUME NEW j \in DOMAIN t  PROVE t[j] \in ToSet(s) \ {e}
        BY <1>0, <2>1, <2>6 DEF ToSet, IsInjective
    <3>2. ASSUME NEW j \in DOMAIN s, s[j] # e  PROVE s[j] \in ToSet(t)
        BY <2>1, <2>6, <2>7, <3>2 DEF ToSet
    <3> QED  BY <3>1, <3>2 DEF ToSet
  <2>9. InOrderOf(t, s)  BY <2>6 DEF InOrderOf
  <2>10. IsInjective(t)
    <3>1. ASSUME NEW j \in DOMAIN t, NEW l \in DOMAIN t, t[j] = t[l], j < l  PROVE FALSE
        BY <1>0, <2>6, <3>1 DEF IsInjective
    <3> QED  BY <2>6, <3>1 DEF IsInjective
  <2> QED  BY <1>0, <2>4, <2>5, <2>8, <2>9, <2>10
<1> QED  BY <1>1, <1>2

\* What stands in order of a sequence without duplicates has none either.
LEMMA InOrderInjective ==
    ASSUME NEW T, NEW s \in Seq(T), NEW r \in Seq(T), IsInjective(s), InOrderOf(r, s)
    PROVE  IsInjective(r)
<1>1. ASSUME NEW a \in DOMAIN r, NEW b \in DOMAIN r, r[a] = r[b], a < b  PROVE FALSE
  <2>1. PICK i \in DOMAIN s, j \in DOMAIN s : i < j /\ s[i] = r[a] /\ s[j] = r[b]
      BY <1>1 DEF InOrderOf
  <2>2. i \in Int /\ j \in Int  OBVIOUS
  <2> QED  BY <1>1, <2>1, <2>2 DEF IsInjective
<1>2. \A a, b \in DOMAIN r : a < b \/ b < a \/ a = b  OBVIOUS
<1> QED  BY <1>1, <1>2 DEF IsInjective

\* InsertAt makes room at position i and changes nothing else.
LEMMA InsertAtProperties ==
    ASSUME NEW T, NEW s \in Seq(T), NEW i \in 1..(Len(s) + 1), NEW e \in T
    PROVE  /\ InsertAt(s, i, e) \in Seq(T)
           /\ Len(InsertAt(s, i, e)) = Len(s) + 1
           /\ \A j \in 1..(Len(s) + 1) :
                InsertAt(s, i, e)[j] = IF j < i THEN s[j] ELSE IF j = i THEN e ELSE s[j - 1]
           /\ ToSet(InsertAt(s, i, e)) = ToSet(s) \cup {e}
           /\ IsInjective(s) /\ e \notin ToSet(s) => IsInjective(InsertAt(s, i, e))
<1> DEFINE before == SubSeq(s, 1, i - 1)
           after  == SubSeq(s, i, Len(s))
           t      == before \o <<e>> \o after
           n      == Len(s)
<1>0. n \in Nat /\ DOMAIN s = 1..n  OBVIOUS
<1>1. /\ before \in Seq(T) /\ Len(before) = i - 1
      /\ \A j \in 1..(i - 1) : before[j] = s[j]
  OBVIOUS
<1>2. /\ after \in Seq(T) /\ Len(after) = n - i + 1
      /\ \A j \in 1..(n - i + 1) : after[j] = s[i + j - 1]
  OBVIOUS
<1>3. /\ t \in Seq(T) /\ Len(t) = n + 1
      /\ \A j \in 1..(n + 1) : t[j] = IF j < i THEN before[j] ELSE IF j = i THEN e ELSE after[j - i]
  <2> DEFINE u == before \o <<e>>
  <2>1. /\ u \in Seq(T) /\ Len(u) = i
        /\ \A j \in 1..i : u[j] = IF j < i THEN before[j] ELSE e
    <3> HIDE DEF before, after, n
    <3> QED  BY <1>0, <1>1
  <2> HIDE DEF before, after, n, u
  <2>2. /\ u \o after \in Seq(T) /\ Len(u \o after) = n + 1
        /\ \A j \in 1..(n + 1) : (u \o after)[j] = IF j <= i THEN u[j] ELSE after[j - i]
    <3>1. /\ u \o after \in Seq(T) /\ Len(u \o after) = Len(u) + Len(after)
          /\ \A j \in 1..(Len(u) + Len(after)) :
                (u \o after)[j] = IF j <= Len(u) THEN u[j] ELSE after[j - Len(u)]
        BY <1>2, <2>1, ConcatProperties
    <3>2. Len(u) + Len(after) = n + 1 /\ Len(u) = i  BY <1>0, <1>2, <2>1
    <3> QED  BY <3>1, <3>2
  <2>3. t = u \o after  BY DEF u
  <2> HIDE DEF t
  <2>4. \A j \in 1..(n + 1) : j <= i => j \in 1..i  BY <1>0
  <2> QED  BY <1>0, <2>1, <2>2, <2>3, <2>4
<1> HIDE DEF before, after
<1>4. ASSUME NEW j \in 1..(n + 1)
      PROVE  t[j] = IF j < i THEN s[j] ELSE IF j = i THEN e ELSE s[j - 1]
  <2>1. CASE j < i
    <3>1. j \in 1..(i - 1)  BY <2>1
    <3> QED  BY <1>1, <1>3, <2>1, <3>1
  <2>2. CASE j = i  BY <1>3, <2>2
  <2>3. CASE j > i
    <3>1. j - i \in 1..(n - i + 1) /\ i + (j - i) - 1 = j - 1  BY <2>3
    <3> QED  BY <1>2, <1>3, <2>3, <3>1
  <2> HIDE DEF t
  <2>4. j < i \/ j = i \/ j > i  BY <1>0
  <2> QED  BY <2>1, <2>2, <2>3, <2>4
<1>5. InsertAt(s, i, e) = t  BY DEF InsertAt, before, after
<1> HIDE DEF t, n
<1>6. DOMAIN t = 1..(n + 1)  BY <1>3
<1>7. ToSet(t) = ToSet(s) \cup {e}
  <2>1. ASSUME NEW j \in DOMAIN t  PROVE t[j] \in ToSet(s) \cup {e}
    <3>1. j < i => j \in DOMAIN s  BY <1>0, <1>6
    <3>2. j > i => j - 1 \in DOMAIN s  BY <1>0, <1>6
    <3> QED  BY <1>4, <1>6, <3>1, <3>2 DEF ToSet
  <2>2. t[i] = e /\ i \in DOMAIN t  BY <1>0, <1>4, <1>6 DEF n
  <2>3. ASSUME NEW j \in DOMAIN s  PROVE s[j] \in ToSet(t)
    <3>1. CASE j < i
      <4>1. j \in DOMAIN t /\ t[j] = s[j]  BY <1>0, <1>4, <1>6, <3>1
      <4> QED  BY <4>1 DEF ToSet
    <3>2. CASE j >= i
      <4>1. j + 1 \in DOMAIN t /\ t[j + 1] = s[j]
        <5>1. j + 1 \in 1..(n + 1) /\ ~(j + 1 < i) /\ j + 1 # i /\ (j + 1) - 1 = j  BY <1>0, <3>2
        <5> QED  BY <1>4, <1>6, <5>1
      <4> QED  BY <4>1 DEF ToSet
    <3> QED  BY <1>0, <3>1, <3>2
  <2> QED  BY <2>1, <2>2, <2>3 DEF ToSet
<1>8. ASSUME IsInjective(s), e \notin ToSet(s)  PROVE IsInjective(t)
  <2>1. ASSUME NEW a \in DOMAIN t, NEW b \in DOMAIN t, a < b, t[a] = t[b]  PROVE FALSE
    <3>1. \A j \in DOMAIN s : s[j] # e  BY <1>8 DEF ToSet
    <3> DEFINE from(j) == IF j < i THEN j ELSE j - 1
    <3>2. \A j \in DOMAIN t : j # i => from(j) \in DOMAIN s /\ t[j] = s[from(j)]  BY <1>0, <1>4, <1>6
    <3>3. a # i /\ b # i => from(a) # from(b)  BY <1>6, <2>1
    <3>4. t[i] = e  BY <1>0, <1>4 DEF n
    <3> HIDE DEF from
    <3>5. a # i /\ b # i  BY <2>1, <3>1, <3>2, <3>4
    <3> QED  BY <1>8, <2>1, <3>2, <3>3, <3>5 DEF IsInjective
  <2>2. \A a, b \in DOMAIN t : a < b \/ b < a \/ a = b  BY <1>0, <1>6
  <2> QED  BY <2>1, <2>2 DEF IsInjective
<1> QED  BY <1>3, <1>4, <1>5, <1>7, <1>8 DEF n

\* The head of a sequence without duplicates is not in its tail.
LEMMA TailProperties ==
    ASSUME NEW T, NEW s \in Seq(T), s # <<>>, IsInjective(s)
    PROVE  /\ Head(s) \in ToSet(s) /\ Head(s) \in T
           /\ Tail(s) \in Seq(T) /\ IsInjective(Tail(s))
           /\ ToSet(Tail(s)) = ToSet(s) \ {Head(s)}
<1>1. /\ Len(s) \in Nat \ {0} /\ DOMAIN s = 1..Len(s) /\ Head(s) = s[1] /\ Head(s) \in T
      /\ Tail(s) \in Seq(T) /\ Len(Tail(s)) = Len(s) - 1
      /\ \A i \in 1..Len(Tail(s)) : Tail(s)[i] = s[i + 1]
    BY HeadTailProperties
<1>2. DOMAIN Tail(s) = 1..(Len(s) - 1)  BY <1>1
<1>3. \A i \in DOMAIN Tail(s) : i + 1 \in DOMAIN s /\ i + 1 # 1 /\ Tail(s)[i] = s[i + 1]
    BY <1>1, <1>2
<1>4. \A j \in DOMAIN s : j = 1 \/ (j - 1 \in DOMAIN Tail(s) /\ s[j] = Tail(s)[j - 1])
    BY <1>1, <1>2
<1>5. 1 \in DOMAIN s  BY <1>1
<1>6. IsInjective(Tail(s))
  <2>1. ASSUME NEW i \in DOMAIN Tail(s), NEW j \in DOMAIN Tail(s), Tail(s)[i] = Tail(s)[j]  PROVE i = j
    <3>1. i + 1 = j + 1  BY <1>3, <2>1 DEF IsInjective
    <3>2. i \in Int /\ j \in Int  BY <1>2
    <3> QED  BY <3>1, <3>2
  <2> QED  BY <2>1 DEF IsInjective
<1>7. ToSet(Tail(s)) = ToSet(s) \ {Head(s)}
  <2>1. \A i \in DOMAIN Tail(s) : Tail(s)[i] \in ToSet(s) /\ Tail(s)[i] # s[1]
      BY <1>3, <1>5 DEF ToSet, IsInjective
  <2>2. \A j \in DOMAIN s : s[j] # s[1] => s[j] \in ToSet(Tail(s))
      BY <1>4 DEF ToSet
  <2> QED  BY <1>1, <2>1, <2>2 DEF ToSet
<1>8. Head(s) \in ToSet(s)  BY <1>1, <1>5 DEF ToSet
<1> QED  BY <1>1, <1>6, <1>7, <1>8

\* A newcomer at the front.
LEMMA ConsProperties ==
    ASSUME NEW T, NEW s \in Seq(T), NEW e \in T
    PROVE  /\ <<e>> \o s \in Seq(T)
           /\ ToSet(<<e>> \o s) = ToSet(s) \cup {e}
           /\ IsInjective(s) /\ e \notin ToSet(s) => IsInjective(<<e>> \o s)
<1> DEFINE t == <<e>> \o s
<1>1. /\ t \in Seq(T) /\ DOMAIN t = 1..(Len(s) + 1) /\ DOMAIN s = 1..Len(s) /\ Len(s) \in Nat
      /\ t[1] = e /\ \A i \in 1..Len(s) : t[i + 1] = s[i]
    OBVIOUS
<1> HIDE DEF t
<1>2. \A j \in DOMAIN t : j = 1 \/ (j - 1 \in DOMAIN s /\ t[j] = s[j - 1])
    BY <1>1
<1>3. 1 \in DOMAIN t /\ \A i \in DOMAIN s : i + 1 \in DOMAIN t  BY <1>1
<1>4. ToSet(t) = ToSet(s) \cup {e}  BY <1>1, <1>2, <1>3 DEF ToSet
<1>5. ASSUME IsInjective(s), e \notin ToSet(s)  PROVE IsInjective(t)
  <2>1. ASSUME NEW i \in DOMAIN t, NEW j \in DOMAIN t, t[i] = t[j]  PROVE i = j
    <3>1. \A k \in DOMAIN s : s[k] # e  BY <1>5 DEF ToSet
    <3>2. i = 1 <=> j = 1  BY <1>1, <1>2, <2>1, <3>1
    <3>3. i # 1 /\ j # 1 => i - 1 = j - 1  BY <1>2, <1>5, <2>1 DEF IsInjective
    <3>4. i \in Int /\ j \in Int  BY <1>1
    <3> QED  BY <3>2, <3>3, <3>4
  <2> QED  BY <2>1 DEF IsInjective
<1> QED  BY <1>1, <1>4, <1>5 DEF t

\* An element that is not in a sequence can be appended to it.
LEMMA AppendedLast ==
    ASSUME NEW T, NEW q \in Seq(T), NEW e \in T, IsInjective(q), e \notin ToSet(q)
    PROVE  /\ Append(q, e) \in Seq(T)
           /\ IsInjective(Append(q, e))
           /\ ToSet(Append(q, e)) = ToSet(q) \cup {e}
<1> DEFINE t == Append(q, e)
<1>1. /\ DOMAIN q = 1..Len(q) /\ DOMAIN t = 1..(Len(q) + 1) /\ Len(q) \in Nat
      /\ \A i \in 1..Len(q) : t[i] = q[i]
      /\ t[Len(q) + 1] = e /\ t \in Seq(T)
    BY AppendProperties
<1> HIDE DEF t
<1>2. DOMAIN t = DOMAIN q \cup {Len(q) + 1}  BY <1>1
<1>3. \A i \in DOMAIN q : q[i] # e  BY DEF ToSet
<1>4. ToSet(t) = ToSet(q) \cup {e}  BY <1>1, <1>2 DEF ToSet
<1>5. IsInjective(t)  BY <1>1, <1>2, <1>3 DEF IsInjective
<1> QED  BY <1>1, <1>4, <1>5 DEF t
=============================================================================
