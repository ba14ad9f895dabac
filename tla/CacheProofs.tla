----------------------------- MODULE CacheProofs -----------------------------
(***************************************************************************)
(* Proofs about the cache: the store's sum, index and order describe what   *)
(* is stored, and a key is marked as refreshed exactly while it is.         *)
(*                                                                         *)
(* The first half is about the operators that make one store out of         *)
(* another; sets, deletions, evictions and sweeps are made of them, and no  *)
(* action changes the store in any other way. So what holds of every store  *)
(* they make holds between any two awaits.                                 *)
(***************************************************************************)
EXTENDS CacheManager, CollectionLemmas, FiniteSetTheorems

-----------------------------------------------------------------------------
\* One store, and what holds of it: its parts have their types, the order lists
\* the keys that are stored once each, the index has them under their tags, and
\* the sum is what they take.
Entries == [version : Versions, live : BOOLEAN]

Stores == [entry  : [Keys -> Entries \cup {Absent}], order : Seq(Keys), usage : Nat,
           tagged : [Tags -> SUBSET Keys]]

Holding(s) == {k \in Keys : s.entry[k] # Absent}
UnitsOf(s, k) == {k} \X (1..SizeOf[s.entry[k].version])
UnitsIn(s) == UNION {UnitsOf(s, k) : k \in Holding(s)}

Listed(s) == IsInjective(s.order) /\ ToSet(s.order) = Holding(s)
Indexed(s) == \A t \in Tags : s.tagged[t] = {k \in Holding(s) : t \in TagsOf[k]}
Summed(s) == IsFiniteSet(UnitsIn(s)) /\ s.usage = Cardinality(UnitsIn(s))

Sound(s) == s \in Stores /\ Listed(s) /\ Indexed(s) /\ Summed(s)

\* An entry takes as many units as the size of its value.
LEMMA UnitsOfEntry ==
    ASSUME NEW k, NEW n \in Nat
    PROVE  IsFiniteSet({k} \X (1..n)) /\ Cardinality({k} \X (1..n)) = n
<1> DEFINE S == 1..n
           T == {k} \X S
           f == [i \in S |-> <<k, i>>]
<1>1. f \in Bijection(S, T)
  <2>1. f \in [S -> T]  OBVIOUS
  <2>2. \A i, j \in S : f[i] = f[j] => i = j  OBVIOUS
  <2>3. \A t \in T : \E i \in S : f[i] = t  OBVIOUS
  <2> HIDE DEF S, T, f
  <2> QED  BY <2>1, <2>2, <2>3, Zenon DEF Bijection, Injection, Surjection, IsInjective
<1>2. IsFiniteSet(S) /\ Cardinality(S) = n
    BY FS_Interval
<1> HIDE DEF S, T, f
<1>3. ExistsBijection(S, T)  BY <1>1 DEF ExistsBijection
<1>4. IsFiniteSet(T) /\ Cardinality(T) = Cardinality(S)  BY <1>2, <1>3, FS_Bijection
<1> QED  BY <1>2, <1>4 DEF T, S

\* A finite set grows by what is added to it that it does not share, and
\* shrinks by the part of it that is taken out.
LEMMA AddedApart ==
    ASSUME NEW S, NEW T, IsFiniteSet(S), IsFiniteSet(T), S \cap T = {}
    PROVE  IsFiniteSet(S \cup T) /\ Cardinality(S \cup T) = Cardinality(S) + Cardinality(T)
<1>1. Cardinality(S \cap T) = 0  BY FS_EmptySet
<1>2. Cardinality(S) \in Nat /\ Cardinality(T) \in Nat  BY FS_CardinalityType
<1>3. /\ IsFiniteSet(S \cup T)
      /\ Cardinality(S \cup T) = Cardinality(S) + Cardinality(T) - Cardinality(S \cap T)
    BY FS_Union
<1> QED  BY <1>1, <1>2, <1>3

LEMMA TakenOut ==
    ASSUME NEW S, NEW T, IsFiniteSet(S), T \subseteq S
    PROVE  /\ IsFiniteSet(S \ T) /\ IsFiniteSet(T)
           /\ Cardinality(S \ T) = Cardinality(S) - Cardinality(T)
           /\ Cardinality(S \ T) \in Nat
<1>1. IsFiniteSet(T) /\ IsFiniteSet(S \ T)  BY FS_Subset
<1>2. (S \ T) \cap T = {} /\ (S \ T) \cup T = S  OBVIOUS
<1>3. Cardinality(S) = Cardinality(S \ T) + Cardinality(T)
  <2> DEFINE R == S \ T
  <2>1. IsFiniteSet(R) /\ R \cap T = {} /\ R \cup T = S  BY <1>1, <1>2
  <2> HIDE DEF R
  <2>2. Cardinality(R \cup T) = Cardinality(R) + Cardinality(T)  BY <1>1, <2>1, AddedApart
  <2> QED  BY <2>1, <2>2 DEF R
<1>4. Cardinality(S \ T) \in Nat /\ Cardinality(T) \in Nat  BY <1>1, FS_CardinalityType
<1> QED  BY <1>1, <1>3, <1>4

\* A key that leaves the store takes its units with it.
LEMMA DeletedSound ==
    ASSUME NEW s, Sound(s), NEW k \in Keys
    PROVE  Sound(Deleted(s, k))
<1> DEFINE r == Deleted(s, k)
           n == SizeOf[s.entry[k].version]
<1>1. CASE s.entry[k] = Absent
    BY <1>1 DEF Deleted
<1>2. CASE s.entry[k] # Absent
  <2>0. s \in Stores /\ s.entry[k] \in Entries /\ k \in Holding(s) /\ n \in Nat
      BY <1>2, StoreAssumption DEF Sound, Stores, Holding, Entries
  <2>1. /\ r.entry = [s.entry EXCEPT ![k] = Absent]
        /\ r.order = RemoveFirst(s.order, k)
        /\ r.usage = s.usage - n
        /\ r.tagged = [t \in Tags |-> s.tagged[t] \ {k}]
        /\ r = [entry |-> r.entry, order |-> r.order, usage |-> r.usage, tagged |-> r.tagged]
      BY <1>2 DEF Deleted
  <2> HIDE DEF r
  <2>2. Holding(r) = Holding(s) \ {k} /\ \A j \in Holding(r) : r.entry[j] = s.entry[j]
      BY <2>0, <2>1 DEF Holding, Stores
  <2>3. Listed(r) /\ r.order \in Seq(Keys)
    <3>1. s.order \in Seq(Keys) /\ Listed(s)  BY <2>0 DEF Stores, Sound
    <3> QED  BY <2>1, <2>2, <3>1, RemoveFirstProperties DEF Listed
  <2>4. Indexed(r)
      BY <2>1, <2>2 DEF Sound, Indexed
  <2>5. UnitsIn(r) = UnitsIn(s) \ UnitsOf(s, k) /\ UnitsOf(s, k) \subseteq UnitsIn(s)
    <3>1. \A j \in Holding(r) : UnitsOf(r, j) = UnitsOf(s, j)
        BY <2>2 DEF UnitsOf
    <3>2. \A j \in Holding(r) : UnitsOf(s, j) \cap UnitsOf(s, k) = {}
        BY <2>2 DEF UnitsOf
    <3>3. {UnitsOf(r, j) : j \in Holding(r)} = {UnitsOf(s, j) : j \in Holding(r)}
        BY <3>1
    <3> QED  BY <2>0, <2>2, <3>2, <3>3 DEF UnitsIn
  <2>6. Summed(r) /\ r.usage \in Nat
    <3>1. IsFiniteSet(UnitsIn(s)) /\ s.usage = Cardinality(UnitsIn(s))  BY DEF Sound, Summed
    <3>2. Cardinality(UnitsOf(s, k)) = n  BY <2>0, UnitsOfEntry DEF UnitsOf
    <3>3. /\ IsFiniteSet(UnitsIn(r)) /\ Cardinality(UnitsIn(r)) \in Nat
          /\ Cardinality(UnitsIn(r)) = Cardinality(UnitsIn(s)) - Cardinality(UnitsOf(s, k))
      <4> DEFINE all == UnitsIn(s)
                 gone == UnitsOf(s, k)
      <4>1. IsFiniteSet(all) /\ gone \subseteq all /\ UnitsIn(r) = all \ gone  BY <2>5, <3>1
      <4> HIDE DEF all, gone
      <4>2. IsFiniteSet(all \ gone) /\ Cardinality(all \ gone) \in Nat
            /\ Cardinality(all \ gone) = Cardinality(all) - Cardinality(gone)
          BY <4>1, TakenOut
      <4> USE DEF all, gone
      <4> QED  BY <4>1, <4>2
    <3> QED  BY <2>1, <3>1, <3>2, <3>3 DEF Summed
  <2>7. r \in Stores
    <3>1. r.entry \in [Keys -> Entries \cup {Absent}] /\ r.tagged \in [Tags -> SUBSET Keys]
        BY <2>0, <2>1 DEF Stores
    <3> QED  BY <2>1, <2>3, <2>6, <3>1 DEF Stores
  <2> QED  BY <2>3, <2>4, <2>6, <2>7 DEF Sound, r
<1> QED  BY <1>1, <1>2

\* A key that is placed keeps its place in the order or comes last, and its
\* units replace those it had.
LEMMA PlacedSound ==
    ASSUME NEW s, Sound(s), NEW k \in Keys, NEW v \in Versions
    PROVE  Sound(Placed(s, k, v))
<1> DEFINE r == Placed(s, k, v)
           had == IF s.entry[k] = Absent THEN {} ELSE UnitsOf(s, k)
<1>0. s \in Stores /\ [version |-> v, live |-> TRUE] # Absent /\ SizeOf[v] \in Nat
  <2>1. [version |-> v, live |-> TRUE] \in [version : Versions, live : BOOLEAN]  OBVIOUS
  <2> QED  BY <2>1, StoreAssumption DEF Sound
<1>1. /\ r.entry = [s.entry EXCEPT ![k] = [version |-> v, live |-> TRUE]]
      /\ r.order = IF s.entry[k] = Absent THEN Append(s.order, k) ELSE s.order
      /\ r.usage = (IF s.entry[k] = Absent THEN s.usage ELSE s.usage - SizeOf[s.entry[k].version]) + SizeOf[v]
      /\ r.tagged = [t \in Tags |-> IF t \in TagsOf[k] THEN s.tagged[t] \cup {k} ELSE s.tagged[t] \ {k}]
      /\ r = [entry |-> r.entry, order |-> r.order, usage |-> r.usage, tagged |-> r.tagged]
    BY DEF Placed
<1> HIDE DEF r
<1>2. Holding(r) = Holding(s) \cup {k} /\ r.entry[k].version = v
      /\ \A j \in Holding(s) \ {k} : r.entry[j] = s.entry[j]
    BY <1>0, <1>1 DEF Holding, Stores
<1>3. Listed(r) /\ r.order \in Seq(Keys)
  <2>1. s.order \in Seq(Keys) /\ Listed(s)  BY <1>0 DEF Stores, Sound
  <2>2. CASE s.entry[k] # Absent
    <3>1. Holding(r) = Holding(s)  BY <1>2, <2>2 DEF Holding
    <3> QED  BY <1>1, <2>1, <2>2, <3>1 DEF Listed
  <2>3. CASE s.entry[k] = Absent
    <3>1. k \notin ToSet(s.order)  BY <2>1, <2>3 DEF Listed, Holding
    <3>2. r.order = Append(s.order, k)  BY <1>1, <2>3
    <3>3. IsInjective(r.order) /\ ToSet(r.order) = ToSet(s.order) \cup {k} /\ r.order \in Seq(Keys)
        BY <2>1, <3>1, <3>2, AppendedLast DEF Listed
    <3> QED  BY <1>2, <2>1, <3>3 DEF Listed
  <2> QED  BY <2>2, <2>3
<1>4. Indexed(r)
    BY <1>1, <1>2 DEF Sound, Indexed
<1>5. UnitsIn(r) = (UnitsIn(s) \ had) \cup UnitsOf(r, k) /\ had \subseteq UnitsIn(s)
      /\ (UnitsIn(s) \ had) \cap UnitsOf(r, k) = {}
  <2> DEFINE others == UNION {UnitsOf(s, j) : j \in Holding(s) \ {k}}
  <2>1. \A j \in Holding(s) \ {k} : UnitsOf(r, j) = UnitsOf(s, j)
      BY <1>2 DEF UnitsOf
  <2>2. \A j \in Holding(s) \ {k} : /\ UnitsOf(s, j) \cap UnitsOf(s, k) = {}
                                    /\ UnitsOf(s, j) \cap UnitsOf(r, k) = {}
      BY DEF UnitsOf
  <2>3. {UnitsOf(r, j) : j \in Holding(s) \ {k}} = {UnitsOf(s, j) : j \in Holding(s) \ {k}}
      BY <2>1
  <2>4. UnitsIn(r) = others \cup UnitsOf(r, k)
    <3>1. {UnitsOf(r, j) : j \in Holding(r)} = {UnitsOf(r, j) : j \in Holding(s) \ {k}} \cup {UnitsOf(r, k)}
        BY <1>2
    <3> QED  BY <2>3, <3>1 DEF UnitsIn
  <2>5. UnitsIn(s) \ had = others /\ had \subseteq UnitsIn(s)
    <3>1. CASE s.entry[k] = Absent
      <4>1. Holding(s) = Holding(s) \ {k}  BY <3>1 DEF Holding
      <4> QED  BY <3>1, <4>1 DEF UnitsIn
    <3>2. CASE s.entry[k] # Absent
      <4>1. k \in Holding(s) /\ had = UnitsOf(s, k)  BY <3>2 DEF Holding
      <4> QED  BY <2>2, <4>1 DEF UnitsIn
    <3> QED  BY <3>1, <3>2
  <2>6. others \cap UnitsOf(r, k) = {}  BY <2>2
  <2> HIDE DEF others, had
  <2> QED  BY <2>4, <2>5, <2>6
<1>6. Summed(r) /\ r.usage \in Nat
  <2>1. IsFiniteSet(UnitsIn(s)) /\ s.usage = Cardinality(UnitsIn(s))  BY DEF Sound, Summed
  <2>2. IsFiniteSet(UnitsOf(r, k)) /\ Cardinality(UnitsOf(r, k)) = SizeOf[v]
      BY <1>0, <1>2, UnitsOfEntry DEF UnitsOf
  <2>3. Cardinality(had) = IF s.entry[k] = Absent THEN 0 ELSE SizeOf[s.entry[k].version]
    <3>1. s.entry[k] # Absent => SizeOf[s.entry[k].version] \in Nat
        BY <1>0, StoreAssumption DEF Stores, Entries
    <3> QED  BY <3>1, UnitsOfEntry, FS_EmptySet DEF UnitsOf
  <2>4. s.entry[k] # Absent => SizeOf[s.entry[k].version] \in Nat
      BY <1>0, StoreAssumption DEF Stores, Entries
  <2> DEFINE kept == UnitsIn(s) \ had
  <2>5. /\ IsFiniteSet(kept) /\ Cardinality(kept) = s.usage - Cardinality(had)
        /\ Cardinality(kept) \in Nat
    <3> HIDE DEF had
    <3> QED  BY <1>5, <2>1, TakenOut
  <2>6. UnitsIn(r) = kept \cup UnitsOf(r, k) /\ kept \cap UnitsOf(r, k) = {}  BY <1>5
  <2> HIDE DEF kept, had
  <2>7. IsFiniteSet(UnitsIn(r)) /\ Cardinality(UnitsIn(r)) = Cardinality(kept) + SizeOf[v]
      BY <2>2, <2>5, <2>6, AddedApart
  <2>8. s.usage \in Nat  BY <1>0 DEF Stores
  <2>9. r.usage = Cardinality(kept) + SizeOf[v]
      BY <1>0, <1>1, <2>3, <2>4, <2>5, <2>8
  <2> QED  BY <1>0, <2>5, <2>7, <2>9 DEF Summed
<1>7. r \in Stores
  <2>1. r.entry \in [Keys -> Entries \cup {Absent}] /\ r.tagged \in [Tags -> SUBSET Keys]
      BY <1>0, <1>1 DEF Stores, Entries
  <2> QED  BY <1>1, <1>3, <1>6, <2>1 DEF Stores
<1> QED  BY <1>3, <1>4, <1>6, <1>7 DEF Sound, r

\* A store that differs in the order alone, and lists the same keys, is sound.
LEMMA ReorderedSound ==
    ASSUME NEW s, Sound(s), NEW q \in Seq(Keys), IsInjective(q), ToSet(q) = ToSet(s.order)
    PROVE  Sound([s EXCEPT !.order = q])
<1> DEFINE r == [s EXCEPT !.order = q]
<1>1. r \in Stores /\ r.entry = s.entry /\ r.order = q /\ r.usage = s.usage /\ r.tagged = s.tagged
    BY DEF Sound, Stores
<1> HIDE DEF r
<1>2. Holding(r) = Holding(s) /\ UnitsIn(r) = UnitsIn(s)  BY <1>1 DEF Holding, UnitsIn, UnitsOf
<1> QED  BY <1>1, <1>2 DEF Sound, Listed, Indexed, Summed, r

\* A key that is read becomes the last of the order.
LEMMA TouchedSound ==
    ASSUME NEW s, Sound(s), NEW k \in Holding(s)
    PROVE  Sound(Touched(s, k))
<1> DEFINE p == RemoveFirst(s.order, k)
           q == Append(p, k)
<1>1. s.order \in Seq(Keys) /\ IsInjective(s.order) /\ ToSet(s.order) = Holding(s) /\ k \in Keys
    BY DEF Sound, Stores, Listed, Holding
<1>2. p \in Seq(Keys) /\ IsInjective(p) /\ ToSet(p) = ToSet(s.order) \ {k}
    BY <1>1, RemoveFirstProperties
<1> HIDE DEF p
<1>3. q \in Seq(Keys) /\ IsInjective(q) /\ ToSet(q) = ToSet(p) \cup {k}
  <2>1. k \notin ToSet(p)  BY <1>2
  <2> QED  BY <1>1, <1>2, <2>1, AppendedLast
<1>4. ToSet(q) = ToSet(s.order)  BY <1>1, <1>2, <1>3
<1> HIDE DEF q
<1>5. Sound([s EXCEPT !.order = q])  BY <1>3, <1>4, ReorderedSound
<1> QED  BY <1>5 DEF Touched, q, p

\* An entry that expires stays where it is.
LEMMA ExpiredSound ==
    ASSUME NEW s, Sound(s), NEW k \in Holding(s)
    PROVE  Sound([s EXCEPT !.entry[k].live = FALSE])
<1> DEFINE r == [s EXCEPT !.entry[k].live = FALSE]
<1>1. s \in Stores /\ k \in Keys /\ s.entry[k] \in Entries
    BY DEF Sound, Stores, Holding
<1>2. /\ r.entry = [s.entry EXCEPT ![k] = [@ EXCEPT !.live = FALSE]]
      /\ r.order = s.order /\ r.usage = s.usage /\ r.tagged = s.tagged
      /\ r = [entry |-> r.entry, order |-> r.order, usage |-> r.usage, tagged |-> r.tagged]
  <2> DEFINE e == [s.entry EXCEPT ![k] = [@ EXCEPT !.live = FALSE]]
  <2>1. r = [s EXCEPT !.entry = e]  OBVIOUS
  <2> HIDE DEF e, r
  <2> QED  BY <1>1, <2>1 DEF Stores, e
<1> HIDE DEF r
<1>3. r.entry[k] \in Entries /\ r.entry[k].version = s.entry[k].version
      /\ \A j \in Keys \ {k} : r.entry[j] = s.entry[j]
    BY <1>1, <1>2 DEF Entries, Stores
<1>4. r \in Stores
  <2>1. r.entry \in [Keys -> Entries \cup {Absent}]  BY <1>1, <1>2, <1>3 DEF Stores
  <2> QED  BY <1>1, <1>2, <2>1 DEF Stores
<1>5. r.entry[k] # Absent  BY <1>3, StoreAssumption DEF Entries
<1>6. Holding(r) = Holding(s)  BY <1>3, <1>5 DEF Holding
<1>7. \A j \in Holding(s) : UnitsOf(r, j) = UnitsOf(s, j)
    BY <1>3 DEF UnitsOf, Holding
<1>8. UnitsIn(r) = UnitsIn(s)  BY <1>6, <1>7 DEF UnitsIn
<1> QED  BY <1>2, <1>4, <1>6, <1>8 DEF Sound, Listed, Indexed, Summed, r

\* The empty store is sound.
LEMMA EmptySound ==
    ASSUME NEW s, s = [entry |-> [k \in Keys |-> Absent], order |-> <<>>, usage |-> 0, tagged |-> [t \in Tags |-> {}]]
    PROVE  Sound(s)
<1>1. s \in Stores  BY DEF Stores
<1>2. Holding(s) = {}  BY DEF Holding
<1>3. UnitsIn(s) = {}  BY <1>2 DEF UnitsIn
<1>4. ToSet(s.order) = {} /\ IsInjective(s.order)  BY DEF ToSet, IsInjective
<1> QED  BY <1>1, <1>2, <1>3, <1>4, FS_EmptySet DEF Sound, Listed, Indexed, Summed

-----------------------------------------------------------------------------
\* The calls of set that wait for an eviction have keys left to evict while they
\* evict; the sweeps have keys left to delete.
SetRecords == [key : Keys \cup {Absent}, snapshot : Seq(Keys), evicting : BOOLEAN]
SetsOK ==
    /\ setting \in [Setters -> SetRecords] /\ sweep \in [Sweepers -> SUBSET Keys]
    /\ \A x \in Setters : setting[x].evicting => setting[x].snapshot # <<>>

StoreInv == Sound(store) /\ SetsOK

LEMMA SameStore ==
    ASSUME StoreInv, UNCHANGED storeVars
    PROVE  StoreInv'
BY DEF StoreInv, SetsOK, Sound, Listed, Indexed, Summed, storeVars

\* A step of the store alone: the sets and the sweeps stay as they are.
LEMMA OnlyTheStore ==
    ASSUME StoreInv, UNCHANGED <<setting, sweep>>, Sound(store')
    PROVE  StoreInv'
BY DEF StoreInv, SetsOK, Sound, Listed, Indexed, Summed

LEMMA GotSound ==
    ASSUME StoreInv, NEW k \in Keys
    PROVE  Sound(Got(k))
<1>1. CASE Hit(k)
  <2>1. k \in Holding(store)  BY <1>1 DEF Hit, Holding
  <2> QED  BY <1>1, <2>1, TouchedSound DEF Got, StoreInv
<1>2. CASE ~Hit(k)
    BY <1>2, DeletedSound DEF Got, StoreInv
<1> QED  BY <1>1, <1>2

LEMMA SetNowKeeps ==
    ASSUME StoreInv, NEW x \in Setters, NEW k \in Keys, NEW v \in Versions, SetNow(x, k, v)
    PROVE  StoreInv'
<1>1. Sound(Placed(store, k, v))  BY PlacedSound DEF StoreInv
<1> QED  BY <1>1, OnlyTheStore DEF SetNow

\* A sequence of more than one element has a tail to go on with.
LEMMA GoesOn ==
    ASSUME NEW T, NEW q \in Seq(T), q # <<>>
    PROVE  Head(q) \in T /\ Tail(q) \in Seq(T) /\ (Len(q) > 1 => Tail(q) # <<>>)
<1>1. Head(q) \in T /\ Tail(q) \in Seq(T) /\ Len(Tail(q)) = Len(q) - 1 /\ Len(q) \in Nat
    OBVIOUS
<1>2. Tail(q) = <<>> => Len(Tail(q)) = 0
  <2>1. Len(<<>>) = 0  OBVIOUS
  <2> QED  BY <2>1, Zenon
<1>3. ~(Len(q) > 1 /\ Tail(q) = <<>>)
    BY <1>1, <1>2
<1> QED  BY <1>1, <1>3

\* The first key of the order goes, the others are those to go on with.
LEMMA SetEvictsKeeps ==
    ASSUME StoreInv, NEW x \in Setters, NEW k \in Keys, NEW v \in Versions, SetEvicts(x, k, v)
    PROVE  StoreInv'
<1> DEFINE q == store.order
<1>1. q \in Seq(Keys)  BY DEF StoreInv, Sound, Stores
<1>2. Sound(store')
  <2>1. CASE q = <<>>  BY <2>1 DEF SetEvicts, StoreInv
  <2>2. CASE q # <<>>
    <3>1. Head(q) \in Keys  BY <1>1, <2>2
    <3>2. Sound(Deleted(store, Head(q)))  BY <3>1, DeletedSound DEF StoreInv
    <3> QED  BY <2>2, <3>2 DEF SetEvicts
  <2> QED  BY <2>1, <2>2
<1>3. SetsOK'
  <2> DEFINE r == [key |-> k, evicting |-> Len(q) > 1, snapshot |-> IF q = <<>> THEN <<>> ELSE Tail(q)]
  <2>1. setting' = [setting EXCEPT ![x] = r] /\ sweep' = sweep  BY DEF SetEvicts
  <2>2. r \in SetRecords  BY <1>1 DEF SetRecords
  <2>3. r.evicting => r.snapshot # <<>>
    <3>1. Len(q) > 1 => q # <<>>  OBVIOUS
    <3> HIDE DEF q
    <3> QED  BY <1>1, <3>1, GoesOn DEF r
  <2> HIDE DEF r
  <2> QED  BY <2>1, <2>2, <2>3 DEF StoreInv, SetsOK
<1> QED  BY <1>2, <1>3 DEF StoreInv, Sound, Listed, Indexed, Summed

LEMMA EvictNextKeeps ==
    ASSUME StoreInv, NEW x \in Setters, NEW v, EvictNext(x, v)
    PROVE  StoreInv'
<1> DEFINE q == setting[x].snapshot
<1>1. q \in Seq(Keys) /\ q # <<>> /\ setting[x] \in SetRecords
    BY DEF StoreInv, SetsOK, SetRecords, EvictNext
<1>2. Head(q) \in Keys /\ Tail(q) \in Seq(Keys) /\ (Len(q) > 1 => Tail(q) # <<>>)
  <2> HIDE DEF q
  <2> QED  BY <1>1, GoesOn
<1>3. Sound(store')
    BY <1>2, DeletedSound DEF EvictNext, StoreInv
<1>4. SetsOK'
  <2>1. PICK r \in SetRecords : /\ setting' = [setting EXCEPT ![x] = r]
                                /\ r.evicting => r.snapshot # <<>>
    <3>1. CASE ToEvict(store, v)
      <4> DEFINE r == [key |-> setting[x].key, snapshot |-> Tail(q), evicting |-> Len(q) > 1]
      <4>1. r.evicting => r.snapshot # <<>>
        <5> HIDE DEF q
        <5> QED  BY <1>2 DEF r
      <4>2. r \in SetRecords
          BY <1>1, <1>2 DEF SetRecords
      <4>3. setting' = [setting EXCEPT ![x] = r]
          BY <1>1, <3>1 DEF EvictNext, StoreInv, SetsOK, SetRecords
      <4> HIDE DEF r
      <4> QED  BY <4>1, <4>2, <4>3
    <3>2. CASE ~ToEvict(store, v)
      <4> DEFINE r == [key |-> setting[x].key, snapshot |-> <<>>, evicting |-> FALSE]
      <4>1. r \in SetRecords /\ ~r.evicting  BY <1>1 DEF SetRecords
      <4>2. setting' = [setting EXCEPT ![x] = r]
          BY <1>1, <3>2 DEF EvictNext, StoreInv, SetsOK, SetRecords
      <4> HIDE DEF r
      <4> QED  BY <4>1, <4>2
    <3> QED  BY <3>1, <3>2
  <2>2. sweep' = sweep  BY DEF EvictNext
  <2> QED  BY <2>1, <2>2 DEF StoreInv, SetsOK
<1> QED  BY <1>3, <1>4 DEF StoreInv, Sound, Listed, Indexed, Summed

LEMMA SetAfterEvictionKeeps ==
    ASSUME StoreInv, NEW x \in Setters, NEW v \in Versions, SetAfterEviction(x, v)
    PROVE  StoreInv'
<1>1. setting[x].key \in Keys
    BY DEF StoreInv, SetsOK, SetRecords, SetAfterEviction
<1>2. Sound(Placed(store, setting[x].key, v))  BY <1>1, PlacedSound DEF StoreInv
<1>3. NoSet \in SetRecords /\ ~NoSet.evicting  BY DEF NoSet, SetRecords
<1>4. SetsOK'  BY <1>3 DEF StoreInv, SetsOK, SetAfterEviction
<1> QED  BY <1>2, <1>4 DEF SetAfterEviction, StoreInv, Sound, Listed, Indexed, Summed

LEMMA DeleteManyKeeps ==
    ASSUME StoreInv, NEW w \in Sweepers, NEW ks \in SUBSET Keys, DeleteMany(w, ks)
    PROVE  StoreInv'
<1>1. CASE ks = {}
    BY <1>1, SameStore DEF DeleteMany, storeVars
<1>2. CASE ks # {}
  <2>1. PICK k \in ks : store' = Deleted(store, k) /\ sweep' = [sweep EXCEPT ![w] = ks \ {k}]
      BY <1>2 DEF DeleteMany
  <2>2. Sound(store')  BY <2>1, DeletedSound DEF StoreInv
  <2>3. SetsOK'  BY <2>1 DEF StoreInv, SetsOK, DeleteMany
  <2> QED  BY <2>2, <2>3 DEF StoreInv, Sound, Listed, Indexed, Summed
<1> QED  BY <1>1, <1>2

LEMMA DeleteNextKeeps ==
    ASSUME StoreInv, NEW w \in Sweepers, DeleteNext(w)
    PROVE  StoreInv'
<1>1. PICK k \in sweep[w] : store' = Deleted(store, k) /\ sweep' = [sweep EXCEPT ![w] = @ \ {k}]
    BY DEF DeleteNext
<1>2. k \in Keys  BY DEF StoreInv, SetsOK
<1>3. Sound(store')  BY <1>1, <1>2, DeletedSound DEF StoreInv
<1>4. SetsOK'  BY <1>1 DEF StoreInv, SetsOK, DeleteNext
<1> QED  BY <1>3, <1>4 DEF StoreInv, Sound, Listed, Indexed, Summed

LEMMA ClearKeeps ==
    ASSUME StoreInv, Clear
    PROVE  StoreInv'
<1>1. store' = [entry |-> [k \in Keys |-> Absent], order |-> <<>>, usage |-> 0, tagged |-> [t \in Tags |-> {}]]
    BY DEF StoreInv, Sound, Stores, Clear
<1>2. Sound(store')  BY <1>1, EmptySound
<1> QED  BY <1>2, OnlyTheStore DEF Clear

LEMMA ExpiresKeeps ==
    ASSUME StoreInv, NEW k \in Keys, Expires(k)
    PROVE  StoreInv'
<1>1. k \in Holding(store)  BY DEF Expires, Hit, Holding
<1>2. Sound(store')  BY <1>1, ExpiredSound DEF Expires, StoreInv
<1> QED  BY <1>2, OnlyTheStore DEF Expires

-----------------------------------------------------------------------------
\* What is done for a setter has a key while it is under way and a value once
\* that is fetched. The task of a key is its refresh, and nothing else.
Ops == {"none", "fetch", "behind", "put", "get", "flush"}
Steps == {"idle", "fetching", "storing", "evicting", "stored", "waiting", "resumed"}
Tasks == [op : Ops, step : Steps, key : Keys \cup {Absent}, value : Versions \cup {Absent}]

TaskOK(t) ==
    /\ t \in Tasks
    /\ t.step # "idle" => t.key \in Keys
    /\ t.step \in {"storing", "evicting"} => t.value \in Versions

IsRefresh(t) == t.op = "fetch" /\ t.step \in {"fetching", "storing"}

TaskInv ==
    /\ task \in [Setters -> Tasks]
    /\ \A x \in Setters : TaskOK(task[x])
    /\ \A k \in Keys : ~IsIdle(k) => IsRefresh(task[k])
    /\ RefreshExact
    /\ IsFiniteSet(refreshing) /\ Cardinality(refreshing) <= MaxRefresh

Callers == Clients \cup {"flush"}

LEMMA WhoSets ==
    /\ Setters = Callers \cup Keys /\ Callers \cap Keys = {}
    /\ Clients \subseteq Callers /\ "flush" \in Callers
BY ManagerAssumption DEF Callers

LEMMA SameTasks ==
    ASSUME TaskInv, UNCHANGED <<task, refreshing>>
    PROVE  TaskInv'
BY DEF TaskInv, RefreshExact, IsIdle

LEMMA RestOK == TaskOK(Rest) /\ Rest.step = "idle"
BY DEF TaskOK, Rest, Tasks, Ops, Steps

\* A caller's task does not bear on the refreshes.
LEMMA CallersTask ==
    ASSUME TaskInv, NEW x \in Callers, NEW t, TaskOK(t),
           task' = [task EXCEPT ![x] = t], refreshing' = refreshing
    PROVE  TaskInv'
<1>1. x \in Setters /\ x \notin Keys /\ Keys \subseteq Setters /\ t \in Tasks
    BY WhoSets DEF TaskOK
<1>2. /\ task' \in [Setters -> Tasks] /\ \A y \in Setters : TaskOK(task'[y])
      /\ \A k \in Keys : task'[k] = task[k]
    BY <1>1 DEF TaskInv
<1> QED  BY <1>2 DEF TaskInv, RefreshExact, IsIdle

\* A refresh that goes on stays marked.
LEMMA RefreshGoesOn ==
    ASSUME TaskInv, NEW k \in Keys, ~IsIdle(k), NEW t, TaskOK(t), IsRefresh(t),
           task' = [task EXCEPT ![k] = t], refreshing' = refreshing
    PROVE  TaskInv'
<1>1. Keys \subseteq Setters /\ t \in Tasks /\ t.step # "idle"
    BY WhoSets DEF TaskOK, IsRefresh
<1>2. /\ task' \in [Setters -> Tasks] /\ \A y \in Setters : TaskOK(task'[y])
      /\ task'[k] = t /\ \A j \in Keys \ {k} : task'[j] = task[j]
    BY <1>1 DEF TaskInv
<1>3. \A j \in Keys : task'[j].step # "idle" <=> task[j].step # "idle"
    BY <1>1, <1>2 DEF IsIdle
<1>4. \A j \in Keys : task'[j].step # "idle" => IsRefresh(task'[j])
    BY <1>2 DEF TaskInv, IsIdle
<1> QED  BY <1>2, <1>3, <1>4 DEF TaskInv, RefreshExact, IsIdle

\* A refresh begins where there is room for it.
LEMMA RefreshBegins ==
    ASSUME TaskInv, NEW k \in Keys, RoomToRefresh(k),
           task' = Does(k, "fetch", "fetching", k), refreshing' = refreshing \cup {k}
    PROVE  TaskInv'
<1> DEFINE t == [op |-> "fetch", step |-> "fetching", key |-> k, value |-> Absent]
<1>1. TaskOK(t) /\ IsRefresh(t) /\ t.step # "idle" /\ t \in Tasks /\ Keys \subseteq Setters
    BY WhoSets DEF TaskOK, IsRefresh, Tasks, Ops, Steps
<1>2. task' = [task EXCEPT ![k] = t]  BY DEF Does
<1> HIDE DEF t
<1>3. /\ task' \in [Setters -> Tasks] /\ \A y \in Setters : TaskOK(task'[y])
      /\ task'[k] = t /\ \A j \in Keys \ {k} : task'[j] = task[j]
    BY <1>1, <1>2 DEF TaskInv
<1>4. refreshing' = {j \in Keys : task'[j].step # "idle"}
    BY <1>1, <1>3 DEF TaskInv, RefreshExact, IsIdle
<1>5. IsFiniteSet(refreshing') /\ Cardinality(refreshing') <= MaxRefresh
  <2>1. /\ IsFiniteSet(refreshing) /\ k \notin refreshing /\ Cardinality(refreshing) < MaxRefresh
        /\ Cardinality(refreshing) \in Nat /\ MaxRefresh \in Nat
      BY FS_CardinalityType, ManagerAssumption DEF TaskInv, RoomToRefresh
  <2>2. IsFiniteSet(refreshing \cup {k}) /\ Cardinality(refreshing \cup {k}) = Cardinality(refreshing) + 1
      BY <2>1, FS_AddElement
  <2> QED  BY <2>1, <2>2
<1>6. \A j \in Keys : task'[j].step # "idle" => IsRefresh(task'[j])
    BY <1>1, <1>3 DEF TaskInv, IsIdle
<1> QED  BY <1>3, <1>4, <1>5, <1>6 DEF TaskInv, RefreshExact, IsIdle

\* Whatever ends, its key is no longer marked.
LEMMA TaskEnds ==
    ASSUME TaskInv, NEW x \in Setters, task' = [task EXCEPT ![x] = Rest], refreshing' = NotRefreshing(x)
    PROVE  TaskInv'
<1>1. TaskOK(Rest) /\ Rest.step = "idle" /\ Rest \in Tasks /\ Keys \subseteq Setters
    BY RestOK, WhoSets DEF TaskOK
<1>2. /\ task' \in [Setters -> Tasks] /\ \A y \in Setters : TaskOK(task'[y])
      /\ task'[x] = Rest /\ \A j \in Setters \ {x} : task'[j] = task[j]
    BY <1>1 DEF TaskInv
<1>3. refreshing' = {j \in Keys : task'[j].step # "idle"}
    BY <1>1, <1>2 DEF TaskInv, RefreshExact, IsIdle, NotRefreshing
<1>4. IsFiniteSet(refreshing') /\ Cardinality(refreshing') <= MaxRefresh
  <2>1. IsFiniteSet(refreshing) /\ Cardinality(refreshing) <= MaxRefresh /\ MaxRefresh \in Nat
      BY ManagerAssumption DEF TaskInv
  <2>2. refreshing' \in SUBSET refreshing  BY DEF NotRefreshing
  <2>3. IsFiniteSet(refreshing') /\ Cardinality(refreshing') <= Cardinality(refreshing)
      BY <2>1, <2>2, FS_Subset
  <2>4. Cardinality(refreshing) \in Nat /\ Cardinality(refreshing') \in Nat
      BY <2>1, <2>3, FS_CardinalityType
  <2> QED  BY <2>1, <2>3, <2>4
<1>5. \A j \in Keys : task'[j].step # "idle" => IsRefresh(task'[j])
    BY <1>1, <1>2 DEF TaskInv, IsIdle
<1> QED  BY <1>2, <1>3, <1>4, <1>5 DEF TaskInv, RefreshExact, IsIdle

\* A set that has settled ends, and the calls that waited for it go on; no
\* refresh waits for a set.
LEMMA ReleasedKeeps ==
    ASSUME TaskInv, NEW c \in Clients, task' = Released(c), refreshing' = refreshing
    PROVE  TaskInv'
<1>1. c \in Setters /\ c \notin Keys /\ Keys \subseteq Setters /\ TaskOK(Rest)
    BY WhoSets, RestOK
<1>2. ASSUME NEW x \in Setters  PROVE TaskOK(task'[x])
  <2>1. CASE x = c
      BY <1>1, <2>1 DEF Released
  <2>2. CASE x # c /\ task[x].step = "waiting" /\ task[x].key = task[c].key
    <3> DEFINE t == [op |-> task[x].op, step |-> "resumed", key |-> task[x].key, value |-> task[x].value]
    <3>1. TaskOK(task[x]) /\ task[x] \in Tasks  BY DEF TaskInv
    <3>2. task'[x] = t  BY <2>2, <3>1 DEF Released, Tasks
    <3>3. TaskOK(t)  BY <2>2, <3>1 DEF TaskOK, Tasks, Steps
    <3> QED  BY <3>2, <3>3
  <2>3. CASE x # c /\ ~(task[x].step = "waiting" /\ task[x].key = task[c].key)
    <3>1. task'[x] = task[x]  BY <2>3 DEF Released
    <3> QED  BY <3>1 DEF TaskInv
  <2> QED  BY <2>1, <2>2, <2>3
<1>3. \A k \in Keys : task'[k] = task[k]
  <2> SUFFICES ASSUME NEW k \in Keys  PROVE task'[k] = task[k]
      OBVIOUS
  <2>1. task[k].step # "waiting"  BY DEF TaskInv, IsIdle, IsRefresh
  <2> QED  BY <1>1, <2>1 DEF Released
<1>4. task' \in [Setters -> Tasks]
  <2>1. \A x \in Setters : task'[x] \in Tasks  BY <1>2 DEF TaskOK
  <2> QED  BY <2>1 DEF Released
<1> QED  BY <1>2, <1>3, <1>4 DEF TaskInv, RefreshExact, IsIdle

-----------------------------------------------------------------------------
\* The delayed writes, in the map and in the hands of the flush.
Delayed == {k \in Keys : pending[k] # Absent}
Entry == [key : Keys, value : Versions]

WriteInv ==
    /\ source \in [Keys -> Versions] /\ pending \in [Keys -> Versions \cup {Absent}]
    /\ IsFiniteSet(Delayed) /\ Cardinality(Delayed) <= MaxPending
    /\ flush \in Seq(Entry)

LEMMA SameWrites ==
    ASSUME WriteInv, UNCHANGED <<source, pending, flush>>
    PROVE  WriteInv'
BY DEF WriteInv, Delayed

\* A delayed write is taken while there is room.
LEMMA WriteDelayed ==
    ASSUME WriteInv, NEW k \in Keys, Cardinality(Delayed) < MaxPending,
           pending' = [pending EXCEPT ![k] = source[k]], UNCHANGED <<source, flush>>
    PROVE  WriteInv'
<1>1. source[k] \in Versions /\ source[k] # Absent  BY StoreAssumption DEF WriteInv
<1>2. pending' \in [Keys -> Versions \cup {Absent}]  BY <1>1 DEF WriteInv
<1>3. Delayed' = Delayed \cup {k}  BY <1>1 DEF WriteInv, Delayed
<1>4. IsFiniteSet(Delayed) /\ Cardinality(Delayed) \in Nat /\ MaxPending \in Nat
    BY FS_CardinalityType, ManagerAssumption DEF WriteInv
<1>5. IsFiniteSet(Delayed \cup {k}) /\ Cardinality(Delayed \cup {k}) <= MaxPending
  <2>1. IsFiniteSet(Delayed \cup {k})
        /\ Cardinality(Delayed \cup {k}) = IF k \in Delayed THEN Cardinality(Delayed) ELSE Cardinality(Delayed) + 1
      BY <1>4, FS_AddElement
  <2> QED  BY <1>4, <2>1
<1> QED  BY <1>2, <1>3, <1>5 DEF WriteInv

\* Whoever has stored takes at most one write off.
LEMMA WriteTaken ==
    ASSUME WriteInv, NEW x, pending' = Written(x), UNCHANGED <<source, flush>>
    PROVE  WriteInv'
<1>1. CASE x = "flush"
  <2>1. pending' = [pending EXCEPT ![task[x].key] = Absent]  BY <1>1 DEF Written
  <2>2. pending' \in [Keys -> Versions \cup {Absent}]  BY <2>1 DEF WriteInv
  <2>3. Delayed' \in SUBSET Delayed  BY <2>1 DEF WriteInv, Delayed
  <2>4. /\ IsFiniteSet(Delayed) /\ Cardinality(Delayed) <= MaxPending /\ MaxPending \in Nat
        /\ Cardinality(Delayed) \in Nat
      BY FS_CardinalityType, ManagerAssumption DEF WriteInv
  <2>5. IsFiniteSet(Delayed') /\ Cardinality(Delayed') <= Cardinality(Delayed)
      BY <2>3, <2>4, FS_Subset
  <2>6. Cardinality(Delayed') \in Nat  BY <2>5, FS_CardinalityType
  <2> QED  BY <2>2, <2>4, <2>5, <2>6 DEF WriteInv
<1>2. CASE x # "flush"
    BY <1>2, SameWrites DEF Written
<1> QED  BY <1>1, <1>2

\* The flush takes the writes as they are, in some order.
LEMMA FlushTakes ==
    ASSUME WriteInv, Delayed # {}, NEW q \in SetToSeqs(Delayed)
    PROVE  Writes(q) \in Seq(Entry) /\ Writes(q) # <<>>
<1> DEFINE n == Cardinality(Delayed)
<1>1. n \in Nat /\ n # 0
    BY FS_CardinalityType, FS_EmptySet DEF WriteInv
<1>2. q \in [1..n -> Delayed]
    BY Zenon DEF SetToSeqs
<1> HIDE DEF n
<1>3. DOMAIN q = 1..n  BY <1>2
<1>4. \A i \in 1..n : [key |-> q[i], value |-> pending[q[i]]] \in Entry
  <2> SUFFICES ASSUME NEW i \in 1..n  PROVE [key |-> q[i], value |-> pending[q[i]]] \in Entry
      OBVIOUS
  <2>1. q[i] \in Delayed  BY <1>2
  <2>2. q[i] \in Keys /\ pending[q[i]] \in Versions  BY <2>1 DEF WriteInv, Delayed
  <2> QED  BY <2>2 DEF Entry
<1>5. Writes(q) = [i \in 1..n |-> [key |-> q[i], value |-> pending[q[i]]]]
    BY <1>3 DEF Writes
<1>6. Writes(q) \in [1..n -> Entry]  BY <1>4, <1>5
<1>7. Writes(q) \in Seq(Entry) /\ Len(Writes(q)) = n  BY <1>1, <1>6
<1>8. Len(<<>>) = 0  OBVIOUS
<1> QED  BY <1>1, <1>7, <1>8

-----------------------------------------------------------------------------
\* The whole manager.
RestInv ==
    /\ guard \in [Keys -> Clients \cup {Absent}]
    /\ changed \subseteq Keys /\ timers \subseteq Keys

IInv == StoreInv /\ TaskInv /\ WriteInv /\ RestInv

LEMMA SameRest ==
    ASSUME RestInv, UNCHANGED <<guard, changed, timers>>
    PROVE  RestInv'
BY DEF RestInv

LEMMA InitIInv == Init => IInv
<1> SUFFICES ASSUME Init  PROVE IInv
    OBVIOUS
<1>1. StoreInv
  <2>1. Sound(store)  BY EmptySound DEF Init, StoreInit
  <2>2. NoSet \in SetRecords /\ ~NoSet.evicting  BY DEF NoSet, SetRecords
  <2>3. SetsOK  BY <2>2 DEF Init, StoreInit, SetsOK
  <2> QED  BY <2>1, <2>3 DEF StoreInv
<1>2. TaskInv
  <2>1. TaskOK(Rest) /\ Rest.step = "idle" /\ Rest \in Tasks /\ Keys \subseteq Setters
      BY RestOK, WhoSets DEF TaskOK
  <2>2. IsFiniteSet({}) /\ Cardinality({}) <= MaxRefresh
      BY FS_EmptySet, ManagerAssumption
  <2> QED  BY <2>1, <2>2 DEF Init, TaskInv, RefreshExact, IsIdle
<1>3. WriteInv
  <2>1. Delayed = {}  BY DEF Init, Delayed
  <2>2. IsFiniteSet(Delayed) /\ Cardinality(Delayed) <= MaxPending
      BY <2>1, FS_EmptySet, ManagerAssumption
  <2>3. 0 \in Versions  BY ManagerAssumption
  <2> QED  BY <2>2, <2>3 DEF Init, WriteInv
<1>4. RestInv  BY DEF Init, RestInv
<1> QED  BY <1>1, <1>2, <1>3, <1>4 DEF IInv

\* A task that is given to a caller: what it does, and where it is.
LEMMA GivenTask ==
    ASSUME TaskInv, NEW x \in Callers, NEW o \in Ops, NEW p \in {"fetching", "waiting"}, NEW k \in Keys,
           task' = Does(x, o, p, k), refreshing' = refreshing
    PROVE  TaskInv'
<1> DEFINE t == [op |-> o, step |-> p, key |-> k, value |-> Absent]
<1>1. TaskOK(t)  BY DEF TaskOK, Tasks, Steps
<1>2. task' = [task EXCEPT ![x] = t]  BY DEF Does
<1> HIDE DEF t
<1> QED  BY <1>1, <1>2, CallersTask

LEMMA CallKeeps ==
    ASSUME IInv, NEW c \in Clients, NEW strategy \in Strategies, NEW k \in Keys,
           NEW force \in BOOLEAN, NEW old \in BOOLEAN, Call(c, strategy, k, force, old)
    PROVE  IInv'
<1>1. StoreInv'
  <2>1. Sound(store')
      BY GotSound DEF IInv, Call, StoreInv
  <2> QED  BY <2>1, OnlyTheStore DEF IInv, Call, invalidation
<1>2. TaskInv'
  <2>1. CASE UNCHANGED <<task, refreshing>>
      BY <2>1, SameTasks DEF IInv
  <2>2. CASE RoomToRefresh(k) /\ task' = Does(k, "fetch", "fetching", k) /\ refreshing' = refreshing \cup {k}
      BY <2>2, RefreshBegins DEF IInv
  <2>3. CASE task' = Does(c, IF strategy = "write_behind" THEN "behind" ELSE "fetch", "fetching", k)
             /\ refreshing' = refreshing
    <3>1. PICK o \in Ops : task' = Does(c, o, "fetching", k)
        BY <2>3 DEF Ops
    <3>2. c \in Callers  BY WhoSets
    <3> QED  BY <2>3, <3>1, <3>2, GivenTask DEF IInv
  <2> QED  BY <2>1, <2>2, <2>3 DEF Call
<1>3. WriteInv' /\ RestInv'
    BY SameWrites, SameRest DEF IInv, Call, invalidation
<1> QED  BY <1>1, <1>2, <1>3 DEF IInv

LEMMA PutBeginsKeeps ==
    ASSUME IInv, NEW c \in Clients, NEW k \in Keys, PutBegins(c, k)
    PROVE  IInv'
<1>1. c \in Callers /\ "put" \in Ops  BY WhoSets DEF Ops
<1>2. TaskInv'  BY <1>1, GivenTask DEF IInv, PutBegins
<1> QED  BY <1>2, SameStore, SameWrites, SameRest DEF IInv, PutBegins

LEMMA GetKeeps ==
    ASSUME IInv, NEW c \in Clients, NEW k \in Keys, Get(c, k)
    PROVE  IInv'
<1>1. c \in Callers /\ "get" \in Ops  BY WhoSets DEF Ops
<1>2. StoreInv'
  <2>1. Sound(store')  BY GotSound DEF IInv, Get, StoreInv
  <2> QED  BY <2>1, OnlyTheStore DEF IInv, Get, invalidation
<1>3. TaskInv'
    BY <1>1, GivenTask, SameTasks DEF IInv, Get
<1> QED  BY <1>2, <1>3, SameWrites, SameRest DEF IInv, Get, invalidation

LEMMA FetchedKeeps ==
    ASSUME IInv, NEW x \in Clients \cup Keys, Fetched(x)
    PROVE  IInv'
<1> DEFINE t == [op |-> task[x].op, step |-> "storing", key |-> task[x].key, value |-> source[task[x].key]]
<1>1. /\ x \in Setters /\ task[x] \in Tasks /\ task[x].step = "fetching" /\ task[x].key \in Keys
      /\ (x \in Keys => IsRefresh(task[x]) /\ ~IsIdle(x))
    BY WhoSets DEF IInv, TaskInv, TaskOK, Fetched, IsIdle
<1>2. source[task[x].key] \in Versions  BY <1>1 DEF IInv, WriteInv
<1>3. CASE task[x].op = "behind" /\ Cardinality(Delayed) < MaxPending
  <2>1. x \notin Keys /\ x \in Callers  BY <1>1, <1>3, WhoSets DEF IsRefresh
  <2>2. task' = [task EXCEPT ![x] = Rest] /\ pending' = [pending EXCEPT ![task[x].key] = source[task[x].key]]
        /\ UNCHANGED <<storeVars, source, refreshing, flush, guard, changed, timers>>
      BY <1>3, Zenon DEF Fetched, Delayed
  <2>3. TaskInv'  BY <2>1, <2>2, RestOK, CallersTask DEF IInv
  <2>4. WriteInv'  BY <1>1, <1>3, <2>2, WriteDelayed DEF IInv
  <2> QED  BY <2>2, <2>3, <2>4, SameStore, SameRest DEF IInv
<1>4. CASE ~(task[x].op = "behind" /\ Cardinality(Delayed) < MaxPending)
  <2>1. task' = [task EXCEPT ![x].step = "storing", ![x].value = source[task[x].key]]
        /\ UNCHANGED <<storeVars, source, refreshing, pending, flush, guard, changed, timers>>
      BY <1>4, Zenon DEF Fetched, Delayed
  <2>2. task' = [task EXCEPT ![x] = t]
    <3>1. task \in [Setters -> Tasks]  BY DEF IInv, TaskInv
    <3>2. t = [[task[x] EXCEPT !.step = "storing"] EXCEPT !.value = source[task[x].key]]
      <4>1. PICK r \in Tasks : r = task[x]  BY <1>1
      <4>2. [r EXCEPT !.step = "storing"] = [op |-> r.op, step |-> "storing", key |-> r.key, value |-> r.value]
          BY DEF Tasks
      <4> DEFINE r1 == [op |-> r.op, step |-> "storing", key |-> r.key, value |-> r.value]
      <4>3. ASSUME NEW w  PROVE [r1 EXCEPT !.value = w] = [op |-> r.op, step |-> "storing", key |-> r.key, value |-> w]
          OBVIOUS
      <4> QED  BY <4>1, <4>2, <4>3, Zenon
    <3>3. task' = [task EXCEPT ![x] = [[task[x] EXCEPT !.step = "storing"] EXCEPT !.value = source[task[x].key]]]
        BY <1>1, <2>1, <3>1
    <3> HIDE DEF t
    <3> QED  BY <3>2, <3>3
  <2>3. TaskOK(t)  BY <1>1, <1>2 DEF TaskOK, Tasks, Steps
  <2>4. TaskInv'
    <3>1. CASE x \in Keys
      <4>1. IsRefresh(t)  BY <1>1, <3>1 DEF IsRefresh
      <4> HIDE DEF t
      <4> QED  BY <1>1, <2>1, <2>2, <2>3, <3>1, <4>1, RefreshGoesOn DEF IInv
    <3>2. CASE x \notin Keys
      <4>1. x \in Callers  BY <3>2, WhoSets
      <4> HIDE DEF t
      <4> QED  BY <2>1, <2>2, <2>3, <4>1, CallersTask DEF IInv
    <3> QED  BY <3>1, <3>2
  <2> QED  BY <2>1, <2>4, SameStore, SameWrites, SameRest DEF IInv
<1> QED  BY <1>3, <1>4

LEMMA FetchFailsKeeps ==
    ASSUME IInv, NEW x \in Setters, FetchFails(x)
    PROVE  IInv'
<1>1. TaskInv'  BY TaskEnds DEF IInv, FetchFails
<1> QED  BY <1>1, SameStore, SameWrites, SameRest DEF IInv, FetchFails

\* The marks and the delayed writes once a value is stored.
LEMMA StoredKeeps ==
    ASSUME IInv, NEW x \in Setters, Stored(x), UNCHANGED <<source, flush, guard, changed, timers>>
    PROVE  TaskInv' /\ WriteInv' /\ RestInv'
<1>1. TaskInv'  BY TaskEnds DEF IInv, Stored
<1>2. WriteInv'  BY WriteTaken DEF IInv, Stored
<1> QED  BY <1>1, <1>2, SameRest DEF IInv

LEMMA StoreStepKeeps ==
    ASSUME IInv, NEW x \in Setters, StoreStep(x)
    PROVE  IInv'
<1> DEFINE k == task[x].key
           v == task[x].value
<1>1. k \in Keys /\ v \in Versions
    BY DEF IInv, TaskInv, TaskOK, StoreStep
<1>2. UNCHANGED <<source, flush, guard, changed, timers>>  BY DEF StoreStep
<1>3. CASE SetNow(x, k, v) /\ Stored(x)
  <2>1. StoreInv'
    <3> HIDE DEF k, v
    <3> QED  BY <1>1, <1>3, SetNowKeeps DEF IInv
  <2> QED  BY <1>2, <1>3, <2>1, StoredKeeps DEF IInv
<1>4. CASE SetEvicts(x, k, v) /\ UNCHANGED <<refreshing, pending, task>>
  <2>1. StoreInv'
    <3> HIDE DEF k, v
    <3> QED  BY <1>1, <1>4, SetEvictsKeeps DEF IInv
  <2> QED  BY <1>2, <1>4, <2>1, SameTasks, SameWrites, SameRest DEF IInv
<1>5. CASE EvictNext(x, v) /\ UNCHANGED <<refreshing, pending, task>>
  <2>1. StoreInv'
    <3> HIDE DEF k, v
    <3> QED  BY <1>1, <1>5, EvictNextKeeps DEF IInv
  <2> QED  BY <1>2, <1>5, <2>1, SameTasks, SameWrites, SameRest DEF IInv
<1>6. CASE SetAfterEviction(x, v) /\ Stored(x)
  <2>1. StoreInv'
    <3> HIDE DEF k, v
    <3> QED  BY <1>1, <1>6, SetAfterEvictionKeeps DEF IInv
  <2> QED  BY <1>2, <1>6, <2>1, StoredKeeps DEF IInv
<1> QED  BY <1>3, <1>4, <1>5, <1>6, Zenon DEF StoreStep

\* A caller's set goes from one step to the next.
LEMMA CallerGoesOn ==
    ASSUME TaskInv, NEW c \in Clients, task[c].step = "storing" \/ task[c].step = "evicting",
           NEW p \in {"stored", "evicting"}, task' = [task EXCEPT ![c].step = p], refreshing' = refreshing
    PROVE  TaskInv'
<1> DEFINE t == [op |-> task[c].op, step |-> p, key |-> task[c].key, value |-> task[c].value]
<1>1. c \in Callers /\ c \in Setters /\ TaskOK(task[c]) /\ task[c] \in Tasks
    BY WhoSets DEF TaskInv
<1>2. TaskOK(t)  BY <1>1 DEF TaskOK, Tasks, Steps
<1>3. task' = [task EXCEPT ![c] = t]
  <2>1. t = [task[c] EXCEPT !.step = p]
    <3>1. PICK r \in Tasks : r = task[c]  BY <1>1
    <3>2. [r EXCEPT !.step = p] = [op |-> r.op, step |-> p, key |-> r.key, value |-> r.value]
        BY DEF Tasks
    <3> QED  BY <3>1, <3>2, Zenon
  <2>2. task' = [task EXCEPT ![c] = [task[c] EXCEPT !.step = p]]
      BY <1>1 DEF TaskInv
  <2> HIDE DEF t
  <2> QED  BY <2>1, <2>2
<1> HIDE DEF t
<1> QED  BY <1>1, <1>2, <1>3, CallersTask

LEMMA PutStartsKeeps ==
    ASSUME IInv, NEW c \in Clients, PutStarts(c)
    PROVE  IInv'
<1> DEFINE k == task[c].key
           v == task[c].value
<1>1. /\ c \in Setters /\ k \in Keys /\ v \in Versions /\ task[c].step = "storing"
      /\ UNCHANGED <<source, refreshing, pending, flush, changed, timers>>
    BY WhoSets DEF IInv, TaskInv, TaskOK, PutStarts
<1>2. RestInv'
  <2>1. guard' = [guard EXCEPT ![k] = c]  BY DEF PutStarts
  <2> QED  BY <1>1, <2>1 DEF IInv, RestInv
<1>3. CASE SetNow(c, k, v) /\ task' = [task EXCEPT ![c].step = "stored"]
  <2>1. StoreInv'
    <3> HIDE DEF k, v
    <3> QED  BY <1>1, <1>3, SetNowKeeps DEF IInv
  <2>2. TaskInv'  BY <1>1, <1>3, CallerGoesOn DEF IInv
  <2> QED  BY <1>1, <1>2, <2>1, <2>2, SameWrites DEF IInv
<1>4. CASE SetEvicts(c, k, v) /\ task' = [task EXCEPT ![c].step = "evicting"]
  <2>1. StoreInv'
    <3> HIDE DEF k, v
    <3> QED  BY <1>1, <1>4, SetEvictsKeeps DEF IInv
  <2>2. TaskInv'  BY <1>1, <1>4, CallerGoesOn DEF IInv
  <2> QED  BY <1>1, <1>2, <2>1, <2>2, SameWrites DEF IInv
<1> QED  BY <1>3, <1>4, Zenon DEF PutStarts

LEMMA PutJoinsKeeps ==
    ASSUME IInv, NEW c \in Clients, PutJoins(c)
    PROVE  IInv'
<1>1. c \in Callers /\ c \in Setters /\ task[c].key \in Keys /\ "put" \in Ops
    BY WhoSets DEF IInv, TaskInv, TaskOK, PutJoins, Ops
<1>2. PICK k \in Keys : k = task[c].key  BY <1>1
<1>3. task' = Does(c, "put", "waiting", k) /\ refreshing' = refreshing
    BY <1>2 DEF PutJoins
<1>4. TaskInv'  BY <1>1, <1>3, GivenTask DEF IInv
<1> QED  BY <1>4, SameStore, SameWrites, SameRest DEF IInv, PutJoins

LEMMA PutEvictsKeeps ==
    ASSUME IInv, NEW c \in Clients, PutEvicts(c)
    PROVE  IInv'
<1> DEFINE v == task[c].value
<1>1. /\ c \in Setters /\ v \in Versions /\ task[c].step = "evicting"
      /\ UNCHANGED <<source, refreshing, pending, flush, guard, changed, timers>>
    BY WhoSets DEF IInv, TaskInv, TaskOK, PutEvicts
<1>2. CASE EvictNext(c, v) /\ UNCHANGED task
  <2>1. StoreInv'
    <3> HIDE DEF v
    <3> QED  BY <1>1, <1>2, EvictNextKeeps DEF IInv
  <2> QED  BY <1>1, <1>2, <2>1, SameTasks, SameWrites, SameRest DEF IInv
<1>3. CASE SetAfterEviction(c, v) /\ task' = [task EXCEPT ![c].step = "stored"]
  <2>1. StoreInv'
    <3> HIDE DEF v
    <3> QED  BY <1>1, <1>3, SetAfterEvictionKeeps DEF IInv
  <2>2. TaskInv'  BY <1>1, <1>3, CallerGoesOn DEF IInv
  <2> QED  BY <1>1, <2>1, <2>2, SameWrites, SameRest DEF IInv
<1> QED  BY <1>2, <1>3, Zenon DEF PutEvicts

LEMMA GuardLiftedKeeps ==
    ASSUME IInv, NEW c \in Clients, GuardLifted(c)
    PROVE  IInv'
<1>1. TaskInv'  BY ReleasedKeeps DEF IInv, GuardLifted
<1>2. RestInv'  BY DEF IInv, RestInv, GuardLifted, Unguarded
<1> QED  BY <1>1, <1>2, SameStore, SameWrites DEF IInv, GuardLifted

LEMMA ResumedKeeps ==
    ASSUME IInv, NEW c \in Clients, Resumed(c)
    PROVE  IInv'
<1>1. c \in Callers /\ task[c].key \in Keys
    BY WhoSets DEF IInv, TaskInv, TaskOK, Resumed
<1>2. Sound(store')
  <2>1. PICK k \in Keys : k = task[c].key  BY <1>1
  <2>2. Sound(Got(k))  BY GotSound DEF IInv
  <2> QED  BY <2>1, <2>2 DEF Resumed, IInv, StoreInv
<1>3. StoreInv'  BY <1>2, OnlyTheStore DEF IInv, Resumed, invalidation
<1>4. TaskInv'  BY <1>1, RestOK, CallersTask DEF IInv, Resumed
<1> QED  BY <1>3, <1>4, SameWrites, SameRest DEF IInv, Resumed, invalidation

LEMMA FlushKeeps ==
    ASSUME IInv, NEW todo \in Seq(Entry), todo # <<>>, Flush(todo)
    PROVE  IInv'
<1>1. PICK w \in Entry : w = Head(todo)  BY GoesOn
<1> DEFINE t == Writing(w)
<1>2. TaskOK(t)  BY DEF TaskOK, Writing, Entry, Tasks, Ops, Steps
<1>3. task' = [task EXCEPT !["flush"] = t] /\ refreshing' = refreshing
    BY <1>1 DEF Flush
<1> HIDE DEF t
<1>4. TaskInv'  BY <1>2, <1>3, WhoSets, CallersTask DEF IInv
<1>5. WriteInv'
  <2>1. Tail(todo) \in Seq(Entry)  BY GoesOn
  <2>2. flush' \in Seq(Entry)  BY <2>1 DEF Flush
  <2> QED  BY <2>2 DEF IInv, WriteInv, Delayed, Flush
<1> QED  BY <1>4, <1>5, SameStore, SameRest DEF IInv, Flush

LEMMA FlushStepKeeps ==
    ASSUME IInv, FlushStep
    PROVE  IInv'
<1>1. CASE ProcessPendingWrites
  <2>1. PICK q \in SetToSeqs(Delayed) : Delayed # {} /\ Flush(Writes(q))
      BY <1>1, Zenon DEF ProcessPendingWrites, Delayed
  <2>2. Writes(q) \in Seq(Entry) /\ Writes(q) # <<>>  BY <2>1, FlushTakes DEF IInv
  <2> QED  BY <2>1, <2>2, FlushKeeps
<1>2. CASE FlushNext
  <2>1. flush \in Seq(Entry)  BY DEF IInv, WriteInv
  <2> QED  BY <1>2, <2>1, FlushKeeps DEF FlushNext
<1>3. CASE StoreStep("flush")
    BY <1>3, WhoSets, StoreStepKeeps
<1> QED  BY <1>1, <1>2, <1>3 DEF FlushStep

LEMMA ChangeKeeps ==
    ASSUME IInv, NEW k \in Keys, Change(k)
    PROVE  IInv'
<1>1. WriteInv'  BY DEF IInv, WriteInv, Delayed, Change
<1>2. RestInv'  BY DEF IInv, RestInv, Change
<1> QED  BY <1>1, <1>2, SameStore, SameTasks DEF IInv, Change

LEMMA InvalidateKeeps ==
    ASSUME IInv, NEW k \in Keys, InvalidateByEntityChange(k)
    PROVE  IInv'
<1>1. PICK ks \in SUBSET Keys : DeleteMany(k, ks)
  <2>1. RuleTag[k] \in Tags  BY ManagerAssumption
  <2>2. store.tagged[RuleTag[k]] \in SUBSET Keys  BY <2>1 DEF IInv, StoreInv, Sound, Stores
  <2> QED  BY <2>2 DEF InvalidateByEntityChange
<1>2. k \in Sweepers  BY ManagerAssumption
<1>3. StoreInv'  BY <1>1, <1>2, DeleteManyKeeps DEF IInv
<1>4. RestInv'
  <2>1. Dependents[k] \subseteq Keys  BY ManagerAssumption
  <2> QED  BY <2>1 DEF IInv, RestInv, InvalidateByEntityChange
<1> QED  BY <1>3, <1>4, SameTasks, SameWrites DEF IInv, InvalidateByEntityChange

LEMMA CascadeKeeps ==
    ASSUME IInv, NEW k \in Keys, CascadeFires(k)
    PROVE  IInv'
<1>1. Sound(store')  BY DeletedSound DEF IInv, StoreInv, CascadeFires
<1>2. StoreInv'  BY <1>1, OnlyTheStore DEF IInv, CascadeFires
<1>3. RestInv'  BY DEF IInv, RestInv, CascadeFires
<1> QED  BY <1>2, <1>3, SameTasks, SameWrites DEF IInv, CascadeFires

\* A step that leaves the manager alone keeps what holds of it.
LEMMA SameManager ==
    ASSUME IInv, UNCHANGED managerVars, StoreInv'
    PROVE  IInv'
BY SameTasks, SameWrites, SameRest DEF IInv, managerVars

LEMMA NextKeepsIInv == IInv /\ [Next]_vars => IInv'
<1> SUFFICES ASSUME IInv, [Next]_vars  PROVE IInv'
    OBVIOUS
<1>0. Clients \subseteq Setters /\ Keys \subseteq Setters  BY WhoSets
<1>1. ASSUME NEW c \in Clients, NEW k \in Keys,
             \/ \E strategy \in Strategies, force, old \in BOOLEAN : Call(c, strategy, k, force, old)
             \/ PutBegins(c, k) \/ Get(c, k)
      PROVE  IInv'
    BY <1>1, CallKeeps, PutBeginsKeeps, GetKeeps
<1>2. ASSUME NEW x \in Clients \cup Keys, TaskStep(x)  PROVE IInv'
    BY <1>0, <1>2, FetchedKeeps, FetchFailsKeeps, StoreStepKeeps DEF TaskStep
<1>3. ASSUME NEW c \in Clients, ClientStep(c)  PROVE IInv'
    BY <1>2, <1>3, ResumedKeeps, PutStartsKeeps, PutJoinsKeeps, PutEvictsKeeps, GuardLiftedKeeps DEF ClientStep
<1>4. ASSUME NEW k \in Keys, Change(k) \/ InvalidateByEntityChange(k) \/ CascadeFires(k)  PROVE IInv'
    BY <1>4, ChangeKeeps, InvalidateKeeps, CascadeKeeps
<1>5. ASSUME NEW k \in Keys, StoreOnly(Expires(k))  PROVE IInv'
    BY <1>5, ExpiresKeeps, SameManager DEF StoreOnly, IInv
<1>6. CASE FlushStep  BY <1>6, FlushStepKeeps
<1>7. CASE StoreOnly(Cleanup)
  <2>1. PICK ks \in SUBSET Keys : DeleteMany("cleanup", ks)
      BY <1>7 DEF StoreOnly, Cleanup, Expired
  <2>2. "cleanup" \in Sweepers  BY ManagerAssumption
  <2>3. StoreInv'  BY <2>1, <2>2, DeleteManyKeeps DEF IInv
  <2> QED  BY <1>7, <2>3, SameManager DEF StoreOnly
<1>8. CASE StoreOnly(Clear)
    BY <1>8, ClearKeeps, SameManager DEF StoreOnly, IInv
<1>9. ASSUME NEW w \in Sweepers, StoreOnly(DeleteNext(w))  PROVE IInv'
    BY <1>9, DeleteNextKeeps, SameManager DEF StoreOnly, IInv
<1>10. CASE UNCHANGED vars
  <2>1. StoreInv'  BY <1>10, SameStore DEF vars, storeVars, IInv
  <2> QED  BY <1>10, <2>1, SameManager DEF vars, managerVars
<1>11. CASE Next
    BY <1>11, <1>1, <1>2, <1>3, <1>4, <1>5, <1>6, <1>7, <1>8, <1>9 DEF Next
<1> QED  BY <1>10, <1>11

\* In every behaviour of the cache, for every number of calls, keys and tags:
\* the running sum is the size of what is stored, however sets, evictions and
\* sweeps overlap; the index and the order speak of the stored keys, all of
\* them and once each; a key is marked as refreshed exactly while its refresh
\* runs; and no more refreshes or delayed writes are held than are allowed.
THEOREM CacheCorrect == Spec => [](TypeOK /\ UsageExact /\ IndexExact /\ RefreshExact)
<1>1. IInv => UsageExact /\ IndexExact /\ RefreshExact
  <2> SUFFICES ASSUME IInv  PROVE UsageExact /\ IndexExact /\ RefreshExact
      OBVIOUS
  <2>1. Present = Holding(store)  BY DEF Present, Holding
  <2>2. Units = UnitsIn(store)  BY <2>1 DEF Units, UnitsIn, UnitsOf
  <2> QED  BY <2>1, <2>2 DEF IInv, StoreInv, TaskInv, Sound, Listed, Indexed, Summed, UsageExact, IndexExact
<1>2. IInv => TypeOK
  <2> SUFFICES ASSUME IInv  PROVE TypeOK
      OBVIOUS
  <2>1. StoreTypeOK
      BY DEF IInv, StoreInv, Sound, Stores, Entries, SetsOK, SetRecords, StoreTypeOK
  <2>2. refreshing \subseteq Keys /\ Cardinality(refreshing) <= MaxRefresh
      BY DEF IInv, TaskInv, RefreshExact
  <2>3. /\ source \in [Keys -> Versions] /\ pending \in [Keys -> Versions \cup {Absent}]
        /\ Cardinality({k \in Keys : pending[k] # Absent}) <= MaxPending
      BY DEF IInv, WriteInv, Delayed
  <2> QED  BY <2>1, <2>2, <2>3 DEF IInv, RestInv, TypeOK
<1> QED  BY <1>1, <1>2, InitIInv, NextKeepsIInv, PTL DEF Spec
=============================================================================
