--------------------------- MODULE WebhookProofs ---------------------------
(***************************************************************************)
(* Proofs about the delivery manager, the event router and the pipeline.    *)
(*                                                                         *)
(* Delivery: the invariant counts, for every job, its tokens: the copies of *)
(* its entries in the queues and the entries in the hands of workers. That  *)
(* one is left is not inductive, for retryDeadLetterJob adds an entry and   *)
(* later removes a letter, and the letter it removes may be that of another *)
(* caller. What is inductive is that a job has more tokens than callers that *)
(* still owe such a removal.                                                *)
(*                                                                         *)
(* Router: the slots in use are those of running handlers, at every round   *)
(* of the loop that starts the handlers of a request.                       *)
(*                                                                         *)
(* Pipeline: a request that counts as matched owes a delivery to each of    *)
(* the handlers among its results that succeeded and that it has not yet    *)
(* handed the event to; and a recorded key is that of a job that was tried. *)
(***************************************************************************)
EXTENDS WebhookManager, CollectionLemmas, FiniteSetTheorems

-----------------------------------------------------------------------------

\* The copies of x in bag B.
Held(B, x) == IF x \in BagToSet(B) THEN B[x] ELSE 0

\* One copy more of each element of a set, and nothing else.
LEMMA BagUnionProperties ==
    ASSUME NEW B, IsABag(B), NEW S
    PROVE  /\ IsABag(B (+) SetToBag(S))
           /\ BagToSet(B (+) SetToBag(S)) = BagToSet(B) \cup S
           /\ \A x \in S : (B (+) SetToBag(S))[x] = Held(B, x) + 1
           /\ \A x \in BagToSet(B) \ S : (B (+) SetToBag(S))[x] = B[x]
<1> DEFINE C == B (+) SetToBag(S)
<1>1. C = [x \in BagToSet(B) \cup S |-> Held(B, x) + IF x \in S THEN 1 ELSE 0]
    BY DEF Held, BagToSet, SetToBag, (+)
<1>2. \A x : Held(B, x) \in Nat /\ (x \in BagToSet(B) => Held(B, x) = B[x] /\ Held(B, x) > 0)
    BY DEF Held, IsABag, BagToSet
<1> HIDE DEF C
<1>3. DOMAIN C = BagToSet(B) \cup S  BY <1>1
<1>4. \A x \in DOMAIN C : C[x] \in {n \in Nat : n > 0}  BY <1>1, <1>2
<1>5. C \in [DOMAIN C -> {n \in Nat : n > 0}]  BY <1>1, <1>4
<1> QED  BY <1>1, <1>2, <1>3, <1>5 DEF IsABag, BagToSet, C

\* One copy of an element less, if there was one, and nothing else.
LEMMA BagTakeProperties ==
    ASSUME NEW B, IsABag(B), NEW x
    PROVE  /\ IsABag(B (-) SetToBag({x}))
           /\ BagToSet(B (-) SetToBag({x})) \subseteq BagToSet(B)
           /\ \A y \in BagToSet(B) \ {x} :
                y \in BagToSet(B (-) SetToBag({x})) /\ (B (-) SetToBag({x}))[y] = B[y]
           /\ x \in BagToSet(B) /\ B[x] > 1 =>
                x \in BagToSet(B (-) SetToBag({x})) /\ (B (-) SetToBag({x}))[x] = B[x] - 1
           /\ x \in BagToSet(B) /\ B[x] = 1 => x \notin BagToSet(B (-) SetToBag({x}))
           /\ x \notin BagToSet(B) => B (-) SetToBag({x}) = B
<1> DEFINE C == B (-) SetToBag({x})
           D == [y \in BagToSet(B) |-> IF y = x THEN B[y] - 1 ELSE B[y]]
<1>1. C = [y \in {z \in BagToSet(B) : D[z] > 0} |-> D[y]]
  <2>1. D = [y \in DOMAIN B |-> IF y \in DOMAIN SetToBag({x}) THEN B[y] - SetToBag({x})[y] ELSE B[y]]
      BY DEF BagToSet, SetToBag
  <2>2. DOMAIN D = BagToSet(B)  OBVIOUS
  <2> HIDE DEF D
  <2> QED  BY <2>1, <2>2, Zenon DEF (-)
<1>2. \A y \in BagToSet(B) : B[y] \in Nat /\ B[y] > 0 /\ D[y] \in Int /\ (y # x => D[y] = B[y]) /\ (y = x => D[y] = B[x] - 1)
    BY DEF IsABag, BagToSet
<1> HIDE DEF C, D
<1>3. DOMAIN C = {z \in BagToSet(B) : D[z] > 0}  BY <1>1
<1>4. C \in [DOMAIN C -> {n \in Nat : n > 0}]
  <2>1. \A y \in DOMAIN C : C[y] \in {n \in Nat : n > 0}  BY <1>1, <1>2, <1>3
  <2>2. C = [y \in DOMAIN C |-> C[y]]  BY <1>1, <1>3
  <2> QED  BY <2>1, <2>2
<1>5. x \notin BagToSet(B) => C = B
  <2>1. SUFFICES ASSUME x \notin BagToSet(B)  PROVE C = B  OBVIOUS
  <2>2. DOMAIN C = DOMAIN B /\ \A y \in DOMAIN B : C[y] = B[y]  BY <1>1, <1>2, <1>3, <2>1 DEF BagToSet
  <2>3. B = [y \in DOMAIN B |-> B[y]] /\ C = [y \in DOMAIN C |-> C[y]]  BY <1>4 DEF IsABag
  <2> QED  BY <2>2, <2>3
<1> QED  BY <1>1, <1>2, <1>3, <1>4, <1>5 DEF IsABag, BagToSet, C

\* The numbered copies of a job are those of its entries.
LEMMA CopyMember ==
    ASSUME NEW B, IsABag(B), NEW j, NEW c
    PROVE  c \in CopiesFor(j, B) <=> \E x \in BagToSet(B) : x.job = j /\ \E i \in 1..B[x] : c = <<x, i>>
BY DEF CopiesFor, BagToSet, IsABag

\* An entry that is added brings one copy, with the next number.
LEMMA CopiesAdded ==
    ASSUME NEW B, IsABag(B), NEW x, NEW j
    PROVE  IF x.job = j
           THEN /\ CopiesFor(j, B (+) SetToBag({x})) = CopiesFor(j, B) \cup {<<x, Held(B, x) + 1>>}
                /\ <<x, Held(B, x) + 1>> \notin CopiesFor(j, B)
           ELSE CopiesFor(j, B (+) SetToBag({x})) = CopiesFor(j, B)
<1> DEFINE C == B (+) SetToBag({x})  n == Held(B, x)
<1>1. /\ IsABag(C) /\ BagToSet(C) = BagToSet(B) \cup {x}
      /\ C[x] = n + 1
      /\ \A y \in BagToSet(B) \ {x} : C[y] = B[y]
    BY BagUnionProperties
<1>2. n \in Nat /\ (x \in BagToSet(B) => n = B[x]) /\ (x \notin BagToSet(B) => n = 0)
    BY DEF Held, IsABag, BagToSet
<1>3. \A i : i \in 1..(n + 1) <=> i \in 1..n \/ i = n + 1  BY <1>2
<1> HIDE DEF C, n
<1>4. \A c : c \in CopiesFor(j, C) <=> \E y \in BagToSet(C) : y.job = j /\ \E i \in 1..C[y] : c = <<y, i>>
    BY <1>1, CopyMember
<1>5. \A c : c \in CopiesFor(j, B) <=> \E y \in BagToSet(B) : y.job = j /\ \E i \in 1..B[y] : c = <<y, i>>
    BY CopyMember
<1>6. ASSUME x.job = j  PROVE CopiesFor(j, C) = CopiesFor(j, B) \cup {<<x, n + 1>>}
  <2>1. \A y \in BagToSet(B) \ {x} : 1..C[y] = 1..B[y]  BY <1>1
  <2>2. 1..n = {} \/ x \in BagToSet(B)  BY <1>2
  <2>3. ASSUME NEW c, c \in CopiesFor(j, C)  PROVE c \in CopiesFor(j, B) \cup {<<x, n + 1>>}
    <3>1. PICK y \in BagToSet(C), i \in Nat : i \in 1..C[y] /\ y.job = j /\ c = <<y, i>>  BY <1>4, <2>3
    <3>2. CASE y # x  BY <1>1, <1>5, <2>1, <3>1, <3>2
    <3>3. CASE y = x
      <4>1. i \in 1..n \/ i = n + 1  BY <1>1, <1>3, <3>1, <3>3
      <4> QED  BY <1>2, <1>5, <2>2, <3>1, <3>3, <4>1
    <3> QED  BY <3>2, <3>3
  <2>4. ASSUME NEW c, c \in CopiesFor(j, B)  PROVE c \in CopiesFor(j, C)
    <3>1. PICK y \in BagToSet(B), i \in Nat : i \in 1..B[y] /\ y.job = j /\ c = <<y, i>>  BY <1>5, <2>4
    <3>2. y # x => i \in 1..C[y]  BY <1>1, <3>1
    <3>3. y = x => i \in 1..C[y]  BY <1>1, <1>2, <1>3, <3>1
    <3> QED  BY <1>1, <1>4, <3>1, <3>2, <3>3
  <2>5. <<x, n + 1>> \in CopiesFor(j, C)
    <3>1. n + 1 \in 1..C[x]  BY <1>1, <1>2
    <3> QED  BY <1>1, <1>4, <1>6, <3>1
  <2> QED  BY <2>3, <2>4, <2>5
<1>7. <<x, n + 1>> \notin CopiesFor(j, B)
  <2>1. SUFFICES ASSUME <<x, n + 1>> \in CopiesFor(j, B)  PROVE FALSE  OBVIOUS
  <2>2. PICK y \in BagToSet(B), i \in Nat : i \in 1..B[y] /\ <<x, n + 1>> = <<y, i>>  BY <1>5, <2>1
  <2> QED  BY <1>2, <2>2
<1>8. ASSUME x.job # j  PROVE CopiesFor(j, C) = CopiesFor(j, B)
  <2>1. \A y \in BagToSet(B) \ {x} : 1..C[y] = 1..B[y]  BY <1>1
  <2>2. \A c : c \in CopiesFor(j, C) <=> c \in CopiesFor(j, B)  BY <1>1, <1>4, <1>5, <1>8, <2>1
  <2> QED  BY <2>2
<1> QED  BY <1>6, <1>7, <1>8 DEF C, n

\* An entry that is removed takes the copy with the last number.
LEMMA CopiesRemoved ==
    ASSUME NEW B, IsABag(B), NEW x, NEW j
    PROVE  IF x \in BagToSet(B) /\ x.job = j
           THEN /\ CopiesFor(j, B (-) SetToBag({x})) = CopiesFor(j, B) \ {<<x, B[x]>>}
                /\ <<x, B[x]>> \in CopiesFor(j, B)
           ELSE CopiesFor(j, B (-) SetToBag({x})) = CopiesFor(j, B)
<1> DEFINE C == B (-) SetToBag({x})  n == B[x]
<1>1. /\ IsABag(C) /\ BagToSet(C) \subseteq BagToSet(B)
      /\ \A y \in BagToSet(B) \ {x} : y \in BagToSet(C) /\ C[y] = B[y]
      /\ x \in BagToSet(B) /\ n > 1 => x \in BagToSet(C) /\ C[x] = n - 1
      /\ x \in BagToSet(B) /\ n = 1 => x \notin BagToSet(C)
      /\ x \notin BagToSet(B) => C = B
    BY BagTakeProperties
<1>2. x \in BagToSet(B) => n \in Nat \ {0}
    BY DEF IsABag, BagToSet
<1> HIDE DEF C, n
<1>4. \A c : c \in CopiesFor(j, C) <=> \E y \in BagToSet(C) : y.job = j /\ \E i \in 1..C[y] : c = <<y, i>>
    BY <1>1, CopyMember
<1>5. \A c : c \in CopiesFor(j, B) <=> \E y \in BagToSet(B) : y.job = j /\ \E i \in 1..B[y] : c = <<y, i>>
    BY CopyMember
<1>6. ASSUME x \in BagToSet(B), x.job = j  PROVE CopiesFor(j, C) = CopiesFor(j, B) \ {<<x, n>>}
  <2>1. \A y \in BagToSet(B) \ {x} : 1..C[y] = 1..B[y]  BY <1>1
  <2>2. x \in BagToSet(C) => n - 1 \in Nat /\ C[x] = n - 1  BY <1>1, <1>2, <1>6
  <2>3. ASSUME NEW c, c \in CopiesFor(j, C)  PROVE c \in CopiesFor(j, B) \ {<<x, n>>}
    <3>1. PICK y \in BagToSet(C), i \in Nat : i \in 1..C[y] /\ y.job = j /\ c = <<y, i>>  BY <1>4, <2>3
    <3>2. CASE y # x  BY <1>1, <1>5, <2>1, <3>1, <3>2
    <3>3. CASE y = x
      <4>1. i \in 1..n /\ i # n  BY <1>2, <1>6, <2>2, <3>1, <3>3
      <4> QED  BY <1>5, <1>6, <3>1, <3>3, <4>1 DEF n
    <3> QED  BY <3>2, <3>3
  <2>4. ASSUME NEW c, c \in CopiesFor(j, B), c # <<x, n>>  PROVE c \in CopiesFor(j, C)
    <3>1. PICK y \in BagToSet(B), i \in Nat : i \in 1..B[y] /\ y.job = j /\ c = <<y, i>>  BY <1>5, <2>4
    <3>2. y # x => y \in BagToSet(C) /\ i \in 1..C[y]  BY <1>1, <3>1
    <3>3. y = x => y \in BagToSet(C) /\ i \in 1..C[y]
      <4>1. SUFFICES ASSUME y = x  PROVE x \in BagToSet(C) /\ i \in 1..C[x]  OBVIOUS
      <4>2. i # n /\ i \in 1..n  BY <2>4, <3>1, <4>1 DEF n
      <4>3. n > 1  BY <1>2, <1>6, <4>2
      <4> QED  BY <1>1, <1>2, <1>6, <4>2, <4>3
    <3> QED  BY <1>1, <1>4, <3>1, <3>2, <3>3
  <2> QED  BY <2>3, <2>4, <1>4
<1>7. ASSUME x \in BagToSet(B), x.job = j  PROVE <<x, n>> \in CopiesFor(j, B)
  <2>1. n \in 1..B[x]  BY <1>2, <1>7 DEF n
  <2> QED  BY <1>5, <1>7, <2>1
<1>8. ASSUME x.job # j  PROVE CopiesFor(j, C) = CopiesFor(j, B)
  <2>1. \A y \in BagToSet(B) \ {x} : 1..C[y] = 1..B[y]  BY <1>1
  <2>2. \A c : c \in CopiesFor(j, C) <=> c \in CopiesFor(j, B)  BY <1>1, <1>4, <1>5, <1>8, <2>1
  <2> QED  BY <2>2
<1> QED  BY <1>1, <1>6, <1>7, <1>8 DEF C, n

\* A set of entries that is added brings at most one copy for each.
LEMMA CopiesUnited ==
    ASSUME NEW B, IsABag(B), NEW S, NEW j, IsFiniteSet(CopiesFor(j, B)),
           IsFiniteSet({x \in S : x.job = j})
    PROVE  /\ IsFiniteSet(CopiesFor(j, B (+) SetToBag(S)))
           /\ Cardinality(CopiesFor(j, B (+) SetToBag(S)))
                <= Cardinality(CopiesFor(j, B)) + Cardinality({x \in S : x.job = j})
<1> DEFINE C == B (+) SetToBag(S)
           T == {x \in S : x.job = j}
           U == {<<x, Held(B, x) + 1>> : x \in T}
           f == [x \in T |-> <<x, Held(B, x) + 1>>]
<1>1. /\ IsABag(C) /\ BagToSet(C) = BagToSet(B) \cup S
      /\ \A x \in S : C[x] = Held(B, x) + 1
      /\ \A x \in BagToSet(B) \ S : C[x] = B[x]
    BY BagUnionProperties
<1>2. \A x : Held(B, x) \in Nat /\ (x \in BagToSet(B) => Held(B, x) = B[x]) /\ (x \notin BagToSet(B) => Held(B, x) = 0)
    BY DEF Held, IsABag, BagToSet
<1>3. f \in Surjection(T, U)  BY DEF Surjection
<1>4. IsFiniteSet(U) /\ Cardinality(U) <= Cardinality(T)
  <2> HIDE DEF f, T, U
  <2> QED  BY <1>3, FS_Surjection DEF T
<1> HIDE DEF C
<1>5. CopiesFor(j, C) \subseteq CopiesFor(j, B) \cup U
  <2>1. \A c : c \in CopiesFor(j, C) <=> \E y \in BagToSet(C) : y.job = j /\ \E i \in 1..C[y] : c = <<y, i>>
      BY <1>1, CopyMember
  <2>2. \A c : c \in CopiesFor(j, B) <=> \E y \in BagToSet(B) : y.job = j /\ \E i \in 1..B[y] : c = <<y, i>>
      BY CopyMember
  <2>3. SUFFICES ASSUME NEW c \in CopiesFor(j, C)  PROVE c \in CopiesFor(j, B) \cup U
      OBVIOUS
  <2>4. PICK y \in BagToSet(C), i \in Nat : i \in 1..C[y] /\ y.job = j /\ c = <<y, i>>
      BY <2>1
  <2>5. CASE y \notin S  BY <1>1, <2>2, <2>4, <2>5
  <2>6. CASE y \in S
    <3>1. i \in 1..Held(B, y) \/ i = Held(B, y) + 1  BY <1>1, <1>2, <2>4, <2>6
    <3>2. CASE i = Held(B, y) + 1  BY <2>4, <2>6, <3>2
    <3>3. CASE i \in 1..Held(B, y)
      <4>1. y \in BagToSet(B) /\ i \in 1..B[y]
        <5>1. Held(B, y) # 0  BY <3>3, <1>2
        <5> QED  BY <1>2, <3>3, <5>1
      <4> QED  BY <2>2, <2>4, <4>1
    <3> QED  BY <3>1, <3>2, <3>3
  <2> QED  BY <2>5, <2>6
<1> HIDE DEF U, T
<1>6. IsFiniteSet(CopiesFor(j, C)) /\ Cardinality(CopiesFor(j, C)) <= Cardinality(CopiesFor(j, B) \cup U)
  BY <1>4, <1>5, FS_Union, FS_Subset
<1>7. Cardinality(CopiesFor(j, B) \cup U) <= Cardinality(CopiesFor(j, B)) + Cardinality(U)
  <2>1. IsFiniteSet(CopiesFor(j, B) \cap U)  BY <1>4, FS_Subset
  <2>2. /\ Cardinality(CopiesFor(j, B) \cap U) \in Nat /\ Cardinality(CopiesFor(j, B)) \in Nat /\ Cardinality(U) \in Nat
      BY <1>4, <2>1, FS_CardinalityType
  <2>3. Cardinality(CopiesFor(j, B) \cup U)
          = Cardinality(CopiesFor(j, B)) + Cardinality(U) - Cardinality(CopiesFor(j, B) \cap U)
      BY <1>4, FS_Union
  <2> QED  BY <2>2, <2>3
<1>8. /\ Cardinality(CopiesFor(j, B)) \in Nat /\ Cardinality(U) \in Nat /\ Cardinality(T) \in Nat
      /\ Cardinality(CopiesFor(j, B) \cup U) \in Nat /\ Cardinality(CopiesFor(j, C)) \in Nat
    BY <1>4, <1>6, FS_CardinalityType, FS_Union DEF T
<1> QED  BY <1>4, <1>6, <1>7, <1>8 DEF C, T

\* Doubled[n] is 2 to the power of n.
LEMMA DoubledProperties ==
    /\ Doubled[0] = 1
    /\ \A n \in 0..MaxCrashes : Doubled[n] \in Nat \ {0}
    /\ \A n \in 1..MaxCrashes : Doubled[n] = 2 * Doubled[n - 1]
<1> DEFINE G == [i \in 1..MaxCrashes |-> [x \in Nat |-> 2 * x]]
           Rec(f) == f = [n \in 0..MaxCrashes |-> IF n = 0 THEN 1 ELSE 2 * f[n - 1]]
           S == {n \in 0..MaxCrashes : Doubled[n] \in Nat \ {0}}
<1>0. MaxCrashes \in Nat  BY DeliveryAssumption
<1>1. PICK g \in [0..MaxCrashes -> Nat] : Runs(g, MaxCrashes, 1, G)
  <2>1. G \in [1..MaxCrashes -> [Nat -> Nat]]  OBVIOUS
  <2> HIDE DEF G
  <2> QED  BY <1>0, <2>1, RecursionOnInterval
<1>2. Rec(g)
  <2>1. \A n \in 0..MaxCrashes : n # 0 => n \in 1..MaxCrashes /\ n - 1 \in 0..MaxCrashes  BY <1>0
  <2> QED  BY <1>1, <2>1 DEF Runs
<1>3. Doubled = CHOOSE f : Rec(f)  BY Zenon DEF Doubled
<1>4. Rec(Doubled)
  <2> HIDE DEF Rec
  <2> QED  BY <1>2, <1>3, Zenon
<1>5. Doubled[0] = 1 /\ \A n \in 1..MaxCrashes : Doubled[n] = 2 * Doubled[n - 1]
  <2>1. \A n \in 1..MaxCrashes : n \in 0..MaxCrashes /\ n # 0  BY <1>0
  <2> QED  BY <1>0, <1>4, <2>1
<1>6. 0 \in S /\ \A n \in 1..MaxCrashes : n - 1 \in S => n \in S
  BY <1>0, <1>5
<1>7. \A n \in 0..MaxCrashes : n \in S
  <2> HIDE DEF S
  <2> QED  BY <1>0, <1>6, IntervalInduction
<1> QED  BY <1>5, <1>7

-----------------------------------------------------------------------------
\* The entries there can be: the first attempt is in the main queue, later
\* ones are in the retry queue.
Sound == {x \in Entry : (x.queue = "main" => x.attempt = 1) /\ (x.queue = "retry" => x.attempt > 1)}
Fates == {"accepted", "rejected", "suppressed", "completed", "cancelled", "dropped", "evicted"}

\* The types: a worker has an entry of its own queue, and its successor is of
\* the same job.
QueuesTyped == IsABag(waiting) /\ BagToSet(waiting) \subseteq Sound
WorkersTyped ==
    /\ working \in [Workers -> [entry : Sound \cup {None}, successor : Sound \cup {None}]]
    /\ \A w \in Workers : working[w].entry # None => working[w].entry.queue = w
    /\ \A w \in Workers : working[w].successor # None =>
          working[w].entry # None /\ working[w].successor.job = working[w].entry.job
RequeuesTyped ==
    /\ requeue \in [Admins -> [entry : Sound \cup {None}, added : BOOLEAN]]
    /\ requeued \in [Jobs -> Nat]
    /\ \A a \in Admins : requeue[a].added => requeue[a].entry # None
CallsTyped ==
    /\ adding \subseteq Jobs /\ keys \subseteq Keys /\ fate \in [Jobs -> SUBSET Fates]
    /\ crashes \in 0..MaxCrashes
DTyped == QueuesTyped /\ WorkersTyped /\ RequeuesTyped /\ CallsTyped

\* Entries are not None, and those the code makes are sound and of the same job.
LEMMA EntryShape ==
    /\ None \notin Sound
    /\ \A x \in Sound : x.job \in Jobs /\ x.attempt \in 1..MaxAttempts /\ x.queue \in {"main", "retry", "dead"}
    /\ \A j \in Jobs : First(j) \in Sound /\ First(j).job = j
    /\ \A x \in Sound : AttemptsLeft(x) => RetryFor(x) \in Sound /\ RetryFor(x).job = x.job
    /\ \A x \in Sound : LetterFor(x) \in Sound /\ LetterFor(x).job = x.job
<1>1. MaxAttempts \in Nat \ {0}  BY DeliveryAssumption
<1>2. Sound \subseteq Entry /\ None \notin Sound  BY NoneIsNoEntry DEF Sound
<1>3. \A x \in Sound : x.job \in Jobs /\ x.attempt \in 1..MaxAttempts /\ x.queue \in {"main", "retry", "dead"}
    BY DEF Sound, Entry
<1>4. \A j \in Jobs : First(j) \in Sound /\ First(j).job = j
    BY <1>1 DEF First, Sound, Entry
<1>5. ASSUME NEW x \in Sound, AttemptsLeft(x)  PROVE RetryFor(x) \in Sound /\ RetryFor(x).job = x.job
    BY <1>1, <1>3, <1>5 DEF RetryFor, AttemptsLeft, Sound, Entry
<1>6. ASSUME NEW x \in Sound  PROVE LetterFor(x) \in Sound /\ LetterFor(x).job = x.job
    BY <1>3, <1>6 DEF LetterFor, Sound, Entry
<1> QED  BY <1>2, <1>3, <1>4, <1>5, <1>6

\* The queues keep their type when a sound entry is added,
LEMMA QueuedOne ==
    ASSUME QueuesTyped, NEW x \in Sound, waiting' = waiting (+) SetToBag({x})
    PROVE  QueuesTyped'
BY BagUnionProperties DEF QueuesTyped

\* and when an entry is removed.
LEMMA TakenOne ==
    ASSUME QueuesTyped, NEW x, waiting' = waiting (-) SetToBag({x})
    PROVE  QueuesTyped'
BY BagTakeProperties DEF QueuesTyped

\* Marking a job keeps the type of fate.
LEMMA FateTyped ==
    ASSUME CallsTyped, NEW j \in Jobs, NEW f \in Fates
    PROVE  Becomes(j, f) \in [Jobs -> SUBSET Fates]
BY DEF CallsTyped, Becomes

\* Every step of the delivery manager keeps the types.
LEMMA DeliveryTyped ==
    ASSUME DTyped, [DeliveryNext]_deliveryVars
    PROVE  DTyped'
<1> USE DEF DTyped
<1>1. CASE UNCHANGED deliveryVars
    BY <1>1 DEF deliveryVars, QueuesTyped, WorkersTyped, RequeuesTyped, CallsTyped
<1>2. ASSUME NEW j \in Jobs, Deliver(j)  PROVE DTyped'
  <2>1. QueuesTyped' /\ WorkersTyped' /\ RequeuesTyped'
      BY <1>2 DEF Deliver, QueuesTyped, WorkersTyped, RequeuesTyped
  <2>2. Becomes(j, "suppressed") \in [Jobs -> SUBSET Fates]  BY FateTyped DEF Fates
  <2>3. KeyOf[j] \in Keys  BY DeliveryAssumption
  <2>4. CallsTyped'  BY <1>2, <2>2, <2>3 DEF Deliver, CallsTyped
  <2> QED  BY <2>1, <2>4
<1>3. ASSUME NEW j \in Jobs, NEW added \in BOOLEAN, DeliverEnds(j, added)  PROVE DTyped'
  <2>1. WorkersTyped' /\ RequeuesTyped'
      BY <1>3 DEF DeliverEnds, WorkersTyped, RequeuesTyped
  <2>2. fate' \in [Jobs -> SUBSET Fates]  BY <1>3, FateTyped DEF DeliverEnds, Fates
  <2>3. CallsTyped'  BY <1>3, <2>2 DEF DeliverEnds, CallsTyped
  <2>4. QueuesTyped'
    <3>1. CASE added  BY <1>3, <3>1, QueuedOne, EntryShape DEF DeliverEnds
    <3>2. CASE ~added  BY <1>3, <3>2 DEF DeliverEnds, QueuesTyped
    <3> QED  BY <3>1, <3>2
  <2> QED  BY <2>1, <2>3, <2>4
<1>4. ASSUME NEW w \in Workers, Take(w)  PROVE DTyped'
  <2>1. PICK x \in BagToSet(waiting) : x.queue = w /\ working' = [working EXCEPT ![w].entry = x]
                                       /\ waiting' = waiting (-) SetToBag({x})
      BY <1>4 DEF Take
  <2>2. x \in Sound  BY DEF QueuesTyped
  <2>3. QueuesTyped'  BY <2>1, TakenOne
  <2>4. WorkersTyped'  BY <1>4, <2>1, <2>2, EntryShape DEF WorkersTyped, Take
  <2>5. RequeuesTyped' /\ CallsTyped'  BY <1>4 DEF Take, RequeuesTyped, CallsTyped
  <2> QED  BY <2>3, <2>4, <2>5
<1>5. ASSUME NEW w \in Workers, HandlerSucceeds(w)  PROVE DTyped'
  <2>1. working[w].entry \in Sound  BY <1>5 DEF HandlerSucceeds, InHand, WorkersTyped
  <2>2. fate' \in [Jobs -> SUBSET Fates]  BY <1>5, <2>1, FateTyped, EntryShape DEF HandlerSucceeds, Fates
  <2>3. WorkersTyped'  BY <1>5 DEF HandlerSucceeds, WorkersTyped, Idle
  <2>4. QueuesTyped' /\ RequeuesTyped' /\ CallsTyped'
      BY <1>5, <2>2 DEF HandlerSucceeds, QueuesTyped, RequeuesTyped, CallsTyped
  <2> QED  BY <2>3, <2>4
<1>6. ASSUME NEW w \in Workers, NEW retryable \in BOOLEAN, HandlerFails(w, retryable)  PROVE DTyped'
  <2>1. working[w].entry \in Sound  BY <1>6 DEF HandlerFails, InHand, WorkersTyped
  <2>2. PICK y \in Sound : y.job = working[w].entry.job /\ working' = [working EXCEPT ![w].successor = y]
      BY <1>6, <2>1, EntryShape DEF HandlerFails
  <2>3. WorkersTyped'  BY <1>6, <2>1, <2>2, EntryShape DEF WorkersTyped
  <2>4. QueuesTyped' /\ RequeuesTyped' /\ CallsTyped'
      BY <1>6 DEF HandlerFails, QueuesTyped, RequeuesTyped, CallsTyped
  <2> QED  BY <2>3, <2>4
<1>7. ASSUME NEW w \in Workers, NEW added \in BOOLEAN, SuccessorAdded(w, added)  PROVE DTyped'
  <2>1. working[w].entry \in Sound /\ working[w].successor \in Sound
      BY <1>7 DEF SuccessorAdded, WorkersTyped
  <2>2. fate' \in [Jobs -> SUBSET Fates]
      BY <1>7, <2>1, FateTyped, EntryShape DEF SuccessorAdded, Fates, CallsTyped
  <2>3. WorkersTyped'  BY <1>7 DEF SuccessorAdded, Released, WorkersTyped, Idle
  <2>4. RequeuesTyped' /\ CallsTyped'
      BY <1>7, <2>2 DEF SuccessorAdded, RequeuesTyped, CallsTyped
  <2>5. QueuesTyped'
    <3>1. CASE added  BY <1>7, <2>1, <3>1, QueuedOne DEF SuccessorAdded
    <3>2. CASE ~added  BY <1>7, <3>2 DEF SuccessorAdded, QueuesTyped
    <3> QED  BY <3>1, <3>2
  <2> QED  BY <2>3, <2>4, <2>5
<1>8. ASSUME NEW a \in Admins, RequeueFound(a)  PROVE DTyped'
  <2>1. PICK x \in DeadLetters : requeue' = [requeue EXCEPT ![a].entry = x]  BY <1>8 DEF RequeueFound
  <2>2. x \in Sound  BY DEF DeadLetters, QueuesTyped
  <2>3. RequeuesTyped'  BY <1>8, <2>1, <2>2, EntryShape DEF RequeueFound, RequeuesTyped
  <2>4. QueuesTyped' /\ WorkersTyped' /\ CallsTyped'
      BY <1>8 DEF RequeueFound, QueuesTyped, WorkersTyped, CallsTyped
  <2> QED  BY <2>3, <2>4
<1>9. ASSUME NEW a \in Admins, RequeueAdded(a)  PROVE DTyped'
  <2>1. requeue[a].entry \in Sound  BY <1>9 DEF RequeueAdded, RequeuesTyped
  <2>2. QueuesTyped'  BY <1>9, <2>1, EntryShape, QueuedOne DEF RequeueAdded, WithRequeued
  <2>3. RequeuesTyped'
    <3>1. requeue' = [requeue EXCEPT ![a].added = TRUE] /\ requeue[a].entry # None
          /\ requeued' = [requeued EXCEPT ![requeue[a].entry.job] = @ + 1]
        BY <1>9 DEF RequeueAdded
    <3>2. requeued' \in [Jobs -> Nat]  BY <2>1, <3>1, EntryShape DEF RequeuesTyped
    <3>3. requeue' \in [Admins -> [entry : Sound \cup {None}, added : BOOLEAN]]
        BY <3>1 DEF RequeuesTyped
    <3>4. \A b \in Admins : requeue'[b].added => requeue'[b].entry # None
        BY <3>1 DEF RequeuesTyped
    <3> QED  BY <3>2, <3>3, <3>4 DEF RequeuesTyped
  <2>4. WorkersTyped' /\ CallsTyped'  BY <1>9 DEF RequeueAdded, WorkersTyped, CallsTyped
  <2> QED  BY <2>2, <2>3, <2>4
<1>10. ASSUME NEW a \in Admins, NEW removed \in BOOLEAN, RequeueEnds(a, removed)  PROVE DTyped'
  <2>1. QueuesTyped'
    <3>1. CASE removed  BY <1>10, <3>1, TakenOne DEF RequeueEnds
    <3>2. CASE ~removed  BY <1>10, <3>2 DEF RequeueEnds, QueuesTyped
    <3> QED  BY <3>1, <3>2
  <2>2. RequeuesTyped' /\ WorkersTyped' /\ CallsTyped'
      BY <1>10 DEF RequeueEnds, RequeuesTyped, WorkersTyped, CallsTyped, NoRequeue
  <2> QED  BY <2>1, <2>2
<1>11. ASSUME NEW x \in BagToSet(waiting), CancelJob(x) \/ (DeadLetterEvicted /\ waiting' = waiting (-) SetToBag({x}) /\ fate' = Becomes(x.job, "evicted"))
       PROVE DTyped'
  <2>1. x \in Sound  BY DEF QueuesTyped
  <2>2. QueuesTyped'  BY <1>11, TakenOne DEF CancelJob
  <2>3. fate' \in [Jobs -> SUBSET Fates]  BY <1>11, <2>1, FateTyped, EntryShape DEF CancelJob, Fates
  <2>4. RequeuesTyped' /\ WorkersTyped' /\ CallsTyped'
      BY <1>11, <2>3 DEF CancelJob, DeadLetterEvicted, RequeuesTyped, WorkersTyped, CallsTyped
  <2> QED  BY <2>2, <2>4
<1>12. ASSUME DeadLetterEvicted  PROVE DTyped'
  <2>1. PICK x \in DeadLetters : waiting' = waiting (-) SetToBag({x}) /\ fate' = Becomes(x.job, "evicted")
      BY <1>12 DEF DeadLetterEvicted
  <2> QED  BY <1>11, <1>12, <2>1 DEF DeadLetters
<1>13. ASSUME ClearKeys  PROVE DTyped'
    BY <1>13 DEF ClearKeys, QueuesTyped, RequeuesTyped, WorkersTyped, CallsTyped
<1>14. ASSUME DeliveryCrash  PROVE DTyped'
  <2>1. PICK landed \in SUBSET adding, passed \in SUBSET {w \in Workers : working[w].successor # None} :
          /\ waiting' = waiting (+) GivenOutAgain (+) SetToBag({First(j) : j \in landed})
                                (+) SetToBag({working[w].successor : w \in passed})
          /\ fate' = [j \in Jobs |-> IF j \notin adding THEN fate[j]
                                     ELSE {IF j \in landed THEN "accepted" ELSE "rejected"}]
      BY <1>14 DEF DeliveryCrash
  <2>2. QueuesTyped'
    <3>1. /\ {working[w].entry : w \in Workers} \ {None} \subseteq Sound
          /\ {First(j) : j \in landed} \subseteq Sound
          /\ {working[w].successor : w \in passed} \subseteq Sound
      <4>1. \A j \in landed : First(j) \in Sound  BY EntryShape DEF CallsTyped
      <4>2. \A w \in passed : working[w].successor \in Sound  BY DEF WorkersTyped
      <4>3. \A w \in Workers : working[w].entry \in Sound \cup {None}  BY DEF WorkersTyped
      <4> QED  BY <4>1, <4>2, <4>3
    <3> DEFINE B1 == waiting (+) GivenOutAgain
               B2 == B1 (+) SetToBag({First(j) : j \in landed})
               B3 == B2 (+) SetToBag({working[w].successor : w \in passed})
    <3>2. IsABag(B1) /\ BagToSet(B1) \subseteq Sound
        BY <3>1, BagUnionProperties DEF QueuesTyped, GivenOutAgain
    <3> HIDE DEF B1
    <3>3. IsABag(B2) /\ BagToSet(B2) \subseteq Sound
        BY <3>1, <3>2, BagUnionProperties
    <3> HIDE DEF B2
    <3>4. IsABag(B3) /\ BagToSet(B3) \subseteq Sound
        BY <3>1, <3>3, BagUnionProperties
    <3>5. waiting' = B3  BY <2>1 DEF B1, B2
    <3> HIDE DEF B3
    <3> QED  BY <3>4, <3>5 DEF QueuesTyped
  <2>3. WorkersTyped'  BY <1>14, EntryShape DEF DeliveryCrash, WorkersTyped, Idle
  <2>4. RequeuesTyped'  BY <1>14 DEF DeliveryCrash, RequeuesTyped, NoRequeue
  <2>5. MaxCrashes \in Nat  BY DeliveryAssumption
  <2>6. CallsTyped'  BY <1>14, <2>1, <2>5 DEF DeliveryCrash, CallsTyped, Fates
  <2> QED  BY <2>2, <2>3, <2>4, <2>6
<1> QED  BY <1>1, <1>2, <1>3, <1>4, <1>5, <1>6, <1>7, <1>8, <1>9, <1>10, <1>11, <1>12, <1>13, <1>14
         DEF DeliveryNext, QueueStep, WorkerStep

-----------------------------------------------------------------------------
\* What there is of a job: entries in the queues and in the hands of workers.
Tokens(j) == QueuedFor(j) + Cardinality(InHandFor(j))
FiniteQueues == \A j \in Jobs : IsFiniteSet(CopiesFor(j, waiting))

\* A set of workers is finite.
LEMMA HandsFinite ==
    ASSUME NEW S \in SUBSET Workers
    PROVE  IsFiniteSet(S) /\ Cardinality(S) \in Nat
<1>1. IsFiniteSet(Workers)
  <2>1. Workers = ({} \cup {"main"}) \cup {"retry"}  BY DEF Workers
  <2>2. IsFiniteSet({} \cup {"main"})  BY FS_EmptySet, FS_AddElement
  <2> QED  BY <2>1, <2>2, FS_AddElement
<1> QED  BY <1>1, FS_Subset, FS_CardinalityType

\* The tokens are a number.
LEMMA TokensCounted ==
    ASSUME FiniteQueues, NEW j \in Jobs
    PROVE  QueuedFor(j) \in Nat /\ Cardinality(InHandFor(j)) \in Nat /\ Tokens(j) \in Nat
<1>1. QueuedFor(j) \in Nat  BY FS_CardinalityType DEF FiniteQueues, QueuedFor
<1>2. Cardinality(InHandFor(j)) \in Nat  BY HandsFinite DEF InHandFor
<1> QED  BY <1>1, <1>2 DEF Tokens

\* How the number of queued entries changes when one is added,
LEMMA EntryQueued ==
    ASSUME QueuesTyped, FiniteQueues, NEW x, waiting' = waiting (+) SetToBag({x}), NEW j \in Jobs
    PROVE  /\ IsFiniteSet(CopiesFor(j, waiting))'
           /\ QueuedFor(j)' = IF x.job = j THEN QueuedFor(j) + 1 ELSE QueuedFor(j)
<1> DEFINE c == <<x, Held(waiting, x) + 1>>
<1>1. IF x.job = j THEN /\ CopiesFor(j, waiting') = CopiesFor(j, waiting) \cup {c}
                        /\ c \notin CopiesFor(j, waiting)
                   ELSE CopiesFor(j, waiting') = CopiesFor(j, waiting)
    BY CopiesAdded DEF QueuesTyped
<1>2. CopiesFor(j, waiting)' = CopiesFor(j, waiting')  BY DEF CopiesFor
<1>3. IsFiniteSet(CopiesFor(j, waiting))  BY DEF FiniteQueues
<1> HIDE DEF c
<1> QED  BY <1>1, <1>2, <1>3, FS_AddElement DEF QueuedFor

\* when one is removed,
LEMMA EntryTaken ==
    ASSUME QueuesTyped, FiniteQueues, NEW x, waiting' = waiting (-) SetToBag({x}), NEW j \in Jobs
    PROVE  /\ IsFiniteSet(CopiesFor(j, waiting))'
           /\ QueuedFor(j)' = IF x \in BagToSet(waiting) /\ x.job = j THEN QueuedFor(j) - 1 ELSE QueuedFor(j)
<1> DEFINE c == <<x, waiting[x]>>
<1>1. IF x \in BagToSet(waiting) /\ x.job = j
      THEN /\ CopiesFor(j, waiting') = CopiesFor(j, waiting) \ {c}
           /\ c \in CopiesFor(j, waiting)
      ELSE CopiesFor(j, waiting') = CopiesFor(j, waiting)
    BY CopiesRemoved DEF QueuesTyped
<1>2. CopiesFor(j, waiting)' = CopiesFor(j, waiting')  BY DEF CopiesFor
<1>3. IsFiniteSet(CopiesFor(j, waiting))  BY DEF FiniteQueues
<1> HIDE DEF c
<1> QED  BY <1>1, <1>2, <1>3, FS_RemoveElement DEF QueuedFor

\* and when the queues stay.
LEMMA QueuesUnchanged ==
    ASSUME FiniteQueues, UNCHANGED waiting, NEW j \in Jobs
    PROVE  IsFiniteSet(CopiesFor(j, waiting))' /\ QueuedFor(j)' = QueuedFor(j)
<1>1. CopiesFor(j, waiting)' = CopiesFor(j, waiting)  BY DEF CopiesFor
<1> QED  BY <1>1 DEF FiniteQueues, QueuedFor

\* How the number of entries in hand changes when a worker lets go of its own,
LEMMA HandEmptied ==
    ASSUME WorkersTyped, NEW w \in Workers, working[w].entry # None,
           working' = [working EXCEPT ![w] = Idle], NEW j \in Jobs
    PROVE  Cardinality(InHandFor(j))' = IF working[w].entry.job = j THEN Cardinality(InHandFor(j)) - 1
                                                                    ELSE Cardinality(InHandFor(j))
<1>1. InHandFor(j)' = InHandFor(j) \ {w}  BY DEF InHandFor, WorkersTyped, Idle
<1>2. w \in InHandFor(j) <=> working[w].entry.job = j  BY DEF InHandFor
<1>3. IsFiniteSet(InHandFor(j))  BY HandsFinite DEF InHandFor
<1> QED  BY <1>1, <1>2, <1>3, FS_RemoveElement

\* when it takes one,
LEMMA HandFilled ==
    ASSUME WorkersTyped, NEW w \in Workers, working[w].entry = None, NEW x \in Sound,
           working' = [working EXCEPT ![w].entry = x], NEW j \in Jobs
    PROVE  Cardinality(InHandFor(j))' = IF x.job = j THEN Cardinality(InHandFor(j)) + 1
                                                     ELSE Cardinality(InHandFor(j))
<1>1. working'[w].entry = x /\ \A v \in Workers \ {w} : working'[v].entry = working[v].entry
    BY DEF WorkersTyped
<1>2. InHandFor(j)' = IF x.job = j THEN InHandFor(j) \cup {w} ELSE InHandFor(j)
    BY <1>1, EntryShape DEF InHandFor
<1>3. w \notin InHandFor(j)  BY DEF InHandFor
<1>4. IsFiniteSet(InHandFor(j))  BY HandsFinite DEF InHandFor
<1> QED  BY <1>2, <1>3, <1>4, FS_AddElement

\* and when every worker keeps what it has.
LEMMA SameHands ==
    ASSUME \A w \in Workers : working'[w].entry = working[w].entry, NEW j \in Jobs
    PROVE  InHandFor(j)' = InHandFor(j)
BY DEF InHandFor

\* What a crash makes of the queues: at most one copy more for each entry in
\* hand, for each successor of one, and for a delivery that landed; an entry in
\* hand is queued again, so a job with a token keeps one.
LEMMA CrashCopies ==
    ASSUME DTyped, FiniteQueues, NEW j \in Jobs,
           NEW landed \in SUBSET adding, NEW passed \in SUBSET {w \in Workers : working[w].successor # None},
           waiting' = waiting (+) GivenOutAgain (+) SetToBag({First(k) : k \in landed})
                              (+) SetToBag({working[w].successor : w \in passed})
    PROVE  /\ IsFiniteSet(CopiesFor(j, waiting))'
           /\ QueuedFor(j)' <= QueuedFor(j) + 2 * Cardinality(InHandFor(j)) + IF j \in landed THEN 1 ELSE 0
           /\ Tokens(j) > 0 \/ j \in landed => QueuedFor(j)' > 0
           /\ \A x \in BagToSet(waiting') : x \in BagToSet(waiting)
                 \/ (\E w \in Workers : working[w].entry # None /\ x.job = working[w].entry.job) \/ x.job \in landed
<1> DEFINE E1 == {working[w].entry : w \in Workers} \ {None}
           E2 == {First(k) : k \in landed}
           E3 == {working[w].successor : w \in passed}
           B1 == waiting (+) SetToBag(E1)
           B2 == B1 (+) SetToBag(E2)
           B3 == B2 (+) SetToBag(E3)
           T(E) == {x \in E : x.job = j}
           H == InHandFor(j)
<1>0. waiting' = B3  BY DEF GivenOutAgain
<1>1. IsFiniteSet(T(E1)) /\ Cardinality(T(E1)) <= Cardinality(H)
  <2> DEFINE f == [w \in H |-> working[w].entry]
  <2>1. f \in Surjection(H, T(E1))
    <3>1. \A w \in H : f[w] \in T(E1)  BY DEF InHandFor
    <3>2. \A x \in T(E1) : \E w \in H : f[w] = x  BY DEF InHandFor
    <3> QED  BY <3>1, <3>2 DEF Surjection
  <2> HIDE DEF f, E1
  <2> QED  BY <2>1, HandsFinite, FS_Surjection DEF InHandFor
<1>2. IsFiniteSet(T(E3)) /\ Cardinality(T(E3)) <= Cardinality(H)
  <2> DEFINE P == {w \in passed : working[w].successor.job = j}
             f == [w \in P |-> working[w].successor]
  <2>1. f \in Surjection(P, T(E3))  BY DEF Surjection
  <2>2. P \subseteq H  BY DEF InHandFor, DTyped, WorkersTyped
  <2>3. H \in SUBSET Workers /\ P \in SUBSET Workers  BY <2>2 DEF InHandFor
  <2> HIDE DEF f, E3, P, H
  <2>4. IsFiniteSet(P) /\ IsFiniteSet(H) /\ Cardinality(P) \in Nat /\ Cardinality(H) \in Nat  BY <2>3, HandsFinite
  <2>5. Cardinality(P) <= Cardinality(H)  BY <2>2, <2>4, FS_Subset
  <2>6. IsFiniteSet(T(E3)) /\ Cardinality(T(E3)) <= Cardinality(P)  BY <2>1, <2>4, FS_Surjection
  <2>7. Cardinality(T(E3)) \in Nat  BY <2>6, FS_CardinalityType
  <2> QED  BY <2>4, <2>5, <2>6, <2>7
<1>3. IsFiniteSet(T(E2)) /\ Cardinality(T(E2)) <= IF j \in landed THEN 1 ELSE 0
  <2>1. T(E2) = IF j \in landed THEN {First(j)} ELSE {}  BY DEF First
  <2>2. CASE j \in landed
    <3>1. T(E2) = {First(j)}  BY <2>1, <2>2
    <3>2. IsFiniteSet({First(j)}) /\ Cardinality({First(j)}) = 1  BY FS_Singleton, Zenon
    <3> HIDE DEF T
    <3>3. IsFiniteSet(T(E2)) /\ Cardinality(T(E2)) = 1  BY <3>1, <3>2
    <3> QED  BY <2>2, <3>3
  <2>3. CASE j \notin landed
    <3>1. T(E2) = {}  BY <2>1, <2>3
    <3> HIDE DEF T
    <3>2. IsFiniteSet(T(E2)) /\ Cardinality(T(E2)) = 0  BY <3>1, FS_EmptySet, Zenon
    <3> QED  BY <2>3, <3>2
  <2> QED  BY <2>2, <2>3
<1>4. /\ IsABag(B1) /\ BagToSet(B1) = BagToSet(waiting) \cup E1
      /\ IsABag(B2) /\ BagToSet(B2) = BagToSet(B1) \cup E2
      /\ IsABag(B3) /\ BagToSet(B3) = BagToSet(B2) \cup E3
  <2>1. IsABag(B1) /\ BagToSet(B1) = BagToSet(waiting) \cup E1
      BY BagUnionProperties DEF DTyped, QueuesTyped
  <2> HIDE DEF E1, E2, E3, B1
  <2>2. IsABag(B2) /\ BagToSet(B2) = BagToSet(B1) \cup E2  BY <2>1, BagUnionProperties
  <2> HIDE DEF B2
  <2> QED  BY <2>1, <2>2, BagUnionProperties
<1> HIDE DEF E1, E2, E3, B1, B2, B3
<1>5. /\ IsFiniteSet(CopiesFor(j, B3))
      /\ Cardinality(CopiesFor(j, B3))
           <= QueuedFor(j) + 2 * Cardinality(H) + IF j \in landed THEN 1 ELSE 0
  <2>1. IsFiniteSet(CopiesFor(j, waiting))  BY DEF FiniteQueues
  <2>2. /\ IsFiniteSet(CopiesFor(j, B1))
        /\ Cardinality(CopiesFor(j, B1)) <= Cardinality(CopiesFor(j, waiting)) + Cardinality(T(E1))
      BY <1>1, <2>1, CopiesUnited DEF B1, DTyped, QueuesTyped
  <2>3. /\ IsFiniteSet(CopiesFor(j, B2))
        /\ Cardinality(CopiesFor(j, B2)) <= Cardinality(CopiesFor(j, B1)) + Cardinality(T(E2))
      BY <1>3, <1>4, <2>2, CopiesUnited DEF B2
  <2>4. /\ IsFiniteSet(CopiesFor(j, B3))
        /\ Cardinality(CopiesFor(j, B3)) <= Cardinality(CopiesFor(j, B2)) + Cardinality(T(E3))
      BY <1>2, <1>4, <2>3, CopiesUnited DEF B3
  <2>5. /\ Cardinality(CopiesFor(j, waiting)) \in Nat /\ Cardinality(CopiesFor(j, B1)) \in Nat
        /\ Cardinality(CopiesFor(j, B2)) \in Nat /\ Cardinality(CopiesFor(j, B3)) \in Nat
        /\ Cardinality(T(E1)) \in Nat /\ Cardinality(T(E2)) \in Nat /\ Cardinality(T(E3)) \in Nat
      BY <1>1, <1>2, <1>3, <2>1, <2>2, <2>3, <2>4, FS_CardinalityType
  <2>6. Cardinality(H) \in Nat  BY HandsFinite DEF InHandFor
  <2>7. Cardinality(CopiesFor(j, waiting)) = QueuedFor(j)  BY DEF QueuedFor
  <2> HIDE DEF T, H
  <2> QED  BY <1>1, <1>2, <1>3, <2>2, <2>3, <2>4, <2>5, <2>6, <2>7
<1>6. CopiesFor(j, waiting)' = CopiesFor(j, B3)  BY <1>0 DEF CopiesFor
<1>7. QueuedFor(j)' = Cardinality(CopiesFor(j, B3))  BY <1>6 DEF QueuedFor
<1>8. ASSUME Tokens(j) > 0 \/ j \in landed  PROVE QueuedFor(j)' > 0
  <2>1. SUFFICES CopiesFor(j, B3) # {}
    <3>1. Cardinality(CopiesFor(j, B3)) \in Nat  BY <1>5, FS_CardinalityType
    <3> QED  BY <1>5, <1>7, <3>1, FS_EmptySet
  <2>2. SUFFICES \E x \in BagToSet(B3) : x.job = j
    <3>1. \A x \in BagToSet(B3) : 1 \in 1..B3[x]  BY <1>4 DEF IsABag, BagToSet
    <3>2. PICK x \in BagToSet(B3) : x.job = j  BY <2>2
    <3>3. <<x, 1>> \in CopiesFor(j, B3)  BY <1>4, <3>1, <3>2, CopyMember
    <3> QED  BY <3>3
  <2>3. CASE j \in landed
    <3>1. First(j) \in E2 /\ First(j).job = j  BY <2>3, EntryShape DEF E2
    <3> QED  BY <1>4, <3>1
  <2>4. CASE CopiesFor(j, waiting) # {}
    <3>1. \E x \in BagToSet(waiting) : x.job = j  BY <2>4, CopyMember DEF DTyped, QueuesTyped
    <3> QED  BY <1>4, <3>1
  <2>5. CASE H # {}
    <3>1. PICK w \in Workers : working[w].entry # None /\ working[w].entry.job = j  BY <2>5 DEF InHandFor
    <3>2. working[w].entry \in E1  BY <3>1 DEF E1
    <3> QED  BY <1>4, <3>1, <3>2
  <2>6. CopiesFor(j, waiting) = {} /\ H = {} => Tokens(j) = 0
      BY FS_EmptySet DEF Tokens, QueuedFor
  <2> QED  BY <1>8, <2>3, <2>4, <2>5, <2>6
<1>9. ASSUME NEW x \in BagToSet(B3)
      PROVE  x \in BagToSet(waiting)
                 \/ (\E w \in Workers : working[w].entry # None /\ x.job = working[w].entry.job) \/ x.job \in landed
  <2>1. CASE x \in E1  BY <2>1 DEF E1
  <2>2. CASE x \in E2  BY <2>2 DEF E2, First
  <2>3. CASE x \in E3  BY <2>3 DEF E3, DTyped, WorkersTyped
  <2> QED  BY <1>4, <2>1, <2>2, <2>3
<1> QED  BY <1>0, <1>5, <1>6, <1>7, <1>8, <1>9

\* Something final became of the job.
Ended(j) == fate[j] \cap {"completed", "cancelled", "dropped", "evicted"} # {}
\* The callers that have put an entry of the job back and not yet removed the
\* dead letter.
Putting(j) == {a \in Admins : requeue[a].added /\ requeue[a].entry.job = j}
\* No entry of the job is queued, in hand, or about to be put back.
Nowhere(j) ==
    /\ \A x \in BagToSet(waiting) : x.job # j
    /\ \A w \in Workers : working[w].entry # None => working[w].entry.job # j
    /\ \A a \in Admins : requeue[a].entry # None => requeue[a].entry.job # j

\* The inductive invariant, job by job. Each caller that is putting an entry
\* back owes the removal of one: as many tokens are not to be counted on.
JobOK(j) ==
    /\ IsFiniteSet(CopiesFor(j, waiting)) /\ IsFiniteSet(Putting(j))
    /\ j \in adding => fate[j] = {}
    /\ "accepted" \notin fate[j] => Nowhere(j)
    /\ "accepted" \in fate[j] => Ended(j) \/ Tokens(j) > Cardinality(Putting(j))
    /\ Tokens(j) <= (1 + requeued[j]) * Doubled[crashes]
DInv == DTyped /\ \A j \in Jobs : JobOK(j)

\* The quantities of the invariant are numbers.
LEMMA JobNumbers ==
    ASSUME DInv, NEW j \in Jobs
    PROVE  /\ FiniteQueues
           /\ QueuedFor(j) \in Nat /\ Cardinality(InHandFor(j)) \in Nat /\ Tokens(j) \in Nat
           /\ Cardinality(Putting(j)) \in Nat
           /\ requeued[j] \in Nat /\ Doubled[crashes] \in Nat \ {0}
           /\ (1 + requeued[j]) * Doubled[crashes] \in Nat \ {0}
           /\ Nowhere(j) => Tokens(j) = 0 /\ Putting(j) = {}
<1>1. FiniteQueues  BY DEF DInv, JobOK, FiniteQueues
<1>2. requeued[j] \in Nat /\ Doubled[crashes] \in Nat \ {0}
    BY DoubledProperties DEF DInv, DTyped, RequeuesTyped, CallsTyped
<1>3. (1 + requeued[j]) * Doubled[crashes] \in Nat \ {0}
  <2>1. \A m, n \in Nat : m > 0 /\ n > 0 => m * n \in Nat /\ m * n > 0  OBVIOUS
  <2>2. 1 + requeued[j] \in Nat /\ 1 + requeued[j] > 0  BY <1>2
  <2> QED  BY <1>2, <2>1, <2>2
<1>4. Cardinality(Putting(j)) \in Nat  BY FS_CardinalityType DEF DInv, JobOK
<1>5. ASSUME Nowhere(j)  PROVE Tokens(j) = 0 /\ Putting(j) = {}
  <2>1. CopiesFor(j, waiting) = {}  BY <1>5, CopyMember DEF Nowhere, DInv, DTyped, QueuesTyped
  <2>2. InHandFor(j) = {}  BY <1>5 DEF Nowhere, InHandFor
  <2>3. Putting(j) = {}  BY <1>5 DEF Nowhere, Putting, DInv, DTyped, RequeuesTyped
  <2> QED  BY <2>1, <2>2, <2>3, FS_EmptySet DEF Tokens, QueuedFor
<1> QED  BY <1>1, <1>2, <1>3, <1>4, <1>5, TokensCounted

\* Steps that add no token and no acceptance.
LEMMA JobStays ==
    ASSUME DInv, NEW j \in Jobs,
           "accepted" \in fate'[j] <=> "accepted" \in fate[j],
           j \in adding' => fate'[j] = {},
           IsFiniteSet(CopiesFor(j, waiting))', IsFiniteSet(Putting(j))',
           Nowhere(j) => Nowhere(j)',
           Tokens(j)' \in Nat, Tokens(j)' <= Tokens(j), UNCHANGED <<requeued, crashes>>,
           \/ Ended(j)'
           \/ fate'[j] = fate[j] /\ Tokens(j)' - Cardinality(Putting(j))' >= Tokens(j) - Cardinality(Putting(j))
    PROVE  JobOK(j)'
<1>1. JobOK(j)  BY DEF DInv
<1>2. Cardinality(Putting(j))' \in Nat  BY FS_CardinalityType
<1>3. Tokens(j)' <= (1 + requeued'[j]) * Doubled[crashes']
  <2>1. Tokens(j) <= (1 + requeued[j]) * Doubled[crashes]  BY <1>1 DEF JobOK
  <2>2. requeued'[j] = requeued[j] /\ crashes' = crashes  OBVIOUS
  <2> QED  BY <2>1, <2>2, JobNumbers
<1>4. ASSUME "accepted" \in fate'[j]  PROVE Ended(j)' \/ Tokens(j)' > Cardinality(Putting(j))'
  <2>1. SUFFICES ASSUME ~Ended(j)'  PROVE Tokens(j)' > Cardinality(Putting(j))'
      OBVIOUS
  <2>2. ~Ended(j)  BY <2>1 DEF Ended
  <2>3. Tokens(j) > Cardinality(Putting(j))  BY <1>1, <1>4, <2>2 DEF JobOK
  <2> QED  BY <1>2, <2>1, <2>3, JobNumbers
<1>5. "accepted" \notin fate'[j] => Nowhere(j)'  BY <1>1 DEF JobOK
<1> QED  BY <1>3, <1>4, <1>5 DEF JobOK

\* While nobody requeues, nobody owes a removal more.
LEMMA SamePutting ==
    ASSUME DInv, UNCHANGED requeue, NEW j \in Jobs
    PROVE  Putting(j)' = Putting(j) /\ IsFiniteSet(Putting(j))'
<1>1. Putting(j)' = Putting(j)  BY DEF Putting
<1> QED  BY <1>1 DEF DInv, JobOK

\* One lemma for each action: it keeps the invariant for every job.
LEMMA DeliverKeeps ==
    ASSUME DInv, NEW k \in Jobs, Deliver(k), NEW j \in Jobs
    PROVE  JobOK(j)'
<1>1. UNCHANGED <<waiting, working, requeue, requeued, crashes>>  BY DEF Deliver
<1>2. IsFiniteSet(CopiesFor(j, waiting))' /\ QueuedFor(j)' = QueuedFor(j)
    BY <1>1, JobNumbers, QueuesUnchanged
<1>3. InHandFor(j)' = InHandFor(j)  BY <1>1, SameHands
<1>4. Tokens(j)' = Tokens(j)  BY <1>2, <1>3 DEF Tokens
<1>5. Putting(j)' = Putting(j) /\ IsFiniteSet(Putting(j))'  BY <1>1, SamePutting
<1>6. Nowhere(j)' <=> Nowhere(j)  BY <1>1 DEF Nowhere
<1>7. fate[k] = {} /\ k \notin adding  BY DEF Deliver
<1>8. \/ fate' = Becomes(k, "suppressed") /\ adding' = adding
      \/ fate' = fate /\ adding' = adding \cup {k}
    BY DEF Deliver
<1>9. fate'[j] = fate[j] \/ (fate[j] = {} /\ j = k /\ fate'[j] = {"suppressed"})
    BY <1>7, <1>8 DEF Becomes, DInv, DTyped, CallsTyped
<1>10. j \in adding' => fate'[j] = {}
    BY <1>7, <1>8 DEF Becomes, DInv, DTyped, CallsTyped, JobOK
<1>11. CASE fate'[j] = fate[j]
    BY <1>1, <1>2, <1>4, <1>5, <1>6, <1>10, <1>11, JobNumbers, JobStays
<1>12. CASE fate[j] = {} /\ fate'[j] = {"suppressed"}
  <2>1. JobOK(j)  BY DEF DInv
  <2> QED  BY <1>1, <1>2, <1>4, <1>5, <1>6, <1>10, <1>12, <2>1 DEF JobOK
<1> QED  BY <1>9, <1>11, <1>12

\* deliver() resolves or rejects.
LEMMA DeliverEndsKeeps ==
    ASSUME DInv, NEW k \in Jobs, NEW added \in BOOLEAN, DeliverEnds(k, added), NEW j \in Jobs
    PROVE  JobOK(j)'
<1>1. UNCHANGED <<working, requeue, requeued, crashes>> /\ k \in adding /\ adding' = adding \ {k}
      /\ fate' = Becomes(k, IF added THEN "accepted" ELSE "rejected")
    BY DEF DeliverEnds
<1>2. JobOK(j) /\ JobOK(k)  BY DEF DInv
<1>3. Nowhere(k) /\ fate[k] = {}  BY <1>1, <1>2 DEF JobOK
<1>4. Putting(j)' = Putting(j) /\ IsFiniteSet(Putting(j))'  BY <1>1, SamePutting
<1>5. InHandFor(j)' = InHandFor(j)  BY <1>1, SameHands
<1>6. CASE added
  <2>1. waiting' = waiting (+) SetToBag({First(k)}) /\ First(k) \in Sound /\ First(k).job = k
      BY <1>6, EntryShape DEF DeliverEnds
  <2>2. IsFiniteSet(CopiesFor(j, waiting))'
        /\ QueuedFor(j)' = IF k = j THEN QueuedFor(j) + 1 ELSE QueuedFor(j)
      BY <2>1, JobNumbers, EntryQueued DEF DInv, DTyped
  <2>3. Tokens(j)' = IF k = j THEN Tokens(j) + 1 ELSE Tokens(j)
      BY <1>5, <2>2, JobNumbers DEF Tokens
  <2>4. CASE j = k
    <3>1. Tokens(j)' = 1 /\ Cardinality(Putting(j))' = 0
      <4>1. Tokens(j) = 0 /\ Putting(j) = {}  BY <1>3, <2>4, JobNumbers
      <4> QED  BY <1>4, <2>3, <2>4, <4>1, FS_EmptySet
    <3>2. fate'[j] = {"accepted"} /\ j \notin adding'
        BY <1>1, <1>3, <1>6, <2>4 DEF Becomes, DInv, DTyped, CallsTyped
    <3>3. (1 + requeued'[j]) * Doubled[crashes'] >= 1  BY <1>1, JobNumbers
    <3> QED  BY <1>4, <2>2, <3>1, <3>2, <3>3 DEF JobOK
  <2>5. CASE j # k
    <3>1. fate'[j] = fate[j] /\ (j \in adding' => j \in adding)
        BY <1>1, <2>5 DEF Becomes, DInv, DTyped, CallsTyped
    <3>2. Nowhere(j) => Nowhere(j)'
        BY <1>1, <2>1, <2>5, BagUnionProperties DEF Nowhere, DInv, DTyped, QueuesTyped
    <3>3. Tokens(j)' = Tokens(j)  BY <2>3, <2>5
    <3> QED  BY <1>1, <1>2, <1>4, <2>2, <3>1, <3>2, <3>3, JobNumbers, JobStays DEF JobOK
  <2> QED  BY <2>4, <2>5
<1>7. CASE ~added
  <2>1. waiting' = waiting  BY <1>7 DEF DeliverEnds
  <2>2. IsFiniteSet(CopiesFor(j, waiting))' /\ QueuedFor(j)' = QueuedFor(j)
      BY <2>1, JobNumbers, QueuesUnchanged
  <2>3. Tokens(j)' = Tokens(j)  BY <1>5, <2>2 DEF Tokens
  <2>4. Nowhere(j)' <=> Nowhere(j)  BY <1>1, <2>1 DEF Nowhere
  <2>5. CASE j = k
    <3>1. fate'[j] = {"rejected"} /\ j \notin adding'
        BY <1>1, <1>3, <1>7, <2>5 DEF Becomes, DInv, DTyped, CallsTyped
    <3> QED  BY <1>1, <1>2, <1>3, <1>4, <2>2, <2>3, <2>4, <2>5, <3>1 DEF JobOK
  <2>6. CASE j # k
    <3>1. fate'[j] = fate[j] /\ (j \in adding' => j \in adding)
        BY <1>1, <2>6 DEF Becomes, DInv, DTyped, CallsTyped
    <3> QED  BY <1>1, <1>2, <1>4, <2>2, <2>3, <2>4, <3>1, JobNumbers, JobStays DEF JobOK
  <2> QED  BY <2>5, <2>6
<1> QED  BY <1>6, <1>7

\* A job with a token has been accepted, and is not being added.
LEMMA TokenAccepted ==
    ASSUME DInv, NEW k \in Jobs, ~Nowhere(k)
    PROVE  "accepted" \in fate[k] /\ k \notin adding
BY DEF DInv, JobOK

\* A worker takes an entry: the token goes from the queue to its hand.
LEMMA TakeKeeps ==
    ASSUME DInv, NEW w \in Workers, Take(w), NEW j \in Jobs
    PROVE  JobOK(j)'
<1>1. UNCHANGED <<adding, fate, requeue, requeued, crashes>> /\ working[w].entry = None
    BY DEF Take
<1>2. PICK x \in BagToSet(waiting) : /\ working' = [working EXCEPT ![w].entry = x]
                                     /\ waiting' = waiting (-) SetToBag({x})
    BY DEF Take
<1>3. x \in Sound  BY DEF DInv, DTyped, QueuesTyped
<1>4. IsFiniteSet(CopiesFor(j, waiting))'
      /\ QueuedFor(j)' = IF x.job = j THEN QueuedFor(j) - 1 ELSE QueuedFor(j)
    BY <1>2, JobNumbers, EntryTaken DEF DInv, DTyped
<1>5. Cardinality(InHandFor(j))' = IF x.job = j THEN Cardinality(InHandFor(j)) + 1
                                                ELSE Cardinality(InHandFor(j))
    BY <1>1, <1>2, <1>3, HandFilled DEF DInv, DTyped
<1>6. Tokens(j)' = Tokens(j)  BY <1>4, <1>5, JobNumbers DEF Tokens
<1>7. Putting(j)' = Putting(j) /\ IsFiniteSet(Putting(j))'  BY <1>1, SamePutting
<1>8. Nowhere(j) => Nowhere(j)'
  <2>1. BagToSet(waiting') \subseteq BagToSet(waiting)
      BY <1>2, BagTakeProperties DEF DInv, DTyped, QueuesTyped
  <2>2. \A v \in Workers : working'[v].entry = IF v = w THEN x ELSE working[v].entry
      BY <1>2 DEF DInv, DTyped, WorkersTyped
  <2> QED  BY <1>1, <2>1, <2>2 DEF Nowhere
<1> QED  BY <1>1, <1>4, <1>6, <1>7, <1>8, JobNumbers, JobStays DEF JobOK, DInv

\* The handler succeeds: the token is gone, and the job completed.
LEMMA HandlerSucceedsKeeps ==
    ASSUME DInv, NEW w \in Workers, HandlerSucceeds(w), NEW j \in Jobs
    PROVE  JobOK(j)'
<1> DEFINE k == working[w].entry.job
<1>1. UNCHANGED <<waiting, adding, requeue, requeued, crashes>> /\ working[w].entry # None
      /\ working' = [working EXCEPT ![w] = Idle] /\ fate' = Becomes(k, "completed")
    BY DEF HandlerSucceeds, InHand
<1>2. k \in Jobs /\ ~Nowhere(k)
    BY <1>1, EntryShape DEF Nowhere, DInv, DTyped, WorkersTyped
<1>3. "accepted" \in fate[k] /\ k \notin adding
  <2> HIDE DEF k
  <2> QED  BY <1>2, TokenAccepted
<1>4. IsFiniteSet(CopiesFor(j, waiting))' /\ QueuedFor(j)' = QueuedFor(j)
    BY <1>1, JobNumbers, QueuesUnchanged
<1>5. Cardinality(InHandFor(j))' = IF k = j THEN Cardinality(InHandFor(j)) - 1
                                            ELSE Cardinality(InHandFor(j))
    BY <1>1, HandEmptied DEF DInv, DTyped
<1>6. Putting(j)' = Putting(j) /\ IsFiniteSet(Putting(j))'  BY <1>1, SamePutting
<1>7. Nowhere(j) => Nowhere(j)'
    BY <1>1 DEF Nowhere, DInv, DTyped, WorkersTyped, Idle
<1> HIDE DEF k
<1>8. Cardinality(InHandFor(j))' \in Nat  BY HandsFinite DEF InHandFor
<1>9. Tokens(j)' \in Nat /\ Tokens(j)' <= Tokens(j) /\ (j # k => Tokens(j)' = Tokens(j))
    BY <1>4, <1>5, <1>8, JobNumbers DEF Tokens
<1>10. fate'[j] = IF j = k THEN fate[j] \cup {"completed"} ELSE fate[j]
    BY <1>1 DEF Becomes, DInv, DTyped, CallsTyped
<1>11. j = k => Ended(j)'  BY <1>10 DEF Ended
<1>12. j \in adding' => fate'[j] = {}  BY <1>1, <1>3, <1>10 DEF DInv, JobOK
<1> QED  BY <1>1, <1>4, <1>6, <1>7, <1>9, <1>10, <1>11, <1>12, JobNumbers, JobStays

\* The handler fails: the worker still has the entry.
LEMMA HandlerFailsKeeps ==
    ASSUME DInv, NEW w \in Workers, NEW retryable \in BOOLEAN, HandlerFails(w, retryable), NEW j \in Jobs
    PROVE  JobOK(j)'
<1>1. UNCHANGED <<waiting, adding, fate, requeue, requeued, crashes>>
      /\ \A v \in Workers : working'[v].entry = working[v].entry
    BY DEF HandlerFails, DInv, DTyped, WorkersTyped
<1>2. IsFiniteSet(CopiesFor(j, waiting))' /\ QueuedFor(j)' = QueuedFor(j)
    BY <1>1, JobNumbers, QueuesUnchanged
<1>3. Tokens(j)' = Tokens(j)  BY <1>1, <1>2, SameHands DEF Tokens
<1>4. Putting(j)' = Putting(j) /\ IsFiniteSet(Putting(j))'  BY <1>1, SamePutting
<1>5. Nowhere(j) => Nowhere(j)'  BY <1>1 DEF Nowhere
<1> QED  BY <1>1, <1>2, <1>3, <1>4, <1>5, JobNumbers, JobStays DEF DInv, JobOK

\* The successor takes the place of the entry, or the job is dropped.
LEMMA SuccessorAddedKeeps ==
    ASSUME DInv, NEW w \in Workers, NEW added \in BOOLEAN, SuccessorAdded(w, added), NEW j \in Jobs
    PROVE  JobOK(j)'
<1> DEFINE k == working[w].entry.job
           y == working[w].successor
<1>1. /\ UNCHANGED <<adding, requeue, requeued, crashes>>
      /\ working' = [working EXCEPT ![w] = Idle]
      /\ waiting' = IF added THEN waiting (+) SetToBag({y}) ELSE waiting
      /\ fate' = IF added THEN fate ELSE Becomes(k, "dropped")
    BY DEF SuccessorAdded, Released
<1>2. working[w].entry # None /\ y \in Sound /\ y.job = k
    BY DEF SuccessorAdded, DInv, DTyped, WorkersTyped
<1>3. k \in Jobs /\ ~Nowhere(k)
    BY <1>2, EntryShape DEF Nowhere, DInv, DTyped, WorkersTyped
<1>4. "accepted" \in fate[k] /\ k \notin adding
  <2> HIDE DEF k
  <2> QED  BY <1>3, TokenAccepted
<1>5. Cardinality(InHandFor(j))' = IF k = j THEN Cardinality(InHandFor(j)) - 1
                                            ELSE Cardinality(InHandFor(j))
    BY <1>1, <1>2, HandEmptied DEF DInv, DTyped
<1>6. Putting(j)' = Putting(j) /\ IsFiniteSet(Putting(j))'  BY <1>1, SamePutting
<1>7. Nowhere(j) => Nowhere(j)'
  <2>1. SUFFICES ASSUME Nowhere(j)  PROVE Nowhere(j)'  OBVIOUS
  <2>2. j # k  BY <1>2, <2>1 DEF Nowhere
  <2>3. BagToSet(waiting') \subseteq BagToSet(waiting) \cup {y}
    <3>1. IsABag(waiting)  BY DEF DInv, DTyped, QueuesTyped
    <3>2. CASE added  BY <1>1, <3>1, <3>2, BagUnionProperties
    <3>3. CASE ~added  BY <1>1, <3>3
    <3> QED  BY <3>2, <3>3
  <2>4. \A v \in Workers : working'[v].entry = IF v = w THEN None ELSE working[v].entry
      BY <1>1 DEF DInv, DTyped, WorkersTyped, Idle
  <2> QED  BY <1>1, <1>2, <2>1, <2>2, <2>3, <2>4 DEF Nowhere
<1>8. Cardinality(InHandFor(j))' \in Nat  BY HandsFinite DEF InHandFor
<1> HIDE DEF k, y
<1>9. CASE added
  <2>1. IsFiniteSet(CopiesFor(j, waiting))'
        /\ QueuedFor(j)' = IF k = j THEN QueuedFor(j) + 1 ELSE QueuedFor(j)
      BY <1>1, <1>2, <1>9, JobNumbers, EntryQueued DEF DInv, DTyped
  <2>2. Tokens(j)' = Tokens(j)  BY <1>5, <2>1, JobNumbers DEF Tokens
  <2>3. fate' = fate /\ (j \in adding' => fate'[j] = {})  BY <1>1, <1>9 DEF JobOK, DInv
  <2>4. Tokens(j)' \in Nat /\ Tokens(j)' <= Tokens(j)
        /\ Tokens(j)' - Cardinality(Putting(j))' >= Tokens(j) - Cardinality(Putting(j))
      BY <1>6, <2>2, JobNumbers
  <2> QED  BY <1>1, <1>6, <1>7, <2>1, <2>3, <2>4, JobStays
<1>10. CASE ~added
  <2>1. waiting' = waiting  BY <1>1, <1>10
  <2>2. IsFiniteSet(CopiesFor(j, waiting))' /\ QueuedFor(j)' = QueuedFor(j)
      BY <2>1, JobNumbers, QueuesUnchanged
  <2>3. Tokens(j)' \in Nat /\ Tokens(j)' <= Tokens(j) /\ (j # k => Tokens(j)' = Tokens(j))
      BY <1>5, <1>8, <2>2, JobNumbers DEF Tokens
  <2>4. fate'[j] = IF j = k THEN fate[j] \cup {"dropped"} ELSE fate[j]
      BY <1>1, <1>10 DEF Becomes, DInv, DTyped, CallsTyped
  <2>5. j = k => Ended(j)'  BY <2>4 DEF Ended
  <2>6. j \in adding' => fate'[j] = {}  BY <1>1, <1>4, <2>4 DEF DInv, JobOK
  <2>7. \/ Ended(j)'
        \/ fate'[j] = fate[j] /\ Tokens(j)' - Cardinality(Putting(j))' >= Tokens(j) - Cardinality(Putting(j))
      BY <1>6, <2>3, <2>4, <2>5, JobNumbers
  <2>8. "accepted" \in fate'[j] <=> "accepted" \in fate[j]  BY <2>4
  <2> QED  BY <1>1, <1>6, <1>7, <2>2, <2>3, <2>6, <2>7, <2>8, JobStays
<1> QED  BY <1>9, <1>10

\* An entry is removed for good, and the job is marked with it.
LEMMA RemovalKeeps ==
    ASSUME DInv, NEW x \in BagToSet(waiting), waiting' = waiting (-) SetToBag({x}),
           NEW f \in {"cancelled", "evicted"}, fate' = Becomes(x.job, f),
           UNCHANGED <<working, adding, requeue, requeued, crashes>>, NEW j \in Jobs
    PROVE  JobOK(j)'
<1> DEFINE k == x.job
<1>1. k \in Jobs /\ ~Nowhere(k)
    BY EntryShape DEF Nowhere, DInv, DTyped, QueuesTyped
<1>2. "accepted" \in fate[k] /\ k \notin adding
  <2> HIDE DEF k
  <2> QED  BY <1>1, TokenAccepted
<1>3. IsFiniteSet(CopiesFor(j, waiting))'
      /\ QueuedFor(j)' = IF k = j THEN QueuedFor(j) - 1 ELSE QueuedFor(j)
    BY JobNumbers, EntryTaken DEF DInv, DTyped
<1>4. InHandFor(j)' = InHandFor(j)  BY SameHands
<1>5. Putting(j)' = Putting(j) /\ IsFiniteSet(Putting(j))'  BY SamePutting
<1>6. Nowhere(j) => Nowhere(j)'
  <2>1. BagToSet(waiting') \subseteq BagToSet(waiting)
      BY BagTakeProperties DEF DInv, DTyped, QueuesTyped
  <2> QED  BY <2>1 DEF Nowhere
<1> HIDE DEF k
<1>7. QueuedFor(j)' \in Nat  BY <1>3, FS_CardinalityType DEF QueuedFor
<1>8. Tokens(j)' \in Nat /\ Tokens(j)' <= Tokens(j) /\ (j # k => Tokens(j)' = Tokens(j))
    BY <1>3, <1>4, <1>7, JobNumbers DEF Tokens
<1>9. fate'[j] = IF j = k THEN fate[j] \cup {f} ELSE fate[j]
    BY DEF Becomes, DInv, DTyped, CallsTyped, k
<1>10. j = k => Ended(j)'  BY <1>9 DEF Ended
<1>11. j \in adding' => fate'[j] = {}  BY <1>2, <1>9 DEF DInv, JobOK
<1>12. "accepted" \in fate'[j] <=> "accepted" \in fate[j]  BY <1>9
<1>13. \/ Ended(j)'
       \/ fate'[j] = fate[j] /\ Tokens(j)' - Cardinality(Putting(j))' >= Tokens(j) - Cardinality(Putting(j))
    BY <1>5, <1>8, <1>9, <1>10, JobNumbers
<1> QED  BY <1>3, <1>5, <1>6, <1>8, <1>11, <1>12, <1>13, JobStays

\* A caller of retryDeadLetterJob has found the letter.
LEMMA RequeueFoundKeeps ==
    ASSUME DInv, NEW a \in Admins, RequeueFound(a), NEW j \in Jobs
    PROVE  JobOK(j)'
<1>1. UNCHANGED <<waiting, working, adding, fate, requeued, crashes>> /\ requeue[a].entry = None
    BY DEF RequeueFound
<1>2. PICK x \in BagToSet(waiting) : requeue' = [requeue EXCEPT ![a].entry = x]
    BY DEF RequeueFound, DeadLetters
<1>3. ~requeue[a].added  BY <1>1 DEF DInv, DTyped, RequeuesTyped
<1>4. \A b \in Admins : /\ requeue'[b].added = requeue[b].added
                        /\ requeue'[b].entry = IF b = a THEN x ELSE requeue[b].entry
    BY <1>2 DEF DInv, DTyped, RequeuesTyped
<1>5. Putting(j)' = Putting(j)  BY <1>3, <1>4 DEF Putting
<1>6. IsFiniteSet(Putting(j))'  BY <1>5 DEF DInv, JobOK
<1>7. IsFiniteSet(CopiesFor(j, waiting))' /\ QueuedFor(j)' = QueuedFor(j)
    BY <1>1, JobNumbers, QueuesUnchanged
<1>8. InHandFor(j)' = InHandFor(j)  BY <1>1, SameHands
<1>9. Tokens(j)' = Tokens(j)  BY <1>7, <1>8 DEF Tokens
<1>10. Nowhere(j) => Nowhere(j)'  BY <1>1, <1>4 DEF Nowhere
<1> QED  BY <1>1, <1>5, <1>6, <1>7, <1>9, <1>10, JobNumbers, JobStays DEF DInv, JobOK

\* It adds an entry, and owes the removal of the letter.
LEMMA RequeueAddedKeeps ==
    ASSUME DInv, NEW a \in Admins, RequeueAdded(a), NEW j \in Jobs
    PROVE  JobOK(j)'
<1> DEFINE k == requeue[a].entry.job
<1>1. /\ UNCHANGED <<working, fate, adding, crashes>> /\ requeue[a].entry # None /\ ~requeue[a].added
      /\ waiting' = waiting (+) SetToBag({First(k)})
      /\ requeue' = [requeue EXCEPT ![a].added = TRUE]
      /\ requeued' = [requeued EXCEPT ![k] = @ + 1]
    BY DEF RequeueAdded, WithRequeued
<1>2. k \in Jobs /\ ~Nowhere(k)
    BY <1>1, EntryShape DEF Nowhere, DInv, DTyped, RequeuesTyped
<1>3. \A b \in Admins : /\ requeue'[b].added = IF b = a THEN TRUE ELSE requeue[b].added
                        /\ requeue'[b].entry = requeue[b].entry
    BY <1>1 DEF DInv, DTyped, RequeuesTyped
<1>4. Putting(j)' = IF k = j THEN Putting(j) \cup {a} ELSE Putting(j)
    BY <1>3 DEF Putting
<1>5. a \notin Putting(j)  BY <1>1 DEF Putting
<1>6. IsFiniteSet(Putting(j))' /\ Cardinality(Putting(j))' = IF k = j THEN Cardinality(Putting(j)) + 1
                                                                      ELSE Cardinality(Putting(j))
  <2>1. IsFiniteSet(Putting(j))  BY DEF DInv, JobOK
  <2> HIDE DEF k
  <2> QED  BY <1>4, <1>5, <2>1, FS_AddElement
<1>7. requeued'[j] = IF k = j THEN requeued[j] + 1 ELSE requeued[j]
    BY <1>1 DEF DInv, DTyped, RequeuesTyped
<1>8. \A b \in Admins : requeue'[b].entry # None => requeue'[b].entry.job # j \/ ~Nowhere(j)
    BY <1>3 DEF Nowhere
<1> HIDE DEF k
<1>9. First(k).job = k  BY <1>2, EntryShape
<1>10. IsFiniteSet(CopiesFor(j, waiting))'
      /\ QueuedFor(j)' = IF k = j THEN QueuedFor(j) + 1 ELSE QueuedFor(j)
    BY <1>1, <1>9, JobNumbers, EntryQueued DEF DInv, DTyped
<1>11. InHandFor(j)' = InHandFor(j)  BY <1>1, SameHands
<1>12. Tokens(j)' = IF k = j THEN Tokens(j) + 1 ELSE Tokens(j)
    BY <1>10, <1>11, JobNumbers DEF Tokens
<1>13. Nowhere(j) => Nowhere(j)'
  <2>1. SUFFICES ASSUME Nowhere(j)  PROVE Nowhere(j)'  OBVIOUS
  <2>2. BagToSet(waiting') = BagToSet(waiting) \cup {First(k)}
      BY <1>1, BagUnionProperties DEF DInv, DTyped, QueuesTyped
  <2> QED  BY <1>1, <1>2, <1>8, <1>9, <2>1, <2>2 DEF Nowhere
<1>14. Tokens(j)' <= (1 + requeued'[j]) * Doubled[crashes']
  <2> DEFINE r == requeued[j]  d == Doubled[crashes]
  <2>1. Tokens(j) <= (1 + r) * d /\ crashes' = crashes  BY <1>1 DEF DInv, JobOK
  <2>2. r \in Nat /\ d \in Nat \ {0} /\ Tokens(j) \in Nat /\ (1 + r) * d \in Nat  BY JobNumbers
  <2> HIDE DEF r, d
  <2>3. (1 + (r + 1)) * d = (1 + r) * d + d  BY <2>2
  <2>4. CASE k = j
    <3>1. requeued'[j] = r + 1 /\ Doubled[crashes'] = d  BY <1>7, <2>1, <2>4 DEF r, d
    <3> QED  BY <1>12, <2>1, <2>2, <2>3, <2>4, <3>1
  <2>5. CASE k # j
    <3>1. requeued'[j] = r /\ Doubled[crashes'] = d  BY <1>7, <2>1, <2>5 DEF r, d
    <3> QED  BY <1>12, <2>1, <2>5, <3>1
  <2> QED  BY <2>4, <2>5
<1>15. JobOK(j)  BY DEF DInv
<1>16. Tokens(j) > Cardinality(Putting(j)) => Tokens(j)' > Cardinality(Putting(j))'
    BY <1>6, <1>12, JobNumbers
<1>17. Ended(j)' <=> Ended(j)  BY <1>1 DEF Ended
<1> QED  BY <1>1, <1>6, <1>10, <1>13, <1>14, <1>15, <1>16, <1>17 DEF JobOK

\* It removes the letter it owes, if the letter is still there, or gives up.
LEMMA RequeueEndsKeeps ==
    ASSUME DInv, NEW a \in Admins, NEW removed \in BOOLEAN, RequeueEnds(a, removed), NEW j \in Jobs
    PROVE  JobOK(j)'
<1> DEFINE x == requeue[a].entry
<1>1. /\ UNCHANGED <<working, adding, fate, requeued, crashes>> /\ x # None
      /\ removed => requeue[a].added
      /\ waiting' = IF removed THEN waiting (-) SetToBag({x}) ELSE waiting
      /\ requeue' = [requeue EXCEPT ![a] = NoRequeue]
    BY DEF RequeueEnds
<1>2. \A b \in Admins : requeue'[b] = IF b = a THEN NoRequeue ELSE requeue[b]
    BY <1>1 DEF DInv, DTyped, RequeuesTyped
<1>3. Putting(j)' = Putting(j) \ {a}  BY <1>2 DEF Putting, NoRequeue
<1>4. IsFiniteSet(Putting(j))' /\ Cardinality(Putting(j))' = IF a \in Putting(j) THEN Cardinality(Putting(j)) - 1
                                                                                 ELSE Cardinality(Putting(j))
  <2>1. IsFiniteSet(Putting(j))  BY DEF DInv, JobOK
  <2> QED  BY <1>3, <2>1, FS_RemoveElement
<1>5. removed /\ x.job = j => a \in Putting(j)  BY <1>1 DEF Putting
<1> HIDE DEF x
<1>6. IsFiniteSet(CopiesFor(j, waiting))'
      /\ \/ QueuedFor(j)' = QueuedFor(j)
         \/ QueuedFor(j)' = QueuedFor(j) - 1 /\ removed /\ x.job = j
  <2>1. CASE removed
    <3>1. waiting' = waiting (-) SetToBag({x})  BY <1>1, <2>1
    <3>2. IsFiniteSet(CopiesFor(j, waiting))'
          /\ QueuedFor(j)' = IF x \in BagToSet(waiting) /\ x.job = j THEN QueuedFor(j) - 1 ELSE QueuedFor(j)
        BY <3>1, JobNumbers, EntryTaken DEF DInv, DTyped
    <3> QED  BY <2>1, <3>2
  <2>2. CASE ~removed  BY <1>1, <2>2, JobNumbers, QueuesUnchanged
  <2> QED  BY <2>1, <2>2
<1>7. InHandFor(j)' = InHandFor(j)  BY <1>1, SameHands
<1>8. QueuedFor(j)' \in Nat  BY <1>6, FS_CardinalityType DEF QueuedFor
<1>9. Tokens(j)' \in Nat /\ Tokens(j)' <= Tokens(j)
      /\ Tokens(j)' - Cardinality(Putting(j))' >= Tokens(j) - Cardinality(Putting(j))
    BY <1>4, <1>5, <1>6, <1>7, <1>8, JobNumbers DEF Tokens
<1>10. Nowhere(j) => Nowhere(j)'
  <2>1. BagToSet(waiting') \subseteq BagToSet(waiting)
      BY <1>1, BagTakeProperties DEF DInv, DTyped, QueuesTyped
  <2>2. \A b \in Admins : requeue'[b].entry # None => requeue'[b].entry = requeue[b].entry
      BY <1>2 DEF NoRequeue
  <2>3. working' = working  BY <1>1
  <2> QED  BY <2>1, <2>2, <2>3 DEF Nowhere
<1>11. fate' = fate /\ (j \in adding' => fate'[j] = {})  BY <1>1 DEF DInv, JobOK
<1> QED  BY <1>1, <1>4, <1>6, <1>9, <1>10, <1>11, JobStays

\* A crash forgets what callers owe, and keeps a token of every job that had one.
LEMMA CrashKeeps ==
    ASSUME DInv, DeliveryCrash, NEW j \in Jobs
    PROVE  JobOK(j)'
<1>1. PICK landed \in SUBSET adding, passed \in SUBSET {w \in Workers : working[w].successor # None} :
          /\ waiting' = waiting (+) GivenOutAgain (+) SetToBag({First(k) : k \in landed})
                                (+) SetToBag({working[w].successor : w \in passed})
          /\ fate' = [k \in Jobs |-> IF k \notin adding THEN fate[k]
                                     ELSE {IF k \in landed THEN "accepted" ELSE "rejected"}]
    BY DEF DeliveryCrash
<1>2. /\ crashes < MaxCrashes /\ crashes' = crashes + 1 /\ working' = [w \in Workers |-> Idle] /\ adding' = {}
      /\ requeue' = [a \in Admins |-> NoRequeue] /\ UNCHANGED requeued
    BY DEF DeliveryCrash
<1>3. /\ IsFiniteSet(CopiesFor(j, waiting))'
      /\ QueuedFor(j)' <= QueuedFor(j) + 2 * Cardinality(InHandFor(j)) + IF j \in landed THEN 1 ELSE 0
      /\ Tokens(j) > 0 \/ j \in landed => QueuedFor(j)' > 0
      /\ \A x \in BagToSet(waiting') : x \in BagToSet(waiting)
             \/ (\E w \in Workers : working[w].entry # None /\ x.job = working[w].entry.job) \/ x.job \in landed
    BY <1>1, JobNumbers, CrashCopies DEF DInv
<1>4. Putting(j)' = {} /\ IsFiniteSet(Putting(j))' /\ Cardinality(Putting(j))' = 0
  <2>1. Putting(j)' = {}  BY <1>2 DEF Putting, NoRequeue
  <2> QED  BY <2>1, FS_EmptySet
<1>5. Cardinality(InHandFor(j))' = 0
  <2>1. InHandFor(j)' = {}  BY <1>2 DEF InHandFor, Idle
  <2> QED  BY <2>1, FS_EmptySet
<1>6. QueuedFor(j)' \in Nat  BY <1>3, FS_CardinalityType DEF QueuedFor
<1>7. Tokens(j)' = QueuedFor(j)'  BY <1>5, <1>6 DEF Tokens
<1>8. JobOK(j)  BY DEF DInv
<1>9. j \in adding => fate[j] = {} /\ Nowhere(j) /\ Tokens(j) = 0
    BY <1>8, JobNumbers DEF JobOK
<1>10. Tokens(j)' <= (1 + requeued'[j]) * Doubled[crashes']
  <2> DEFINE r == requeued[j]  d == Doubled[crashes]  q == QueuedFor(j)  h == Cardinality(InHandFor(j))
  <2>1. Tokens(j) <= (1 + r) * d /\ Tokens(j) = q + h  BY <1>8 DEF JobOK, Tokens
  <2>2. r \in Nat /\ d \in Nat \ {0} /\ (1 + r) * d \in Nat \ {0} /\ q \in Nat /\ h \in Nat  BY JobNumbers
  <2>3. Doubled[crashes'] = 2 * d /\ requeued'[j] = r
    <3>1. crashes \in 0..MaxCrashes /\ MaxCrashes \in Nat  BY DeliveryAssumption DEF DInv, DTyped, CallsTyped
    <3>2. crashes + 1 \in 1..MaxCrashes /\ (crashes + 1) - 1 = crashes  BY <1>2, <3>1
    <3> QED  BY <1>2, <3>2, DoubledProperties
  <2>4. j \in landed => q = 0 /\ h = 0  BY <1>9, <2>1, <2>2
  <2>5. QueuedFor(j)' <= q + 2 * h + IF j \in landed THEN 1 ELSE 0  BY <1>3
  <2> HIDE DEF r, d, q, h
  <2>6. (1 + r) * (2 * d) = 2 * ((1 + r) * d)  BY <2>2
  <2>7. CASE j \in landed  BY <1>6, <1>7, <2>2, <2>3, <2>4, <2>5, <2>6, <2>7
  <2>8. CASE j \notin landed  BY <1>6, <1>7, <2>1, <2>2, <2>3, <2>5, <2>6, <2>8
  <2> QED  BY <2>7, <2>8
<1>11. fate'[j] = IF j \notin adding THEN fate[j] ELSE {IF j \in landed THEN "accepted" ELSE "rejected"}
    BY <1>1
<1>12. ASSUME "accepted" \notin fate'[j]  PROVE Nowhere(j)'
  <2>1. Nowhere(j) /\ j \notin landed  BY <1>8, <1>9, <1>11, <1>12 DEF JobOK
  <2>2. \A x \in BagToSet(waiting') : x.job # j  BY <1>3, <2>1 DEF Nowhere
  <2> QED  BY <1>2, <2>2 DEF Nowhere, Idle, NoRequeue
<1>13. ASSUME "accepted" \in fate'[j]  PROVE Ended(j)' \/ Tokens(j)' > Cardinality(Putting(j))'
  <2>1. CASE j \in adding  BY <1>3, <1>4, <1>7, <1>11, <1>13, <2>1
  <2>2. CASE j \notin adding
    <3>1. fate'[j] = fate[j]  BY <1>11, <2>2
    <3>2. Ended(j) => Ended(j)'  BY <3>1 DEF Ended
    <3>3. Tokens(j) > Cardinality(Putting(j)) => Tokens(j) > 0  BY JobNumbers
    <3> QED  BY <1>3, <1>4, <1>7, <1>8, <1>13, <3>1, <3>2, <3>3 DEF JobOK
  <2> QED  BY <2>1, <2>2
<1> QED  BY <1>2, <1>3, <1>4, <1>10, <1>12, <1>13 DEF JobOK

\* The invariant is inductive,
LEMMA DeliveryStep ==
    ASSUME DInv, [DeliveryNext]_deliveryVars
    PROVE  DInv'
<1>1. DTyped'  BY DeliveryTyped DEF DInv
<1>2. SUFFICES ASSUME NEW j \in Jobs  PROVE JobOK(j)'
    BY <1>1 DEF DInv
<1>3. CASE UNCHANGED deliveryVars
  <2>1. UNCHANGED <<waiting, working, adding, fate, requeue, requeued, crashes>>  BY <1>3 DEF deliveryVars
  <2>2. IsFiniteSet(CopiesFor(j, waiting))' /\ QueuedFor(j)' = QueuedFor(j)
      BY <2>1, JobNumbers, QueuesUnchanged
  <2>3. InHandFor(j)' = InHandFor(j)  BY <2>1, SameHands
  <2>4. Tokens(j)' = Tokens(j)  BY <2>2, <2>3 DEF Tokens
  <2>5. Putting(j)' = Putting(j) /\ IsFiniteSet(Putting(j))'  BY <2>1, SamePutting
  <2>6. Nowhere(j) => Nowhere(j)'  BY <2>1 DEF Nowhere
  <2> QED  BY <2>1, <2>2, <2>4, <2>5, <2>6, JobNumbers, JobStays DEF DInv, JobOK
<1>4. CASE ClearKeys
  <2>1. UNCHANGED <<waiting, working, adding, fate, requeue, requeued, crashes>>  BY <1>4 DEF ClearKeys
  <2>2. IsFiniteSet(CopiesFor(j, waiting))' /\ QueuedFor(j)' = QueuedFor(j)
      BY <2>1, JobNumbers, QueuesUnchanged
  <2>3. InHandFor(j)' = InHandFor(j)  BY <2>1, SameHands
  <2>4. Tokens(j)' = Tokens(j)  BY <2>2, <2>3 DEF Tokens
  <2>5. Putting(j)' = Putting(j) /\ IsFiniteSet(Putting(j))'  BY <2>1, SamePutting
  <2>6. Nowhere(j) => Nowhere(j)'  BY <2>1 DEF Nowhere
  <2> QED  BY <2>1, <2>2, <2>4, <2>5, <2>6, JobNumbers, JobStays DEF DInv, JobOK
<1>5. CASE DeadLetterEvicted
  <2>1. PICK x \in BagToSet(waiting) : waiting' = waiting (-) SetToBag({x}) /\ fate' = Becomes(x.job, "evicted")
      BY <1>5 DEF DeadLetterEvicted, DeadLetters
  <2>2. UNCHANGED <<working, adding, requeue, requeued, crashes>>  BY <1>5 DEF DeadLetterEvicted
  <2> QED  BY <2>1, <2>2, RemovalKeeps
<1>6. ASSUME NEW x \in BagToSet(waiting), CancelJob(x)  PROVE JobOK(j)'
  <2>1. /\ waiting' = waiting (-) SetToBag({x}) /\ fate' = Becomes(x.job, "cancelled")
        /\ UNCHANGED <<working, adding, requeue, requeued, crashes>>
      BY <1>6 DEF CancelJob
  <2> QED  BY <2>1, RemovalKeeps
<1>7. ASSUME NEW w \in Workers, WorkerStep(w)  PROVE JobOK(j)'
    BY <1>7, TakeKeeps, HandlerSucceedsKeeps, HandlerFailsKeeps, SuccessorAddedKeeps DEF WorkerStep
<1>8. ASSUME NEW a \in Admins, RequeueFound(a) \/ RequeueAdded(a) \/ \E removed \in BOOLEAN : RequeueEnds(a, removed)
      PROVE JobOK(j)'
    BY <1>8, RequeueFoundKeeps, RequeueAddedKeeps, RequeueEndsKeeps
<1>9. ASSUME NEW k \in Jobs, Deliver(k) \/ \E added \in BOOLEAN : DeliverEnds(k, added)
      PROVE JobOK(j)'
    BY <1>9, DeliverKeeps, DeliverEndsKeeps
<1>10. CASE DeliveryCrash  BY <1>10, CrashKeeps
<1> QED  BY <1>3, <1>4, <1>5, <1>6, <1>7, <1>8, <1>9, <1>10 DEF DeliveryNext, QueueStep

\* holds in the beginning,
LEMMA DeliveryStart == DeliveryInit => DInv
<1> SUFFICES ASSUME DeliveryInit  PROVE DInv
    OBVIOUS
<1>1. BagToSet(waiting) = {} /\ IsABag(waiting)
    BY DEF DeliveryInit, EmptyBag, SetToBag, IsABag, BagToSet
<1>2. DTyped
    BY <1>1, DeliveryAssumption
    DEF DTyped, QueuesTyped, WorkersTyped, RequeuesTyped, CallsTyped, DeliveryInit, Idle, NoRequeue
<1>3. ASSUME NEW j \in Jobs  PROVE JobOK(j)
  <2>1. Nowhere(j)  BY <1>1 DEF Nowhere, DeliveryInit, Idle, NoRequeue
  <2>2. CopiesFor(j, waiting) = {}  BY <1>1, CopyMember
  <2>3. InHandFor(j) = {} /\ Putting(j) = {}  BY DEF InHandFor, Putting, DeliveryInit, Idle, NoRequeue
  <2>4. Tokens(j) = 0 /\ IsFiniteSet(CopiesFor(j, waiting)) /\ IsFiniteSet(Putting(j))
      BY <2>2, <2>3, FS_EmptySet DEF Tokens, QueuedFor
  <2>5. (1 + requeued[j]) * Doubled[crashes] = 1  BY DoubledProperties DEF DeliveryInit
  <2> QED  BY <2>1, <2>4, <2>5 DEF JobOK, DeliveryInit
<1> QED  BY <1>2, <1>3 DEF DInv

\* and implies the properties.
LEMMA DeliveryMeans ==
    ASSUME DInv
    PROVE  DeliveryTypeOK /\ NothingLost /\ CopiesAccounted
<1>1. DeliveryTypeOK
    BY DEF DInv, DTyped, QueuesTyped, WorkersTyped, RequeuesTyped, CallsTyped, DeliveryTypeOK, Sound, Fates
<1>2. CopiesAccounted  BY DEF CopiesAccounted, Tokens, DInv, JobOK
<1>3. ASSUME NEW j \in Jobs, "accepted" \in fate[j], ~Ended(j)
      PROVE  InHandFor(j) # {} \/ QueuedFor(j) > 0
  <2>1. Tokens(j) > 0  BY <1>3, JobNumbers DEF DInv, JobOK
  <2>2. InHandFor(j) = {} => Cardinality(InHandFor(j)) = 0  BY FS_EmptySet
  <2> QED  BY <2>1, <2>2, JobNumbers DEF Tokens
<1>4. NothingLost  BY <1>3 DEF NothingLost, Ended
<1> QED  BY <1>1, <1>2, <1>4

\* An event that deliver() accepted is queued or in hand until something final
\* became of it, and is there no more often than requeues and crashes explain,
\* for any number of jobs, attempts, callers, requeues and crashes.
THEOREM EventsKept == DeliverySpec => [](NothingLost /\ CopiesAccounted)
<1>1. DInv /\ [DeliveryNext]_deliveryVars => DInv'  BY DeliveryStep
<1>2. DInv => NothingLost /\ CopiesAccounted  BY DeliveryMeans
<1> QED  BY <1>1, <1>2, DeliveryStart, PTL DEF DeliverySpec

-----------------------------------------------------------------------------
\* The types of the router.
RunStates == {"none", "running", "succeeded", "failed"}
Circuit == [state : {"closed", "open", "half_open"}, failures : 0..Threshold, due : BOOLEAN]
\* The id stands for a handler that runs for another request than r.
UsedElsewhere(r, id) == \E q \in Requests \ {r}, h \in Handlers : run[q][h] = "running" /\ id = Id(q, h)
\* What route() can have made of the slots and circuits while it starts the
\* handlers of r.
Routable(r) ==
    {s \in [active : SUBSET (Handlers \X Events), run : [Handlers -> RunStates], circuit : [Handlers -> Circuit]] :
        \A id \in s.active :
            UsedElsewhere(r, id) \/ \E h \in Handlers : s.run[h] = "running" /\ id = Id(r, h)}

\* The circuit of a route keeps its type, whatever becomes of it.
LEMMA CircuitShape ==
    /\ ClosedRoute \in Circuit
    /\ \A k \in Circuit : Failed(k) \in Circuit /\ Reset(k) \in Circuit /\ Tried(k) \in Circuit
<1>1. Threshold \in Nat \ {0}  BY RouterAssumption
<1>2. ClosedRoute \in Circuit  BY <1>1 DEF ClosedRoute, Circuit
<1>3. ASSUME NEW k \in Circuit  PROVE Failed(k) \in Circuit
  <2>1. k.failures \in 0..Threshold  BY DEF Circuit
  <2>2. (IF k.failures < Threshold THEN k.failures + 1 ELSE k.failures) \in 0..Threshold  BY <1>1, <2>1
  <2> QED  BY <2>2 DEF Failed, Circuit
<1>4. ASSUME NEW k \in Circuit  PROVE Tried(k) \in Circuit  BY DEF Tried, Circuit
<1> QED  BY <1>2, <1>3, <1>4 DEF Reset

\* Starting one handler keeps every slot that of a handler in execution.
LEMMA StartRoutable ==
    ASSUME NEW r \in Requests, NEW s \in Routable(r), NEW h \in Handlers
    PROVE  Start(r, s, h) \in Routable(r)
<1> DEFINE t == Start(r, s, h)
<1>1. Id(r, h) \in Handlers \X Events  BY RouterAssumption DEF Id
<1>2. /\ s.active \in SUBSET (Handlers \X Events) /\ s.run \in [Handlers -> RunStates]
      /\ s.circuit \in [Handlers -> Circuit]
      /\ s = [active |-> s.active, run |-> s.run, circuit |-> s.circuit]
      /\ \A id \in s.active : UsedElsewhere(r, id) \/ \E g \in Handlers : s.run[g] = "running" /\ id = Id(r, g)
    BY DEF Routable
<1>3. ASSUME Cardinality(s.active) >= MaxHandlers  PROVE t \in Routable(r)
  <2>1. t = [active |-> s.active \ {Id(r, h)}, run |-> [s.run EXCEPT ![h] = "failed"],
             circuit |-> [s.circuit EXCEPT ![h] = Failed(@)]]
      BY <1>3 DEF Start
  <2>2. [s.run EXCEPT ![h] = "failed"] \in [Handlers -> RunStates]  BY <1>2 DEF RunStates
  <2>3. [s.circuit EXCEPT ![h] = Failed(@)] \in [Handlers -> Circuit]  BY <1>2, CircuitShape
  <2>4. ASSUME NEW id \in s.active \ {Id(r, h)}
        PROVE  UsedElsewhere(r, id) \/ \E g \in Handlers : [s.run EXCEPT ![h] = "failed"][g] = "running" /\ id = Id(r, g)
    <3>1. CASE UsedElsewhere(r, id)  BY <3>1
    <3>2. CASE \E g \in Handlers : s.run[g] = "running" /\ id = Id(r, g)
      <4>1. PICK g \in Handlers : s.run[g] = "running" /\ id = Id(r, g)  BY <3>2
      <4>2. g # h  BY <4>1
      <4> QED  BY <1>2, <4>1, <4>2
    <3> QED  BY <1>2, <3>1, <3>2
  <2> HIDE DEF t
  <2> QED  BY <1>2, <2>1, <2>2, <2>3, <2>4 DEF Routable
<1>4. ASSUME ~(Cardinality(s.active) >= MaxHandlers)  PROVE t \in Routable(r)
  <2>1. t = [active |-> s.active \cup {Id(r, h)}, run |-> [s.run EXCEPT ![h] = "running"], circuit |-> s.circuit]
    <3>1. t = [s EXCEPT !.active = @ \cup {Id(r, h)}, !.run[h] = "running"]  BY <1>4 DEF Start
    <3> HIDE DEF t
    <3> QED  BY <1>2, <3>1
  <2>2. [s.run EXCEPT ![h] = "running"] \in [Handlers -> RunStates]  BY <1>2 DEF RunStates
  <2>3. ASSUME NEW id \in s.active \cup {Id(r, h)}
        PROVE  UsedElsewhere(r, id) \/ \E g \in Handlers : [s.run EXCEPT ![h] = "running"][g] = "running" /\ id = Id(r, g)
    <3>1. CASE UsedElsewhere(r, id)  BY <3>1
    <3>2. CASE \E g \in Handlers : s.run[g] = "running" /\ id = Id(r, g)
      <4>1. PICK g \in Handlers : s.run[g] = "running" /\ id = Id(r, g)  BY <3>2
      <4> QED  BY <1>2, <4>1
    <3>3. CASE id = Id(r, h)  BY <1>2, <3>3
    <3> QED  BY <1>2, <3>1, <3>2, <3>3
  <2> HIDE DEF t
  <2> QED  BY <1>1, <1>2, <2>1, <2>2, <2>3 DEF Routable
<1> QED  BY <1>3, <1>4

\* The router's part of the invariant.
RouterInv ==
    /\ routes \subseteq Handlers
    /\ circuit \in [Handlers -> Circuit]
    /\ active \subseteq Handlers \X Events
    /\ run \in [Requests -> [Handlers -> RunStates]]
    /\ SlotsInUse

\* The loop of route() therefore ends in such a state.
LEMMA RouteResult ==
    ASSUME RouterInv, NEW r \in Requests, run[r] = NoRuns, Route(r)
    PROVE  \E s \in Routable(r) :
              active' = s.active /\ run' = [run EXCEPT ![r] = s.run] /\ circuit' = s.circuit /\ routes' = routes
<1> DEFINE found   == {h \in routes : Admitted(circuit[h]) /\ EventOf[r] \in Matching[h]}
           before  == [active |-> active, run |-> NoRuns,
                       circuit |-> [h \in Handlers |-> IF h \in routes THEN Tried(circuit[h]) ELSE circuit[h]]]
           started == Filter(ByPriority, found)
           n       == Len(started)
           S       == Routable(r)
           Rec(f)  == f = [i \in 0..n |-> IF i = 0 THEN before ELSE Start(r, f[i - 1], started[i])]
           after   == CHOOSE f : Rec(f)
           G       == [i \in 1..n |-> [s \in S |-> Start(r, s, started[i])]]
<1>1. /\ active' = after[n].active /\ run' = [run EXCEPT ![r] = after[n].run]
      /\ circuit' = after[n].circuit /\ routes' = routes
    BY Zenon DEF Route
<1>2. started \in Seq(Handlers) /\ n \in Nat /\ \A i \in 1..n : started[i] \in Handlers
  <2>1. Filter(ByPriority, found) \in Seq(Handlers)  BY RouterAssumption, FilterProperties
  <2>2. started \in Seq(Handlers)  BY <2>1
  <2> HIDE DEF started
  <2> QED  BY <2>2
<1>3. before \in S
  <2>1. NoRuns \in [Handlers -> RunStates]  BY DEF NoRuns, RunStates
  <2>2. [h \in Handlers |-> IF h \in routes THEN Tried(circuit[h]) ELSE circuit[h]] \in [Handlers -> Circuit]
      BY CircuitShape DEF RouterInv
  <2>3. ASSUME NEW id \in active  PROVE UsedElsewhere(r, id)
    <3>1. PICK q \in Requests, h \in Handlers : run[q][h] = "running" /\ id = Id(q, h)
        BY DEF RouterInv, SlotsInUse
    <3>2. q # r  BY <3>1 DEF NoRuns
    <3> QED  BY <3>1, <3>2 DEF UsedElsewhere
  <2>4. active \in SUBSET (Handlers \X Events)  BY DEF RouterInv
  <2> QED  BY <2>1, <2>2, <2>3, <2>4 DEF Routable
<1> HIDE DEF started, before, found
<1>4. G \in [1..n -> [S -> S]]
  <2>1. \A i \in 1..n, s \in S : Start(r, s, started[i]) \in S  BY <1>2, StartRoutable
  <2> HIDE DEF S
  <2> QED  BY <2>1
<1>5. PICK g \in [0..n -> S] : Runs(g, n, before, G)
  <2> HIDE DEF G, S, n
  <2> QED  BY <1>2, <1>3, <1>4, RecursionOnInterval
<1>6. Rec(g)
  <2>1. \A i \in 0..n : i # 0 => i \in 1..n /\ i - 1 \in 0..n  BY <1>2
  <2>2. \A i \in 1..n : g[i] = G[i][g[i - 1]] /\ g[i - 1] \in S  BY <1>5, <2>1 DEF Runs
  <2>3. \A i \in 1..n : g[i] = Start(r, g[i - 1], started[i])
    <3> HIDE DEF S
    <3> QED  BY <2>2
  <2>4. g[0] = before  BY <1>5 DEF Runs
  <2>5. \A i \in 0..n : g[i] = IF i = 0 THEN before ELSE Start(r, g[i - 1], started[i])
      BY <2>1, <2>3, <2>4
  <2> HIDE DEF S, G
  <2> QED  BY <2>5
<1>7. Rec(after)
  <2> HIDE DEF Rec
  <2> QED  BY <1>6, Zenon
<1>8. after[n] \in S
  <2> DEFINE I == {i \in 0..n : after[i] \in S}
  <2>1. after = [i \in 0..n |-> IF i = 0 THEN before ELSE Start(r, after[i - 1], started[i])]
      BY <1>7
  <2> HIDE DEF after, Rec, G
  <2>2. after[0] = before /\ \A i \in 1..n : after[i] = Start(r, after[i - 1], started[i])
    <3>1. 0 \in 0..n /\ \A i \in 1..n : i \in 0..n /\ i # 0  BY <1>2
    <3> HIDE DEF n
    <3> QED  BY <2>1, <3>1
  <2>3. \A i \in 1..n, s \in S : Start(r, s, started[i]) \in S  BY <1>2, StartRoutable
  <2> HIDE DEF S
  <2>4. 0 \in I /\ \A i \in 1..n : i - 1 \in I => i \in I  BY <1>2, <1>3, <2>2, <2>3
  <2>5. \A i \in 0..n : i \in I
    <3> HIDE DEF I, n
    <3> QED  BY <1>2, <2>4, IntervalInduction
  <2> QED  BY <1>2, <2>5
<1> HIDE DEF after, Rec, G, n, S
<1> QED  BY <1>1, <1>8 DEF S

\* The types of the pipeline, and what each step of a request implies.
Steps == {"new", "saving", "routing", "delivering", "syncing", "answered", "failed", "aborted"}
PipeTyped ==
    /\ step \in [Requests -> Steps] /\ todo \in [Requests -> Seq(Handlers)]
    /\ results \in [Requests -> SUBSET Handlers] /\ syncs \subseteq Entities
NotYetRouted == \A r \in Requests : step[r] \in {"new", "saving"} => run[r] = NoRuns
\* What a matched request still owes: a handler among its results has ended,
\* and those that route() waits for are among them.
HandingOver(r) ==
    /\ step[r] \in {"delivering", "syncing", "answered", "failed"} /\ results[r] \subseteq Results(r)
    /\ \A i \in DOMAIN Started(r) : Awaited(i) => Started(r)[i] \in results[r]
    /\ step[r] = "delivering" =>
          \A h \in results[r] : run[r][h] = "succeeded" => h \in ToSet(todo[r]) \/ Kept(<<r, h>>)
    /\ step[r] \in {"syncing", "answered"} =>
          \A h \in results[r] : run[r][h] = "succeeded" => Kept(<<r, h>>)
Handing == \A r \in Requests : results[r] # {} => HandingOver(r)
PipeInv == PipeTyped /\ NotYetRouted /\ Handing /\ SyncsExclusive
\* A key is recorded for a job that was tried.
KeysAsked == \A k \in keys : \E j \in ExactlyOnce : KeyOf[j] = k /\ Asked(j)
WInv == DInv /\ KeysAsked /\ RouterInv /\ PipeInv

\* Until a crash, what became of a job stays known, and so does what was tried.
Lasting == \A j \in Jobs : fate[j] \subseteq fate'[j] /\ (Asked(j) => Asked(j)')

LEMMA FateGrows ==
    ASSUME CallsTyped,
           \/ QueueStep \/ UNCHANGED deliveryVars
           \/ \E k \in Jobs : Deliver(k) \/ \E added \in BOOLEAN : DeliverEnds(k, added)
    PROVE  Lasting
<1>1. \A j \in Jobs : \A k, f : fate[j] \subseteq Becomes(k, f)[j] /\ Becomes(j, f)[j] = fate[j] \cup {f}
    BY DEF Becomes, CallsTyped
<1>2. \/ fate' = fate \/ \E k, f : fate' = Becomes(k, f)
  <2>1. ASSUME NEW k \in Jobs, Deliver(k) \/ \E added \in BOOLEAN : DeliverEnds(k, added)
        PROVE  fate' = fate \/ \E i, f : fate' = Becomes(i, f)
      BY <2>1 DEF Deliver, DeliverEnds
  <2>2. ASSUME NEW w \in Workers, WorkerStep(w)
        PROVE  fate' = fate \/ \E i, f : fate' = Becomes(i, f)
      BY <2>2 DEF WorkerStep, Take, HandlerSucceeds, HandlerFails, SuccessorAdded
  <2>3. ASSUME NEW a \in Admins, RequeueFound(a) \/ RequeueAdded(a) \/ \E removed \in BOOLEAN : RequeueEnds(a, removed)
        PROVE  fate' = fate
      BY <2>3 DEF RequeueFound, RequeueAdded, RequeueEnds
  <2>4. ASSUME NEW x \in BagToSet(waiting), CancelJob(x)
        PROVE  fate' = fate \/ \E i, f : fate' = Becomes(i, f)
      BY <2>4 DEF CancelJob
  <2>5. DeadLetterEvicted => \E i, f : fate' = Becomes(i, f)  BY DEF DeadLetterEvicted
  <2>6. ClearKeys => fate' = fate  BY DEF ClearKeys
  <2>7. UNCHANGED deliveryVars => fate' = fate  BY DEF deliveryVars
  <2> QED  BY <2>1, <2>2, <2>3, <2>4, <2>5, <2>6, <2>7 DEF QueueStep
<1>3. \A j \in Jobs : fate[j] \subseteq fate'[j]  BY <1>1, <1>2
<1>4. ASSUME NEW j \in adding, j \notin adding'  PROVE fate'[j] \cap {"accepted", "rejected"} # {}
  <2>1. QueueStep => UNCHANGED adding
    <3>1. ASSUME NEW w \in Workers, WorkerStep(w)  PROVE UNCHANGED adding
        BY <3>1 DEF WorkerStep, Take, HandlerSucceeds, HandlerFails, SuccessorAdded
    <3> QED  BY <3>1 DEF QueueStep, RequeueFound, RequeueAdded, RequeueEnds, CancelJob, DeadLetterEvicted, ClearKeys
  <2>2. UNCHANGED deliveryVars => UNCHANGED adding  BY DEF deliveryVars
  <2>3. PICK k \in Jobs : Deliver(k) \/ \E added \in BOOLEAN : DeliverEnds(k, added)  BY <1>4, <2>1, <2>2
  <2>4. ~Deliver(k)  BY <1>4 DEF Deliver
  <2>5. PICK added \in BOOLEAN : DeliverEnds(k, added)  BY <2>3, <2>4
  <2>6. j = k /\ fate' = Becomes(k, IF added THEN "accepted" ELSE "rejected")  BY <1>4, <2>5 DEF DeliverEnds
  <2>7. Becomes(k, IF added THEN "accepted" ELSE "rejected")[k] = fate[k] \cup {IF added THEN "accepted" ELSE "rejected"}
      BY <1>1
  <2> QED  BY <2>6, <2>7
<1>5. ASSUME NEW j \in Jobs, Asked(j)  PROVE Asked(j)'
    BY <1>3, <1>4, <1>5 DEF Asked
<1> QED  BY <1>3, <1>5 DEF Lasting

\* A job that is kept stays so, and one whose key is recorded is a duplicate of
\* a job that was tried.
LEMMA KeptLasts ==
    ASSUME Lasting, NEW j \in Jobs, Kept(j)
    PROVE  Kept(j)'
BY DeliveryAssumption DEF Lasting, Kept, SameKey

LEMMA KeysStayAsked ==
    ASSUME CallsTyped, KeysAsked, [DeliveryNext]_deliveryVars
    PROVE  KeysAsked'
<1>1. CASE DeliveryCrash  BY <1>1 DEF DeliveryCrash, KeysAsked
<1>2. CASE ~DeliveryCrash
  <2>1. Lasting  BY <1>2, FateGrows DEF DeliveryNext
  <2>2. CASE keys' \subseteq keys
      BY <2>1, <2>2, DeliveryAssumption DEF KeysAsked, Lasting
  <2>3. ASSUME NEW k \in Jobs, Deliver(k), ~(keys' \subseteq keys)  PROVE KeysAsked'
    <3>1. k \in ExactlyOnce /\ keys' = keys \cup {KeyOf[k]} /\ k \in adding'  BY <2>3 DEF Deliver
    <3> QED  BY <2>1, <3>1, DeliveryAssumption DEF KeysAsked, Lasting, Asked
  <2>4. QueueStep => keys' \subseteq keys
    <3>1. ASSUME NEW w \in Workers, WorkerStep(w)  PROVE UNCHANGED keys
        BY <3>1 DEF WorkerStep, Take, HandlerSucceeds, HandlerFails, SuccessorAdded
    <3> QED  BY <3>1 DEF QueueStep, RequeueFound, RequeueAdded, RequeueEnds, CancelJob, DeadLetterEvicted, ClearKeys
  <2>5. UNCHANGED deliveryVars \/ (\E k \in Jobs, added \in BOOLEAN : DeliverEnds(k, added)) => UNCHANGED keys
      BY DEF deliveryVars, DeliverEnds
  <2> QED  BY <1>2, <2>2, <2>3, <2>4, <2>5 DEF DeliveryNext
<1> QED  BY <1>1, <1>2

\* The router is not concerned.
LEMMA RouterStays == ASSUME RouterInv, UNCHANGED routerVars PROVE RouterInv'
BY DEF RouterInv, SlotsInUse, routerVars

\* A request and a handler are a job of the delivery manager.
LEMMA PairIsJob == \A r \in Requests, h \in Handlers : <<r, h>> \in Jobs
BY PipelineAssumption

\* A request that keeps its results keeps what it owes.
LEMMA HandingStays ==
    ASSUME Handing, Lasting, NEW r \in Requests, results'[r] # {}, results'[r] = results[r],
           step'[r] = step[r], run'[r] = run[r], todo'[r] = todo[r], results[r] \subseteq Handlers
    PROVE  HandingOver(r)'
<1>1. HandingOver(r)  BY DEF Handing
<1>2. \A h \in Handlers : Kept(<<r, h>>) => Kept(<<r, h>>)'  BY PairIsJob, KeptLasts
<1>3. Started(r)' = Started(r) /\ Results(r)' = Results(r)  BY DEF Started, Results
<1> QED  BY <1>1, <1>2, <1>3 DEF HandingOver

\* The results of another request are not concerned.
LEMMA OthersHand ==
    ASSUME Handing, Lasting, PipeTyped, NEW r \in Requests,
           \A q \in Requests \ {r} : /\ results'[q] = results[q] /\ step'[q] = step[q]
                                     /\ run'[q] = run[q] /\ todo'[q] = todo[q],
           results'[r] # {} => HandingOver(r)'
    PROVE  Handing'
<1> SUFFICES ASSUME NEW q \in Requests, results'[q] # {}  PROVE HandingOver(q)'
    BY DEF Handing
<1>1. results[q] \subseteq Handlers  BY DEF PipeTyped
<1>2. CASE q # r  BY <1>1, <1>2, HandingStays
<1> QED  BY <1>2

\* A step of the webhook handling that is not in the sync.
LEMMA SyncsStay ==
    ASSUME SyncsExclusive, UNCHANGED syncs,
           \A r \in Requests : step'[r] = "syncing" <=> step[r] = "syncing"
    PROVE  SyncsExclusive'
<1>1. Syncing' = Syncing  BY DEF Syncing
<1> QED  BY <1>1 DEF SyncsExclusive, Entity

\* The step of one request, which ends or goes on, with nothing else changed.
LEMMA GoesOn ==
    ASSUME WInv, NEW r \in Requests, results[r] = {}, step[r] \in {"new", "saving"},
           NEW s \in {"saving", "failed"}, Goes(r, s),
           step[r] = "new" \/ s = "failed",
           UNCHANGED <<routerVars, deliveryVars, todo, results, syncs>>
    PROVE  RouterInv' /\ PipeInv'
<1>1. RouterInv'  BY RouterStays DEF WInv
<1>2. step' = [step EXCEPT ![r] = s] /\ run' = run /\ fate' = fate
    BY DEF Goes, routerVars, deliveryVars
<1>3. PipeTyped'  BY <1>2 DEF WInv, PipeInv, PipeTyped, Steps
<1>4. \A q \in Requests \ {r} : step'[q] = step[q]  BY <1>2 DEF WInv, PipeInv, PipeTyped
<1>5. step'[r] = s  BY <1>2 DEF WInv, PipeInv, PipeTyped
<1>6. NotYetRouted'  BY <1>2, <1>4, <1>5 DEF WInv, PipeInv, NotYetRouted
<1>9. Lasting  BY FateGrows DEF WInv, DInv, DTyped
<1>7. Handing'  BY <1>2, <1>4, <1>9, OthersHand DEF WInv, PipeInv
<1>8. SyncsExclusive'  BY <1>4, <1>5, SyncsStay DEF WInv, PipeInv
<1> QED  BY <1>1, <1>3, <1>6, <1>7, <1>8 DEF PipeInv

\* One lemma for each action of the pipeline. Parsing and saving:
LEMMA ParseKeeps ==
    ASSUME WInv, NEW r \in Requests, NEW parsed \in BOOLEAN, Parse(r, parsed) \/ SaveFails(r)
    PROVE  RouterInv' /\ PipeInv'
<1>1. step[r] \in {"new", "saving"}  BY DEF Parse, SaveFails
<1>2. results[r] = {}  BY <1>1 DEF WInv, PipeInv, Handing, HandingOver
<1>3. \E s \in {"saving", "failed"} : Goes(r, s) /\ (step[r] = "new" \/ s = "failed")
    BY DEF Parse, SaveFails
<1>4. UNCHANGED <<routerVars, deliveryVars, todo, results, syncs>>  BY DEF Parse, SaveFails
<1> QED  BY <1>1, <1>2, <1>3, <1>4, GoesOn

\* route() starts the handlers of a request that had started none.
LEMMA SavedKeeps ==
    ASSUME WInv, NEW r \in Requests, Saved(r)
    PROVE  RouterInv' /\ PipeInv'
<1>1. step[r] = "saving" /\ step' = [step EXCEPT ![r] = "routing"] /\ Route(r)
      /\ UNCHANGED <<deliveryVars, todo, results, syncs>>
    BY DEF Saved, Goes
<1>2. results[r] = {}  BY <1>1 DEF WInv, PipeInv, Handing, HandingOver
<1>3. run[r] = NoRuns  BY <1>1 DEF WInv, PipeInv, NotYetRouted
<1>4. PICK s \in Routable(r) :
          active' = s.active /\ run' = [run EXCEPT ![r] = s.run] /\ circuit' = s.circuit /\ routes' = routes
    BY <1>1, <1>3, RouteResult DEF WInv
<1>5. /\ s.active \subseteq Handlers \X Events /\ s.run \in [Handlers -> RunStates] /\ s.circuit \in [Handlers -> Circuit]
      /\ \A id \in s.active : UsedElsewhere(r, id) \/ \E h \in Handlers : s.run[h] = "running" /\ id = Id(r, h)
    BY DEF Routable
<1>6. run'[r] = s.run /\ \A q \in Requests \ {r} : run'[q] = run[q]
    BY <1>4 DEF WInv, RouterInv
<1>7. SlotsInUse'
  <2>1. ASSUME NEW id \in active'
        PROVE  \E q \in Requests, h \in Handlers : run'[q][h] = "running" /\ id = Id(q, h)
    <3>1. CASE UsedElsewhere(r, id)  BY <1>6, <3>1 DEF UsedElsewhere
    <3>2. CASE \E h \in Handlers : s.run[h] = "running" /\ id = Id(r, h)  BY <1>6, <3>2
    <3> QED  BY <1>4, <1>5, <2>1, <3>1, <3>2
  <2> QED  BY <2>1 DEF SlotsInUse, Id
<1>8. RouterInv'
  <2>1. run' \in [Requests -> [Handlers -> RunStates]]  BY <1>4, <1>5 DEF WInv, RouterInv
  <2> QED  BY <1>4, <1>5, <1>7, <2>1 DEF WInv, RouterInv
<1>9. step'[r] = "routing" /\ \A q \in Requests \ {r} : step'[q] = step[q]
    BY <1>1 DEF WInv, PipeInv, PipeTyped
<1>10. PipeTyped'  BY <1>1 DEF WInv, PipeInv, PipeTyped, Steps
<1>11. NotYetRouted'  BY <1>6, <1>9 DEF WInv, PipeInv, NotYetRouted
<1>12. Handing'
  <2>1. Lasting  BY <1>1, FateGrows DEF WInv, DInv, DTyped
  <2> QED  BY <1>1, <1>2, <1>6, <1>9, <2>1, OthersHand DEF WInv, PipeInv
<1>13. SyncsExclusive'  BY <1>1, <1>9, SyncsStay DEF WInv, PipeInv
<1> QED  BY <1>8, <1>10, <1>11, <1>12, <1>13 DEF PipeInv

\* The handlers that succeeded are those a matched request still owes.
LEMMA RoutedKeeps ==
    ASSUME WInv, NEW r \in Requests, Routed(r)
    PROVE  RouterInv' /\ PipeInv'
<1>1. step[r] = "routing" /\ step' = [step EXCEPT ![r] = "delivering"]
      /\ UNCHANGED <<routerVars, deliveryVars, syncs>>
    BY DEF Routed, Goes
<1>2. run' = run /\ fate' = fate  BY <1>1 DEF routerVars, deliveryVars
<1>3. step'[r] = "delivering" /\ \A q \in Requests \ {r} : step'[q] = step[q]
    BY <1>1 DEF WInv, PipeInv, PipeTyped
<1>4. results[r] = {}  BY <1>1 DEF WInv, PipeInv, Handing, HandingOver
<1>5. /\ Succeeded(r) \in Seq(Handlers)
      /\ \A h \in Handlers : run[r][h] = "succeeded" => h \in ToSet(Succeeded(r))
      /\ \A i \in DOMAIN Started(r) : Awaited(i) => Started(r)[i] \in Results(r)
  <2> DEFINE A == {h \in Handlers : run[r][h] # "none"}
             C == {h \in Handlers : run[r][h] = "succeeded"}
  <2>1. Started(r) \in Seq(Handlers) /\ ToSet(Started(r)) = ToSet(ByPriority) \cap A
      BY RouterAssumption, FilterProperties DEF Started
  <2>2. Succeeded(r) \in Seq(Handlers) /\ ToSet(Succeeded(r)) = ToSet(Started(r)) \cap C
      BY <2>1, FilterProperties DEF Succeeded
  <2>3. RouteReturns(r)  BY DEF Routed
  <2> QED  BY <2>1, <2>2, <2>3, RouterAssumption DEF RouteReturns
<1>6. \/ results' = [results EXCEPT ![r] = Results(r)] /\ todo' = [todo EXCEPT ![r] = Succeeded(r)]
      \/ UNCHANGED <<results, todo>>
    BY DEF Routed
<1>7. RouterInv'  BY <1>1, RouterStays DEF WInv
<1>8. PipeTyped'
  <2>1. Results(r) \subseteq Handlers  BY DEF Results
  <2> HIDE DEF Results
  <2> QED  BY <1>1, <1>5, <1>6, <2>1 DEF WInv, PipeInv, PipeTyped, Steps
<1>9. NotYetRouted'  BY <1>2, <1>3 DEF WInv, PipeInv, NotYetRouted
<1>10. \A q \in Requests \ {r} : todo'[q] = todo[q] /\ results'[q] = results[q]
    BY <1>6 DEF WInv, PipeInv, PipeTyped
<1>11. Lasting  BY <1>1, FateGrows DEF WInv, DInv, DTyped
<1>12. ASSUME results'[r] # {}  PROVE HandingOver(r)'
  <2>1. results'[r] = Results(r) /\ todo'[r] = Succeeded(r)
      BY <1>4, <1>6, <1>12 DEF WInv, PipeInv, PipeTyped
  <2>2. Started(r)' = Started(r) /\ Results(r)' = Results(r)  BY <1>2 DEF Started, Results
  <2>3. Results(r) \subseteq Handlers  BY DEF Results
  <2> QED  BY <1>2, <1>3, <1>5, <2>1, <2>2, <2>3 DEF HandingOver
<1>13. Handing'  BY <1>2, <1>3, <1>10, <1>11, <1>12, OthersHand DEF WInv, PipeInv
<1>14. SyncsExclusive'  BY <1>1, <1>3, SyncsStay DEF WInv, PipeInv
<1> QED  BY <1>7, <1>8, <1>9, <1>13, <1>14 DEF PipeInv

\* The next delivery is that of the head; the others stay to be done.
LEMMA NextJobTyped ==
    ASSUME PipeTyped, NEW r \in Requests, todo[r] # <<>>
    PROVE  /\ Head(todo[r]) \in Handlers /\ NextJob(r) \in Jobs
           /\ Tail(todo[r]) \in Seq(Handlers)
           /\ \A h \in ToSet(todo[r]) : h = Head(todo[r]) \/ h \in ToSet(Tail(todo[r]))
<1> DEFINE s == todo[r]
<1>1. s \in Seq(Handlers)  BY DEF PipeTyped
<1> HIDE DEF s
<1>2. /\ Len(s) \in Nat \ {0} /\ DOMAIN s = 1..Len(s) /\ Head(s) = s[1] /\ Head(s) \in Handlers
      /\ Tail(s) \in Seq(Handlers) /\ Len(Tail(s)) = Len(s) - 1
      /\ \A i \in 1..Len(Tail(s)) : Tail(s)[i] = s[i + 1]
    BY <1>1, HeadTailProperties DEF s
<1>3. ASSUME NEW h \in ToSet(s), h # Head(s)  PROVE h \in ToSet(Tail(s))
  <2>1. PICK i \in 1..Len(s) : s[i] = h  BY <1>2 DEF ToSet
  <2>2. i # 1  BY <1>2, <1>3, <2>1
  <2>3. i - 1 \in 1..Len(Tail(s)) /\ (i - 1) + 1 = i  BY <1>2, <2>2
  <2>4. i - 1 \in DOMAIN Tail(s) /\ Tail(s)[i - 1] = h  BY <1>2, <2>1, <2>3
  <2> QED  BY <2>4 DEF ToSet
<1> QED  BY <1>2, <1>3, PairIsJob DEF s, NextJob

\* A delivery by r, after which r still owes the same handlers, or one less
\* that has just been dealt with, or has failed.
LEMMA DeliveringKeeps ==
    ASSUME WInv, NEW r \in Requests, step[r] = "delivering", todo[r] # <<>>,
           NEW d \in Handlers, d = Head(todo[r]),
           Lasting,
           UNCHANGED <<routerVars, results, syncs>>,
           \/ UNCHANGED <<step, todo>>
           \/ UNCHANGED step /\ Proceed(r) /\ Kept(<<r, d>>)'
           \/ Goes(r, "failed") /\ UNCHANGED todo
    PROVE  RouterInv' /\ PipeInv'
<1>1. RouterInv' /\ run' = run  BY RouterStays DEF WInv, routerVars
<1>2. Tail(todo[r]) \in Seq(Handlers)  BY NextJobTyped DEF WInv, PipeInv
<1>3. /\ step'[r] \in {"delivering", "failed"}
      /\ \A q \in Requests \ {r} : step'[q] = step[q] /\ todo'[q] = todo[q]
    BY DEF WInv, PipeInv, PipeTyped, Goes, Proceed
<1>4. PipeTyped'  BY <1>2 DEF WInv, PipeInv, PipeTyped, Goes, Proceed, Steps
<1>5. NotYetRouted'  BY <1>1, <1>3 DEF WInv, PipeInv, NotYetRouted
<1>6. ASSUME results'[r] # {}  PROVE HandingOver(r)'
  <2>1. HandingOver(r) /\ results[r] \subseteq Handlers  BY <1>6 DEF WInv, PipeInv, PipeTyped, Handing
  <2>2. \A h \in Handlers : Kept(<<r, h>>) => Kept(<<r, h>>)'  BY PairIsJob, KeptLasts
  <2>3. Started(r)' = Started(r) /\ Results(r)' = Results(r)  BY <1>1 DEF Started, Results
  <2>4. CASE UNCHANGED <<step, todo>>
      BY <1>1, <2>1, <2>2, <2>3, <2>4 DEF HandingOver
  <2>5. CASE UNCHANGED step /\ Proceed(r) /\ Kept(<<r, d>>)'
    <3>1. todo'[r] = Tail(todo[r])  BY <2>5 DEF Proceed, WInv, PipeInv, PipeTyped
    <3>2. ASSUME NEW h \in results[r], run'[r][h] = "succeeded"
          PROVE  h \in ToSet(todo'[r]) \/ Kept(<<r, h>>)'
      <4>1. h \in ToSet(todo[r]) \/ Kept(<<r, h>>)  BY <1>1, <2>1, <3>2 DEF HandingOver
      <4>2. CASE h = d  BY <2>5, <4>2
      <4>3. CASE h # d
          BY <2>1, <2>2, <3>1, <4>1, <4>3, NextJobTyped DEF WInv, PipeInv
      <4> QED  BY <4>2, <4>3
    <3> QED  BY <1>1, <2>1, <2>3, <2>5, <3>2 DEF HandingOver
  <2>6. CASE Goes(r, "failed") /\ UNCHANGED todo
    <3>1. step'[r] = "failed"  BY <2>6 DEF Goes, WInv, PipeInv, PipeTyped
    <3> QED  BY <1>1, <2>1, <2>3, <3>1 DEF HandingOver
  <2> QED  BY <2>4, <2>5, <2>6
<1>8. Handing'  BY <1>1, <1>3, <1>6, OthersHand DEF WInv, PipeInv
<1>7. SyncsExclusive'  BY <1>3, SyncsStay DEF WInv, PipeInv
<1> QED  BY <1>1, <1>4, <1>5, <1>7, <1>8 DEF PipeInv

\* A delivery that was suppressed or accepted is no longer owed.
LEMMA DeliverNextKeeps ==
    ASSUME WInv, NEW r \in Requests,
           DeliverNext(r) \/ \E added \in BOOLEAN : DeliveryAnswered(r, added)
    PROVE  RouterInv' /\ PipeInv'
<1> DEFINE k == NextJob(r)
<1>1. step[r] = "delivering" /\ todo[r] # <<>> /\ UNCHANGED <<routerVars, results, syncs>>
    BY DEF DeliverNext, DeliveryAnswered
<1>2. PICK d \in Handlers : d = Head(todo[r])  BY <1>1, NextJobTyped DEF WInv, PipeInv
<1>9. k \in Jobs /\ k = <<r, d>>  BY <1>1, <1>2, NextJobTyped DEF WInv, PipeInv, NextJob
<1>3. CallsTyped  BY DEF WInv, DInv, DTyped
<1>4. \/ Deliver(k) /\ UNCHANGED step /\ IF Duplicate(k) THEN Proceed(r) ELSE UNCHANGED todo
      \/ \E added \in BOOLEAN : /\ DeliverEnds(k, added)
            /\ IF added THEN Proceed(r) /\ UNCHANGED step ELSE Goes(r, "failed") /\ UNCHANGED todo
    BY DEF DeliverNext, DeliveryAnswered
<1> HIDE DEF k
<1>5. Lasting  BY <1>3, <1>4, <1>9, FateGrows
<1>6. \A f : Becomes(k, f)[k] = fate[k] \cup {f}  BY <1>3, <1>9 DEF Becomes, CallsTyped
<1>7. CASE Deliver(k) /\ UNCHANGED step /\ IF Duplicate(k) THEN Proceed(r) ELSE UNCHANGED todo
  <2>1. CASE Duplicate(k)
    <3>1. fate' = Becomes(k, "suppressed")  BY <1>7, <2>1 DEF Deliver
    <3>2. PICK j \in ExactlyOnce : KeyOf[j] = KeyOf[k] /\ Asked(j)
        BY <2>1 DEF Duplicate, WInv, KeysAsked
    <3>3. k \notin adding /\ fate[k] = {}  BY <1>7 DEF Deliver
    <3>4. j # k  BY <3>2, <3>3 DEF Asked
    <3>5. Asked(j)'  BY <1>5, <3>2, DeliveryAssumption DEF Lasting
    <3>6. Kept(<<r, d>>)'  BY <1>6, <1>9, <3>1, <3>2, <3>4, <3>5 DEF Kept, SameKey
    <3> QED  BY <1>1, <1>2, <1>5, <1>7, <2>1, <3>6, DeliveringKeeps
  <2>2. CASE ~Duplicate(k)
      BY <1>1, <1>2, <1>5, <1>7, <2>2, DeliveringKeeps
  <2> QED  BY <2>1, <2>2
<1>8. ASSUME NEW added \in BOOLEAN, DeliverEnds(k, added),
             IF added THEN Proceed(r) /\ UNCHANGED step ELSE Goes(r, "failed") /\ UNCHANGED todo
      PROVE  RouterInv' /\ PipeInv'
  <2>1. CASE added
    <3>1. fate' = Becomes(k, "accepted")  BY <1>8, <2>1 DEF DeliverEnds
    <3>2. "accepted" \in fate'[<<r, d>>]  BY <1>6, <1>9, <3>1
    <3>3. Kept(<<r, d>>)'  BY <3>2 DEF Kept
    <3> QED  BY <1>1, <1>2, <1>5, <1>8, <2>1, <3>3, DeliveringKeeps
  <2>2. CASE ~added
      BY <1>1, <1>2, <1>5, <1>8, <2>2, DeliveringKeeps
  <2> QED  BY <2>1, <2>2
<1> QED  BY <1>4, <1>7, <1>8

\* Nothing is owed any more when the sync begins, or is refused.
LEMMA SyncBeginsKeeps ==
    ASSUME WInv, NEW r \in Requests, SyncBegins(r)
    PROVE  RouterInv' /\ PipeInv'
<1>1. step[r] = "delivering" /\ todo[r] = <<>> /\ UNCHANGED <<routerVars, deliveryVars, todo, results>>
    BY DEF SyncBegins
<1>2. \/ Entity(r) \in syncs /\ step' = [step EXCEPT ![r] = "answered"] /\ syncs' = syncs
      \/ Entity(r) \notin syncs /\ step' = [step EXCEPT ![r] = "syncing"] /\ syncs' = syncs \cup {Entity(r)}
    BY DEF SyncBegins, Goes, AfterRefusal
<1>3. RouterInv' /\ run' = run /\ fate' = fate  BY <1>1, RouterStays DEF WInv, routerVars, deliveryVars
<1>4. step'[r] \in {"answered", "syncing"} /\ \A q \in Requests \ {r} : step'[q] = step[q]
    BY <1>2 DEF WInv, PipeInv, PipeTyped
<1>5. PipeTyped'
  <2>1. Entity(r) \in Entities  BY RouterAssumption, PipelineAssumption DEF Entity
  <2> QED  BY <1>1, <1>2, <2>1 DEF WInv, PipeInv, PipeTyped, Steps
<1>6. NotYetRouted'  BY <1>3, <1>4 DEF WInv, PipeInv, NotYetRouted
<1>7. Handing'
  <2>1. Lasting  BY <1>1, FateGrows DEF WInv, DInv, DTyped
  <2>2. ASSUME results'[r] # {}  PROVE HandingOver(r)'
    <3>1. HandingOver(r) /\ results[r] \subseteq Handlers /\ ToSet(todo[r]) = {}
        BY <1>1, <2>2 DEF WInv, PipeInv, PipeTyped, Handing, ToSet
    <3>2. \A h \in Handlers : Kept(<<r, h>>) => Kept(<<r, h>>)'  BY <2>1, PairIsJob, KeptLasts
    <3>3. Started(r)' = Started(r) /\ Results(r)' = Results(r)  BY <1>3 DEF Started, Results
    <3> QED  BY <1>1, <1>3, <1>4, <3>1, <3>2, <3>3 DEF HandingOver
  <2> QED  BY <1>1, <1>3, <1>4, <2>1, <2>2, OthersHand DEF WInv, PipeInv
<1>8. SyncsExclusive'
  <2>1. SyncsExclusive  BY DEF WInv, PipeInv
  <2>2. CASE Entity(r) \in syncs /\ step' = [step EXCEPT ![r] = "answered"] /\ syncs' = syncs
      BY <1>1, <1>4, <2>1, <2>2, SyncsStay DEF WInv, PipeInv, PipeTyped
  <2>3. CASE Entity(r) \notin syncs /\ step' = [step EXCEPT ![r] = "syncing"] /\ syncs' = syncs \cup {Entity(r)}
    <3>1. step'[r] = "syncing"  BY <2>3 DEF WInv, PipeInv, PipeTyped
    <3>2. Syncing' = Syncing \cup {r}  BY <1>4, <3>1 DEF Syncing
    <3>3. \A q \in Syncing : Entity(q) # Entity(r)  BY <2>1, <2>3 DEF SyncsExclusive
    <3> QED  BY <2>1, <2>3, <3>2, <3>3 DEF SyncsExclusive, Entity
  <2> QED  BY <1>2, <2>2, <2>3
<1> QED  BY <1>3, <1>5, <1>6, <1>7, <1>8 DEF PipeInv

\* The sync ends, and with it its entity leaves activeSyncs.
LEMMA SyncEndsKeeps ==
    ASSUME WInv, NEW r \in Requests, SyncEnds(r)
    PROVE  RouterInv' /\ PipeInv'
<1>1. step[r] = "syncing" /\ step' = [step EXCEPT ![r] = "answered"] /\ syncs' = syncs \ {Entity(r)}
      /\ UNCHANGED <<routerVars, deliveryVars, todo, results>>
    BY DEF SyncEnds, Goes
<1>2. RouterInv' /\ run' = run /\ fate' = fate  BY <1>1, RouterStays DEF WInv, routerVars, deliveryVars
<1>3. step'[r] = "answered" /\ \A q \in Requests \ {r} : step'[q] = step[q]
    BY <1>1 DEF WInv, PipeInv, PipeTyped
<1>4. PipeTyped'  BY <1>1 DEF WInv, PipeInv, PipeTyped, Steps
<1>5. NotYetRouted'  BY <1>2, <1>3 DEF WInv, PipeInv, NotYetRouted
<1>6. Handing'
  <2>1. Lasting  BY <1>1, FateGrows DEF WInv, DInv, DTyped
  <2>2. ASSUME results'[r] # {}  PROVE HandingOver(r)'
    <3>1. HandingOver(r) /\ results[r] \subseteq Handlers
        BY <1>1, <2>2 DEF WInv, PipeInv, PipeTyped, Handing
    <3>2. \A h \in Handlers : Kept(<<r, h>>) => Kept(<<r, h>>)'  BY <2>1, PairIsJob, KeptLasts
    <3>3. Started(r)' = Started(r) /\ Results(r)' = Results(r)  BY <1>2 DEF Started, Results
    <3> QED  BY <1>1, <1>2, <1>3, <3>1, <3>2, <3>3 DEF HandingOver
  <2> QED  BY <1>1, <1>2, <1>3, <2>1, <2>2, OthersHand DEF WInv, PipeInv
<1>7. SyncsExclusive'
  <2>1. SyncsExclusive /\ r \in Syncing  BY <1>1 DEF WInv, PipeInv, Syncing
  <2>2. Syncing' = Syncing \ {r}  BY <1>3 DEF Syncing
  <2> QED  BY <1>1, <2>1, <2>2 DEF SyncsExclusive, Entity
<1> QED  BY <1>2, <1>4, <1>5, <1>6, <1>7 DEF PipeInv

\* A handler that ends is not among the results of its request.
LEMMA HandlerEndsKeeps ==
    ASSUME WInv, NEW r \in Requests, NEW h \in Handlers, NEW outcome \in {"succeeds", "reports", "throws"},
           HandlerEnds(r, h, outcome), UNCHANGED <<deliveryVars, pipelineVars>>
    PROVE  RouterInv' /\ PipeInv'
<1> DEFINE v == IF outcome = "succeeds" THEN "succeeded" ELSE "failed"
<1>1. /\ run[r][h] = "running" /\ run' = [run EXCEPT ![r][h] = v]
      /\ circuit' = [circuit EXCEPT ![h] = IF outcome = "throws" THEN Failed(@) ELSE Reset(@)]
      /\ active' = active \ {Id(r, h)} /\ routes' = routes
    BY DEF HandlerEnds, NoLongerActive
<1>2. UNCHANGED <<step, todo, results, syncs, fate>>  BY DEF pipelineVars, deliveryVars
<1>3. \A q \in Requests, g \in Handlers : run'[q][g] = IF q = r /\ g = h THEN v ELSE run[q][g]
    BY <1>1 DEF WInv, RouterInv
<1>4. \A q \in Requests \ {r} : run'[q] = run[q]  BY <1>1 DEF WInv, RouterInv
<1>5. SlotsInUse'
  <2>1. ASSUME NEW id \in active'
        PROVE  \E q \in Requests, g \in Handlers : run'[q][g] = "running" /\ id = Id(q, g)
    <3>1. PICK q \in Requests, g \in Handlers : run[q][g] = "running" /\ id = Id(q, g)
        BY <1>1 DEF WInv, RouterInv, SlotsInUse
    <3>2. ~(q = r /\ g = h)  BY <1>1, <3>1
    <3> QED  BY <1>3, <3>1, <3>2
  <2> QED  BY <2>1 DEF SlotsInUse, Id
<1>6. RouterInv'
  <2>1. run' \in [Requests -> [Handlers -> RunStates]]
    <3>1. v \in RunStates  BY DEF RunStates
    <3> HIDE DEF v
    <3> QED  BY <1>1, <3>1 DEF WInv, RouterInv
  <2>2. circuit' \in [Handlers -> Circuit]  BY <1>1, CircuitShape DEF WInv, RouterInv
  <2> QED  BY <1>1, <1>5, <2>1, <2>2 DEF WInv, RouterInv
<1>7. PipeTyped' /\ SyncsExclusive'
    BY <1>2, SyncsStay DEF WInv, PipeInv, PipeTyped
<1>8. ASSUME results'[r] # {}  PROVE HandingOver(r)'
  <2>1. HandingOver(r) /\ results'[r] = results[r]  BY <1>2, <1>8 DEF WInv, PipeInv, Handing
  <2>2. \A g \in results[r] : g \in Handlers /\ run'[r][g] = run[r][g]
    <3>1. ASSUME NEW g \in results[r]  PROVE g \in Handlers /\ g # h
        BY <1>1, <2>1 DEF HandingOver, Results
    <3> QED  BY <1>3, <3>1
  <2>3. Started(r)' = Started(r)
    <3>1. {g \in Handlers : run'[r][g] # "none"} = {g \in Handlers : run[r][g] # "none"}  BY <1>1, <1>3
    <3> QED  BY <3>1, Zenon DEF Started
  <2>4. results[r] \subseteq Results(r)'  BY <2>1, <2>2 DEF HandingOver, Results
  <2>5. \A g : Kept(<<r, g>>)' = Kept(<<r, g>>)  BY DEF Kept, Asked, deliveryVars
  <2> QED  BY <1>2, <2>1, <2>2, <2>3, <2>4, <2>5 DEF HandingOver
<1>9. Handing'
  <2>1. Lasting  BY FateGrows DEF WInv, DInv, DTyped
  <2> QED  BY <1>2, <1>4, <1>8, <2>1, OthersHand DEF WInv, PipeInv
<1>10. step[r] \notin {"new", "saving"}
    BY <1>1 DEF WInv, PipeInv, NotYetRouted, NoRuns
<1>11. NotYetRouted'  BY <1>2, <1>4, <1>10 DEF WInv, PipeInv, NotYetRouted
<1> QED  BY <1>6, <1>7, <1>9, <1>11 DEF PipeInv

\* Routes come and go while handlers of theirs run.
LEMMA RouteChangesKeep ==
    ASSUME WInv, NEW h \in Handlers, AddRoute(h) \/ RemoveRoute(h) \/ NextAttemptDue(h),
           UNCHANGED <<deliveryVars, pipelineVars>>
    PROVE  RouterInv' /\ PipeInv'
<1>1. UNCHANGED <<active, run, step, todo, results, syncs, fate>>
    BY DEF AddRoute, RemoveRoute, NextAttemptDue, pipelineVars, deliveryVars
<1>2. circuit' \in [Handlers -> Circuit]
  <2>1. CASE UNCHANGED circuit  BY <2>1 DEF WInv, RouterInv
  <2>2. CASE RemoveRoute(h)  BY <2>2, CircuitShape DEF WInv, RouterInv, RemoveRoute
  <2>3. CASE NextAttemptDue(h)  BY <2>3 DEF WInv, RouterInv, NextAttemptDue, Circuit
  <2> QED  BY <2>1, <2>2, <2>3 DEF AddRoute
<1>3. routes' \subseteq Handlers
    BY DEF WInv, RouterInv, AddRoute, RemoveRoute, NextAttemptDue
<1>4. RouterInv'  BY <1>1, <1>2, <1>3 DEF WInv, RouterInv, SlotsInUse
<1>5. PipeTyped' /\ SyncsExclusive' /\ NotYetRouted'
    BY <1>1, SyncsStay DEF WInv, PipeInv, PipeTyped, NotYetRouted
<1>6. Handing'
  <2>1. Lasting  BY FateGrows DEF WInv, DInv, DTyped
  <2>2. SUFFICES ASSUME NEW q \in Requests, results'[q] # {}  PROVE HandingOver(q)'  BY DEF Handing
  <2> QED  BY <1>1, <2>1, <2>2, HandingStays DEF WInv, PipeInv, PipeTyped
<1> QED  BY <1>4, <1>5, <1>6 DEF PipeInv

\* The queues and their workers.
LEMMA QueueStepKeeps ==
    ASSUME WInv, QueueStep \/ UNCHANGED deliveryVars, UNCHANGED <<routerVars, pipelineVars>>
    PROVE  RouterInv' /\ PipeInv'
<1>1. RouterInv' /\ UNCHANGED <<run, step, todo, results, syncs>>
    BY RouterStays DEF WInv, routerVars, pipelineVars
<1>2. Lasting  BY FateGrows DEF WInv, DInv, DTyped
<1>3. PipeTyped' /\ SyncsExclusive' /\ NotYetRouted'
    BY <1>1, SyncsStay DEF WInv, PipeInv, PipeTyped, NotYetRouted
<1>4. Handing'
  <2>1. SUFFICES ASSUME NEW q \in Requests, results'[q] # {}  PROVE HandingOver(q)'  BY DEF Handing
  <2> QED  BY <1>1, <1>2, <2>1, HandingStays DEF WInv, PipeInv, PipeTyped
<1> QED  BY <1>1, <1>3, <1>4 DEF PipeInv

\* The process stops.
LEMMA StopKeeps ==
    ASSUME WInv, Crash
    PROVE  RouterInv' /\ PipeInv'
<1> USE DEF Crash
<1>1. NoRuns \in [Handlers -> RunStates]  BY DEF NoRuns, RunStates
<1>2. RouterInv'  BY <1>1, CircuitShape DEF RouterInv, SlotsInUse
<1>3. PipeTyped'  BY DEF WInv, PipeInv, PipeTyped, Steps
<1>4. NotYetRouted' /\ Handing'  BY DEF NotYetRouted, Handing
<1>5. Syncing' = {}  BY DEF Syncing
<1>6. SyncsExclusive'  BY <1>5 DEF SyncsExclusive
<1> QED  BY <1>2, <1>3, <1>4, <1>6 DEF PipeInv

\* Every step of the pipeline is one of the delivery manager, or leaves it alone.
LEMMA StepDelivers ==
    ASSUME PipeTyped, [Next]_vars
    PROVE  [DeliveryNext]_deliveryVars
<1>1. ASSUME NEW r \in Requests, Handling(r)  PROVE [DeliveryNext]_deliveryVars
  <2>1. CASE DeliverNext(r) \/ \E added \in BOOLEAN : DeliveryAnswered(r, added)
    <3>1. NextJob(r) \in Jobs  BY <2>1, NextJobTyped DEF DeliverNext, DeliveryAnswered
    <3> QED  BY <2>1, <3>1 DEF DeliverNext, DeliveryAnswered, DeliveryNext
  <2>2. CASE UNCHANGED deliveryVars  BY <2>2
  <2> QED  BY <1>1, <2>1, <2>2 DEF Handling, Parse, SaveFails, Saved, Routed, SyncBegins, SyncEnds
<1>2. QueueStep \/ DeliveryCrash => DeliveryNext  BY DEF DeliveryNext
<1>3. UNCHANGED vars => UNCHANGED deliveryVars  BY DEF vars, deliveryVars
<1> QED  BY <1>1, <1>2, <1>3 DEF Next, Outside, Crash

\* The invariant is inductive,
LEMMA WebhookStep ==
    ASSUME WInv, [Next]_vars
    PROVE  WInv'
<1>1. DInv' /\ KeysAsked'
    BY StepDelivers, DeliveryStep, KeysStayAsked DEF WInv, PipeInv, DInv, DTyped
<1>2. SUFFICES RouterInv' /\ PipeInv'  BY <1>1 DEF WInv
<1>3. ASSUME NEW r \in Requests, Handling(r)  PROVE RouterInv' /\ PipeInv'
    BY <1>3, ParseKeeps, SavedKeeps, RoutedKeeps, DeliverNextKeeps, SyncBeginsKeeps, SyncEndsKeeps DEF Handling
<1>4. ASSUME NEW h \in Handlers, Outside(Routing(h) /\ UNCHANGED deliveryVars)  PROVE RouterInv' /\ PipeInv'
    BY <1>4, HandlerEndsKeeps, RouteChangesKeep DEF Outside, Routing
<1>5. CASE Outside(QueueStep /\ UNCHANGED routerVars)  BY <1>5, QueueStepKeeps DEF Outside
<1>6. CASE Crash  BY <1>6, StopKeeps
<1>7. CASE UNCHANGED vars
  <2>1. UNCHANGED deliveryVars /\ UNCHANGED <<routerVars, pipelineVars>>
      BY <1>7 DEF vars, deliveryVars, routerVars, pipelineVars
  <2> QED  BY <2>1, QueueStepKeeps
<1> QED  BY <1>3, <1>4, <1>5, <1>6, <1>7 DEF Next

\* holds in the beginning,
LEMMA WebhookStart == Init => WInv
<1> SUFFICES ASSUME Init  PROVE WInv
    OBVIOUS
<1>1. DInv  BY DeliveryStart DEF Init
<1>2. NoRuns \in [Handlers -> RunStates]  BY DEF NoRuns, RunStates
<1>3. RouterInv  BY <1>2, CircuitShape DEF RouterInv, SlotsInUse, Init, RouterInit
<1>4. PipeTyped /\ NotYetRouted /\ Handing
    BY DEF PipeTyped, NotYetRouted, Handing, Init, RouterInit, Steps
<1>5. SyncsExclusive /\ KeysAsked  BY DEF SyncsExclusive, Syncing, KeysAsked, Init, DeliveryInit
<1> QED  BY <1>1, <1>3, <1>4, <1>5 DEF WInv, PipeInv

\* and implies the properties.
LEMMA WebhookMeans ==
    ASSUME WInv
    PROVE  TypeOK /\ SlotsInUse /\ AcknowledgedIsDelivered /\ SyncsExclusive /\ NothingLost /\ CopiesAccounted
<1>1. DeliveryTypeOK /\ NothingLost /\ CopiesAccounted  BY DeliveryMeans DEF WInv
<1>2. TypeOK  BY <1>1 DEF WInv, RouterInv, PipeInv, PipeTyped, TypeOK, RouterTypeOK, Circuit, RunStates, Steps
<1>3. AcknowledgedIsDelivered
    BY DEF WInv, PipeInv, Handing, HandingOver, AcknowledgedIsDelivered
<1> QED  BY <1>1, <1>2, <1>3 DEF WInv, RouterInv, PipeInv

\* For any requests, handlers, filters and limits, with every interleaving of
\* the pipeline, the router and the queues: the types; no slot of the handler
\* limit is leaked; an acknowledged webhook was delivered for every handler that
\* succeeded, if route() waits for it or had its result; one sync per entity; and what the queues promise holds as the
\* pipeline uses them.
THEOREM WebhooksCorrect ==
    Spec => [](TypeOK /\ SlotsInUse /\ AcknowledgedIsDelivered /\ SyncsExclusive /\ NothingLost /\ CopiesAccounted)
<1>1. WInv /\ [Next]_vars => WInv'  BY WebhookStep
<1>2. WInv => TypeOK /\ SlotsInUse /\ AcknowledgedIsDelivered /\ SyncsExclusive /\ NothingLost /\ CopiesAccounted
    BY WebhookMeans
<1> QED  BY <1>1, <1>2, WebhookStart, PTL DEF Spec
=============================================================================
