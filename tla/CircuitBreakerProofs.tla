------------------------ MODULE CircuitBreakerProofs ------------------------
(***************************************************************************)
(* Proofs about CircuitBreaker: the timer of an open circuit, and what is  *)
(* counted towards its decisions.                                          *)
(***************************************************************************)
EXTENDS CircuitBreaker, SequenceTheorems, WellFoundedInduction, TLAPS

(* What an outcome list looks like after one is recorded: a tail of what   *)
(* was there, then the new one.                                            *)
EndsRecorded(old, new) ==
    \E k \in 0..Len(old) :
        /\ Len(new) = Len(old) - k + 1
        /\ \A i \in 1..Len(old) - k : new[i] = old[i + k]
        /\ new[Len(new)] = 0

(* A set of naturals with a member has a least one.                        *)
LEMMA SmallestMember ==
    ASSUME NEW S \in SUBSET Nat, S # {}
    PROVE  \E m \in S : \A n \in S : m <= n
  <1> DEFINE Less == OpToRel(<, Nat)
  <1>1. IsWellFoundedOn(Less, Nat)
    BY NatLessThanWellFounded
  <1>2. \A m, n \in Nat : m < n => <<m, n>> \in Less
    BY DEF OpToRel
  <1> HIDE DEF Less
  <1>3. PICK m \in S : \A n \in S : <<n, m>> \notin Less
    BY <1>1, WFMin
  <1>4. \A n \in S : ~ (n < m)
    BY <1>2, <1>3
  <1>5. S \subseteq Nat
    OBVIOUS
  <1> HIDE DEF Less
  <1> QED
    BY <1>4, <1>5

(* A clock that moves on keeps ages in order and in bounds.                *)
LEMMA OlderBounds ==
    ASSUME NEW m \in Ages, NEW n \in Ages
    PROVE  /\ Older(m) \in Ages
           /\ m <= n => Older(m) <= Older(n)
           /\ Older(m) - Older(n) <= m - n \/ m < n
  BY OptionsAssumption DEF Ages, Older

(* Aging a list of ages keeps its length, its type and its order.          *)
LEMMA AllOlderTyped ==
    ASSUME NEW ages \in Seq(Ages), OldestFirst(ages)
    PROVE  /\ AllOlder(ages) \in Seq(Ages)
           /\ DOMAIN AllOlder(ages) = DOMAIN ages
           /\ OldestFirst(AllOlder(ages))
           /\ \A i \in DOMAIN ages : AllOlder(ages)[i] = Older(ages[i])
  <1>1. \A i \in DOMAIN ages : ages[i] \in Ages
    OBVIOUS
  <1>2. DOMAIN AllOlder(ages) = DOMAIN ages
        /\ \A i \in DOMAIN ages : AllOlder(ages)[i] = Older(ages[i])
    BY DEF AllOlder
  <1>3. AllOlder(ages) \in Seq(Ages)
    <2>1. \A i \in 1..Len(ages) : Older(ages[i]) \in Ages
      BY <1>1, OlderBounds
    <2> QED
      BY <2>1 DEF AllOlder
  <1>4. OldestFirst(AllOlder(ages))
    BY <1>1, <1>2, OlderBounds DEF OldestFirst
  <1> QED
    BY <1>2, <1>3, <1>4

(* cleanOldRecords finds where the recent records start, and recording     *)
(* keeps the rest and the new one: its own is always recent.               *)
LEMMA RecordedEffect ==
    ASSUME NEW ages \in Seq(Ages), OldestFirst(ages)
    PROVE  /\ Recorded(ages) \in Seq(Ages)
           /\ OldestFirst(Recorded(ages))
           /\ EndsRecorded(ages, Recorded(ages))
  <1> DEFINE all == Append(ages, 0)
             Starts(i) == /\ i \in DOMAIN all => all[i] <= MonitoringPeriod
                          /\ \A j \in 1..i - 1 : all[j] > MonitoringPeriod
             first == CHOOSE i \in 1..Len(all) + 1 : Starts(i)
  <1>1. /\ 0 \in Ages /\ all \in Seq(Ages)
        /\ Len(all) = Len(ages) + 1
        /\ all[Len(all)] = 0
        /\ \A i \in 1..Len(ages) : all[i] = ages[i]
    BY OptionsAssumption DEF Ages
  <1>2. \A i \in 1..Len(all) : all[i] \in Ages
    BY <1>1
  <1>3. \E i \in 1..Len(all) : Starts(i)
    <2> DEFINE Recent == {i \in 1..Len(all) : all[i] <= MonitoringPeriod}
    <2>1. Len(all) \in Recent
      BY <1>1, OptionsAssumption
    <2>2. PICK i \in Recent : \A j \in Recent : i <= j
      <3>1. Recent \subseteq Nat /\ Recent # {}
        BY <2>1
      <3> HIDE DEF Recent
      <3> QED
        BY <3>1, SmallestMember
    <2>3. Starts(i)
      BY <2>2, <1>1, <1>2, OptionsAssumption DEF Ages
    <2> QED
      BY <2>2, <2>3
  <1>4. first \in 1..Len(all) + 1 /\ Starts(first)
    <2>1. \E i \in 1..Len(all) + 1 : Starts(i)
      BY <1>1, <1>3
    <2> HIDE DEF Starts
    <2> QED
      BY <2>1, Zenon
  <1>5. first \in 1..Len(all)
    <2> SUFFICES ASSUME first = Len(all) + 1 PROVE FALSE
      <3> HIDE DEF all, first, Starts
      <3> QED
        BY <1>1, <1>4
    <2> HIDE DEF all, first
    <2>1. Len(all) \in 1..first - 1
      BY <1>1
    <2>2. all[Len(all)] > MonitoringPeriod
      BY <1>4, <2>1
    <2> QED
      BY <1>1, <2>2, OptionsAssumption
  <1>6. Recorded(ages) = SubSeq(all, first, Len(all))
    BY DEF Recorded, CleanOldRecords
  <1> HIDE DEF all, first
  <1>7. /\ SubSeq(all, first, Len(all)) \in Seq(Ages)
        /\ Len(SubSeq(all, first, Len(all))) = Len(all) - first + 1
        /\ \A i \in 1..Len(all) - first + 1 :
               SubSeq(all, first, Len(all))[i] = all[first + i - 1]
    BY <1>1, <1>5, SubSeqProperties
  <1>8. EndsRecorded(ages, Recorded(ages))
    <2>1. first - 1 \in 0..Len(ages)
      BY <1>1, <1>5
    <2>2. Len(Recorded(ages)) = Len(ages) - (first - 1) + 1
      BY <1>1, <1>5, <1>6, <1>7
    <2>3. \A i \in 1..Len(ages) - (first - 1) : Recorded(ages)[i] = ages[i + (first - 1)]
      <3> TAKE i \in 1..Len(ages) - (first - 1)
      <3>1. /\ i \in 1..Len(all) - first + 1
            /\ first + i - 1 \in 1..Len(ages)
            /\ first + i - 1 = i + (first - 1)
        BY <1>1, <1>5
      <3> QED
        BY <1>1, <1>6, <1>7, <3>1
    <2>4. Recorded(ages)[Len(Recorded(ages))] = 0
      <3>1. /\ Len(Recorded(ages)) = Len(all) - first + 1
            /\ Len(all) - first + 1 \in 1..Len(all) - first + 1
            /\ first + (Len(all) - first + 1) - 1 = Len(all)
        BY <1>1, <1>5, <1>6, <1>7
      <3> QED
        BY <1>1, <1>6, <1>7, <3>1
    <2> QED
      BY <2>1, <2>2, <2>3, <2>4 DEF EndsRecorded
  <1>9. OldestFirst(Recorded(ages))
    <2>1. \A i, j \in DOMAIN all : i < j => all[i] >= all[j]
      BY <1>1, <1>2 DEF OldestFirst, Ages
    <2>2. DOMAIN Recorded(ages) = 1..Len(all) - first + 1
      BY <1>6, <1>7
    <2>3. ASSUME NEW i \in 1..Len(all) - first + 1, NEW j \in 1..Len(all) - first + 1,
                 i < j
          PROVE  Recorded(ages)[i] >= Recorded(ages)[j]
      <3>1. /\ first + i - 1 \in DOMAIN all /\ first + j - 1 \in DOMAIN all
            /\ first + i - 1 < first + j - 1
        BY <1>1, <1>5, <2>3
      <3>2. /\ Recorded(ages)[i] = all[first + i - 1]
            /\ Recorded(ages)[j] = all[first + j - 1]
        BY <1>6, <1>7
      <3> QED
        BY <2>1, <3>1, <3>2
    <2> QED
      BY <2>2, <2>3 DEF OldestFirst
  <1> QED
    BY <1>6, <1>7, <1>8, <1>9

-----------------------------------------------------------------------------
(* The invariants as facts about one list.                                 *)
Records(ages) == ages \in Seq(Ages) /\ OldestFirst(ages)
Within(ages) == \A i \in DOMAIN ages : ages[i] <= sinceChange
PassedOver(ages, threshold) ==
    \A i \in DOMAIN ages : i >= threshold => sinceChange - ages[i] < MinimumCooldown

BreakerInv == TypeOK /\ RecoveryArmed /\ FreshCounts /\ PassedOverInCooldown

(* Recording one more outcome counts nothing old, and passes over none     *)
(* while the list is shorter than the threshold.                           *)
LEMMA RecordedKeeps ==
    ASSUME NEW ages, Records(ages), sinceChange \in Ages, NEW threshold \in Nat
    PROVE  /\ Records(Recorded(ages))
           /\ Within(ages) => Within(Recorded(ages))
           /\ Len(Recorded(ages)) < threshold => PassedOver(Recorded(ages), threshold)
  <1>1. Records(Recorded(ages)) /\ EndsRecorded(ages, Recorded(ages))
    BY RecordedEffect DEF Records
  <1>2. ASSUME Within(ages) PROVE Within(Recorded(ages))
    <2>1. PICK k \in 0..Len(ages) :
            /\ Len(Recorded(ages)) = Len(ages) - k + 1
            /\ \A i \in 1..Len(ages) - k : Recorded(ages)[i] = ages[i + k]
            /\ Recorded(ages)[Len(Recorded(ages))] = 0
      BY <1>1 DEF EndsRecorded
    <2> SUFFICES ASSUME NEW i \in 1..Len(ages) - k + 1
                 PROVE  Recorded(ages)[i] <= sinceChange
      BY <1>1, <2>1 DEF Within, Records
    <2>2. CASE i = Len(ages) - k + 1
      BY <2>1, <2>2 DEF Ages
    <2>3. CASE i # Len(ages) - k + 1
      <3>1. i \in 1..Len(ages) - k /\ i + k \in 1..Len(ages)
        BY <2>3 DEF Records
      <3> QED
        BY <2>1, <3>1, <1>2 DEF Within, Records
    <2> QED
      BY <2>2, <2>3
  <1>3. ASSUME Len(Recorded(ages)) < threshold
        PROVE  PassedOver(Recorded(ages), threshold)
    BY <1>1, <1>3 DEF PassedOver, Records
  <1> QED
    BY <1>1, <1>2, <1>3

(* changeState keeps the invariants, whether it is ignored or not, given   *)
(* that no outcome recorded so far is older than the state it is about.    *)
LEMMA ChangeStateKeeps ==
    ASSUME BreakerInv, NEW new \in States, NEW fs, NEW ss, NEW timer,
           Records(fs), Records(ss),
           state = "closed" => Within(fs),
           state = "half-open" => Within(ss),
           sinceChange < MinimumCooldown => timer = sinceOpened,
           ChangeState(new, fs, ss, timer),
           running' \subseteq Ops
    PROVE  BreakerInv'
  <1>1. /\ sinceChange \in Ages /\ sinceOpened \in Ages \union {NoTimer} /\ 0 \in Ages
        /\ <<>> \in Seq(Ages) /\ OldestFirst(<<>>) /\ state \in States
    BY OptionsAssumption DEF BreakerInv, TypeOK, Ages, OldestFirst
  <1>2. CASE sinceChange < MinimumCooldown
    <2>1. /\ failures' = fs /\ successes' = ss /\ sinceOpened' = sinceOpened
          /\ state' = state /\ sinceChange' = sinceChange
      BY <1>1, <1>2, OptionsAssumption DEF ChangeState, Ages
    <2>2. TypeOK'
      BY <1>1, <2>1 DEF Records, TypeOK
    <2>3. RecoveryArmed' /\ FreshCounts'
      BY <2>1 DEF BreakerInv, RecoveryArmed, FreshCounts, Within
    <2>4. \A i \in DOMAIN fs : sinceChange - fs[i] < MinimumCooldown
      BY <1>1, <1>2, OptionsAssumption DEF Records, Ages
    <2>5. \A i \in DOMAIN ss : sinceChange - ss[i] < MinimumCooldown
      BY <1>1, <1>2, OptionsAssumption DEF Records, Ages
    <2> QED
      BY <2>1, <2>2, <2>3, <2>4, <2>5 DEF BreakerInv, PassedOverInCooldown
  <1>3. CASE ~ (sinceChange < MinimumCooldown)
    <2>1. /\ state' = new /\ sinceChange' = 0 /\ sinceOpened' = Armed(new)
          /\ failures' = FailuresKept(new, fs)
          /\ successes' = IF new = "half-open" THEN <<>> ELSE ss
      BY <1>3 DEF ChangeState
    <2>2. TypeOK'
      BY <1>1, <2>1 DEF Records, TypeOK, Armed, FailuresKept
    <2>3. RecoveryArmed'
      BY <2>1 DEF RecoveryArmed, Armed
    <2>4. FreshCounts' /\ PassedOverInCooldown'
      BY <2>1 DEF FreshCounts, PassedOverInCooldown, FailuresKept
    <2> QED
      BY <2>2, <2>3, <2>4 DEF BreakerInv
  <1> QED
    BY <1>2, <1>3

(* An outcome that changes no state keeps the invariants if what it adds   *)
(* does not reach a threshold that is looked at.                           *)
LEMMA KeepStateKeeps ==
    ASSUME BreakerInv, NEW fs, NEW ss, Records(fs), Records(ss),
           state = "closed" => Within(fs) /\ PassedOver(fs, FailureThreshold),
           state = "half-open" => Within(ss) /\ PassedOver(ss, SuccessThreshold),
           KeepState(fs, ss),
           running' \subseteq Ops
    PROVE  BreakerInv'
  <1>1. TypeOK'
    BY DEF BreakerInv, KeepState, Records, TypeOK
  <1>2. RecoveryArmed' /\ FreshCounts' /\ PassedOverInCooldown'
    BY DEF BreakerInv, KeepState, RecoveryArmed, FreshCounts,
           PassedOverInCooldown, Within, PassedOver
  <1> QED
    BY <1>1, <1>2 DEF BreakerInv

(* What the invariants say of the two lists as they are.                   *)
LEMMA ListFacts ==
    ASSUME BreakerInv
    PROVE  /\ Records(failures) /\ Records(successes)
           /\ sinceChange \in Ages /\ state \in States /\ running \subseteq Ops
           /\ state = "closed" => Within(failures) /\ PassedOver(failures, FailureThreshold)
           /\ state = "half-open" => Within(successes) /\ PassedOver(successes, SuccessThreshold)
  BY DEF BreakerInv, TypeOK, FreshCounts, PassedOverInCooldown, Records, Within,
         PassedOver

-----------------------------------------------------------------------------
(* recordSuccess.                                                          *)
LEMMA SucceedKeeps ==
    ASSUME BreakerInv, NEW op \in Ops, Succeed(op)
    PROVE  BreakerInv'
  <1> DEFINE ss == Recorded(successes)
  <1>1. /\ Records(ss)
        /\ state = "half-open" => Within(ss)
        /\ Len(ss) < SuccessThreshold => PassedOver(ss, SuccessThreshold)
        /\ running' \subseteq Ops
    BY ListFacts, RecordedKeeps, OptionsAssumption DEF Succeed
  <1> HIDE DEF ss
  <1>2. CASE state = "half-open" /\ EnoughSuccesses(ss)
    <2>1. ChangeState("closed", failures, ss, sinceOpened)
      BY <1>2 DEF Succeed, ss
    <2> QED
      BY <1>1, <1>2, <2>1, ListFacts, ChangeStateKeeps DEF States
  <1>3. CASE ~ (state = "half-open" /\ EnoughSuccesses(ss))
    <2>1. KeepState(failures, ss)
      BY <1>3 DEF Succeed, ss
    <2>2. state = "half-open" => Len(ss) < SuccessThreshold
      BY <1>1, <1>3, OptionsAssumption DEF EnoughSuccesses, Records
    <2> QED
      BY <1>1, <2>1, <2>2, ListFacts, KeepStateKeeps
  <1> QED
    BY <1>2, <1>3

(* recordFailure.                                                          *)
LEMMA FailKeeps ==
    ASSUME BreakerInv, NEW op \in Ops, Fail(op)
    PROVE  BreakerInv'
  <1> DEFINE fs == Recorded(failures)
             Opens == \/ state = "closed" /\ TooManyFailures(fs)
                      \/ state = "half-open"
  <1>1. /\ Records(fs)
        /\ state = "closed" => Within(fs)
        /\ Len(fs) < FailureThreshold => PassedOver(fs, FailureThreshold)
        /\ running' \subseteq Ops
    BY ListFacts, RecordedKeeps, OptionsAssumption DEF Fail
  <1>2. /\ Opens => ChangeState("open", fs, successes, sinceOpened)
        /\ ~Opens => KeepState(fs, successes)
    BY DEF Fail
  <1> HIDE DEF fs
  <1>3. CASE Opens
    BY <1>1, <1>2, <1>3, ListFacts, ChangeStateKeeps DEF States
  <1>4. CASE ~Opens
    <2>1. state = "closed" => Len(fs) < FailureThreshold
      BY <1>1, <1>4, OptionsAssumption DEF TooManyFailures, Records
    <2> QED
      BY <1>1, <1>2, <1>4, <2>1, ListFacts, KeepStateKeeps
  <1> QED
    BY <1>3, <1>4

(* The callback of the open circuit's timer: it was set when the circuit   *)
(* opened, so the cool-down of that change is over.                        *)
LEMMA OpenTimerKeeps ==
    ASSUME BreakerInv, OpenTimerFires
    PROVE  BreakerInv'
  <1>1. state = "open" /\ sinceOpened = sinceChange
    BY DEF BreakerInv, RecoveryArmed, OpenTimerFires
  <1>2. /\ ChangeState("half-open", failures, successes, NoTimer)
        /\ ~ (sinceChange < MinimumCooldown)
        /\ running' = running
    BY <1>1, ListFacts, OptionsAssumption, RecoveryAssumption DEF OpenTimerFires, Ages
  <1> QED
    BY <1>1, <1>2, ListFacts, ChangeStateKeeps DEF States

(* Time passing keeps the differences between ages, or shrinks them at the *)
(* bound.                                                                  *)
LEMMA TickKeeps ==
    ASSUME BreakerInv, Tick
    PROVE  BreakerInv'
  <1>1. ASSUME NEW ages, Records(ages)
        PROVE  /\ Records(AllOlder(ages))
               /\ DOMAIN AllOlder(ages) = DOMAIN ages
               /\ \A i \in DOMAIN ages :
                      ages[i] \in Ages /\ AllOlder(ages)[i] = Older(ages[i])
    BY <1>1, AllOlderTyped DEF Records
  <1>2. /\ Records(failures') /\ DOMAIN failures' = DOMAIN failures
        /\ \A i \in DOMAIN failures :
               failures[i] \in Ages /\ failures'[i] = Older(failures[i])
    BY <1>1, ListFacts DEF Tick
  <1>3. /\ Records(successes') /\ DOMAIN successes' = DOMAIN successes
        /\ \A i \in DOMAIN successes :
               successes[i] \in Ages /\ successes'[i] = Older(successes[i])
    BY <1>1, ListFacts DEF Tick
  <1>4. /\ sinceChange \in Ages /\ sinceChange' = Older(sinceChange) /\ sinceChange' \in Ages
        /\ state' = state /\ running' = running
        /\ sinceOpened' = IF sinceOpened = NoTimer THEN NoTimer ELSE Older(sinceOpened)
    BY ListFacts, OlderBounds DEF Tick
  <1>5. TypeOK'
    BY <1>2, <1>3, <1>4, ListFacts, OlderBounds DEF BreakerInv, TypeOK, Records
  <1>6. RecoveryArmed'
    BY <1>4 DEF BreakerInv, RecoveryArmed, NoTimer, Ages
  <1>7. FreshCounts'
    BY <1>2, <1>3, <1>4, OlderBounds DEF BreakerInv, FreshCounts
  <1>8. PassedOverInCooldown'
    <2>1. ASSUME NEW n \in Ages, sinceChange - n < MinimumCooldown
          PROVE  Older(sinceChange) - Older(n) < MinimumCooldown
               \/ sinceChange < n
      BY <1>4, <2>1, OlderBounds, OptionsAssumption DEF Ages, Older
    <2> QED
      BY <1>2, <1>3, <1>4, <2>1 DEF BreakerInv, PassedOverInCooldown, FreshCounts, Ages
  <1> QED
    BY <1>5, <1>6, <1>7, <1>8 DEF BreakerInv

(* A new breaker, and one that was reset.                                  *)
LEMMA InitHolds == Init => BreakerInv
  <1>1. 0 \in Ages /\ Oldest \in Ages
    BY OptionsAssumption DEF Ages
  <1> QED
    BY <1>1 DEF Init, BreakerInv, TypeOK, RecoveryArmed, FreshCounts,
                PassedOverInCooldown, States, OldestFirst

(* Every step keeps the invariants.                                        *)
LEMMA StepKeeps == BreakerInv /\ [Next]_vars => BreakerInv'
  <1> SUFFICES ASSUME BreakerInv, [Next]_vars PROVE BreakerInv'
    OBVIOUS
  <1>1. ASSUME NEW op \in Ops, Start(op) \/ Ignore(op) PROVE BreakerInv'
    BY <1>1 DEF BreakerInv, TypeOK, RecoveryArmed, FreshCounts,
                PassedOverInCooldown, Start, Ignore
  <1>2. ASSUME NEW op \in Ops, Succeed(op) PROVE BreakerInv'
    BY <1>2, SucceedKeeps
  <1>3. ASSUME NEW op \in Ops, Fail(op) PROVE BreakerInv'
    BY <1>3, FailKeeps
  <1>4. ASSUME NEW new \in ForcedStates, ForceState(new) PROVE BreakerInv'
    BY <1>4, ListFacts, ChangeStateKeeps, OptionsAssumption DEF ForceState
  <1>5. CASE OpenTimerFires
    BY <1>5, OpenTimerKeeps
  <1>6. CASE Reset
    <2>1. Oldest \in Ages
      BY OptionsAssumption DEF Ages
    <2> QED
      BY <1>6, <2>1, ListFacts DEF BreakerInv, TypeOK, RecoveryArmed, FreshCounts,
              PassedOverInCooldown, Reset, States, OldestFirst
  <1>7. CASE Tick
    BY <1>7, TickKeeps
  <1>8. CASE UNCHANGED vars
    BY <1>8 DEF BreakerInv, TypeOK, RecoveryArmed, FreshCounts,
                PassedOverInCooldown, vars
  <1> QED
    BY <1>1, <1>2, <1>3, <1>4, <1>5, <1>6, <1>7, <1>8 DEF Next

(* For any thresholds, periods and number of overlapping operations with a *)
(* cool-down no longer than the open period, through refusals, forced      *)
(* states and resets: the circuit's timer is armed exactly while it is     *)
(* open, what is counted is fresh, and no threshold is passed over outside *)
(* the cool-down.                                                          *)
THEOREM BreakerCorrect ==
    Spec => [](TypeOK /\ RecoveryArmed /\ FreshCounts /\ PassedOverInCooldown)
  <1>1. BreakerInv => TypeOK /\ RecoveryArmed /\ FreshCounts /\ PassedOverInCooldown
    BY DEF BreakerInv
  <1> QED
    BY <1>1, InitHolds, StepKeeps, PTL DEF Spec
=============================================================================
