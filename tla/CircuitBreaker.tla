--------------------------- MODULE CircuitBreaker ---------------------------
(***************************************************************************)
(* The circuit breaker around the calls of the client                      *)
(* (src/errors/CircuitBreaker.ts).                                         *)
(*                                                                         *)
(* execute() reads the state, awaits the operation, and records its        *)
(* outcome: Start is the first half, Succeed, Fail and Ignore the second,  *)
(* and any number of operations overlap.  A call that finds the circuit    *)
(* open changes nothing but counters, which are left out with the events.  *)
(*                                                                         *)
(* The code compares timestamps with Date.now(); the model keeps ages,     *)
(* which Tick advances and which stop at Oldest, an age past every limit   *)
(* they are compared with.  A timer may fire at any time from its due one. *)
(***************************************************************************)
EXTENDS Integers, Sequences, SequencesExt

CONSTANTS
    Ops,               \* operations a caller may have in flight
    FailureThreshold,  \* options.failureThreshold
    SuccessThreshold,  \* options.successThreshold
    MonitoringPeriod,  \* options.monitoringPeriod
    OpenTimeout,       \* options.openTimeout
    MinimumCooldown,   \* options.minimumCooldown
    Oldest,            \* bound: the age ages stop at
    MaxRecords,        \* bound: how many outcomes either list may hold
    ForcedStates       \* states forceState() is called with

States == {"closed", "open", "half-open"}

ASSUME OptionsAssumption ==
    /\ FailureThreshold \in Nat /\ SuccessThreshold \in Nat
    /\ MonitoringPeriod \in Nat /\ OpenTimeout \in Nat
    /\ MinimumCooldown \in Nat /\ Oldest \in Nat /\ MaxRecords \in Nat
    /\ MonitoringPeriod < Oldest /\ OpenTimeout <= Oldest
    /\ MinimumCooldown <= Oldest
    /\ ForcedStates \subseteq States

(* The constructor does not check it, the defaults (30 s and 1 s) have it: *)
(* without it the only timer of an open circuit fires into the cool-down,  *)
(* is ignored, and nothing but forceState or reset ends the open state.    *)
ASSUME RecoveryAssumption == MinimumCooldown <= OpenTimeout

VARIABLES
    state,        \* state
    failures,     \* failures: the ages of the recorded failures, oldest first
    successes,    \* successes: likewise
    sinceChange,  \* the age of lastStateChange (Oldest when it is 0)
    sinceOpened,  \* the age of the timer in openTimeoutHandle, or NoTimer
    running       \* operations execute() is awaiting

vars == <<state, failures, successes, sinceChange, sinceOpened, running>>

NoTimer == -1
Ages == 0..Oldest
Older(age) == IF age < Oldest THEN age + 1 ELSE Oldest
AllOlder(ages) == [i \in DOMAIN ages |-> Older(ages[i])]

-----------------------------------------------------------------------------
(* cleanOldRecords() stops at the first record inside the window: the list *)
(* is in the order of recording.                                           *)
CleanOldRecords(ages) ==
    LET first == CHOOSE i \in 1..Len(ages) + 1 :
                     /\ i \in DOMAIN ages => ages[i] <= MonitoringPeriod
                     /\ \A j \in 1..i - 1 : ages[j] > MonitoringPeriod
    IN  SubSeq(ages, first, Len(ages))


Recorded(ages) == CleanOldRecords(Append(ages, 0))

ArmedFromClosed(new) ==                                   \* mutant
    IF new = "open" /\ state = "closed" THEN 0 ELSE NoTimer

(* scheduleHalfOpenTransition() on opening, clearTimeouts() otherwise.     *)
Armed(new) == IF new = "open" THEN 0 ELSE NoTimer

KeptAsTheyAre(new, fs) == fs                              \* mutant

(* "Reset failure tracking when circuit closes".                           *)
FailuresKept(new, fs) == IF new = "closed" THEN <<>> ELSE fs

(* changeState(new), called with the lists fs and ss and the timer as they *)
(* are by then: ignored within the cool-down of the change before.         *)
ChangeState(new, fs, ss, timer) ==
    \/ /\ sinceChange < MinimumCooldown
       /\ failures' = fs /\ successes' = ss /\ sinceOpened' = timer
       /\ UNCHANGED <<state, sinceChange>>
    \/ /\ sinceChange >= MinimumCooldown
       /\ state' = new
       /\ sinceChange' = 0
       /\ sinceOpened' = Armed(new)
       /\ failures' = FailuresKept(new, fs)
       /\ successes' = IF new = "half-open" THEN <<>> ELSE ss

KeepState(fs, ss) ==
    /\ failures' = fs /\ successes' = ss
    /\ UNCHANGED <<state, sinceChange, sinceOpened>>

-----------------------------------------------------------------------------
Init ==
    /\ state = "closed"
    /\ failures = <<>> /\ successes = <<>>
    /\ sinceChange = Oldest
    /\ sinceOpened = NoTimer
    /\ running = {}

(* execute(), up to its await: half-open lets every operation through.     *)
Start(op) ==
    /\ op \notin running
    /\ state # "open"
    /\ running' = running \union {op}
    /\ UNCHANGED <<state, failures, successes, sinceChange, sinceOpened>>

EnoughSuccesses(ss) == Len(ss) >= SuccessThreshold

(* The operation resolved: recordSuccess(), whatever the state is by now.  *)
Succeed(op) ==
    LET ss == Recorded(successes)
    IN  /\ op \in running
        /\ running' = running \ {op}
        /\ Len(ss) <= MaxRecords
        /\ IF state = "half-open" /\ EnoughSuccesses(ss)
           THEN ChangeState("closed", failures, ss, sinceOpened)
           ELSE KeepState(failures, ss)

MoreThanThreshold(fs) == Len(fs) > FailureThreshold       \* mutant

TooManyFailures(fs) == Len(fs) >= FailureThreshold

(* The operation threw and isFailure(error): recordFailure().              *)
Fail(op) ==
    LET fs == Recorded(failures)
    IN  /\ op \in running
        /\ running' = running \ {op}
        /\ Len(fs) <= MaxRecords
        /\ IF \/ state = "closed" /\ TooManyFailures(fs)
              \/ state = "half-open"
           THEN ChangeState("open", fs, successes, sinceOpened)
           ELSE KeepState(fs, successes)

(* The operation threw an error isFailure() does not count.                *)
Ignore(op) ==
    /\ op \in running
    /\ running' = running \ {op}
    /\ UNCHANGED <<state, failures, successes, sinceChange, sinceOpened>>

(* The callback of scheduleHalfOpenTransition(); its timer is spent.       *)
OpenTimerFires ==
    /\ sinceOpened # NoTimer
    /\ sinceOpened >= OpenTimeout
    /\ IF state = "open"
       THEN ChangeState("half-open", failures, successes, NoTimer)
       ELSE sinceOpened' = NoTimer /\ UNCHANGED <<state, failures, successes, sinceChange>>
    /\ UNCHANGED running

ForceState(new) ==
    /\ ChangeState(new, failures, successes, sinceOpened)
    /\ UNCHANGED running

Reset ==
    /\ state' = "closed"
    /\ failures' = <<>> /\ successes' = <<>>
    /\ sinceChange' = Oldest
    /\ sinceOpened' = NoTimer
    /\ UNCHANGED running

(* Date.now() advances.                                                    *)
Tick ==
    /\ failures' = AllOlder(failures)
    /\ successes' = AllOlder(successes)
    /\ sinceChange' = Older(sinceChange)
    /\ sinceOpened' = IF sinceOpened = NoTimer THEN NoTimer ELSE Older(sinceOpened)
    /\ UNCHANGED <<state, running>>

Next ==
    \/ \E op \in Ops : Start(op) \/ Succeed(op) \/ Fail(op) \/ Ignore(op)
    \/ \E new \in ForcedStates : ForceState(new)
    \/ OpenTimerFires
    \/ Reset
    \/ Tick

Spec == Init /\ [][Next]_vars

(* Time passes and Node fires a due timer; nothing is assumed of callers.  *)
LiveSpec == Spec /\ WF_vars(Tick) /\ WF_vars(OpenTimerFires)

-----------------------------------------------------------------------------
(* Ages are within the clock's bound, and both lists are in the order of   *)
(* recording, which cleanOldRecords relies on when it stops early.         *)
OldestFirst(ages) == \A i, j \in DOMAIN ages : i < j => ages[i] >= ages[j]

TypeOK ==
    /\ state \in States
    /\ failures \in Seq(Ages) /\ OldestFirst(failures)
    /\ successes \in Seq(Ages) /\ OldestFirst(successes)
    /\ sinceChange \in Ages
    /\ sinceOpened \in Ages \union {NoTimer}
    /\ running \subseteq Ops

(* An open circuit always has the timer that will let trials through, set  *)
(* when it opened, and no timer outlives the open state: through cool-down *)
(* refusals, forced states, resets and trials that fail                    *)
(* (changeState, clearTimeouts).                                           *)
RecoveryArmed == sinceOpened = IF state = "open" THEN sinceChange ELSE NoTimer

(* What is counted towards a decision happened in the state it is about:   *)
(* no failure from before the circuit closed counts towards opening it, no *)
(* success from before the trial began counts towards closing it.          *)
FreshCounts ==
    /\ state = "closed" => \A i \in DOMAIN failures : failures[i] <= sinceChange
    /\ state = "half-open" => \A i \in DOMAIN successes : successes[i] <= sinceChange

(* The outcome that reaches a threshold is passed over for one reason: it  *)
(* came within the cool-down of the last change.                           *)
PassedOverInCooldown ==
    /\ state = "closed" =>
         \A i \in DOMAIN failures :
             i >= FailureThreshold => sinceChange - failures[i] < MinimumCooldown
    /\ state = "half-open" =>
         \A i \in DOMAIN successes :
             i >= SuccessThreshold => sinceChange - successes[i] < MinimumCooldown

(* An open circuit is tried again, unless it is forced open for ever       *)
(* ("allowing them time to recover", scheduleHalfOpenTransition).          *)
Recovers == []<>(state # "open") \/ []<><<ForceState("open")>>_vars
=============================================================================
