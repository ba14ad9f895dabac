------------------------- MODULE ReliabilityManager -------------------------
(***************************************************************************)
(* rate-limiting/ProductionReliabilityManager.ts over AutotaskRateLimiter   *)
(* and AutotaskRetryPatterns.ts.                                            *)
(*                                                                         *)
(* queueRequest puts a call into the queue, as a group of one, or into a    *)
(* batch; one tick at a time takes the first group and executes it. A call  *)
(* in execution asks the limiter, then either joins a request to the same   *)
(* endpoint that is under way (executeWithRetry deduplicates by method and  *)
(* endpoint) or leads: attempts, back-off, and a breaker per endpoint.      *)
(* Every execution ends in `finally`, which notifies the limiter.           *)
(*                                                                         *)
(* Left out: the request function that executeRequest starts before it asks *)
(* for permission and whose result it drops, the replay queue (it is only   *)
(* ever emptied), degraded mode (it halves the batch size), destroy,        *)
(* metrics, events, and zones: an endpoint stands for one zone, method and  *)
(* path. Every call is retryable, the default.                              *)
(***************************************************************************)
EXTENDS RateLimiter, Collections

CONSTANTS
    UrgencyOf,      \* [Calls -> Int], the priority given to queueRequest; the limiter is asked with none
    Batchable,      \* calls that go through a batch
    Sheddable,      \* calls refused under load: priority <= 3, endpoint not critical
    MaxQueue,       \* maxQueueSize of the manager
    BatchSize,
    GroupRetries,   \* maxRetries of a group (3 in the code)
    MaxRetries,     \* maxRetries of the retry patterns
    ShedAbove,      \* load is shed when the queue is longer than this
    Nobody

ASSUME ManagerAssumption ==
    /\ UrgencyOf \in [Calls -> Int]
    /\ Batchable \subseteq Calls /\ Sheddable \subseteq Calls
    /\ MaxQueue \in Nat /\ BatchSize \in Nat \ {0}
    /\ Nobody \notin Calls
    /\ GroupRetries \in Nat /\ MaxRetries \in Nat /\ ShedAbove \in Nat

VARIABLES
    queue,          \* requestQueue: groups of one call
    batch,          \* batchQueue: the calls being collected; those of one endpoint are one batch
    batchTimers,    \* endpoint -> timers of addToBatch that have not fired
    processing,     \* processingQueue, and the group it is set for
    call,           \* call -> promise of queueRequest, its timer, retries of its group
    phase,          \* call -> where its execution stands
    attempt,        \* call -> attempt of the retry loop
    flight,         \* pendingRequests: endpoint -> call that leads
    breaker,        \* endpoint -> circuit of the retry patterns
    shedding        \* isSheddingLoad

managerVars == <<queue, batch, batchTimers, processing, call, phase, attempt, flight, breaker, shedding>>
vars == <<permit, threads, waiting, admitting, queue, batch, batchTimers, processing,
          call, phase, attempt, flight, breaker, shedding>>

NewCall == [promise |-> "none", timer |-> FALSE, retries |-> 0]
AcceptedCall == [promise |-> "pending", timer |-> TRUE, retries |-> 0]
ClosedCircuit == [state |-> "closed", failures |-> 0, successes |-> 0, due |-> FALSE]

Init ==
    /\ LimiterInit
    /\ queue = <<>> /\ batch = {}
    /\ batchTimers = [e \in Endpoints |-> 0]
    /\ processing = Nobody
    /\ call = [c \in Calls |-> NewCall]
    /\ phase = [c \in Calls |-> "idle"]
    /\ attempt = [c \in Calls |-> 0]
    /\ flight = [e \in Endpoints |-> Nobody]
    /\ breaker = [e \in Endpoints |-> ClosedCircuit]
    /\ shedding = FALSE

Moved(cs, p) == [c \in Calls |-> IF c \in cs THEN p ELSE phase[c]]
Answered(cs) == [c \in Calls |-> IF c \in cs /\ call[c].promise = "pending"
                                 THEN [call[c] EXCEPT !.promise = "answered"] ELSE call[c]]
Queued == ToSet(queue) \cup batch
BatchOf(e, b) == {c \in b : EndpointOf[c] = e}
Without(q, cs) == Filter(q, ToSet(q) \ cs)
execution == <<processing, attempt, flight, breaker>>

(***************************************************************************)
(* queueRequest                                                            *)
(***************************************************************************)
RefuseCall(c) ==
    /\ call' = [call EXCEPT ![c].promise = "answered"]
    /\ UNCHANGED <<queue, batch, batchTimers, phase>>

AddToQueue(c, q, b) ==
    /\ queue' = InsertAt(q, PlaceFor(c, q, UrgencyOf), c)
    /\ batch' = b
    /\ UNCHANGED <<batchTimers, phase>>

\* The first call of a batch sets its timer; the last has it processed at
\* once, and the timer is left to fire into a later batch of the endpoint.
AddToBatch(c, q, b) ==
    LET e == EndpointOf[c]  mine == BatchOf(e, b)
    IN  /\ queue' = q
        /\ batchTimers' = IF mine = {} THEN [batchTimers EXCEPT ![e] = @ + 1] ELSE batchTimers
        /\ IF Cardinality(mine) + 1 >= BatchSize
           THEN batch' = b \ mine /\ phase' = Moved(mine \cup {c}, "starting")
           ELSE batch' = b \cup {c} /\ UNCHANGED phase

Accept(c, expired) ==
    /\ call' = [Answered(expired) EXCEPT ![c] = AcceptedCall]
    /\ IF c \in Batchable THEN AddToBatch(c, Without(queue, expired), batch \ expired)
                          ELSE AddToQueue(c, Without(queue, expired), batch \ expired)

QueueRequest(c) ==
    /\ call[c].promise = "none"
    /\ \/ shedding /\ c \in Sheddable /\ RefuseCall(c)
       \/ /\ ~(shedding /\ c \in Sheddable)
          /\ Cardinality(Queued) < MaxQueue
          /\ Accept(c, {})
       \/ /\ ~(shedding /\ c \in Sheddable)
          /\ Cardinality(Queued) >= MaxQueue
          \* tryEmergencyQueueCleanup: those past their timeout, if any
          /\ \/ RefuseCall(c)
             \/ \E expired \in SUBSET Queued \ {{}} : Accept(c, expired)
    /\ UNCHANGED <<limiterVars, execution, shedding>>

\* The timer of a call is never cleared: it fires whatever became of the call.
RequestTimerUnheard(c) ==  \* mutant
    /\ call[c].timer
    /\ call' = [call EXCEPT ![c].timer = FALSE]
    /\ queue' = Without(queue, {c})
    /\ batch' = batch \ {c}
    /\ UNCHANGED <<limiterVars, execution, batchTimers, phase, shedding>>
RequestTimer(c) ==
    /\ call[c].timer
    /\ call' = [Answered({c}) EXCEPT ![c].timer = FALSE]
    /\ queue' = Without(queue, {c})
    /\ batch' = batch \ {c}
    /\ UNCHANGED <<limiterVars, execution, batchTimers, phase, shedding>>

\* clearQueue(rejectPending)
ClearQueue ==
    /\ Queued # {}
    /\ \E reject \in BOOLEAN : call' = Answered(IF reject THEN Queued ELSE {})
    /\ queue' = <<>>
    /\ batch' = {}
    /\ UNCHANGED <<limiterVars, execution, batchTimers, phase, shedding>>

\* updateSystemHealth
HealthTick ==
    /\ shedding' = (Cardinality(Queued) > ShedAbove)
    /\ UNCHANGED <<limiterVars, execution, queue, batch, batchTimers, call, phase>>

(***************************************************************************)
(* processRequestQueue, processBatch: the calls of a group are started      *)
(***************************************************************************)
WithoutHeadKept == queue  \* mutant
WithoutHead == Tail(queue)

ProcessRequestQueue ==
    /\ processing = Nobody
    /\ queue # <<>>
    /\ processing' = Head(queue)
    /\ queue' = WithoutHead
    /\ phase' = Moved({Head(queue)}, "starting")
    /\ UNCHANGED <<limiterVars, batch, batchTimers, call, attempt, flight, breaker, shedding>>

BatchTimer(e) ==
    /\ batchTimers[e] > 0
    /\ batchTimers' = [batchTimers EXCEPT ![e] = @ - 1]
    /\ batch' = batch \ BatchOf(e, batch)
    /\ phase' = Moved(BatchOf(e, batch), "starting")
    /\ UNCHANGED <<limiterVars, execution, queue, call, shedding>>

(***************************************************************************)
(* executeRequest and executeWithRetry                                     *)
(***************************************************************************)
outside == <<queue, batch, batchTimers, processing, call, shedding>>

Begin(c) ==
    /\ phase[c] = "starting"
    /\ RequestPermission(c)
    /\ phase' = Moved({c}, "permission")
    /\ UNCHANGED <<outside, attempt, flight, breaker>>

PermissionRefused(c) ==
    /\ phase[c] = "permission" /\ permit[c] = "refused"
    /\ phase' = Moved({c}, "failing")
    /\ UNCHANGED <<limiterVars, outside, attempt, flight, breaker>>

\* updateCircuitBreakerState: open when more than half of the requests fail.
Updated(b) ==
    CASE b.state = "closed" /\ b.failures > b.successes -> [b EXCEPT !.state = "open", !.due = FALSE]
      [] b.state = "open" /\ b.due -> [b EXCEPT !.state = "half-open"]
      [] OTHER -> b

ExecuteWithRetry(c) ==
    LET e == EndpointOf[c]  b == Updated(breaker[e])
    IN  /\ phase[c] = "permission" /\ permit[c] = "granted"
        /\ breaker' = [breaker EXCEPT ![e] = b]
        /\ \/ /\ b.state = "open"
              /\ phase' = Moved({c}, "failing")
              /\ UNCHANGED <<attempt, flight>>
           \/ /\ b.state # "open" /\ flight[e] # Nobody
              /\ phase' = Moved({c}, "joined")
              /\ UNCHANGED <<attempt, flight>>
           \/ /\ b.state # "open" /\ flight[e] = Nobody
              /\ phase' = Moved({c}, "attempting")
              /\ attempt' = [attempt EXCEPT ![c] = 1]
              /\ flight' = [flight EXCEPT ![e] = c]
        /\ UNCHANGED <<limiterVars, outside>>

\* The promise of the leader settles, and with it those of the calls that joined.
Joined(e) == {c \in Calls : phase[c] = "joined" /\ EndpointOf[c] = e}
SettleAlone(c, p) ==  \* mutant
    /\ phase' = Moved({c}, p)
    /\ flight' = [flight EXCEPT ![EndpointOf[c]] = Nobody]
    /\ attempt' = [attempt EXCEPT ![c] = 0]
Settle(c, p) ==
    /\ phase' = Moved({c} \cup Joined(EndpointOf[c]), p)
    /\ flight' = [flight EXCEPT ![EndpointOf[c]] = Nobody]
    /\ attempt' = [attempt EXCEPT ![c] = 0]

AttemptSucceeds(c) ==
    /\ phase[c] = "attempting"
    /\ breaker' = [breaker EXCEPT ![EndpointOf[c]] =
          [@ EXCEPT !.successes = @ + 1,
                    !.state = IF @ = "half-open" THEN "closed" ELSE @,
                    !.failures = IF breaker[EndpointOf[c]].state = "half-open" THEN 0 ELSE @]]
    /\ Settle(c, "succeeding")
    /\ UNCHANGED <<limiterVars, outside>>

\* transient: rate limit, server and network errors count and are retried.
AttemptFails(c, transient) ==
    LET b == Updated(breaker[EndpointOf[c]])
    IN  /\ phase[c] = "attempting"
        /\ breaker' = [breaker EXCEPT ![EndpointOf[c]] =
                          IF transient THEN [b EXCEPT !.failures = @ + 1] ELSE b]
        /\ IF transient /\ attempt[c] <= MaxRetries
           THEN phase' = Moved({c}, "backoff") /\ UNCHANGED <<attempt, flight>>
           ELSE Settle(c, "failing")
        /\ UNCHANGED <<limiterVars, outside>>

BackoffEnds(c) ==
    LET e == EndpointOf[c]
    IN  /\ phase[c] = "backoff"
        /\ IF breaker[e].state = "open"
           THEN /\ Settle(c, "failing")
                /\ breaker' = [breaker EXCEPT ![e] = Updated(@)]
           ELSE /\ phase' = Moved({c}, "attempting")
                /\ attempt' = [attempt EXCEPT ![c] = @ + 1]
                /\ UNCHANGED <<flight, breaker>>
        /\ UNCHANGED <<limiterVars, outside>>

RecoveryDue(e) ==
    /\ breaker[e].state = "open" /\ ~breaker[e].due
    /\ breaker' = [breaker EXCEPT ![e].due = TRUE]
    /\ UNCHANGED <<limiterVars, outside, phase, attempt, flight>>

FailureAges(e) ==
    /\ breaker[e].failures > 0
    /\ breaker' = [breaker EXCEPT ![e].failures = @ - 1]
    /\ UNCHANGED <<limiterVars, outside, phase, attempt, flight>>

(***************************************************************************)
(* The end of executeRequest, and of the group it was executed for. A group *)
(* that fails goes back to the front of the queue while it has retries.     *)
(***************************************************************************)
FinishedOnlyOnSuccess(c) == IF processing = c /\ phase[c] = "succeeding" THEN Nobody ELSE processing  \* mutant
Finished(c) == IF processing = c THEN Nobody ELSE processing

Ends(c) ==
    /\ NotifyRequestComplete(c)
    /\ phase' = Moved({c}, "idle")
    /\ processing' = Finished(c)
    /\ UNCHANGED <<batch, batchTimers, attempt, flight, breaker, shedding>>

Succeed(c) ==
    /\ phase[c] = "succeeding"
    /\ call' = Answered({c})
    /\ Ends(c)
    /\ UNCHANGED queue

Fail(c) ==
    /\ phase[c] = "failing"
    /\ Ends(c)
    /\ IF processing = c /\ call[c].retries < GroupRetries
       THEN /\ call' = [call EXCEPT ![c].retries = @ + 1]
            /\ queue' = <<c>> \o queue
       ELSE /\ call' = Answered({c})
            /\ UNCHANGED queue

-----------------------------------------------------------------------------
LimiterStep(A) == A /\ UNCHANGED managerVars

Continue(c) ==
    \/ Begin(c) \/ PermissionRefused(c) \/ ExecuteWithRetry(c) \/ AttemptSucceeds(c)
    \/ \E transient \in BOOLEAN : AttemptFails(c, transient)
    \/ BackoffEnds(c) \/ Succeed(c) \/ Fail(c)
    \/ LimiterStep(PermissionTimesOut(c))

Next ==
    \/ \E c \in Calls : QueueRequest(c) \/ RequestTimer(c) \/ Continue(c)
    \/ ProcessRequestQueue \/ ClearQueue \/ HealthTick
    \/ LimiterStep(AllowanceChanges)
    \/ \E e \in Endpoints : BatchTimer(e) \/ RecoveryDue(e) \/ FailureAges(e)

Spec == Init /\ [][Next]_vars

-----------------------------------------------------------------------------
TypeOK ==
    /\ LimiterTypeOK
    /\ queue \in Seq(Calls) /\ batch \subseteq Calls
    /\ batchTimers \in [Endpoints -> Nat]
    /\ processing \in Calls \cup {Nobody}
    /\ call \in [Calls -> [promise : {"none", "pending", "answered"}, timer : BOOLEAN, retries : 0..GroupRetries]]
    /\ phase \in [Calls -> {"idle", "starting", "permission", "attempting", "backoff", "joined", "succeeding", "failing"}]
    /\ attempt \in [Calls -> 0..(MaxRetries + 1)]
    /\ flight \in [Endpoints -> Calls \cup {Nobody}]
    /\ shedding \in BOOLEAN

\* A call is in the queue once, in a batch, or in execution, and in one of
\* these only: although ticks, batch timers, size limits and retries start it.
StartedOnce ==
    /\ IsInjective(queue)
    /\ ToSet(queue) \cap batch = {}
    /\ \A c \in Queued : phase[c] = "idle"

\* A call that was deduplicated has a leader that is still under way: nobody
\* waits on a promise that will not settle.
JoinedHasLeader ==
    \A c \in Calls : phase[c] = "joined" =>
        LET l == flight[EndpointOf[c]]
        IN  l # Nobody /\ phase[l] \in {"attempting", "backoff"}

\* The flag that keeps ticks from overlapping is held by a group in execution,
\* whatever way that execution ends: the queue is never stuck behind it.
NeverStuck == processing # Nobody => phase[processing] # "idle"

\* A caller that has no answer yet has its timer: clearQueue, failed retries
\* and lost batches do not leave it waiting for ever.
WaiterHasTimer == \A c \in Calls : call[c].promise = "pending" => call[c].timer
=============================================================================
