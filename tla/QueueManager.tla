---------------------------- MODULE QueueManager ----------------------------
(***************************************************************************)
(* The request queue manager (src/queue/core/QueueManager.ts) over the     *)
(* in-memory store.                                                        *)
(*                                                                         *)
(* An async method runs in one piece up to its next await.  A call of the  *)
(* store takes effect when it is made; what the method does with the       *)
(* answer is a later step.  The variables call, workers, tracking, cancel, *)
(* clearing and manager say where every unfinished invocation stands.      *)
(*                                                                         *)
(* The processing loop is a setInterval that does not wait for the tick it *)
(* started before (lines 802-812): ticks overlap.  A member of Workers is  *)
(* one tick in progress, so the size of Workers bounds the overlap.        *)
(*                                                                         *)
(* InProcess tells the two kinds of store apart.  The in-memory store      *)
(* answers on the microtask queue, which is empty before the next timer    *)
(* fires: InProcess = TRUE.  With InProcess = FALSE every await lets       *)
(* everything else run, as it does over a network.                         *)
(*                                                                         *)
(* Not here: batching (BatchManager only watches), metrics, health, event  *)
(* listeners, the circuit breaker's state (its answer is a choice).        *)
(***************************************************************************)
EXTENDS MemoryBackend

CONSTANTS
    DefaultZone,      \* the queue key of dequeue() without a zone
    Workers,          \* ticks that can be in progress together (bound)
    MaxSize,          \* config.maxSize
    MaxRetries,       \* maxRetries of every request
    Retryable,        \* requests whose retryable option is not false
    Fingerprints,     \* values of generateFingerprint
    FingerprintOf,    \* the fingerprint of each request
    SubmitPhases,     \* values of options.scheduledAt
    InProcess,        \* the store answers before the next timer fires
    Activities,       \* what may happen besides enqueue and process
    NoId              \* no request

AllActivities == {"defer", "timeout", "aging", "cancel", "clear", "clearZone",
                  "maintenance", "pause", "shutdown"}

ASSUME ManagerAssumption ==
    /\ DefaultZone \in Zones
    /\ MaxSize \in Nat /\ MaxRetries \in Nat
    /\ Retryable \subseteq Ids
    /\ FingerprintOf \in [Ids -> Fingerprints]
    /\ SubmitPhases \subseteq Phases
    /\ InProcess \in BOOLEAN
    /\ Activities \subseteq AllActivities
    /\ NoId \notin Ids

(* A tick is no word for a place of RequestLifecycle.                      *)
ASSUME WorkersAssumption ==
    Workers \cap {"new", "waiting", "parked", "retrying", "gone"} = {}

VARIABLES
    call,        \* where the enqueue call of each request stands
    promises,    \* the two promises of each request
    tracking,    \* activeRequests, scheduledRequests and the timers they name
    deferTimers, \* the timers of rescheduleRequest, each with its request
    requestDeduplication,  \* requestDeduplication: fingerprint -> request
    dedupTimers, \* requests whose deduplication window is still open
    aged,        \* requests older than their timeout
    cancel,      \* where cancelRequest of each request stands
    clearing,    \* where clear() stands
    manager,     \* where shutdown() stands; not "running": isShuttingDown
    isProcessing,
    workers      \* the ticks in progress

callerVars == <<call, promises>>
dedupVars == <<requestDeduplication, dedupTimers>>
controlVars == <<aged, cancel, clearing, manager, isProcessing>>
managerVars == <<callerVars, tracking, deferTimers, dedupVars, controlVars,
                 workers>>

vars == <<backendVars, managerVars>>

(* left: expired requests the call has yet to remove; hand: the one it has *)
(* removed and not yet cleaned up.                                         *)
Call == [pc : {"new", "sized", "full", "sweeping", "refused", "storing",
               "returned"},
         left : SUBSET Ids, hand : Ids \cup {NoId}]

(* outer is the promise enqueue returned: it is open, rejected, or follows *)
(* the inner promise of the request named in "of" for good.                *)
Promises == [outer : {"none", "open", "following", "rejected"},
             of    : Ids \cup {NoId},
             inner : {"open", "resolved", "rejected"}]

(* active: the key is in activeRequests.  handle: the timer that           *)
(* scheduledRequests names.  timeout, retry: the two timers and, once      *)
(* fired, the progress of their callbacks; "threw" is an unhandled         *)
(* rejection of the callback.                                              *)
Tracking == [active  : BOOLEAN,
             handle  : {"none", "timeout", "retry"},
             timeout : {"off", "set", "checking", "expiring", "threw"},
             retry   : {"off", "set", "waking", "threw"}]

Worker == [pc : {"idle", "claimed", "deferring", "starting", "executing",
                 "succeeded", "failed", "completing", "retrying",
                 "abandoning"},
           id : Ids \cup {NoId}, retries : Nat]

Idle == [pc |-> "idle", id |-> NoId, retries |-> 0]
Untracked == [active |-> FALSE, handle |-> "none", timeout |-> "off",
              retry |-> "off"]

TypeOK ==
    /\ BackendTypeOK
    /\ call \in [Ids -> Call]
    /\ promises \in [Ids -> Promises]
    /\ tracking \in [Ids -> Tracking]
    /\ deferTimers \subseteq [id : Ids, retries : Nat]
    /\ requestDeduplication \in [Fingerprints -> Ids \cup {NoId}]
    /\ dedupTimers \subseteq Ids
    /\ aged \subseteq Ids
    /\ cancel \in [Ids -> {"none", "reading", "updating", "cancelled",
                           "refused"}]
    /\ clearing \in {"none", "clearing", "done"}
    /\ manager \in {"running", "draining", "closing", "closed"}
    /\ isProcessing \in BOOLEAN
    /\ workers \in [Workers -> Worker]

Init ==
    /\ BackendInit
    /\ call = [id \in Ids |-> [pc |-> "new", left |-> {}, hand |-> NoId]]
    /\ promises = [id \in Ids |-> [outer |-> "none", of |-> NoId,
                                   inner |-> "open"]]
    /\ tracking = [id \in Ids |-> Untracked]
    /\ deferTimers = {}
    /\ requestDeduplication = [f \in Fingerprints |-> NoId]
    /\ dedupTimers = {}
    /\ aged = {}
    /\ cancel = [id \in Ids |-> "none"]
    /\ clearing = "none"
    /\ manager = "running"
    /\ isProcessing = TRUE
    /\ workers = [w \in Workers |-> Idle]

-----------------------------------------------------------------------------
(* The event loop.                                                         *)

(* A callback of a timer has not finished with the store.                  *)
TimerChain ==
    \/ \E w \in Workers : workers[w].pc \in {"claimed", "deferring", "starting"}
    \/ \E id \in Ids : \/ tracking[id].timeout \in {"checking", "expiring"}
                       \/ tracking[id].retry = "waking"
    \/ doomed["maintenance"] # {}

(* A call of the client or the continuation of a processor has not.        *)
CallChain ==
    \/ \E w \in Workers : workers[w].pc \in {"succeeded", "failed",
                               "completing", "retrying", "abandoning"}
    \/ \E id \in Ids : \/ call[id].pc \notin {"new", "returned"}
                       \/ cancel[id] \in {"reading", "updating"}
    \/ clearing = "clearing"
    \/ manager = "closing"
    \/ doomed["clear"] # {}

(* When a timer may fire, and when the client's code may run.  Client code *)
(* can run inside the turn of another client call, never inside the turn   *)
(* of a timer callback that has not finished.                              *)
TimerTurn == InProcess => ~TimerChain /\ ~CallChain
ClientTurn == InProcess => ~TimerChain

-----------------------------------------------------------------------------
(* cleanupRequest: forget the request and clear the timer that the handle  *)
(* names; clearing a timer that has fired has no effect.                   *)
Released(t) ==
    [active  |-> FALSE,
     handle  |-> "none",
     timeout |-> IF t.handle = "timeout" /\ t.timeout = "set"
                 THEN "off" ELSE t.timeout,
     retry   |-> IF t.handle = "retry" /\ t.retry = "set"
                 THEN "off" ELSE t.retry]

CleanupRequest(id) == tracking' = [tracking EXCEPT ![id] = Released(@)]

(* activeRequests.clear() and clearTimeout of every scheduled request.     *)
ForgetAll ==
    /\ tracking' = [id \in Ids |-> Released(tracking[id])]
    /\ requestDeduplication' = [f \in Fingerprints |-> NoId]

RejectOuter(id) ==
    promises' = [promises EXCEPT ![id].outer = IF @ = "open" THEN "rejected"
                                               ELSE @]

(* executeRequest and handleRequestFailure settle the inner promise only   *)
(* while the request is active.                                            *)
SettleInner(id, result) ==
    promises' = [promises EXCEPT ![id].inner =
                   IF tracking[id].active /\ @ = "open" THEN result ELSE @]

-----------------------------------------------------------------------------
(* enqueue                                                                 *)

(* The call: size() is read now, compared with maxSize in a later step.    *)
Submit(id) ==
    /\ ClientTurn
    /\ call[id].pc = "new"
    /\ call' = [call EXCEPT ![id].pc = IF BackendSize >= MaxSize THEN "full"
                                       ELSE "sized"]
    /\ promises' = [promises EXCEPT ![id].outer = "open"]
    /\ UNCHANGED <<backendVars, tracking, deferTimers, workers, dedupVars,
                   controlVars>>

(* handleQueueFull: getRequests answers with the pending and retrying      *)
(* requests of this moment, of which the overage ones will be removed.     *)
HandleQueueFull(id) ==
    LET overage == WithStatus({"pending", "retrying"}) \cap aged
    IN  /\ call[id].pc = "full"
        /\ call' = [call EXCEPT ![id].pc = IF overage = {} THEN "refused"
                                           ELSE "sweeping",
                                ![id].left = overage]
        /\ UNCHANGED <<backendVars, promises, tracking, deferTimers, workers,
                       dedupVars, controlVars>>

(* Nothing to clean: the call throws.                                      *)
RefuseFull(id) ==
    /\ call[id].pc = "refused"
    /\ call' = [call EXCEPT ![id].pc = "returned"]
    /\ RejectOuter(id)
    /\ UNCHANGED <<backendVars, tracking, deferTimers, workers, dedupVars,
                   controlVars>>

SweepRemove(id, victim) ==
    /\ call[id].pc = "sweeping"
    /\ call[id].hand = NoId
    /\ victim \in call[id].left
    /\ call' = [call EXCEPT ![id].left = @ \ {victim}, ![id].hand = victim]
    /\ Erase(victim)
    /\ UNCHANGED <<doomed, promises, tracking, deferTimers, workers,
                   dedupVars, controlVars>>

SweepCleanup(id) ==
    /\ call[id].pc = "sweeping"
    /\ call[id].hand # NoId
    /\ call' = [call EXCEPT ![id].hand = NoId]
    /\ CleanupRequest(call[id].hand)
    /\ UNCHANGED <<backendVars, promises, deferTimers, workers, dedupVars,
                   controlVars>>

HasRoom(id) ==
    \/ call[id].pc = "sized"
    \/ /\ call[id].pc = "sweeping"
       /\ call[id].left = {} /\ call[id].hand = NoId

(* The request whose promise a duplicate is given, if there is one.        *)
DuplicateOf(id, twin) ==
    /\ twin = requestDeduplication[FingerprintOf[id]]
    /\ twin # NoId
    /\ tracking[twin].active

Join(id) ==
    /\ HasRoom(id)
    /\ \E twin \in Ids :
         /\ DuplicateOf(id, twin)
         /\ promises' = [promises EXCEPT ![id].outer = "following",
                                         ![id].of = twin]
    /\ call' = [call EXCEPT ![id].pc = "returned"]
    /\ UNCHANGED <<backendVars, tracking, deferTimers, workers, dedupVars,
                   controlVars>>

(* Create the request, its two timers and its deduplication entry, and     *)
(* hand it to the store.                                                   *)
Create(id) ==
    /\ HasRoom(id)
    /\ ~ \E twin \in Ids : DuplicateOf(id, twin)
    /\ \E phase \in SubmitPhases :
         Enqueue(id, NewRequest("pending", phase, 0))
    /\ call' = [call EXCEPT ![id].pc = "storing"]
    /\ tracking' = [tracking EXCEPT ![id] =
                      [active |-> TRUE, handle |-> "timeout",
                       timeout |-> "set", retry |-> "off"]]
    /\ requestDeduplication' =
         [requestDeduplication EXCEPT ![FingerprintOf[id]] = id]
    /\ dedupTimers' = dedupTimers \cup {id}
    /\ UNCHANGED <<promises, deferTimers, workers, controlVars>>

(* The store answered: the outer promise follows the inner one, unless the *)
(* request is no longer tracked, which throws inside the then-callback and *)
(* ends in its catch.                                                      *)
Accept(id) ==
    /\ call[id].pc = "storing"
    /\ call' = [call EXCEPT ![id].pc = "returned"]
    /\ \/ /\ tracking[id].active
          /\ promises' = [promises EXCEPT ![id] =
                            IF @.outer = "open"
                            THEN [@ EXCEPT !.outer = "following", !.of = id]
                            ELSE @]
          /\ UNCHANGED tracking
       \/ /\ ~tracking[id].active
          /\ RejectOuter(id)
          /\ CleanupRequest(id)
    /\ UNCHANGED <<backendVars, deferTimers, workers, dedupVars, controlVars>>

-----------------------------------------------------------------------------
(* processNext, one tick: claim, ask the breaker, process, record.         *)

(* A step of one tick that touches the store and the tick only.            *)
OnlyWorkers == UNCHANGED <<tracking, deferTimers, callerVars, dedupVars,
                           controlVars>>

Proceed(w, pc) == workers' = [workers EXCEPT ![w].pc = pc]
Finish(w) == workers' = [workers EXCEPT ![w] = Idle]

(* updateRequest throws for a request that is no longer stored; the tick   *)
(* catches it (line 304) and ends there, cleaning up nothing.              *)
UpdateOrGiveUp(w, request, pc) ==
    \/ /\ UpdateRequest(workers[w].id, request)
       /\ Proceed(w, pc)
    \/ /\ ~Stored(workers[w].id)
       /\ Finish(w)
       /\ UNCHANGED backendVars

Tick(w, id) ==
    /\ TimerTurn
    /\ isProcessing /\ manager = "running"
    /\ workers[w].pc = "idle"
    /\ Dequeue(DefaultZone, id)
    /\ workers' = [workers EXCEPT ![w] =
                     [pc |-> "claimed", id |-> id,
                      retries |-> requests[id].retryCount]]
    /\ OnlyWorkers

Of(w) == requests[workers[w].id]

CanExecute(w) ==
    /\ workers[w].pc = "claimed"
    /\ UpdateOrGiveUp(w, [Of(w) EXCEPT !.status = "processing"], "starting")
    /\ OnlyWorkers

(* The breaker refuses: rescheduleRequest, the delay starts.               *)
RescheduleRequest(w) ==
    /\ "defer" \in Activities
    /\ workers[w].pc = "claimed"
    /\ UpdateOrGiveUp(w, [Of(w) EXCEPT !.status = "pending",
                                       !.scheduledAt = "future"], "deferring")
    /\ OnlyWorkers

SetDeferTimer(w) ==
    /\ workers[w].pc = "deferring"
    /\ deferTimers' = deferTimers \cup
         {[id |-> workers[w].id, retries |-> workers[w].retries]}
    /\ Finish(w)
    /\ UNCHANGED <<backendVars, tracking, callerVars, dedupVars, controlVars>>

(* executeRequest: the processor is called, then its promise settles.  A   *)
(* missing processor is a failure.                                         *)
StartProcessor(w) ==
    /\ workers[w].pc = "starting"
    /\ Proceed(w, "executing")
    /\ OnlyWorkers
    /\ UNCHANGED backendVars

ProcessorResolves(w) ==
    /\ ClientTurn
    /\ workers[w].pc = "executing"
    /\ Proceed(w, "succeeded")
    /\ SettleInner(workers[w].id, "resolved")
    /\ UNCHANGED <<backendVars, call, tracking, deferTimers, dedupVars,
                   controlVars>>

ProcessorFails(w) ==
    /\ ClientTurn
    /\ workers[w].pc = "executing"
    /\ Proceed(w, "failed")
    /\ OnlyWorkers
    /\ UNCHANGED backendVars

HandleRequestSuccess(w) ==
    /\ workers[w].pc = "succeeded"
    /\ UpdateOrGiveUp(w, [Of(w) EXCEPT !.status = "completed"], "completing")
    /\ OnlyWorkers

Completed(w) ==
    /\ workers[w].pc = "completing"
    /\ Finish(w)
    /\ CleanupRequest(workers[w].id)
    /\ UNCHANGED <<backendVars, deferTimers, callerVars, dedupVars,
                   controlVars>>

MayRetry(w) == /\ workers[w].id \in Retryable
               /\ workers[w].retries < MaxRetries

(* handleRequestFailure with retries left: scheduleRetry.                  *)
ScheduleRetry(w) ==
    /\ workers[w].pc = "failed"
    /\ MayRetry(w)
    /\ UpdateOrGiveUp(w, NewRequest("retrying", "future",
                                    workers[w].retries + 1), "retrying")
    /\ OnlyWorkers

(* The retry timer takes the place of the timeout timer as the handle.     *)
SetRetryTimer(w) ==
    /\ workers[w].pc = "retrying"
    /\ tracking' = [tracking EXCEPT ![workers[w].id].retry = "set",
                                    ![workers[w].id].handle = "retry"]
    /\ Finish(w)
    /\ UNCHANGED <<backendVars, deferTimers, callerVars, dedupVars,
                   controlVars>>

HandleRequestFailure(w) ==
    /\ workers[w].pc = "failed"
    /\ ~MayRetry(w)
    /\ UpdateOrGiveUp(w, [Of(w) EXCEPT !.status = "failed"], "abandoning")
    /\ OnlyWorkers

(* Mutant: the request is forgotten before its promise is rejected.        *)
AbandonedUnanswered(w) ==
    /\ workers[w].pc = "abandoning"
    /\ Finish(w)
    /\ CleanupRequest(workers[w].id)
    /\ UNCHANGED <<backendVars, callerVars, deferTimers, dedupVars, controlVars>>

Abandoned(w) ==
    /\ workers[w].pc = "abandoning"
    /\ Finish(w)
    /\ SettleInner(workers[w].id, "rejected")
    /\ CleanupRequest(workers[w].id)
    /\ UNCHANGED <<backendVars, call, deferTimers, dedupVars, controlVars>>

-----------------------------------------------------------------------------
(* Timers.                                                                 *)

(* The delay of a timer that was set together with scheduledAt is over.    *)
DelayOver(id) == ~(Stored(id) /\ requests[id].scheduledAt = "future")

(* Mutant: the timer is an interval.                                       *)
DeferTimerRepeats(timer) ==
    /\ TimerTurn
    /\ timer \in deferTimers
    /\ DelayOver(timer.id)
    /\ Enqueue(timer.id, NewRequest("pending", "due", timer.retries))
    /\ UNCHANGED <<deferTimers, tracking, workers, callerVars, dedupVars,
                   controlVars>>

(* rescheduleRequest's timer enqueues the request it was given, whatever   *)
(* became of the stored one.                                               *)
DeferTimerFires(timer) ==
    /\ TimerTurn
    /\ timer \in deferTimers
    /\ DelayOver(timer.id)
    /\ Enqueue(timer.id, NewRequest("pending", "due", timer.retries))
    /\ deferTimers' = deferTimers \ {timer}
    /\ UNCHANGED <<tracking, workers, callerVars, dedupVars, controlVars>>

OnlyTracking == UNCHANGED <<deferTimers, workers, callerVars, dedupVars,
                            controlVars>>

SetTimeoutState(id, state) ==
    tracking' = [tracking EXCEPT ![id].timeout = state]

RetryTimerFires(id) ==
    /\ TimerTurn
    /\ tracking[id].retry = "set"
    /\ DelayOver(id)
    /\ \/ /\ SetStatus(id, "pending")
          /\ tracking' = [tracking EXCEPT ![id].retry = "waking"]
       \/ /\ ~Stored(id)
          /\ tracking' = [tracking EXCEPT ![id].retry = "threw"]
          /\ UNCHANGED backendVars
    /\ OnlyTracking

RetryAwake(id) ==
    /\ tracking[id].retry = "waking"
    /\ tracking' = [tracking EXCEPT ![id].retry = "off", ![id].handle = "none"]
    /\ OnlyTracking
    /\ UNCHANGED backendVars

(* Mutant: a request is expired whatever its status.                       *)
TimeoutFiresUnchecked(id) ==
    /\ "timeout" \in Activities
    /\ TimerTurn
    /\ tracking[id].timeout = "set"
    /\ SetTimeoutState(id, "checking")
    /\ RejectOuter(id)
    /\ UNCHANGED <<backendVars, call, deferTimers, workers, dedupVars,
                   controlVars>>

(* The timeout: handleRequestTimeout reads the request, then the outer     *)
(* promise is rejected if it still can be.                                 *)
TimeoutFires(id) ==
    /\ "timeout" \in Activities
    /\ TimerTurn
    /\ tracking[id].timeout = "set"
    /\ SetTimeoutState(id, IF HasStatus(id, "pending") THEN "checking"
                           ELSE "off")
    /\ RejectOuter(id)
    /\ UNCHANGED <<backendVars, call, deferTimers, workers, dedupVars,
                   controlVars>>

TimeoutExpires(id) ==
    /\ tracking[id].timeout = "checking"
    /\ \/ /\ SetStatus(id, "expired")
          /\ SetTimeoutState(id, "expiring")
       \/ /\ ~Stored(id)
          /\ SetTimeoutState(id, "threw")
          /\ UNCHANGED backendVars
    /\ OnlyTracking

TimeoutCleanup(id) ==
    /\ tracking[id].timeout = "expiring"
    /\ tracking' = [tracking EXCEPT ![id] = [Released(@) EXCEPT !.timeout = "off"]]
    /\ OnlyTracking
    /\ UNCHANGED backendVars

(* The window ends: the entry goes, whichever request it names by now.     *)
DedupWindowEnds(id) ==
    /\ TimerTurn
    /\ id \in dedupTimers
    /\ dedupTimers' = dedupTimers \ {id}
    /\ requestDeduplication' =
         [requestDeduplication EXCEPT ![FingerprintOf[id]] = NoId]
    /\ UNCHANGED <<backendVars, tracking, deferTimers, workers, callerVars,
                   controlVars>>

(* maintenance() of the store, called by an interval until shutdown.       *)
MaintenanceTick ==
    /\ "maintenance" \in Activities
    /\ TimerTurn
    /\ manager = "running"
    /\ Maintenance
    /\ UNCHANGED managerVars

(* The clock: schedules come due, requests outlive their timeout.  A timer *)
(* that is overdue fires before the timeout of its request, minutes by     *)
(* default, has passed as well.                                            *)
ClockTick(id) ==
    /\ TimerTurn
    /\ \/ /\ Elapse(id)
          /\ requests[id].scheduledAt = "due"
             => tracking[id].retry # "set" /\ \A t \in deferTimers : t.id # id
          /\ UNCHANGED aged
       \/ /\ "aging" \in Activities
          /\ Stored(id)
          /\ aged' = aged \cup {id}
          /\ UNCHANGED backendVars
    /\ UNCHANGED <<tracking, deferTimers, cancel, clearing, manager,
                   isProcessing, workers, callerVars, dedupVars>>

-----------------------------------------------------------------------------
(* The other calls of the client.                                          *)

(* cancelRequest: one call per request (bound).  A finished or unknown     *)
(* request makes it return false, which changes nothing.                   *)
CancelRequest(id) ==
    /\ "cancel" \in Activities
    /\ ClientTurn
    /\ cancel[id] = "none"
    /\ Stored(id)
    /\ requests[id].status \notin {"completed", "failed"}
    /\ cancel' = [cancel EXCEPT ![id] = "reading"]
    /\ UNCHANGED <<backendVars, tracking, deferTimers, aged, clearing,
                   manager, isProcessing, workers, callerVars, dedupVars>>

CancelUpdates(id) ==
    /\ cancel[id] = "reading"
    /\ \/ /\ SetStatus(id, "cancelled")
          /\ cancel' = [cancel EXCEPT ![id] = "updating"]
       \/ /\ ~Stored(id)
          /\ cancel' = [cancel EXCEPT ![id] = "refused"]
          /\ UNCHANGED backendVars
    /\ UNCHANGED <<tracking, deferTimers, aged, clearing, manager,
                   isProcessing, workers, callerVars, dedupVars>>

CancelCleanup(id) ==
    /\ cancel[id] = "updating"
    /\ cancel' = [cancel EXCEPT ![id] = "cancelled"]
    /\ CleanupRequest(id)
    /\ UNCHANGED <<backendVars, deferTimers, aged, clearing, manager,
                   isProcessing, workers, callerVars, dedupVars>>

(* clear(): once in a behaviour (bound).                                   *)
Clear ==
    /\ "clear" \in Activities
    /\ ClientTurn
    /\ clearing = "none"
    /\ ClearAll
    /\ clearing' = "clearing"
    /\ UNCHANGED <<tracking, deferTimers, aged, cancel, manager, isProcessing,
                   workers, callerVars, dedupVars>>

ClearForgets ==
    /\ clearing = "clearing"
    /\ clearing' = "done"
    /\ ForgetAll
    /\ UNCHANGED <<backendVars, deferTimers, dedupTimers, aged, cancel,
                   manager, isProcessing, workers, callerVars>>

(* clear(zone): nothing but the store's own loop.                          *)
ClearOneZone(zone) ==
    /\ "clearZone" \in Activities
    /\ ClientTurn
    /\ ClearZone(zone)
    /\ UNCHANGED managerVars

LoopStep(loop, id) ==
    /\ RemoveDoomed(loop, id)
    /\ UNCHANGED managerVars

(* pauseProcessing and resumeProcessing: ticks in progress go on.          *)
PauseOrResume ==
    /\ "pause" \in Activities
    /\ ClientTurn
    /\ isProcessing' = ~isProcessing
    /\ UNCHANGED <<backendVars, tracking, deferTimers, aged, cancel, clearing,
                   manager, workers, callerVars, dedupVars>>

NoneActive == \A id \in Ids : ~tracking[id].active

OnlyManager == UNCHANGED <<backendVars, deferTimers, dedupTimers, aged,
                           cancel, clearing, workers, callerVars>>

Shutdown ==
    /\ "shutdown" \in Activities
    /\ ClientTurn
    /\ manager = "running"
    /\ manager' = IF NoneActive THEN "closing" ELSE "draining"
    /\ isProcessing' = FALSE
    /\ OnlyManager
    /\ UNCHANGED <<tracking, requestDeduplication>>

(* The poll of every 100 ms sees no active request, or 30 s are over.      *)
EndDrain ==
    /\ TimerTurn
    /\ manager = "draining"
    /\ manager' = "closing"
    /\ OnlyManager
    /\ UNCHANGED <<tracking, requestDeduplication, isProcessing>>

ShutdownDrained == NoneActive /\ EndDrain

(* Mutant: nothing limits the wait.                                        *)
DrainUnlimited == NoneActive /\ EndDrain

ShutdownTimesOut == ~NoneActive /\ EndDrain

CloseBackend ==
    /\ manager = "closing"
    /\ manager' = "closed"
    /\ ForgetAll
    /\ OnlyManager
    /\ UNCHANGED isProcessing

-----------------------------------------------------------------------------
EnqueueStep(id) ==
    \/ HandleQueueFull(id) \/ RefuseFull(id)
    \/ \E victim \in Ids : SweepRemove(id, victim)
    \/ SweepCleanup(id) \/ Join(id) \/ Create(id) \/ Accept(id)

ProcessStep(w) ==
    \/ CanExecute(w) \/ RescheduleRequest(w) \/ SetDeferTimer(w)
    \/ StartProcessor(w)
    \/ HandleRequestSuccess(w) \/ Completed(w)
    \/ ScheduleRetry(w) \/ SetRetryTimer(w)
    \/ HandleRequestFailure(w) \/ Abandoned(w)

ProcessorSettles(w) == ProcessorResolves(w) \/ ProcessorFails(w)

TimerFires(id) ==
    \/ RetryTimerFires(id) \/ TimeoutFires(id) \/ DedupWindowEnds(id)
    \/ \E timer \in deferTimers : timer.id = id /\ DeferTimerFires(timer)

TimerStep(id) == RetryAwake(id) \/ TimeoutExpires(id) \/ TimeoutCleanup(id)

CancelStep(id) == CancelUpdates(id) \/ CancelCleanup(id)

Next ==
    \/ \E id \in Ids : \/ Submit(id) \/ EnqueueStep(id)
                       \/ TimerFires(id) \/ TimerStep(id) \/ ClockTick(id)
                       \/ CancelRequest(id) \/ CancelStep(id)
    \/ \E w \in Workers : \/ \E id \in Ids : Tick(w, id)
                          \/ ProcessStep(w) \/ ProcessorSettles(w)
    \/ \E loop \in Loops, id \in Ids : LoopStep(loop, id)
    \/ \E zone \in Zones : ClearOneZone(zone)
    \/ MaintenanceTick
    \/ Clear \/ ClearForgets
    \/ PauseOrResume
    \/ Shutdown \/ ShutdownDrained \/ ShutdownTimesOut \/ CloseBackend

Spec == Init /\ [][Next]_vars

(* Fairness, for the liveness properties.  The engine runs every step that *)
(* is due: the answers of the store, timers whose time has come, the clock *)
(* and the processing interval.  Processors settle: their requests carry   *)
(* HTTP timeouts.  A breaker that is asked again and again grants some     *)
(* request in the end; nothing is assumed of the client's calls.           *)
Fairness ==
    /\ \A id \in Ids :
         /\ WF_vars(EnqueueStep(id)) /\ WF_vars(CancelStep(id))
         /\ WF_vars(TimerFires(id)) /\ WF_vars(TimerStep(id))
         /\ WF_vars(ClockTick(id))
         /\ \A loop \in Loops : WF_vars(LoopStep(loop, id))
    /\ \A w \in Workers :
         /\ WF_vars(\E id \in Ids : Tick(w, id))
         /\ WF_vars(ProcessStep(w)) /\ WF_vars(ProcessorSettles(w))
         /\ SF_vars(CanExecute(w))
    /\ WF_vars(ClearForgets)
    /\ WF_vars(ShutdownDrained) /\ WF_vars(ShutdownTimesOut)
    /\ WF_vars(CloseBackend)

LiveSpec == Spec /\ Fairness

-----------------------------------------------------------------------------
(* Properties.                                                             *)

Holds(w, id) == workers[w].pc # "idle" /\ workers[w].id = id
Held(id) == \E w \in Workers : Holds(w, id)
Deferred(id) == \E timer \in deferTimers : timer.id = id
Retried(id) == tracking[id].retry = "set"

(* A request is in one place: waiting in its queue, with one tick, or with *)
(* one delay timer.  However ticks, delays, cancellations, clears and      *)
(* timeouts overlap, no request is ever processed by two ticks at once or  *)
(* queued again behind the back of the tick that processes it.             *)
ExclusiveOwner ==
    \A id \in Ids :
        /\ \A v, w \in Workers : Holds(v, id) /\ Holds(w, id) => v = w
        /\ \A s, t \in deferTimers : s.id = id /\ t.id = id => s = t
        /\ Queued(id) => ~Held(id) /\ ~Deferred(id)
        /\ Held(id) => ~Deferred(id)

(* The place of a request in RequestLifecycle.                             *)
Unborn(id) == call[id].pc \in {"new", "sized", "full", "sweeping", "refused"}

PlaceOf(id) ==
    CASE Unborn(id) -> "new"
      [] ~Unborn(id) /\ Held(id) -> CHOOSE w \in Workers : Holds(w, id)
      [] ~Unborn(id) /\ ~Held(id) /\ Queued(id) -> "waiting"
      [] ~Unborn(id) /\ ~Held(id) /\ ~Queued(id) /\ Deferred(id) -> "parked"
      [] /\ ~Unborn(id) /\ ~Held(id) /\ ~Queued(id) /\ ~Deferred(id)
         /\ Retried(id) -> "retrying"
      [] OTHER -> "gone"

(* The manager implements the life cycle: a tick only takes a request that *)
(* waits, and a request that is neither waiting, with a tick, set aside    *)
(* nor left to a retry timer is never dispatched again.  The life cycle    *)
(* lets the retry put the request back.  The code never takes that step:   *)
(* its timer writes the status and does not enqueue (QueueManager.ts:605). *)
Lifecycle == INSTANCE RequestLifecycle
                 WITH place <- [id \in Ids |-> PlaceOf(id)]

ImplementsLifecycle == Lifecycle!Spec

(* The indexes that size() and the sweep of a full queue read name exactly *)
(* the stored requests of these statuses, although enqueue leaves the      *)
(* index of an overwritten record's status as it was.                      *)
IndexesExact ==
    \A status \in {"pending", "processing", "retrying"} :
        statusIndexes[status] = {id \in Ids : HasStatus(id, status)}

(* A request that a processor is working on is stored as processing or     *)
(* cancelled, or was taken out of the store: it is never counted as        *)
(* waiting, never expired and never swept.                                 *)
ExecutingIsMarked ==
    \A w \in Workers : workers[w].pc = "executing" /\ Stored(workers[w].id)
        => requests[workers[w].id].status \in {"processing", "cancelled"}

(* A request stored as completed has answered its caller, as long as       *)
(* nobody cancels, clears or defers: the result is handed over before the  *)
(* status is written, and a timeout or a sweep in between takes nothing    *)
(* away.  A shutdown that runs out of its 30 seconds forgets the callers   *)
(* of the requests still in flight.                                        *)
CompletedIsAnswered ==
    manager # "closed" =>
        \A id \in Ids : HasStatus(id, "completed") =>
            promises[id].inner = "resolved"

(* No timer callback ends in an unhandled rejection: while a timer can     *)
(* fire, the request it will touch is in the store.                        *)
NoUnhandledRejection ==
    \A id \in Ids : /\ tracking[id].timeout # "threw"
                    /\ tracking[id].retry # "threw"

(* Every call of enqueue is answered in the end: refused, or given the     *)
(* result of its request or of the one it duplicates.                      *)
Answered(id) ==
    \/ promises[id].outer = "rejected"
    \/ /\ promises[id].outer = "following"
       /\ promises[promises[id].of].inner # "open"

EveryCallAnswered == \A id \in Ids : promises[id].outer = "open" ~> Answered(id)

(* shutdown returns, whatever the requests in flight do.                   *)
ShutdownReturns == manager = "draining" ~> manager = "closed"
=============================================================================
