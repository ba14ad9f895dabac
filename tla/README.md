# Formal model of autotask-node's request machinery

autotask-node is a TypeScript client for the Autotask REST API. Around some two
hundred generated entity wrappers it has the machinery this project is about: a
request queue with pluggable stores, circuit breakers, retries, a rate limiter,
zone failover, webhook delivery with retries, caches and a migration engine. All
of it runs on one JavaScript thread: what can go wrong is not a data race but
what another callback does between an `await` and the line after it, a timer
that outlives what it was set for, and a copy of a record that is written back
late. The modules here model that. Source paths below are relative to
`src/src/`.

Contents

1. Inventory of the system
2. Modules and how they correspond to the code
3. The runs: what is checked, bounds, fairness
4. The proofs
5. Where code and documentation disagree
6. What is not modelled
7. Plan

## 1. Inventory

### The request queue (`queue/`)

| Part | State | Operations | Interacts with |
|---|---|---|---|
| `core/QueueManager.ts` | `activeRequests` (id -> promise callbacks), `scheduledRequests` (id -> timer handle), `requestDeduplication` (fingerprint -> id), `isProcessing`, `isShuttingDown`, the processing and maintenance intervals | `enqueue`, `processNext` (every 100 ms), `cancelRequest`, `clear`, `pauseProcessing`, `resumeProcessing`, `shutdown`; timers for timeout, retry, delay after a refusal, deduplication window | every call of the store is awaited; asks the breaker manager; calls user-supplied processors |
| `backends/MemoryBackend.ts` | the records, a queue per (zone, priority), indexes by status and zone, batches | `enqueue`, `dequeue`, `peek`, `updateRequest`, `remove`, `getRequests`, `size`, `clear`, `maintenance`, batch operations | called by the manager |
| `backends/SQLiteBackend.ts`, `backends/RedisBackend.ts` | the same in a database | the same | the same; answers come after I/O |
| `strategies/CircuitBreakerManager.ts` | a breaker per endpoint | `canExecute`, `recordSuccess`, `recordFailure` | asked by `processNext` |
| `strategies/BatchManager.ts`, `strategies/PriorityScheduler.ts` | collected batches; statistics | grouping, ordering | constructed by the manager; the scheduler is never asked and the batches' events have no listener |
| `monitoring/`, `utils/QueueFactory.ts` | metrics, alerts, configurations | | read only |

*Hard behaviours.* Ticks of the processing loop overlap, because `setInterval`
does not wait for an async callback. Four kinds of timer close over copies of a
request. `cleanupRequest` clears one timer although a request may have two.
`enqueue` awaits `size()` and compares later. `clear(zone)`, `maintenance()` and
the sweep of a full queue await once per request. Errors in the middle of a tick
are logged and end it there.

*What makes it correct.* A request is processed by one tick at a time and never
queued behind the back of the tick that has it; queues, records and indexes
agree; every caller is answered; a finished request stays finished; a cancelled
one stays cancelled; a full queue stays within its size; `shutdown` returns.

### Errors and retries (`errors/`)

`CircuitBreaker.ts` keeps a state (closed, open, half-open), the time of the last
change, the timestamps of recent failures and successes, and one timer.
Operations overlap, so outcomes arrive in another state than the one they were
started in; changes within a cool-down are ignored. Correct means: an open
circuit is tried again, decisions count what happened in the present state, and
reaching a threshold moves the circuit. `RetryStrategy.ts` (back-off loop) and
`RecoveryStrategies.ts` are stateless but for statistics; `AutotaskErrors.ts` and
`ErrorLogger.ts` classify and format.

### Rate limiting and zones (`rate-limiting/`)

`AutotaskRateLimiter.ts`: sliding windows of request times per zone, thread slots
per endpoint, a waiting queue, usage alerts. `ProductionReliabilityManager.ts` puts
calls into a queue of groups or into a batch, executes one group at a time, sheds
load, and composes the limiter with `AutotaskRetryPatterns.ts` (back-off, a
breaker per endpoint, calls to one endpoint that share a promise) and
`ZoneManager.ts` (health checks, selection, failover). Hard: completion releases
the oldest thread of an endpoint whoever completes; timers that are never cleared
take calls out of queues they are no longer in; a failed group is queued again.
Correct: no thread leaks, a call is started by one group at a time, nobody waits
without a timer or on a leader that has ended, the processing flag comes down.

### Webhooks (`webhooks/`)

`WebhookManager.ts` parses, stores, routes, delivers and synchronises an event;
`EventRouter.ts` keeps routes, a circuit per route and the ids of running
handlers; `reliability/DeliveryManager.ts` keeps three Bull queues (main, retry,
dead letters) and idempotency keys over `reliability/EventStore.ts`;
`patterns/SynchronizationPatterns.ts` keeps the entities being synchronised. Hard:
handlers of several requests in flight, results collected by a racing limiter, a
crash between adding a retry and letting go of the entry it replaces. Correct:
at-least-once delivery of what was accepted, no slot leaked, no entity
synchronised twice at once.

### Caching (`caching/`)

`stores/MemoryCacheStore.ts`: a Map in LRU order, an index of tags, a running sum
of sizes. `CacheStrategy.ts`: lazy, write-through, refresh-ahead and write-behind
reads, refreshes in progress, pending writes. `CacheManager.ts`: stampede
protection. `CacheInvalidator.ts`: deletion by tag after a change, cascades on
timers. Hard: eviction and the deletion of several keys await per key; a fetched
value is stored after the invalidation that should have removed it. Correct: sum,
order and index agree with the entries; stale values go; every call returns.

### The rest

`batching/` (collect, flush on size or time), `utils/requestHandler.ts` (retry and
breaker around one HTTP call), `performance/` (deduplicator, optimizer),
`referential-integrity/` and `relationships/` (graph walks, cascades),
`migration/` (phases, checkpoints, rollback), `business-rules/`, `validation/`,
`client/` and `entities/` (configuration and wrappers), `cli/`.

`PROJECT.json` lists each of these with its status, and the hazards of the code
line by line.

## 2. Modules

| Module | Models | Extends |
|---|---|---|
| `MemoryBackend` | `queue/backends/MemoryBackend.ts` | |
| `QueueManager` | `queue/core/QueueManager.ts` over that store, or over one that answers later | `MemoryBackend` |
| `RequestLifecycle` | the abstract specification of dispatch | |
| `CircuitBreaker` | `errors/CircuitBreaker.ts` | |
| `RateLimiter` | `rate-limiting/AutotaskRateLimiter.ts` | |
| `ReliabilityManager` | `rate-limiting/ProductionReliabilityManager.ts` and `AutotaskRetryPatterns.ts` | `RateLimiter` |
| `EventRouter` | `webhooks/EventRouter.ts` | |
| `DeliveryManager` | `webhooks/reliability/DeliveryManager.ts` | |
| `WebhookManager` | `webhooks/WebhookManager.ts`, `processWebhook` | `EventRouter`, `DeliveryManager` |
| `MemoryCacheStore` | `caching/stores/MemoryCacheStore.ts` | |
| `CacheManager` | `caching/CacheManager.ts`, `CacheStrategy.ts`, `CacheInvalidator.ts` | `MemoryCacheStore` |
| `RedisBackend` | `queue/backends/RedisBackend.ts` under several managers | |
| `Collections` | `Array.prototype.filter`, for three of the modules above | |
| `MC...` | instances for TLC | |
| `...Proofs` | theorems and their proofs; `WebhookProofs` those of the three webhook modules, `CacheProofs` those of the two cache modules | the module they are about |
| `CollectionLemmas` | lemmas on filtering, inserting and removing, and on functions defined by recursion over an interval | `Collections` |

Modules that define an operator marked `mutant` keep it next to the definition it
varies: a plausible slip in that code (a dropped guard, a swapped order), which
the properties must detect when it takes the definition's place.

### MemoryBackend

One variable per Map of the class. A method of the class is `async` but runs in
one piece up to its first `await`, and touches its maps before it: one call is
one action. `clear(zone)` and `maintenance()` take a snapshot of ids and await one
`remove` per id; they are loops (`doomed`) whose rounds other calls interleave
with. A priority queue is a JavaScript `Set`, which iterates in insertion order:
a sequence without repetitions, where `Set.add` of a member changes nothing.
`enqueue` of a stored id keeps the code's asymmetry: the id is added to the index
of the new status and not taken from that of the old one.

Abstractions: of the record, only status, `scheduledAt` and `retryCount` are kept
(zone and priority never change and are constants); `scheduledAt` is one of
undefined, later, due, or past by more than the request's timeout; `getRequests`
filters by status only. The fingerprint map is written and never read.

### QueueManager

The variables `call`, `workers`, `cancel`, `clearing` and `manager` hold where each
unfinished invocation of an async method stands: one action per stretch of code
between two awaits. `tracking` is `activeRequests`, `scheduledRequests` and the two
timers a request can have, separately: the handle names one of them, which is
the point where the code loses the other. `promises` has the two promises of
`enqueue`: the one it returns, and the inner one which that one follows once the
store has answered.

| Code | Actions |
|---|---|
| `enqueue` | `Submit` (size read), `HandleQueueFull`, `RefuseFull`, `SweepRemove`, `SweepCleanup`, `Join` (duplicate), `Create`, `Accept` |
| `processNext` | `Tick`, `CanExecute` or `RescheduleRequest`, `SetDeferTimer` |
| `executeRequest`, `handleRequestSuccess` | `StartProcessor`, `ProcessorResolves`, `HandleRequestSuccess`, `Completed` |
| `handleRequestFailure`, `scheduleRetry` | `ProcessorFails`, `ScheduleRetry`, `SetRetryTimer`, `HandleRequestFailure`, `Abandoned` |
| timers | `DeferTimerFires`, `RetryTimerFires`, `RetryAwake`, `TimeoutFires`, `TimeoutExpires`, `TimeoutCleanup`, `DedupWindowEnds`, `MaintenanceTick`, `ClockTick` |
| `cancelRequest`, `clear` | `CancelRequest`, `CancelUpdates`, `CancelCleanup`, `Clear`, `ClearForgets`, `ClearOneZone`, `LoopStep` |
| `pauseProcessing`, `shutdown` | `PauseOrResume`, `Shutdown`, `ShutdownDrained`, `ShutdownTimesOut`, `CloseBackend` |

*What interleaves.* The in-memory store answers on the microtask queue, which
Node empties before it runs the next timer. `InProcess = TRUE` says so: no timer
fires while an invocation waits for the store (`TimerTurn`), and client code runs
between the microtasks of other client calls only (`ClientTurn`). With
`InProcess = FALSE` nothing is assumed: everything interleaves at every await, as
over SQLite or Redis.

*Choices.* The breaker's answer, the processor's outcome, whether a timeout
has been reached, and when a request becomes older than its timeout are
nondeterministic: the properties hold for every breaker and every processor.

### RequestLifecycle

The abstract specification: a request is new, waiting, with one tick, parked,
retrying, or gone, and moves new -> waiting -> tick -> gone, with two detours: tick ->
parked -> waiting for a refusal, and tick -> retrying -> waiting for a retry.
`QueueManager` implements it with `place` computed from queues, ticks, delay timers
and retry timers (`PlaceOf`); the property `ImplementsLifecycle` is the refinement.
The last step of the second detour, `Retry`, is what the documentation promises
and the code never does (section 5): its timer writes the status and queues
nothing, so a retried request goes from retrying to gone. The refinement is a
safety property and says nothing against that; it holds of the code as it is
and would hold of a manager whose timer queued the request again.

### CircuitBreaker

`execute` is split at its await: `Start` reads the state, `Succeed`, `Fail` and
`Ignore` record the outcome in whatever state the circuit is in by then. Lists of
timestamps become lists of ages, aged by `Tick` and stopped at `Oldest`, an age
beyond every period they are compared with; `lastStateChange` and the timer are
ages likewise. `ChangeState` has the code's two outcomes: ignored in the
cool-down, or done. Counters for `getMetrics`, events and callbacks are left out.

### RateLimiter and ReliabilityManager

A thread id is fresh and never looked up, so the ids of an endpoint are their
number; `notifyRequestComplete` deletes the oldest, which is one less. The hourly
allowance and the health of the zone are one Boolean that changes at any time
(`AllowanceChanges`). `processQueue` runs once, on an empty queue, so no action
serves the waiting queue.

| Code | Actions |
|---|---|
| `requestPermission`, its timer, `notifyRequestComplete` | `RequestPermission`, `PermissionTimesOut`, `NotifyRequestComplete` |
| `queueRequest`, `addToQueue`, `addToBatch`, `tryEmergencyQueueCleanup` | `QueueRequest`; `RequestTimer` |
| `processRequestQueue`, `processBatch` | `ProcessRequestQueue`, `BatchTimer` |
| `executeRequest` | `Begin`, `PermissionRefused`, `Succeed`, `Fail` |
| `executeWithRetry`, `updateCircuitBreakerState` | `ExecuteWithRetry`, `AttemptSucceeds`, `AttemptFails`, `BackoffEnds`, `RecoveryDue`, `FailureAges` |
| `clearQueue`, `updateSystemHealth` | `ClearQueue`, `HealthTick` |

The batch of an endpoint is the part of `batch` that is for it, and each endpoint
has its batch timers. An endpoint of the model stands for one zone, method and
path. Which waiting calls are past their timeout, which errors are transient and when
the period of a breaker is over are choices.

### EventRouter, DeliveryManager and WebhookManager

`Route` is the synchronous start of all matching handlers, a fold over the routes
by priority. `RouteReturns` says when `executeWithConcurrencyLimit` resolves: once
the limit is reached it removes the promise it has just added, so it waits for the
first `MaxHandlers - 1` only (`Awaited`). `Results` is what it has by then. A result
missing before one that is there (`HasHole`) makes `route()` throw; results missing
at the end only make the array shorter, and the event is `Matched` without the
handlers they belong to. `results` remembers the handlers in a matched routing result.
An entry of a Bull queue is a record of queue, job and attempt; a job can be in
the queues more than once, so the three queues are a bag. A worker first adds the
successor of a failed entry, then lets go of it: `HandlerFails`, `SuccessorAdded`.
`Doubled` is what that number of crashes can make of one entry. Bull itself, and that
it gives an entry out again which was in hand when the process stopped
(`GivenOutAgain`), is external. `Crash` keeps what is in Redis. `HandlerSucceeds` is
more than the code can do over a real queue, where a job is JSON and its handler
no function any more (section 5): with it the properties hold of a repaired
delivery too.

| Code | Actions |
|---|---|
| `processWebhook` | `Parse`, `Saved`, `SaveFails`, `Routed`, `DeliverNext`, `DeliveryAnswered`, `SyncBegins`, `SyncEnds` |
| `executeHandler`, circuit, `addRoute`, `removeRoute` | `HandlerEnds`, `NextAttemptDue`, `AddRoute`, `RemoveRoute` |
| `deliver` | `Deliver`, `DeliverEnds` |
| `processDelivery`, `processRetry`, `handleDeliveryFailure` | `Take`, `HandlerSucceeds`, `HandlerFails`, `SuccessorAdded` |
| dead letters, `cancelJob`, `cleanup` | `DeadLetterEvicted`, `RequeueFound`, `RequeueAdded`, `RequeueEnds`, `CancelJob`, `ClearKeys` |

### MemoryCacheStore and CacheManager

Values are versions of a source that changes (`Change`); an entry is live or
expired. `set` is `SetNow` when there is room, else `SetEvicts`, `EvictNext` and
`SetAfterEviction`, over the order as it was when eviction began. `DeleteMany` and
`DeleteNext` delete several keys with an await after each. A task of the manager is
a client's call, the refresh of a key or the flush of the pending writes: `Call`,
`Fetched`, `FetchFails`, `StoreStep`; `PutBegins` to `GuardLifted` are `set` behind
the stampede protection; `ProcessPendingWrites` and `FlushNext` are write-behind;
`InvalidateByEntityChange` and `CascadeFires` are the invalidator. `Units` numbers
what each entry takes, so that the sum of the sizes is the number of all units.

### RedisBackend

A call in flight is a record of who makes it, for which request, and the status it
has read; a Redis command, a MULTI and the dequeue script are one step each, and
everything of two round trips is two (`Reads` and `Writes` of `updateRequest`,
`RemoveReads` and `RemoveWrites`, `Count` and `DeleteQueue` of `maintenance`). The
timers of a manager (`Expire`, `Retry`, `Defer`) are calls that wait. `Crash` takes
the calls of one process and leaves the store. The script fails on the first
pending id with a date and takes nothing.

## 3. Runs

All runs pass, and each explores the full state space of its instance.

| Run | Instance | Checks |
|---|---|---|
| `store` | 3 requests, 2 priorities, 1 zone, every method in any order, both loops | `QueuesSound`, `IndexesCover`, `OrderKept`, `DispatchInOrder` |
| `dispatch` | 2 requests, 2 overlapping ticks, 1 retry, refusals by the breaker, timeouts, cancellations, scheduled requests, maintenance | types; `ExclusiveOwner`, `ExecutingIsMarked`, `NoUnhandledRejection`, `IndexesExact` |
| `shutdown` | queue of size 1, duplicates, timeouts, sweeps, pausing, shutdown | `CompletedIsAnswered`, `ShutdownReturns` |
| `remote` | a store that answers late, 2 ticks, timeout, cancel, refusals, both clears | `ImplementsLifecycle` |
| `answered` | 3 calls, 2 of them duplicates, queue of size 2, refusals | `EveryCallAnswered` |
| `breaker` | 2 overlapping operations, thresholds 2, window, open period and cool-down of 2 ticks, forced states, reset | `RecoveryArmed`, `FreshCounts`, `PassedOverInCooldown`, `Recovers` |
| `reliability` | 3 calls of one endpoint with one thread, 2 of them batched and one of these sheddable, two waiting places | types; `ThreadsAccounted`, `WaitingQueueExact`, `StartedOnce`, `JoinedHasLeader`, `NeverStuck`, `WaiterHasTimer` |
| `webhooks` | 2 requests with one event, 2 handlers, threshold 1, one attempt, one crash | types; `SlotsInUse`, `AcknowledgedIsDelivered`, `SyncsExclusive` |
| `deliveries` | one job of 3 attempts, one dead letter kept, 2 admins and 2 requeues, one crash | `NothingLost`, `CopiesAccounted`, `EveryEventSettles` |
| `caching` | a company and a ticket that depends on it, room for one entry and for two pending writes, one client | types; `UsageExact`, `IndexExact`, `RefreshExact` |
| `freshness` | one key, two clients, all strategies | `EventuallyFresh`, `CallsReturn` |
| `redis` | 2 requests, 2 managers, one crash, one cancellation, sweep, clear(zone) or maintenance | `OneOwner`, `PendingIsIndexed`, `QueuedIsServed` |

What the less obvious properties say:

* `ExclusiveOwner`: a request is in its queue, with one tick, or with one delay
  timer, and never in two of these. This is what makes overlapping ticks
  harmless, and it rests on an argument nobody wrote down: a retry never queues
  the request again, and the delay timer is only ever set by the tick that has it.
  `OneOwner` says the same of processes that share a Redis.
* `ExecutingIsMarked`: what a processor is working on is stored as processing (or
  cancelled, or removed), so neither the timeout nor the sweep of a full queue
  touches it. The timeout timer stays set while the processor runs; only the
  status check in `handleRequestTimeout` stands between them.
* `IndexesExact`: `size()` and the sweep read indexes that `enqueue` leaves stale in
  general (`MemoryBackend` alone guarantees `IndexesCover` only); the delay timers of
  the manager re-enqueue requests whose record is neither processing nor retrying,
  so here they are exact. With Redis they are not, and `PendingIsIndexed` is what remains.
* `CompletedIsAnswered`: the result is handed to the caller before `completed` is
  written, and no timeout or sweep in between takes the caller away. It is about
  runs without `cancelRequest`, `clear()` and refusals (section 4).
* `NoUnhandledRejection`: a retry timer calls `updateRequest` outside every catch;
  maintenance must not remove a request whose timer is set.
* `FreshCounts`: failures that are counted while closed, and successes that are
  counted while half-open, happened since the circuit entered that state,
  although operations end in any state.
* `PassedOverInCooldown`: a threshold that was reached without effect was reached
  within the cool-down.
* `ThreadsAccounted`: the limiter holds no more ids than there are granted calls
  that have not completed. It is an inequality, because a refused call releases a
  thread it never had: what the code keeps is that no thread leaks, not the limit.
* `StartedOnce` and `NeverStuck`: a call is in the queue, in a batch or in execution,
  and `processing` is held by a group in execution, however that group ends.
* `AcknowledgedIsDelivered`: of a webhook that counts as matched, every handler that
  succeeded, and that `route()` waits for or had the result of, has a delivery: added
  to the queue, or refused as a duplicate of another job with its key that was added,
  is being added or was rejected by Redis. It does not promise more than the code
  does: a handler at the end of the routes that succeeds after `route()` has returned
  is never delivered, and a job whose `add` failed keeps its key (section 5).
* `NothingLost`, `CopiesAccounted`: an accepted event is in a queue or in hand until
  it has ended; each crash at most doubles its entries and each requeue adds one.
* `UsageExact`, `IndexExact`: the store's bookkeeping survives evictions, sweeps and
  sets that overlap; a drift of the sum would evict for ever.
* `EventuallyFresh`: a stale value that was stored after the invalidation, or
  written late by the flush, goes with its time to live.
* `QueuedIsServed`: a queued request outlives the process that accepted it, unless
  a dated request blocks the script before it, or maintenance deletes it.

*Bounds.* `Workers` is the number of ticks in progress together: two of them
show every conflict between a pair of ticks, and the theorem `OneOwner` has no
such bound. One retry distinguishes "retries left" from "none left". A queue of
size one is full with one request and swept by the next; size two admits a call
while another waits. `clear()` happens once and a request is cancelled once in a
behaviour. Three requests in `store` are the least for an order with one of them
removed or re-enqueued from the middle; two of them share a priority and one is
more urgent. In `breaker`, `MaxRecords` exceeds both thresholds by one, so that
a threshold can be passed over and met again; `Oldest` is two more than every
period. `Activities` switches the groups of actions on per run, to keep each
question within a few minutes; every action is on in some passing run. In
`reliability` one thread and two waiting places let calls wait behind each other and the third be refused while the allowance is used up,
a batch of two has a timer that fires into the next one, and an urgent call
overtakes. In `webhooks` two handlers of two requests meet a limit of two; the
requests are alike (symmetry). Two handlers show a result that is missing at the end;
one that is missing before another takes three, which is too many for a run, and
is covered by the theorem only. `deliveries` has three attempts, so that a retry is
retried, and two requeues by two admins, so that both take the same letter.
`caching` has more keys than room; `freshness` two clients, so that one joins the
set of the other. `MaxCrashes`, `MaxRequeues`, `MaxCalls` and `Versions` bound what the
environment does; `redis` has a second process that goes on after the first
crashed.

*Deadlock* is not checked where the instance has finitely many calls and nothing
is left to do once all are answered; it is checked for the store and the breaker.

*Fairness.* Node runs every continuation and every due timer: weak fairness of
the steps of each invocation, of timers and of the clock. Processors settle:
the requests they send have HTTP timeouts. A tick that has a request either runs
it or defers it; strong fairness of `CanExecute` says that a breaker asked again and
again grants some request in the end, which `canExecute` does once its open
period is over. Nothing is assumed of clients: no call has to be made. For the
breaker, time passes and Node fires a due timer (weak fairness of `Tick` and
`OpenTimerFires`); no operation is assumed to be started or to end.
`EveryCallAnswered` is checked without retries, timeouts and `clear()`, for which
it does not hold (section 5). For deliveries, Bull gives waiting entries out and a
handler answers or runs into its timeout (weak fairness of `WorkerStep`). For the
cache, fetchers settle, entries expire and the cleanup interval fires. For Redis,
processes are restarted and tick (`Take`), and their calls go on.

## 4. Proofs

TLAPS proves, for every value of the constants allowed by the named assumptions:

| Theorem | Module | States |
|---|---|---|
| `BackendCorrect` | `MemoryBackendProofs` | the store alone: types, `QueuesSound`, `IndexesCover` |
| `ServedInOrder` | `MemoryBackendProofs` | the action properties `OrderKept`, `DispatchInOrder` |
| `TypeCorrect` | `QueueManagerProofs` | the manager: types, `QueuesSound`, `IndexesCover` |
| `OneOwner` | `QueueManagerProofs` | `ExclusiveOwner` |
| `Refinement` | `QueueManagerProofs` | `ImplementsLifecycle`: the manager implements `RequestLifecycle` |
| `CountedExactly` | `QueueManagerProofs` | `IndexesExact` |
| `MarkedWhileExecuting` | `QueueManagerProofs` | `ExecutingIsMarked`, if `InProcess` |
| `TimersFindTheirRequest` | `QueueManagerProofs` | `NoUnhandledRejection`, if `InProcess` and `NoSweeps` |
| `AnsweredWhenCompleted` | `QueueManagerProofs` | `CompletedIsAnswered`, if `InProcess` and `LeftAlone` |
| `BreakerCorrect` | `CircuitBreakerProofs` | types, `RecoveryArmed`, `FreshCounts`, `PassedOverInCooldown` |
| `SharedStoreCorrect` | `RedisBackendProofs` | types, `OneOwner`, `PendingIsIndexed` |
| `ReliabilityCorrect` | `ReliabilityProofs` | types, `ThreadsAccounted`, `WaitingQueueExact`, `StartedOnce`, `JoinedHasLeader`, `NeverStuck`, `WaiterHasTimer` |
| `EventsKept` | `WebhookProofs` | `NothingLost`, `CopiesAccounted` under `DeliverySpec` |
| `WebhooksCorrect` | `WebhookProofs` | types, `SlotsInUse`, `AcknowledgedIsDelivered`, `SyncsExclusive`, and the two of `EventsKept`, of the whole pipeline |
| `CacheCorrect` | `CacheProofs` | types, `UsageExact`, `IndexExact`, `RefreshExact` |

These are all the safety properties that the runs check. The runs remain the
evidence that the assumptions can be met, that every action happens, and that a
wrong line in the code would be noticed.

*Hypotheses on constants.* Every theorem rests on the assumptions of its modules.
Three of the manager have a hypothesis of their own, because without it TLC
finds the property violated:

* `InProcess` (the in-memory store). Over a store that answers later,
  `handleRequestTimeout` can read `pending`, and write its `failed` over the
  `processing` of a tick that came between: `ExecutingIsMarked` and
  `CompletedIsAnswered` fail. `NoUnhandledRejection` fails through maintenance, whose
  removal can overtake the timer of a retry.
* `NoSweeps`, no activity `aging`, `clear` or `clearZone`. Each of the three alone
  removes a request whose retry timer is set, and the timer's `updateRequest` then
  rejects outside every catch. Maintenance alone does not: it removes what has
  lapsed, and a request that waits for its retry has not.
* `LeftAlone`, no activity `defer`, `cancel` or `clear`. A cancelled request that is
  executing is completed without its caller; `clear()` forgets the callers of what
  executes; a deferred request is expired, and queued again by its delay timer.

*The store.* First, what the `Set` operations do to sequences (`SetAddProperties`,
`SetDeleteProperties`); then one lemma per method on what it does to `Queued`, the
statement that an id is in the queue of its own zone and priority. Those effects
are what the manager's proof cites, so that it never looks into a queue. For the
order, `StepReplaces` says that a step replaces each queue by itself, by the empty
one, by its `SetAdd` or by its `SetDelete`, and all four keep the order of what
stays. For dispatch, `DispatchedIsChosen`: only `dequeue` takes a request out of its
queue and leaves it stored and processing, and that request is the first ready one
of the first level that has one.

*One owner.* `ExclusiveOwner` is not inductive. `Create` puts a request into
its queue, and nothing in `ExclusiveOwner` says that no tick has a request of that
id already: `UnbornNowhere` adds that a request whose `enqueue` call has not reached
the store is nowhere. And `DeferTimerFires` queues the request of a timer: that no
tick and no second timer has it is `ExclusiveOwner` itself, and that the timer's
call has long been made is `UnbornNowhere` again. `OwnerInv` is the conjunction.
All actions but four only take a request away from somebody (`NobodyGains`);
those are dispatched by one lemma, `NobodyGainsKeepsOwner`, and the four that
move a request (`Create`, `Tick`, `SetDeferTimer`, `DeferTimerFires`) have a lemma
each. `TypeInv` carries the types, the soundness of the store and the fact that
a tick in progress has a request.

*The refinement.* `Moves` classifies every step by what it does to the places of
requests: all stay or some leave the queue (`Stays`), one enters its queue, is
declined, returns from its timer, is taken by a tick, parked, or let go. With
`OwnerInv`, each of these is a step or a stutter of `RequestLifecycle` under the
mapping `PlaceOf`; `PlaceRight` reads `PlaceOf` as implications, so that the proof never
expands the mapping's alternatives. A request with a retry timer is in no queue,
with no tick and with no delay timer (`RetryGone`): a tick that sets the timer
leaves the request to it (`Delays`), and what ends the timer ends the request
(`RetriesOnlyEnd`), alone or with others (`Drop`).

*The records.* `enqueue` spoils the indexes when it overwrites the record of a
request that is processing or retrying. `RecordInv` says that the record `Create`
or a delay timer is about to write is absent or has neither status; no step makes
a record of such a request anything else (`RecordsFade`), and `IndexesExact` is
inductive with it.

*The event loop.* The next three need to know when callbacks run. `OneChain`: an
unfinished turn of a timer and one of a client's call do not exist together,
which `TurnsDoNotMix` gets from the guards of the steps that begin a turn. Three
lemmas list what a step can do to one tick (`StepWorkers`), to one record
(`StepRecordsOne`) and to one entry of the tracking (`StepTracking`); each invariant
is then a case analysis over those lists and not over the actions.
`MarkInv` makes `ExecutingIsMarked` inductive: a request with a retry timer is gone
from queues and ticks for good (`RetryGone`), so the timer's `pending` hits no
processor; and between the status check of a timeout and its write there is no
tick on its way to a processor (`Expirable`). `TimerInv` says that whatever a retry timer is set for
is stored with a date that has not lapsed, and that maintenance, while it is in
its loop, has only lapsed requests left. `AnswerInv` follows a request until it is
answered: while it is queued and pending, or with a tick up to the answer of the
processor, it is tracked and its inner promise open (`LiveIsOpen`); so the success
finds somebody to hand the result to (`SuccessIsHandedOver`), before `completed` is
written.

*The breaker.* The conjunction of the four properties is inductive. The step
that carries the weight is the timer: it fires no earlier than `OpenTimeout` after
the circuit opened (`RecoveryArmed` ties the timer's age to the age of the state),
and with `MinimumCooldown <= OpenTimeout` (`RecoveryAssumption`) the change to
half-open cannot be refused. `RecordedEffect` shows that recording an outcome
keeps a suffix of the list and appends the new one.

*The shared store.* `OneOwner` and `PendingIsIndexed` need each other. A tick's write
that makes a request pending moves the id to the index only if the status it has
read was another one; `InHand` says that the record of a request with a tick or a
retry timer is not pending, which holds because those have it alone. The steps
that change only the calls are dispatched by `CallsEnd`, `CallGoesOn` and
`CallStarts`; the others have a lemma each. No bound on processes, crashes or calls
is used.

*The reliability manager.* The invariant has four layers, each inductive with the
ones before it. `AccountInv`: granting adds one to both sides of
`ThreadsAccounted`, completion takes at least as much from the left as from the
right, be the call granted or refused; the one place that accepts a call sets
promise and timer. `WaitersOK`: a call is inserted behind the last that is no less
urgent (`PlaceForProperties`), and leaves with its timer. `StartInv`: a call that has
not been made is in no queue, and who is in a queue or batch is not in execution;
so the group that is taken out is started once, and `processing` names one of a
group in execution. `LeadInv`: the leader of an endpoint is the one call that is
under way for it, so a call that joins finds a leader that will answer it.

*Deliveries.* `NothingLost` alone is not inductive: `retryDeadLetterJob` adds the
entry and removes the dead letter later, and two callers can have found the same
letter. `JobOK` says, job by job, that an accepted job has ended or has more
entries (queued copies and entries in hand, `Tokens`) than there are callers which
have added theirs and still owe a removal. The count is over bags, and the
lemmas before it say how moving one entry changes it. The bound of
`CopiesAccounted` is part of `JobOK`: a crash gives each entry in hand back once
more, so at most doubles the tokens.

*Routing and the pipeline.* `Route` is a fold over the routes. Its function is
defined over rounds, and `RecursionOnInterval` turns a property that every round
keeps into one of the result: every id in the set of running handlers is that of
a handler that runs, for this request or another (`Routable`). For
`AcknowledgedIsDelivered`, `HandingOver` says of a matched request that the results it
remembers are final, that those that are waited for are among them, and that what
succeeded is still to be handed over or is `Kept`. That what is kept stays so is
`KeptLasts`: fates only grow, and a key that is recorded has a job that asked for it
(`KeysAsked`), which goes on to be accepted or rejected and never forgotten.
`SyncsExclusive` is inductive with the types.

*The cache.* Sets, evictions, sweeps and deletions overlap in any order, so the
proof does not follow any of them: `Sound(s)` says of a store value that order,
index and sum agree with its entries, and it is shown to be kept by the few
operations on stores all of them are made of (placing an entry, deleting one,
touching, expiring, clearing), whatever key they are called with. The sum is the
cardinality of a disjoint union, so that placing an entry adds its size by the
library's theorems on finite sets. `RefreshExact` is inductive with
`TaskInv`, which says that the task of a key is a refresh and nothing else.
`WriteInv` carries the bound on delayed writes.

*Only model-checked.* The liveness properties `ShutdownReturns`, `EveryCallAnswered`,
`Recovers`, `EveryEventSettles`, `EventuallyFresh`, `CallsReturn` and `QueuedIsServed`:
fairness is about `ENABLED`, which TLAPS does not treat. So they hold for the
instances of section 3 only.

*Forms chosen for the provers.* They cannot expand `SelectSeq` or the folds of the
community modules, whose definitions are recursive operators. So filtering is
`Filter`, a recursive function; an id is taken out of an order with `RemoveFirst`,
which is given by a choice of index; sums are cardinalities (`Units`) and counts of
bags; and powers of two are the function `Doubled`.

## 5. Where code and documentation disagree

Of the queue and the breakers:

* A retried request is marked pending by its timer and put into no queue; it is
  never dispatched again (`QueueManager.ts:605`; "Automatic request retry",
  `queue/README.md:12`).
* A request set aside after a refusal and cancelled meanwhile is enqueued again by
  the delay timer's copy and executed (`QueueManager.ts:895`).
* A request that times out after it was stored leaves its caller waiting, while a
  test expects a rejection (`test/queue/QueueManager.test.ts:164`): `enqueue`'s
  promise follows the inner one by then, and nobody rejects that.
* The loop dequeues the default zone only (`QueueManager.ts:275`); the example in
  `queue/README.md:51` enqueues to `zone1`.
* A failed trial within the cool-down leaves the breaker half-open
  (`errors/CircuitBreaker.ts:328` says that any failure opens it). That of the
  retry patterns does not open again on a failed trial either.
* `maxConcurrency` is never read; overlapping ticks run any number of processors
  (`QueueTypes.ts:151`, `queue/README.md:252`).
* `enqueue` compares a size it read before an await: calls made in one turn can
  exceed `maxSize`.
* `clear(zone)` leaves the manager's tracking and timers of what it removes; a
  retry timer among them ends in an unhandled rejection. `clear()` leaves the
  callers of active requests without an answer, and keeps the zone indexes.
* `handleQueueFull` removes overage requests without telling their callers.
* A breaker with `minimumCooldown` above `openTimeout` stays open for ever; options
  are not checked.
* Redis: the dequeue script compares `tonumber` of a piece of an ISO date
  (`RedisBackend.ts:193`), so that one deferred request stops the queue. A request in
  processing when its process stops is never given out again ("survives restarts
  and outages", `queue/README.md:29`). An id can end up in two indexes, which `size()`
  counts twice, and an update of a removed request leaves a hash without an id.

Of the limiter and the reliability manager:

* Nothing serves the waiting queue (`AutotaskRateLimiter.ts:389`).
* A refused call releases another call's thread: more than the documented three
  (`rate-limiting/README.md:9`) can run.
* The request function is started before permission is asked for
  (`ProductionReliabilityManager.ts:313`) and again by the retry patterns; the
  limiter is always asked with the default priority.
* Calls share a promise by method and endpoint, whatever their data
  (`AutotaskRetryPatterns.ts:174`); `finally` on that promise makes a rejection
  nobody handles (`:185`).
* Degraded mode halves the batch size and never restores it.

Of webhooks and caches:

* Handlers that succeed in the router are executed again by the delivery; those
  that fail are not retried and not dead-lettered (`webhooks/README.md:427`).
* With the limit of handlers reached, `executeWithConcurrencyLimit` drops the promise it
  has just added instead of the one that settled (`EventRouter.ts:574`). If a result
  is missing before one that is there, `route()` throws and the event counts as not
  matched, its successful handlers included. If the missing ones are the last, it
  counts as matched: the webhook is acknowledged, and the handlers still running are
  never delivered, even when they succeed.
* The `finally` of a handler that was refused deletes the id of another execution of
  the same handler and event that still runs (`EventRouter.ts:537`).
* The key of an exactly-once delivery is recorded before the job is added
  (`DeliveryManager.ts:278`): if adding it fails, the event is lost and its redelivery
  is taken for a duplicate. Keys are forgotten on restart and beyond 10000.
  The ids `cancelJob` and `retryDeadLetterJob` are given are not those of Bull, which
  also turns the handler function into JSON. The index of the event store is kept
  in memory.
* A set that joins another set of its key drops its own value
  (`CacheManager.ts:759`); overlapping sets can exceed `maxEntries`; the flush
  deletes a newer pending value (`CacheStrategy.ts:551`).

## 6. What is not modelled, and why

* Of the modelled classes: what section 1 and `PROJECT.json` say is left out, mostly
  batches, metrics, health reports, events and registration. They change nothing
  the modelled operations read.
* `migration/core/MigrationEngine.ts`: its phases name entity types in the plural
  (`companies`) while `AutotaskClient.createEntity` accepts `Company`, so no record is
  created; `skipErrors` calls the phase again without end, checkpoints restore an
  empty object, and a paused run ends as completed. There is no working protocol
  to state properties of.
* `batching/`: `processBatch` both enqueues a batch and processes it, and the loop
  dequeues it and processes it again; requests of one turn never share a batch; a
  request added just before `shutdown` is lost. Planned, but its properties would all
  be refuted at once.
* Formatting, logging, HTTP, parsing, cryptographic signatures, file formats:
  data conversion and I/O.
* Generated entity wrappers, the command line, type declarations.
* Business rules, validation, mapping: sequential evaluation of user data.
* The other components of section 1: planned below.

## 7. Plan

1. *Done*: the queue store, the manager, the life cycle, the client breaker; the
   rate limiter under the reliability manager; webhooks from reception to delivery;
   the memory cache; the Redis store under several processes.
2. *Done*: theorems for every safety property, action property and refinement
   that a run checks. To come: abstract specifications of deliveries (an event is
   accepted, handled at least once, settled) and of the cache (a register that may
   be stale), with refinement proofs; theorems for the components of item 3.
3. `SQLiteBackend`; `CircuitBreakerManager` composed with `QueueManager` in place of the
   choice; `ZoneManager`.
4. `RequestDeduplicator`; pure algorithms against reference definitions: back-off
   delays, cascade and integrity graph walks.
