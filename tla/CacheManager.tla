---------------------------- MODULE CacheManager ----------------------------
(***************************************************************************)
(* caching/CacheManager.ts, CacheStrategy.ts and CacheInvalidator.ts over   *)
(* the memory store: reads through a cache in four strategies, background   *)
(* refreshes, delayed writes, stampede protection of direct sets, and the   *)
(* invalidation that follows a change of the data.                         *)
(*                                                                         *)
(* The cached data are versions of a source (the Autotask service), which   *)
(* changes at any time. Left out: warmup and metrics; the circuit breaker   *)
(* of CacheManager and the stampede timeout, which the memory store cannot  *)
(* set off for it neither throws nor waits.                                *)
(***************************************************************************)
EXTENDS MemoryCacheStore

CONSTANTS
    Clients,        \* calls of executeStrategy, get and set
    Dependents,     \* [Keys -> SUBSET Keys], the cascade of a change
    RuleTag,        \* [Keys -> Tags], what the rule of a key's entity type invalidates
    MaxRefresh,     \* maxConcurrentRefresh
    MaxPending,     \* maxPendingWrites
    Changing        \* keys whose data change (a bound of the model)

ASSUME ManagerAssumption ==
    /\ Versions = 0..(Cardinality(Versions) - 1) /\ 0 \in Versions
    /\ Setters = Clients \cup Keys \cup {"flush"}
    /\ Clients \cap Keys = {} /\ "flush" \notin Clients \cup Keys
    /\ Sweepers = Keys \cup {"cleanup"}
    /\ Dependents \in [Keys -> SUBSET Keys] /\ RuleTag \in [Keys -> Tags]
    /\ MaxRefresh \in Nat /\ MaxPending \in Nat

VARIABLES
    source,         \* key -> version of the data
    task,           \* setter -> what it does: a call, the refresh of a key, the flush
    refreshing,     \* refreshInProgress
    pending,        \* pendingWrites: key -> value
    flush,          \* keys the flush has still to write, with the values it took
    guard,          \* pendingRequests of CacheManager: key -> client whose set is in progress
    changed,        \* keys whose change is to be reported to the invalidator
    timers          \* keys with a delayed cascade

managerVars == <<source, task, refreshing, pending, flush, guard, changed, timers>>
vars == <<store, setting, sweep, source, task, refreshing, pending, flush, guard, changed, timers>>

Rest == [op |-> "none", step |-> "idle", key |-> Absent, value |-> Absent]

Init ==
    /\ StoreInit
    /\ source = [k \in Keys |-> 0]
    /\ task = [x \in Setters |-> Rest]
    /\ refreshing = {}
    /\ pending = [k \in Keys |-> Absent]
    /\ flush = <<>>
    /\ guard = [k \in Keys |-> Absent]
    /\ changed = {} /\ timers = {}

Does(x, o, s, k) == [task EXCEPT ![x] = [op |-> o, step |-> s, key |-> k, value |-> Absent]]
IsIdle(x) == task[x].step = "idle"
invalidation == <<changed, timers, sweep>>

(***************************************************************************)
(* executeStrategy. A miss, or forceRefresh, fetches; a hit of refresh-     *)
(* ahead, when the entry is old enough, starts a refresh in the background. *)
(***************************************************************************)
Strategies == {"lazy", "write_through", "refresh_ahead", "write_behind"}

RoomToRefreshOneMore(k) == k \notin refreshing /\ Cardinality(refreshing) <= MaxRefresh  \* mutant
RoomToRefresh(k) == k \notin refreshing /\ Cardinality(refreshing) < MaxRefresh

Call(c, strategy, k, force, old) ==
    /\ IsIdle(c)
    /\ IF force \/ strategy = "write_through" THEN UNCHANGED store ELSE store' = Got(k)
    /\ IF force \/ strategy = "write_through" \/ ~Hit(k)
       THEN /\ task' = Does(c, IF strategy = "write_behind" THEN "behind" ELSE "fetch", "fetching", k)
            /\ UNCHANGED refreshing
       ELSE IF strategy = "refresh_ahead" /\ old /\ RoomToRefresh(k)
            THEN task' = Does(k, "fetch", "fetching", k) /\ refreshing' = refreshing \cup {k}
            ELSE UNCHANGED <<task, refreshing>>
    /\ UNCHANGED <<setting, invalidation, source, pending, flush, guard>>

\* The fetcher returns what the source holds. A value for write-behind is left
\* to the flush, and replaces one that is pending; with too many pending it is
\* stored at once.
Fetched(x) ==
    LET t == task[x]
    IN  /\ t.step = "fetching"
        /\ IF t.op = "behind" /\ Cardinality({k \in Keys : pending[k] # Absent}) < MaxPending
           THEN pending' = [pending EXCEPT ![t.key] = source[t.key]] /\ task' = [task EXCEPT ![x] = Rest]
           ELSE task' = [task EXCEPT ![x].step = "storing", ![x].value = source[t.key]] /\ UNCHANGED pending
        /\ UNCHANGED <<storeVars, source, refreshing, flush, guard, changed, timers>>

\* The fetcher rejects, or the refresh runs into its timeout.
KeepsRefreshing(x) == refreshing  \* mutant
NotRefreshing(x) == refreshing \ {x}

FetchFails(x) ==
    /\ task[x].step = "fetching" /\ task[x].op # "put"
    /\ task' = [task EXCEPT ![x] = Rest]
    /\ refreshing' = NotRefreshing(x)
    /\ UNCHANGED <<storeVars, source, pending, flush, guard, changed, timers>>

(***************************************************************************)
(* set() of the manager, for a value its caller has obtained: a set of a    *)
(* key that is being set waits for that one, and its own value is dropped.  *)
(* get() waits for such a set before it looks.                             *)
(***************************************************************************)
PutBegins(c, k) ==
    /\ IsIdle(c)
    /\ task' = Does(c, "put", "fetching", k)
    /\ UNCHANGED <<storeVars, source, refreshing, pending, flush, guard, changed, timers>>

\* The store is called before the guard is up, and does its synchronous part.
PutStarts(c) ==
    LET k == task[c].key
        v == task[c].value
    IN  /\ task[c].op = "put" /\ task[c].step = "storing" /\ guard[k] = Absent
        /\ guard' = [guard EXCEPT ![k] = c]
        /\ \/ SetNow(c, k, v) /\ task' = [task EXCEPT ![c].step = "stored"]
           \/ SetEvicts(c, k, v) /\ task' = [task EXCEPT ![c].step = "evicting"]
        /\ UNCHANGED <<source, refreshing, pending, flush, changed, timers>>

PutJoins(c) ==
    /\ task[c].op = "put" /\ task[c].step = "storing" /\ guard[task[c].key] # Absent
    /\ task' = Does(c, "put", "waiting", task[c].key)
    /\ UNCHANGED <<storeVars, source, refreshing, pending, flush, guard, changed, timers>>

PutEvicts(c) ==
    /\ task[c].op = "put" /\ task[c].step = "evicting"
    /\ \/ EvictNext(c, task[c].value) /\ UNCHANGED task
       \/ SetAfterEviction(c, task[c].value) /\ task' = [task EXCEPT ![c].step = "stored"]
    /\ UNCHANGED <<source, refreshing, pending, flush, guard, changed, timers>>

Get(c, k) ==
    /\ IsIdle(c)
    /\ IF guard[k] = Absent THEN store' = Got(k) /\ UNCHANGED task
                            ELSE task' = Does(c, "get", "waiting", k) /\ UNCHANGED store
    /\ UNCHANGED <<setting, invalidation, source, refreshing, pending, flush, guard>>

\* The operation has settled: finally takes the guard away, and whoever awaited
\* it goes on.
Unguarded(c) == [k \in Keys |-> IF guard[k] = c THEN Absent ELSE guard[k]]

OnlyReturns(c) == [task EXCEPT ![c] = Rest]  \* mutant
Released(c) == [x \in Setters |->
    IF x = c THEN Rest
    ELSE IF task[x].step = "waiting" /\ task[x].key = task[c].key THEN [task[x] EXCEPT !.step = "resumed"]
    ELSE task[x]]

GuardLifted(c) ==
    /\ task[c].step = "stored"
    /\ guard' = Unguarded(c)
    /\ task' = Released(c)
    /\ UNCHANGED <<storeVars, source, refreshing, pending, flush, changed, timers>>

Resumed(c) ==
    /\ task[c].step = "resumed"
    /\ task' = [task EXCEPT ![c] = Rest]
    /\ store' = IF task[c].op = "get" THEN Got(task[c].key) ELSE store
    /\ UNCHANGED <<setting, invalidation, source, refreshing, pending, flush, guard>>

(***************************************************************************)
(* store.set and what follows it                                           *)
(***************************************************************************)
\* The flush then drops what is pending for the key, even a newer value.
WrittenAgain(x) == pending  \* mutant
Written(x) == IF x = "flush" THEN [pending EXCEPT ![task[x].key] = Absent] ELSE pending

Stored(x) ==
    /\ refreshing' = NotRefreshing(x)
    /\ pending' = Written(x)
    /\ task' = [task EXCEPT ![x] = Rest]

StoreStep(x) ==
    LET v == task[x].value
    IN  /\ task[x].step = "storing" /\ task[x].op # "put"
        /\ \/ SetNow(x, task[x].key, v) /\ Stored(x)
           \/ SetEvicts(x, task[x].key, v) /\ UNCHANGED <<refreshing, pending, task>>
           \/ EvictNext(x, v) /\ UNCHANGED <<refreshing, pending, task>>
           \/ SetAfterEviction(x, v) /\ Stored(x)
        /\ UNCHANGED <<source, flush, guard, changed, timers>>

(***************************************************************************)
(* processPendingWrites: the writes as they are when it begins, in turn     *)
(***************************************************************************)
Writes(q) == [i \in DOMAIN q |-> [key |-> q[i], value |-> pending[q[i]]]]
Writing(w) == [op |-> "flush", step |-> "storing", key |-> w.key, value |-> w.value]

Flush(todo) ==
    /\ task' = [task EXCEPT !["flush"] = Writing(Head(todo))]
    /\ flush' = Tail(todo)
    /\ UNCHANGED <<storeVars, source, refreshing, pending, guard, changed, timers>>

ProcessPendingWrites ==
    LET ks == {k \in Keys : pending[k] # Absent}
    IN  flush = <<>> /\ IsIdle("flush") /\ ks # {} /\ \E q \in SetToSeqs(ks) : Flush(Writes(q))

FlushNext == flush # <<>> /\ IsIdle("flush") /\ Flush(flush)

(***************************************************************************)
(* A change of the data, invalidateByEntityChange, and its cascade          *)
(***************************************************************************)
Change(k) ==
    /\ k \in Changing /\ source[k] + 1 \in Versions
    /\ source' = [source EXCEPT ![k] = @ + 1]
    /\ changed' = changed \cup {k}
    /\ UNCHANGED <<storeVars, task, refreshing, pending, flush, guard, timers>>

\* The rule of the entity type deletes by tag; the dependents follow on timers.
InvalidateByEntityChange(k) ==
    /\ k \in changed
    /\ changed' = changed \ {k}
    /\ DeleteMany(k, store.tagged[RuleTag[k]])
    /\ timers' = timers \cup Dependents[k]
    /\ UNCHANGED <<source, task, refreshing, pending, flush, guard>>

CascadeFires(k) ==
    /\ k \in timers
    /\ timers' = timers \ {k}
    /\ store' = Deleted(store, k)
    /\ UNCHANGED <<setting, sweep, source, task, refreshing, pending, flush, guard, changed>>

Cleanup == Expired # {} /\ DeleteMany("cleanup", Expired)

StoreOnly(A) == A /\ UNCHANGED managerVars

TaskStep(x) == Fetched(x) \/ FetchFails(x) \/ StoreStep(x)
ClientStep(c) ==
    \/ TaskStep(c) \/ Resumed(c)
    \/ PutStarts(c) \/ PutJoins(c) \/ PutEvicts(c) \/ GuardLifted(c)
FlushStep == ProcessPendingWrites \/ FlushNext \/ StoreStep("flush")

Next ==
    \/ \E c \in Clients, k \in Keys :
          \/ \E strategy \in Strategies, force, old \in BOOLEAN : Call(c, strategy, k, force, old)
          \/ PutBegins(c, k) \/ Get(c, k)
    \/ \E c \in Clients : ClientStep(c)
    \/ \E k \in Keys : TaskStep(k) \/ Change(k) \/ InvalidateByEntityChange(k) \/ CascadeFires(k)
                       \/ StoreOnly(Expires(k))
    \/ FlushStep
    \/ StoreOnly(Cleanup) \/ StoreOnly(Clear) \/ \E w \in Sweepers : StoreOnly(DeleteNext(w))

\* Promises settle, timers fire and time passes. Nothing makes a client call.
Spec == Init /\ [][Next]_vars
FairSpec ==
    /\ Spec
    /\ \A c \in Clients : WF_vars(ClientStep(c))
    /\ \A k \in Keys : WF_vars(TaskStep(k)) /\ WF_vars(StoreOnly(Expires(k)))
    /\ WF_vars(FlushStep) /\ WF_vars(StoreOnly(Cleanup))
    /\ \A w \in Sweepers : WF_vars(StoreOnly(DeleteNext(w)))

-----------------------------------------------------------------------------
TypeOK ==
    /\ StoreTypeOK
    /\ source \in [Keys -> Versions] /\ pending \in [Keys -> Versions \cup {Absent}]
    /\ guard \in [Keys -> Clients \cup {Absent}]
    /\ refreshing \subseteq Keys /\ Cardinality(refreshing) <= MaxRefresh
    /\ Cardinality({k \in Keys : pending[k] # Absent}) <= MaxPending
    /\ changed \subseteq Keys /\ timers \subseteq Keys

\* A key is marked as refreshed exactly while its refresh runs: a refresh that
\* fails or times out does not keep the key from being refreshed for ever.
RefreshExact == refreshing = {k \in Keys : ~IsIdle(k)}

\* Once the data stay as they are the cache follows: what races of fetches,
\* delayed writes and invalidations left stale goes with its time to live.
Fresh == \A k \in Present : store.entry[k].version = source[k] \/ ~store.entry[k].live
EventuallyFresh == <>[]Fresh

\* Every call of get, set and executeStrategy returns.
CallsReturn == \A c \in Clients : []<>IsIdle(c)
=============================================================================
