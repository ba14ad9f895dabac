---------------------------- MODULE RedisBackend ----------------------------
(***************************************************************************)
(* queue/backends/RedisBackend.ts under several QueueManager processes that *)
(* share one Redis and may crash. A Redis command, a MULTI and the dequeue   *)
(* script are one step each; everything else is two round trips or more,    *)
(* and any other process may act in between. A call in flight is a record:  *)
(* who makes it, for which request, and what it has read so far. A crash    *)
(* takes the calls and the timers of its process, the store stays.          *)
(*                                                                         *)
(* One zone and one priority, hence one sorted set: Rank is its order. The   *)
(* TTL of a record (its timeout and an hour), batches, clear() and the       *)
(* callers' promises are left out.                                          *)
(***************************************************************************)
EXTENDS Integers, FiniteSets

CONSTANTS
    Ids,
    Managers,       \* QueueManager processes; a bound: each has one tick at a time
    Callers,        \* those of them that requests are given to
    Rank,           \* [Ids -> Nat], order of the scores
    Window,         \* ids the script looks at (100)
    Dated,          \* requests that may be given a date
    Timed,          \* requests whose timeout may pass
    Retryable,      \* requests with a retry left
    MaxCalls,       \* bounds of the model: cancellations, sweeps, clear(zone) and maintenance() calls,
    MaxCrashes      \* and crashes

ASSUME RedisAssumption ==
    /\ Rank \in [Ids -> Nat] /\ \A i, j \in Ids : Rank[i] = Rank[j] => i = j
    /\ Window \in Nat \ {0} /\ Callers \subseteq Managers
    /\ Dated \subseteq Ids /\ Timed \subseteq Ids /\ Retryable \subseteq Ids
    /\ MaxCalls \in Nat /\ MaxCrashes \in Nat

VARIABLES
    hash,           \* the records; one that is not whole has lost its fields
    pqueue,         \* ids in the sorted set
    statusIndex,    \* status -> ids in its set
    calls,          \* calls in flight and timers of all the processes
    submitted,      \* ids that were enqueued by a caller
    made, crashes   \* cancellations and other calls made, and crashes

vars == <<hash, pqueue, statusIndex, calls, submitted, made, crashes>>

Statuses == {"pending", "processing", "completed", "failed", "retrying", "cancelled", "expired"}
Record == [whole : BOOLEAN, status : Statuses, scheduled : BOOLEAN]
Gone == [whole |-> FALSE, status |-> "none", scheduled |-> FALSE]

\* What a call does, for which request and process, how far it is, the status
\* it will write and the one it has read.
Call == [kind : {"work", "timeout", "retry", "defer", "cancel", "sweep", "clear", "maintain"},
         id : Ids \cup {"none"}, by : Managers,
         step : {"waiting", "fetching", "executing", "reading", "writing", "listed",
                 "erasing", "deleting"},
         to : Statuses \cup {"none"}, seen : Statuses \cup {"none"}]

Started(kind, id, m, step, to) ==
    [kind |-> kind, id |-> id, by |-> m, step |-> step, to |-> to, seen |-> "none"]

Init ==
    /\ hash = [id \in Ids |-> Gone]
    /\ pqueue = {}
    /\ statusIndex = [s \in Statuses |-> {}]
    /\ calls = {}
    /\ submitted = {}
    /\ made = 0 /\ crashes = 0

\* getRequest finds a record by its id field; exists() by its key.
Whole(id) == hash[id].whole
Moved(id, from, to) ==
    [s \in Statuses |-> IF s = to THEN statusIndex[s] \cup {id}
                        ELSE IF s = from THEN statusIndex[s] \ {id} ELSE statusIndex[s]]
Becomes(c, step) == calls' = (calls \ {c}) \cup {[c EXCEPT !.step = step]}
Ends(c) == calls' = calls \ {c}
\* cleanupRequest: the process forgets the timer of the request. A retry has
\* taken the place of the timeout, which then no longer does anything.
Forgotten(id, m) ==
    {c \in calls : c.by = m /\ c.id = id /\ c.step = "waiting" /\ c.kind \in {"timeout", "retry"}}

\* enqueue: one MULTI
Enqueued(id, scheduled) ==
    /\ hash' = [hash EXCEPT ![id] = [whole |-> TRUE, status |-> "pending", scheduled |-> scheduled]]
    /\ pqueue' = pqueue \cup {id}
    /\ statusIndex' = Moved(id, "none", "pending")

Submit(m, id, scheduled) ==
    /\ id \notin submitted
    /\ scheduled => id \in Dated
    /\ submitted' = submitted \cup {id}
    /\ Enqueued(id, scheduled)
    /\ calls' = calls \cup {Started("timeout", i, m, "waiting", "expired") : i \in {id} \cap Timed}
    /\ UNCHANGED <<made, crashes>>

\* The script of dequeue takes the first pending id of the window. It fails,
\* and takes nothing, on one that has a date: tonumber gives nil.
First(n, S) == {id \in S : Cardinality({j \in S : Rank[j] < Rank[id]}) < n}
\* mutant
FoundAtHead == {id \in First(1, pqueue) : hash[id].status = "pending"}
Found == First(1, {id \in First(Window, pqueue) : hash[id].status = "pending"})

Idle(m) == \A c \in calls : ~(c.kind = "work" /\ c.by = m)

\* mutant
TakeUnmarked(m) ==
    /\ Idle(m)
    /\ \E id \in Found :
        /\ ~hash[id].scheduled
        /\ calls' = calls \cup {Started("work", id, m, "fetching", "processing")}
    /\ UNCHANGED <<hash, statusIndex, pqueue, submitted, made, crashes>>

Take(m) ==
    /\ Idle(m)
    /\ \E id \in Found :
        /\ ~hash[id].scheduled
        /\ pqueue' = pqueue \ {id}
        /\ hash' = [hash EXCEPT ![id].status = "processing"]
        /\ statusIndex' = Moved(id, "pending", "processing")
        /\ calls' = calls \cup {Started("work", id, m, "fetching", "processing")}
    /\ UNCHANGED <<submitted, made, crashes>>

\* What follows the script: getRequest, then the circuit breaker, which may
\* have the request set aside instead.
Fetch(c) ==
    /\ c.step = "fetching"
    /\ IF Whole(c.id)
       THEN \E to \in {"processing", "pending"} :
                calls' = (calls \ {c}) \cup {[c EXCEPT !.step = "reading", !.to = to]}
       ELSE Ends(c)
    /\ UNCHANGED <<hash, pqueue, statusIndex, submitted, made, crashes>>

(***************************************************************************)
(* updateRequest: exists and getRequest, then one MULTI that moves the id    *)
(* from the status it has read. A tick whose processor is done reads at once *)
(* to write the outcome.                                                   *)
(***************************************************************************)
Outcomes(id) == {"completed"} \cup IF id \in Retryable THEN {"retrying"} ELSE {"failed"}
Targets(c) == IF c.step = "executing" THEN Outcomes(c.id) ELSE {c.to}
Reads(c) ==
    /\ c.step \in {"reading", "executing"}
    /\ IF Whole(c.id)
       THEN \E to \in Targets(c) :
                calls' = (calls \ {c}) \cup
                         {[c EXCEPT !.step = "writing", !.to = to, !.seen = hash[c.id].status]}
       ELSE Ends(c)
    /\ UNCHANGED <<hash, pqueue, statusIndex, submitted, made, crashes>>

\* What goes on once the update is done.
Follows(c) ==
    CASE c.kind = "work" /\ c.to = "processing" -> {[c EXCEPT !.step = "executing", !.seen = "none"]}
      [] c.kind = "work" /\ c.to = "pending" -> {Started("defer", c.id, c.by, "waiting", "pending")}
      [] c.kind = "work" /\ c.to = "retrying" -> {Started("retry", c.id, c.by, "waiting", "pending")}
      [] OTHER -> {}
CleansUp(c) == c.to \in {"completed", "failed", "cancelled", "expired"}

\* mutant
IndexOfQueued(c) == IF c.seen # "pending" THEN statusIndex ELSE Moved(c.id, c.seen, c.to)
WriteIndex(c) == IF c.seen = c.to THEN statusIndex ELSE Moved(c.id, c.seen, c.to)

\* A deferral and a retry also write a date.
Dates(c) == c.kind = "work" /\ c.to \in {"pending", "retrying"}
Written(c) ==
    LET r == hash[c.id]
    IN  [whole |-> r.whole, status |-> c.to, scheduled |-> r.scheduled \/ Dates(c)]

Writes(c) ==
    /\ c.step = "writing"
    /\ hash' = [hash EXCEPT ![c.id] = Written(c)]
    /\ statusIndex' = WriteIndex(c)
    /\ calls' = ((calls \ {c}) \cup Follows(c)) \ IF CleansUp(c) THEN Forgotten(c.id, c.by) ELSE {}
    /\ UNCHANGED <<pqueue, submitted, made, crashes>>

\* The timers: the timeout expires a request it finds pending, the retry makes
\* it pending without a place in the queue, the delay of the breaker enqueues
\* the copy its process has kept.
Expire(c) ==
    /\ c.kind = "timeout" /\ c.step = "waiting"
    /\ IF Whole(c.id) /\ hash[c.id].status = "pending" THEN Becomes(c, "reading") ELSE Ends(c)
    /\ UNCHANGED <<hash, pqueue, statusIndex, submitted, made, crashes>>

Retry(c) ==
    /\ c.kind = "retry" /\ c.step = "waiting"
    /\ Becomes(c, "reading")
    /\ UNCHANGED <<hash, pqueue, statusIndex, submitted, made, crashes>>

Defer(c) ==
    /\ c.kind = "defer" /\ c.step = "waiting"
    /\ Enqueued(c.id, TRUE)
    /\ Ends(c)
    /\ UNCHANGED <<submitted, made, crashes>>

Makes(c) == made < MaxCalls /\ made' = made + 1 /\ calls' = calls \cup {c}

Cancel(m, id) ==
    /\ Whole(id) /\ hash[id].status \notin {"completed", "failed"}
    /\ Makes(Started("cancel", id, m, "reading", "cancelled"))
    /\ UNCHANGED <<hash, pqueue, statusIndex, submitted, crashes>>

\* The sweep of a full queue lists what the indexes call pending or retrying,
\* clear(zone) what the zone holds; both remove the listed requests one by one.
List(m, kind, id) ==
    /\ Whole(id)
    /\ kind = "sweep" => id \in statusIndex["pending"] \cup statusIndex["retrying"]
    /\ Makes(Started(kind, id, m, "listed", "none"))
    /\ UNCHANGED <<hash, pqueue, statusIndex, submitted, crashes>>

RemoveReads(c) ==
    /\ c.step = "listed"
    /\ IF Whole(c.id)
       THEN calls' = (calls \ {c}) \cup {[c EXCEPT !.step = "erasing", !.seen = hash[c.id].status]}
       ELSE Ends(c)
    /\ UNCHANGED <<hash, pqueue, statusIndex, submitted, made, crashes>>

RemoveWrites(c) ==
    /\ c.step = "erasing"
    /\ hash' = [hash EXCEPT ![c.id] = Gone]
    /\ pqueue' = pqueue \ {c.id}
    /\ statusIndex' = Moved(c.id, c.seen, "none")
    /\ calls' = (calls \ {c}) \ IF c.kind = "sweep" THEN Forgotten(c.id, c.by) ELSE {}
    /\ UNCHANGED <<submitted, made, crashes>>

\* maintenance() counts the queue and deletes it if the count was zero.
Count(m) ==
    /\ pqueue = {}
    /\ Makes(Started("maintain", "none", m, "deleting", "none"))
    /\ UNCHANGED <<hash, pqueue, statusIndex, submitted, crashes>>

DeleteQueue(c) ==
    /\ c.step = "deleting"
    /\ pqueue' = {}
    /\ Ends(c)
    /\ UNCHANGED <<hash, statusIndex, submitted, made, crashes>>

Crash(m) ==
    /\ crashes < MaxCrashes
    /\ crashes' = crashes + 1
    /\ calls' = {c \in calls : c.by # m}
    /\ UNCHANGED <<hash, pqueue, statusIndex, submitted, made>>

Proceeds(c) ==
    \/ Fetch(c) \/ Reads(c) \/ Writes(c)
    \/ Expire(c) \/ Retry(c) \/ Defer(c)
    \/ RemoveReads(c) \/ RemoveWrites(c) \/ DeleteQueue(c)

Next ==
    \/ \E m \in Callers, id \in Ids :
            \/ \E scheduled \in BOOLEAN : Submit(m, id, scheduled)
            \/ Cancel(m, id)
            \/ \E kind \in {"sweep", "clear"} : List(m, kind, id)
    \/ \E m \in Managers : Take(m) \/ Count(m) \/ Crash(m)
    \/ \E c \in calls : Proceeds(c)

Spec == Init /\ [][Next]_vars

\* The processes are restarted and tick; nothing else needs to happen.
FairSpec ==
    /\ Spec
    /\ \A m \in Managers : /\ WF_vars(Take(m))
                           /\ WF_vars(\E c \in calls : c.by = m /\ Proceeds(c))
-----------------------------------------------------------------------------
RedisTypeOK ==
    /\ hash \in [Ids -> Record \cup {Gone}]
    /\ pqueue \subseteq Ids /\ submitted \subseteq Ids
    /\ statusIndex \in [Statuses -> SUBSET Ids]
    /\ calls \subseteq Call
    /\ \A c \in calls : c.step \in {"writing", "erasing"} => c.seen \in Statuses
    /\ made \in 0..MaxCalls /\ crashes \in 0..MaxCrashes

\* Across processes, crashes and racing updates a request has one owner: its
\* queue, one tick, or one delay or retry timer.
Owners(id) == {c \in calls : c.id = id /\ c.kind \in {"work", "defer", "retry"}}
OneOwner ==
    \A id \in Ids :
        /\ \A c, d \in Owners(id) : c = d
        /\ id \in pqueue => Owners(id) = {}

\* Racing updates leave ids in two indexes or in a wrong one, but a pending
\* record is always in the index that size() and the sweep read.
PendingIsIndexed ==
    \A id \in Ids : Whole(id) /\ hash[id].status = "pending" => id \in statusIndex["pending"]

\* A queued request outlives the process that accepted it: another one takes
\* it, unless a request with a date blocks the script before it, or a
\* maintenance() that saw the queue empty deletes it.
Queued(id) == id \in pqueue /\ hash[id].status = "pending" /\ ~hash[id].scheduled
Blocked(id) == \E j \in pqueue : Rank[j] < Rank[id] /\ hash[j].status = "pending" /\ hash[j].scheduled
QueuedIsServed == \A id \in Ids : Queued(id) ~> (~Queued(id) \/ Blocked(id))
=============================================================================
