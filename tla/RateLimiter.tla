---------------------------- MODULE RateLimiter ----------------------------
(***************************************************************************)
(* rate-limiting/AutotaskRateLimiter.ts: an hourly allowance, and for every *)
(* endpoint a number of threads. A call that finds no room waits in a queue *)
(* ordered by priority. A thread is given back by endpoint, not by the id   *)
(* it was taken under: notifyRequestComplete deletes the oldest id of the   *)
(* endpoint whoever completes. Ids are fresh and nothing else reads them,   *)
(* so the set of ids of an endpoint is modelled by its size.                *)
(*                                                                         *)
(* processQueue, the only code that would serve the waiting queue, runs     *)
(* once, from the constructor, on an empty queue, and does not schedule     *)
(* itself again: no action serves the queue.                                *)
(***************************************************************************)
EXTENDS Integers, Sequences, SequencesExt, FiniteSets

CONSTANTS
    Calls,          \* calls of requestPermission by clients in progress
    Endpoints,
    EndpointOf,     \* [Calls -> Endpoints]
    PriorityOf,     \* [Calls -> Int]
    ThreadLimit,    \* threadLimitPerEndpoint
    MaxWaiting      \* maxQueueSize

ASSUME LimiterAssumption ==
    /\ IsFiniteSet(Calls)
    /\ EndpointOf \in [Calls -> Endpoints]
    /\ PriorityOf \in [Calls -> Int]
    /\ ThreadLimit \in Nat \ {0}
    /\ MaxWaiting \in Nat

VARIABLES
    permit,     \* call -> what the promise of requestPermission is
    threads,    \* endpointThreads: endpoint -> number of ids held
    waiting,    \* requestQueue
    admitting   \* less than the hourly limit is used and the zone is healthy

limiterVars == <<permit, threads, waiting, admitting>>

LimiterInit ==
    /\ permit = [c \in Calls |-> "none"]
    /\ threads = [e \in Endpoints |-> 0]
    /\ waiting = <<>>
    /\ admitting = TRUE

(***************************************************************************)
(* requestPermission                                                       *)
(***************************************************************************)
CanProceedPastLimit(e) == admitting /\ threads[e] <= ThreadLimit  \* mutant
CanProceed(e) == admitting /\ threads[e] < ThreadLimit

Grant(c) ==
    /\ CanProceed(EndpointOf[c])
    /\ permit' = [permit EXCEPT ![c] = "granted"]
    /\ threads' = [threads EXCEPT ![EndpointOf[c]] = @ + 1]
    /\ UNCHANGED waiting

Refuse(c) ==
    /\ ~CanProceed(EndpointOf[c])
    /\ Len(waiting) >= MaxWaiting
    /\ permit' = [permit EXCEPT ![c] = "refused"]
    /\ UNCHANGED <<threads, waiting>>

\* Before the first waiting call of a lower priority.
PlaceFor(c, q, priority) ==
    LET Lower == {i \in DOMAIN q : priority[q[i]] < priority[c]}
    IN  IF Lower = {} THEN Len(q) + 1 ELSE CHOOSE i \in Lower : \A j \in Lower : i <= j

Wait(c) ==
    /\ ~CanProceed(EndpointOf[c])
    /\ Len(waiting) < MaxWaiting
    /\ permit' = [permit EXCEPT ![c] = "waiting"]
    /\ waiting' = InsertAt(waiting, PlaceFor(c, waiting, PriorityOf), c)
    /\ UNCHANGED <<threads>>

RequestPermission(c) ==
    /\ permit[c] = "none"
    /\ Grant(c) \/ Refuse(c) \/ Wait(c)
    /\ UNCHANGED admitting

\* The timer of a waiting call.
TimesOutInPlace(c) ==  \* mutant
    /\ permit[c] = "waiting"
    /\ permit' = [permit EXCEPT ![c] = "refused"]
    /\ UNCHANGED <<threads, waiting, admitting>>
PermissionTimesOut(c) ==
    /\ permit[c] = "waiting"
    /\ permit' = [permit EXCEPT ![c] = "refused"]
    /\ waiting' = RemoveFirst(waiting, c)
    /\ UNCHANGED <<threads, admitting>>

(***************************************************************************)
(* notifyRequestComplete, called once by every client whose permission was *)
(* granted or refused                                                      *)
(***************************************************************************)
NotifyUnheard(c) ==  \* mutant
    /\ permit[c] \in {"granted", "refused"}
    /\ permit' = [permit EXCEPT ![c] = "none"]
    /\ UNCHANGED <<threads, waiting, admitting>>
NotifyRequestComplete(c) ==
    /\ permit[c] \in {"granted", "refused"}
    /\ permit' = [permit EXCEPT ![c] = "none"]
    /\ threads' = [threads EXCEPT ![EndpointOf[c]] = IF @ > 0 THEN @ - 1 ELSE 0]
    /\ UNCHANGED <<waiting, admitting>>

\* The hour's allowance is used up, its window slides, or updateZoneHealth
\* reports the zone as down or as up again.
AllowanceChanges ==
    /\ admitting' = ~admitting
    /\ UNCHANGED <<permit, threads, waiting>>

-----------------------------------------------------------------------------
Waiting == {c \in Calls : permit[c] = "waiting"}
Running(e) == {c \in Calls : permit[c] = "granted" /\ EndpointOf[c] = e}

LimiterTypeOK ==
    /\ permit \in [Calls -> {"none", "waiting", "granted", "refused"}]
    /\ threads \in [Endpoints -> 0..ThreadLimit]
    /\ waiting \in Seq(Calls)
    /\ admitting \in BOOLEAN

\* Every id the limiter holds belongs to a granted call that has not
\* completed, one each: a thread is never leaked, whichever calls fail, time
\* out while they wait, or complete in another order than they began.
ThreadsAccounted == \A e \in Endpoints : threads[e] <= Cardinality(Running(e))

\* The waiting queue lists the calls that wait, once each and the urgent ones
\* first, through timeouts in any order.
WaitingQueueExact ==
    /\ ToSet(waiting) = Waiting
    /\ IsInjective(waiting)
    /\ \A i, j \in DOMAIN waiting : i < j => PriorityOf[waiting[i]] >= PriorityOf[waiting[j]]
=============================================================================
