-------------------------- MODULE DeliveryManager --------------------------
(***************************************************************************)
(* webhooks/reliability/DeliveryManager.ts: a job per delivery in one of    *)
(* three Bull queues. A worker per queue executes the handler under a       *)
(* timeout; a failure adds the job to the retry queue, with the attempt     *)
(* counted, or to the dead letters, before the worker lets go of its own    *)
(* entry. Bull is external: an entry that is being worked on when the       *)
(* process stops is given out again.                                        *)
(*                                                                         *)
(* An entry is a record of its queue, job and attempt; the queues are a bag *)
(* of entries, for one job may be in them more than once. Priorities,       *)
(* delays, metrics and the lookup of an entry by id are left out.           *)
(***************************************************************************)
EXTENDS Integers, FiniteSets, Bags, FiniteSetsExt

CONSTANTS
    Jobs,           \* calls of deliver
    Keys, KeyOf,    \* [Jobs -> Keys], generateIdempotencyKey
    ExactlyOnce,    \* jobs delivered in the mode exactly_once
    MaxAttempts,
    KeyLimit,       \* size beyond which cleanup clears the idempotency cache (10000)
    DeadKept,       \* dead letters Bull keeps once they are "processed" (removeOnComplete: 1000)
    Admins,         \* callers of retryDeadLetterJob
    MaxRequeues, MaxCrashes,    \* bounds of the model
    None

ASSUME DeliveryAssumption ==
    /\ KeyOf \in [Jobs -> Keys] /\ ExactlyOnce \subseteq Jobs
    /\ MaxAttempts \in Nat \ {0} /\ KeyLimit \in Nat /\ DeadKept \in Nat
    /\ MaxRequeues \in Nat /\ MaxCrashes \in Nat

VARIABLES
    waiting,    \* bag of the entries in the three queues
    working,    \* worker -> the entry it works on, and the entry it is adding
    adding,     \* jobs deliver() is adding to the main queue
    fate,       \* job -> what became of its entries
    keys,       \* idempotencyCache
    requeue,    \* admin -> the dead letter it is putting back
    requeued,   \* job -> number of entries put back from the dead letters
    crashes

deliveryVars == <<waiting, working, adding, fate, keys, requeue, requeued, crashes>>

Workers == {"main", "retry"}
Entry == [queue : {"main", "retry", "dead"}, job : Jobs, attempt : 1..MaxAttempts]
First(j) == [queue |-> "main", job |-> j, attempt |-> 1]
ASSUME NoneIsNoEntry == None \notin Entry
Idle == [entry |-> None, successor |-> None]
NoRequeue == [entry |-> None, added |-> FALSE]

DeliveryInit ==
    /\ waiting = EmptyBag
    /\ working = [w \in Workers |-> Idle]
    /\ adding = {}
    /\ fate = [j \in Jobs |-> {}]
    /\ keys = {}
    /\ requeue = [a \in Admins |-> NoRequeue]
    /\ requeued = [j \in Jobs |-> 0]
    /\ crashes = 0

Becomes(j, f) == [fate EXCEPT ![j] = @ \cup {f}]

(***************************************************************************)
(* deliver: the key of an exactly-once delivery is recorded before the job  *)
(* is added, and stays recorded when that fails.                            *)
(***************************************************************************)
Duplicate(j) == j \in ExactlyOnce /\ KeyOf[j] \in keys

Deliver(j) ==
    /\ j \notin adding /\ fate[j] = {}
    /\ IF Duplicate(j)
       THEN fate' = Becomes(j, "suppressed") /\ UNCHANGED <<adding, keys>>
       ELSE /\ adding' = adding \cup {j}
            /\ keys' = IF j \in ExactlyOnce THEN keys \cup {KeyOf[j]} ELSE keys
            /\ UNCHANGED fate
    /\ UNCHANGED <<waiting, working, requeue, requeued, crashes>>

\* The add reaches Redis, or fails: deliver resolves or rejects.
DeliverEnds(j, added) ==
    /\ j \in adding
    /\ adding' = adding \ {j}
    /\ fate' = Becomes(j, IF added THEN "accepted" ELSE "rejected")
    /\ waiting' = IF added THEN waiting (+) SetToBag({First(j)}) ELSE waiting
    /\ UNCHANGED <<working, keys, requeue, requeued, crashes>>

(***************************************************************************)
(* processDelivery, processRetry                                           *)
(***************************************************************************)
Take(w) ==
    /\ working[w].entry = None
    /\ \E x \in BagToSet(waiting) :
          /\ x.queue = w
          /\ working' = [working EXCEPT ![w].entry = x]
          /\ waiting' = waiting (-) SetToBag({x})
    /\ UNCHANGED <<adding, fate, keys, requeue, requeued, crashes>>

InHand(w) == working[w].entry # None /\ working[w].successor = None

\* Bull keeps a job as JSON, in which the function of its handler is lost, so
\* that over a real queue every attempt fails; the outcome is kept for jobs
\* whose handler survives.
HandlerSucceeds(w) ==
    /\ InHand(w)
    /\ fate' = Becomes(working[w].entry.job, "completed")
    /\ working' = [working EXCEPT ![w] = Idle]
    /\ UNCHANGED <<waiting, adding, keys, requeue, requeued, crashes>>

\* handleDeliveryFailure: a failure the policy retries while attempts are left
RetryForNext(x) == [queue |-> "retry", job |-> x.job, attempt |-> 2]  \* mutant
RetryFor(x) == [queue |-> "retry", job |-> x.job, attempt |-> x.attempt + 1]
LetterFor(x) == [x EXCEPT !.queue = "dead"]
AttemptsLeftIncluding(x) == x.attempt <= MaxAttempts  \* mutant
AttemptsLeft(x) == x.attempt < MaxAttempts

HandlerFailsQuietly(w, retryable) ==  \* mutant
    LET x == working[w].entry
    IN  /\ InHand(w)
        /\ working' = [working EXCEPT ![w] =
              IF retryable /\ AttemptsLeft(x) THEN [@ EXCEPT !.successor = RetryFor(x)] ELSE Idle]
        /\ UNCHANGED <<waiting, adding, fate, keys, requeue, requeued, crashes>>
HandlerFails(w, retryable) ==
    LET x == working[w].entry
    IN  /\ InHand(w)
        /\ working' = [working EXCEPT ![w].successor =
              IF retryable /\ AttemptsLeft(x) THEN RetryFor(x) ELSE LetterFor(x)]
        /\ UNCHANGED <<waiting, adding, fate, keys, requeue, requeued, crashes>>

\* The successor is added, and the job fails without another attempt of Bull's
\* own (attempts: 1); or adding it fails, and the job fails for good.
ReleasedAndRetried(w) == [working EXCEPT ![w].successor = None]  \* mutant
Released(w) == [working EXCEPT ![w] = Idle]

SuccessorAdded(w, added) ==
    /\ working[w].successor # None
    /\ working' = Released(w)
    /\ waiting' = IF added THEN waiting (+) SetToBag({working[w].successor}) ELSE waiting
    /\ fate' = IF added THEN fate ELSE Becomes(working[w].entry.job, "dropped")
    /\ UNCHANGED <<adding, keys, requeue, requeued, crashes>>

(***************************************************************************)
(* The dead letters: their processor only logs, so they count as completed, *)
(* of which Bull keeps DeadKept. retryDeadLetterJob puts one back.          *)
(***************************************************************************)
DeadLetters == {x \in BagToSet(waiting) : x.queue = "dead"}

DeadLetterEvicted ==
    /\ FoldSet(LAMBDA x, n : n + waiting[x], 0, DeadLetters) > DeadKept
    /\ \E x \in DeadLetters :
          /\ waiting' = waiting (-) SetToBag({x})
          /\ fate' = Becomes(x.job, "evicted")
    /\ UNCHANGED <<working, adding, keys, requeue, requeued, crashes>>

RequeueFound(a) ==
    /\ requeue[a].entry = None
    /\ \E x \in DeadLetters :
          /\ requeued[x.job] < MaxRequeues
          /\ requeue' = [requeue EXCEPT ![a].entry = x]
    /\ UNCHANGED <<waiting, working, adding, fate, keys, requeued, crashes>>

WithRequeued(a) == waiting (+) SetToBag({First(requeue[a].entry.job)})

RequeueAdded(a) ==
    /\ requeue[a].entry # None /\ ~requeue[a].added
    /\ requeued[requeue[a].entry.job] < MaxRequeues
    /\ waiting' = WithRequeued(a)
    /\ requeue' = [requeue EXCEPT ![a].added = TRUE]
    /\ requeued' = [requeued EXCEPT ![requeue[a].entry.job] = @ + 1]
    /\ UNCHANGED <<working, adding, fate, keys, crashes>>

\* The letter is removed, whoever removed it before; or a call to Redis
\* fails and the promise resolves to false.
RequeueEnds(a, removed) ==
    /\ requeue[a].entry # None /\ (removed => requeue[a].added)
    /\ waiting' = IF removed THEN waiting (-) SetToBag({requeue[a].entry}) ELSE waiting
    /\ requeue' = [requeue EXCEPT ![a] = NoRequeue]
    /\ UNCHANGED <<working, adding, fate, keys, requeued, crashes>>

\* cancelJob removes a waiting entry of the main or the retry queue.
CancelJob(x) ==
    /\ BagIn(x, waiting) /\ x.queue # "dead"
    /\ waiting' = waiting (-) SetToBag({x})
    /\ fate' = Becomes(x.job, "cancelled")
    /\ UNCHANGED <<working, adding, keys, requeue, requeued, crashes>>

\* cleanup
ClearKeys ==
    /\ Cardinality(keys) > KeyLimit
    /\ keys' = {}
    /\ UNCHANGED <<waiting, working, adding, fate, requeue, requeued, crashes>>

\* The process stops and starts again: what was being added may have landed or
\* not, entries in hand are given out again, and the keys are forgotten.
GivenOutAgain == SetToBag({working[w].entry : w \in Workers} \ {None})

DeliveryCrash ==
    /\ crashes < MaxCrashes
    /\ crashes' = crashes + 1
    /\ \E landed \in SUBSET adding, passed \in SUBSET {w \in Workers : working[w].successor # None} :
          /\ waiting' = waiting (+) GivenOutAgain (+) SetToBag({First(j) : j \in landed})
                                (+) SetToBag({working[w].successor : w \in passed})
          /\ fate' = [j \in Jobs |-> IF j \notin adding THEN fate[j]
                                     ELSE {IF j \in landed THEN "accepted" ELSE "rejected"}]
    /\ working' = [w \in Workers |-> Idle]
    /\ adding' = {}
    /\ keys' = {}
    /\ requeue' = [a \in Admins |-> NoRequeue]
    /\ UNCHANGED requeued

WorkerStep(w) ==
    \/ Take(w) \/ HandlerSucceeds(w)
    \/ \E retryable \in BOOLEAN : HandlerFails(w, retryable)
    \/ \E added \in BOOLEAN : SuccessorAdded(w, added)

QueueStep ==
    \/ \E w \in Workers : WorkerStep(w)
    \/ \E a \in Admins : RequeueFound(a) \/ RequeueAdded(a) \/ \E removed \in BOOLEAN : RequeueEnds(a, removed)
    \/ \E x \in BagToSet(waiting) : CancelJob(x)
    \/ DeadLetterEvicted \/ ClearKeys

DeliveryNext ==
    \/ \E j \in Jobs : Deliver(j) \/ \E added \in BOOLEAN : DeliverEnds(j, added)
    \/ QueueStep \/ DeliveryCrash

\* Bull gives every waiting entry out, and a handler answers or runs into its
\* timeout.
DeliverySpec ==
    /\ DeliveryInit /\ [][DeliveryNext]_deliveryVars
    /\ \A w \in Workers : WF_deliveryVars(WorkerStep(w))

-----------------------------------------------------------------------------
InHandFor(j) == {w \in Workers : working[w].entry # None /\ working[w].entry.job = j}
\* The copies of the entries of a job in the queues, numbered.
CopiesFor(j, B) == UNION {{x} \X (1..B[x]) : x \in {y \in BagToSet(B) : y.job = j}}
QueuedFor(j) == Cardinality(CopiesFor(j, waiting))

DeliveryTypeOK ==
    /\ IsABag(waiting) /\ BagToSet(waiting) \subseteq Entry
    /\ working \in [Workers -> [entry : Entry \cup {None}, successor : Entry \cup {None}]]
    /\ adding \subseteq Jobs /\ keys \subseteq Keys
    /\ fate \in [Jobs -> SUBSET {"accepted", "rejected", "suppressed", "completed", "cancelled", "dropped", "evicted"}]
    /\ requeue \in [Admins -> [entry : Entry \cup {None}, added : BOOLEAN]]
    /\ \A x \in BagToSet(waiting) : (x.queue = "main") => (x.attempt = 1)
    /\ \A x \in BagToSet(waiting) : (x.queue = "retry") => (x.attempt > 1)

\* An event that deliver() accepted is in a queue or in hand until it was
\* handled, cancelled, or dropped because Redis refused it; crashes between
\* two steps, double requeues and cancellations lose none.
NothingLost ==
    \A j \in Jobs : "accepted" \in fate[j] =>
        \/ fate[j] \cap {"completed", "cancelled", "dropped", "evicted"} # {}
        \/ InHandFor(j) # {} \/ QueuedFor(j) > 0

\* A job is never in the queues more often than its requeues and the crashes
\* account for: a retry replaces the entry that failed.
Doubled[n \in 0..MaxCrashes] == IF n = 0 THEN 1 ELSE 2 * Doubled[n - 1]
CopiesAccounted ==
    \A j \in Jobs : QueuedFor(j) + Cardinality(InHandFor(j)) <= (1 + requeued[j]) * Doubled[crashes]

\* An accepted event does not stay between the queues: it reaches a dead letter
\* or an end, whatever the handlers do.
Settled(j) == fate[j] \cap {"completed", "cancelled", "dropped", "evicted"} # {}
              \/ \E x \in DeadLetters : x.job = j
EveryEventSettles == \A j \in Jobs : "accepted" \in fate[j] ~> Settled(j)
=============================================================================
