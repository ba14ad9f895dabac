--------------------------- MODULE MemoryBackend ---------------------------
(***************************************************************************)
(* The in-memory store of the request queue                                *)
(* (src/queue/backends/MemoryBackend.ts).                                  *)
(*                                                                         *)
(* Every public method of the class is declared async but touches the maps *)
(* before its first await, so one call is one action; the exceptions are   *)
(* clear(zone) and maintenance(), which await one remove() per request and *)
(* are modelled as loops that other calls may interleave with.             *)
(*                                                                         *)
(* A JavaScript Set iterates in insertion order, so a priority queue is a  *)
(* sequence without duplicates.  A priority queue that is missing from the *)
(* Map and an empty one are the same value here: no method tells them      *)
(* apart, and pruning empty ones (maintenance, lines 578-591) is a no-op.  *)
(* Time is abstracted to the phase of scheduledAt.  Batches, metrics,      *)
(* peek and the fingerprint map, which is written and never read, are left *)
(* out.                                                                    *)
(***************************************************************************)
EXTENDS Naturals, Sequences, FiniteSets, SequencesExt

CONSTANTS
    Ids,          \* request ids
    Zones,        \* zones requests name
    Priorities,   \* priorities requests are given
    ZoneOf,       \* the zone of each request
    PriorityOf,   \* the priority of each request
    NoRequest,    \* "the Map has no such key"
    ClientStatuses, ClientPhases  \* what the client of BackendNext passes

Statuses == {"pending", "processing", "completed", "failed", "retrying",
             "expired", "cancelled", "deferred"}

(* scheduledAt, relative to the clock: undefined; later than now; passed;  *)
(* passed by more than the timeout of the request.                         *)
Phases == {"none", "future", "due", "lapsed"}

(* The fields of a stored request that a method reads or changes.          *)
Request == [status : Statuses, scheduledAt : Phases, retryCount : Nat]

ASSUME PlacementAssumption ==
    /\ ZoneOf \in [Ids -> Zones]
    /\ PriorityOf \in [Ids -> Priorities]
    /\ Priorities \subseteq Nat

ASSUME ClientAssumption ==
    /\ ClientStatuses \subseteq Statuses
    /\ ClientPhases \subseteq Phases

ASSUME NoRequestAssumption == NoRequest \notin Request

VARIABLES
    requests,        \* requests: the stored record of each id
    priorityQueues,  \* priorityQueues: zone -> priority -> ids, oldest first
    statusIndexes,   \* statusIndexes: status -> ids
    zoneIndexes,     \* zoneIndexes: zone -> ids
    doomed           \* ids a running clear(zone) or maintenance() has yet to
                     \* remove: the expired and requestIds snapshots

backendVars == <<requests, priorityQueues, statusIndexes, zoneIndexes, doomed>>

Loops == {"clear", "maintenance"}

Stored(id) == requests[id] # NoRequest
HasStatus(id, status) == Stored(id) /\ requests[id].status = status
QueueOf(id) == priorityQueues[ZoneOf[id]][PriorityOf[id]]
Queued(id) == id \in ToSet(QueueOf(id))

(* What dequeue accepts: pending, and its scheduled time has passed.       *)
Ready(id) == HasStatus(id, "pending") /\ requests[id].scheduledAt # "future"

(* Mutant: the retry counter starts below zero.                            *)
NewRequestUncounted(status, phase, retries) ==
    [status |-> status, scheduledAt |-> phase, retryCount |-> retries - 1]

NewRequest(status, phase, retries) ==
    [status |-> status, scheduledAt |-> phase, retryCount |-> retries]

BackendTypeOK ==
    /\ requests \in [Ids -> Request \cup {NoRequest}]
    /\ priorityQueues \in [Zones -> [Priorities -> Seq(Ids)]]
    /\ statusIndexes \in [Statuses -> SUBSET Ids]
    /\ zoneIndexes \in [Zones -> SUBSET Ids]
    /\ doomed \in [Loops -> SUBSET Ids]

NoQueues == [z \in Zones |-> [p \in Priorities |-> << >>]]
NoStatuses == [s \in Statuses |-> {}]

BackendInit ==
    /\ requests = [id \in Ids |-> NoRequest]
    /\ priorityQueues = NoQueues
    /\ statusIndexes = NoStatuses
    /\ zoneIndexes = [z \in Zones |-> {}]
    /\ doomed = [l \in Loops |-> {}]

-----------------------------------------------------------------------------
(* The Set operations of a priority queue.                                 *)

(* Mutant: adding an element again moves it to the end.                    *)
SetAddLast(s, id) == Append(SelectSeq(s, LAMBDA e : e # id), id)

SetAdd(s, id) == IF id \in ToSet(s) THEN s ELSE Append(s, id)

IndexIn(s, id) == CHOOSE i \in DOMAIN s : s[i] = id

SetDelete(s, id) == IF id \in ToSet(s) THEN RemoveAt(s, IndexIn(s, id)) ELSE s

-----------------------------------------------------------------------------
(* The operations.  Each is an action without its caller.                  *)

(* enqueue: the record is overwritten when the id is already stored, the   *)
(* status index of its former status is left as it was.                    *)
Enqueue(id, request) ==
    /\ requests' = [requests EXCEPT ![id] = request]
    /\ priorityQueues' =
         [priorityQueues EXCEPT ![ZoneOf[id]][PriorityOf[id]] = SetAdd(@, id)]
    /\ statusIndexes' = [statusIndexes EXCEPT ![request.status] = @ \cup {id}]
    /\ zoneIndexes' = [zoneIndexes EXCEPT ![ZoneOf[id]] = @ \cup {id}]
    /\ UNCHANGED doomed

(* The request dequeue(zone) returns: the scan goes from priority 10 down  *)
(* to 1 and takes the first ready request of the first queue that has one. *)
Levels == Priorities \cap (1..10)

(* Mutant: the scan stops at the first queue it likes, not at the highest. *)
ChosenAnyPriority(zone, id) ==
    \E i \in DOMAIN priorityQueues[zone][PriorityOf[id]] :
        /\ priorityQueues[zone][PriorityOf[id]][i] = id
        /\ Ready(id)

Chosen(zone, id) ==
    LET queue == priorityQueues[zone][PriorityOf[id]]
    IN  /\ PriorityOf[id] \in Levels
        /\ \E i \in DOMAIN queue :
             /\ queue[i] = id
             /\ Ready(id)
             /\ \A j \in 1..(i - 1) : ~Ready(queue[j])
        /\ \A p \in Levels : p > PriorityOf[id] =>
             \A j \in DOMAIN priorityQueues[zone][p] :
                ~Ready(priorityQueues[zone][p][j])

(* Mutant: the id stays in the Set it was found in.                        *)
DequeueKeepsEntry(zone, id) ==
    /\ Chosen(zone, id)
    /\ requests' = [requests EXCEPT ![id].status = "processing"]
    /\ statusIndexes' = [statusIndexes EXCEPT !["pending"] = @ \ {id},
                                              !["processing"] = @ \cup {id}]
    /\ UNCHANGED <<priorityQueues, zoneIndexes, doomed>>

Dequeue(zone, id) ==
    /\ Chosen(zone, id)
    /\ requests' = [requests EXCEPT ![id].status = "processing"]
    /\ priorityQueues' =
         [priorityQueues EXCEPT ![zone][PriorityOf[id]] = SetDelete(@, id)]
    /\ statusIndexes' = [statusIndexes EXCEPT !["pending"] = @ \ {id},
                                              !["processing"] = @ \cup {id}]
    /\ UNCHANGED <<zoneIndexes, doomed>>

(* Mutant: the status index is forgotten.                                  *)
UpdateUnindexed(id, request) ==
    /\ Stored(id)
    /\ requests' = [requests EXCEPT ![id] = request]
    /\ UNCHANGED <<priorityQueues, statusIndexes, zoneIndexes, doomed>>

(* updateRequest: throws when the id is not stored (callers test Stored);  *)
(* never touches the priority queues.                                      *)
UpdateRequest(id, request) ==
    LET old == requests[id].status
    IN  /\ Stored(id)
        /\ requests' = [requests EXCEPT ![id] = request]
        /\ statusIndexes' =
             IF request.status = old THEN statusIndexes
             ELSE [statusIndexes EXCEPT ![old] = @ \ {id},
                                        ![request.status] = @ \cup {id}]
        /\ UNCHANGED <<priorityQueues, zoneIndexes, doomed>>

SetStatus(id, status) ==
    UpdateRequest(id, [requests[id] EXCEPT !.status = status])

(* Mutant: the priority queue is forgotten.                                *)
EraseKeepsEntry(id) ==
    IF Stored(id)
    THEN /\ requests' = [requests EXCEPT ![id] = NoRequest]
         /\ statusIndexes' =
              [statusIndexes EXCEPT ![requests[id].status] = @ \ {id}]
         /\ zoneIndexes' = [zoneIndexes EXCEPT ![ZoneOf[id]] = @ \ {id}]
         /\ UNCHANGED priorityQueues
    ELSE UNCHANGED <<requests, priorityQueues, statusIndexes, zoneIndexes>>

(* The maps after remove(id); unchanged when the id is not stored.         *)
Erase(id) ==
    IF Stored(id)
    THEN /\ requests' = [requests EXCEPT ![id] = NoRequest]
         /\ priorityQueues' =
              [priorityQueues EXCEPT
                 ![ZoneOf[id]][PriorityOf[id]] = SetDelete(@, id)]
         /\ statusIndexes' =
              [statusIndexes EXCEPT ![requests[id].status] = @ \ {id}]
         /\ zoneIndexes' = [zoneIndexes EXCEPT ![ZoneOf[id]] = @ \ {id}]
    ELSE UNCHANGED <<requests, priorityQueues, statusIndexes, zoneIndexes>>

RemoveRequest(id) == Stored(id) /\ Erase(id) /\ UNCHANGED doomed

(* clear(): everything but the zone indexes.                               *)
ClearAll ==
    /\ requests' = [id \in Ids |-> NoRequest]
    /\ priorityQueues' = NoQueues
    /\ statusIndexes' = NoStatuses
    /\ UNCHANGED <<zoneIndexes, doomed>>

(* clear(zone) and maintenance(): take the snapshot, then remove one by    *)
(* one.  A second loop of the same kind starts only when the first ended   *)
(* (bound).  The first remove of the code happens in the call itself;      *)
(* taking it as a step of its own only adds behaviours.                    *)
ClearZone(zone) ==
    /\ doomed["clear"] = {}
    /\ doomed' = [doomed EXCEPT !["clear"] = zoneIndexes[zone]]
    /\ UNCHANGED <<requests, priorityQueues, statusIndexes, zoneIndexes>>

(* Mutant: the timeout is not added to scheduledAt.                        *)
LapsedWhenDue ==
    {id \in Ids : Stored(id) /\ requests[id].scheduledAt \in {"due", "lapsed"}}

Lapsed == {id \in Ids : Stored(id) /\ requests[id].scheduledAt = "lapsed"}

Maintenance ==
    /\ doomed["maintenance"] = {}
    /\ doomed' = [doomed EXCEPT !["maintenance"] = Lapsed]
    /\ UNCHANGED <<requests, priorityQueues, statusIndexes, zoneIndexes>>

RemoveDoomed(loop, id) ==
    /\ id \in doomed[loop]
    /\ doomed' = [doomed EXCEPT ![loop] = @ \ {id}]
    /\ Erase(id)

(* The clock: scheduledAt is reached, then passed by the timeout.          *)
Elapse(id) ==
    /\ Stored(id)
    /\ \/ /\ requests[id].scheduledAt = "future"
          /\ requests' = [requests EXCEPT ![id].scheduledAt = "due"]
       \/ /\ requests[id].scheduledAt = "due"
          /\ requests' = [requests EXCEPT ![id].scheduledAt = "lapsed"]
    /\ UNCHANGED <<priorityQueues, statusIndexes, zoneIndexes, doomed>>

(* size()                                                                  *)
BackendSize ==
    Cardinality(statusIndexes["pending"])
      + Cardinality(statusIndexes["processing"])

(* getRequests({status}): the ids the status indexes name.                 *)
WithStatus(statuses) == UNION {statusIndexes[s] : s \in statuses}

-----------------------------------------------------------------------------
(* The store on its own, under every call its interface admits; requests   *)
(* are enqueued as the manager builds them, pending.                       *)
BackendNext ==
    \/ \E id \in Ids, phase \in ClientPhases :
         Enqueue(id, NewRequest("pending", phase, 0))
    \/ \E zone \in Zones, id \in Ids : Dequeue(zone, id)
    \/ \E id \in Ids, status \in ClientStatuses : SetStatus(id, status)
    \/ \E id \in Ids, status \in ClientStatuses, phase \in ClientPhases :
         UpdateRequest(id, NewRequest(status, phase, 0))
    \/ \E id \in Ids : RemoveRequest(id)
    \/ \E zone \in Zones : ClearZone(zone)
    \/ ClearAll
    \/ Maintenance
    \/ \E loop \in Loops, id \in Ids : RemoveDoomed(loop, id)
    \/ \E id \in Ids : Elapse(id)

BackendSpec == BackendInit /\ [][BackendNext]_backendVars

-----------------------------------------------------------------------------
(* Properties.                                                             *)

(* A priority queue lists stored requests of its own zone and priority,    *)
(* each once, whatever the interleaving of removals, clears and            *)
(* re-enqueues: dequeue never meets an id without a record, and deleting   *)
(* an id once is enough.                                                   *)
QueuesSound ==
    \A z \in Zones, p \in Priorities :
        LET queue == priorityQueues[z][p]
        IN  /\ IsInjective(queue)
            /\ \A i \in DOMAIN queue : /\ Stored(queue[i])
                                       /\ ZoneOf[queue[i]] = z
                                       /\ PriorityOf[queue[i]] = p

(* Every stored request is found through the index of its status and of    *)
(* its zone: getRequests, size and clear(zone) never overlook one.         *)
IndexesCover ==
    \A id \in Ids : Stored(id) =>
        /\ id \in statusIndexes[requests[id].status]
        /\ id \in zoneIndexes[ZoneOf[id]]

(* Two requests waiting in one queue keep their order for as long as both  *)
(* wait, also when one of them is enqueued again (Set.add on an element).  *)
Precedes(queue, a, b) ==
    \E i, j \in DOMAIN queue : i < j /\ queue[i] = a /\ queue[j] = b

StepKeepsOrder ==
    \A z \in Zones, p \in Priorities, a, b \in Ids :
        (/\ Precedes(priorityQueues[z][p], a, b)
         /\ {a, b} \subseteq ToSet(priorityQueues'[z][p]))
        => Precedes(priorityQueues'[z][p], a, b)

OrderKept == [][StepKeepsOrder]_backendVars

(* A request leaves its queue for processing only when no ready request of *)
(* the zone has a higher priority, or the same one and waited longer.      *)
Dispatched(id) ==
    /\ Queued(id)
    /\ id \notin ToSet(QueueOf(id)')
    /\ requests'[id] # NoRequest

StepDispatchesInOrder ==
    \A id, other \in Ids :
        (/\ Dispatched(id)
         /\ other # id
         /\ Ready(other) /\ Queued(other)
         /\ ZoneOf[other] = ZoneOf[id]
         /\ PriorityOf[other] \in 1..10)
        => \/ PriorityOf[other] < PriorityOf[id]
           \/ Precedes(QueueOf(id), id, other)

DispatchInOrder == [][StepDispatchesInOrder]_backendVars
=============================================================================
