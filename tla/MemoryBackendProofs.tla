------------------------- MODULE MemoryBackendProofs -------------------------
(***************************************************************************)
(* Proofs about MemoryBackend: the Set operations of a priority queue, and *)
(* what each operation of the store does to the queues.                    *)
(***************************************************************************)
EXTENDS MemoryBackend, CollectionLemmas

-----------------------------------------------------------------------------
(* Set.add keeps a sequence free of duplicates and adds one element.       *)
LEMMA SetAddProperties ==
    ASSUME NEW S, NEW s \in Seq(S), NEW e \in S, IsInjective(s)
    PROVE  /\ SetAdd(s, e) \in Seq(S)
           /\ IsInjective(SetAdd(s, e))
           /\ ToSet(SetAdd(s, e)) = ToSet(s) \cup {e}
  <1>1. CASE e \in ToSet(s)
    BY <1>1 DEF SetAdd
  <1>2. CASE e \notin ToSet(s)
    <2>1. SetAdd(s, e) = Append(s, e)
      BY <1>2 DEF SetAdd
    <2>2. /\ Append(s, e) \in Seq(S)
          /\ Len(Append(s, e)) = Len(s) + 1
          /\ \A i \in 1..Len(s) : Append(s, e)[i] = s[i]
          /\ Append(s, e)[Len(s) + 1] = e
      OBVIOUS
    <2>3. /\ DOMAIN s = 1..Len(s)
          /\ DOMAIN Append(s, e) = 1..(Len(s) + 1)
      BY <2>2
    <2>4. \A i \in 1..Len(s) : s[i] # e
      BY <1>2, <2>3 DEF ToSet
    <2>5. IsInjective(Append(s, e))
      BY <2>2, <2>3, <2>4 DEF IsInjective
    <2>6. ToSet(Append(s, e)) = ToSet(s) \cup {e}
      BY <2>2, <2>3 DEF ToSet
    <2> QED
      BY <2>1, <2>2, <2>5, <2>6
  <1> QED
    BY <1>1, <1>2

(* Set.delete keeps a sequence free of duplicates and removes one element. *)
LEMMA SetDeleteProperties ==
    ASSUME NEW S, NEW s \in Seq(S), NEW e, IsInjective(s)
    PROVE  /\ SetDelete(s, e) \in Seq(S)
           /\ IsInjective(SetDelete(s, e))
           /\ ToSet(SetDelete(s, e)) = ToSet(s) \ {e}
  <1>1. CASE e \notin ToSet(s)
    BY <1>1 DEF SetDelete
  <1>2. CASE e \in ToSet(s)
    <2> DEFINE i == IndexIn(s, e)
               t == RemoveAt(s, i)
    <2>1. DOMAIN s = 1..Len(s)
      OBVIOUS
    <2>2. i \in 1..Len(s) /\ s[i] = e
      BY <1>2, <2>1 DEF IndexIn, ToSet
    <2> HIDE DEF i
    <2>3. /\ t \in Seq(S) /\ Len(t) = Len(s) - 1
          /\ \A j \in 1..(Len(s) - 1) : t[j] = IF j < i THEN s[j] ELSE s[j + 1]
      BY <2>2, RemoveAtProperties
    <2> HIDE DEF t
    <2>4. DOMAIN t = 1..(Len(s) - 1)
      BY <2>3
    <2>5. \A j, k \in 1..Len(s) : s[j] = s[k] => j = k
      BY <2>1 DEF IsInjective
    <2>6. IsInjective(t)
      <3>1. ASSUME NEW j \in 1..(Len(s) - 1), NEW k \in 1..(Len(s) - 1), t[j] = t[k]
            PROVE  j = k
        <4> DEFINE at(n) == IF n < i THEN n ELSE n + 1
        <4>1. /\ at(j) \in 1..Len(s) /\ at(k) \in 1..Len(s)
              /\ at(j) = at(k) => j = k
          BY <2>2
        <4>2. t[j] = s[at(j)] /\ t[k] = s[at(k)]
          BY <2>3
        <4> HIDE DEF at
        <4> QED
          BY <2>5, <3>1, <4>1, <4>2
      <3> QED
        BY <2>4, <3>1 DEF IsInjective
    <2>7. ASSUME NEW x \in ToSet(t)
          PROVE  x \in ToSet(s) /\ x # e
      <3>1. PICK j \in 1..(Len(s) - 1) : t[j] = x
        BY <2>4 DEF ToSet
      <3>2. PICK k \in 1..Len(s) : s[k] = x /\ k # i
        BY <2>2, <2>3, <3>1
      <3> QED
        BY <2>1, <2>2, <2>5, <3>2 DEF ToSet
    <2>8. ASSUME NEW x \in ToSet(s), x # e
          PROVE  x \in ToSet(t)
      <3>1. PICK k \in 1..Len(s) : s[k] = x
        BY <2>1 DEF ToSet
      <3>2. CASE k < i
        BY <3>1, <3>2, <2>2, <2>3, <2>4 DEF ToSet
      <3>3. CASE k > i
        <4>1. k - 1 \in 1..(Len(s) - 1) /\ ~(k - 1 < i) /\ (k - 1) + 1 = k
          BY <3>3, <2>2
        <4>2. t[k - 1] = x
          BY <4>1, <3>1, <2>3
        <4> QED
          BY <4>1, <4>2, <2>4 DEF ToSet
      <3>4. k # i
        BY <3>1, <2>2, <2>8
      <3> QED
        BY <3>2, <3>3, <3>4, <2>2
    <2>9. SetDelete(s, e) = t
      BY <1>2 DEF SetDelete, t, i
    <2> QED
      BY <2>3, <2>6, <2>7, <2>8, <2>9
  <1> QED
    BY <1>1, <1>2

-----------------------------------------------------------------------------
(* The operations.  Each keeps the types, the queues sound and the indexes *)
(* covering, and changes who is queued as its name says.                   *)

BackendInv == BackendTypeOK /\ QueuesSound /\ IndexesCover

(* A queue is replaced by one that is sound for its zone and priority.     *)
LEMMA ReplaceQueue ==
    ASSUME BackendTypeOK, QueuesSound,
           NEW id \in Ids, NEW queue \in Seq(Ids),
           IsInjective(queue),
           priorityQueues' =
             [priorityQueues EXCEPT ![ZoneOf[id]][PriorityOf[id]] = queue],
           \A j \in Ids : j \in ToSet(queue) \/ (j # id /\ Stored(j))
                => requests'[j] # NoRequest,
           \A j \in ToSet(queue) : ZoneOf[j] = ZoneOf[id]
                                   /\ PriorityOf[j] = PriorityOf[id]
    PROVE  /\ priorityQueues' \in [Zones -> [Priorities -> Seq(Ids)]]
           /\ QueuesSound'
           /\ \A j \in Ids :
                Queued(j)' <=> IF ZoneOf[j] = ZoneOf[id]
                                  /\ PriorityOf[j] = PriorityOf[id]
                               THEN j \in ToSet(queue) ELSE Queued(j)
  <1> DEFINE z == ZoneOf[id]
             p == PriorityOf[id]
  <1>1. /\ z \in Zones /\ p \in Priorities
        /\ \A j \in Ids : ZoneOf[j] \in Zones /\ PriorityOf[j] \in Priorities
    BY PlacementAssumption
  <1>2. priorityQueues' \in [Zones -> [Priorities -> Seq(Ids)]]
    BY <1>1 DEF BackendTypeOK
  <1>3. /\ priorityQueues'[z][p] = queue
        /\ \A y \in Zones, r \in Priorities : <<y, r>> # <<z, p>> =>
             priorityQueues'[y][r] = priorityQueues[y][r]
    BY <1>1 DEF BackendTypeOK
  <1>4. ASSUME NEW y \in Zones, NEW r \in Priorities
        PROVE  /\ IsInjective(priorityQueues'[y][r])
               /\ \A i \in DOMAIN priorityQueues'[y][r] :
                    /\ requests'[priorityQueues'[y][r][i]] # NoRequest
                    /\ ZoneOf[priorityQueues'[y][r][i]] = y
                    /\ PriorityOf[priorityQueues'[y][r][i]] = r
    <2>1. CASE <<y, r>> = <<z, p>>
      <3>1. priorityQueues'[y][r] = queue
        BY <2>1, <1>3
      <3>2. \A i \in DOMAIN queue : queue[i] \in Ids /\ queue[i] \in ToSet(queue)
        BY DEF ToSet
      <3> QED
        BY <2>1, <3>1, <3>2
    <2>2. CASE <<y, r>> # <<z, p>>
      <3> DEFINE old == priorityQueues[y][r]
      <3>1. priorityQueues'[y][r] = old
        BY <2>2, <1>3
      <3>2. old \in Seq(Ids)
        BY DEF BackendTypeOK
      <3>3. /\ IsInjective(old)
            /\ \A i \in DOMAIN old : /\ Stored(old[i])
                                     /\ ZoneOf[old[i]] = y
                                     /\ PriorityOf[old[i]] = r
        BY DEF QueuesSound
      <3>4. \A i \in DOMAIN old : old[i] \in Ids /\ old[i] # id
        BY <3>2, <3>3, <2>2
      <3>5. \A i \in DOMAIN old : requests'[old[i]] # NoRequest
        BY <3>3, <3>4
      <3> HIDE DEF old
      <3> QED
        BY <3>1, <3>3, <3>5
    <2> QED
      BY <2>1, <2>2
  <1>5. QueuesSound'
    BY <1>4 DEF QueuesSound, Stored
  <1>6. \A j \in Ids : QueueOf(j)' = IF ZoneOf[j] = z /\ PriorityOf[j] = p
                                     THEN queue ELSE QueueOf(j)
    BY <1>1, <1>3 DEF QueueOf
  <1> QED
    BY <1>2, <1>5, <1>6 DEF Queued

(* Every queue is a sequence of ids without duplicates, and being queued   *)
(* is being in one's own.                                                  *)
LEMMA QueueFacts ==
    ASSUME BackendTypeOK, QueuesSound, NEW id \in Ids
    PROVE  /\ QueueOf(id) \in Seq(Ids)
           /\ IsInjective(QueueOf(id))
           /\ \A j \in ToSet(QueueOf(id)) :
                j \in Ids /\ Stored(j) /\ ZoneOf[j] = ZoneOf[id]
                /\ PriorityOf[j] = PriorityOf[id]
           /\ Queued(id) => Stored(id)
  <1>1. ZoneOf[id] \in Zones /\ PriorityOf[id] \in Priorities
    BY PlacementAssumption
  <1>2. QueueOf(id) \in Seq(Ids)
    BY <1>1 DEF BackendTypeOK, QueueOf
  <1>3. \A i \in DOMAIN QueueOf(id) : QueueOf(id)[i] \in Ids
    BY <1>2
  <1>4. /\ IsInjective(QueueOf(id))
        /\ \A i \in DOMAIN QueueOf(id) :
             /\ Stored(QueueOf(id)[i])
             /\ ZoneOf[QueueOf(id)[i]] = ZoneOf[id]
             /\ PriorityOf[QueueOf(id)[i]] = PriorityOf[id]
    BY <1>1 DEF QueuesSound, QueueOf
  <1> QED
    BY <1>2, <1>3, <1>4 DEF ToSet, Queued

(* Two requests of one zone and priority wait in one queue.                *)
LEMMA SameQueue ==
    ASSUME BackendTypeOK, NEW id \in Ids, NEW j \in Ids,
           ZoneOf[j] = ZoneOf[id], PriorityOf[j] = PriorityOf[id]
    PROVE  Queued(j) <=> j \in ToSet(QueueOf(id))
  BY DEF Queued, QueueOf

(* enqueue makes the request queued and leaves the others as they are.     *)
LEMMA EnqueueEffect ==
    ASSUME BackendInv, NEW id \in Ids, NEW r \in Request, Enqueue(id, r)
    PROVE  /\ BackendInv'
           /\ \A j \in Ids : Queued(j)' <=> Queued(j) \/ j = id
  <1> DEFINE queue == SetAdd(QueueOf(id), id)
  <1> USE DEF BackendInv
  <1>1. /\ QueueOf(id) \in Seq(Ids) /\ IsInjective(QueueOf(id))
        /\ \A j \in ToSet(QueueOf(id)) :
             j \in Ids /\ Stored(j) /\ ZoneOf[j] = ZoneOf[id]
             /\ PriorityOf[j] = PriorityOf[id]
    BY QueueFacts
  <1>2. /\ queue \in Seq(Ids) /\ IsInjective(queue)
        /\ ToSet(queue) = ToSet(QueueOf(id)) \cup {id}
    BY <1>1, SetAddProperties
  <1>3. priorityQueues' =
          [priorityQueues EXCEPT ![ZoneOf[id]][PriorityOf[id]] = queue]
    BY PlacementAssumption DEF Enqueue, QueueOf, BackendTypeOK
  <1> HIDE DEF queue
  <1>4. r # NoRequest
    BY NoRequestAssumption
  <1>5. \A j \in Ids : j \in ToSet(queue) \/ (j # id /\ Stored(j))
          => requests'[j] # NoRequest
    BY <1>1, <1>2, <1>4 DEF Enqueue, BackendTypeOK, Stored
  <1>6. /\ priorityQueues' \in [Zones -> [Priorities -> Seq(Ids)]]
        /\ QueuesSound'
        /\ \A j \in Ids :
             Queued(j)' <=> IF /\ ZoneOf[j] = ZoneOf[id]
                               /\ PriorityOf[j] = PriorityOf[id]
                            THEN j \in ToSet(queue) ELSE Queued(j)
    BY <1>1, <1>2, <1>3, <1>5, ReplaceQueue
  <1>7. r.status \in Statuses /\ ZoneOf[id] \in Zones
    BY PlacementAssumption DEF Request
  <1>8. BackendTypeOK'
    BY <1>6, <1>7 DEF BackendTypeOK, Enqueue
  <1>9. IndexesCover'
    BY <1>4, <1>7, PlacementAssumption
    DEF IndexesCover, BackendTypeOK, Enqueue, Stored
  <1>10. ASSUME NEW j \in Ids
         PROVE  Queued(j)' <=> Queued(j) \/ j = id
    BY <1>2, <1>6, SameQueue
  <1> QED
    BY <1>6, <1>8, <1>9, <1>10

(* remove, or a call that finds nothing: the request is not queued.        *)
LEMMA EraseEffect ==
    ASSUME BackendInv, NEW id \in Ids, Erase(id), doomed' \in [Loops -> SUBSET Ids]
    PROVE  /\ BackendInv'
           /\ \A j \in Ids : Queued(j)' <=> Queued(j) /\ j # id
           /\ \A j \in Ids : j # id => requests'[j] = requests[j]
  <1> USE DEF BackendInv
  <1> DEFINE queue == SetDelete(QueueOf(id), id)
  <1>1. /\ QueueOf(id) \in Seq(Ids) /\ IsInjective(QueueOf(id))
        /\ \A j \in ToSet(QueueOf(id)) :
             j \in Ids /\ Stored(j) /\ ZoneOf[j] = ZoneOf[id]
             /\ PriorityOf[j] = PriorityOf[id]
        /\ Queued(id) => Stored(id)
    BY QueueFacts
  <1>2. /\ queue \in Seq(Ids) /\ IsInjective(queue)
        /\ ToSet(queue) = ToSet(QueueOf(id)) \ {id}
    BY <1>1, SetDeleteProperties
  <1>3. CASE ~Stored(id)
    BY <1>1, <1>3 DEF Erase, BackendTypeOK, QueuesSound, IndexesCover, Queued,
                      QueueOf, Stored
  <1>4. CASE Stored(id)
    <2>1. priorityQueues' =
            [priorityQueues EXCEPT ![ZoneOf[id]][PriorityOf[id]] = queue]
      BY <1>4, PlacementAssumption DEF Erase, QueueOf, BackendTypeOK
    <2> HIDE DEF queue
    <2>2. \A j \in Ids : j # id => requests'[j] = requests[j]
      BY <1>4 DEF Erase, BackendTypeOK
    <2>3. \A j \in Ids : j \in ToSet(queue) \/ (j # id /\ Stored(j))
            => requests'[j] # NoRequest
      BY <1>1, <1>2, <2>2 DEF Stored
    <2>4. /\ priorityQueues' \in [Zones -> [Priorities -> Seq(Ids)]]
          /\ QueuesSound'
          /\ \A j \in Ids :
               Queued(j)' <=> IF /\ ZoneOf[j] = ZoneOf[id]
                                 /\ PriorityOf[j] = PriorityOf[id]
                              THEN j \in ToSet(queue) ELSE Queued(j)
      BY <1>1, <1>2, <2>1, <2>3, ReplaceQueue
    <2>5. requests[id] \in Request
      BY <1>4 DEF Stored, BackendTypeOK
    <2>6. requests[id].status \in Statuses /\ ZoneOf[id] \in Zones
      BY <2>5, PlacementAssumption DEF Request
    <2>7. /\ requests' = [requests EXCEPT ![id] = NoRequest]
          /\ statusIndexes' =
               [statusIndexes EXCEPT ![requests[id].status] = @ \ {id}]
          /\ zoneIndexes' = [zoneIndexes EXCEPT ![ZoneOf[id]] = @ \ {id}]
      BY <1>4 DEF Erase
    <2>8. BackendTypeOK'
      <3>1. statusIndexes' \in [Statuses -> SUBSET Ids]
        BY <2>6, <2>7 DEF BackendTypeOK
      <3>2. zoneIndexes' \in [Zones -> SUBSET Ids]
        BY <2>6, <2>7 DEF BackendTypeOK
      <3>3. requests' \in [Ids -> Request \cup {NoRequest}]
        BY <2>7 DEF BackendTypeOK
      <3> QED
        BY <2>4, <3>1, <3>2, <3>3 DEF BackendTypeOK
    <2>9. ASSUME NEW j \in Ids, Stored(j)'
          PROVE  /\ j \in statusIndexes'[requests'[j].status]
                 /\ j \in zoneIndexes'[ZoneOf[j]]
      <3>1. j # id /\ requests'[j] = requests[j] /\ Stored(j)
        BY <2>7, <2>9 DEF BackendTypeOK, Stored
      <3>2. requests[j].status \in Statuses /\ ZoneOf[j] \in Zones
        BY <3>1, PlacementAssumption DEF Stored, BackendTypeOK, Request
      <3>3. j \in statusIndexes[requests[j].status] /\ j \in zoneIndexes[ZoneOf[j]]
        BY <3>1 DEF IndexesCover
      <3> QED
        BY <2>6, <2>7, <3>1, <3>2, <3>3 DEF BackendTypeOK
    <2>10. IndexesCover'
      BY <2>9 DEF IndexesCover
    <2>11. ASSUME NEW j \in Ids
           PROVE  Queued(j)' <=> Queued(j) /\ j # id
      BY <1>2, <2>4, SameQueue
    <2> QED
      BY <2>2, <2>4, <2>8, <2>10, <2>11
  <1> QED
    BY <1>3, <1>4

(* dequeue(zone) takes a queued, pending request of the zone out of its    *)
(* queue.                                                                  *)
LEMMA DequeueEffect ==
    ASSUME BackendInv, NEW zone \in Zones, NEW id \in Ids, Dequeue(zone, id)
    PROVE  /\ BackendInv'
           /\ ZoneOf[id] = zone /\ Queued(id) /\ Ready(id)
           /\ \A j \in Ids : Queued(j)' <=> Queued(j) /\ j # id
  <1> USE DEF BackendInv
  <1> DEFINE queue == SetDelete(QueueOf(id), id)
  <1>1. /\ QueueOf(id) \in Seq(Ids) /\ IsInjective(QueueOf(id))
        /\ \A j \in ToSet(QueueOf(id)) :
             j \in Ids /\ Stored(j) /\ ZoneOf[j] = ZoneOf[id]
             /\ PriorityOf[j] = PriorityOf[id]
    BY QueueFacts
  <1>2. /\ queue \in Seq(Ids) /\ IsInjective(queue)
        /\ ToSet(queue) = ToSet(QueueOf(id)) \ {id}
    BY <1>1, SetDeleteProperties
  <1>3. /\ Ready(id)
        /\ \E i \in DOMAIN priorityQueues[zone][PriorityOf[id]] :
             priorityQueues[zone][PriorityOf[id]][i] = id
    BY DEF Dequeue, Chosen
  <1>4. ZoneOf[id] = zone /\ PriorityOf[id] \in Priorities
    <2> DEFINE waiting == priorityQueues[zone][PriorityOf[id]]
    <2>1. PriorityOf[id] \in Priorities
      BY PlacementAssumption
    <2>2. \A i \in DOMAIN waiting : ZoneOf[waiting[i]] = zone
      BY <2>1 DEF QueuesSound
    <2>3. PICK i \in DOMAIN waiting : waiting[i] = id
      BY <1>3
    <2> HIDE DEF waiting
    <2> QED
      BY <2>1, <2>2, <2>3
  <1>5. Queued(id)
    BY <1>3, <1>4 DEF Queued, QueueOf, ToSet
  <1>6. priorityQueues' =
          [priorityQueues EXCEPT ![ZoneOf[id]][PriorityOf[id]] = queue]
    BY <1>4, PlacementAssumption DEF Dequeue, QueueOf, BackendTypeOK
  <1> HIDE DEF queue
  <1>7. requests[id] \in Request /\ requests[id].status = "pending"
    BY <1>3 DEF Ready, HasStatus, Stored, BackendTypeOK
  <1>8. /\ [requests[id] EXCEPT !.status = "processing"] \in Request
        /\ [requests[id] EXCEPT !.status = "processing"] # NoRequest
    BY <1>7, NoRequestAssumption DEF Request, Statuses
  <1>9. \A j \in Ids : j \in ToSet(queue) \/ (j # id /\ Stored(j))
          => requests'[j] # NoRequest
    BY <1>1, <1>2, <1>8 DEF Dequeue, BackendTypeOK, Stored
  <1>10. /\ priorityQueues' \in [Zones -> [Priorities -> Seq(Ids)]]
         /\ QueuesSound'
         /\ \A j \in Ids :
              Queued(j)' <=> IF /\ ZoneOf[j] = ZoneOf[id]
                                /\ PriorityOf[j] = PriorityOf[id]
                             THEN j \in ToSet(queue) ELSE Queued(j)
    BY <1>1, <1>2, <1>6, <1>9, ReplaceQueue
  <1>11. BackendTypeOK'
    BY <1>8, <1>10 DEF BackendTypeOK, Dequeue
  <1>12. IndexesCover'
    <2>1. /\ requests' = [requests EXCEPT ![id].status = "processing"]
          /\ statusIndexes' = [statusIndexes EXCEPT !["pending"] = @ \ {id},
                                                    !["processing"] = @ \cup {id}]
          /\ UNCHANGED zoneIndexes
      BY DEF Dequeue
    <2>2. ASSUME NEW j \in Ids, Stored(j)'
          PROVE  /\ j \in statusIndexes'[requests'[j].status]
                 /\ j \in zoneIndexes'[ZoneOf[j]]
      <3>1. CASE j = id
        <4>1. requests'[id].status = "processing"
          BY <1>7, <2>1 DEF BackendTypeOK, Request
        <4>2. id \in statusIndexes'["processing"]
          BY <2>1 DEF BackendTypeOK, Statuses
        <4>3. id \in zoneIndexes[ZoneOf[id]]
          BY <1>3 DEF IndexesCover, Ready, HasStatus
        <4> QED
          BY <2>1, <3>1, <4>1, <4>2, <4>3
      <3>2. CASE j # id
        <4>1. requests'[j] = requests[j] /\ Stored(j)
          BY <2>1, <2>2, <3>2 DEF BackendTypeOK, Stored
        <4>2. requests[j].status \in Statuses
          BY <4>1 DEF Stored, BackendTypeOK, Request
        <4>3. j \in statusIndexes[requests[j].status] /\ j \in zoneIndexes[ZoneOf[j]]
          BY <4>1 DEF IndexesCover
        <4> QED
          BY <2>1, <3>2, <4>1, <4>2, <4>3 DEF BackendTypeOK, Statuses
      <3> QED
        BY <3>1, <3>2
    <2> QED
      BY <2>2 DEF IndexesCover
  <1>13. ASSUME NEW j \in Ids
         PROVE  Queued(j)' <=> Queued(j) /\ j # id
    BY <1>2, <1>10, SameQueue
  <1> QED
    BY <1>3, <1>4, <1>5, <1>10, <1>11, <1>12, <1>13

(* updateRequest leaves the queues alone, and everything but the record    *)
(* and its status index.                                                   *)
LEMMA UpdateEffect ==
    ASSUME BackendInv, NEW id \in Ids, NEW r \in Request, UpdateRequest(id, r)
    PROVE  /\ BackendInv'
           /\ \A j \in Ids : Queued(j)' <=> Queued(j)
  <1> USE DEF BackendInv
  <1>1. /\ Stored(id) /\ requests' = [requests EXCEPT ![id] = r]
        /\ UNCHANGED <<priorityQueues, zoneIndexes, doomed>>
    BY DEF UpdateRequest
  <1>2. requests[id] \in Request /\ r # NoRequest
    BY <1>1, NoRequestAssumption DEF Stored, BackendTypeOK
  <1>3. requests[id].status \in Statuses /\ r.status \in Statuses
    BY <1>2 DEF Request
  <1>4. statusIndexes' =
          IF r.status = requests[id].status THEN statusIndexes
          ELSE [statusIndexes EXCEPT ![requests[id].status] = @ \ {id},
                                     ![r.status] = @ \cup {id}]
    BY DEF UpdateRequest
  <1>5. BackendTypeOK'
    BY <1>1, <1>3, <1>4 DEF BackendTypeOK
  <1>6. \A j \in Ids : Stored(j) => requests'[j] # NoRequest
    BY <1>1, <1>2 DEF Stored, BackendTypeOK
  <1>7. QueuesSound'
    <2>1. \A z \in Zones, p \in Priorities :
            \A i \in DOMAIN priorityQueues[z][p] : priorityQueues[z][p][i] \in Ids
      BY DEF BackendTypeOK
    <2> QED
      BY <1>1, <1>6, <2>1 DEF QueuesSound, Stored
  <1>8. ASSUME NEW j \in Ids, Stored(j)'
        PROVE  /\ j \in statusIndexes'[requests'[j].status]
               /\ j \in zoneIndexes'[ZoneOf[j]]
    <2>1. Stored(j)
      BY <1>1, <1>8 DEF Stored, BackendTypeOK
    <2>2. /\ requests[j].status \in Statuses
          /\ j \in statusIndexes[requests[j].status]
          /\ j \in zoneIndexes[ZoneOf[j]]
      BY <2>1 DEF IndexesCover, Stored, BackendTypeOK, Request
    <2>3. CASE j = id
      BY <1>1, <1>3, <1>4, <2>2, <2>3 DEF BackendTypeOK
    <2>4. CASE j # id
      BY <1>1, <1>3, <1>4, <2>2, <2>4 DEF BackendTypeOK
    <2> QED
      BY <2>3, <2>4
  <1>9. IndexesCover'
    BY <1>8 DEF IndexesCover
  <1> QED
    BY <1>1, <1>5, <1>7, <1>9 DEF Queued, QueueOf

(* clear() leaves nothing stored and nothing queued.                       *)
LEMMA ClearEffect ==
    ASSUME BackendInv, ClearAll
    PROVE  /\ BackendInv'
           /\ \A j \in Ids : ~Queued(j)'
  <1> USE DEF BackendInv
  <1>1. /\ requests' = [id \in Ids |-> NoRequest]
        /\ priorityQueues' = NoQueues /\ statusIndexes' = NoStatuses
        /\ UNCHANGED <<zoneIndexes, doomed>>
    BY DEF ClearAll
  <1>2. \A z \in Zones, p \in Priorities : priorityQueues'[z][p] = << >>
    BY <1>1 DEF NoQueues
  <1>3. priorityQueues' \in [Zones -> [Priorities -> Seq(Ids)]]
    BY <1>1 DEF NoQueues
  <1>4. DOMAIN << >> = {}
    OBVIOUS
  <1>5. BackendTypeOK'
    BY <1>1, <1>3 DEF BackendTypeOK, NoStatuses
  <1>6. QueuesSound'
    BY <1>2, <1>4 DEF QueuesSound, IsInjective
  <1>7. IndexesCover'
    BY <1>1 DEF IndexesCover, Stored
  <1>8. \A j \in Ids : ToSet(QueueOf(j)') = {}
    BY <1>2, <1>4, PlacementAssumption DEF QueueOf, ToSet
  <1> QED
    BY <1>5, <1>6, <1>7, <1>8 DEF Queued

(* The clock changes the phase of one record only.                         *)
LEMMA ElapseEffect ==
    ASSUME BackendInv, NEW id \in Ids, Elapse(id)
    PROVE  /\ BackendInv'
           /\ \A j \in Ids : Queued(j)' <=> Queued(j)
  <1> USE DEF BackendInv
  <1>1. PICK phase \in Phases :
          /\ requests' = [requests EXCEPT ![id].scheduledAt = phase]
          /\ Stored(id)
    BY DEF Elapse, Phases
  <1>2. UNCHANGED <<priorityQueues, statusIndexes, zoneIndexes, doomed>>
    BY DEF Elapse
  <1>3. requests[id] \in Request
    BY <1>1 DEF Stored, BackendTypeOK
  <1>4. /\ requests'[id] \in Request /\ requests'[id] # NoRequest
        /\ requests'[id].status = requests[id].status
        /\ \A j \in Ids : j # id => requests'[j] = requests[j]
    BY <1>1, <1>3, NoRequestAssumption DEF BackendTypeOK, Request
  <1>5. BackendTypeOK'
    BY <1>1, <1>2, <1>3 DEF BackendTypeOK, Request
  <1>6. QueuesSound'
    <2>1. \A z \in Zones, p \in Priorities :
            \A i \in DOMAIN priorityQueues[z][p] : priorityQueues[z][p][i] \in Ids
      BY DEF BackendTypeOK
    <2> QED
      BY <1>2, <1>4, <2>1 DEF QueuesSound, Stored
  <1>7. IndexesCover'
    BY <1>1, <1>2, <1>4 DEF IndexesCover, Stored
  <1> QED
    BY <1>2, <1>5, <1>6, <1>7 DEF Queued, QueueOf

(* The empty store.                                                        *)
LEMMA BackendInitHolds ==
    ASSUME BackendInit
    PROVE  BackendInv
  <1>1. \A z \in Zones, p \in Priorities : priorityQueues[z][p] = << >>
    BY DEF BackendInit, NoQueues
  <1>2. BackendTypeOK
    BY DEF BackendInit, BackendTypeOK, NoQueues, NoStatuses
  <1>3. QueuesSound
    BY <1>1 DEF QueuesSound, IsInjective
  <1>4. IndexesCover
    BY DEF BackendInit, IndexesCover, Stored
  <1> QED
    BY <1>2, <1>3, <1>4 DEF BackendInv

-----------------------------------------------------------------------------
(* Every call of the interface keeps them, and so does time.                *)
LEMMA BackendNextKeeps == BackendInv /\ [BackendNext]_backendVars => BackendInv'
  <1> SUFFICES ASSUME BackendInv, [BackendNext]_backendVars PROVE BackendInv'
    OBVIOUS
  <1>1. ASSUME NEW id \in Ids, NEW phase \in ClientPhases,
               Enqueue(id, NewRequest("pending", phase, 0))
        PROVE  BackendInv'
    <2>1. NewRequest("pending", phase, 0) \in Request
      BY ClientAssumption DEF NewRequest, Request, Statuses
    <2> QED
      BY <1>1, <2>1, EnqueueEffect
  <1>2. ASSUME NEW zone \in Zones, NEW id \in Ids, Dequeue(zone, id)
        PROVE  BackendInv'
    BY <1>2, DequeueEffect
  <1>3. ASSUME NEW id \in Ids, NEW status \in ClientStatuses,
               SetStatus(id, status)
        PROVE  BackendInv'
    <2>1. [requests[id] EXCEPT !.status = status] \in Request
      BY <1>3, ClientAssumption
      DEF SetStatus, UpdateRequest, Stored, BackendInv, BackendTypeOK, Request
    <2> QED
      BY <1>3, <2>1, UpdateEffect DEF SetStatus
  <1>4. ASSUME NEW id \in Ids, NEW status \in ClientStatuses,
               NEW phase \in ClientPhases,
               UpdateRequest(id, NewRequest(status, phase, 0))
        PROVE  BackendInv'
    <2>1. NewRequest(status, phase, 0) \in Request
      BY ClientAssumption DEF NewRequest, Request
    <2> QED
      BY <1>4, <2>1, UpdateEffect
  <1>5. ASSUME NEW id \in Ids, RemoveRequest(id)
        PROVE  BackendInv'
    BY <1>5, EraseEffect DEF RemoveRequest, BackendInv, BackendTypeOK
  <1>6. ASSUME NEW zone \in Zones, ClearZone(zone)
        PROVE  BackendInv'
    BY <1>6 DEF ClearZone, BackendInv, BackendTypeOK, QueuesSound,
                IndexesCover, Stored, Loops
  <1>7. CASE ClearAll
    BY <1>7, ClearEffect
  <1>8. CASE Maintenance
    BY <1>8 DEF Maintenance, Lapsed, BackendInv, BackendTypeOK, QueuesSound,
                IndexesCover, Stored, Loops
  <1>9. ASSUME NEW loop \in Loops, NEW id \in Ids, RemoveDoomed(loop, id)
        PROVE  BackendInv'
    BY <1>9, EraseEffect DEF RemoveDoomed, BackendInv, BackendTypeOK
  <1>10. ASSUME NEW id \in Ids, Elapse(id)
         PROVE  BackendInv'
    BY <1>10, ElapseEffect
  <1>11. CASE UNCHANGED backendVars
    BY <1>11 DEF backendVars, BackendInv, BackendTypeOK, QueuesSound,
                 IndexesCover, Stored
  <1> QED
    BY <1>1, <1>2, <1>3, <1>4, <1>5, <1>6, <1>7, <1>8, <1>9, <1>10, <1>11
    DEF BackendNext

(* The store on its own: under every sequence of calls, overlapping loops  *)
(* included, the types, the queues and the indexes stay sound.             *)
THEOREM BackendCorrect == BackendSpec => [](BackendTypeOK /\ QueuesSound /\ IndexesCover)
  <1>1. BackendInit => BackendInv
    BY BackendInitHolds
  <1>2. BackendInv /\ [BackendNext]_backendVars => BackendInv'
    BY BackendNextKeeps
  <1>3. BackendInv => BackendTypeOK /\ QueuesSound /\ IndexesCover
    BY DEF BackendInv
  <1> QED
    BY <1>1, <1>2, <1>3, PTL DEF BackendSpec

-----------------------------------------------------------------------------
(* The order of the queues.                                                *)

(* Set.add leaves the elements that are there where they are.              *)
LEMMA SetAddKeepsOrder ==
    ASSUME NEW S, NEW s \in Seq(S), NEW e \in S, NEW a, NEW b, Precedes(s, a, b)
    PROVE  Precedes(SetAdd(s, e), a, b)
  <1>1. CASE e \in ToSet(s)
    BY <1>1 DEF SetAdd
  <1>2. CASE e \notin ToSet(s)
    <2>1. PICK i \in DOMAIN s, j \in DOMAIN s : i < j /\ s[i] = a /\ s[j] = b
      BY DEF Precedes
    <2> DEFINE t == Append(s, e)
    <2>2. /\ \A k \in 1..Len(s) : t[k] = s[k]
          /\ DOMAIN s = 1..Len(s) /\ DOMAIN t = 1..(Len(s) + 1) /\ Len(s) \in Nat
      BY AppendProperties
    <2>3. SetAdd(s, e) = t
      BY <1>2 DEF SetAdd
    <2> HIDE DEF t
    <2> QED
      BY <2>1, <2>2, <2>3 DEF Precedes
  <1> QED
    BY <1>1, <1>2

(* Set.delete moves up what comes later, and nothing past anything else.   *)
LEMMA SetDeleteKeepsOrder ==
    ASSUME NEW S, NEW s \in Seq(S), NEW e, NEW a, NEW b, IsInjective(s),
           Precedes(s, a, b), a \in ToSet(SetDelete(s, e)), b \in ToSet(SetDelete(s, e))
    PROVE  Precedes(SetDelete(s, e), a, b)
  <1>1. CASE e \notin ToSet(s)
    BY <1>1 DEF SetDelete
  <1>2. CASE e \in ToSet(s)
    <2> DEFINE n == IndexIn(s, e)
               t == RemoveAt(s, n)
    <2>1. DOMAIN s = 1..Len(s) /\ Len(s) \in Nat
      OBVIOUS
    <2>2. n \in 1..Len(s) /\ s[n] = e
      BY <1>2, <2>1 DEF IndexIn, ToSet
    <2> HIDE DEF n
    <2>3. /\ t \in Seq(S) /\ Len(t) = Len(s) - 1
          /\ \A j \in 1..(Len(s) - 1) : t[j] = IF j < n THEN s[j] ELSE s[j + 1]
      BY <2>2, RemoveAtProperties
    <2>4. SetDelete(s, e) = t
      BY <1>2 DEF SetDelete, n
    <2> HIDE DEF t
    <2>5. DOMAIN t = 1..(Len(s) - 1)
      BY <2>3
    <2>6. PICK i \in DOMAIN s, j \in DOMAIN s : i < j /\ s[i] = a /\ s[j] = b
      BY DEF Precedes
    <2>7. PICK k \in DOMAIN t, l \in DOMAIN t : t[k] = a /\ t[l] = b
      BY <2>4 DEF ToSet
    <2>8. /\ i = IF k < n THEN k ELSE k + 1
          /\ j = IF l < n THEN l ELSE l + 1
      <3> DEFINE at(m) == IF m < n THEN m ELSE m + 1
      <3>1. ASSUME NEW m \in DOMAIN t  PROVE at(m) \in DOMAIN s /\ s[at(m)] = t[m]
        BY <2>1, <2>2, <2>3, <2>5
      <3> HIDE DEF at
      <3>2. at(k) = i /\ at(l) = j
        BY <2>6, <2>7, <3>1 DEF IsInjective
      <3> QED
        BY <3>2 DEF at
    <2>9. k < l
      BY <2>1, <2>2, <2>5, <2>6, <2>8
    <2> QED
      BY <2>4, <2>7, <2>9 DEF Precedes
  <1> QED
    BY <1>1, <1>2

(* What a step may do to a queue.                                          *)
Replaced(old, new) ==
    \/ new = old
    \/ new = << >>
    \/ \E id \in Ids : new = SetAdd(old, id) \/ new = SetDelete(old, id)

LEMMA EraseReplaces ==
    ASSUME BackendTypeOK, NEW id \in Ids, Erase(id), NEW z \in Zones, NEW p \in Priorities
    PROVE  Replaced(priorityQueues[z][p], priorityQueues'[z][p])
  <1>1. CASE Stored(id)
    <2>1. priorityQueues' =
            [priorityQueues EXCEPT ![ZoneOf[id]][PriorityOf[id]] = SetDelete(@, id)]
      BY <1>1 DEF Erase
    <2>2. \/ priorityQueues'[z][p] = priorityQueues[z][p]
          \/ priorityQueues'[z][p] = SetDelete(priorityQueues[z][p], id)
      BY <2>1, PlacementAssumption DEF BackendTypeOK
    <2> QED
      BY <2>2 DEF Replaced
  <1>2. CASE ~Stored(id)
    BY <1>2 DEF Erase, Replaced
  <1> QED
    BY <1>1, <1>2

LEMMA StepReplaces ==
    ASSUME BackendTypeOK, BackendNext, NEW z \in Zones, NEW p \in Priorities
    PROVE  Replaced(priorityQueues[z][p], priorityQueues'[z][p])
  <1>1. CASE UNCHANGED priorityQueues
    BY <1>1 DEF Replaced
  <1>2. ASSUME NEW id \in Ids, NEW request, Enqueue(id, request)
        PROVE  Replaced(priorityQueues[z][p], priorityQueues'[z][p])
    <2>1. \/ priorityQueues'[z][p] = priorityQueues[z][p]
          \/ priorityQueues'[z][p] = SetAdd(priorityQueues[z][p], id)
      BY <1>2, PlacementAssumption DEF BackendTypeOK, Enqueue
    <2> QED
      BY <2>1 DEF Replaced
  <1>3. ASSUME NEW zone \in Zones, NEW id \in Ids, Dequeue(zone, id)
        PROVE  Replaced(priorityQueues[z][p], priorityQueues'[z][p])
    <2>1. \/ priorityQueues'[z][p] = priorityQueues[z][p]
          \/ priorityQueues'[z][p] = SetDelete(priorityQueues[z][p], id)
      BY <1>3, PlacementAssumption DEF BackendTypeOK, Dequeue
    <2> QED
      BY <2>1 DEF Replaced
  <1>4. ASSUME NEW id \in Ids, Erase(id)
        PROVE  Replaced(priorityQueues[z][p], priorityQueues'[z][p])
    BY <1>4, EraseReplaces
  <1>5. CASE ClearAll
    BY <1>5 DEF ClearAll, NoQueues, Replaced
  <1> QED
    BY <1>1, <1>2, <1>3, <1>4, <1>5
    DEF BackendNext, SetStatus, UpdateRequest, RemoveRequest, ClearZone,
        Maintenance, RemoveDoomed, Elapse

LEMMA NextKeepsOrder == BackendInv /\ [BackendNext]_backendVars => [StepKeepsOrder]_backendVars
  <1> SUFFICES ASSUME BackendInv, BackendNext,
                      NEW z \in Zones, NEW p \in Priorities, NEW a \in Ids, NEW b \in Ids,
                      Precedes(priorityQueues[z][p], a, b),
                      {a, b} \subseteq ToSet(priorityQueues'[z][p])
               PROVE  Precedes(priorityQueues'[z][p], a, b)
    BY DEF StepKeepsOrder
  <1> DEFINE old == priorityQueues[z][p]
             new == priorityQueues'[z][p]
  <1>1. old \in Seq(Ids) /\ IsInjective(old)
    BY DEF BackendInv, BackendTypeOK, QueuesSound
  <1>2. Replaced(old, new)
    BY StepReplaces DEF BackendInv
  <1>3. a \in ToSet(new) /\ b \in ToSet(new) /\ Precedes(old, a, b)
    OBVIOUS
  <1> HIDE DEF old, new
  <1>4. new # << >>
    BY <1>3 DEF ToSet
  <1>5. Precedes(new, a, b)
    BY <1>1, <1>2, <1>3, <1>4, SetAddKeepsOrder, SetDeleteKeepsOrder DEF Replaced
  <1> QED
    BY <1>5 DEF new

(* Only a dequeue takes a request out of its queue and leaves it stored,   *)
(* and it takes the one its scan has chosen.                               *)
LEMMA DispatchedIsChosen ==
    ASSUME BackendInv, BackendNext, NEW id \in Ids, Dispatched(id)
    PROVE  \E zone \in Zones : ZoneOf[id] = zone /\ Chosen(zone, id)
  <1>1. Queued(id) /\ ~Queued(id)' /\ requests'[id] # NoRequest
    BY DEF Dispatched, Queued
  <1>2. ASSUME UNCHANGED priorityQueues  PROVE FALSE
    BY <1>1, <1>2 DEF Queued, QueueOf
  <1>3. ASSUME NEW x \in Ids, NEW phase \in ClientPhases, Enqueue(x, NewRequest("pending", phase, 0))
        PROVE  FALSE
    <2>1. NewRequest("pending", phase, 0) \in Request
      BY ClientAssumption DEF NewRequest, Request, Statuses
    <2>2. Queued(id) => Queued(id)'
      BY <1>3, <2>1, EnqueueEffect
    <2> QED
      BY <1>1, <2>2
  <1>4. ASSUME NEW x \in Ids, Erase(x), doomed' \in [Loops -> SUBSET Ids]
        PROVE  FALSE
    <2>1. x = id
      BY <1>1, <1>4, EraseEffect
    <2>2. Stored(id)
      BY <1>1, QueueFacts DEF BackendInv
    <2>3. requests'[id] = NoRequest
      BY <1>4, <2>1, <2>2 DEF Erase, BackendInv, BackendTypeOK
    <2> QED
      BY <1>1, <2>3
  <1>5. CASE ClearAll
    BY <1>1, <1>5 DEF ClearAll
  <1>6. ASSUME NEW zone \in Zones, NEW x \in Ids, Dequeue(zone, x)
        PROVE  ZoneOf[id] = zone /\ Chosen(zone, id)
    <2>1. ZoneOf[x] = zone /\ (Queued(id)' <=> Queued(id) /\ id # x)
      BY <1>6, DequeueEffect
    <2>2. x = id
      BY <1>1, <2>1
    <2> QED
      BY <1>6, <2>1, <2>2 DEF Dequeue
  <1> QED
    BY <1>2, <1>3, <1>4, <1>5, <1>6
    DEF BackendNext, SetStatus, UpdateRequest, RemoveRequest, ClearZone,
        Maintenance, RemoveDoomed, Elapse, BackendInv, BackendTypeOK

LEMMA NextDispatchesInOrder ==
    BackendInv /\ [BackendNext]_backendVars => [StepDispatchesInOrder]_backendVars
  <1> SUFFICES ASSUME BackendInv, BackendNext,
                      NEW id \in Ids, NEW other \in Ids, Dispatched(id), other # id,
                      Ready(other), Queued(other), ZoneOf[other] = ZoneOf[id],
                      PriorityOf[other] \in 1..10, ~(PriorityOf[other] < PriorityOf[id])
               PROVE  Precedes(QueueOf(id), id, other)
    BY DEF StepDispatchesInOrder
  <1>1. Chosen(ZoneOf[id], id)
    BY DispatchedIsChosen
  <1>2. /\ PriorityOf[id] \in Nat /\ PriorityOf[other] \in Levels
        /\ PriorityOf[id] \in Levels
    BY <1>1, PlacementAssumption DEF Levels, Chosen
  <1>3. PICK j \in DOMAIN QueueOf(other) : QueueOf(other)[j] = other
    BY DEF Queued, ToSet
  <1>4. PriorityOf[other] = PriorityOf[id]
    <2>1. ~(PriorityOf[other] > PriorityOf[id])
      BY <1>1, <1>2, <1>3 DEF Chosen, QueueOf
    <2> QED
      BY <1>2, <2>1 DEF Levels
  <1>5. QueueOf(other) = QueueOf(id) /\ QueueOf(id) \in Seq(Ids)
    BY <1>4, QueueFacts DEF QueueOf, BackendInv
  <1>6. PICK i \in DOMAIN QueueOf(id) : /\ QueueOf(id)[i] = id
                                       /\ \A k \in 1..(i - 1) : ~Ready(QueueOf(id)[k])
    BY <1>1 DEF Chosen, QueueOf
  <1>7. j \in Nat /\ i \in Nat /\ j >= 1 /\ i # j /\ j \notin 1..(i - 1)
    BY <1>3, <1>5, <1>6
  <1>8. i < j
    BY <1>7
  <1> QED
    BY <1>3, <1>5, <1>6, <1>8 DEF Precedes

(* Under every sequence of calls, two requests that wait in one queue keep *)
(* their order, also when one is enqueued again; and a request is handed   *)
(* out only when no ready request of its zone has a higher priority or has *)
(* waited longer with the same one.                                        *)
THEOREM ServedInOrder == BackendSpec => OrderKept /\ DispatchInOrder
  <1>1. BackendInit => BackendInv
    BY BackendInitHolds
  <1> QED
    BY <1>1, BackendNextKeeps, NextKeepsOrder, NextDispatchesInOrder, PTL
    DEF BackendSpec, OrderKept, DispatchInOrder
=============================================================================
