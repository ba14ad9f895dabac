------------------------- MODULE QueueManagerProofs -------------------------
(***************************************************************************)
(* Proofs about QueueManager, each part on top of the ones before it:      *)
(*                                                                         *)
(*   TypeCorrect, OneOwner   types; a request is in one place              *)
(*   Refinement              the manager implements RequestLifecycle       *)
(*   CountedExactly          the status indexes count what is stored       *)
(*   MarkedWhileExecuting    the record under a processor (in process)     *)
(*   TimersFindTheirRequest  no timer callback is rejected (in process)    *)
(*   AnsweredWhenCompleted   completed requests are answered (in process)  *)
(*                                                                         *)
(* The first three say nothing of the store's timing.  The others need     *)
(* that the turns of the event loop do not mix (OneChain), and rest on     *)
(* three lemmas that list what one step can do to a tick, to a record and  *)
(* to the timers of a request: StepWorkers, StepRecordsOne, StepTracking.  *)
(***************************************************************************)
EXTENDS QueueManager, MemoryBackendProofs

(* A tick in progress has a request.                                       *)
BusyKnown == \A w \in Workers : workers[w].pc # "idle" => workers[w].id \in Ids

TypeInv == TypeOK /\ QueuesSound /\ IndexesCover /\ BusyKnown

(* A request whose enqueue call has not reached the store is nowhere yet.  *)
UnbornNowhere ==
    \A id \in Ids : Unborn(id) => ~Queued(id) /\ ~Held(id) /\ ~Deferred(id)

OwnerInv == ExclusiveOwner /\ UnbornNowhere

(* The queue is as it was, as far as Queued can tell.                      *)
SameQueued == \A j \in Ids : Queued(j)' <=> Queued(j)

(* Nobody is given a request it did not have before.                       *)
NobodyGains ==
    /\ \A j \in Ids : Queued(j)' => Queued(j)
    /\ \A w \in Workers, j \in Ids : Holds(w, j)' => Holds(w, j)
    /\ deferTimers' \subseteq deferTimers
    /\ \A j \in Ids : Unborn(j)' => Unborn(j)

-----------------------------------------------------------------------------
(* Most steps only ever take a request away from somebody, and keep it in  *)
(* one place.                                                              *)
LEMMA NobodyGainsKeepsOwner ==
    ASSUME OwnerInv, NobodyGains
    PROVE  OwnerInv'
  <1>1. ExclusiveOwner'
    BY DEF OwnerInv, NobodyGains, ExclusiveOwner, Held, Deferred
  <1>2. UnbornNowhere'
    BY DEF OwnerInv, NobodyGains, UnbornNowhere, Held, Deferred
  <1> QED
    BY <1>1, <1>2 DEF OwnerInv

(* A step that leaves the store alone keeps what is known of it.           *)
LEMMA BackendUnchanged ==
    ASSUME BackendInv, UNCHANGED backendVars
    PROVE  BackendInv' /\ SameQueued
  BY DEF backendVars, BackendInv, BackendTypeOK, QueuesSound, IndexesCover,
         Stored, SameQueued, Queued, QueueOf

(* Moving a tick that has a request to another point of its course, or     *)
(* ending it, gives no tick a request.                                     *)
LEMMA WorkerMoves ==
    ASSUME TypeInv, NEW w \in Workers, workers[w].pc # "idle",
           \/ \E pc \in {"deferring", "starting", "executing", "succeeded",
                         "failed", "completing", "retrying", "abandoning"} :
                Proceed(w, pc)
           \/ Finish(w)
    PROVE  /\ workers' \in [Workers -> Worker]
           /\ BusyKnown'
           /\ \A v \in Workers, j \in Ids : Holds(v, j)' => Holds(v, j)
  <1>1. workers \in [Workers -> Worker]
    BY DEF TypeInv, TypeOK
  <1>2. CASE Finish(w)
    <2>1. Idle \in Worker /\ Idle.pc = "idle"
      BY DEF Idle, Worker
    <2> QED
      BY <1>1, <1>2, <2>1 DEF Finish, BusyKnown, Holds, TypeInv
  <1>3. ASSUME NEW pc \in {"deferring", "starting", "executing", "succeeded",
                           "failed", "completing", "retrying", "abandoning"},
               Proceed(w, pc)
        PROVE  /\ workers' \in [Workers -> Worker]
               /\ BusyKnown'
               /\ \A v \in Workers, j \in Ids : Holds(v, j)' => Holds(v, j)
    BY <1>1, <1>3 DEF Proceed, BusyKnown, Holds, TypeInv, Worker
  <1> QED
    BY <1>2, <1>3

(* A tick records something of its request, or finds it gone and ends.     *)
LEMMA UpdateOrGiveUpEffect ==
    ASSUME TypeInv, NEW w \in Workers, workers[w].pc # "idle", NEW r,
           Stored(workers[w].id) => r \in Request,
           NEW pc \in {"deferring", "starting", "executing", "succeeded",
                       "failed", "completing", "retrying", "abandoning"},
           UpdateOrGiveUp(w, r, pc)
    PROVE  /\ BackendInv' /\ SameQueued
           /\ workers' \in [Workers -> Worker]
           /\ BusyKnown'
           /\ \A v \in Workers, j \in Ids : Holds(v, j)' => Holds(v, j)
  <1>1. workers[w].id \in Ids /\ BackendInv
    BY DEF TypeInv, TypeOK, BusyKnown, BackendInv
  <1>2. CASE UpdateRequest(workers[w].id, r) /\ Proceed(w, pc)
    <2>1. r \in Request
      BY <1>2 DEF UpdateRequest
    <2>2. BackendInv' /\ SameQueued
      BY <1>1, <1>2, <2>1, UpdateEffect DEF SameQueued
    <2> QED
      BY <1>2, <2>2, WorkerMoves
  <1>3. CASE Finish(w) /\ UNCHANGED backendVars
    BY <1>1, <1>3, WorkerMoves, BackendUnchanged
  <1> QED
    BY <1>2, <1>3 DEF UpdateOrGiveUp

(* A stored record with some fields changed is a record.                   *)
LEMMA RecordChange ==
    ASSUME BackendTypeOK, NEW id \in Ids, Stored(id),
           NEW status \in Statuses, NEW phase \in Phases
    PROVE  /\ [requests[id] EXCEPT !.status = status] \in Request
           /\ [requests[id] EXCEPT !.status = status,
                                   !.scheduledAt = phase] \in Request
  BY DEF BackendTypeOK, Stored, Request

(* Every status the manager writes is a status of the store.               *)
LEMMA StatusWords ==
    /\ "pending" \in Statuses /\ "processing" \in Statuses
    /\ "completed" \in Statuses /\ "failed" \in Statuses
    /\ "retrying" \in Statuses /\ "expired" \in Statuses
    /\ "cancelled" \in Statuses
    /\ "future" \in Phases /\ "due" \in Phases
  BY DEF Statuses, Phases

(* Writing a status moves the request between the status indexes only.     *)
LEMMA SetStatusEffect ==
    ASSUME BackendInv, NEW id \in Ids, NEW status \in Statuses,
           SetStatus(id, status)
    PROVE  BackendInv' /\ SameQueued
  <1>1. Stored(id)
    BY DEF SetStatus, UpdateRequest
  <1>2. [requests[id] EXCEPT !.status = status] \in Request
    BY <1>1 DEF BackendInv, BackendTypeOK, Stored, Request
  <1> QED
    BY <1>2, UpdateEffect DEF SetStatus, SameQueued

(* Taking the snapshot of a removal loop changes nothing else.             *)
LEMMA SnapshotEffect ==
    ASSUME BackendInv, Maintenance \/ \E zone \in Zones : ClearZone(zone)
    PROVE  BackendInv' /\ SameQueued
  <1>1. /\ UNCHANGED <<requests, priorityQueues, statusIndexes, zoneIndexes>>
        /\ doomed' \in [Loops -> SUBSET Ids]
    BY DEF Maintenance, ClearZone, BackendInv, BackendTypeOK, Lapsed
  <1> QED
    BY <1>1 DEF BackendInv, BackendTypeOK, QueuesSound, IndexesCover, Stored,
                SameQueued, Queued, QueueOf

(* Forgetting a request leaves a record of the same type.                  *)
LEMMA CleanupTyped ==
    ASSUME tracking \in [Ids -> Tracking], NEW id \in Ids
    PROVE  /\ Released(tracking[id]) \in Tracking
           /\ CleanupRequest(id) => tracking' \in [Ids -> Tracking]
  <1>1. tracking[id] \in Tracking
    OBVIOUS
  <1>2. Released(tracking[id]) \in Tracking
    BY <1>1 DEF Released, Tracking
  <1> QED
    BY <1>2 DEF CleanupRequest

-----------------------------------------------------------------------------
(* The enqueue call.  Only Create gives a request to somebody.             *)
LEMMA EnqueueStepsKeep ==
    ASSUME TypeInv, NEW id \in Ids,
           \/ Submit(id) \/ HandleQueueFull(id) \/ RefuseFull(id)
           \/ SweepCleanup(id) \/ Join(id) \/ Accept(id)
    PROVE  TypeInv' /\ NobodyGains
  <1> USE DEF callerVars, dedupVars, controlVars
  <1>1. TypeOK /\ BackendInv /\ BusyKnown
    BY DEF TypeInv, TypeOK, BackendInv
  <1>2. UNCHANGED backendVars /\ UNCHANGED <<workers, deferTimers>>
    BY DEF Submit, HandleQueueFull, RefuseFull, SweepCleanup, Join, Accept
  <1>3. BackendInv' /\ SameQueued
    BY <1>1, <1>2, BackendUnchanged
  <1>4. /\ UNCHANGED <<dedupTimers, aged, cancel, clearing, manager,
                      isProcessing, requestDeduplication>>
    BY DEF Submit, HandleQueueFull, RefuseFull, SweepCleanup, Join, Accept
  <1>5. tracking' \in [Ids -> Tracking]
    <2>1. tracking' = tracking \/ \E j \in Ids : CleanupRequest(j)
      BY <1>1 DEF TypeOK, Call, Submit, HandleQueueFull, RefuseFull,
                  SweepCleanup, Join, Accept
    <2> QED
      BY <1>1, <2>1, CleanupTyped DEF TypeOK
  <1>6. promises' \in [Ids -> Promises]
    <2>1. promises \in [Ids -> Promises]
      BY <1>1 DEF TypeOK
    <2>2. CASE Submit(id)
      BY <2>1, <2>2 DEF Submit, Promises
    <2>3. CASE HandleQueueFull(id) \/ SweepCleanup(id)
      BY <2>1, <2>3 DEF HandleQueueFull, SweepCleanup
    <2>4. ASSUME RejectOuter(id) PROVE promises' \in [Ids -> Promises]
      BY <2>1, <2>4 DEF RejectOuter, Promises
    <2>5. CASE Join(id)
      <3>1. PICK twin \in Ids :
              promises' = [promises EXCEPT ![id].outer = "following", ![id].of = twin]
        BY <2>5 DEF Join
      <3>2. [promises[id] EXCEPT !.outer = "following", !.of = twin] \in Promises
        BY <2>1 DEF Promises
      <3> QED
        BY <2>1, <3>1, <3>2
    <2>6. CASE Accept(id) /\ ~RejectOuter(id)
      <3>1. [promises[id] EXCEPT !.outer = "following", !.of = id] \in Promises
        BY <2>1 DEF Promises
      <3> QED
        BY <2>1, <2>6, <3>1 DEF Accept
    <2> QED
      BY <2>2, <2>3, <2>4, <2>5, <2>6 DEF RefuseFull
  <1>7. call' \in [Ids -> Call] /\ \A j \in Ids : Unborn(j)' => Unborn(j)
    <2>1. call \in [Ids -> Call]
      BY <1>1 DEF TypeOK
    <2>2. CASE HandleQueueFull(id)
      <3> DEFINE left == WithStatus({"pending", "retrying"}) \cap aged
                 pc == IF left = {} THEN "refused" ELSE "sweeping"
      <3>1. left \subseteq Ids
        BY <1>1 DEF TypeOK
      <3>2. call' = [call EXCEPT ![id] =
                       [[call[id] EXCEPT !.pc = pc] EXCEPT !.left = left]]
        BY <2>1, <2>2 DEF HandleQueueFull
      <3>3. [[call[id] EXCEPT !.pc = pc] EXCEPT !.left = left] \in Call
        <4>1. call[id] \in Call
          BY <2>1
        <4> HIDE DEF left
        <4> QED
          BY <3>1, <4>1 DEF Call
      <3>4. Unborn(id)
        BY <2>2 DEF HandleQueueFull, Unborn
      <3> HIDE DEF left, pc
      <3> QED
        BY <2>1, <3>2, <3>3, <3>4 DEF Unborn
    <2>3. CASE Submit(id)
      BY <2>1, <2>3 DEF Submit, Call, Unborn
    <2>4. CASE SweepCleanup(id)
      BY <2>1, <2>4 DEF SweepCleanup, Call, Unborn
    <2>5. CASE RefuseFull(id) \/ Join(id) \/ Accept(id)
      BY <2>1, <2>5 DEF RefuseFull, Join, Accept, Call, Unborn
    <2> QED
      BY <2>2, <2>3, <2>4, <2>5
  <1>8. TypeInv'
    BY <1>1, <1>2, <1>3, <1>4, <1>5, <1>6, <1>7
       DEF TypeInv, TypeOK, BackendInv, BusyKnown
  <1> QED
    BY <1>2, <1>3, <1>7, <1>8 DEF NobodyGains, SameQueued, Holds

(* Removing an overage request takes it from its queue.                    *)
LEMMA SweepKeeps ==
    ASSUME TypeInv, NEW id \in Ids, NEW victim \in Ids,
           SweepRemove(id, victim)
    PROVE  TypeInv' /\ NobodyGains
  <1> USE DEF callerVars, dedupVars, controlVars
  <1>1. TypeOK /\ BackendInv /\ BusyKnown
    BY DEF TypeInv, TypeOK, BackendInv
  <1>2. Erase(victim) /\ doomed' = doomed
    BY DEF SweepRemove
  <1>3. BackendInv' /\ \A j \in Ids : Queued(j)' <=> Queued(j) /\ j # victim
    BY <1>1, <1>2, EraseEffect DEF BackendInv, BackendTypeOK
  <1>4. call' \in [Ids -> Call] /\ \A j \in Ids : Unborn(j)' => Unborn(j)
    <2> DEFINE r == [[call[id] EXCEPT !.left = call[id].left \ {victim}]
                       EXCEPT !.hand = victim]
    <2>1. call \in [Ids -> Call]
      BY <1>1 DEF TypeOK
    <2>2. call' = [call EXCEPT ![id] = r] /\ call[id].pc = "sweeping"
      BY <2>1 DEF SweepRemove
    <2>3. r \in Call
      <3>1. call[id] \in Call
        BY <2>1
      <3> QED
        BY <3>1 DEF Call
    <2> HIDE DEF r
    <2> QED
      BY <2>1, <2>2, <2>3 DEF Unborn
  <1>5. UNCHANGED <<promises, tracking, deferTimers, workers, dedupTimers,
                    requestDeduplication, aged, cancel, clearing, manager,
                    isProcessing>>
    BY DEF SweepRemove
  <1> QED
    BY <1>1, <1>3, <1>4, <1>5
       DEF TypeInv, TypeOK, BackendInv, BusyKnown, NobodyGains, Holds

(* A new request is queued and nowhere else.                               *)
LEMMA CreateKeeps ==
    ASSUME TypeInv, NEW id \in Ids, Create(id)
    PROVE  TypeInv' /\ (OwnerInv => OwnerInv')
  <1> USE DEF callerVars, dedupVars, controlVars
  <1>1. TypeOK /\ BackendInv /\ BusyKnown
    BY DEF TypeInv, TypeOK, BackendInv
  <1>2. PICK phase \in SubmitPhases : Enqueue(id, NewRequest("pending", phase, 0))
    BY DEF Create
  <1>3. NewRequest("pending", phase, 0) \in Request
    BY ManagerAssumption, StatusWords DEF NewRequest, Request
  <1>4. BackendInv' /\ \A j \in Ids : Queued(j)' <=> Queued(j) \/ j = id
    BY <1>1, <1>2, <1>3, EnqueueEffect
  <1>5. UNCHANGED <<promises, deferTimers, workers, aged, cancel, clearing,
                    manager, isProcessing>>
    BY DEF Create
  <1>6. /\ call' \in [Ids -> Call]
        /\ tracking' \in [Ids -> Tracking]
        /\ requestDeduplication' \in [Fingerprints -> Ids \cup {NoId}]
        /\ dedupTimers' \subseteq Ids
    <2>1. call' \in [Ids -> Call]
      <3>1. call \in [Ids -> Call] /\ call' = [call EXCEPT ![id].pc = "storing"]
        BY <1>1 DEF TypeOK, Create
      <3>2. [call[id] EXCEPT !.pc = "storing"] \in Call
        BY <3>1 DEF Call
      <3> QED
        BY <3>1, <3>2
    <2>2. tracking' \in [Ids -> Tracking]
      <3>1. tracking \in [Ids -> Tracking]
        BY <1>1 DEF TypeOK
      <3>2. [active |-> TRUE, handle |-> "timeout", timeout |-> "set",
             retry |-> "off"] \in Tracking
        BY DEF Tracking
      <3> QED
        BY <3>1, <3>2 DEF Create
    <2>3. requestDeduplication' \in [Fingerprints -> Ids \cup {NoId}]
      BY <1>1 DEF TypeOK, Create
    <2>4. dedupTimers' \subseteq Ids
      BY <1>1 DEF TypeOK, Create
    <2> QED
      BY <2>1, <2>2, <2>3, <2>4
  <1>7. TypeInv'
    BY <1>1, <1>4, <1>5, <1>6 DEF TypeInv, TypeOK, BackendInv, BusyKnown
  <1>8. Unborn(id) /\ \A j \in Ids : Unborn(j)' => Unborn(j) /\ j # id
    BY <1>1 DEF TypeOK, Create, HasRoom, Unborn
  <1>9. ASSUME OwnerInv PROVE OwnerInv'
    <2>1. ~Held(id) /\ ~Deferred(id)
      BY <1>8, <1>9 DEF OwnerInv, UnbornNowhere
    <2>2. \A j \in Ids : (Held(j)' <=> Held(j)) /\ (Deferred(j)' <=> Deferred(j))
      BY <1>5 DEF Held, Deferred, Holds
    <2>3. ExclusiveOwner'
      BY <1>4, <1>5, <1>9, <2>1, <2>2 DEF OwnerInv, ExclusiveOwner, Holds
    <2>4. UnbornNowhere'
      BY <1>4, <1>8, <1>9, <2>2 DEF OwnerInv, UnbornNowhere
    <2> QED
      BY <2>3, <2>4 DEF OwnerInv
  <1> QED
    BY <1>7, <1>9

-----------------------------------------------------------------------------
(* The ticks.                                                              *)

(* A step of a tick that touches the store and the tick only.              *)
LEMMA RecordingKeeps ==
    ASSUME TypeInv, NEW w \in Workers,
           \/ CanExecute(w) \/ RescheduleRequest(w) \/ HandleRequestSuccess(w)
           \/ ScheduleRetry(w) \/ HandleRequestFailure(w)
    PROVE  TypeInv' /\ NobodyGains /\ SameQueued
  <1> DEFINE Effect == /\ BackendInv' /\ SameQueued
                       /\ workers' \in [Workers -> Worker]
                       /\ BusyKnown'
                       /\ \A v \in Workers, j \in Ids : Holds(v, j)' => Holds(v, j)
  <1>1. /\ TypeOK /\ BackendTypeOK /\ BusyKnown
        /\ workers \in [Workers -> Worker]
    BY DEF TypeInv, TypeOK
  <1>2. workers[w].pc # "idle"
    BY DEF CanExecute, RescheduleRequest, HandleRequestSuccess, ScheduleRetry,
           HandleRequestFailure
  <1>3. workers[w].id \in Ids /\ workers[w].retries \in Nat
    BY <1>1, <1>2 DEF BusyKnown, Worker
  <1>4. ASSUME CanExecute(w) PROVE Effect
    <2>1. Stored(workers[w].id)
            => [Of(w) EXCEPT !.status = "processing"] \in Request
      BY <1>1, <1>3, RecordChange, StatusWords DEF Of
    <2> QED
      BY <1>2, <1>4, <2>1, UpdateOrGiveUpEffect DEF CanExecute
  <1>5. ASSUME RescheduleRequest(w) PROVE Effect
    <2>1. Stored(workers[w].id)
            => [Of(w) EXCEPT !.status = "pending", !.scheduledAt = "future"]
                 \in Request
      BY <1>1, <1>3, RecordChange, StatusWords DEF Of
    <2> QED
      BY <1>2, <1>5, <2>1, UpdateOrGiveUpEffect DEF RescheduleRequest
  <1>6. ASSUME HandleRequestSuccess(w) PROVE Effect
    <2>1. Stored(workers[w].id)
            => [Of(w) EXCEPT !.status = "completed"] \in Request
      BY <1>1, <1>3, RecordChange, StatusWords DEF Of
    <2> QED
      BY <1>2, <1>6, <2>1, UpdateOrGiveUpEffect DEF HandleRequestSuccess
  <1>7. ASSUME ScheduleRetry(w) PROVE Effect
    <2>1. NewRequest("retrying", "future", workers[w].retries + 1) \in Request
      BY <1>3, StatusWords DEF NewRequest, Request
    <2> QED
      BY <1>2, <1>7, <2>1, UpdateOrGiveUpEffect DEF ScheduleRetry
  <1>8. ASSUME HandleRequestFailure(w) PROVE Effect
    <2>1. Stored(workers[w].id)
            => [Of(w) EXCEPT !.status = "failed"] \in Request
      BY <1>1, <1>3, RecordChange, StatusWords DEF Of
    <2> QED
      BY <1>2, <1>8, <2>1, UpdateOrGiveUpEffect DEF HandleRequestFailure
  <1>9. Effect
    BY <1>4, <1>5, <1>6, <1>7, <1>8
  <1>10. UNCHANGED <<tracking, deferTimers, call, promises, dedupTimers,
                     requestDeduplication, aged, cancel, clearing, manager,
                     isProcessing>>
    BY DEF CanExecute, RescheduleRequest, HandleRequestSuccess, ScheduleRetry,
           HandleRequestFailure, OnlyWorkers, callerVars, dedupVars,
           controlVars
  <1> QED
    BY <1>1, <1>9, <1>10
       DEF TypeInv, TypeOK, BackendInv, NobodyGains, SameQueued, Unborn

(* A step of a tick that leaves the store alone.                           *)
LEMMA TickStepKeeps ==
    ASSUME TypeInv, NEW w \in Workers,
           \/ StartProcessor(w) \/ ProcessorResolves(w) \/ ProcessorFails(w)
           \/ Completed(w) \/ SetRetryTimer(w) \/ Abandoned(w)
    PROVE  TypeInv' /\ NobodyGains
  <1> USE DEF callerVars, dedupVars, controlVars
  <1>1. /\ TypeOK /\ BackendInv /\ BusyKnown
        /\ promises \in [Ids -> Promises] /\ tracking \in [Ids -> Tracking]
    BY DEF TypeInv, TypeOK, BackendInv
  <1>2. workers[w].pc # "idle" /\ UNCHANGED backendVars
    BY DEF StartProcessor, ProcessorResolves, ProcessorFails, Completed,
           SetRetryTimer, Abandoned
  <1>3. workers[w].id \in Ids
    BY <1>1, <1>2 DEF BusyKnown
  <1>4. BackendInv' /\ SameQueued
    BY <1>1, <1>2, BackendUnchanged
  <1>5. \/ \E pc \in {"deferring", "starting", "executing", "succeeded",
                     "failed", "completing", "retrying", "abandoning"} :
             Proceed(w, pc)
        \/ Finish(w)
    BY DEF StartProcessor, ProcessorResolves, ProcessorFails, Completed,
           SetRetryTimer, Abandoned
  <1>6. /\ workers' \in [Workers -> Worker]
        /\ BusyKnown'
        /\ \A v \in Workers, j \in Ids : Holds(v, j)' => Holds(v, j)
    BY <1>2, <1>5, WorkerMoves
  <1>7. UNCHANGED <<call, deferTimers, dedupTimers, requestDeduplication,
                    aged, cancel, clearing, manager, isProcessing>>
    BY DEF StartProcessor, ProcessorResolves, ProcessorFails, Completed,
           SetRetryTimer, Abandoned, OnlyWorkers
  <1>8. promises' \in [Ids -> Promises]
    <2>1. \/ promises' = promises
          \/ \E result \in {"resolved", "rejected"} :
               SettleInner(workers[w].id, result)
      BY DEF StartProcessor, ProcessorResolves, ProcessorFails, Completed,
             SetRetryTimer, Abandoned, OnlyWorkers
    <2>2. ASSUME NEW result \in {"resolved", "rejected"},
                 SettleInner(workers[w].id, result)
          PROVE  promises' \in [Ids -> Promises]
      BY <1>1, <1>3, <2>2 DEF SettleInner, Promises
    <2> QED
      BY <1>1, <2>1, <2>2
  <1>9. tracking' \in [Ids -> Tracking]
    <2>1. CASE SetRetryTimer(w)
      BY <1>1, <1>3, <2>1 DEF SetRetryTimer, Tracking
    <2>2. CASE ~SetRetryTimer(w)
      <3>1. tracking' = tracking \/ CleanupRequest(workers[w].id)
        BY <2>2 DEF StartProcessor, ProcessorResolves, ProcessorFails,
                    Completed, Abandoned, OnlyWorkers
      <3> QED
        BY <1>1, <1>3, <3>1, CleanupTyped
    <2> QED
      BY <2>1, <2>2
  <1> QED
    BY <1>1, <1>4, <1>6, <1>7, <1>8, <1>9
       DEF TypeInv, TypeOK, BackendInv, NobodyGains, SameQueued, Unborn

(* A tick takes a waiting request: nobody else has it.                     *)
LEMMA TickKeeps ==
    ASSUME TypeInv, NEW w \in Workers, NEW id \in Ids, Tick(w, id)
    PROVE  TypeInv' /\ (OwnerInv => OwnerInv')
  <1>1. /\ TypeOK /\ BackendInv /\ BusyKnown
        /\ workers \in [Workers -> Worker]
    BY DEF TypeInv, TypeOK, BackendInv
  <1>2. workers[w].pc = "idle" /\ Dequeue(DefaultZone, id)
    BY DEF Tick
  <1>3. /\ BackendInv' /\ Queued(id) /\ Stored(id)
        /\ \A j \in Ids : Queued(j)' <=> Queued(j) /\ j # id
    BY <1>1, <1>2, DequeueEffect, ManagerAssumption
       DEF Ready, HasStatus
  <1>4. requests[id].retryCount \in Nat
    BY <1>1, <1>3 DEF BackendInv, BackendTypeOK, Stored, Request
  <1>5. UNCHANGED <<tracking, deferTimers, call, promises, dedupTimers,
                    requestDeduplication, aged, cancel, clearing, manager,
                    isProcessing>>
    BY DEF Tick, OnlyWorkers, callerVars, dedupVars, controlVars
  <1>6. workers' = [workers EXCEPT ![w] =
                      [pc |-> "claimed", id |-> id,
                       retries |-> requests[id].retryCount]]
    BY DEF Tick
  <1>7. /\ workers' \in [Workers -> Worker]
        /\ BusyKnown'
        /\ \A v \in Workers, j \in Ids :
             Holds(v, j)' <=> Holds(v, j) \/ (v = w /\ j = id)
    BY <1>1, <1>2, <1>4, <1>6 DEF BusyKnown, Holds, Worker
  <1>8. TypeInv'
    BY <1>1, <1>3, <1>5, <1>7 DEF TypeInv, TypeOK, BackendInv
  <1>9. ASSUME OwnerInv PROVE OwnerInv'
    <2>1. ~Held(id) /\ ~Deferred(id) /\ ~Unborn(id)
      BY <1>3, <1>9 DEF OwnerInv, ExclusiveOwner, UnbornNowhere
    <2>2. \A j \in Ids : /\ Held(j)' <=> Held(j) \/ j = id
                         /\ Deferred(j)' <=> Deferred(j)
                         /\ Unborn(j)' <=> Unborn(j)
      BY <1>5, <1>7 DEF Held, Deferred, Unborn
    <2>3. \A j \in Ids, u, v \in Workers : Holds(u, j)' /\ Holds(v, j)' => u = v
      BY <1>7, <1>9, <2>1 DEF OwnerInv, ExclusiveOwner, Held
    <2>4. ExclusiveOwner'
      BY <1>3, <1>5, <1>9, <2>1, <2>2, <2>3 DEF OwnerInv, ExclusiveOwner
    <2>5. UnbornNowhere'
      BY <1>3, <1>9, <2>1, <2>2 DEF OwnerInv, UnbornNowhere
    <2> QED
      BY <2>4, <2>5 DEF OwnerInv
  <1> QED
    BY <1>8, <1>9

(* A tick sets its request aside: the delay timer has it in its stead.     *)
LEMMA SetDeferTimerKeeps ==
    ASSUME TypeInv, NEW w \in Workers, SetDeferTimer(w)
    PROVE  TypeInv' /\ (OwnerInv => OwnerInv')
  <1> DEFINE id == workers[w].id
             timer == [id |-> id, retries |-> workers[w].retries]
  <1>1. /\ TypeOK /\ BackendInv /\ BusyKnown
        /\ workers \in [Workers -> Worker]
        /\ deferTimers \subseteq [id : Ids, retries : Nat]
    BY DEF TypeInv, TypeOK, BackendInv
  <1>2. /\ workers[w].pc # "idle" /\ Finish(w)
        /\ deferTimers' = deferTimers \cup {timer}
    BY DEF SetDeferTimer
  <1>3. id \in Ids /\ workers[w].retries \in Nat /\ Holds(w, id)
    BY <1>1, <1>2 DEF BusyKnown, Worker, Holds
  <1>4. BackendInv' /\ SameQueued
    BY <1>1, BackendUnchanged DEF SetDeferTimer
  <1>5. UNCHANGED <<tracking, call, promises, dedupTimers,
                    requestDeduplication, aged, cancel, clearing, manager,
                    isProcessing>>
    BY DEF SetDeferTimer, callerVars, dedupVars, controlVars
  <1>6. /\ workers' \in [Workers -> Worker]
        /\ BusyKnown'
        /\ \A v \in Workers, j \in Ids : Holds(v, j)' => Holds(v, j) /\ v # w
    <2>1. Idle \in Worker /\ Idle.pc = "idle"
      BY DEF Idle, Worker
    <2> QED
      BY <1>1, <1>2, <2>1 DEF Finish, BusyKnown, Holds
  <1>7. deferTimers' \subseteq [id : Ids, retries : Nat]
    BY <1>1, <1>2, <1>3
  <1>8. TypeInv'
    BY <1>1, <1>4, <1>5, <1>6, <1>7 DEF TypeInv, TypeOK, BackendInv
  <1>9. ASSUME OwnerInv PROVE OwnerInv'
    <2>1. /\ ~Queued(id) /\ ~Deferred(id) /\ ~Unborn(id)
          /\ \A v \in Workers : Holds(v, id) => v = w
      BY <1>3, <1>9 DEF OwnerInv, ExclusiveOwner, UnbornNowhere, Held
    <2>2. \A j \in Ids : /\ Held(j)' => Held(j) /\ j # id
                         /\ Deferred(j)' <=> Deferred(j) \/ j = id
                         /\ Unborn(j)' <=> Unborn(j)
      <3>1. \A j \in Ids : Held(j)' => Held(j) /\ j # id
        BY <1>6, <2>1 DEF Held
      <3>2. \A j \in Ids : Deferred(j)' <=> Deferred(j) \/ j = id
        <4>1. timer.id = id
          OBVIOUS
        <4> HIDE DEF timer
        <4> QED
          BY <1>2, <4>1 DEF Deferred
      <3>3. \A j \in Ids : Unborn(j)' <=> Unborn(j)
        BY <1>5 DEF Unborn
      <3> QED
        BY <3>1, <3>2, <3>3
    <2>3. \A j \in Ids, s, t \in deferTimers' : s.id = j /\ t.id = j => s = t
      BY <1>2, <1>9, <2>1 DEF OwnerInv, ExclusiveOwner, Deferred
    <2>4. ExclusiveOwner'
      BY <1>4, <1>6, <1>9, <2>1, <2>2, <2>3
         DEF OwnerInv, ExclusiveOwner, SameQueued
    <2>5. UnbornNowhere'
      BY <1>4, <1>9, <2>1, <2>2 DEF OwnerInv, UnbornNowhere, SameQueued
    <2> QED
      BY <2>4, <2>5 DEF OwnerInv
  <1> QED
    BY <1>8, <1>9

-----------------------------------------------------------------------------
(* Timers.                                                                 *)

(* The delay timer puts its request back into the queue.                   *)
LEMMA DeferTimerKeeps ==
    ASSUME TypeInv, NEW timer \in deferTimers, DeferTimerFires(timer)
    PROVE  TypeInv' /\ (OwnerInv => OwnerInv')
  <1> DEFINE id == timer.id
  <1>1. /\ TypeOK /\ BackendInv /\ BusyKnown
        /\ deferTimers \subseteq [id : Ids, retries : Nat]
    BY DEF TypeInv, TypeOK, BackendInv
  <1>2. id \in Ids /\ timer.retries \in Nat /\ Deferred(id)
    BY <1>1 DEF Deferred
  <1>3. NewRequest("pending", "due", timer.retries) \in Request
    BY <1>2, StatusWords DEF NewRequest, Request
  <1>4. BackendInv' /\ \A j \in Ids : Queued(j)' <=> Queued(j) \/ j = id
    BY <1>1, <1>2, <1>3, EnqueueEffect DEF DeferTimerFires
  <1>5. /\ deferTimers' = deferTimers \ {timer}
        /\ UNCHANGED <<tracking, workers, call, promises, dedupTimers,
                       requestDeduplication, aged, cancel, clearing, manager,
                       isProcessing>>
    BY DEF DeferTimerFires, callerVars, dedupVars, controlVars
  <1>6. TypeInv'
    BY <1>1, <1>4, <1>5 DEF TypeInv, TypeOK, BackendInv, BusyKnown
  <1>7. ASSUME OwnerInv PROVE OwnerInv'
    <2>1. /\ ~Held(id) /\ ~Unborn(id)
          /\ \A t \in deferTimers : t.id = id => t = timer
      BY <1>2, <1>7 DEF OwnerInv, ExclusiveOwner, UnbornNowhere
    <2>2. \A j \in Ids : /\ Held(j)' <=> Held(j)
                         /\ Unborn(j)' <=> Unborn(j)
                         /\ \A v \in Workers : Holds(v, j)' <=> Holds(v, j)
      BY <1>5 DEF Held, Holds, Unborn
    <2>3. \A j \in Ids : Deferred(j)' => Deferred(j) /\ j # id
      BY <1>5, <2>1 DEF Deferred
    <2>4. ExclusiveOwner'
      BY <1>4, <1>5, <1>7, <2>1, <2>2, <2>3 DEF OwnerInv, ExclusiveOwner
    <2>5. UnbornNowhere'
      BY <1>4, <1>7, <2>1, <2>2, <2>3 DEF OwnerInv, UnbornNowhere
    <2> QED
      BY <2>4, <2>5 DEF OwnerInv
  <1> QED
    BY <1>6, <1>7

(* The retry and timeout timers change the record and their own state.     *)
LEMMA TimersKeep ==
    ASSUME TypeInv, NEW id \in Ids,
           \/ RetryTimerFires(id) \/ RetryAwake(id) \/ TimeoutFires(id)
           \/ TimeoutExpires(id) \/ TimeoutCleanup(id)
    PROVE  TypeInv' /\ NobodyGains
  <1> USE DEF callerVars, dedupVars, controlVars
  <1>1. /\ TypeOK /\ BackendInv /\ BusyKnown
        /\ promises \in [Ids -> Promises] /\ tracking \in [Ids -> Tracking]
    BY DEF TypeInv, TypeOK, BackendInv
  <1>2. BackendInv' /\ SameQueued
    <2>1. \/ UNCHANGED backendVars
          \/ \E status \in {"pending", "expired"} : SetStatus(id, status)
      BY DEF RetryTimerFires, RetryAwake, TimeoutFires, TimeoutExpires,
             TimeoutCleanup
    <2> QED
      BY <1>1, <2>1, BackendUnchanged, SetStatusEffect, StatusWords
  <1>3. UNCHANGED <<call, deferTimers, workers, dedupTimers,
                    requestDeduplication, aged, cancel, clearing, manager,
                    isProcessing>>
    BY DEF RetryTimerFires, RetryAwake, TimeoutFires, TimeoutExpires,
           TimeoutCleanup, OnlyTracking
  <1>4. promises' \in [Ids -> Promises]
    <2>1. promises' = promises \/ RejectOuter(id)
      BY DEF RetryTimerFires, RetryAwake, TimeoutFires, TimeoutExpires,
             TimeoutCleanup, OnlyTracking
    <2> QED
      BY <1>1, <2>1 DEF RejectOuter, Promises
  <1>5. tracking' \in [Ids -> Tracking]
    <2>1. CASE RetryTimerFires(id)
      <3>1. \E state \in {"waking", "threw"} :
              tracking' = [tracking EXCEPT ![id].retry = state]
        BY <2>1 DEF RetryTimerFires
      <3>2. ASSUME NEW state \in {"waking", "threw"}
            PROVE  [tracking[id] EXCEPT !.retry = state] \in Tracking
        BY <1>1 DEF Tracking
      <3> QED
        BY <1>1, <3>1, <3>2
    <2>2. CASE RetryAwake(id)
      <3>1. [tracking[id] EXCEPT !.retry = "off", !.handle = "none"] \in Tracking
        BY <1>1 DEF Tracking
      <3> QED
        BY <1>1, <2>2, <3>1 DEF RetryAwake
    <2>3. ASSUME NEW state \in {"off", "checking", "expiring", "threw"},
                 SetTimeoutState(id, state)
          PROVE  tracking' \in [Ids -> Tracking]
      BY <1>1, <2>3 DEF SetTimeoutState, Tracking
    <2>4. CASE TimeoutFires(id) \/ TimeoutExpires(id)
      BY <2>3, <2>4 DEF TimeoutFires, TimeoutExpires
    <2>5. CASE TimeoutCleanup(id)
      <3>1. Released(tracking[id]) \in Tracking
        BY <1>1, CleanupTyped
      <3>2. [Released(tracking[id]) EXCEPT !.timeout = "off"] \in Tracking
        BY <3>1 DEF Tracking
      <3> QED
        BY <1>1, <2>5, <3>2 DEF TimeoutCleanup
    <2> QED
      BY <2>1, <2>2, <2>4, <2>5
  <1> QED
    BY <1>1, <1>2, <1>3, <1>4, <1>5
       DEF TypeInv, TypeOK, BackendInv, BusyKnown, NobodyGains, SameQueued,
           Holds, Unborn

(* The other timers and the clock.                                         *)
LEMMA ClocksKeep ==
    ASSUME TypeInv, NEW id \in Ids,
           DedupWindowEnds(id) \/ ClockTick(id)
    PROVE  TypeInv' /\ NobodyGains
  <1> USE DEF callerVars, dedupVars, controlVars, managerVars
  <1>1. TypeOK /\ BackendInv /\ BusyKnown
    BY DEF TypeInv, TypeOK, BackendInv
  <1>2. BackendInv' /\ SameQueued
    <2>1. CASE UNCHANGED backendVars
      BY <1>1, <2>1, BackendUnchanged
    <2>3. CASE Elapse(id)
      BY <1>1, <2>3, ElapseEffect DEF SameQueued
    <2> QED
      BY <2>1, <2>3 DEF DedupWindowEnds, ClockTick
  <1>3. UNCHANGED <<call, promises, tracking, deferTimers, workers, cancel,
                    clearing, manager, isProcessing>>
    BY DEF DedupWindowEnds, ClockTick
  <1>4. /\ requestDeduplication' \in [Fingerprints -> Ids \cup {NoId}]
        /\ dedupTimers' \subseteq Ids /\ aged' \subseteq Ids
    BY <1>1, ManagerAssumption
       DEF TypeOK, DedupWindowEnds, ClockTick
  <1> QED
    BY <1>1, <1>2, <1>3, <1>4
       DEF TypeInv, TypeOK, BackendInv, BusyKnown, NobodyGains, SameQueued,
           Holds, Unborn

-----------------------------------------------------------------------------
(* The other calls of the client.                                          *)

(* cancelRequest changes the record and the tracking of one request.       *)
LEMMA CancelKeeps ==
    ASSUME TypeInv, NEW id \in Ids,
           CancelRequest(id) \/ CancelUpdates(id) \/ CancelCleanup(id)
    PROVE  TypeInv' /\ NobodyGains
  <1> USE DEF callerVars, dedupVars
  <1>1. /\ TypeOK /\ BackendInv /\ BusyKnown
        /\ tracking \in [Ids -> Tracking]
    BY DEF TypeInv, TypeOK, BackendInv
  <1>2. BackendInv' /\ SameQueued
    <2>1. UNCHANGED backendVars \/ SetStatus(id, "cancelled")
      BY DEF CancelRequest, CancelUpdates, CancelCleanup
    <2> QED
      BY <1>1, <2>1, BackendUnchanged, SetStatusEffect, StatusWords
  <1>3. UNCHANGED <<call, promises, deferTimers, workers, dedupTimers, aged,
                    requestDeduplication, clearing, manager, isProcessing>>
    BY DEF CancelRequest, CancelUpdates, CancelCleanup
  <1>4. tracking' \in [Ids -> Tracking]
    <2>1. tracking' = tracking \/ CleanupRequest(id)
      BY DEF CancelRequest, CancelUpdates, CancelCleanup
    <2> QED
      BY <1>1, <2>1, CleanupTyped
  <1>5. cancel' \in [Ids -> {"none", "reading", "updating", "cancelled",
                            "refused"}]
    BY <1>1 DEF TypeOK, CancelRequest, CancelUpdates, CancelCleanup
  <1> QED
    BY <1>1, <1>2, <1>3, <1>4, <1>5
       DEF TypeInv, TypeOK, BackendInv, BusyKnown, NobodyGains, SameQueued,
           Holds, Unborn

(* Forgetting every request leaves records of the same types.              *)
LEMMA ForgetAllTyped ==
    ASSUME TypeOK, ForgetAll
    PROVE  /\ tracking' \in [Ids -> Tracking]
           /\ requestDeduplication' \in [Fingerprints -> Ids \cup {NoId}]
  <1>1. \A id \in Ids : Released(tracking[id]) \in Tracking
    BY CleanupTyped DEF TypeOK
  <1> QED
    BY <1>1 DEF ForgetAll

(* clear and clear(zone), and the removals of the latter and of            *)
(* maintenance, take requests away and give none to anybody.               *)
LEMMA ClearingKeeps ==
    ASSUME TypeInv,
           \/ Clear \/ ClearForgets \/ MaintenanceTick
           \/ \E zone \in Zones : ClearOneZone(zone)
           \/ \E loop \in Loops, id \in Ids : LoopStep(loop, id)
    PROVE  TypeInv' /\ NobodyGains
  <1> USE DEF callerVars, dedupVars, controlVars, managerVars
  <1>1. TypeOK /\ BackendInv /\ BusyKnown
    BY DEF TypeInv, TypeOK, BackendInv
  <1>2. BackendInv' /\ \A j \in Ids : Queued(j)' => Queued(j)
    <2>1. CASE Clear
      BY <1>1, <2>1, ClearEffect DEF Clear
    <2>2. CASE ClearForgets
      BY <1>1, <2>2, BackendUnchanged DEF ClearForgets, SameQueued
    <2>3. ASSUME NEW zone \in Zones, ClearOneZone(zone)
          PROVE  BackendInv' /\ \A j \in Ids : Queued(j)' => Queued(j)
      BY <1>1, <2>3, SnapshotEffect DEF ClearOneZone, SameQueued
    <2>4. ASSUME NEW loop \in Loops, NEW id \in Ids, LoopStep(loop, id)
          PROVE  BackendInv' /\ \A j \in Ids : Queued(j)' => Queued(j)
      <3>1. Erase(id) /\ doomed' \in [Loops -> SUBSET Ids]
        BY <1>1, <2>4 DEF LoopStep, RemoveDoomed, BackendInv, BackendTypeOK
      <3> QED
        BY <1>1, <3>1, EraseEffect
    <2>5. CASE MaintenanceTick
      BY <1>1, <2>5, SnapshotEffect DEF MaintenanceTick, SameQueued
    <2> QED
      BY <2>1, <2>2, <2>3, <2>4, <2>5
  <1>3. UNCHANGED <<call, promises, deferTimers, workers, dedupTimers, aged,
                    cancel, manager, isProcessing>>
    BY DEF Clear, ClearForgets, ClearOneZone, LoopStep, MaintenanceTick
  <1>4. clearing' \in {"none", "clearing", "done"}
    BY <1>1 DEF TypeOK, Clear, ClearForgets, ClearOneZone, LoopStep,
                MaintenanceTick
  <1>5. /\ tracking' \in [Ids -> Tracking]
        /\ requestDeduplication' \in [Fingerprints -> Ids \cup {NoId}]
    <2>1. UNCHANGED <<tracking, requestDeduplication>> \/ ForgetAll
      BY DEF Clear, ClearForgets, ClearOneZone, LoopStep, MaintenanceTick
    <2> QED
      BY <1>1, <2>1, ForgetAllTyped DEF TypeOK
  <1> QED
    BY <1>1, <1>2, <1>3, <1>4, <1>5
       DEF TypeInv, TypeOK, BackendInv, BusyKnown, NobodyGains, Holds, Unborn

(* pause, resume and the steps of shutdown do not touch requests.          *)
LEMMA ControlKeeps ==
    ASSUME TypeInv,
           \/ PauseOrResume \/ Shutdown \/ ShutdownDrained
           \/ ShutdownTimesOut \/ CloseBackend
    PROVE  TypeInv' /\ NobodyGains
  <1> USE DEF callerVars, dedupVars, OnlyManager, ShutdownDrained,
              ShutdownTimesOut, EndDrain
  <1>1. TypeOK /\ BackendInv /\ BusyKnown
    BY DEF TypeInv, TypeOK, BackendInv
  <1>2. UNCHANGED <<call, promises, deferTimers, workers, dedupTimers, aged,
                    cancel, clearing>> /\ UNCHANGED backendVars
    BY DEF PauseOrResume, Shutdown, CloseBackend
  <1>3. BackendInv' /\ SameQueued
    BY <1>1, <1>2, BackendUnchanged
  <1>4. /\ manager' \in {"running", "draining", "closing", "closed"}
        /\ isProcessing' \in BOOLEAN
    BY <1>1 DEF TypeOK, PauseOrResume, Shutdown, CloseBackend
  <1>5. /\ tracking' \in [Ids -> Tracking]
        /\ requestDeduplication' \in [Fingerprints -> Ids \cup {NoId}]
    <2>1. UNCHANGED <<tracking, requestDeduplication>> \/ ForgetAll
      BY DEF PauseOrResume, Shutdown, CloseBackend
    <2> QED
      BY <1>1, <2>1, ForgetAllTyped DEF TypeOK
  <1> QED
    BY <1>1, <1>2, <1>3, <1>4, <1>5
       DEF TypeInv, TypeOK, BackendInv, BusyKnown, NobodyGains, SameQueued,
           Holds, Unborn

-----------------------------------------------------------------------------
(* The theorems.                                                           *)

(* Nothing is stored and nobody has anything initially.                    *)
LEMMA InitHolds ==
    ASSUME Init
    PROVE  TypeInv /\ OwnerInv
  <1>1. BackendInv /\ \A id \in Ids : ~Queued(id)
    <2>1. BackendInit
      BY DEF Init
    <2>2. \A z \in Zones, p \in Priorities : priorityQueues[z][p] = << >>
      BY <2>1 DEF BackendInit, NoQueues
    <2>3. \A id \in Ids : ~Queued(id)
      <3>1. \A id \in Ids : QueueOf(id) = << >>
        BY <2>2, PlacementAssumption DEF QueueOf
      <3>2. \A e : e \notin ToSet(<< >>)
        BY DEF ToSet
      <3> QED
        BY <3>1, <3>2 DEF Queued
    <2> QED
      BY <2>1, <2>3, BackendInitHolds
  <1>2. TypeOK /\ BusyKnown
    BY <1>1, ManagerAssumption
       DEF Init, TypeOK, BackendInv, BusyKnown, Call, Promises, Tracking,
           Untracked, Worker, Idle
  <1>3. \A id \in Ids : ~Held(id) /\ ~Deferred(id)
    BY DEF Init, Held, Holds, Deferred, Idle
  <1> QED
    BY <1>1, <1>2, <1>3
       DEF TypeInv, BackendInv, OwnerInv, ExclusiveOwner, UnbornNowhere,
           Held, Deferred

(* Every step keeps both invariants.                                       *)
LEMMA StepKeeps ==
    ASSUME TypeInv, [Next]_vars
    PROVE  TypeInv' /\ (OwnerInv => OwnerInv')
  <1> DEFINE Keeps == TypeInv' /\ (OwnerInv => OwnerInv')
  <1>0. ASSUME TypeInv' /\ NobodyGains PROVE Keeps
    BY <1>0, NobodyGainsKeepsOwner
  <1>1. ASSUME NEW id \in Ids, Submit(id) \/ EnqueueStep(id) PROVE Keeps
    BY <1>0, <1>1, EnqueueStepsKeep, SweepKeeps, CreateKeeps DEF EnqueueStep
  <1>2. ASSUME NEW id \in Ids, TimerFires(id) \/ TimerStep(id) \/ ClockTick(id)
        PROVE  Keeps
    BY <1>0, <1>2, TimersKeep, ClocksKeep, DeferTimerKeeps
       DEF TimerFires, TimerStep
  <1>3. ASSUME NEW id \in Ids, CancelRequest(id) \/ CancelStep(id) PROVE Keeps
    BY <1>0, <1>3, CancelKeeps DEF CancelStep
  <1>4. ASSUME NEW w \in Workers, NEW id \in Ids, Tick(w, id) PROVE Keeps
    BY <1>4, TickKeeps
  <1>5. ASSUME NEW w \in Workers, ProcessStep(w) \/ ProcessorSettles(w)
        PROVE  Keeps
    BY <1>0, <1>5, RecordingKeeps, TickStepKeeps, SetDeferTimerKeeps
       DEF ProcessStep, ProcessorSettles
  <1>7. CASE \/ Clear \/ ClearForgets \/ MaintenanceTick
             \/ \E zone \in Zones : ClearOneZone(zone)
             \/ \E loop \in Loops, id \in Ids : LoopStep(loop, id)
    BY <1>0, <1>7, ClearingKeeps
  <1>8. CASE \/ PauseOrResume \/ Shutdown \/ ShutdownDrained
             \/ ShutdownTimesOut \/ CloseBackend
    BY <1>0, <1>8, ControlKeeps
  <1>9. CASE UNCHANGED vars
    <2>1. BackendInv /\ UNCHANGED backendVars
      BY <1>9 DEF vars, TypeInv, TypeOK, BackendInv
    <2>2. BackendInv' /\ SameQueued
      BY <2>1, BackendUnchanged
    <2>3. UNCHANGED <<call, promises, tracking, deferTimers, workers, aged,
                      requestDeduplication, dedupTimers, cancel, clearing,
                      manager, isProcessing>>
      BY <1>9 DEF vars, managerVars, callerVars, dedupVars, controlVars
    <2>4. TypeInv'
      BY <2>2, <2>3 DEF TypeInv, TypeOK, BackendInv, BusyKnown
    <2>5. NobodyGains
      BY <2>2, <2>3 DEF NobodyGains, SameQueued, Holds, Unborn
    <2> QED
      BY <1>0, <2>4, <2>5
  <1> QED
    BY <1>1, <1>2, <1>3, <1>4, <1>5, <1>7, <1>8, <1>9 DEF Next

(* Whatever calls, ticks, timers and store answers interleave, every       *)
(* variable keeps its type, the priority queues stay sound, and every      *)
(* stored request is found through its indexes.                            *)
THEOREM TypeCorrect == Spec => [](TypeOK /\ QueuesSound /\ IndexesCover)
  <1>1. Init => TypeInv
    BY InitHolds
  <1>2. TypeInv /\ [Next]_vars => TypeInv'
    BY StepKeeps
  <1>3. TypeInv => TypeOK /\ QueuesSound /\ IndexesCover
    BY DEF TypeInv
  <1> QED
    BY <1>1, <1>2, <1>3, PTL DEF Spec

(* A request is in one place: in its queue, with one tick, or with one     *)
(* delay timer, and never in two of them, for any number of requests,      *)
(* overlapping ticks and retries, over either kind of store.               *)
THEOREM OneOwner == Spec => []ExclusiveOwner
  <1>1. Init => TypeInv /\ OwnerInv
    BY InitHolds
  <1>2. TypeInv /\ OwnerInv /\ [Next]_vars => (TypeInv /\ OwnerInv)'
    BY StepKeeps
  <1>3. TypeInv /\ OwnerInv => ExclusiveOwner
    BY DEF OwnerInv
  <1> QED
    BY <1>1, <1>2, <1>3, PTL DEF Spec

-----------------------------------------------------------------------------
(* The timers of a request and the entry that names them.                  *)

(* Forgetting requests clears timers and begins no callback.               *)
LEMMA ForgettingStartsNothing ==
    ASSUME TypeInv, ForgetAll \/ \E id \in Ids : CleanupRequest(id)
    PROVE  \A j \in Ids : /\ tracking'[j].timeout \in {tracking[j].timeout, "off"}
                          /\ tracking'[j].retry \in {tracking[j].retry, "off"}
                          /\ tracking'[j].active => tracking[j].active
  <1>1. tracking \in [Ids -> Tracking]
    BY DEF TypeInv, TypeOK
  <1>2. \A j \in Ids : /\ Released(tracking[j]).timeout \in {tracking[j].timeout, "off"}
                       /\ Released(tracking[j]).retry \in {tracking[j].retry, "off"}
                       /\ ~Released(tracking[j]).active
    BY DEF Released
  <1>3. CASE ForgetAll
    BY <1>1, <1>2, <1>3 DEF ForgetAll
  <1>4. ASSUME NEW id \in Ids, CleanupRequest(id)
        PROVE  \A j \in Ids : /\ tracking'[j].timeout \in {tracking[j].timeout, "off"}
                              /\ tracking'[j].retry \in {tracking[j].retry, "off"}
                              /\ tracking'[j].active => tracking[j].active
    <2>1. \A j \in Ids : tracking'[j] = IF j = id THEN Released(tracking[j]) ELSE tracking[j]
      BY <1>1, <1>4 DEF CleanupRequest
    <2> QED
      BY <1>2, <2>1
  <1> QED
    BY <1>3, <1>4

(* Who forgets an active request.                                          *)
Cleans(j) ==
    \/ \E w \in Workers : Holds(w, j) /\ (Completed(w) \/ Abandoned(w))
    \/ TimeoutCleanup(j) \/ CancelCleanup(j) \/ ClearForgets \/ CloseBackend
    \/ \E id \in Ids : SweepCleanup(id) /\ call[id].hand = j

(* The ways of the timers of one request in one step.                      *)
TrackingStep(j) ==
    /\ \/ tracking'[j].retry \in {tracking[j].retry, "off"}
       \/ RetryTimerFires(j)
       \/ /\ tracking'[j].retry = "set"
          /\ \E w \in Workers : SetRetryTimer(w) /\ Holds(w, j)
    /\ \/ tracking'[j].timeout \in {tracking[j].timeout, "off"}
       \/ Create(j) /\ tracking'[j].timeout = "set"
       \/ TimeoutFires(j) /\ tracking'[j].timeout = "checking" /\ HasStatus(j, "pending")
       \/ TimeoutExpires(j) /\ tracking'[j].timeout \in {"expiring", "threw"}
    /\ tracking[j].active /\ ~tracking'[j].active => Cleans(j)

(* A step touches a timer or an active entry as TrackingStep says.         *)
LEMMA StepTracking ==
    ASSUME TypeInv, [Next]_vars, NEW j \in Ids
    PROVE  TrackingStep(j)
  <1>0. /\ workers \in [Workers -> Worker] /\ tracking \in [Ids -> Tracking]
        /\ tracking[j] \in Tracking /\ call \in [Ids -> Call]
    BY DEF TypeInv, TypeOK
  <1>1. ASSUME tracking' = tracking PROVE TrackingStep(j)
    BY <1>1 DEF TrackingStep
  <1>2. ASSUME NEW id \in Ids, CleanupRequest(id), id = j => Cleans(j) \/ ~tracking[j].active
        PROVE  TrackingStep(j)
    <2>1. /\ tracking'[j].retry \in {tracking[j].retry, "off"}
          /\ tracking'[j].timeout \in {tracking[j].timeout, "off"}
      BY <1>2, ForgettingStartsNothing
    <2>2. id # j => tracking'[j] = tracking[j]
      BY <1>0, <1>2 DEF CleanupRequest
    <2> QED
      BY <1>2, <2>1, <2>2 DEF TrackingStep
  <1>3. ASSUME NEW id \in Ids, Submit(id) \/ EnqueueStep(id) PROVE TrackingStep(j)
    <2>1. CASE Create(id)
      BY <1>0, <2>1 DEF Create, TrackingStep
    <2>2. CASE ~Create(id)
      <3>1. \/ tracking' = tracking
            \/ SweepCleanup(id) /\ call[id].hand \in Ids /\ CleanupRequest(call[id].hand)
            \/ ~tracking[id].active /\ CleanupRequest(id)
        BY <1>0, <1>3, <2>2
           DEF EnqueueStep, Submit, HandleQueueFull, RefuseFull, SweepRemove,
               SweepCleanup, Join, Accept, Call
      <3> QED
        BY <1>1, <1>2, <3>1 DEF Cleans
    <2> QED
      BY <2>1, <2>2
  <1>4. ASSUME NEW id \in Ids, TimerFires(id) \/ TimerStep(id) \/ ClockTick(id)
        PROVE  TrackingStep(j)
    <2>1. CASE RetryTimerFires(id)
      <3>1. \E state \in {"waking", "threw"} : tracking' = [tracking EXCEPT ![id].retry = state]
        BY <2>1 DEF RetryTimerFires
      <3> QED
        BY <1>0, <2>1, <3>1 DEF TrackingStep, Tracking
    <2>2. CASE RetryAwake(id)
      BY <1>0, <2>2 DEF RetryAwake, TrackingStep, Tracking
    <2>3. CASE TimeoutFires(id)
      BY <1>0, <2>3 DEF TimeoutFires, SetTimeoutState, TrackingStep, Tracking
    <2>4. CASE TimeoutExpires(id)
      <3>1. \E state \in {"expiring", "threw"} : tracking' = [tracking EXCEPT ![id].timeout = state]
        BY <2>4 DEF TimeoutExpires, SetTimeoutState
      <3> QED
        BY <1>0, <2>4, <3>1 DEF TrackingStep, Tracking
    <2>5. CASE TimeoutCleanup(id)
      <3>1. tracking'[j] = IF j = id THEN [Released(tracking[j]) EXCEPT !.timeout = "off"]
                           ELSE tracking[j]
        BY <1>0, <2>5 DEF TimeoutCleanup
      <3>2. /\ [Released(tracking[j]) EXCEPT !.timeout = "off"].timeout = "off"
            /\ [Released(tracking[j]) EXCEPT !.timeout = "off"].retry \in {tracking[j].retry, "off"}
        BY DEF Released
      <3> QED
        BY <2>5, <3>1, <3>2 DEF TrackingStep, Cleans
    <2> QED
      BY <1>1, <1>4, <2>1, <2>2, <2>3, <2>4, <2>5
         DEF TimerFires, TimerStep, DedupWindowEnds, DeferTimerFires, ClockTick
  <1>5. ASSUME NEW id \in Ids, CancelRequest(id) \/ CancelStep(id) PROVE TrackingStep(j)
    BY <1>1, <1>2, <1>5
       DEF CancelRequest, CancelStep, CancelUpdates, CancelCleanup, Cleans
  <1>6. ASSUME NEW w \in Workers, NEW id \in Ids, Tick(w, id) PROVE TrackingStep(j)
    BY <1>1, <1>6 DEF Tick, OnlyWorkers
  <1>7. ASSUME NEW w \in Workers, ProcessStep(w) \/ ProcessorSettles(w)
        PROVE  TrackingStep(j)
    <2>1. CASE SetRetryTimer(w)
      BY <1>0, <2>1 DEF SetRetryTimer, TrackingStep, Tracking, Holds
    <2>2. CASE Completed(w) \/ Abandoned(w)
      <3>1. workers[w].id \in Ids /\ Holds(w, workers[w].id)
        BY <2>2 DEF TypeInv, BusyKnown, Completed, Abandoned, Holds
      <3> QED
        BY <1>2, <2>2, <3>1 DEF Completed, Abandoned, Cleans
    <2>3. CASE ~(SetRetryTimer(w) \/ Completed(w) \/ Abandoned(w))
      BY <1>1, <1>7, <2>3
         DEF ProcessStep, ProcessorSettles, CanExecute, RescheduleRequest,
             SetDeferTimer, StartProcessor, HandleRequestSuccess, ScheduleRetry,
             HandleRequestFailure, ProcessorResolves, ProcessorFails, OnlyWorkers
    <2> QED
      BY <2>1, <2>2, <2>3
  <1>8. CASE ClearForgets \/ CloseBackend
    <2>1. ForgetAll
      BY <1>8 DEF ClearForgets, CloseBackend
    <2> QED
      BY <1>8, <2>1, ForgettingStartsNothing DEF TrackingStep, Cleans
  <1>9. CASE \/ Clear \/ MaintenanceTick
             \/ \E zone \in Zones : ClearOneZone(zone)
             \/ \E loop \in Loops, id \in Ids : LoopStep(loop, id)
             \/ PauseOrResume \/ Shutdown \/ ShutdownDrained
             \/ ShutdownTimesOut \/ UNCHANGED vars
    BY <1>1, <1>9 DEF Clear, ClearOneZone, MaintenanceTick, LoopStep, PauseOrResume, Shutdown,
              ShutdownDrained, ShutdownTimesOut, EndDrain, vars, managerVars
  <1> QED
    BY <1>3, <1>4, <1>5, <1>6, <1>7, <1>8, <1>9 DEF Next

-----------------------------------------------------------------------------
(* Where requests are, and how a step moves one of them.                   *)
SameUnborn == \A j \in Ids : Unborn(j)' <=> Unborn(j)
SameHolds == \A w \in Workers, j \in Ids : Holds(w, j)' <=> Holds(w, j)
SameDeferred == \A j \in Ids : Deferred(j)' <=> Deferred(j)
SameRetried == \A j \in Ids : Retried(j)' <=> Retried(j)

(* How a step can move requests: nobody moves (or requests that wait or    *)
(* are to be retried are dropped), one is handed to the store, refused,    *)
(* put back by its delay timer, claimed by a tick, set aside, left to its  *)
(* retry timer, or let go for good.                                        *)
Stays == /\ SameUnborn /\ SameHolds /\ SameDeferred
         /\ \A j \in Ids : (Queued(j)' => Queued(j)) /\ (Retried(j)' => Retried(j))

BornNow(id) == \A j \in Ids : Unborn(j)' <=> Unborn(j) /\ j # id

Enters(id) == /\ Unborn(id) /\ BornNow(id)
              /\ \A j \in Ids : Queued(j)' <=> Queued(j) \/ j = id
              /\ \A j \in Ids : Retried(j)' <=> Retried(j) /\ j # id
              /\ SameHolds /\ SameDeferred

Declines(id) == /\ Unborn(id) /\ BornNow(id)
                /\ SameQueued /\ SameHolds /\ SameDeferred /\ SameRetried

Returns(id) == /\ Deferred(id)
               /\ \A j \in Ids : Deferred(j)' <=> Deferred(j) /\ j # id
               /\ \A j \in Ids : Queued(j)' <=> Queued(j) \/ j = id
               /\ SameUnborn /\ SameHolds /\ SameRetried

Takes(w, id) ==
    /\ workers[w].pc = "idle" /\ Queued(id)
    /\ \A j \in Ids : Queued(j)' <=> Queued(j) /\ j # id
    /\ \A v \in Workers, j \in Ids : 
         Holds(v, j)' <=> Holds(v, j) \/ (v = w /\ j = id)
    /\ SameUnborn /\ SameDeferred /\ SameRetried

LetsGo(w, id) ==
    /\ Holds(w, id)
    /\ \A v \in Workers, j \in Ids : Holds(v, j)' <=> Holds(v, j) /\ v # w
    /\ SameUnborn /\ SameQueued

Parks(w, id) == /\ LetsGo(w, id) /\ SameRetried
                /\ \A j \in Ids : Deferred(j)' <=> Deferred(j) \/ j = id

Delays(w, id) == /\ LetsGo(w, id) /\ SameDeferred
                 /\ \A j \in Ids : Retried(j)' <=> Retried(j) \/ j = id

Leaves(w, id) == /\ LetsGo(w, id) /\ SameDeferred
                 /\ \A j \in Ids : /\ Retried(j)' => Retried(j)
                                   /\ j # id => (Retried(j)' <=> Retried(j))

Moves == 
    \/ Stays
    \/ \E id \in Ids : Enters(id) \/ Declines(id) \/ Returns(id)
    \/ \E w \in Workers, id \in Ids :
          Takes(w, id) \/ Parks(w, id) \/ Delays(w, id) \/ Leaves(w, id)

(* Only a tick that ends begins a retry.                                   *)
LEMMA RetriesOnlyEnd ==
    ASSUME TypeInv, [Next]_vars, UNCHANGED workers
    PROVE  \A j \in Ids : Retried(j)' => Retried(j)
  <1> SUFFICES ASSUME NEW j \in Ids, Retried(j)' PROVE Retried(j)
    OBVIOUS
  <1>1. TrackingStep(j)
    BY StepTracking
  <1>2. \A w \in Workers : ~SetRetryTimer(w)
    BY DEF SetRetryTimer, Finish, Idle, TypeInv, TypeOK
  <1> QED
    BY <1>1, <1>2 DEF TrackingStep, RetryTimerFires, Retried

(* A tick goes on with its request, or ends.                               *)
LEMMA TickGoesOn ==
    ASSUME TypeInv, NEW w \in Workers, workers[w].pc # "idle"
    PROVE  /\ Holds(w, workers[w].id) /\ workers[w].id \in Ids
           /\ \A pc \in {"deferring", "starting", "executing", "succeeded",
                         "failed", "completing", "retrying", "abandoning"} :
                Proceed(w, pc) => SameHolds
           /\ Finish(w) => \A v \in Workers, j \in Ids :
                             Holds(v, j)' <=> Holds(v, j) /\ v # w
  <1>1. workers \in [Workers -> Worker] /\ workers[w].id \in Ids
    BY DEF TypeInv, TypeOK, BusyKnown
  <1>2. ASSUME NEW pc \in {"deferring", "starting", "executing", "succeeded",
                           "failed", "completing", "retrying", "abandoning"},
               Proceed(w, pc)
        PROVE  SameHolds
    BY <1>1, <1>2 DEF Proceed, SameHolds, Holds, Worker
  <1>3. ASSUME Finish(w)
        PROVE  \A v \in Workers, j \in Ids : Holds(v, j)' <=> Holds(v, j) /\ v # w
    BY <1>1, <1>3 DEF Finish, Holds, Idle
  <1> QED
    BY <1>1, <1>2, <1>3 DEF Holds

(* The steps of an enqueue call.                                           *)
LEMMA EnqueueStepMoves ==
    ASSUME TypeInv, [Next]_vars, NEW id \in Ids, Submit(id) \/ EnqueueStep(id)
    PROVE  Moves
  <1>1. BackendInv /\ BackendTypeOK /\ call \in [Ids -> Call]
    BY DEF TypeInv, TypeOK, BackendInv
  <1>2. UNCHANGED <<workers, deferTimers>>
    BY DEF EnqueueStep, Submit, HandleQueueFull, RefuseFull, SweepRemove,
           SweepCleanup, Join, Create, Accept
  <1>3. /\ SameHolds /\ SameDeferred
        /\ \A j \in Ids : Retried(j)' => Retried(j)
    BY <1>2, RetriesOnlyEnd DEF SameHolds, SameDeferred, Holds, Deferred
  <1>4. CASE Submit(id) \/ HandleQueueFull(id) \/ SweepCleanup(id) \/ Accept(id)
    <2>1. UNCHANGED backendVars
      BY <1>4 DEF Submit, HandleQueueFull, SweepCleanup, Accept
    <2>2. SameUnborn
      <3>1. CASE Submit(id)
        BY <1>1, <3>1 DEF SameUnborn, Unborn, Submit, Call
      <3>2. CASE HandleQueueFull(id)
        BY <1>1, <3>2 DEF SameUnborn, Unborn, HandleQueueFull, Call
      <3>3. CASE SweepCleanup(id)
        BY <1>1, <3>3 DEF SameUnborn, Unborn, SweepCleanup, Call
      <3>4. CASE Accept(id)
        BY <1>1, <3>4 DEF SameUnborn, Unborn, Accept, Call
      <3> QED
        BY <1>4, <3>1, <3>2, <3>3, <3>4
    <2> QED
      BY <1>1, <1>3, <2>1, <2>2, BackendUnchanged DEF Moves, Stays, SameQueued
  <1>5. CASE RefuseFull(id) \/ Join(id)
    <2>1. UNCHANGED backendVars /\ SameRetried
      BY <1>5 DEF RefuseFull, Join, SameRetried, Retried
    <2>2. Unborn(id) /\ BornNow(id)
      BY <1>1, <1>5 DEF Unborn, BornNow, RefuseFull, Join, HasRoom, Call
    <2> QED
      BY <1>1, <1>3, <2>1, <2>2, BackendUnchanged DEF Moves, Declines
  <1>6. ASSUME NEW victim \in Ids, SweepRemove(id, victim) PROVE Moves
    <2>1. Erase(victim) /\ doomed' = doomed
      BY <1>6 DEF SweepRemove
    <2>2. \A j \in Ids : Queued(j)' <=> Queued(j) /\ j # victim
      BY <1>1, <2>1, EraseEffect DEF BackendTypeOK
    <2>3. SameUnborn
      BY <1>1, <1>6 DEF SameUnborn, Unborn, SweepRemove, Call
    <2> QED
      BY <1>3, <2>2, <2>3 DEF Moves, Stays
  <1>7. CASE Create(id)
    <2>1. PICK phase \in SubmitPhases : Enqueue(id, NewRequest("pending", phase, 0))
      BY <1>7 DEF Create
    <2>2. NewRequest("pending", phase, 0) \in Request
      BY ManagerAssumption, StatusWords DEF NewRequest, Request
    <2>3. \A j \in Ids : Queued(j)' <=> Queued(j) \/ j = id
      BY <1>1, <2>1, <2>2, EnqueueEffect
    <2>4. Unborn(id) /\ BornNow(id)
      BY <1>1, <1>7 DEF Unborn, BornNow, Create, HasRoom, Call
    <2>5. \A j \in Ids : Retried(j)' <=> Retried(j) /\ j # id
      BY <1>7 DEF Create, Retried, TypeInv, TypeOK
    <2> QED
      BY <1>3, <2>3, <2>4, <2>5 DEF Moves, Enters
  <1> QED
    BY <1>4, <1>5, <1>6, <1>7 DEF EnqueueStep

(* The steps of a tick that has a request.                                 *)
LEMMA TickStepMoves ==
    ASSUME TypeInv, NEW w \in Workers, ProcessStep(w) \/ ProcessorSettles(w)
    PROVE  Moves
  <1> USE DEF callerVars
  <1> DEFINE id == workers[w].id
  <1>1. BackendInv /\ BackendTypeOK
    BY DEF TypeInv, TypeOK, BackendInv
  <1>2. workers[w].pc # "idle" /\ call' = call
    BY DEF ProcessStep, ProcessorSettles, CanExecute, RescheduleRequest,
           SetDeferTimer, StartProcessor, HandleRequestSuccess, Completed,
           ScheduleRetry, SetRetryTimer, HandleRequestFailure, Abandoned,
           ProcessorResolves, ProcessorFails, OnlyWorkers
  <1>3. SameUnborn
    BY <1>2 DEF SameUnborn, Unborn
  <1>4. /\ Holds(w, id) /\ id \in Ids
        /\ \A pc \in {"deferring", "starting", "executing", "succeeded",
                      "failed", "completing", "retrying", "abandoning"} :
             Proceed(w, pc) => SameHolds
        /\ Finish(w) => \A v \in Workers, j \in Ids :
                          Holds(v, j)' <=> Holds(v, j) /\ v # w
    BY <1>2, TickGoesOn
  <1> HIDE DEF id
  <1>5. CASE SetDeferTimer(w)
    <2>1. UNCHANGED backendVars /\ Finish(w) /\ SameRetried
      BY <1>5 DEF SetDeferTimer, SameRetried, Retried
    <2>2. \A j \in Ids : Deferred(j)' <=> Deferred(j) \/ j = id
      <3>1. deferTimers' = deferTimers \cup {[id |-> id, retries |-> workers[w].retries]}
        BY <1>5 DEF SetDeferTimer, id
      <3>2. [id |-> id, retries |-> workers[w].retries].id = id
        OBVIOUS
      <3> QED
        BY <3>1, <3>2 DEF Deferred
    <2> QED
      BY <1>1, <1>3, <1>4, <2>1, <2>2, BackendUnchanged DEF Moves, Parks, LetsGo
  <1>7. CASE SetRetryTimer(w)
    <2>1. UNCHANGED backendVars /\ Finish(w) /\ SameDeferred
      BY <1>7 DEF SetRetryTimer, SameDeferred, Deferred
    <2>2. \A j \in Ids : Retried(j)' <=> Retried(j) \/ j = id
      <3>1. tracking' = [tracking EXCEPT ![id].retry = "set", ![id].handle = "retry"]
        BY <1>7 DEF SetRetryTimer, id
      <3>2. tracking \in [Ids -> Tracking]
        BY DEF TypeInv, TypeOK
      <3> QED
        BY <1>4, <3>1, <3>2 DEF Retried, Tracking
    <2> QED
      BY <1>1, <1>3, <1>4, <2>1, <2>2, BackendUnchanged DEF Moves, Delays, LetsGo
  <1>6. CASE ~SetDeferTimer(w) /\ ~SetRetryTimer(w)
    <2>1. deferTimers' = deferTimers
      BY <1>6 DEF ProcessStep, ProcessorSettles, CanExecute, RescheduleRequest,
             StartProcessor, HandleRequestSuccess, Completed,
             ScheduleRetry, SetRetryTimer, HandleRequestFailure, Abandoned,
             ProcessorResolves, ProcessorFails, OnlyWorkers
    <2>2. SameDeferred
      BY <2>1 DEF SameDeferred, Deferred
    <2>3. SameQueued
      <3>1. CASE \/ CanExecute(w) \/ RescheduleRequest(w)
                 \/ HandleRequestSuccess(w) \/ ScheduleRetry(w)
                 \/ HandleRequestFailure(w)
        BY <3>1, RecordingKeeps
      <3>2. CASE UNCHANGED backendVars
        BY <1>1, <3>2, BackendUnchanged
      <3> QED
        BY <1>6, <3>1, <3>2 
           DEF ProcessStep, ProcessorSettles, StartProcessor, Completed, SetRetryTimer,
               Abandoned, ProcessorResolves, ProcessorFails
    <2>4. \/ \E pc \in {"deferring", "starting", "executing", "succeeded",
                      "failed", "completing", "retrying", "abandoning"} :
               Proceed(w, pc)
          \/ Finish(w)
      BY <1>6 DEF ProcessStep, ProcessorSettles, CanExecute, RescheduleRequest,
             StartProcessor, HandleRequestSuccess, Completed, UpdateOrGiveUp,
             ScheduleRetry, SetRetryTimer, HandleRequestFailure, Abandoned,
             ProcessorResolves, ProcessorFails
    <2>5. \/ tracking' = tracking
          \/ CleanupRequest(id) /\ Finish(w)
      BY <1>6 DEF ProcessStep, ProcessorSettles, CanExecute, RescheduleRequest,
             StartProcessor, HandleRequestSuccess, Completed, UpdateOrGiveUp,
             ScheduleRetry, HandleRequestFailure, Abandoned,
             ProcessorResolves, ProcessorFails, OnlyWorkers, id
    <2>6. \A j \in Ids : /\ Retried(j)' => Retried(j)
                         /\ j # id => (Retried(j)' <=> Retried(j))
      <3>1. tracking \in [Ids -> Tracking]
        BY DEF TypeInv, TypeOK
      <3> QED
        BY <2>5, <3>1, ForgettingStartsNothing DEF Retried, CleanupRequest
    <2> QED
      BY <1>3, <1>4, <2>2, <2>3, <2>4, <2>6 DEF Moves, Stays, Leaves, LetsGo, SameQueued
  <1> QED
    BY <1>5, <1>6, <1>7

(* A tick takes a request; a delay timer gives one back.                   *)
LEMMA TickMoves ==
    ASSUME TypeInv, NEW w \in Workers, NEW id \in Ids, Tick(w, id)
    PROVE  Takes(w, id)
  <1>1. BackendInv /\ workers \in [Workers -> Worker]
    BY DEF TypeInv, TypeOK, BackendInv
  <1>2. Queued(id) /\ \A j \in Ids : Queued(j)' <=> Queued(j) /\ j # id
    BY <1>1, DequeueEffect, ManagerAssumption DEF Tick
  <1>3. /\ workers[w].pc = "idle"
        /\ \A v \in Workers, j \in Ids :
             Holds(v, j)' <=> Holds(v, j) \/ (v = w /\ j = id)
    BY <1>1 DEF Tick, Holds
  <1>4. SameUnborn /\ SameDeferred /\ SameRetried
    BY DEF Tick, OnlyWorkers, callerVars, SameUnborn, SameDeferred, SameRetried,
           Unborn, Deferred, Retried
  <1> QED
    BY <1>2, <1>3, <1>4 DEF Takes

(* A delay timer puts its own request back into the queue, and no other.   *)
LEMMA DeferTimerMoves ==
    ASSUME TypeInv, OwnerInv, NEW timer \in deferTimers, DeferTimerFires(timer)
    PROVE  timer.id \in Ids /\ Returns(timer.id)
  <1>1. /\ BackendInv /\ deferTimers \subseteq [id : Ids, retries : Nat]
        /\ timer.id \in Ids /\ timer.retries \in Nat
    BY DEF TypeInv, TypeOK, BackendInv
  <1>2. \A j \in Ids : Queued(j)' <=> Queued(j) \/ j = timer.id
    <2>1. NewRequest("pending", "due", timer.retries) \in Request
      BY <1>1, StatusWords DEF NewRequest, Request
    <2> QED
      BY <1>1, <2>1, EnqueueEffect DEF DeferTimerFires
  <1>3. /\ Deferred(timer.id)
        /\ \A j \in Ids : Deferred(j)' <=> Deferred(j) /\ j # timer.id
    BY <1>1 DEF DeferTimerFires, Deferred, OwnerInv, ExclusiveOwner
  <1>4. SameUnborn /\ SameHolds /\ SameRetried
    BY DEF DeferTimerFires, callerVars, SameUnborn, SameHolds, SameRetried,
           Unborn, Holds, Retried
  <1> QED
    BY <1>1, <1>2, <1>3, <1>4 DEF Returns

(* The steps that leave every call, tick and delay timer as it is.         *)
LEMMA OtherStepsStay ==
    ASSUME TypeInv, [Next]_vars, NobodyGains, UNCHANGED <<call, workers, deferTimers>>
    PROVE  Stays
  BY RetriesOnlyEnd DEF NobodyGains, Stays, SameUnborn, SameHolds, SameDeferred, Unborn, Holds,
         Deferred

(* Every step of the manager moves one request, or drops waiting ones.     *)
LEMMA StepMoves ==
    ASSUME TypeInv, OwnerInv, [Next]_vars
    PROVE  Moves
  <1> USE DEF callerVars, dedupVars, controlVars, managerVars
  <1>1. ASSUME NEW id \in Ids, Submit(id) \/ EnqueueStep(id) PROVE Moves
    BY <1>1, EnqueueStepMoves
  <1>2. ASSUME NEW id \in Ids, TimerFires(id) \/ TimerStep(id) \/ ClockTick(id)
        PROVE  Moves
    <2>1. ASSUME NEW timer \in deferTimers, DeferTimerFires(timer) PROVE Moves
      BY <2>1, DeferTimerMoves DEF Moves
    <2>2. CASE \/ RetryTimerFires(id) \/ RetryAwake(id) \/ TimeoutFires(id)
               \/ TimeoutExpires(id) \/ TimeoutCleanup(id)
      <3>1. UNCHANGED <<call, workers, deferTimers>>
        BY <2>2 DEF RetryTimerFires, RetryAwake, TimeoutFires, TimeoutExpires,
                    TimeoutCleanup, OnlyTracking
      <3> QED
        BY <2>2, <3>1, TimersKeep, OtherStepsStay DEF Moves
    <2>3. CASE DedupWindowEnds(id) \/ ClockTick(id)
      <3>1. UNCHANGED <<call, workers, deferTimers>>
        BY <2>3 DEF DedupWindowEnds, ClockTick
      <3> QED
        BY <2>3, <3>1, ClocksKeep, OtherStepsStay DEF Moves
    <2> QED
      BY <1>2, <2>1, <2>2, <2>3 DEF TimerFires, TimerStep
  <1>3. ASSUME NEW id \in Ids, CancelRequest(id) \/ CancelStep(id) PROVE Moves
    <2>1. UNCHANGED <<call, workers, deferTimers>>
      BY <1>3 DEF CancelStep, CancelRequest, CancelUpdates, CancelCleanup
    <2> QED
      BY <1>3, <2>1, CancelKeeps, OtherStepsStay DEF Moves, CancelStep
  <1>4. ASSUME NEW w \in Workers, NEW id \in Ids, Tick(w, id) PROVE Moves
    BY <1>4, TickMoves DEF Moves
  <1>5. ASSUME NEW w \in Workers, ProcessStep(w) \/ ProcessorSettles(w)
        PROVE  Moves
    BY <1>5, TickStepMoves
  <1>6. CASE \/ Clear \/ ClearForgets \/ MaintenanceTick
             \/ \E zone \in Zones : ClearOneZone(zone)
             \/ \E loop \in Loops, id \in Ids : LoopStep(loop, id)
    <2>1. UNCHANGED <<call, workers, deferTimers>>
      BY <1>6 DEF Clear, ClearForgets, ClearOneZone, LoopStep, MaintenanceTick
    <2> QED
      BY <1>6, <2>1, ClearingKeeps, OtherStepsStay DEF Moves
  <1>7. CASE \/ PauseOrResume \/ Shutdown \/ ShutdownDrained
             \/ ShutdownTimesOut \/ CloseBackend
    <2>1. UNCHANGED <<call, workers, deferTimers>>
      BY <1>7 DEF PauseOrResume, Shutdown, ShutdownDrained, ShutdownTimesOut,
                  EndDrain, CloseBackend, OnlyManager
    <2> QED
      BY <1>7, <2>1, ControlKeeps, OtherStepsStay DEF Moves
  <1>8. CASE UNCHANGED vars
    BY <1>8 DEF vars, backendVars, Moves, Stays, SameUnborn, SameHolds, SameDeferred,
                Unborn, Holds, Deferred, Retried, Queued, QueueOf
  <1> QED
    BY <1>1, <1>2, <1>3, <1>4, <1>5, <1>6, <1>7, <1>8 DEF Next

-----------------------------------------------------------------------------
(* A request that has left its queue, its tick and its delay timer.        *)
Gone(id) == ~Unborn(id) /\ ~Queued(id) /\ ~Held(id) /\ ~Deferred(id)

(* A retry timer belongs to a request that is gone.                        *)
RetryGone == \A id \in Ids : tracking[id].retry # "off" => Gone(id)

(* A request that is gone does not come back.                              *)
LEMMA GoneStays ==
    ASSUME OwnerInv, Moves, NEW j \in Ids, Gone(j)
    PROVE  Gone(j)'
  BY DEF Moves, Stays, Enters, Declines, Returns, Takes, Parks, Delays, Leaves, LetsGo,
         SameUnborn, SameHolds, SameDeferred, SameQueued, BornNow, Gone, Held, Holds

(* A retry timer is set when its tick lets go of the request.              *)
LEMMA StepKeepsRetryGone ==
    ASSUME TypeInv, OwnerInv, OwnerInv', RetryGone, [Next]_vars
    PROVE  RetryGone'
  <1> SUFFICES ASSUME NEW j \in Ids, tracking'[j].retry # "off" PROVE Gone(j)'
    BY DEF RetryGone
  <1>1. Moves /\ TrackingStep(j)
    BY StepMoves, StepTracking
  <1>2. CASE tracking[j].retry # "off"
    BY <1>1, <1>2, GoneStays DEF RetryGone
  <1>3. ASSUME NEW w \in Workers, SetRetryTimer(w), Holds(w, j) PROVE Gone(j)'
    <2>1. /\ Finish(w) /\ SameUnborn /\ SameDeferred
          /\ UNCHANGED backendVars
      BY <1>3 DEF SetRetryTimer, SameUnborn, SameDeferred, Unborn, Deferred, callerVars
    <2>2. BackendInv
      BY DEF TypeInv, TypeOK, BackendInv
    <2>3. SameQueued /\ \A v \in Workers : Holds(v, j)' <=> Holds(v, j) /\ v # w
      BY <1>3, <2>1, <2>2, BackendUnchanged, TickGoesOn DEF Holds
    <2>4. /\ ~Unborn(j) /\ ~Queued(j) /\ ~Deferred(j)
          /\ \A v \in Workers : Holds(v, j) => v = w
      BY <1>3 DEF OwnerInv, ExclusiveOwner, UnbornNowhere, Held
    <2> QED
      BY <2>1, <2>3, <2>4 DEF Gone, Held, SameUnborn, SameDeferred, SameQueued
  <1> QED
    BY <1>1, <1>2, <1>3 DEF TrackingStep, RetryTimerFires

-----------------------------------------------------------------------------
(* Refinement of RequestLifecycle.                                         *)

(* The place of a request, read off who has it.                            *)
PlaceRight(id) ==
    /\ PlaceOf(id) = "new" <=> Unborn(id)
    /\ \A w \in Workers : PlaceOf(id) = w <=> Holds(w, id)
    /\ PlaceOf(id) = "waiting" <=> Queued(id)
    /\ PlaceOf(id) = "parked" <=> Deferred(id)
    /\ PlaceOf(id) = "retrying" <=> Retried(id)
    /\ PlaceOf(id) = "gone" <=> Gone(id) /\ ~Retried(id)
    /\ PlaceOf(id) \in Workers \cup {"new", "waiting", "parked", "retrying", "gone"}

PlacesRight == \A id \in Ids : PlaceRight(id)

(* Because a request is in one place, PlaceOf names that place.            *)
LEMMA PlaceFacts == OwnerInv /\ RetryGone => PlacesRight
  <1> SUFFICES ASSUME OwnerInv, RetryGone, NEW id \in Ids PROVE PlaceRight(id)
    BY DEF PlacesRight
  <1>1. /\ Unborn(id) => ~Queued(id) /\ ~Held(id) /\ ~Deferred(id)
        /\ \A v, w \in Workers : Holds(v, id) /\ Holds(w, id) => v = w
        /\ Queued(id) => ~Held(id) /\ ~Deferred(id)
        /\ Held(id) => ~Deferred(id)
        /\ Held(id) <=> \E w \in Workers : Holds(w, id)
        /\ Retried(id) => Gone(id)
    BY DEF OwnerInv, ExclusiveOwner, UnbornNowhere, Held, RetryGone, Retried
  <1>2. \A w \in Workers : /\ w # "new" /\ w # "waiting"
                           /\ w # "parked" /\ w # "retrying" /\ w # "gone"
    BY WorkersAssumption
  <1> DEFINE holder == CHOOSE w \in Workers : Holds(w, id)
  <1>3. Held(id) => holder \in Workers /\ Holds(holder, id)
    BY <1>1
  <1>4. PlaceOf(id) = IF Unborn(id) THEN "new"
                      ELSE IF Held(id) THEN holder
                      ELSE IF Queued(id) THEN "waiting"
                      ELSE IF Deferred(id) THEN "parked"
                      ELSE IF Retried(id) THEN "retrying" ELSE "gone"
    BY DEF PlaceOf
  <1> HIDE DEF holder
  <1> QED
    BY <1>1, <1>2, <1>3, <1>4 DEF Gone, PlaceRight

(* What a step does not touch stays where it is.                           *)
SamePlace(id) == /\ Unborn(id)' <=> Unborn(id)
                 /\ \A w \in Workers : Holds(w, id)' <=> Holds(w, id)
                 /\ Queued(id)' <=> Queued(id)
                 /\ Deferred(id)' <=> Deferred(id)
                 /\ Retried(id)' <=> Retried(id)

(* A request nothing happened to is where it was.                          *)
LEMMA SamePlaceKept ==
    ASSUME NEW id \in Ids, PlaceRight(id), PlaceRight(id)', SamePlace(id)
    PROVE  PlaceOf(id)' = PlaceOf(id)
  <1>1. Gone(id)' <=> Gone(id)
    BY DEF SamePlace, Gone, Held
  <1>2. CASE PlaceOf(id) \in Workers
    BY <1>2 DEF PlaceRight, SamePlace
  <1>3. CASE PlaceOf(id) \in {"new", "waiting", "parked", "retrying", "gone"}
    BY <1>1, <1>3 DEF PlaceRight, SamePlace
  <1> QED
    BY <1>2, <1>3 DEF PlaceRight

(* A step that moves one request is a Move of the life cycle.              *)
LEMMA OneMoves ==
    ASSUME PlacesRight, PlacesRight', NEW id \in Ids, NEW from, NEW to,
           \A j \in Ids \ {id} : SamePlace(j),
           PlaceOf(id) = from, PlaceOf(id)' = to
    PROVE  Lifecycle!Move(id, from, to)
  <1>1. \A j \in Ids \ {id} : PlaceOf(j)' = PlaceOf(j)
    BY SamePlaceKept DEF PlacesRight
  <1> QED
    BY <1>1 DEF Lifecycle!Move

(* Moving a request is a step of RequestLifecycle.                         *)
LEMMA MoveRefines ==
    ASSUME TypeInv, PlacesRight, PlacesRight', Moves
    PROVE  [Lifecycle!Next]_([id \in Ids |-> PlaceOf(id)])
  <1> DEFINE place == [id \in Ids |-> PlaceOf(id)]
  <1>1. /\ \A j \in Ids : place[j] = PlaceOf(j) /\ place'[j] = PlaceOf(j)'
        /\ place' = [j \in Ids |-> PlaceOf(j)']
    OBVIOUS
  <1> SUFFICES [Lifecycle!Next]_place
    OBVIOUS
  <1> HIDE DEF place
  <1>2. \A j \in Ids : PlaceRight(j) /\ PlaceRight(j)'
    BY DEF PlacesRight
  <1>3. CASE Stays
    <2> DEFINE S == {j \in Ids : \/ PlaceOf(j) = "waiting" /\ ~Queued(j)'
                                 \/ PlaceOf(j) = "retrying" /\ ~Retried(j)'}
    <2>1. \A j \in Ids : /\ Unborn(j)' <=> Unborn(j)
                         /\ \A w \in Workers : Holds(w, j)' <=> Holds(w, j)
                         /\ Held(j)' <=> Held(j)
                         /\ Deferred(j)' <=> Deferred(j)
                         /\ Queued(j)' => Queued(j)
                         /\ Retried(j)' => Retried(j)
      BY <1>3 DEF Stays, SameUnborn, SameHolds, SameDeferred, Held
    <2>2. \A j \in Ids : PlaceOf(j)' = IF j \in S THEN "gone" ELSE PlaceOf(j)
      <3> TAKE j \in Ids
      <3>1. CASE PlaceOf(j) = "new" \/ PlaceOf(j) = "parked"
        BY <1>2, <2>1, <3>1, WorkersAssumption DEF PlaceRight
      <3>2. CASE PlaceOf(j) \in Workers
        BY <1>2, <2>1, <3>2, WorkersAssumption DEF PlaceRight
      <3>3. CASE PlaceOf(j) = "waiting"
        BY <1>2, <2>1, <3>3 DEF PlaceRight, Gone, Held
      <3>4. CASE PlaceOf(j) = "gone"
        BY <1>2, <2>1, <3>4 DEF PlaceRight, Gone
      <3>5. CASE PlaceOf(j) = "retrying"
        BY <1>2, <2>1, <3>5 DEF PlaceRight, Gone, Held
      <3> QED
        BY <1>2, <3>1, <3>2, <3>3, <3>4, <3>5 DEF PlaceRight
    <2>3. S \in SUBSET Ids /\ \A j \in S : PlaceOf(j) \in {"waiting", "retrying"}
      OBVIOUS
    <2> HIDE DEF S
    <2>4. place' = [j \in Ids |-> IF j \in S THEN "gone" ELSE place[j]]
      BY <1>1, <2>2
    <2>5. Lifecycle!Drop(S)
      BY <1>1, <2>3, <2>4 DEF Lifecycle!Drop, place
    <2> QED
      BY <2>3, <2>5 DEF Lifecycle!Next
  <1>4. ASSUME NEW id \in Ids, Enters(id) \/ Declines(id) \/ Returns(id)
        PROVE  Lifecycle!Enter(id) \/ Lifecycle!Decline(id) \/ Lifecycle!Return(id)
    <2>1. \A j \in Ids \ {id} : SamePlace(j)
      BY <1>4 DEF Enters, Declines, Returns, SamePlace, BornNow, SameHolds,
                  SameDeferred, SameQueued, SameUnborn, SameRetried
    <2>3. CASE Enters(id)
      <3>1. PlaceOf(id) = "new" /\ PlaceOf(id)' = "waiting"
        BY <1>2, <2>3 DEF Enters, PlaceRight
      <3> QED
        BY <2>1, <3>1, OneMoves DEF Lifecycle!Enter
    <2>4. CASE Declines(id)
      <3>1. PlaceOf(id) = "new" /\ PlaceOf(id)' = "gone"
        BY <1>2, <2>4 DEF Declines, PlaceRight, Gone, Held, BornNow, SameQueued,
                          SameHolds, SameDeferred, SameRetried
      <3> QED
        BY <2>1, <3>1, OneMoves DEF Lifecycle!Decline
    <2>5. CASE Returns(id)
      <3>1. PlaceOf(id) = "parked" /\ PlaceOf(id)' = "waiting"
        BY <1>2, <2>5 DEF Returns, PlaceRight
      <3> QED
        BY <2>1, <3>1, OneMoves DEF Lifecycle!Return
    <2> QED
      BY <1>4, <2>3, <2>4, <2>5
  <1>5. ASSUME NEW w \in Workers, NEW id \in Ids, Takes(w, id)
        PROVE  Lifecycle!Take(w, id)
    <2>1. \A j \in Ids \ {id} : SamePlace(j)
      BY <1>5 DEF Takes, SamePlace, SameDeferred, SameUnborn, SameRetried
    <2>2. PlaceOf(id) = "waiting" /\ PlaceOf(id)' = w
      BY <1>2, <1>5 DEF Takes, PlaceRight
    <2>3. \A j \in Ids : place[j] # w
      BY <1>1, <1>2, <1>5 DEF Takes, PlaceRight, Holds
    <2> QED
      BY <2>1, <2>2, <2>3, OneMoves DEF Lifecycle!Take, place
  <1>6. ASSUME NEW w \in Workers, NEW id \in Ids, Parks(w, id) \/ Delays(w, id) \/ Leaves(w, id)
        PROVE  Lifecycle!Park(w, id) \/ Lifecycle!Delay(w, id) \/ Lifecycle!Leave(w, id)
    <2>1. Holds(w, id) /\ \A j \in Ids : Holds(w, j) => j = id
      BY <1>6 DEF Parks, Delays, Leaves, LetsGo, Holds
    <2>2. \A j \in Ids \ {id} : SamePlace(j)
      BY <1>6, <2>1 DEF Parks, Delays, Leaves, LetsGo, SamePlace, SameDeferred,
                        SameUnborn, SameQueued, SameRetried
    <2>3. PlaceOf(id) = w
      BY <1>2, <2>1 DEF PlaceRight
    <2>5. CASE Parks(w, id)
      <3>1. PlaceOf(id)' = "parked"
        BY <1>2, <2>5 DEF Parks, PlaceRight
      <3> QED
        BY <2>2, <2>3, <3>1, OneMoves DEF Lifecycle!Park
    <2>7. CASE Delays(w, id)
      <3>1. PlaceOf(id)' = "retrying"
        BY <1>2, <2>7 DEF Delays, PlaceRight
      <3> QED
        BY <2>2, <2>3, <3>1, OneMoves DEF Lifecycle!Delay
    <2>6. CASE Leaves(w, id)
      <3>1. PlaceOf(id)' = "gone"
        <4>1. /\ ~Unborn(id) /\ ~Queued(id) /\ ~Deferred(id) /\ ~Retried(id)
              /\ \A v \in Workers : Holds(v, id) => v = w
          BY <1>2, <2>1, <2>3, WorkersAssumption DEF PlaceRight
        <4> QED
          BY <1>2, <2>6, <4>1 DEF Leaves, LetsGo, PlaceRight, Gone, Held,
             SameUnborn, SameQueued, SameDeferred
      <3> QED
        BY <2>2, <2>3, <3>1, OneMoves DEF Lifecycle!Leave
    <2> QED
      BY <1>6, <2>5, <2>6, <2>7
  <1> QED
    BY <1>3, <1>4, <1>5, <1>6 DEF Moves, Lifecycle!Next

(* The manager implements RequestLifecycle, over every store and with      *)
(* every activity of its client: a tick only takes a request that waits, a *)
(* request that is set aside comes back once, and one that is neither that *)
(* nor left to a retry timer is never dispatched again.                    *)
THEOREM Refinement == Spec => ImplementsLifecycle
  <1> DEFINE Inv == TypeInv /\ OwnerInv /\ RetryGone
  <1>1. Init => Inv
    <2>1. Init => RetryGone
      BY DEF RetryGone, Init, Untracked
    <2> QED
      BY <2>1, InitHolds
  <1>2. Inv /\ [Next]_vars => Inv'
    BY StepKeeps, StepKeepsRetryGone
  <1>3. Init => Lifecycle!Init
    <2>1. ASSUME Init PROVE \A id \in Ids : PlaceOf(id) = "new"
      BY <2>1 DEF Init, PlaceOf, Unborn
    <2> QED
      BY <2>1 DEF Lifecycle!Init
  <1>4. Inv /\ PlacesRight /\ Inv' /\ PlacesRight' /\ [Next]_vars
          => [Lifecycle!Next]_([id \in Ids |-> PlaceOf(id)])
    BY StepMoves, MoveRefines
  <1>5. Inv => PlacesRight
    BY PlaceFacts
  <1> HIDE DEF Inv
  <1> QED
    BY <1>1, <1>2, <1>3, <1>4, <1>5, PTL DEF Spec, ImplementsLifecycle, Lifecycle!Spec

-----------------------------------------------------------------------------
(* The indexes of the statuses that count, and what overwriting relies on. *)

(* A request that its tick sets aside, or that a delay timer holds.        *)
SetAside(id) == \/ Deferred(id)
                \/ \E w \in Workers : workers[w].id = id /\ workers[w].pc = "deferring"

(* A record that Create or a delay timer will overwrite is not there yet,  *)
(* or has a status whose index may keep the id.                            *)
RecordInv ==
    \A id \in Ids :
        /\ Unborn(id) => ~Stored(id)
        /\ SetAside(id) /\ Stored(id)
             => requests[id].status \notin {"processing", "retrying"}

(* What most steps do to the records.                                      *)
RecordsFade ==
    \A j \in Ids :
        /\ Unborn(j)' => Unborn(j)
        /\ SetAside(j)' => SetAside(j)
        /\ Stored(j)' => /\ Stored(j)
                         /\ \/ requests'[j].status = requests[j].status
                            \/ requests'[j].status \notin {"processing", "retrying"}

(* Erasing records, and giving them statuses no index counts, is harmless. *)
LEMMA FadingKeepsRecords ==
    ASSUME RecordInv, RecordsFade
    PROVE  RecordInv'
  BY DEF RecordInv, RecordsFade, Stored

(* The three indexes, id by id.                                            *)
LEMMA ExactById ==
    ASSUME BackendTypeOK
    PROVE  IndexesExact <=> \A status \in {"pending", "processing", "retrying"}, j \in Ids :
                               j \in statusIndexes[status] <=> HasStatus(j, status)
  <1>1. \A status \in {"pending", "processing", "retrying"} :
          statusIndexes[status] \subseteq Ids
    BY DEF BackendTypeOK, Statuses
  <1> QED
    BY <1>1 DEF IndexesExact

(* remove() takes the id out of the index of its status.                   *)
LEMMA EraseExact ==
    ASSUME BackendInv, BackendInv', IndexesExact, NEW id \in Ids, Erase(id)
    PROVE  IndexesExact'
  <1>1. /\ BackendTypeOK
        /\ \A status \in {"pending", "processing", "retrying"}, j \in Ids :
             j \in statusIndexes[status] <=> HasStatus(j, status)
    BY ExactById DEF BackendInv
  <1>2. \A status \in {"pending", "processing", "retrying"} :
          statusIndexes'[status] \subseteq Ids
    BY DEF BackendInv, BackendTypeOK, Statuses
  <1>3. ASSUME NEW status \in {"pending", "processing", "retrying"}, NEW j \in Ids
        PROVE  j \in statusIndexes'[status] <=> HasStatus(j, status)'
    <2>1. CASE Stored(id)
      <3>1. requests[id].status \in Statuses
        BY <1>1, <2>1 DEF BackendTypeOK, Stored, Request
      <3>2. /\ requests' = [requests EXCEPT ![id] = NoRequest]
            /\ statusIndexes' =
                 [statusIndexes EXCEPT ![requests[id].status] = @ \ {id}]
        BY <2>1 DEF Erase
      <3> QED
        BY <1>1, <2>1, <3>1, <3>2
           DEF HasStatus, Stored, BackendTypeOK, Statuses
    <2>2. CASE ~Stored(id)
      BY <1>1, <2>2 DEF Erase, HasStatus, Stored
    <2> QED
      BY <2>1, <2>2
  <1> QED
    BY <1>2, <1>3 DEF IndexesExact

(* updateRequest moves the id from one index to the other.                 *)
LEMMA UpdateExact ==
    ASSUME BackendInv, BackendInv', IndexesExact, NEW id \in Ids, NEW r \in Request,
           UpdateRequest(id, r)
    PROVE  IndexesExact'
  <1>1. /\ BackendTypeOK
        /\ \A status \in {"pending", "processing", "retrying"}, j \in Ids :
             j \in statusIndexes[status] <=> HasStatus(j, status)
    BY ExactById DEF BackendInv
  <1>2. \A status \in {"pending", "processing", "retrying"} :
          statusIndexes'[status] \subseteq Ids
    BY DEF BackendInv, BackendTypeOK, Statuses
  <1>3. r # NoRequest /\ r.status \in Statuses /\ requests[id].status \in Statuses
    BY <1>1, NoRequestAssumption DEF Request, UpdateRequest, Stored, BackendTypeOK
  <1>4. ASSUME NEW status \in {"pending", "processing", "retrying"}, NEW j \in Ids
        PROVE  j \in statusIndexes'[status] <=> HasStatus(j, status)'
    BY <1>1, <1>3 DEF UpdateRequest, HasStatus, Stored, BackendTypeOK, Statuses
  <1> QED
    BY <1>2, <1>4 DEF IndexesExact

(* enqueue leaves the index of an overwritten record as it was: that is    *)
(* right as long as the record was not processing or retrying.             *)
LEMMA EnqueueExact ==
    ASSUME BackendInv, BackendInv', IndexesExact, NEW id \in Ids, NEW r \in Request,
           r.status = "pending", Enqueue(id, r),
           Stored(id) => requests[id].status \notin {"processing", "retrying"}
    PROVE  IndexesExact'
  <1>1. /\ BackendTypeOK
        /\ \A status \in {"pending", "processing", "retrying"}, j \in Ids :
             j \in statusIndexes[status] <=> HasStatus(j, status)
    BY ExactById DEF BackendInv
  <1>2. \A status \in {"pending", "processing", "retrying"} :
          statusIndexes'[status] \subseteq Ids
    BY DEF BackendInv, BackendTypeOK, Statuses
  <1>3. r # NoRequest
    BY NoRequestAssumption
  <1>4. ASSUME NEW status \in {"pending", "processing", "retrying"}, NEW j \in Ids
        PROVE  j \in statusIndexes'[status] <=> HasStatus(j, status)'
    BY <1>1, <1>3 DEF Enqueue, HasStatus, Stored, BackendTypeOK, Statuses
  <1> QED
    BY <1>2, <1>4 DEF IndexesExact

(* dequeue takes the pending request it found to the processing ones.      *)
LEMMA DequeueExact ==
    ASSUME BackendInv, BackendInv', IndexesExact, NEW zone \in Zones, NEW id \in Ids,
           Dequeue(zone, id)
    PROVE  IndexesExact'
  <1>1. /\ BackendTypeOK
        /\ \A status \in {"pending", "processing", "retrying"}, j \in Ids :
             j \in statusIndexes[status] <=> HasStatus(j, status)
    BY ExactById DEF BackendInv
  <1>2. \A status \in {"pending", "processing", "retrying"} :
          statusIndexes'[status] \subseteq Ids
    BY DEF BackendInv, BackendTypeOK, Statuses
  <1>3. HasStatus(id, "pending")
    BY DEF Dequeue, Chosen, Ready
  <1>4. requests[id] \in Request
    BY <1>1, <1>3 DEF BackendTypeOK, HasStatus, Stored
  <1>5. /\ requests' = [requests EXCEPT ![id].status = "processing"]
        /\ requests'[id] # NoRequest /\ requests'[id].status = "processing"
    <2>1. [requests[id] EXCEPT !.status = "processing"] \in Request
      BY <1>4 DEF Request, Statuses
    <2> QED
      BY <1>1, <1>4, <2>1, NoRequestAssumption DEF Dequeue, BackendTypeOK, Request
  <1>6. statusIndexes' = [statusIndexes EXCEPT !["pending"] = @ \ {id},
                                               !["processing"] = @ \cup {id}]
    BY DEF Dequeue
  <1>7. ASSUME NEW status \in {"pending", "processing", "retrying"}, NEW j \in Ids
        PROVE  j \in statusIndexes'[status] <=> HasStatus(j, status)'
    <2>1. CASE j = id
      BY <1>1, <1>3, <1>5, <1>6, <2>1 DEF HasStatus, Stored, BackendTypeOK, Statuses
    <2>2. CASE j # id
      <3>1. requests'[j] = requests[j]
        BY <1>1, <1>5, <2>2 DEF BackendTypeOK
      <3> QED
        BY <1>1, <1>6, <2>2, <3>1 DEF HasStatus, Stored, BackendTypeOK, Statuses
    <2> QED
      BY <2>1, <2>2
  <1> QED
    BY <1>2, <1>7 DEF IndexesExact

(* clear() without a zone empties every index.                             *)
LEMMA ClearExact == ASSUME ClearAll PROVE IndexesExact'
  BY DEF ClearAll, IndexesExact, NoStatuses, Statuses, HasStatus, Stored

(* Time changes no status.                                                 *)
LEMMA ElapseExact ==
    ASSUME BackendInv, IndexesExact, NEW id \in Ids, Elapse(id)
    PROVE  IndexesExact' /\ \A j \in Ids : /\ Stored(j)' <=> Stored(j)
                                           /\ Stored(j) => requests'[j].status = requests[j].status
  <1>1. BackendTypeOK
    BY DEF BackendInv
  <1>2. PICK phase \in Phases :
          /\ requests' = [requests EXCEPT ![id].scheduledAt = phase]
          /\ Stored(id) /\ statusIndexes' = statusIndexes
    BY DEF Elapse, Phases
  <1>3. requests[id] \in Request
    BY <1>1, <1>2 DEF BackendTypeOK, Stored
  <1>4. [requests[id] EXCEPT !.scheduledAt = phase] \in Request
    BY <1>3 DEF Request
  <1>5. \A j \in Ids : /\ Stored(j)' <=> Stored(j)
                       /\ Stored(j) => requests'[j].status = requests[j].status
    BY <1>1, <1>2, <1>3, <1>4, NoRequestAssumption DEF Stored, BackendTypeOK, Request
  <1>6. \A status \in {"pending", "processing", "retrying"}, j \in Ids :
          HasStatus(j, status)' <=> HasStatus(j, status)
    BY <1>5 DEF HasStatus
  <1> QED
    BY <1>2, <1>5, <1>6 DEF IndexesExact

(* Steps that leave the records alone and set nothing aside.               *)
LEMMA QuietStepKeepsRecords ==
    ASSUME RecordInv, IndexesExact, UNCHANGED <<requests, statusIndexes>>,
           \A j \in Ids : /\ Unborn(j)' => Unborn(j)
                          /\ SetAside(j)' => SetAside(j)
    PROVE  RecordInv' /\ IndexesExact'
  BY DEF RecordInv, IndexesExact, HasStatus, Stored

(* A status written into a stored record.                                  *)
LEMMA WrittenRecord ==
    ASSUME BackendInv, NEW id \in Ids, NEW r \in Request, UpdateRequest(id, r)
    PROVE  /\ Stored(id) /\ requests'[id] = r
           /\ \A j \in Ids \ {id} : requests'[j] = requests[j]
  BY DEF UpdateRequest, BackendInv, BackendTypeOK

(* What is stored after a change of status.                                *)
LEMMA SetStatusRecord ==
    ASSUME BackendInv, NEW id \in Ids, NEW status \in Statuses,
           SetStatus(id, status)
    PROVE  /\ [requests[id] EXCEPT !.status = status] \in Request
           /\ UpdateRequest(id, [requests[id] EXCEPT !.status = status])
           /\ Stored(id) /\ requests'[id] = [requests[id] EXCEPT !.status = status]
           /\ requests'[id].status = status
           /\ \A j \in Ids \ {id} : requests'[j] = requests[j]
  <1>1. UpdateRequest(id, [requests[id] EXCEPT !.status = status]) /\ Stored(id)
    BY DEF SetStatus, UpdateRequest
  <1>2. requests[id] \in Request
    BY <1>1 DEF BackendInv, BackendTypeOK, Stored
  <1>3. /\ [requests[id] EXCEPT !.status = status] \in Request
        /\ [requests[id] EXCEPT !.status = status].status = status
    BY <1>2 DEF Request
  <1> QED
    BY <1>1, <1>3, WrittenRecord

(* The steps of an enqueue call: Create overwrites nothing.                *)
LEMMA EnqueueKeepsRecords ==
    ASSUME TypeInv, TypeInv', OwnerInv, RecordInv, IndexesExact, [Next]_vars,
           NEW id \in Ids, Submit(id) \/ EnqueueStep(id)
    PROVE  RecordInv' /\ IndexesExact'
  <1>1. BackendInv /\ BackendInv' /\ BackendTypeOK /\ call \in [Ids -> Call]
    BY DEF TypeInv, TypeOK, BackendInv
  <1>2. UNCHANGED <<workers, deferTimers>>
    BY DEF EnqueueStep, Submit, HandleQueueFull, RefuseFull, SweepRemove,
           SweepCleanup, Join, Create, Accept
  <1>3. \A j \in Ids : SetAside(j)' <=> SetAside(j)
    BY <1>2 DEF SetAside, Deferred
  <1>4. \A j \in Ids : Unborn(j)' => Unborn(j)
    <2>1. Moves
      BY EnqueueStepMoves
    <2> QED
      BY <2>1 DEF Moves, Stays, Enters, Declines, Returns, Takes, Parks, Delays,
                  Leaves, LetsGo, SameUnborn, BornNow
  <1>5. CASE \/ Submit(id) \/ HandleQueueFull(id) \/ RefuseFull(id)
             \/ SweepCleanup(id) \/ Join(id) \/ Accept(id)
    <2>1. UNCHANGED <<requests, statusIndexes>>
      BY <1>5 DEF Submit, HandleQueueFull, RefuseFull, SweepCleanup, Join,
                  Accept, backendVars
    <2> QED
      BY <1>3, <1>4, <2>1, QuietStepKeepsRecords
  <1>6. ASSUME NEW victim \in Ids, SweepRemove(id, victim)
        PROVE  RecordInv' /\ IndexesExact'
    <2>1. Erase(victim)
      BY <1>6 DEF SweepRemove
    <2>2. \A j \in Ids : requests'[j] = requests[j] \/ requests'[j] = NoRequest
      BY <1>1, <2>1 DEF Erase, BackendTypeOK
    <2> QED
      BY <1>1, <1>3, <1>4, <2>1, <2>2, EraseExact, FadingKeepsRecords
         DEF RecordsFade, Stored
  <1>7. CASE Create(id)
    <2>1. PICK phase \in SubmitPhases : Enqueue(id, NewRequest("pending", phase, 0))
      BY <1>7 DEF Create
    <2>2. /\ NewRequest("pending", phase, 0) \in Request
          /\ NewRequest("pending", phase, 0).status = "pending"
      BY ManagerAssumption, StatusWords DEF NewRequest, Request
    <2>3. Unborn(id) /\ ~Unborn(id)'
      BY <1>1, <1>7 DEF Unborn, Create, HasRoom, Call
    <2>4. ~Stored(id) /\ ~SetAside(id)
      <3>1. \A w \in Workers : workers[w].id = id => workers[w].pc = "idle"
        BY <2>3 DEF OwnerInv, UnbornNowhere, Held, Holds
      <3> QED
        BY <2>3, <3>1 DEF RecordInv, OwnerInv, UnbornNowhere, SetAside
    <2>5. \A j \in Ids : j # id => requests'[j] = requests[j]
      BY <1>1, <2>1 DEF Enqueue, BackendTypeOK
    <2>6. RecordInv'
      BY <1>3, <1>4, <2>3, <2>4, <2>5 DEF RecordInv, Stored
    <2> QED
      BY <1>1, <2>1, <2>2, <2>4, <2>6, EnqueueExact
  <1> QED
    BY <1>5, <1>6, <1>7 DEF EnqueueStep

(* The claim of a tick.                                                    *)
LEMMA TickKeepsRecords ==
    ASSUME TypeInv, TypeInv', OwnerInv, RecordInv, IndexesExact,
           NEW w \in Workers, NEW id \in Ids, Tick(w, id)
    PROVE  RecordInv' /\ IndexesExact'
  <1>1. BackendInv /\ BackendInv' /\ BackendTypeOK /\ workers \in [Workers -> Worker]
    BY DEF TypeInv, TypeOK, BackendInv
  <1>2. Dequeue(DefaultZone, id) /\ DefaultZone \in Zones
    BY ManagerAssumption DEF Tick
  <1>3. Queued(id) /\ Stored(id)
    BY <1>1, <1>2, DequeueEffect DEF Ready, HasStatus
  <1>4. \A j \in Ids \ {id} : requests'[j] = requests[j]
    BY <1>1, <1>2 DEF Dequeue, BackendTypeOK
  <1>5. ~SetAside(id)' /\ \A j \in Ids \ {id} : SetAside(j)' => SetAside(j)
    <2>1. /\ workers' = [workers EXCEPT ![w] =
                           [pc |-> "claimed", id |-> id,
                            retries |-> requests[id].retryCount]]
          /\ deferTimers' = deferTimers
      BY DEF Tick, OnlyWorkers
    <2>2. ~Deferred(id) /\ ~Held(id)
      BY <1>3 DEF OwnerInv, ExclusiveOwner
    <2> QED
      BY <1>1, <2>1, <2>2 DEF SetAside, Deferred, Held, Holds
  <1>6. \A j \in Ids : Unborn(j)' <=> Unborn(j)
    BY DEF Tick, OnlyWorkers, callerVars, Unborn
  <1>7. RecordInv'
    BY <1>3, <1>4, <1>5, <1>6 DEF RecordInv, Stored
  <1> QED
    BY <1>1, <1>2, <1>7, DequeueExact

(* A tick writes into the record of its own request.                       *)
LEMMA RecordingKeepsRecords ==
    ASSUME TypeInv, TypeInv', OwnerInv, RecordInv, IndexesExact,
           NEW w \in Workers, workers[w].pc # "idle", NEW r,
           Stored(workers[w].id) => r \in Request,
           NEW pc \in {"deferring", "starting", "executing", "succeeded",
                       "failed", "completing", "retrying", "abandoning"},
           pc = "deferring" => r.status \notin {"processing", "retrying"},
           UpdateOrGiveUp(w, r, pc), UNCHANGED <<call, deferTimers>>
    PROVE  RecordInv' /\ IndexesExact'
  <1>0. PICK id \in Ids : id = workers[w].id
    BY DEF TypeInv, BusyKnown
  <1>1. /\ BackendInv /\ BackendInv' /\ BackendTypeOK
        /\ workers \in [Workers -> Worker]
    BY DEF TypeInv, TypeOK, BackendInv
  <1>2. /\ ~Unborn(id) /\ ~Deferred(id)
        /\ \A v \in Workers : workers[v].pc # "idle" /\ workers[v].id = id => v = w
    BY <1>0, <1>1 DEF OwnerInv, ExclusiveOwner, UnbornNowhere, Held, Holds
  <1>3. \A j \in Ids : (Unborn(j)' <=> Unborn(j)) /\ (Deferred(j)' <=> Deferred(j))
    BY DEF Unborn, Deferred
  <1>4. CASE UpdateRequest(workers[w].id, r) /\ Proceed(w, pc)
    <2>1. r \in Request
      BY <1>4 DEF UpdateRequest
    <2>2. /\ Stored(id) /\ requests'[id] = r
          /\ \A j \in Ids \ {id} : requests'[j] = requests[j]
      BY <1>0, <1>1, <1>4, <2>1, WrittenRecord
    <2>3. workers' = [workers EXCEPT ![w] = [workers[w] EXCEPT !.pc = pc]]
          /\ workers'[w].id = id /\ workers'[w].pc = pc
      BY <1>0, <1>1, <1>4 DEF Proceed, Worker
    <2>4. \A j \in Ids \ {id} : SetAside(j)' <=> SetAside(j)
      BY <1>0, <1>1, <1>3, <2>3 DEF SetAside
    <2>5. SetAside(id)' => pc = "deferring"
      BY <1>1, <1>2, <1>3, <2>3 DEF SetAside
    <2>6. RecordInv'
      <3>1. SetAside(id)' => r.status \notin {"processing", "retrying"}
        BY <2>5
      <3>2. ASSUME NEW j \in Ids \ {id}
            PROVE  /\ Unborn(j)' => ~Stored(j)'
                   /\ SetAside(j)' /\ Stored(j)'
                        => requests'[j].status \notin {"processing", "retrying"}
        BY <1>3, <2>2, <2>4 DEF RecordInv, Stored
      <3>3. ~Unborn(id)' /\ requests'[id].status = r.status
        BY <1>2, <1>3, <2>2
      <3> QED
        BY <3>1, <3>2, <3>3 DEF RecordInv
    <2> QED
      BY <1>0, <1>1, <1>4, <2>1, <2>6, UpdateExact
  <1>5. CASE Finish(w) /\ UNCHANGED backendVars
    <2>1. \A j \in Ids : SetAside(j)' => SetAside(j)
      BY <1>1, <1>3, <1>5 DEF Finish, Idle, SetAside
    <2> QED
      BY <1>3, <1>5, <2>1, QuietStepKeepsRecords DEF backendVars
  <1> QED
    BY <1>4, <1>5 DEF UpdateOrGiveUp

(* The later steps of a tick.                                              *)
LEMMA TickStepKeepsRecords ==
    ASSUME TypeInv, TypeInv', OwnerInv, RecordInv, IndexesExact,
           NEW w \in Workers, ProcessStep(w) \/ ProcessorSettles(w)
    PROVE  RecordInv' /\ IndexesExact'
  <1> DEFINE Goal == RecordInv' /\ IndexesExact'
  <1>1. /\ BackendTypeOK /\ BusyKnown
        /\ workers \in [Workers -> Worker]
    BY DEF TypeInv, TypeOK
  <1>2. workers[w].pc # "idle" /\ call' = call
    BY DEF ProcessStep, ProcessorSettles, CanExecute, RescheduleRequest,
           SetDeferTimer, StartProcessor, HandleRequestSuccess, Completed,
           ScheduleRetry, SetRetryTimer, HandleRequestFailure, Abandoned,
           ProcessorResolves, ProcessorFails, OnlyWorkers, callerVars
  <1>3. workers[w].id \in Ids /\ workers[w].retries \in Nat
    BY <1>1, <1>2 DEF BusyKnown, Worker
  <1> HIDE DEF Goal
  <1>4. ASSUME CanExecute(w) PROVE Goal
    <2>1. Stored(workers[w].id)
            => [Of(w) EXCEPT !.status = "processing"] \in Request
      BY <1>1, <1>3, RecordChange, StatusWords DEF Of
    <2> QED
      BY <1>2, <1>4, <2>1, RecordingKeepsRecords DEF CanExecute, OnlyWorkers, Goal
  <1>5. ASSUME RescheduleRequest(w) PROVE Goal
    <2>1. Stored(workers[w].id)
            => [Of(w) EXCEPT !.status = "pending", !.scheduledAt = "future"]
                 \in Request
      BY <1>1, <1>3, RecordChange, StatusWords DEF Of
    <2>2. CASE Stored(workers[w].id)
      <3>1. Of(w) \in Request
        BY <1>1, <1>3, <2>2 DEF Of, BackendTypeOK, Stored
      <3>2. [Of(w) EXCEPT !.status = "pending", !.scheduledAt = "future"].status
              = "pending"
        BY <3>1 DEF Request
      <3> QED
        BY <1>2, <1>5, <2>1, <3>2, RecordingKeepsRecords
           DEF RescheduleRequest, OnlyWorkers, Goal
    <2>3. CASE ~Stored(workers[w].id)
      <3>1. Finish(w) /\ UNCHANGED backendVars /\ deferTimers' = deferTimers
        BY <1>5, <2>3 DEF RescheduleRequest, UpdateOrGiveUp, UpdateRequest, OnlyWorkers
      <3>2. \A j \in Ids : /\ Unborn(j)' <=> Unborn(j)
                           /\ SetAside(j)' => SetAside(j)
        BY <1>1, <1>2, <3>1 DEF Finish, Idle, SetAside, Deferred, Unborn
      <3> QED
        BY <3>1, <3>2, QuietStepKeepsRecords DEF backendVars, Goal
    <2> QED
      BY <2>2, <2>3
  <1>6. ASSUME HandleRequestSuccess(w) PROVE Goal
    <2>1. Stored(workers[w].id)
            => [Of(w) EXCEPT !.status = "completed"] \in Request
      BY <1>1, <1>3, RecordChange, StatusWords DEF Of
    <2> QED
      BY <1>2, <1>6, <2>1, RecordingKeepsRecords DEF HandleRequestSuccess, OnlyWorkers, Goal
  <1>7. ASSUME ScheduleRetry(w) PROVE Goal
    <2>1. NewRequest("retrying", "future", workers[w].retries + 1) \in Request
      BY <1>3, StatusWords DEF NewRequest, Request
    <2> QED
      BY <1>2, <1>7, <2>1, RecordingKeepsRecords DEF ScheduleRetry, OnlyWorkers, Goal
  <1>8. ASSUME HandleRequestFailure(w) PROVE Goal
    <2>1. Stored(workers[w].id)
            => [Of(w) EXCEPT !.status = "failed"] \in Request
      BY <1>1, <1>3, RecordChange, StatusWords DEF Of
    <2> QED
      BY <1>2, <1>8, <2>1, RecordingKeepsRecords DEF HandleRequestFailure, OnlyWorkers, Goal
  <1>9. CASE \/ SetDeferTimer(w) \/ StartProcessor(w) \/ ProcessorResolves(w)
             \/ ProcessorFails(w) \/ Completed(w) \/ SetRetryTimer(w)
             \/ Abandoned(w)
    <2>1. UNCHANGED backendVars
      BY <1>9 DEF SetDeferTimer, StartProcessor, ProcessorResolves, ProcessorFails,
                  Completed, SetRetryTimer, Abandoned
    <2>2. \A j \in Ids : SetAside(j)' => SetAside(j)
      <3>1. CASE SetDeferTimer(w)
        <4>1. /\ workers[w].pc = "deferring" /\ Finish(w)
              /\ deferTimers' = deferTimers \cup
                   {[id |-> workers[w].id, retries |-> workers[w].retries]}
          BY <3>1 DEF SetDeferTimer
        <4>2. [id |-> workers[w].id, retries |-> workers[w].retries].id = workers[w].id
          OBVIOUS
        <4> QED
          BY <1>1, <4>1, <4>2 DEF SetAside, Deferred, Finish, Idle
      <3>2. CASE ~SetDeferTimer(w)
        <4>1. deferTimers' = deferTimers
          BY <1>9, <3>2
             DEF StartProcessor, ProcessorResolves, ProcessorFails,
                 Completed, SetRetryTimer, Abandoned, OnlyWorkers
        <4>2. Finish(w) \/ \E pc \in {"executing", "succeeded", "failed"} : Proceed(w, pc)
          BY <1>9, <3>2
             DEF StartProcessor, ProcessorResolves, ProcessorFails,
                 Completed, SetRetryTimer, Abandoned
        <4> QED
          BY <1>1, <4>1, <4>2 DEF SetAside, Deferred, Finish, Idle, Proceed, Worker
      <3> QED
        BY <3>1, <3>2
    <2>3. \A j \in Ids : Unborn(j)' <=> Unborn(j)
      BY <1>2 DEF Unborn
    <2> QED
      BY <2>1, <2>2, <2>3, QuietStepKeepsRecords DEF backendVars, Goal
  <1> QED
    BY <1>4, <1>5, <1>6, <1>7, <1>8, <1>9 DEF ProcessStep, ProcessorSettles, Goal

(* Timers and cancellations write other statuses than a tick counts on.    *)
LEMMA StatusStepKeepsRecords ==
    ASSUME TypeInv, TypeInv', RecordInv, IndexesExact, NEW id \in Ids,
           UNCHANGED <<call, workers>>, deferTimers' \subseteq deferTimers,
           \/ UNCHANGED <<requests, statusIndexes>>
           \/ \E status \in {"pending", "expired", "cancelled"} : SetStatus(id, status)
           \/ Elapse(id) \/ ClearAll
           \/ Erase(id)
    PROVE  RecordInv' /\ IndexesExact'
  <1>1. BackendInv /\ BackendInv' /\ BackendTypeOK
    BY DEF TypeInv, TypeOK, BackendInv
  <1>2. \A j \in Ids : /\ Unborn(j)' => Unborn(j)
                       /\ SetAside(j)' => SetAside(j)
    BY DEF Unborn, SetAside, Deferred
  <1>3. CASE UNCHANGED <<requests, statusIndexes>>
    BY <1>2, <1>3, QuietStepKeepsRecords
  <1>4. ASSUME NEW status \in {"pending", "expired", "cancelled"}, SetStatus(id, status)
        PROVE  RecordInv' /\ IndexesExact'
    <2>1. status \in Statuses
      BY StatusWords
    <2>2. RecordsFade
      BY <1>1, <1>2, <1>4, <2>1, SetStatusRecord DEF RecordsFade, Stored
    <2> QED
      BY <1>1, <1>4, <2>1, <2>2, SetStatusRecord, UpdateExact, FadingKeepsRecords
  <1>5. CASE Elapse(id)
    BY <1>1, <1>2, <1>5, ElapseExact, FadingKeepsRecords DEF RecordsFade
  <1>6. CASE ClearAll
    BY <1>2, <1>6, ClearExact, FadingKeepsRecords DEF RecordsFade, ClearAll, Stored
  <1>7. CASE Erase(id)
    <2>1. \A j \in Ids : requests'[j] = requests[j] \/ requests'[j] = NoRequest
      BY <1>1, <1>7 DEF Erase, BackendTypeOK
    <2> QED
      BY <1>1, <1>2, <1>7, <2>1, EraseExact, FadingKeepsRecords DEF RecordsFade, Stored
  <1> QED
    BY <1>3, <1>4, <1>5, <1>6, <1>7

(* A delay timer overwrites a record that is pending, or gone, or marked   *)
(* by a cancellation or a timeout: never one that a live index counts      *)
(* elsewhere.                                                              *)
LEMMA DeferTimerKeepsRecords ==
    ASSUME TypeInv, TypeInv', OwnerInv, RecordInv, IndexesExact,
           NEW timer \in deferTimers, DeferTimerFires(timer)
    PROVE  RecordInv' /\ IndexesExact'
  <1>1. /\ BackendInv /\ BackendInv' /\ BackendTypeOK
        /\ timer.id \in Ids /\ timer.retries \in Nat
    BY DEF TypeInv, TypeOK, BackendInv
  <1> DEFINE id == timer.id
  <1>2. Enqueue(id, NewRequest("pending", "due", timer.retries))
    BY DEF DeferTimerFires
  <1>3. /\ NewRequest("pending", "due", timer.retries) \in Request
        /\ NewRequest("pending", "due", timer.retries).status = "pending"
    BY <1>1, StatusWords DEF NewRequest, Request
  <1>4. Deferred(id) /\ SetAside(id) /\ ~Unborn(id) /\ Returns(id)
    BY <1>1, DeferTimerMoves DEF Deferred, SetAside, OwnerInv, UnbornNowhere
  <1>5. /\ requests'[id] = NewRequest("pending", "due", timer.retries)
        /\ \A j \in Ids \ {id} : requests'[j] = requests[j]
    BY <1>1, <1>2 DEF Enqueue, BackendTypeOK
  <1>6. \A j \in Ids : /\ Unborn(j)' <=> Unborn(j)
                       /\ SetAside(j)' => SetAside(j)
    BY DEF DeferTimerFires, callerVars, Unborn, SetAside, Deferred
  <1> HIDE DEF id
  <1>7. RecordInv'
    BY <1>3, <1>4, <1>5, <1>6 DEF Stored, RecordInv
  <1>8. id \in Ids /\ (Stored(id) => requests[id].status \notin {"processing", "retrying"})
    BY <1>1, <1>4 DEF RecordInv, id
  <1> QED
    BY <1>1, <1>2, <1>3, <1>7, <1>8, EnqueueExact

(* Every step keeps what overwriting relies on, and so the indexes.        *)
LEMMA StepKeepsRecords ==
    ASSUME TypeInv, TypeInv', OwnerInv, RecordInv, IndexesExact, [Next]_vars
    PROVE  RecordInv' /\ IndexesExact'
  <1> USE DEF callerVars, dedupVars, controlVars, managerVars
  <1> DEFINE Goal == RecordInv' /\ IndexesExact'
  <1> HIDE DEF Goal
  <1>1. ASSUME NEW id \in Ids, Submit(id) \/ EnqueueStep(id) PROVE Goal
    BY <1>1, EnqueueKeepsRecords DEF Goal
  <1>2. ASSUME NEW id \in Ids, TimerFires(id) \/ TimerStep(id) \/ ClockTick(id)
        PROVE  Goal
    <2>1. ASSUME NEW timer \in deferTimers, DeferTimerFires(timer) PROVE Goal
      BY <2>1, DeferTimerKeepsRecords DEF Goal
    <2>2. CASE \/ RetryTimerFires(id) \/ RetryAwake(id) \/ TimeoutFires(id)
               \/ TimeoutExpires(id) \/ TimeoutCleanup(id)
               \/ DedupWindowEnds(id) \/ ClockTick(id)
      <3>1. /\ UNCHANGED <<call, workers, deferTimers>>
            /\ \/ UNCHANGED <<requests, statusIndexes>>
               \/ \E status \in {"pending", "expired", "cancelled"} : SetStatus(id, status)
               \/ Elapse(id)
        BY <2>2 DEF RetryTimerFires, RetryAwake, TimeoutFires, TimeoutExpires,
                    TimeoutCleanup, OnlyTracking, DedupWindowEnds, ClockTick,
                    backendVars
      <3> QED
        BY <3>1, StatusStepKeepsRecords DEF Goal
    <2> QED
      BY <1>2, <2>1, <2>2 DEF TimerFires, TimerStep
  <1>3. ASSUME NEW id \in Ids, CancelRequest(id) \/ CancelStep(id) PROVE Goal
    <2>1. /\ UNCHANGED <<call, workers, deferTimers>>
          /\ \/ UNCHANGED <<requests, statusIndexes>>
             \/ SetStatus(id, "cancelled")
      BY <1>3 DEF CancelStep, CancelRequest, CancelUpdates, CancelCleanup,
                  backendVars
    <2> QED
      BY <2>1, StatusStepKeepsRecords DEF Goal
  <1>4. ASSUME NEW w \in Workers, NEW id \in Ids, Tick(w, id) PROVE Goal
    BY <1>4, TickKeepsRecords DEF Goal
  <1>5. ASSUME NEW w \in Workers, ProcessStep(w) \/ ProcessorSettles(w)
        PROVE  Goal
    BY <1>5, TickStepKeepsRecords DEF Goal
  <1>6. ASSUME NEW loop \in Loops, NEW id \in Ids, LoopStep(loop, id) PROVE Goal
    <2>1. Erase(id) /\ UNCHANGED <<call, workers, deferTimers>>
      BY <1>6 DEF LoopStep, RemoveDoomed
    <2> QED
      BY <2>1, StatusStepKeepsRecords DEF Goal
  <1>7. CASE \/ Clear \/ ClearForgets \/ MaintenanceTick
             \/ \E zone \in Zones : ClearOneZone(zone)
             \/ PauseOrResume \/ Shutdown \/ ShutdownDrained
             \/ ShutdownTimesOut \/ CloseBackend \/ UNCHANGED vars
    <2>1. /\ UNCHANGED <<call, workers, deferTimers>>
          /\ UNCHANGED <<requests, statusIndexes>> \/ ClearAll
      BY <1>7 DEF Clear, ClearForgets, ClearOneZone, MaintenanceTick,
                  ClearZone, Maintenance, PauseOrResume, Shutdown,
                  ShutdownDrained, ShutdownTimesOut, EndDrain, CloseBackend,
                  OnlyManager, vars, backendVars
    <2>2. CASE UNCHANGED <<requests, statusIndexes>>
      <3>1. \A j \in Ids : /\ Unborn(j)' => Unborn(j)
                           /\ SetAside(j)' => SetAside(j)
        BY <2>1 DEF Unborn, SetAside, Deferred
      <3> QED
        BY <2>2, <3>1, QuietStepKeepsRecords DEF Goal
    <2>3. CASE ClearAll
      <3>1. RecordsFade
        BY <2>1, <2>3 DEF RecordsFade, ClearAll, Stored, Unborn, SetAside, Deferred
      <3> QED
        BY <2>3, <3>1, ClearExact, FadingKeepsRecords DEF Goal
    <2> QED
      BY <2>1, <2>2, <2>3
  <1> QED
    BY <1>1, <1>2, <1>3, <1>4, <1>5, <1>6, <1>7 DEF Next, Goal

(* At the start nothing is stored.                                         *)
LEMMA InitRecords ==
    ASSUME Init
    PROVE  RecordInv /\ IndexesExact
  BY DEF Init, BackendInit, RecordInv, IndexesExact, HasStatus, Stored, SetAside,
         Deferred, Idle, NoStatuses, Statuses

(* The indexes of pending, processing and retrying requests name exactly   *)
(* the requests that have that status: size() and the sweep of a full      *)
(* queue never count or miss one, although enqueue overwrites records      *)
(* without taking them out of their old index.                             *)
THEOREM CountedExactly == Spec => []IndexesExact
  <1> DEFINE Inv == TypeInv /\ OwnerInv /\ RecordInv /\ IndexesExact
  <1>1. Init => Inv
    BY InitHolds, InitRecords
  <1>2. Inv /\ [Next]_vars => Inv'
    BY StepKeeps, StepKeepsRecords
  <1> QED
    BY <1>1, <1>2, PTL DEF Spec

-----------------------------------------------------------------------------
(* The event loop over the in-memory store.                                *)

(* The turn of a timer and the turn of a call do not mix.                  *)
OneChain == ~(TimerChain /\ CallChain)

(* Every step begins a turn, when nothing forbids it, or goes on with one, *)
(* and then it begins no turn of the other kind.                           *)
TurnKind ==
    \/ /\ TimerTurn \/ TimerChain
       /\ CallChain' => CallChain
    \/ /\ ClientTurn \/ CallChain
       /\ TimerChain' => TimerChain
    \/ (TimerChain' => TimerChain) /\ (CallChain' => CallChain)

(* So the two kinds of turn never overlap.                                 *)
LEMMA TurnsDoNotMix ==
    ASSUME InProcess, OneChain, TurnKind
    PROVE  OneChain'
  BY DEF OneChain, TurnKind, TimerTurn, ClientTurn

(* The steps of an enqueue call.                                           *)
LEMMA EnqueueTurn ==
    ASSUME TypeInv, NEW id \in Ids, Submit(id) \/ EnqueueStep(id)
    PROVE  TurnKind
  <1>1. tracking \in [Ids -> Tracking]
    BY DEF TypeInv, TypeOK
  <1>2. UNCHANGED <<workers, doomed>>
    BY DEF EnqueueStep, Submit, HandleQueueFull, RefuseFull, SweepRemove,
           SweepCleanup, Join, Create, Accept, backendVars, Enqueue
  <1>3. ClientTurn \/ CallChain
    BY DEF EnqueueStep, Submit, HandleQueueFull, RefuseFull, SweepRemove,
           SweepCleanup, Join, Create, Accept, HasRoom, CallChain
  <1>4. \A j \in Ids : /\ tracking'[j].timeout \in {tracking[j].timeout, "off", "set"}
                       /\ tracking'[j].retry \in {tracking[j].retry, "off"}
    <2>1. CASE Create(id)
      BY <1>1, <2>1 DEF Create
    <2>2. CASE ~Create(id)
      <3>1. tracking' = tracking \/ \E j \in Ids : CleanupRequest(j)
        BY <2>2 DEF EnqueueStep, Submit, HandleQueueFull, RefuseFull, SweepRemove,
               SweepCleanup, Join, Accept, TypeInv, TypeOK, Call
      <3> QED
        BY <3>1, ForgettingStartsNothing
    <2> QED
      BY <2>1, <2>2
  <1>5. TimerChain' => TimerChain
    BY <1>2, <1>4 DEF TimerChain
  <1> QED
    BY <1>3, <1>5 DEF TurnKind

(* The steps of a tick.                                                    *)
LEMMA TickStepTurn ==
    ASSUME TypeInv, NEW w \in Workers, ProcessStep(w) \/ ProcessorSettles(w)
    PROVE  TurnKind
  <1>1. /\ workers \in [Workers -> Worker] /\ tracking \in [Ids -> Tracking]
    BY DEF TypeInv, TypeOK
  <1>2. UNCHANGED <<call, cancel, clearing, manager, doomed>>
    BY DEF ProcessStep, ProcessorSettles, CanExecute, RescheduleRequest,
           SetDeferTimer, StartProcessor, HandleRequestSuccess, Completed,
           ScheduleRetry, SetRetryTimer, HandleRequestFailure, Abandoned,
           ProcessorResolves, ProcessorFails, OnlyWorkers, callerVars,
           controlVars, UpdateOrGiveUp, UpdateRequest, backendVars
  <1>3. CASE CanExecute(w) \/ RescheduleRequest(w) \/ SetDeferTimer(w) \/ StartProcessor(w)
    <2>1. TimerChain
      BY <1>3 DEF TimerChain, CanExecute, RescheduleRequest, SetDeferTimer, StartProcessor
    <2>2. Finish(w) \/ \E pc \in {"starting", "deferring", "executing"} : Proceed(w, pc)
      BY <1>3 DEF CanExecute, RescheduleRequest, SetDeferTimer, StartProcessor, UpdateOrGiveUp
    <2>3. CallChain' => CallChain
      <3>1. \A v \in Workers : workers'[v].pc = workers[v].pc
                \/ workers'[v].pc \in {"idle", "starting", "deferring", "executing"}
        BY <1>1, <2>2 DEF Finish, Idle, Proceed, Worker
      <3> QED
        BY <1>2, <3>1 DEF CallChain
    <2> QED
      BY <2>1, <2>3 DEF TurnKind
  <1>4. CASE ~(CanExecute(w) \/ RescheduleRequest(w) \/ SetDeferTimer(w) \/ StartProcessor(w))
    <2>1. ClientTurn \/ CallChain
      BY <1>4 DEF ProcessStep, ProcessorSettles, HandleRequestSuccess, Completed,
           ScheduleRetry, SetRetryTimer, HandleRequestFailure, Abandoned,
           ProcessorResolves, ProcessorFails, CallChain
    <2>2. Finish(w) \/ \E pc \in {"succeeded", "failed", "completing", "retrying", "abandoning"} :
                         Proceed(w, pc)
      BY <1>4 DEF ProcessStep, ProcessorSettles, HandleRequestSuccess, Completed,
           ScheduleRetry, SetRetryTimer, HandleRequestFailure, Abandoned,
           ProcessorResolves, ProcessorFails, UpdateOrGiveUp
    <2>3. \A v \in Workers : workers'[v].pc = workers[v].pc
              \/ workers'[v].pc \in {"idle", "succeeded", "failed", "completing", "retrying",
                                     "abandoning"}
      BY <1>1, <2>2 DEF Finish, Idle, Proceed, Worker
    <2>4. \A j \in Ids : /\ tracking'[j].timeout \in {tracking[j].timeout, "off"}
                         /\ tracking'[j].retry \in {tracking[j].retry, "off", "set"}
      <3>1. CASE SetRetryTimer(w)
        BY <1>1, <3>1 DEF SetRetryTimer, Tracking
      <3>2. CASE ~SetRetryTimer(w)
        <4>1. workers[w].id \in Ids
          BY <1>4 DEF TypeInv, BusyKnown, ProcessStep, ProcessorSettles,
             HandleRequestSuccess, Completed, ScheduleRetry, SetRetryTimer,
             HandleRequestFailure, Abandoned, ProcessorResolves, ProcessorFails
        <4>2. tracking' = tracking \/ CleanupRequest(workers[w].id)
          BY <1>4, <3>2 DEF ProcessStep, ProcessorSettles, HandleRequestSuccess, Completed,
             ScheduleRetry, HandleRequestFailure, Abandoned,
             ProcessorResolves, ProcessorFails, OnlyWorkers
        <4> QED
          BY <4>1, <4>2, ForgettingStartsNothing
      <3> QED
        BY <3>1, <3>2
    <2>5. TimerChain' => TimerChain
      BY <1>2, <2>3, <2>4 DEF TimerChain
    <2> QED
      BY <2>1, <2>5 DEF TurnKind
  <1> QED
    BY <1>3, <1>4

(* Every step is one of the three kinds.                                   *)
LEMMA StepTurn ==
    ASSUME TypeInv, [Next]_vars
    PROVE  TurnKind
  <1> USE DEF callerVars, dedupVars, controlVars, managerVars
  <1>0. /\ workers \in [Workers -> Worker] /\ tracking \in [Ids -> Tracking]
        /\ deferTimers \subseteq [id : Ids, retries : Nat]
        /\ doomed \in [Loops -> SUBSET Ids]
        /\ cancel \in [Ids -> {"none", "reading", "updating", "cancelled", "refused"}]
    BY DEF TypeInv, TypeOK, BackendTypeOK
  <1>1. ASSUME NEW id \in Ids, Submit(id) \/ EnqueueStep(id) PROVE TurnKind
    BY <1>1, EnqueueTurn
  <1>2. ASSUME NEW id \in Ids, TimerFires(id) \/ TimerStep(id) \/ ClockTick(id)
        PROVE  TurnKind
    <2>1. TimerTurn \/ TimerChain
      BY <1>2 DEF TimerFires, TimerStep, ClockTick, RetryTimerFires, RetryAwake,
             TimeoutFires, TimeoutExpires, TimeoutCleanup, DedupWindowEnds,
             DeferTimerFires, TimerChain
    <2>2. UNCHANGED <<workers, call, cancel, clearing, manager, doomed>>
      BY <1>2 DEF TimerFires, TimerStep, ClockTick, RetryTimerFires, RetryAwake,
             TimeoutFires, TimeoutExpires, TimeoutCleanup, DedupWindowEnds,
             DeferTimerFires, OnlyTracking, SetStatus, UpdateRequest, backendVars,
             Enqueue, Elapse
    <2> QED
      BY <2>1, <2>2 DEF TurnKind, CallChain
  <1>3. ASSUME NEW id \in Ids, CancelRequest(id) \/ CancelStep(id) PROVE TurnKind
    <2>1. ClientTurn \/ CallChain
      BY <1>3 DEF CancelStep, CancelRequest, CancelUpdates, CancelCleanup, CallChain
    <2>2. UNCHANGED <<workers, doomed>> /\ (tracking' = tracking \/ CleanupRequest(id))
      BY <1>3 DEF CancelStep, CancelRequest, CancelUpdates, CancelCleanup,
                  SetStatus, UpdateRequest, backendVars
    <2>3. TimerChain' => TimerChain
      BY <2>2, ForgettingStartsNothing DEF TimerChain
    <2> QED
      BY <2>1, <2>3 DEF TurnKind
  <1>4. ASSUME NEW w \in Workers, NEW id \in Ids, Tick(w, id) PROVE TurnKind
    <2>1. \A v \in Workers : workers'[v].pc = workers[v].pc \/ workers'[v].pc = "claimed"
      BY <1>0, <1>4 DEF Tick
    <2> QED
      BY <1>4, <2>1 DEF Tick, OnlyWorkers, TurnKind, CallChain, Dequeue
  <1>5. ASSUME NEW w \in Workers, ProcessStep(w) \/ ProcessorSettles(w)
        PROVE  TurnKind
    BY <1>5, TickStepTurn
  <1>6. ASSUME NEW loop \in Loops, NEW id \in Ids, LoopStep(loop, id) PROVE TurnKind
    <2>1. /\ UNCHANGED <<workers, tracking, call, cancel, clearing, manager>>
          /\ id \in doomed[loop] /\ doomed' = [doomed EXCEPT ![loop] = @ \ {id}]
      BY <1>6 DEF LoopStep, RemoveDoomed
    <2>2. (TimerChain' => TimerChain) /\ (CallChain' => CallChain) /\ (TimerChain \/ CallChain)
      BY <1>0, <2>1 DEF TimerChain, CallChain, Loops
    <2> QED
      BY <2>2 DEF TurnKind
  <1>7. CASE MaintenanceTick
    BY <1>0, <1>7 DEF MaintenanceTick, Maintenance, TurnKind, CallChain, Loops
  <1>8. CASE Clear \/ (\E zone \in Zones : ClearOneZone(zone)) \/ PauseOrResume \/ Shutdown
    BY <1>0, <1>8 DEF Clear, ClearAll, ClearOneZone, ClearZone, PauseOrResume, Shutdown,
                OnlyManager, backendVars, TurnKind, TimerChain, Loops
  <1>9. CASE ClearForgets \/ CloseBackend
    <2>1. CallChain /\ UNCHANGED <<workers, doomed>> /\ ForgetAll
      BY <1>9 DEF ClearForgets, CloseBackend, OnlyManager, CallChain, backendVars
    <2>2. TimerChain' => TimerChain
      BY <2>1, ForgettingStartsNothing DEF TimerChain
    <2> QED
      BY <2>1, <2>2 DEF TurnKind
  <1>10. CASE ShutdownDrained \/ ShutdownTimesOut
    <2>1. TimerTurn /\ UNCHANGED <<workers, doomed, tracking>>
      BY <1>10 DEF ShutdownDrained, ShutdownTimesOut, EndDrain, OnlyManager, backendVars
    <2>2. TimerChain' => TimerChain
      BY <2>1 DEF TimerChain
    <2> QED
      BY <2>1, <2>2 DEF TurnKind, ClientTurn, TimerTurn
  <1>11. CASE UNCHANGED vars
    <2>1. (TimerChain' <=> TimerChain) /\ (CallChain' <=> CallChain)
      BY <1>11 DEF vars, backendVars, TimerChain, CallChain
    <2> QED
      BY <2>1 DEF TurnKind
  <1> QED
    BY <1>1, <1>2, <1>3, <1>4, <1>5, <1>6, <1>7, <1>8, <1>9, <1>10, <1>11 DEF Next

-----------------------------------------------------------------------------
(* What a step can do to one tick, one record, one entry of the tracking.  *)

PcSteps == {<<"claimed", "starting">>, <<"claimed", "deferring">>,
            <<"starting", "executing">>, <<"executing", "succeeded">>,
            <<"executing", "failed">>, <<"succeeded", "completing">>,
            <<"failed", "retrying">>, <<"failed", "abandoning">>}

(* The ways of one tick in one step.                                       *)
WorkerStep(w) ==
    \/ workers'[w] = workers[w]
    \/ ProcessStep(w) /\ workers'[w] = Idle
    \/ \E id \in Ids : Tick(w, id) /\ workers'[w].pc = "claimed" /\ workers'[w].id = id
    \/ /\ ProcessStep(w) \/ ProcessorSettles(w)
       /\ workers'[w].id = workers[w].id
       /\ <<workers[w].pc, workers'[w].pc>> \in PcSteps

(* Proceed moves one tick and leaves it its request.                       *)
LEMMA ProceedStep ==
    ASSUME workers \in [Workers -> Worker], NEW w \in Workers, NEW pc, Proceed(w, pc)
    PROVE  /\ workers'[w].pc = pc /\ workers'[w].id = workers[w].id
           /\ \A v \in Workers \ {w} : workers'[v] = workers[v]
  BY DEF Proceed, Worker

(* A step moves a tick along its course, ends it or starts it.             *)
LEMMA StepWorkers ==
    ASSUME TypeInv, [Next]_vars, NEW w \in Workers
    PROVE  WorkerStep(w)
  <1> USE DEF managerVars
  <1>0. workers \in [Workers -> Worker]
    BY DEF TypeInv, TypeOK
  <1>1. ASSUME NEW v \in Workers, NEW id \in Ids, Tick(v, id) PROVE WorkerStep(w)
    BY <1>0, <1>1 DEF WorkerStep, Tick
  <1>2. ASSUME NEW v \in Workers, ProcessStep(v) \/ ProcessorSettles(v)
        PROVE  WorkerStep(w)
    <2>1. CASE Finish(v)
      <3>1. ProcessStep(v)
        BY <1>0, <1>2, <2>1 DEF ProcessorSettles, ProcessorResolves, ProcessorFails, Finish,
           Proceed, Idle
      <3> QED
        BY <1>0, <2>1, <3>1 DEF Finish, WorkerStep
    <2>2. CASE ~Finish(v)
      <3>1. \/ workers[v].pc = "claimed" /\ (Proceed(v, "starting") \/ Proceed(v, "deferring"))
            \/ workers[v].pc = "starting" /\ Proceed(v, "executing")
            \/ workers[v].pc = "executing" /\ (Proceed(v, "succeeded") \/ Proceed(v, "failed"))
            \/ workers[v].pc = "succeeded" /\ Proceed(v, "completing")
            \/ workers[v].pc = "failed" /\ (Proceed(v, "retrying") \/ Proceed(v, "abandoning"))
        BY <1>2, <2>2
           DEF ProcessStep, ProcessorSettles, CanExecute, RescheduleRequest,
               SetDeferTimer, StartProcessor, HandleRequestSuccess, Completed,
               ScheduleRetry, SetRetryTimer, HandleRequestFailure, Abandoned,
               ProcessorResolves, ProcessorFails, UpdateOrGiveUp
      <3> QED
        BY <1>0, <1>2, <3>1, ProceedStep DEF WorkerStep, PcSteps
    <2> QED
      BY <2>1, <2>2
  <1>3. CASE workers' = workers
    BY <1>3 DEF WorkerStep
  <1>4. ASSUME NEW id \in Ids,
               \/ Submit(id) \/ EnqueueStep(id)
               \/ TimerFires(id) \/ TimerStep(id) \/ ClockTick(id)
               \/ CancelRequest(id) \/ CancelStep(id)
        PROVE  workers' = workers
    BY <1>4 DEF EnqueueStep, Submit, HandleQueueFull, RefuseFull, SweepRemove,
           SweepCleanup, Join, Create, Accept, TimerFires, TimerStep, ClockTick,
           RetryTimerFires, RetryAwake, TimeoutFires, TimeoutExpires,
           TimeoutCleanup, DedupWindowEnds, DeferTimerFires, OnlyTracking,
           CancelRequest, CancelStep, CancelUpdates, CancelCleanup
  <1>5. CASE \/ \E loop \in Loops, id \in Ids : LoopStep(loop, id)
             \/ \E zone \in Zones : ClearOneZone(zone)
             \/ MaintenanceTick \/ Clear \/ ClearForgets \/ PauseOrResume
             \/ Shutdown \/ ShutdownDrained \/ ShutdownTimesOut \/ CloseBackend
             \/ UNCHANGED vars
    <2>1. workers' = workers
      BY <1>5 DEF LoopStep, ClearOneZone, MaintenanceTick, Clear, ClearForgets,
             PauseOrResume, Shutdown, ShutdownDrained, ShutdownTimesOut, EndDrain,
             CloseBackend, OnlyManager, vars
    <2> QED
      BY <1>3, <2>1
  <1> QED
    BY <1>1, <1>2, <1>3, <1>4, <1>5 DEF Next

(* What a tick writes, by where it goes.                                   *)
Written(pc, r) ==
    \/ pc = "starting" /\ r.status = "processing"
    \/ pc = "deferring" /\ r.status = "pending"
    \/ pc = "completing" /\ r.status = "completed"
    \/ pc = "retrying" /\ r.status = "retrying" /\ r.scheduledAt = "future"
    \/ pc = "abandoning" /\ r.status = "failed"

(* The ways of one record in one step, with the action at work.            *)
RecordStep(j) ==
    \/ requests'[j] = requests[j]
    \/ /\ requests'[j] = NoRequest
       /\ \/ \E id \in Ids : SweepRemove(id, j)
          \/ \E loop \in Loops : LoopStep(loop, j)
          \/ Clear
    \/ /\ requests'[j] # NoRequest
       /\ \/ /\ ClockTick(j) /\ Elapse(j) /\ Stored(j)
             /\ requests'[j].status = requests[j].status
          \/ \E status \in {"pending", "expired", "cancelled"} :
               /\ Stored(j) /\ requests'[j].status = status
               /\ requests'[j].scheduledAt = requests[j].scheduledAt
               /\ \/ status = "pending" /\ RetryTimerFires(j)
                  \/ status = "expired" /\ TimeoutExpires(j)
                  \/ status = "cancelled" /\ CancelUpdates(j)
          \/ /\ requests'[j].status = "pending"
             /\ \/ Create(j)
                \/ \E timer \in deferTimers :
                     timer.id = j /\ DeferTimerFires(timer)
          \/ /\ requests'[j].status = "processing"
             /\ \E w \in Workers : Tick(w, j)
          \/ /\ Stored(j)
             /\ \E w \in Workers :
                  /\ ProcessStep(w) /\ Holds(w, j) /\ workers'[w].id = j
                  /\ Written(workers'[w].pc, requests'[j])

(* A step writes a record for one of the reasons RecordStep lists.         *)
LEMMA StepRecordsOne ==
    ASSUME TypeInv, [Next]_vars, NEW j \in Ids
    PROVE  RecordStep(j)
  <1>0. /\ workers \in [Workers -> Worker] /\ BackendInv /\ BackendTypeOK
        /\ deferTimers \subseteq [id : Ids, retries : Nat]
    BY DEF TypeInv, TypeOK, BackendInv
  <1> USE NoRequestAssumption
  <1>1. ASSUME requests' = requests PROVE RecordStep(j)
    BY <1>1 DEF RecordStep
  <1>2. ASSUME NEW id \in Ids, Erase(id), id = j => \/ \E i \in Ids : SweepRemove(i, j)
                                                    \/ \E loop \in Loops : LoopStep(loop, j)
        PROVE  RecordStep(j)
    <2>1. requests'[j] = requests[j] \/ (id = j /\ requests'[j] = NoRequest)
      BY <1>0, <1>2 DEF Erase, BackendTypeOK
    <2> QED
      BY <1>2, <2>1 DEF RecordStep
  <1>3. ASSUME NEW id \in Ids, NEW status \in {"pending", "expired", "cancelled"},
               SetStatus(id, status),
               \/ status = "pending" /\ RetryTimerFires(id)
               \/ status = "expired" /\ TimeoutExpires(id)
               \/ status = "cancelled" /\ CancelUpdates(id)
        PROVE  RecordStep(j)
    <2>1. status \in Statuses
      BY StatusWords
    <2>2. /\ Stored(id) /\ requests'[id] = [requests[id] EXCEPT !.status = status]
          /\ requests'[id].status = status
          /\ id # j => requests'[j] = requests[j]
      BY <1>0, <1>3, <2>1, SetStatusRecord
    <2>3. requests[id] \in Request
      BY <1>0, <2>2 DEF BackendTypeOK, Stored
    <2>4. /\ requests'[id].scheduledAt = requests[id].scheduledAt
          /\ requests'[id] # NoRequest
      BY <2>1, <2>2, <2>3 DEF Request
    <2> QED
      BY <1>3, <2>2, <2>4 DEF RecordStep
  <1>4. ASSUME NEW id \in Ids, Submit(id) \/ EnqueueStep(id) PROVE RecordStep(j)
    <2>1. CASE Create(id)
      <3>1. PICK phase \in SubmitPhases : Enqueue(id, NewRequest("pending", phase, 0))
        BY <2>1 DEF Create
      <3>2. /\ NewRequest("pending", phase, 0).status = "pending"
            /\ NewRequest("pending", phase, 0) \in Request
        BY ManagerAssumption, StatusWords DEF NewRequest, Request
      <3> QED
        BY <1>0, <2>1, <3>1, <3>2 DEF Enqueue, BackendTypeOK, RecordStep
    <2>2. ASSUME NEW victim \in Ids, SweepRemove(id, victim) PROVE RecordStep(j)
      BY <1>2, <2>2 DEF SweepRemove
    <2> QED
      BY <1>1, <1>4, <2>1, <2>2
         DEF EnqueueStep, Submit, HandleQueueFull, RefuseFull, SweepCleanup,
             Join, Accept, backendVars
  <1>5. ASSUME NEW id \in Ids, TimerFires(id) \/ TimerStep(id) \/ ClockTick(id)
        PROVE  RecordStep(j)
    <2>1. ASSUME NEW timer \in deferTimers, timer.id = id, DeferTimerFires(timer)
          PROVE  RecordStep(j)
      <3>1. /\ NewRequest("pending", "due", timer.retries).status = "pending"
            /\ NewRequest("pending", "due", timer.retries) \in Request
        BY <1>0, <2>1, StatusWords DEF NewRequest, Request
      <3> QED
        BY <1>0, <2>1, <3>1 DEF DeferTimerFires, Enqueue, BackendTypeOK, RecordStep
    <2>2. CASE RetryTimerFires(id)
      BY <1>1, <1>3, <2>2 DEF RetryTimerFires, backendVars
    <2>3. CASE TimeoutExpires(id)
      BY <1>1, <1>3, <2>3 DEF TimeoutExpires, backendVars
    <2>4. CASE ClockTick(id)
      <3>1. CASE Elapse(id)
        <4>1. requests'[j] = requests[j] \/ j = id
          BY <1>0, <3>1 DEF Elapse, BackendTypeOK
        <4>2. Stored(id) /\ requests[id] \in Request
          BY <1>0, <3>1 DEF Elapse, BackendTypeOK, Stored
        <4>3. PICK phase \in Phases :
                requests' = [requests EXCEPT ![id].scheduledAt = phase]
          BY <3>1 DEF Elapse, Phases
        <4>4. /\ requests'[id].status = requests[id].status
              /\ requests'[id] \in Request
          BY <1>0, <4>2, <4>3 DEF BackendTypeOK, Request
        <4> QED
          BY <2>4, <3>1, <4>1, <4>2, <4>4 DEF RecordStep
      <3>2. CASE ~Elapse(id)
        BY <1>1, <2>4, <3>2 DEF ClockTick, backendVars
      <3> QED
        BY <3>1, <3>2
    <2> QED
      BY <1>1, <1>5, <2>1, <2>2, <2>3, <2>4
         DEF TimerFires, TimerStep, RetryAwake, TimeoutFires, TimeoutCleanup,
             DedupWindowEnds, backendVars
  <1>6. ASSUME NEW id \in Ids, CancelRequest(id) \/ CancelStep(id) PROVE RecordStep(j)
    BY <1>1, <1>3, <1>6
       DEF CancelRequest, CancelStep, CancelUpdates, CancelCleanup, backendVars
  <1>7. ASSUME NEW w \in Workers, NEW id \in Ids, Tick(w, id) PROVE RecordStep(j)
    <2>1. Dequeue(DefaultZone, id) /\ requests[id] \in Request
      BY <1>0, <1>7 DEF Tick, Dequeue, Chosen, Ready, HasStatus, Stored, BackendTypeOK
    <2>2. \/ requests'[j] = requests[j]
          \/ /\ j = id /\ requests'[j].status = "processing"
             /\ requests'[j] # NoRequest
      BY <1>0, <2>1, StatusWords DEF Dequeue, BackendTypeOK, Request
    <2> QED
      BY <1>7, <2>2 DEF RecordStep
  <1>8. ASSUME NEW w \in Workers, ProcessStep(w) \/ ProcessorSettles(w)
        PROVE  RecordStep(j)
    <2>1. ASSUME NEW r, NEW pc, UpdateOrGiveUp(w, r, pc), ProcessStep(w),
                 workers[w].pc # "idle",
                 Stored(workers[w].id) => r \in Request /\ Written(pc, r)
          PROVE  RecordStep(j)
      <3>1. CASE Finish(w) /\ UNCHANGED backendVars
        BY <1>1, <3>1 DEF backendVars
      <3>2. CASE UpdateRequest(workers[w].id, r) /\ Proceed(w, pc)
        <4>1. workers[w].id \in Ids /\ r \in Request
          BY <2>1, <3>2 DEF TypeInv, BusyKnown, UpdateRequest
        <4>2. /\ Stored(workers[w].id) /\ requests'[workers[w].id] = r
              /\ \A i \in Ids \ {workers[w].id} : requests'[i] = requests[i]
          BY <1>0, <3>2, <4>1, WrittenRecord
        <4>3. workers'[w].pc = pc /\ workers'[w].id = workers[w].id
          BY <1>0, <3>2, ProceedStep
        <4>4. CASE j = workers[w].id
          BY <2>1, <4>1, <4>2, <4>3, <4>4 DEF RecordStep, Holds
        <4>5. CASE j # workers[w].id
          BY <4>2, <4>5 DEF RecordStep
        <4> QED
          BY <4>4, <4>5
      <3> QED
        BY <2>1, <3>1, <3>2 DEF UpdateOrGiveUp
    <2>2. workers[w].pc # "idle"
      BY <1>8 DEF ProcessStep, ProcessorSettles, CanExecute, RescheduleRequest,
           SetDeferTimer, StartProcessor, HandleRequestSuccess, Completed,
           ScheduleRetry, SetRetryTimer, HandleRequestFailure, Abandoned,
           ProcessorResolves, ProcessorFails
    <2>3. workers[w].id \in Ids /\ workers[w].retries \in Nat
      BY <1>0, <2>2 DEF TypeInv, BusyKnown, Worker
    <2>4. Stored(workers[w].id) => Of(w) \in Request
      BY <1>0, <2>3 DEF Of, BackendTypeOK, Stored
    <2>5. ASSUME Stored(workers[w].id), NEW status \in Statuses
          PROVE  /\ [Of(w) EXCEPT !.status = status] \in Request
                 /\ [Of(w) EXCEPT !.status = status].status = status
                 /\ [Of(w) EXCEPT !.status = status, !.scheduledAt = "future"] \in Request
                 /\ [Of(w) EXCEPT !.status = status, !.scheduledAt = "future"].status = status
      BY <2>4, <2>5, StatusWords DEF Request
    <2>6. CASE CanExecute(w)
      BY <2>1, <2>2, <2>5, <2>6, StatusWords DEF CanExecute, Written, ProcessStep
    <2>7. CASE RescheduleRequest(w)
      BY <2>1, <2>2, <2>5, <2>7, StatusWords DEF RescheduleRequest, Written, ProcessStep
    <2>8. CASE HandleRequestSuccess(w)
      BY <2>1, <2>2, <2>5, <2>8, StatusWords DEF HandleRequestSuccess, Written, ProcessStep
    <2>9. CASE HandleRequestFailure(w)
      BY <2>1, <2>2, <2>5, <2>9, StatusWords DEF HandleRequestFailure, Written, ProcessStep
    <2>10. CASE ScheduleRetry(w)
      <3>1. /\ NewRequest("retrying", "future", workers[w].retries + 1) \in Request
            /\ Written("retrying", NewRequest("retrying", "future", workers[w].retries + 1))
        BY <2>3, StatusWords DEF NewRequest, Request, Written
      <3> QED
        BY <2>1, <2>2, <2>10, <3>1 DEF ScheduleRetry, ProcessStep
    <2> QED
      BY <1>1, <1>8, <2>6, <2>7, <2>8, <2>9, <2>10
         DEF ProcessStep, ProcessorSettles, SetDeferTimer, StartProcessor, Completed,
             SetRetryTimer, Abandoned, ProcessorResolves, ProcessorFails, backendVars
  <1>9. ASSUME NEW loop \in Loops, NEW id \in Ids, LoopStep(loop, id) PROVE RecordStep(j)
    BY <1>2, <1>9 DEF LoopStep, RemoveDoomed
  <1>10. CASE Clear
    BY <1>10 DEF Clear, ClearAll, RecordStep
  <1>11. CASE \/ ClearForgets \/ MaintenanceTick
              \/ \E zone \in Zones : ClearOneZone(zone)
              \/ PauseOrResume \/ Shutdown \/ ShutdownDrained
              \/ ShutdownTimesOut \/ CloseBackend \/ UNCHANGED vars
    BY <1>1, <1>11 DEF ClearForgets, ClearOneZone, MaintenanceTick,
              ClearZone, Maintenance, PauseOrResume, Shutdown,
              ShutdownDrained, ShutdownTimesOut, EndDrain, CloseBackend,
              OnlyManager, vars, backendVars
  <1> QED
    BY <1>4, <1>5, <1>6, <1>7, <1>8, <1>9, <1>10, <1>11 DEF Next

-----------------------------------------------------------------------------
(* The loops that remove requests start with maintenance or clear(zone).   *)
LEMMA StepDoomed ==
    ASSUME TypeInv, [Next]_vars
    PROVE  /\ doomed'["maintenance"] \subseteq doomed["maintenance"] \/ MaintenanceTick
           /\ doomed'["clear"] \subseteq doomed["clear"]
                \/ \E zone \in Zones : ClearOneZone(zone)
  <1> USE DEF callerVars, dedupVars, controlVars, managerVars
  <1>0. doomed \in [Loops -> SUBSET Ids]
    BY DEF TypeInv, TypeOK, BackendTypeOK
  <1>1. ASSUME NEW id \in Ids, \/ Submit(id) \/ EnqueueStep(id)
                               \/ TimerFires(id) \/ TimerStep(id) \/ ClockTick(id)
                               \/ CancelRequest(id) \/ CancelStep(id)
        PROVE  doomed' = doomed
    BY <1>1 DEF EnqueueStep, Submit, HandleQueueFull, RefuseFull, SweepRemove,
           SweepCleanup, Join, Create, Accept, TimerFires, TimerStep, ClockTick,
           RetryTimerFires, RetryAwake, TimeoutFires, TimeoutExpires,
           TimeoutCleanup, DedupWindowEnds, DeferTimerFires, OnlyTracking,
           CancelRequest, CancelStep, CancelUpdates, CancelCleanup, SetStatus,
           UpdateRequest, Enqueue, Elapse, backendVars
  <1>2. ASSUME NEW w \in Workers, \/ \E id \in Ids : Tick(w, id)
                                  \/ ProcessStep(w) \/ ProcessorSettles(w)
        PROVE  doomed' = doomed
    BY <1>2 DEF Tick, Dequeue, ProcessStep, ProcessorSettles, CanExecute, RescheduleRequest,
           SetDeferTimer, StartProcessor, HandleRequestSuccess, Completed,
           ScheduleRetry, SetRetryTimer, HandleRequestFailure, Abandoned,
           ProcessorResolves, ProcessorFails, UpdateOrGiveUp, UpdateRequest, backendVars
  <1>3. ASSUME NEW loop \in Loops, NEW id \in Ids, LoopStep(loop, id)
        PROVE  \A l \in Loops : doomed'[l] \subseteq doomed[l]
    BY <1>0, <1>3 DEF LoopStep, RemoveDoomed, Loops
  <1>4. CASE \/ Clear \/ ClearForgets \/ PauseOrResume \/ Shutdown \/ ShutdownDrained
             \/ ShutdownTimesOut \/ CloseBackend \/ UNCHANGED vars
    BY <1>0, <1>4 DEF Clear, ClearAll, ClearForgets, PauseOrResume, Shutdown,
              ShutdownDrained, ShutdownTimesOut, EndDrain, CloseBackend, OnlyManager, vars,
              backendVars, Loops
  <1>5. CASE MaintenanceTick
    BY <1>0, <1>5 DEF MaintenanceTick, Maintenance, Loops
  <1>6. ASSUME NEW zone \in Zones, ClearOneZone(zone)
        PROVE  doomed'["maintenance"] = doomed["maintenance"]
    BY <1>0, <1>6 DEF ClearOneZone, ClearZone, Loops
  <1> QED
    BY <1>1, <1>2, <1>3, <1>4, <1>5, <1>6 DEF Next, Loops

-----------------------------------------------------------------------------
(* What a request in the hands of a processor is stored as.                *)

NoTick == \A w \in Workers : workers[w].pc \notin {"claimed", "deferring", "starting"}

(* The status under a processor.                                           *)
Marked(w) == workers[w].pc \in {"starting", "executing"} /\ Stored(workers[w].id)
                => requests[workers[w].id].status \in {"processing", "cancelled"}

(* A timeout that was found pending is pending still when it is expired.   *)
Expirable(id) == tracking[id].timeout = "checking"
                   => HasStatus(id, "pending") /\ NoTick /\ doomed["maintenance"] = {}

(* The inductive invariant of ExecutingIsMarked.                           *)
MarkInv == /\ OneChain /\ RetryGone
           /\ \A w \in Workers : Marked(w)
           /\ \A id \in Ids : Expirable(id)

(* A tick that goes on belongs to the timers up to the processor, to the   *)
(* calls from its answer on.                                               *)
LEMMA TickChains ==
    ASSUME NEW w \in Workers, ProcessStep(w) \/ ProcessorSettles(w)
    PROVE  \/ workers[w].pc \in {"claimed", "deferring", "starting"} /\ TimerChain
           \/ workers[w].pc = "executing" /\ ClientTurn
           \/ CallChain
  BY DEF ProcessStep, ProcessorSettles, CanExecute, RescheduleRequest,
         SetDeferTimer, StartProcessor, HandleRequestSuccess, Completed,
         ScheduleRetry, SetRetryTimer, HandleRequestFailure, Abandoned,
         ProcessorResolves, ProcessorFails, TimerChain, CallChain

(* Nothing rewrites the status under a processor: an expiry needs a        *)
(* pending record, a delay or retry timer a request without a tick.        *)
LEMMA StepMarks ==
    ASSUME InProcess, TypeInv, TypeInv', OwnerInv, MarkInv, [Next]_vars,
           NEW w \in Workers
    PROVE  Marked(w)'
  <1> SUFFICES ASSUME workers'[w].pc \in {"starting", "executing"},
                      requests'[workers'[w].id] # NoRequest
               PROVE  requests'[workers'[w].id].status \in {"processing", "cancelled"}
    BY DEF Marked, Stored
  <1>0. /\ workers \in [Workers -> Worker] /\ workers' \in [Workers -> Worker]
        /\ BackendInv /\ BackendTypeOK
    BY DEF TypeInv, TypeOK, BackendInv
  <1>1. PICK j \in Ids : j = workers'[w].id
    BY <1>0 DEF TypeInv, BusyKnown
  <1>2. WorkerStep(w)
    BY StepWorkers
  <1>3. \/ workers'[w] = workers[w]
        \/ /\ workers'[w].id = workers[w].id
           /\ ProcessStep(w) \/ ProcessorSettles(w)
           /\ \/ workers[w].pc = "claimed" /\ workers'[w].pc = "starting"
              \/ workers[w].pc = "starting" /\ workers'[w].pc = "executing"
    BY <1>2 DEF WorkerStep, Idle, PcSteps
  <1>4. /\ workers[w].id = j
        /\ workers[w].pc \in {"claimed", "starting", "executing"}
    BY <1>1, <1>3
  <1>5. /\ Holds(w, j) /\ ~Unborn(j) /\ ~Queued(j) /\ ~Deferred(j) /\ ~Gone(j)
        /\ \A v \in Workers : Holds(v, j) => v = w
    BY <1>4 DEF Holds, Held, Gone, OwnerInv, ExclusiveOwner, UnbornNowhere
  <1>6. CASE workers[w].pc = "claimed"
    <2>1. ProcessStep(w) \/ ProcessorSettles(w)
      BY <1>3, <1>6
    <2>2. CanExecute(w) \/ RescheduleRequest(w)
      BY <1>6, <2>1 DEF ProcessStep, ProcessorSettles, CanExecute, RescheduleRequest,
           SetDeferTimer, StartProcessor, HandleRequestSuccess, Completed,
           ScheduleRetry, SetRetryTimer, HandleRequestFailure, Abandoned,
           ProcessorResolves, ProcessorFails
    <2>3. ~Finish(w) /\ ~Proceed(w, "deferring")
      BY <1>0, ProceedStep DEF Finish, Idle
    <2>4. UpdateRequest(j, [requests[j] EXCEPT !.status = "processing"])
      BY <1>4, <2>2, <2>3 DEF CanExecute, RescheduleRequest, UpdateOrGiveUp, Of
    <2>5. SetStatus(j, "processing")
      BY <2>4 DEF SetStatus
    <2> QED
      BY <1>0, <1>1, <2>5, SetStatusRecord, StatusWords
  <1>7. CASE workers[w].pc # "claimed"
    <2>1. Stored(j) => requests[j].status \in {"processing", "cancelled"}
      BY <1>4, <1>7 DEF MarkInv, Marked
    <2>2. RecordStep(j)
      BY StepRecordsOne
    <2>3. ~Create(j)
      BY <1>5 DEF Create, HasRoom, Unborn
    <2>4. \A timer \in deferTimers : timer.id # j
      BY <1>5 DEF Deferred
    <2>5. \A v \in Workers : ~Tick(v, j)
      BY <1>0, <1>5, DequeueEffect, ManagerAssumption DEF Tick
    <2>6. ~RetryTimerFires(j)
      BY <1>5 DEF RetryTimerFires, MarkInv, RetryGone
    <2>7. TimeoutExpires(j) => ~Stored(j)
      BY <1>4, <1>7, <2>1 DEF TimeoutExpires, MarkInv, Expirable, HasStatus
    <2>8. \A v \in Workers : Holds(v, j) => ~Written(workers'[v].pc, requests'[j])
                                            \/ requests'[j].status = "processing"
      BY <1>5 DEF Written
    <2>9. requests'[j] # NoRequest
      BY <1>1
    <2>10. requests'[j].status \in {"processing", "cancelled"}
      BY <2>1, <2>2, <2>3, <2>4, <2>5, <2>6, <2>7, <2>8, <2>9 DEF RecordStep, Stored
    <2> QED
      BY <1>1, <2>10
  <1> QED
    BY <1>6, <1>7

(* Between the check of a timeout and its expiry no other turn begins.     *)
LEMMA StepExpirable ==
    ASSUME InProcess, TypeInv, TypeInv', OwnerInv, MarkInv, [Next]_vars,
           NEW j \in Ids
    PROVE  Expirable(j)'
  <1> SUFFICES ASSUME tracking'[j].timeout = "checking"
               PROVE  /\ requests'[j] # NoRequest /\ requests'[j].status = "pending"
                      /\ \A w \in Workers : workers'[w].pc \notin {"claimed", "deferring", "starting"}
                      /\ doomed'["maintenance"] = {}
    BY DEF Expirable, NoTick, HasStatus, Stored
  <1>0. TrackingStep(j)
    BY StepTracking
  <1>1. CASE TimeoutFires(j) /\ HasStatus(j, "pending")
    <2>1. UNCHANGED <<requests, workers, doomed>>
      BY <1>1 DEF TimeoutFires, backendVars
    <2>2. ~TimerChain
      BY <1>1 DEF TimeoutFires, TimerTurn
    <2> QED
      BY <1>1, <2>1, <2>2 DEF HasStatus, Stored, TimerChain
  <1>2. CASE tracking[j].timeout = "checking"
    <2>1. TimerChain /\ ~CallChain
      BY <1>2 DEF TimerChain, MarkInv, OneChain
    <2>2. HasStatus(j, "pending") /\ NoTick /\ doomed["maintenance"] = {}
      BY <1>2 DEF MarkInv, Expirable
    <2>3. ~TimerTurn /\ ~ClientTurn
      BY <2>1 DEF TimerTurn, ClientTurn
    <2>4. \A w \in Workers : ~ProcessStep(w) /\ ~ProcessorSettles(w)
      BY <2>1, <2>2, <2>3, TickChains DEF NoTick
    <2>5. \A w \in Workers, id \in Ids : ~Tick(w, id)
      BY <2>3 DEF Tick
    <2>6. \A w \in Workers : workers'[w] = workers[w]
      BY <2>4, <2>5, StepWorkers DEF WorkerStep
    <2>7. doomed'["maintenance"] = {}
      BY <2>2, <2>3, StepDoomed DEF MaintenanceTick
    <2>8. RecordStep(j)
      BY StepRecordsOne
    <2>9. ~Create(j) /\ \A id \in Ids : ~SweepRemove(id, j)
      BY <2>1 DEF Create, HasRoom, SweepRemove, CallChain
    <2>10. \A loop \in Loops : ~LoopStep(loop, j)
      BY <2>1, <2>2 DEF LoopStep, RemoveDoomed, CallChain, Loops
    <2>11. ~CancelUpdates(j) /\ ~Clear /\ ~RetryTimerFires(j) /\ ~ClockTick(j)
      BY <2>1, <2>3 DEF CancelUpdates, Clear, RetryTimerFires, ClockTick, CallChain
    <2>12. \A timer \in deferTimers : ~DeferTimerFires(timer)
      BY <2>3 DEF DeferTimerFires
    <2>13. ~TimeoutExpires(j)
      <3>1. ASSUME TimeoutExpires(j) PROVE tracking'[j].timeout # "checking"
        <4>1. tracking \in [Ids -> Tracking]
          BY DEF TypeInv, TypeOK
        <4> QED
          BY <3>1, <4>1 DEF TimeoutExpires, SetTimeoutState, Tracking
      <3> QED
        BY <3>1
    <2>14. requests'[j] = requests[j]
      BY <2>4, <2>5, <2>8, <2>9, <2>10, <2>11, <2>12, <2>13 DEF RecordStep
    <2> QED
      BY <2>2, <2>6, <2>7, <2>14 DEF NoTick, HasStatus, Stored
  <1> QED
    BY <1>0, <1>1, <1>2 DEF TrackingStep

(* The marks are inductive over the in-memory store.                       *)
LEMMA StepKeepsMarks ==
    ASSUME InProcess, TypeInv, TypeInv', OwnerInv, OwnerInv', MarkInv, [Next]_vars
    PROVE  MarkInv'
  <1>1. OneChain'
    BY StepTurn, TurnsDoNotMix DEF MarkInv
  <1>2. RetryGone'
    BY StepKeepsRetryGone DEF MarkInv
  <1>3. (\A w \in Workers : Marked(w))'
    BY StepMarks
  <1>4. (\A id \in Ids : Expirable(id))'
    BY StepExpirable
  <1> QED
    BY <1>1, <1>2, <1>3, <1>4 DEF MarkInv

(* They hold at the start.                                                 *)
LEMMA InitMarks ==
    ASSUME Init
    PROVE  MarkInv
  BY DEF Init, BackendInit, MarkInv, OneChain, CallChain, RetryGone, Marked, Expirable,
         Idle, Untracked, Loops

(* Over the in-memory store, whose answers come before the next timer, a   *)
(* request that a processor is working on is stored as processing or       *)
(* cancelled: it is never counted as waiting, expired or swept, whatever   *)
(* calls, delays, timeouts and removals come in between.                   *)
THEOREM MarkedWhileExecuting == InProcess => (Spec => []ExecutingIsMarked)
  <1> SUFFICES ASSUME InProcess PROVE Spec => []ExecutingIsMarked
    OBVIOUS
  <1> DEFINE Inv == TypeInv /\ OwnerInv /\ MarkInv
  <1>1. Init => Inv
    BY InitHolds, InitMarks
  <1>2. Inv /\ [Next]_vars => Inv'
    BY StepKeeps, StepKeepsMarks
  <1>3. Inv => ExecutingIsMarked
    BY DEF MarkInv, Marked, ExecutingIsMarked
  <1> QED
    BY <1>1, <1>2, <1>3, PTL DEF Spec

-----------------------------------------------------------------------------
(* Timers meet the request they were set for.                              *)

(* Nothing but maintenance takes requests out of the store.                *)
NothingSwept ==
    /\ aged = {} /\ clearing = "none" /\ doomed["clear"] = {}
    /\ \A id \in Ids : call[id].left = {} /\ call[id].hand = NoId

(* The record a retry timer is about to be set for.                        *)
RetryRecorded(w) ==
    workers[w].pc = "retrying" => /\ Stored(workers[w].id)
                                  /\ requests[workers[w].id].scheduledAt = "future"

(* The record a retry timer waits for.                                     *)
RetryAwaited(id) ==
    tracking[id].retry = "set" => /\ Stored(id)
                                  /\ requests[id].scheduledAt \in {"future", "due"}

(* Maintenance removes what has lapsed.                                    *)
MaintenanceAlone ==
    doomed["maintenance"] # {} =>
        /\ NoTick
        /\ \A id \in doomed["maintenance"] :
             Stored(id) => requests[id].scheduledAt = "lapsed"

(* The inductive invariant of NoUnhandledRejection.                        *)
TimerInv == /\ NothingSwept /\ MaintenanceAlone
            /\ \A w \in Workers : RetryRecorded(w)
            /\ \A id \in Ids : RetryAwaited(id)

(* No full queue is swept, and nobody calls clear.                         *)
NoSweeps == Activities \cap {"aging", "clear", "clearZone"} = {}

(* Without these activities no call ever has something to remove.          *)
LEMMA StepSweepsNothing ==
    ASSUME NoSweeps, TypeInv, NothingSwept, [Next]_vars
    PROVE  NothingSwept'
  <1> USE DEF dedupVars, controlVars, managerVars
  <1>0. /\ call \in [Ids -> Call]
        /\ ~Clear /\ \A zone \in Zones : ~ClearOneZone(zone)
    BY DEF TypeInv, TypeOK, NoSweeps, Clear, ClearOneZone
  <1>1. doomed'["clear"] = {}
    BY <1>0, StepDoomed DEF NothingSwept
  <1>2. ASSUME NEW id \in Ids, Submit(id) \/ EnqueueStep(id)
        PROVE  /\ aged' = aged /\ clearing' = clearing
               /\ \A j \in Ids : call'[j].left = {} /\ call'[j].hand = NoId
    <2>1. aged' = aged /\ clearing' = clearing
      BY <1>2 DEF EnqueueStep, Submit, HandleQueueFull, RefuseFull, SweepRemove,
             SweepCleanup, Join, Create, Accept
    <2>2. \A victim \in Ids : ~SweepRemove(id, victim)
      BY DEF SweepRemove, NothingSwept
    <2>3. \/ \E pc \in {"sized", "full", "returned", "storing"} :
               call' = [call EXCEPT ![id].pc = pc]
          \/ \E pc \in {"refused", "sweeping"} :
               call' = [call EXCEPT ![id].pc = pc, ![id].left = {}]
          \/ call' = [call EXCEPT ![id].hand = NoId]
      BY <1>2, <2>2 DEF EnqueueStep, Submit, HandleQueueFull, RefuseFull,
             SweepCleanup, Join, Create, Accept, NothingSwept
    <2>4. \A j \in Ids : call'[j].left = {} /\ call'[j].hand = NoId
      BY <1>0, <2>3 DEF NothingSwept, Call
    <2> QED
      BY <2>1, <2>4
  <1>3. CASE UNCHANGED <<call, aged, clearing>>
    BY <1>1, <1>3 DEF NothingSwept
  <1>4. ASSUME NEW id \in Ids,
               \/ TimerFires(id) \/ TimerStep(id) \/ ClockTick(id)
               \/ CancelRequest(id) \/ CancelStep(id)
        PROVE  UNCHANGED <<call, aged, clearing>>
    BY <1>4 DEF TimerFires, TimerStep, ClockTick,
           RetryTimerFires, RetryAwake, TimeoutFires, TimeoutExpires,
           TimeoutCleanup, DedupWindowEnds, DeferTimerFires, OnlyTracking,
           CancelRequest, CancelStep, CancelUpdates, CancelCleanup, callerVars, NoSweeps
  <1>5. ASSUME NEW w \in Workers, \/ \E id \in Ids : Tick(w, id)
                                  \/ ProcessStep(w) \/ ProcessorSettles(w)
        PROVE  UNCHANGED <<call, aged, clearing>>
    BY <1>5 DEF Tick, ProcessStep, ProcessorSettles, CanExecute, RescheduleRequest,
           SetDeferTimer, StartProcessor, HandleRequestSuccess, Completed,
           ScheduleRetry, SetRetryTimer, HandleRequestFailure, Abandoned,
           ProcessorResolves, ProcessorFails, OnlyWorkers, callerVars
  <1>6. CASE \/ \E loop \in Loops, id \in Ids : LoopStep(loop, id)
             \/ MaintenanceTick \/ PauseOrResume \/ Shutdown \/ ShutdownDrained
             \/ ShutdownTimesOut \/ CloseBackend \/ UNCHANGED vars
    <2>1. UNCHANGED <<call, aged, clearing>>
      BY <1>6 DEF LoopStep, MaintenanceTick, PauseOrResume, Shutdown,
              ShutdownDrained, ShutdownTimesOut, EndDrain, CloseBackend, OnlyManager, vars,
              callerVars
    <2> QED
      BY <1>3, <2>1
  <1>7. ~ClearForgets
    BY DEF ClearForgets, NothingSwept
  <1> QED
    BY <1>0, <1>1, <1>2, <1>3, <1>4, <1>5, <1>6, <1>7 DEF Next, NothingSwept

(* What cannot take a request out of the store then.                       *)
LEMMA OnlyMaintenanceErases ==
    ASSUME NoSweeps, NothingSwept, NEW j \in Ids
    PROVE  /\ ~Clear /\ ~LoopStep("clear", j)
           /\ \A id \in Ids : ~SweepRemove(id, j)
  BY DEF NoSweeps, NothingSwept, Clear, LoopStep, RemoveDoomed, SweepRemove

(* A retrying record with a schedule in the future stays until the tick    *)
(* sets its timer: both happen in one turn.                                *)
LEMMA StepRetryRecorded ==
    ASSUME InProcess, NoSweeps, TypeInv, TypeInv', OwnerInv, MarkInv, TimerInv,
           [Next]_vars, NEW w \in Workers
    PROVE  RetryRecorded(w)'
  <1> SUFFICES ASSUME workers'[w].pc = "retrying"
               PROVE  /\ requests'[workers'[w].id] # NoRequest
                      /\ requests'[workers'[w].id].scheduledAt = "future"
    BY DEF RetryRecorded, Stored
  <1>0. /\ workers \in [Workers -> Worker] /\ workers' \in [Workers -> Worker]
        /\ BackendInv /\ BackendTypeOK
    BY DEF TypeInv, TypeOK, BackendInv
  <1>1. PICK j \in Ids : j = workers'[w].id
    BY <1>0 DEF TypeInv, BusyKnown
  <1>2. \/ workers'[w] = workers[w]
        \/ /\ workers'[w].id = workers[w].id /\ workers[w].pc = "failed"
           /\ ProcessStep(w) \/ ProcessorSettles(w)
    BY StepWorkers DEF WorkerStep, Idle, PcSteps
  <1>3. /\ workers[w].id = j /\ workers[w].pc \in {"retrying", "failed"}
        /\ CallChain /\ ~TimerChain
    BY <1>1, <1>2 DEF CallChain, MarkInv, OneChain
  <1>4. /\ Holds(w, j) /\ ~Unborn(j) /\ ~Queued(j) /\ ~Deferred(j) /\ ~Gone(j)
        /\ \A v \in Workers : Holds(v, j) => v = w
    BY <1>3 DEF Holds, Held, Gone, OwnerInv, ExclusiveOwner, UnbornNowhere
  <1>5. CASE workers[w].pc = "failed"
    <2>1. ProcessStep(w) \/ ProcessorSettles(w)
      BY <1>2, <1>5
    <2>2. ScheduleRetry(w) \/ HandleRequestFailure(w)
      BY <1>5, <2>1 DEF ProcessStep, ProcessorSettles, CanExecute, RescheduleRequest,
           SetDeferTimer, StartProcessor, HandleRequestSuccess, Completed,
           ScheduleRetry, SetRetryTimer, HandleRequestFailure, Abandoned,
           ProcessorResolves, ProcessorFails
    <2>3. ~Finish(w) /\ ~Proceed(w, "abandoning")
      BY <1>0, ProceedStep DEF Finish, Idle
    <2>4. UpdateRequest(j, NewRequest("retrying", "future", workers[w].retries + 1))
      BY <1>3, <2>2, <2>3 DEF ScheduleRetry, HandleRequestFailure, UpdateOrGiveUp
    <2>5. NewRequest("retrying", "future", workers[w].retries + 1) \in Request
      BY <1>0, StatusWords DEF NewRequest, Request, Worker
    <2> QED
      BY <1>0, <1>1, <2>4, <2>5, WrittenRecord, NoRequestAssumption DEF NewRequest
  <1>6. CASE workers[w].pc = "retrying"
    <2>1. Stored(j) /\ requests[j].scheduledAt = "future"
      BY <1>3, <1>6 DEF TimerInv, RetryRecorded
    <2>2. ~TimerTurn
      BY <1>3 DEF TimerTurn
    <2>3. ~Create(j) /\ \A timer \in deferTimers : ~DeferTimerFires(timer)
      BY <1>4, <2>2 DEF Create, HasRoom, Unborn, DeferTimerFires
    <2>4. /\ ~ClockTick(j) /\ \A v \in Workers : ~Tick(v, j)
          /\ \A loop \in Loops : ~LoopStep(loop, j)
      BY <1>3, <2>2, OnlyMaintenanceErases
         DEF ClockTick, Tick, LoopStep, RemoveDoomed, Loops, TimerChain, TimerInv
    <2>5. \A v \in Workers : Holds(v, j) =>
             ~Written(workers'[v].pc, requests'[j]) \/ requests'[j].scheduledAt = "future"
      BY <1>4 DEF Written
    <2>6. RecordStep(j)
      BY StepRecordsOne
    <2>7. requests'[j] = requests[j] \/ requests'[j].scheduledAt = "future"
      BY <2>1, <2>3, <2>4, <2>5, <2>6, OnlyMaintenanceErases DEF RecordStep, TimerInv
    <2>8. requests'[j] # NoRequest
      BY <2>1, <2>3, <2>4, <2>6, OnlyMaintenanceErases DEF RecordStep, Stored, TimerInv
    <2> QED
      BY <1>1, <2>1, <2>7, <2>8
  <1> QED
    BY <1>3, <1>5, <1>6

(* The record of a request whose retry timer is set stays: maintenance     *)
(* takes lapsed ones only, and the timer fires before its schedule lapses. *)
LEMMA StepRetryAwaited ==
    ASSUME InProcess, NoSweeps, TypeInv, OwnerInv, MarkInv, TimerInv,
           [Next]_vars, NEW j \in Ids
    PROVE  RetryAwaited(j)'
  <1> SUFFICES ASSUME tracking'[j].retry = "set"
               PROVE  /\ requests'[j] # NoRequest
                      /\ requests'[j].scheduledAt \in {"future", "due"}
    BY DEF RetryAwaited, Stored
  <1>0. /\ workers \in [Workers -> Worker] /\ tracking \in [Ids -> Tracking]
        /\ BackendInv /\ BackendTypeOK
    BY DEF TypeInv, TypeOK, BackendInv
  <1>1. TrackingStep(j) /\ RecordStep(j)
    BY StepTracking, StepRecordsOne
  <1>2. ~RetryTimerFires(j)
    BY <1>0 DEF RetryTimerFires, Tracking
  <1>3. ASSUME NEW w \in Workers, SetRetryTimer(w), Holds(w, j)
        PROVE  /\ requests'[j] # NoRequest
               /\ requests'[j].scheduledAt \in {"future", "due"}
    BY <1>3 DEF SetRetryTimer, Holds, backendVars, TimerInv, RetryRecorded, Stored
  <1>4. CASE tracking[j].retry = "set"
    <2>1. Stored(j) /\ requests[j].scheduledAt \in {"future", "due"}
      BY <1>4 DEF TimerInv, RetryAwaited
    <2>2. ~Unborn(j) /\ ~Queued(j) /\ ~Held(j) /\ ~Deferred(j)
      BY <1>4 DEF MarkInv, RetryGone, Gone
    <2>3. ~Create(j) /\ \A timer \in deferTimers : timer.id # j
      BY <2>2 DEF Create, HasRoom, Unborn, Deferred
    <2>4. \A w \in Workers : ~Holds(w, j) /\ ~Tick(w, j)
      BY <1>0, <2>2, DequeueEffect, ManagerAssumption DEF Tick, Held
    <2>5. \A loop \in Loops : ~LoopStep(loop, j)
      BY <2>1, OnlyMaintenanceErases
         DEF LoopStep, RemoveDoomed, Loops, TimerInv, MaintenanceAlone
    <2>6. ASSUME ClockTick(j), Elapse(j)
          PROVE  /\ requests'[j] # NoRequest
                 /\ requests'[j].scheduledAt \in {"future", "due"}
      <3>1. requests[j] \in Request
        BY <1>0, <2>1 DEF BackendTypeOK, Stored
      <3>2. requests[j].scheduledAt = "future"
        <4>1. ASSUME requests[j].scheduledAt = "due" PROVE FALSE
          <5>1. requests'[j] = [requests[j] EXCEPT !.scheduledAt = "lapsed"]
            BY <1>0, <2>6, <4>1 DEF Elapse, BackendTypeOK
          <5>2. ~(Stored(j) /\ ~Elapse(j))
            BY <2>6
          <5>3. requests' # requests
            BY <3>1, <4>1, <5>1 DEF Request
          <5> QED
            BY <1>4, <2>6, <4>1, <5>3 DEF ClockTick, backendVars
        <4> QED
          BY <2>1, <4>1
      <3>3. requests' = [requests EXCEPT ![j].scheduledAt = "due"]
        BY <2>6, <3>2 DEF Elapse
      <3>4. requests'[j] \in Request /\ requests'[j].scheduledAt = "due"
        BY <1>0, <3>1, <3>3, StatusWords DEF BackendTypeOK, Request
      <3> QED
        BY <3>4, NoRequestAssumption
    <2>7. ~Clear /\ \A id \in Ids : ~SweepRemove(id, j)
      BY OnlyMaintenanceErases DEF TimerInv
    <2> QED
      BY <1>1, <1>2, <2>1, <2>3, <2>4, <2>5, <2>6, <2>7 DEF RecordStep, Stored
  <1> QED
    BY <1>1, <1>2, <1>3, <1>4 DEF TrackingStep

(* The loop of a maintenance run is a turn of its own.                     *)
LEMMA StepMaintenanceAlone ==
    ASSUME InProcess, TypeInv, MarkInv, MaintenanceAlone, [Next]_vars
    PROVE  MaintenanceAlone'
  <1> SUFFICES ASSUME doomed'["maintenance"] # {}
               PROVE  /\ \A w \in Workers :
                           workers'[w].pc \notin {"claimed", "deferring", "starting"}
                      /\ \A j \in doomed'["maintenance"] :
                           requests'[j] # NoRequest => requests'[j].scheduledAt = "lapsed"
    BY DEF MaintenanceAlone, NoTick, Stored
  <1>0. doomed \in [Loops -> SUBSET Ids] /\ "maintenance" \in Loops
    BY DEF TypeInv, TypeOK, BackendTypeOK, Loops
  <1>1. CASE MaintenanceTick
    <2>1. /\ doomed'["maintenance"] = Lapsed /\ ~TimerChain
          /\ UNCHANGED <<workers, requests>>
      BY <1>0, <1>1 DEF MaintenanceTick, Maintenance, TimerTurn, managerVars
    <2> QED
      BY <2>1 DEF TimerChain, Lapsed, HasStatus, Stored
  <1>2. CASE ~MaintenanceTick
    <2>1. /\ doomed'["maintenance"] \subseteq doomed["maintenance"]
          /\ doomed["maintenance"] # {}
      BY <1>2, StepDoomed
    <2>2. TimerChain /\ ~CallChain /\ NoTick /\ ~TimerTurn /\ ~ClientTurn
      BY <2>1 DEF TimerChain, MarkInv, OneChain, TimerTurn, ClientTurn, MaintenanceAlone
    <2>3. \A w \in Workers : ~ProcessStep(w) /\ ~ProcessorSettles(w)
      BY <2>2, TickChains DEF NoTick
    <2>4. \A w \in Workers, id \in Ids : ~Tick(w, id)
      BY <2>2 DEF Tick
    <2>5. \A w \in Workers : workers'[w] = workers[w]
      BY <2>3, <2>4, StepWorkers DEF WorkerStep
    <2>6. ASSUME NEW j \in doomed'["maintenance"], requests'[j] # NoRequest
          PROVE  requests'[j].scheduledAt = "lapsed"
      <3>1. j \in Ids /\ j \in doomed["maintenance"]
        BY <1>0, <2>1
      <3>2. Stored(j) => requests[j].scheduledAt = "lapsed"
        BY <3>1 DEF MaintenanceAlone
      <3>3. ~Create(j) /\ ~ClockTick(j) /\ \A timer \in deferTimers : ~DeferTimerFires(timer)
        BY <2>2, <3>1 DEF Create, HasRoom, ClockTick, DeferTimerFires, CallChain
      <3>4. RecordStep(j)
        BY <3>1, StepRecordsOne
      <3> QED
        BY <2>3, <2>4, <2>6, <3>1, <3>2, <3>3, <3>4 DEF RecordStep, Stored
    <2> QED
      BY <2>2, <2>5, <2>6 DEF NoTick
  <1> QED
    BY <1>1, <1>2

(* So both callbacks find what they look for.                              *)
LEMMA StepNobodyThrows ==
    ASSUME TypeInv, MarkInv, TimerInv, NoUnhandledRejection, [Next]_vars
    PROVE  NoUnhandledRejection'
  <1> SUFFICES ASSUME NEW j \in Ids
               PROVE  tracking'[j].timeout # "threw" /\ tracking'[j].retry # "threw"
    BY DEF NoUnhandledRejection
  <1>1. TrackingStep(j) /\ tracking \in [Ids -> Tracking] /\ tracking[j] \in Tracking
    BY StepTracking DEF TypeInv, TypeOK
  <1>2. tracking[j].timeout # "threw" /\ tracking[j].retry # "threw"
    BY DEF NoUnhandledRejection
  <1>3. ASSUME TimeoutExpires(j) PROVE tracking'[j].timeout = "expiring"
    <2>1. Stored(j)
      BY <1>3 DEF TimeoutExpires, MarkInv, Expirable, HasStatus
    <2>2. tracking' = [tracking EXCEPT ![j].timeout = "expiring"]
      BY <1>3, <2>1 DEF TimeoutExpires, SetTimeoutState
    <2> QED
      BY <1>1, <2>2 DEF Tracking
  <1>4. ASSUME RetryTimerFires(j) PROVE tracking'[j].retry = "waking"
    <2>1. Stored(j)
      BY <1>4 DEF RetryTimerFires, TimerInv, RetryAwaited
    <2>2. tracking' = [tracking EXCEPT ![j].retry = "waking"]
      BY <1>4, <2>1 DEF RetryTimerFires
    <2> QED
      BY <1>1, <2>2 DEF Tracking
  <1> QED
    BY <1>1, <1>2, <1>3, <1>4 DEF TrackingStep

(* At the start there are no timers.                                       *)
LEMMA InitTimers ==
    ASSUME Init
    PROVE  TimerInv /\ NoUnhandledRejection
  BY DEF Init, BackendInit, TimerInv, NothingSwept, MaintenanceAlone, RetryRecorded,
         RetryAwaited, NoUnhandledRejection, Idle, Untracked, Loops

(* Over the in-memory store, when nothing but maintenance takes requests   *)
(* out of the store (no full queue is swept of aged requests and nobody    *)
(* calls clear), no timer callback ends in an unhandled rejection: the     *)
(* request that a timeout or a retry timer will touch is in the store      *)
(* when it fires, and while its callback runs.  The hypothesis is exact in *)
(* kind: each of the removals it excludes takes the request away between   *)
(* the setting of the timer and its firing.                                *)
THEOREM TimersFindTheirRequest ==
    InProcess /\ NoSweeps => (Spec => []NoUnhandledRejection)
  <1> SUFFICES ASSUME InProcess, NoSweeps PROVE Spec => []NoUnhandledRejection
    OBVIOUS
  <1> DEFINE Inv == TypeInv /\ OwnerInv /\ MarkInv /\ TimerInv /\ NoUnhandledRejection
  <1>1. Init => Inv
    BY InitHolds, InitMarks, InitTimers
  <1>2. Inv /\ [Next]_vars => Inv'
    <2> SUFFICES ASSUME Inv, [Next]_vars PROVE Inv'
      OBVIOUS
    <2>1. TypeInv' /\ OwnerInv' /\ MarkInv'
      BY StepKeeps, StepKeepsMarks
    <2>2. TimerInv'
      <3>1. NothingSwept' /\ MaintenanceAlone'
        BY StepSweepsNothing, StepMaintenanceAlone DEF TimerInv
      <3>2. (\A w \in Workers : RetryRecorded(w))'
        BY <2>1, StepRetryRecorded
      <3>3. (\A id \in Ids : RetryAwaited(id))'
        BY StepRetryAwaited
      <3> QED
        BY <3>1, <3>2, <3>3 DEF TimerInv
    <2> QED
      BY <2>1, <2>2, StepNobodyThrows
  <1>3. Inv => NoUnhandledRejection
    OBVIOUS
  <1> QED
    BY <1>1, <1>2, <1>3, PTL DEF Spec

-----------------------------------------------------------------------------
(* Requests stored as completed have answered their callers.               *)

(* The inner promise of one request is settled by the tick that holds it.  *)
PromiseStep(j) ==
    \/ promises'[j].inner = promises[j].inner
    \/ /\ promises[j].inner = "open"
       /\ \E w \in Workers : Holds(w, j) /\ (ProcessorResolves(w) \/ Abandoned(w))

(* Every other step leaves the inner promises alone.                       *)
LEMMA StepPromises ==
    ASSUME TypeInv, [Next]_vars, NEW j \in Ids
    PROVE  PromiseStep(j)
  <1> USE DEF callerVars, dedupVars, controlVars, managerVars
  <1>0. promises \in [Ids -> Promises] /\ promises[j] \in Promises
    BY DEF TypeInv, TypeOK
  <1>1. ASSUME promises' = promises PROVE PromiseStep(j)
    BY <1>1 DEF PromiseStep
  <1>2. ASSUME NEW id \in Ids, RejectOuter(id) PROVE PromiseStep(j)
    BY <1>0, <1>2 DEF RejectOuter, PromiseStep, Promises
  <1>3. ASSUME NEW id \in Ids, Submit(id) \/ EnqueueStep(id) PROVE PromiseStep(j)
    <2>1. CASE Submit(id)
      BY <1>0, <2>1 DEF Submit, PromiseStep, Promises
    <2>2. CASE Join(id)
      BY <1>0, <2>2 DEF Join, PromiseStep, Promises
    <2>3. CASE Accept(id)
      <3>1. CASE tracking[id].active
        <4>1. promises' = [promises EXCEPT ![id] =
                            IF promises[id].outer = "open"
                            THEN [promises[id] EXCEPT !.outer = "following", !.of = id]
                            ELSE promises[id]]
          BY <2>3, <3>1 DEF Accept
        <4>2. [promises[j] EXCEPT !.outer = "following", !.of = id].inner = promises[j].inner
          BY <1>0 DEF Promises
        <4> QED
          BY <1>0, <4>1, <4>2 DEF PromiseStep
      <3> QED
        BY <1>2, <2>3, <3>1 DEF Accept
    <2> QED
      BY <1>1, <1>2, <1>3, <2>1, <2>2, <2>3
         DEF EnqueueStep, HandleQueueFull, RefuseFull, SweepRemove, SweepCleanup, Create
  <1>4. ASSUME NEW id \in Ids, \/ TimerFires(id) \/ TimerStep(id) \/ ClockTick(id)
                               \/ CancelRequest(id) \/ CancelStep(id)
        PROVE  PromiseStep(j)
    BY <1>1, <1>2, <1>4
       DEF TimerFires, TimerStep, ClockTick, RetryTimerFires, RetryAwake,
           TimeoutFires, TimeoutExpires, TimeoutCleanup, DedupWindowEnds,
           DeferTimerFires, OnlyTracking,
           CancelRequest, CancelStep, CancelUpdates, CancelCleanup
  <1>5. ASSUME NEW w \in Workers, \/ \E id \in Ids : Tick(w, id)
                                  \/ ProcessStep(w) \/ ProcessorSettles(w)
        PROVE  PromiseStep(j)
    <2>1. CASE ProcessorResolves(w) \/ Abandoned(w)
      <3>1. Holds(w, workers[w].id)
        BY <2>1 DEF ProcessorResolves, Abandoned, Holds
      <3>2. \E result \in {"resolved", "rejected"} : SettleInner(workers[w].id, result)
        BY <2>1 DEF ProcessorResolves, Abandoned
      <3>3. \/ promises'[j] = promises[j]
            \/ j = workers[w].id /\ promises[j].inner = "open"
            \/ promises'[j].inner = promises[j].inner
        BY <1>0, <3>2 DEF SettleInner, Promises
      <3> QED
        BY <2>1, <3>1, <3>3 DEF PromiseStep
    <2>2. CASE ~(ProcessorResolves(w) \/ Abandoned(w))
      BY <1>1, <1>5, <2>2
         DEF Tick, ProcessStep, ProcessorSettles, CanExecute, RescheduleRequest,
             SetDeferTimer, StartProcessor, HandleRequestSuccess, Completed,
             ScheduleRetry, SetRetryTimer, HandleRequestFailure, ProcessorFails,
             OnlyWorkers
    <2> QED
      BY <2>1, <2>2
  <1>6. CASE \/ \E loop \in Loops, id \in Ids : LoopStep(loop, id)
             \/ \E zone \in Zones : ClearOneZone(zone)
             \/ MaintenanceTick \/ Clear \/ ClearForgets \/ PauseOrResume
             \/ Shutdown \/ ShutdownDrained \/ ShutdownTimesOut \/ CloseBackend
             \/ UNCHANGED vars
    BY <1>1, <1>6 DEF LoopStep, ClearOneZone, MaintenanceTick, Clear, ClearForgets,
              PauseOrResume, Shutdown, ShutdownDrained, ShutdownTimesOut, EndDrain,
              CloseBackend, OnlyManager, vars
  <1> QED
    BY <1>3, <1>4, <1>5, <1>6 DEF Next

(* The client neither cancels nor clears, and the breaker never defers.    *)
LeftAlone == Activities \cap {"defer", "cancel", "clear"} = {}

(* What follows from that.                                                 *)
NobodyInterferes ==
    /\ deferTimers = {} /\ clearing = "none"
    /\ \A id \in Ids : cancel[id] = "none"
    /\ \A w \in Workers : workers[w].pc # "deferring"

(* A request that has yet to be answered: it waits, or its tick is not     *)
(* through with the processor.                                             *)
Live(id) ==
    \/ Queued(id) /\ HasStatus(id, "pending")
    \/ \E w \in Workers : /\ workers[w].id = id
                          /\ workers[w].pc \in {"claimed", "starting", "executing"}
                          /\ Stored(id)

(* The parts of the inductive invariant of CompletedIsAnswered: a live     *)
(* request is tracked and open; a success is handed over before it is      *)
(* recorded; so is what is recorded; an expired request is not live; an    *)
(* unborn one is open; what a full queue was swept of is gone.             *)
LiveIsOpen(id) == Live(id) => tracking[id].active /\ promises[id].inner = "open"

SuccessIsHandedOver(w) ==
    /\ workers[w].pc \in {"succeeded", "completing"}
    /\ Stored(workers[w].id)
    => promises[workers[w].id].inner = "resolved"

CompletedIsResolved(id) ==
    HasStatus(id, "completed") => promises[id].inner = "resolved"

ExpiringIsOver(id) == tracking[id].timeout = "expiring" => ~Live(id)

UnbornIsOpen(id) == Unborn(id) => promises[id].inner = "open"

SweptIsOver(i, j) ==
    /\ j \in call[i].left => ~Unborn(j)
    /\ call[i].hand = j => ~Stored(j) /\ ~Unborn(j)

(* They hold until the manager is closed.                                  *)
AnswerInv ==
    manager # "closed" =>
        /\ NobodyInterferes
        /\ \A id \in Ids : /\ LiveIsOpen(id) /\ CompletedIsResolved(id)
                           /\ ExpiringIsOver(id) /\ UnbornIsOpen(id)
        /\ \A w \in Workers : SuccessIsHandedOver(w)
        /\ \A i, j \in Ids : SweptIsOver(i, j)

(* A closed manager stays closed.                                          *)
LEMMA StillOpen ==
    ASSUME TypeInv, [Next]_vars, manager' # "closed"
    PROVE  manager # "closed"
  <1> USE DEF callerVars, dedupVars, controlVars, managerVars
  <1>1. ASSUME NEW id \in Ids, \/ Submit(id) \/ EnqueueStep(id)
                               \/ TimerFires(id) \/ TimerStep(id) \/ ClockTick(id)
                               \/ CancelRequest(id) \/ CancelStep(id)
        PROVE  manager' = manager
    BY <1>1 DEF EnqueueStep, Submit, HandleQueueFull, RefuseFull, SweepRemove,
           SweepCleanup, Join, Create, Accept, TimerFires, TimerStep, ClockTick,
           RetryTimerFires, RetryAwake, TimeoutFires, TimeoutExpires,
           TimeoutCleanup, DedupWindowEnds, DeferTimerFires, OnlyTracking,
           CancelRequest, CancelStep, CancelUpdates, CancelCleanup
  <1>2. ASSUME NEW w \in Workers, \/ \E id \in Ids : Tick(w, id)
                                  \/ ProcessStep(w) \/ ProcessorSettles(w)
        PROVE  manager' = manager
    BY <1>2 DEF Tick, ProcessStep, ProcessorSettles, CanExecute, RescheduleRequest,
           SetDeferTimer, StartProcessor, HandleRequestSuccess, Completed,
           ScheduleRetry, SetRetryTimer, HandleRequestFailure, Abandoned,
           ProcessorResolves, ProcessorFails, OnlyWorkers
  <1>3. CASE \/ \E loop \in Loops, id \in Ids : LoopStep(loop, id)
             \/ \E zone \in Zones : ClearOneZone(zone)
             \/ MaintenanceTick \/ Clear \/ ClearForgets \/ PauseOrResume
             \/ Shutdown \/ ShutdownDrained \/ ShutdownTimesOut \/ CloseBackend
             \/ UNCHANGED vars
    BY <1>3 DEF LoopStep, ClearOneZone, MaintenanceTick, Clear, ClearForgets,
              PauseOrResume, Shutdown, ShutdownDrained, ShutdownTimesOut, EndDrain,
              CloseBackend, OnlyManager, vars
  <1> QED
    BY <1>1, <1>2, <1>3 DEF Next

(* Without these activities nothing of the kind begins.                    *)
LEMMA StepNobodyInterferes ==
    ASSUME LeftAlone, TypeInv, NobodyInterferes, [Next]_vars
    PROVE  NobodyInterferes'
  <1> USE DEF callerVars, dedupVars, controlVars, managerVars
  <1>0. workers \in [Workers -> Worker]
    BY DEF TypeInv, TypeOK
  <1>1. ASSUME NEW id \in Ids, \/ Submit(id) \/ EnqueueStep(id)
                               \/ TimerFires(id) \/ TimerStep(id) \/ ClockTick(id)
                               \/ CancelRequest(id) \/ CancelStep(id)
        PROVE  UNCHANGED <<deferTimers, clearing, cancel>>
    BY <1>1 DEF EnqueueStep, Submit, HandleQueueFull, RefuseFull, SweepRemove,
           SweepCleanup, Join, Create, Accept, TimerFires, TimerStep, ClockTick,
           RetryTimerFires, RetryAwake, TimeoutFires, TimeoutExpires,
           TimeoutCleanup, DedupWindowEnds, DeferTimerFires, OnlyTracking,
           CancelRequest, CancelStep, CancelUpdates, CancelCleanup,
           LeftAlone, NobodyInterferes
  <1>2. ASSUME NEW w \in Workers, \/ \E id \in Ids : Tick(w, id)
                                  \/ ProcessStep(w) \/ ProcessorSettles(w)
        PROVE  UNCHANGED <<deferTimers, clearing, cancel>>
    BY <1>2 DEF Tick, ProcessStep, ProcessorSettles, CanExecute, RescheduleRequest,
           SetDeferTimer, StartProcessor, HandleRequestSuccess, Completed,
           ScheduleRetry, SetRetryTimer, HandleRequestFailure, Abandoned,
           ProcessorResolves, ProcessorFails, OnlyWorkers,
           LeftAlone, NobodyInterferes
  <1>3. ASSUME \/ \E loop \in Loops, id \in Ids : LoopStep(loop, id)
               \/ \E zone \in Zones : ClearOneZone(zone)
               \/ MaintenanceTick \/ Clear \/ ClearForgets \/ PauseOrResume
               \/ Shutdown \/ ShutdownDrained \/ ShutdownTimesOut \/ CloseBackend
               \/ UNCHANGED vars
        PROVE  UNCHANGED <<deferTimers, clearing, cancel>>
    BY <1>3 DEF LoopStep, ClearOneZone, MaintenanceTick, Clear, ClearForgets,
              PauseOrResume, Shutdown, ShutdownDrained, ShutdownTimesOut, EndDrain,
              CloseBackend, OnlyManager, vars, LeftAlone, NobodyInterferes
  <1>4. UNCHANGED <<deferTimers, clearing, cancel>>
    BY <1>1, <1>2, <1>3 DEF Next
  <1>5. ASSUME NEW w \in Workers, workers'[w].pc = "deferring" PROVE FALSE
    <2>1. ProcessStep(w) \/ ProcessorSettles(w)
      BY <1>5, StepWorkers DEF WorkerStep, Idle, NobodyInterferes
    <2>2. Finish(w) \/ \E pc \in {"starting", "executing", "succeeded", "failed",
                                  "completing", "retrying", "abandoning"} : Proceed(w, pc)
      BY <2>1 DEF ProcessStep, ProcessorSettles, CanExecute, RescheduleRequest,
           SetDeferTimer, StartProcessor, HandleRequestSuccess, Completed,
           ScheduleRetry, SetRetryTimer, HandleRequestFailure, Abandoned,
           ProcessorResolves, ProcessorFails, UpdateOrGiveUp, LeftAlone
    <2> QED
      BY <1>0, <1>5, <2>2, ProceedStep DEF Finish, Idle
  <1> QED
    BY <1>4, <1>5 DEF NobodyInterferes

(* Only Create brings a record into the store.                             *)
LEMMA StoredByCreate ==
    ASSUME TypeInv, NobodyInterferes, [Next]_vars, NEW j \in Ids,
           requests'[j] # NoRequest
    PROVE  Stored(j) \/ Create(j)
  <1>1. RecordStep(j) /\ BackendInv
    BY StepRecordsOne DEF TypeInv, TypeOK, BackendInv
  <1>2. \A w \in Workers : Tick(w, j) => Stored(j)
    BY <1>1, DequeueEffect, ManagerAssumption DEF Tick, Ready, HasStatus
  <1> QED
    BY <1>1, <1>2 DEF RecordStep, Stored, NobodyInterferes

(* No request comes back to life.                                          *)
LEMMA LiveByCreate ==
    ASSUME TypeInv, OwnerInv, RecordInv, MarkInv, NobodyInterferes, [Next]_vars,
           NEW j \in Ids, Live(j)'
    PROVE  Live(j) \/ Create(j)
  <1> SUFFICES ASSUME ~Create(j) PROVE Live(j)
    OBVIOUS
  <1>0. BackendInv /\ workers \in [Workers -> Worker]
    BY DEF TypeInv, TypeOK, BackendInv
  <1>1. Stored(j)' /\ Stored(j)
    <2>1. Stored(j)'
      BY DEF Live, HasStatus
    <2> QED
      BY <2>1, StoredByCreate DEF Stored
  <1>2. \A w \in Workers : Tick(w, j) => Queued(j) /\ HasStatus(j, "pending")
    BY <1>0, DequeueEffect, ManagerAssumption DEF Tick, Ready
  <1>3. CASE Queued(j)' /\ HasStatus(j, "pending")'
    <2>1. Queued(j)
      <3>1. ~Unborn(j)
        BY <1>1 DEF RecordInv
      <3>2. ~Deferred(j)
        BY DEF Deferred, NobodyInterferes
      <3> QED
        BY <1>3, <3>1, <3>2, StepMoves
           DEF Moves, Stays, Enters, Declines, Returns, Takes, Parks, Delays, Leaves, LetsGo,
               SameQueued, BornNow
    <2>2. ~RetryTimerFires(j)
      BY <2>1 DEF RetryTimerFires, MarkInv, RetryGone, Gone
    <2>3. \A w \in Workers : ~Holds(w, j)
      BY <2>1 DEF OwnerInv, ExclusiveOwner, Held
    <2>4. RecordStep(j) /\ requests'[j] # NoRequest /\ requests'[j].status = "pending"
      BY <1>3, StepRecordsOne DEF HasStatus, Stored
    <2>5. requests[j].status = "pending"
      BY <1>2, <2>2, <2>3, <2>4 DEF RecordStep, HasStatus, NobodyInterferes
    <2> QED
      BY <1>1, <2>1, <2>5 DEF Live, HasStatus
  <1>4. ASSUME NEW w \in Workers, workers'[w].id = j,
               workers'[w].pc \in {"claimed", "starting", "executing"}
        PROVE  Live(j)
    <2>1. \/ /\ workers[w].id = j
             /\ workers[w].pc \in {"claimed", "starting", "executing"}
          \/ Tick(w, j)
      BY <1>4, StepWorkers DEF WorkerStep, Idle, PcSteps
    <2> QED
      BY <1>1, <1>2, <2>1 DEF Live
  <1> QED
    BY <1>3, <1>4 DEF Live

(* No request becomes unborn again.                                        *)
LEMMA UnbornStays ==
    ASSUME TypeInv, OwnerInv, [Next]_vars, NEW j \in Ids, Unborn(j)'
    PROVE  Unborn(j)
  BY StepMoves DEF Moves, Stays, Enters, Declines, Returns, Takes, Parks, Delays,
                   Leaves, LetsGo, SameUnborn, BornNow

(* What puts an end to the life of a request.                              *)
LEMMA LiveIsTracked ==
    ASSUME TypeInv, OwnerInv, AnswerInv, manager # "closed", manager' # "closed",
           [Next]_vars, NEW j \in Ids, Live(j), tracking[j].active
    PROVE  tracking'[j].active
  <1>0. NobodyInterferes /\ Stored(j)
    BY DEF AnswerInv, Live, HasStatus
  <1>1. ASSUME NEW w \in Workers, Holds(w, j)
        PROVE  workers[w].pc \in {"claimed", "starting", "executing"}
    BY <1>1 DEF Live, OwnerInv, ExclusiveOwner, Held, Holds
  <1>2. \A w \in Workers : Holds(w, j) => ~Completed(w) /\ ~Abandoned(w)
    BY <1>1 DEF Completed, Abandoned
  <1>3. ~TimeoutCleanup(j)
    BY DEF TimeoutCleanup, AnswerInv, ExpiringIsOver
  <1>4. ~CancelCleanup(j) /\ ~ClearForgets /\ ~CloseBackend
    BY <1>0 DEF CancelCleanup, ClearForgets, CloseBackend, NobodyInterferes
  <1>5. \A id \in Ids : call[id].hand # j
    BY <1>0 DEF AnswerInv, SweptIsOver
  <1>6. TrackingStep(j)
    BY StepTracking
  <1> QED
    BY <1>2, <1>3, <1>4, <1>5, <1>6 DEF TrackingStep, Cleans

(* A live request is settled only by the step that ends its life.          *)
LEMMA StepLiveIsOpen ==
    ASSUME TypeInv, OwnerInv, OwnerInv', RecordInv, MarkInv, AnswerInv,
           manager # "closed", manager' # "closed", [Next]_vars, NEW j \in Ids
    PROVE  LiveIsOpen(j)'
  <1> SUFFICES ASSUME Live(j)'
               PROVE  tracking'[j].active /\ promises'[j].inner = "open"
    BY DEF LiveIsOpen
  <1>0. /\ NobodyInterferes /\ LiveIsOpen(j) /\ UnbornIsOpen(j)
        /\ workers \in [Workers -> Worker] /\ tracking \in [Ids -> Tracking]
    BY DEF AnswerInv, TypeInv, TypeOK
  <1>1. CASE Create(j)
    <2>1. Unborn(j) /\ promises' = promises /\ tracking'[j].active
      BY <1>0, <1>1 DEF Create, HasRoom, Unborn
    <2> QED
      BY <1>0, <2>1 DEF UnbornIsOpen
  <1>2. CASE Live(j)
    <2>1. tracking[j].active /\ promises[j].inner = "open"
      BY <1>0, <1>2 DEF LiveIsOpen
    <2>2. tracking'[j].active
      BY <1>2, <2>1, LiveIsTracked
    <2>3. ASSUME NEW w \in Workers, Holds(w, j), ProcessorResolves(w) \/ Abandoned(w)
          PROVE  FALSE
      <3>1. workers[w].pc \in {"claimed", "starting", "executing"}
        BY <1>2, <2>3 DEF Live, OwnerInv, ExclusiveOwner, Held, Holds
      <3>2. ProcessorResolves(w)
        BY <2>3, <3>1 DEF Abandoned
      <3>3. workers'[w].pc = "succeeded" /\ workers'[w].id = j
        BY <1>0, <2>3, <3>2, ProceedStep DEF ProcessorResolves, Holds
      <3>4. Holds(w, j)'
        BY <3>3 DEF Holds
      <3>5. ~Queued(j)'
        BY <3>4 DEF OwnerInv, ExclusiveOwner, Held
      <3>6. \A v \in Workers : Holds(v, j)' => v = w
        BY <3>4 DEF OwnerInv, ExclusiveOwner
      <3>7. \A v \in Workers : workers'[v].id = j /\ workers'[v].pc # "idle" => v = w
        BY <3>6 DEF Holds
      <3> QED
        BY <3>3, <3>5, <3>7 DEF Live
    <2>4. PromiseStep(j)
      BY StepPromises
    <2> QED
      BY <2>1, <2>2, <2>3, <2>4 DEF PromiseStep
  <1> QED
    BY <1>0, <1>1, <1>2, LiveByCreate

(* The processor of a live request hands its result over before the record *)
(* is marked as completed.                                                 *)
LEMMA StepSuccessIsHandedOver ==
    ASSUME TypeInv, TypeInv', OwnerInv, RecordInv, AnswerInv, manager # "closed",
           [Next]_vars, NEW w \in Workers
    PROVE  SuccessIsHandedOver(w)'
  <1> SUFFICES ASSUME workers'[w].pc \in {"succeeded", "completing"},
                      requests'[workers'[w].id] # NoRequest
               PROVE  promises'[workers'[w].id].inner = "resolved"
    BY DEF SuccessIsHandedOver, Stored
  <1>0. /\ NobodyInterferes /\ SuccessIsHandedOver(w)
        /\ workers \in [Workers -> Worker] /\ promises \in [Ids -> Promises]
    BY DEF AnswerInv, TypeInv, TypeOK
  <1>1. PICK j \in Ids : j = workers'[w].id
    BY DEF TypeInv, BusyKnown
  <1>2. \/ workers'[w] = workers[w]
        \/ /\ workers'[w].id = workers[w].id
           /\ ProcessStep(w) \/ ProcessorSettles(w)
           /\ \/ workers[w].pc = "executing" /\ workers'[w].pc = "succeeded"
              \/ workers[w].pc = "succeeded" /\ workers'[w].pc = "completing"
    BY StepWorkers DEF WorkerStep, Idle, PcSteps
  <1>3. workers[w].id = j /\ Holds(w, j)
    BY <1>1, <1>2 DEF Holds
  <1>4. Stored(j)
    <2>1. ~Create(j)
      BY <1>3 DEF Create, HasRoom, Unborn, OwnerInv, UnbornNowhere, Held
    <2> QED
      BY <1>0, <1>1, <2>1, StoredByCreate
  <1>5. CASE workers[w].pc \in {"succeeded", "completing"}
    BY <1>0, <1>1, <1>3, <1>4, <1>5, StepPromises DEF SuccessIsHandedOver, PromiseStep
  <1>6. CASE workers[w].pc = "executing"
    <2>1. ProcessorResolves(w)
      <3>1. ProcessorSettles(w)
        BY <1>2, <1>6 DEF ProcessStep, CanExecute, RescheduleRequest,
           SetDeferTimer, StartProcessor, HandleRequestSuccess, Completed,
           ScheduleRetry, SetRetryTimer, HandleRequestFailure, Abandoned
      <3> QED
        BY <1>0, <1>2, <1>6, <3>1, ProceedStep DEF ProcessorSettles, ProcessorFails
    <2>2. tracking[j].active /\ promises[j].inner = "open"
      BY <1>3, <1>4, <1>6 DEF AnswerInv, LiveIsOpen, Live
    <2> QED
      BY <1>0, <1>1, <1>3, <2>1, <2>2 DEF ProcessorResolves, SettleInner, Promises
  <1> QED
    BY <1>2, <1>5, <1>6

(* Only a tick whose processor succeeded writes "completed".               *)
LEMMA StepCompletedIsResolved ==
    ASSUME TypeInv, OwnerInv, RecordInv, MarkInv, AnswerInv, manager # "closed",
           [Next]_vars, NEW j \in Ids
    PROVE  CompletedIsResolved(j)'
  <1> SUFFICES ASSUME requests'[j] # NoRequest, requests'[j].status = "completed"
               PROVE  promises'[j].inner = "resolved"
    BY DEF CompletedIsResolved, HasStatus, Stored
  <1>0. NobodyInterferes /\ CompletedIsResolved(j) /\ RecordStep(j) /\ PromiseStep(j)
    BY StepRecordsOne, StepPromises DEF AnswerInv
  <1>1. promises[j].inner = "resolved"
    <2>1. CASE HasStatus(j, "completed")
      BY <1>0, <2>1 DEF CompletedIsResolved
    <2>2. CASE ~HasStatus(j, "completed")
      <3>1. PICK w \in Workers : /\ ProcessStep(w) /\ Holds(w, j)
                                 /\ Stored(j) /\ workers'[w].pc = "completing"
        BY <1>0, <2>2 DEF RecordStep, HasStatus, Stored, Written
      <3>2. workers[w].pc \in {"succeeded", "completing"} /\ workers[w].id = j
        BY <3>1, StepWorkers DEF WorkerStep, Idle, PcSteps, Holds
      <3> QED
        BY <3>1, <3>2 DEF AnswerInv, SuccessIsHandedOver
    <2> QED
      BY <2>1, <2>2
  <1> QED
    BY <1>0, <1>1 DEF PromiseStep

(* A timeout expires only what waits, and what it expires is not taken by  *)
(* a tick any more.                                                        *)
LEMMA StepExpiringIsOver ==
    ASSUME InProcess, TypeInv, OwnerInv, RecordInv, MarkInv, AnswerInv,
           manager # "closed", [Next]_vars, NEW j \in Ids
    PROVE  ExpiringIsOver(j)'
  <1> SUFFICES ASSUME tracking'[j].timeout = "expiring", Live(j)'
               PROVE  FALSE
    BY DEF ExpiringIsOver
  <1>0. /\ NobodyInterferes /\ ExpiringIsOver(j)
        /\ tracking \in [Ids -> Tracking] /\ BackendInv
    BY DEF AnswerInv, TypeInv, TypeOK, BackendInv
  <1>1. ~Create(j)
    BY <1>0 DEF Create
  <1>2. Live(j)
    BY <1>0, <1>1, LiveByCreate
  <1>3. TimeoutExpires(j)
    <2>1. tracking[j].timeout # "expiring"
      BY <1>0, <1>2 DEF ExpiringIsOver
    <2> QED
      BY <1>1, <2>1, StepTracking DEF TrackingStep
  <1>4. HasStatus(j, "pending") /\ NoTick
    BY <1>3 DEF TimeoutExpires, MarkInv, Expirable
  <1>5. SetStatus(j, "expired") /\ workers' = workers
    BY <1>3, <1>4 DEF TimeoutExpires, HasStatus, OnlyTracking
  <1>6. requests'[j].status = "expired"
    BY <1>0, <1>5, SetStatusRecord, StatusWords
  <1>7. \A w \in Workers : workers[w].id = j => workers[w].pc # "executing"
    BY <1>4 DEF MarkInv, Marked, HasStatus
  <1> QED
    BY <1>4, <1>5, <1>6, <1>7 DEF Live, NoTick, HasStatus

(* No tick settles the promise of a request that is not stored yet.        *)
LEMMA StepUnbornIsOpen ==
    ASSUME TypeInv, OwnerInv, AnswerInv, manager # "closed", [Next]_vars, NEW j \in Ids
    PROVE  UnbornIsOpen(j)'
  <1> SUFFICES ASSUME Unborn(j)' PROVE promises'[j].inner = "open"
    BY DEF UnbornIsOpen
  <1>1. Unborn(j) /\ promises[j].inner = "open"
    BY UnbornStays DEF AnswerInv, UnbornIsOpen
  <1>2. \A w \in Workers : ~Holds(w, j)
    BY <1>1 DEF OwnerInv, UnbornNowhere, Held
  <1> QED
    BY <1>1, <1>2, StepPromises DEF PromiseStep

(* A full queue is swept of stored requests only.                          *)
LEMMA StepSweptIsOver ==
    ASSUME TypeInv, OwnerInv, RecordInv, IndexesExact, AnswerInv, manager # "closed",
           [Next]_vars, NEW i \in Ids, NEW j \in Ids
    PROVE  SweptIsOver(i, j)'
  <1> USE DEF callerVars, dedupVars, controlVars, managerVars
  <1>0. /\ NobodyInterferes /\ SweptIsOver(i, j)
        /\ call \in [Ids -> Call] /\ call[i] \in Call /\ NoId # j
        /\ BackendTypeOK
    BY ManagerAssumption DEF AnswerInv, TypeInv, TypeOK
  <1>1. Unborn(j)' => Unborn(j)
    BY UnbornStays
  <1>2. requests'[j] # NoRequest /\ ~Unborn(j) => Stored(j)
    BY <1>0, StoredByCreate DEF Create, HasRoom, Unborn
  <1>3. ASSUME call'[i].left \subseteq call[i].left \/ (j \in call'[i].left => ~Unborn(j)),
               call'[i].hand \in {call[i].hand, NoId}
                 \/ (call'[i].hand = j => requests'[j] = NoRequest /\ j \in call[i].left)
        PROVE  SweptIsOver(i, j)'
    BY <1>0, <1>1, <1>2, <1>3 DEF SweptIsOver, Stored
  <1>4. CASE call' = call
    BY <1>3, <1>4
  <1>5. ASSUME NEW id \in Ids, Submit(id) \/ EnqueueStep(id)
        PROVE  SweptIsOver(i, j)'
    <2>1. CASE HandleQueueFull(id)
      <3>1. j \in WithStatus({"pending", "retrying"}) => ~Unborn(j)
        BY DEF WithStatus, IndexesExact, HasStatus, RecordInv
      <3>2. /\ call'[i].left \subseteq call[i].left \/ (j \in call'[i].left => ~Unborn(j))
            /\ call'[i].hand = call[i].hand
        BY <1>0, <2>1, <3>1 DEF HandleQueueFull, Call
      <3> QED
        BY <1>3, <3>2
    <2>2. ASSUME NEW victim \in Ids, SweepRemove(id, victim)
          PROVE  SweptIsOver(i, j)'
      <3>1. requests'[victim] = NoRequest /\ victim \in call[id].left
        BY <1>0, <2>2 DEF SweepRemove, Erase, BackendTypeOK, Stored
      <3>2. /\ call'[i].left \subseteq call[i].left
            /\ call'[i].hand = call[i].hand \/ (i = id /\ call'[i].hand = victim)
        BY <1>0, <2>2 DEF SweepRemove, Call
      <3> QED
        BY <1>3, <3>1, <3>2
    <2>3. CASE ~HandleQueueFull(id) /\ \A victim \in Ids : ~SweepRemove(id, victim)
      <3>1. \/ call' = call
            \/ \E pc \in {"sized", "full", "returned", "storing"} :
                 call' = [call EXCEPT ![id].pc = pc]
            \/ call' = [call EXCEPT ![id].hand = NoId]
        BY <1>5, <2>3 DEF EnqueueStep, Submit, RefuseFull, SweepCleanup, Join, Create, Accept
      <3>2. call'[i].left = call[i].left /\ call'[i].hand \in {call[i].hand, NoId}
        BY <1>0, <3>1 DEF Call
      <3> QED
        BY <1>3, <3>2
    <2> QED
      BY <2>1, <2>2, <2>3
  <1>6. ASSUME NEW id \in Ids, \/ TimerFires(id) \/ TimerStep(id) \/ ClockTick(id)
                               \/ CancelRequest(id) \/ CancelStep(id)
        PROVE  call' = call
    BY <1>6 DEF TimerFires, TimerStep, ClockTick,
           RetryTimerFires, RetryAwake, TimeoutFires, TimeoutExpires,
           TimeoutCleanup, DedupWindowEnds, DeferTimerFires, OnlyTracking,
           CancelRequest, CancelStep, CancelUpdates, CancelCleanup
  <1>7. ASSUME NEW w \in Workers, \/ \E id \in Ids : Tick(w, id)
                                  \/ ProcessStep(w) \/ ProcessorSettles(w)
        PROVE  call' = call
    BY <1>7 DEF Tick, ProcessStep, ProcessorSettles, CanExecute, RescheduleRequest,
           SetDeferTimer, StartProcessor, HandleRequestSuccess, Completed,
           ScheduleRetry, SetRetryTimer, HandleRequestFailure, Abandoned,
           ProcessorResolves, ProcessorFails, OnlyWorkers
  <1>8. ASSUME \/ \E loop \in Loops, id \in Ids : LoopStep(loop, id)
               \/ \E zone \in Zones : ClearOneZone(zone)
               \/ MaintenanceTick \/ Clear \/ ClearForgets \/ PauseOrResume
               \/ Shutdown \/ ShutdownDrained \/ ShutdownTimesOut \/ CloseBackend
               \/ UNCHANGED vars
        PROVE  call' = call
    BY <1>8 DEF LoopStep, ClearOneZone, MaintenanceTick, Clear, ClearForgets,
              PauseOrResume, Shutdown, ShutdownDrained, ShutdownTimesOut, EndDrain,
              CloseBackend, OnlyManager, vars
  <1> QED
    BY <1>4, <1>5, <1>6, <1>7, <1>8 DEF Next

(* The invariant is inductive while the manager is open.                   *)
LEMMA StepKeepsAnswers ==
    ASSUME InProcess, LeftAlone, TypeInv, TypeInv', OwnerInv, OwnerInv',
           RecordInv, IndexesExact, MarkInv, AnswerInv, [Next]_vars
    PROVE  AnswerInv'
  <1> SUFFICES ASSUME manager' # "closed"
               PROVE  /\ NobodyInterferes'
                      /\ (\A id \in Ids : /\ LiveIsOpen(id) /\ CompletedIsResolved(id)
                                          /\ ExpiringIsOver(id) /\ UnbornIsOpen(id))'
                      /\ (\A w \in Workers : SuccessIsHandedOver(w))'
                      /\ (\A i, j \in Ids : SweptIsOver(i, j))'
    BY DEF AnswerInv
  <1>1. manager # "closed" /\ NobodyInterferes
    BY StillOpen DEF AnswerInv
  <1>2. NobodyInterferes'
    BY <1>1, StepNobodyInterferes
  <1>3. (\A id \in Ids : /\ LiveIsOpen(id) /\ CompletedIsResolved(id)
                         /\ ExpiringIsOver(id) /\ UnbornIsOpen(id))'
    BY <1>1, StepLiveIsOpen, StepCompletedIsResolved, StepExpiringIsOver, StepUnbornIsOpen
  <1>4. (\A w \in Workers : SuccessIsHandedOver(w))'
    BY <1>1, StepSuccessIsHandedOver
  <1>5. (\A i, j \in Ids : SweptIsOver(i, j))'
    BY <1>1, StepSweptIsOver
  <1> QED
    BY <1>2, <1>3, <1>4, <1>5

(* It holds at the start.                                                  *)
LEMMA InitAnswers ==
    ASSUME Init
    PROVE  AnswerInv
  BY ManagerAssumption
     DEF Init, BackendInit, AnswerInv, NobodyInterferes, LiveIsOpen, Live,
         CompletedIsResolved, ExpiringIsOver, UnbornIsOpen, SuccessIsHandedOver,
         SweptIsOver, HasStatus, Stored, Idle, Untracked

(* Over the in-memory store, as long as nobody cancels or clears and the   *)
(* breaker defers nothing, a request stored as completed has resolved the  *)
(* promise of its caller, until a shutdown has closed the manager.  Each   *)
(* of the three excluded activities breaks it: a cancelled or cleared      *)
(* request is no longer active when its processor succeeds, and a deferred *)
(* one comes back after its timeout has expired and forgotten it.          *)
THEOREM AnsweredWhenCompleted ==
    InProcess /\ LeftAlone => (Spec => []CompletedIsAnswered)
  <1> SUFFICES ASSUME InProcess, LeftAlone PROVE Spec => []CompletedIsAnswered
    OBVIOUS
  <1> DEFINE Inv == /\ TypeInv /\ OwnerInv /\ RecordInv /\ IndexesExact
                    /\ MarkInv /\ AnswerInv
  <1>1. Init => Inv
    BY InitHolds, InitRecords, InitMarks, InitAnswers
  <1>2. Inv /\ [Next]_vars => Inv'
    BY StepKeeps, StepKeepsRecords, StepKeepsMarks, StepKeepsAnswers
  <1>3. Inv => CompletedIsAnswered
    BY DEF AnswerInv, CompletedIsResolved, CompletedIsAnswered
  <1> QED
    BY <1>1, <1>2, <1>3, PTL DEF Spec
==============================================================================
