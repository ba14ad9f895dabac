--------------------------- MODULE ReliabilityProofs ---------------------------
(***************************************************************************)
(* Proofs about ReliabilityManager. The inductive invariant has four parts: *)
(* the threads of the limiter and the timers of the callers, the waiting    *)
(* queue of the limiter, what waits to be started, and who leads.           *)
(***************************************************************************)
EXTENDS ReliabilityManager, CollectionLemmas, FiniteSetTheorems

Permits == {"none", "waiting", "granted", "refused"}
CallRecords == [promise : {"none", "pending", "answered"}, timer : BOOLEAN, retries : 0..GroupRetries]

PermitsOK == permit \in [Calls -> Permits] /\ threads \in [Endpoints -> 0..ThreadLimit]
CallsOK == call \in [Calls -> CallRecords]

AccountInv == PermitsOK /\ CallsOK /\ ThreadsAccounted /\ WaiterHasTimer

-----------------------------------------------------------------------------
\* The running calls of an endpoint are finitely many.
LEMMA RunningFinite ==
    ASSUME NEW e \in Endpoints
    PROVE  IsFiniteSet(Running(e)) /\ Cardinality(Running(e)) \in Nat
<1>1. Running(e) \subseteq Calls  BY DEF Running
<1>2. IsFiniteSet(Running(e))  BY <1>1, FS_Subset, LimiterAssumption
<1> QED  BY <1>2, FS_CardinalityType

\* A step of the limiter that grants no call and takes none away from the
\* running ones keeps the account.
LEMMA SameRunning ==
    ASSUME PermitsOK, ThreadsAccounted, threads' = threads,
           \A x \in Calls : permit[x] = "granted" <=> permit'[x] = "granted"
    PROVE  ThreadsAccounted'
<1> SUFFICES ASSUME NEW e \in Endpoints  PROVE threads'[e] <= Cardinality(Running(e)')
    BY DEF ThreadsAccounted
<1>1. Running(e)' = Running(e)  BY DEF Running
<1> QED  BY <1>1 DEF ThreadsAccounted

LEMMA GrantKeepsAccount ==
    ASSUME NEW c \in Calls, PermitsOK, ThreadsAccounted, permit[c] = "none", Grant(c)
    PROVE  PermitsOK' /\ ThreadsAccounted'
<1> DEFINE f == EndpointOf[c]
<1>0. f \in Endpoints /\ ThreadLimit \in Nat  BY LimiterAssumption
<1>1. PermitsOK'  BY <1>0 DEF PermitsOK, Permits, Grant, CanProceed
<1>2. ASSUME NEW e \in Endpoints  PROVE threads'[e] <= Cardinality(Running(e)')
  <2>1. CASE e = f
    <3>1. Running(e)' = Running(e) \cup {c} /\ c \notin Running(e)
        BY <2>1 DEF Running, Grant, PermitsOK
    <3>2. Cardinality(Running(e)') = Cardinality(Running(e)) + 1
        BY <3>1, RunningFinite, FS_AddElement
    <3>3. threads'[e] = threads[e] + 1  BY <2>1 DEF Grant, PermitsOK
    <3>4. threads[e] \in Nat /\ threads[e] <= Cardinality(Running(e)) /\ Cardinality(Running(e)) \in Nat
        BY <1>0, RunningFinite DEF PermitsOK, ThreadsAccounted
    <3> HIDE DEF f
    <3> QED  BY <3>2, <3>3, <3>4
  <2>2. CASE e # f
    <3>1. Running(e)' = Running(e)  BY <2>2 DEF Running, Grant, PermitsOK
    <3>2. threads'[e] = threads[e]  BY <2>2 DEF Grant, PermitsOK
    <3> QED  BY <3>1, <3>2 DEF ThreadsAccounted
  <2> QED  BY <2>1, <2>2
<1> QED  BY <1>1, <1>2 DEF ThreadsAccounted

\* Completion gives one thread back whether or not the call held one: the
\* count drops at least as far as the set of running calls does.
LEMMA NotifyKeepsAccount ==
    ASSUME NEW c \in Calls, PermitsOK, ThreadsAccounted, NotifyRequestComplete(c)
    PROVE  PermitsOK' /\ ThreadsAccounted'
<1> DEFINE f == EndpointOf[c]
<1>0. f \in Endpoints /\ ThreadLimit \in Nat  BY LimiterAssumption
<1>1. PermitsOK'  BY <1>0 DEF PermitsOK, Permits, NotifyRequestComplete
<1>2. ASSUME NEW e \in Endpoints  PROVE threads'[e] <= Cardinality(Running(e)')
  <2>0. threads[e] \in Nat /\ threads[e] <= Cardinality(Running(e)) /\ Cardinality(Running(e)) \in Nat
      BY <1>0, RunningFinite DEF PermitsOK, ThreadsAccounted
  <2>1. CASE e = f
    <3>1. Running(e)' = Running(e) \ {c}
        BY DEF Running, NotifyRequestComplete, PermitsOK
    <3>2. Cardinality(Running(e) \ {c}) = IF c \in Running(e) THEN Cardinality(Running(e)) - 1
                                          ELSE Cardinality(Running(e))
        BY RunningFinite, FS_RemoveElement
    <3>4. Cardinality(Running(e)') >= Cardinality(Running(e)) - 1 /\ Cardinality(Running(e)') \in Nat
      <4>1. Cardinality(Running(e)') = Cardinality(Running(e) \ {c})  BY <3>1
      <4>2. Cardinality(Running(e)) \in Nat /\ Cardinality(Running(e) \ {c}) \in Nat
          BY RunningFinite, FS_RemoveElement, FS_CardinalityType
      <4> QED  BY <3>2, <4>1, <4>2
    <3>3. threads'[e] = IF threads[e] > 0 THEN threads[e] - 1 ELSE 0
        BY <2>1 DEF NotifyRequestComplete, PermitsOK
    <3> HIDE DEF f
    <3> QED  BY <2>0, <3>3, <3>4
  <2>2. CASE e # f
    <3>1. Running(e)' = Running(e)  BY <2>2 DEF Running, NotifyRequestComplete, PermitsOK
    <3>2. threads'[e] = threads[e]  BY <2>2 DEF NotifyRequestComplete, PermitsOK
    <3> QED  BY <2>0, <3>1, <3>2
  <2> QED  BY <2>1, <2>2
<1> QED  BY <1>1, <1>2 DEF ThreadsAccounted

LEMMA PermissionKeepsAccount ==
    ASSUME NEW c \in Calls, PermitsOK, ThreadsAccounted, RequestPermission(c)
    PROVE  PermitsOK' /\ ThreadsAccounted'
<1>1. CASE Grant(c)  BY <1>1, GrantKeepsAccount DEF RequestPermission
<1>2. CASE Refuse(c)
  <2>1. PermitsOK'  BY <1>2 DEF PermitsOK, Permits, Refuse
  <2>2. \A x \in Calls : permit[x] = "granted" <=> permit'[x] = "granted"
      BY <1>2 DEF PermitsOK, Refuse, RequestPermission
  <2> QED  BY <1>2, <2>1, <2>2, SameRunning DEF Refuse
<1>3. CASE Wait(c)
  <2>1. PermitsOK'  BY <1>3 DEF PermitsOK, Permits, Wait
  <2>2. \A x \in Calls : permit[x] = "granted" <=> permit'[x] = "granted"
      BY <1>3 DEF PermitsOK, Wait, RequestPermission
  <2> QED  BY <1>3, <2>1, <2>2, SameRunning DEF Wait
<1> QED  BY <1>1, <1>2, <1>3 DEF RequestPermission

LEMMA TimeoutKeepsAccount ==
    ASSUME NEW c \in Calls, PermitsOK, ThreadsAccounted, PermissionTimesOut(c)
    PROVE  PermitsOK' /\ ThreadsAccounted'
<1>1. PermitsOK'  BY DEF PermitsOK, Permits, PermissionTimesOut
<1>2. \A x \in Calls : permit[x] = "granted" <=> permit'[x] = "granted"
    BY DEF PermitsOK, PermissionTimesOut
<1> QED  BY <1>1, <1>2, SameRunning DEF PermissionTimesOut

\* A step that leaves permits and threads alone keeps the account.
LEMMA SameLimiter ==
    ASSUME PermitsOK, ThreadsAccounted, permit' = permit, threads' = threads
    PROVE  PermitsOK' /\ ThreadsAccounted'
BY SameRunning DEF PermitsOK

-----------------------------------------------------------------------------
\* Whoever is answered no longer waits, and nobody else is touched.
LEMMA AnsweredKeepsTimers ==
    ASSUME CallsOK, WaiterHasTimer, NEW cs \in SUBSET Calls
    PROVE  /\ Answered(cs) \in [Calls -> CallRecords]
           /\ \A x \in Calls : Answered(cs)[x].promise = "pending" => Answered(cs)[x].timer
BY DEF Answered, CallsOK, CallRecords, WaiterHasTimer

LEMMA SameCalls ==
    ASSUME CallsOK, WaiterHasTimer, call' = call
    PROVE  CallsOK' /\ WaiterHasTimer'
BY DEF CallsOK, WaiterHasTimer

LEMMA AnsweringKeepsTimers ==
    ASSUME CallsOK, WaiterHasTimer, NEW cs \in SUBSET Calls, call' = Answered(cs)
    PROVE  CallsOK' /\ WaiterHasTimer'
BY AnsweredKeepsTimers DEF CallsOK, WaiterHasTimer

\* A caller that is accepted gets a timer, one that is refused an answer.
LEMMA QueueingKeepsTimers ==
    ASSUME NEW c \in Calls, CallsOK, WaiterHasTimer, QueueRequest(c)
    PROVE  CallsOK' /\ WaiterHasTimer'
<1>0. GroupRetries \in Nat  BY ManagerAssumption
<1>1. CASE RefuseCall(c)
    BY <1>1 DEF RefuseCall, CallsOK, CallRecords, WaiterHasTimer
<1>2. ASSUME NEW cs, Accept(c, cs)  PROVE CallsOK' /\ WaiterHasTimer'
  <2>1. Answered(cs) = Answered(cs \cap Calls)  BY DEF Answered
  <2>2. /\ Answered(cs) \in [Calls -> CallRecords]
        /\ \A x \in Calls : Answered(cs)[x].promise = "pending" => Answered(cs)[x].timer
      BY <2>1, AnsweredKeepsTimers
  <2>3. AcceptedCall \in CallRecords /\ AcceptedCall.timer
      BY <1>0 DEF CallRecords, AcceptedCall
  <2>4. call' = [Answered(cs) EXCEPT ![c] = AcceptedCall]  BY <1>2 DEF Accept
  <2>5. CallsOK'  BY <2>2, <2>3, <2>4 DEF CallsOK
  <2>6. WaiterHasTimer'  BY <2>2, <2>3, <2>4 DEF WaiterHasTimer
  <2> QED  BY <2>5, <2>6
<1> QED  BY <1>1, <1>2 DEF QueueRequest

\* The timer goes off with an answer.
LEMMA TimerKeepsTimers ==
    ASSUME NEW c \in Calls, CallsOK, WaiterHasTimer, RequestTimer(c)
    PROVE  CallsOK' /\ WaiterHasTimer'
<1>1. call' = [Answered({c}) EXCEPT ![c].timer = FALSE]  BY DEF RequestTimer
<1>2. /\ Answered({c}) \in [Calls -> CallRecords]
      /\ \A x \in Calls : Answered({c})[x].promise = "pending" => Answered({c})[x].timer
    BY AnsweredKeepsTimers
<1>3. Answered({c})[c].promise # "pending"
    BY DEF Answered, CallsOK, CallRecords
<1>4. CallsOK'
  <2>1. \A r \in CallRecords : [r EXCEPT !.timer = FALSE] \in CallRecords  BY DEF CallRecords
  <2> QED  BY <1>1, <1>2, <2>1 DEF CallsOK
<1>5. WaiterHasTimer'  BY <1>1, <1>2, <1>3 DEF WaiterHasTimer, CallRecords
<1> QED  BY <1>4, <1>5

LEMMA FailKeepsTimers ==
    ASSUME NEW c \in Calls, CallsOK, WaiterHasTimer, Fail(c)
    PROVE  CallsOK' /\ WaiterHasTimer'
<1>0. GroupRetries \in Nat  BY ManagerAssumption
<1>1. CASE call[c].retries < GroupRetries /\ call' = [call EXCEPT ![c].retries = @ + 1]
    BY <1>0, <1>1 DEF CallsOK, CallRecords, WaiterHasTimer
<1>2. CASE call' = Answered({c})
    BY <1>2, AnsweringKeepsTimers
<1> QED  BY <1>1, <1>2 DEF Fail

-----------------------------------------------------------------------------
(***************************************************************************)
(* The waiting queue of the limiter.                                       *)
(***************************************************************************)
WaitersOK == waiting \in Seq(Calls) /\ admitting \in BOOLEAN /\ WaitingQueueExact

\* PlaceFor is a place in the queue; before it nobody is less urgent than the
\* newcomer, and whoever stands at it is.
LEMMA PlaceForProperties ==
    ASSUME NEW c \in Calls, NEW q \in Seq(Calls), NEW priority \in [Calls -> Int]
    PROVE  /\ PlaceFor(c, q, priority) \in 1..(Len(q) + 1)
           /\ \A i \in DOMAIN q : i < PlaceFor(c, q, priority) => priority[q[i]] >= priority[c]
           /\ PlaceFor(c, q, priority) \in DOMAIN q =>
                priority[q[PlaceFor(c, q, priority)]] < priority[c]
<1> DEFINE Lower == {i \in DOMAIN q : priority[q[i]] < priority[c]}
           p == PlaceFor(c, q, priority)
<1>0. /\ DOMAIN q = 1..Len(q) /\ Len(q) \in Nat
      /\ \A i \in DOMAIN q : priority[q[i]] \in Int
      /\ priority[c] \in Int
  OBVIOUS
<1>1. CASE Lower = {}
  <2>1. p = Len(q) + 1  BY <1>1 DEF PlaceFor
  <2>2. \A i \in DOMAIN q : ~(priority[q[i]] < priority[c])  BY <1>1
  <2> HIDE DEF p, Lower
  <2> QED  BY <1>0, <2>1, <2>2 DEF p
<1>2. CASE Lower # {}
  <2>1. Lower \subseteq Nat  BY <1>0
  <2>2. p = CHOOSE i \in Lower : \A j \in Lower : i <= j  BY <1>2 DEF PlaceFor
  <2>3. p \in Lower /\ \A j \in Lower : p <= j
    <3> HIDE DEF Lower, p
    <3>1. \E i \in Lower : \A j \in Lower : i <= j  BY <1>2, <2>1, Smallest
    <3> QED  BY <2>2, <3>1, Zenon
  <2>4. p \in DOMAIN q /\ priority[q[p]] < priority[c]  BY <2>3
  <2>5. \A i \in DOMAIN q : i < p => ~(priority[q[i]] < priority[c])
    <3>1. ASSUME NEW i \in DOMAIN q, i < p, priority[q[i]] < priority[c]  PROVE FALSE
      <4>1. i \in Lower  BY <3>1
      <4>2. p <= i  BY <2>3, <4>1
      <4> HIDE DEF p, Lower
      <4> QED  BY <1>0, <2>4, <3>1, <4>2
    <3> QED  BY <3>1
  <2> HIDE DEF p, Lower
  <2>6. p \in 1..(Len(q) + 1)  BY <1>0, <2>4
  <2> QED  BY <1>0, <2>4, <2>5, <2>6 DEF p
<1> QED  BY <1>1, <1>2

\* A call that joins the queue takes the place of its priority.
LEMMA WaitKeepsOrder ==
    ASSUME NEW c \in Calls, PermitsOK, WaitersOK, permit[c] = "none", Wait(c), UNCHANGED admitting
    PROVE  WaitersOK'
<1> DEFINE p == PlaceFor(c, waiting, PriorityOf)
           n == Len(waiting)
<1>0. PriorityOf \in [Calls -> Int]  BY LimiterAssumption
<1>1. /\ p \in 1..(n + 1)
      /\ \A i \in DOMAIN waiting : i < p => PriorityOf[waiting[i]] >= PriorityOf[c]
      /\ p \in DOMAIN waiting => PriorityOf[waiting[p]] < PriorityOf[c]
    BY <1>0, PlaceForProperties DEF WaitersOK
<1>2. waiting' = InsertAt(waiting, p, c)  BY DEF Wait
<1> HIDE DEF p
<1>3. c \notin ToSet(waiting) /\ IsInjective(waiting)
    BY DEF WaitersOK, WaitingQueueExact, Waiting
<1>4. /\ waiting' \in Seq(Calls) /\ Len(waiting') = n + 1
      /\ \A j \in 1..(n + 1) :
            waiting'[j] = IF j < p THEN waiting[j] ELSE IF j = p THEN c ELSE waiting[j - 1]
      /\ ToSet(waiting') = ToSet(waiting) \cup {c}
      /\ IsInjective(waiting')
    BY <1>1, <1>2, <1>3, InsertAtProperties DEF WaitersOK
<1>5. Waiting' = Waiting \cup {c}  BY DEF Waiting, Wait, PermitsOK
<1>6. DOMAIN waiting = 1..n /\ DOMAIN waiting' = 1..(n + 1) /\ n \in Nat
    BY <1>4 DEF WaitersOK
<1>7. \A i, j \in DOMAIN waiting : i < j => PriorityOf[waiting[i]] >= PriorityOf[waiting[j]]
    BY DEF WaitersOK, WaitingQueueExact
<1>8. \A i \in DOMAIN waiting : PriorityOf[waiting[i]] \in Int
    BY <1>0 DEF WaitersOK
<1>9. ASSUME NEW i \in DOMAIN waiting, i >= p  PROVE PriorityOf[c] >= PriorityOf[waiting[i]]
  <2>1. p \in DOMAIN waiting  BY <1>1, <1>6, <1>9
  <2>2. PriorityOf[waiting[p]] < PriorityOf[c]  BY <1>1, <2>1
  <2>3. i = p \/ PriorityOf[waiting[p]] >= PriorityOf[waiting[i]]  BY <1>1, <1>6, <1>7, <1>9, <2>1
  <2>4. PriorityOf[c] \in Int  BY <1>0
  <2> QED  BY <1>8, <2>1, <2>2, <2>3, <2>4
<1>10. ASSUME NEW i \in DOMAIN waiting', NEW j \in DOMAIN waiting', i < j
       PROVE  PriorityOf[waiting'[i]] >= PriorityOf[waiting'[j]]
  <2>1. CASE j < p
      BY <1>1, <1>4, <1>6, <1>7, <1>10, <2>1
  <2>2. CASE j = p
    <3>1. i \in DOMAIN waiting /\ i < p  BY <1>1, <1>6, <1>10, <2>2
    <3> QED  BY <1>1, <1>4, <1>6, <2>2, <3>1
  <2>3. CASE i = p
    <3>1. j - 1 \in DOMAIN waiting /\ j - 1 >= p /\ j > p  BY <1>1, <1>6, <1>10, <2>3
    <3> QED  BY <1>4, <1>6, <1>9, <2>3, <3>1
  <2>4. CASE i < p /\ j > p
    <3>1. i \in DOMAIN waiting /\ j - 1 \in DOMAIN waiting /\ j - 1 >= p /\ i < j - 1
        BY <1>1, <1>6, <1>10, <2>4
    <3>2. waiting'[i] = waiting[i] /\ waiting'[j] = waiting[j - 1]  BY <1>1, <1>4, <1>6, <2>4
    <3> QED  BY <1>7, <3>1, <3>2
  <2>5. CASE i > p
    <3>1. i - 1 \in DOMAIN waiting /\ j - 1 \in DOMAIN waiting /\ i - 1 < j - 1
        BY <1>1, <1>6, <1>10, <2>5
    <3>2. waiting'[i] = waiting[i - 1] /\ waiting'[j] = waiting[j - 1]  BY <1>1, <1>4, <1>6, <1>10, <2>5
    <3> QED  BY <1>7, <3>1, <3>2
  <2> QED  BY <1>1, <1>6, <1>10, <2>1, <2>2, <2>3, <2>4, <2>5
<1>11. WaitingQueueExact'
  <2>1. ToSet(waiting') = Waiting'
      BY <1>4, <1>5 DEF WaitersOK, WaitingQueueExact
  <2> QED  BY <1>4, <1>10, <2>1 DEF WaitingQueueExact
<1> QED  BY <1>4, <1>11 DEF WaitersOK

\* Whoever leaves the queue leaves the others in their order.
LEMMA TimeoutKeepsOrder ==
    ASSUME NEW c \in Calls, PermitsOK, WaitersOK, PermissionTimesOut(c)
    PROVE  WaitersOK'
<1>1. waiting' = RemoveFirst(waiting, c)  BY DEF PermissionTimesOut
<1>2. /\ waiting' \in Seq(Calls) /\ IsInjective(waiting')
      /\ ToSet(waiting') = ToSet(waiting) \ {c}
      /\ InOrderOf(waiting', waiting)
    BY <1>1, RemoveFirstProperties DEF WaitersOK, WaitingQueueExact
<1>3. Waiting' = Waiting \ {c}  BY DEF Waiting, PermissionTimesOut, PermitsOK
<1>4. \A i, j \in DOMAIN waiting' : i < j => PriorityOf[waiting'[i]] >= PriorityOf[waiting'[j]]
  <2>1. \A i, j \in DOMAIN waiting : i < j => PriorityOf[waiting[i]] >= PriorityOf[waiting[j]]
      BY DEF WaitersOK, WaitingQueueExact
  <2> QED  BY <1>2, <2>1 DEF InOrderOf
<1>5. WaitingQueueExact'
  <2>1. ToSet(waiting') = Waiting'  BY <1>2, <1>3 DEF WaitersOK, WaitingQueueExact
  <2> QED  BY <1>2, <1>4, <2>1 DEF WaitingQueueExact
<1>6. admitting' \in BOOLEAN  BY DEF PermissionTimesOut, WaitersOK
<1> QED  BY <1>2, <1>5, <1>6 DEF WaitersOK

\* A step that leaves the queue and the set of waiting calls alone.
LEMMA SameWaiters ==
    ASSUME WaitersOK, waiting' = waiting, admitting' \in BOOLEAN,
           \A x \in Calls : permit[x] = "waiting" <=> permit'[x] = "waiting"
    PROVE  WaitersOK'
<1>1. Waiting' = Waiting  BY DEF Waiting
<1> QED  BY <1>1 DEF WaitersOK, WaitingQueueExact

LEMMA PermissionKeepsOrder ==
    ASSUME NEW c \in Calls, PermitsOK, WaitersOK, RequestPermission(c)
    PROVE  WaitersOK'
<1>0. permit[c] = "none" /\ UNCHANGED admitting /\ admitting' \in BOOLEAN
    BY DEF RequestPermission, WaitersOK
<1>1. CASE Grant(c)
  <2>1. \A x \in Calls : permit[x] = "waiting" <=> permit'[x] = "waiting"
      BY <1>0, <1>1 DEF Grant, PermitsOK
  <2> QED  BY <1>0, <1>1, <2>1, SameWaiters DEF Grant
<1>2. CASE Refuse(c)
  <2>1. \A x \in Calls : permit[x] = "waiting" <=> permit'[x] = "waiting"
      BY <1>0, <1>2 DEF Refuse, PermitsOK
  <2> QED  BY <1>0, <1>2, <2>1, SameWaiters DEF Refuse
<1>3. CASE Wait(c)  BY <1>0, <1>3, WaitKeepsOrder
<1> QED  BY <1>1, <1>2, <1>3 DEF RequestPermission

LEMMA NotifyKeepsOrder ==
    ASSUME NEW c \in Calls, PermitsOK, WaitersOK, NotifyRequestComplete(c)
    PROVE  WaitersOK'
<1>1. \A x \in Calls : permit[x] = "waiting" <=> permit'[x] = "waiting"
    BY DEF NotifyRequestComplete, PermitsOK
<1> QED  BY <1>1, SameWaiters DEF NotifyRequestComplete, WaitersOK

-----------------------------------------------------------------------------
(***************************************************************************)
(* The queue, the batch and the calls in execution. A call is started once  *)
(* because a call nobody has made yet is nowhere; a call that joined has a  *)
(* leader because the leader of an endpoint is the one call that is under   *)
(* way there.                                                              *)
(***************************************************************************)
UnderWay == {"attempting", "backoff"}
ExecPhases == {"idle", "starting", "permission", "attempting", "backoff", "joined", "succeeding", "failing"}

QueuesOK ==
    /\ queue \in Seq(Calls) /\ batch \subseteq Calls
    /\ batchTimers \in [Endpoints -> Nat]
    /\ shedding \in BOOLEAN
PhasesOK == phase \in [Calls -> ExecPhases] /\ processing \in Calls \cup {Nobody}
FreshIsIdle == \A c \in Calls : call[c].promise = "none" => phase[c] = "idle" /\ c \notin Queued
StartInv == QueuesOK /\ PhasesOK /\ StartedOnce /\ FreshIsIdle /\ NeverStuck

\* Calls in execution that go on, and calls that are answered, leave what
\* waits to be started alone.
LEMMA GoingOnKeepsStart ==
    ASSUME StartInv, NEW cs \in SUBSET Calls, NEW p \in ExecPhases \ {"idle"},
           \A x \in cs : phase[x] # "idle",
           phase' = Moved(cs, p), call' = call,
           UNCHANGED <<queue, batch, batchTimers, processing, shedding>>
    PROVE  StartInv'
<1> USE DEF StartInv
<1>1. /\ phase' \in [Calls -> ExecPhases]
      /\ \A x \in Calls : phase'[x] = "idle" <=> phase[x] = "idle"
    BY DEF Moved, PhasesOK
<1>2. QueuesOK' /\ PhasesOK'  BY <1>1 DEF QueuesOK, PhasesOK
<1>3. Queued' = Queued /\ Queued \subseteq Calls  BY DEF Queued, QueuesOK, ToSet
<1>4. StartedOnce'  BY <1>1, <1>3 DEF StartedOnce
<1>5. FreshIsIdle'  BY <1>1, <1>3 DEF FreshIsIdle
<1>6. NeverStuck'  BY <1>1 DEF NeverStuck, PhasesOK
<1> QED  BY <1>2, <1>4, <1>5, <1>6

\* Calls leave the queue or the batch without being started: they time out,
\* are cleared, or make room.
LEMMA LeavingKeepsStart ==
    ASSUME StartInv, NEW q \in Seq(Calls), NEW b \in SUBSET batch,
           ToSet(q) \subseteq ToSet(queue), IsInjective(q), queue' = q, batch' = b,
           \A x \in Calls : call'[x].promise = "none" => call[x].promise = "none",
           UNCHANGED <<batchTimers, processing, phase, shedding>>
    PROVE  StartInv'
<1> USE DEF StartInv
<1>1. QueuesOK' /\ PhasesOK'  BY DEF QueuesOK, PhasesOK
<1>2. Queued' \subseteq Queued /\ Queued \subseteq Calls
  <2>1. ToSet(queue) \subseteq Calls  BY DEF QueuesOK, ToSet
  <2>2. Queued' = ToSet(q) \cup b  BY DEF Queued
  <2> QED  BY <2>1, <2>2 DEF Queued, QueuesOK
<1>3. StartedOnce'  BY <1>2 DEF StartedOnce
<1>4. FreshIsIdle'  BY <1>2 DEF FreshIsIdle
<1>5. NeverStuck'  BY DEF NeverStuck
<1> QED  BY <1>1, <1>3, <1>4, <1>5

\* Filter with the elements that stay.
LEMMA WithoutProperties ==
    ASSUME NEW q \in Seq(Calls), IsInjective(q), NEW cs
    PROVE  /\ Without(q, cs) \in Seq(Calls)
           /\ ToSet(Without(q, cs)) = ToSet(q) \ cs
           /\ IsInjective(Without(q, cs))
BY FilterProperties, InOrderInjective DEF Without

LEMMA AnsweredIsMade ==
    ASSUME NEW cs, NEW x \in Calls
    PROVE  Answered(cs)[x].promise = "none" => call[x].promise = "none"
BY DEF Answered

\* The timer of a call, and clearQueue.
LEMMA TimerKeepsStart ==
    ASSUME NEW c \in Calls, CallsOK, StartInv, RequestTimer(c)
    PROVE  StartInv'
<1>1. /\ Without(queue, {c}) \in Seq(Calls)
      /\ ToSet(Without(queue, {c})) \subseteq ToSet(queue)
      /\ IsInjective(Without(queue, {c}))
    BY WithoutProperties DEF StartInv, QueuesOK, StartedOnce
<1>2. \A x \in Calls : call'[x].promise = "none" => call[x].promise = "none"
  <2>1. Answered({c}) \in [Calls -> CallRecords]  BY DEF Answered, CallsOK, CallRecords
  <2>2. \A x \in Calls : call'[x].promise = Answered({c})[x].promise
      BY <2>1 DEF RequestTimer, CallRecords
  <2> QED  BY <2>2, AnsweredIsMade
<1> QED  BY <1>1, <1>2, LeavingKeepsStart DEF RequestTimer, execution

LEMMA ClearKeepsStart ==
    ASSUME StartInv, ClearQueue
    PROVE  StartInv'
<1>1. \A x \in Calls : call'[x].promise = "none" => call[x].promise = "none"
    BY AnsweredIsMade DEF ClearQueue
<1>2. <<>> \in Seq(Calls) /\ ToSet(<<>>) = {} /\ IsInjective(<<>>)
    BY DEF ToSet, IsInjective
<1> QED  BY <1>1, <1>2, LeavingKeepsStart DEF ClearQueue, execution

\* A call that is accepted was nowhere before; a full batch is started, with
\* calls that were in no queue.
LEMMA AcceptKeepsStart ==
    ASSUME NEW c \in Calls, CallsOK, StartInv, call[c].promise = "none",
           NEW cs, Accept(c, cs), UNCHANGED <<processing, shedding>>
    PROVE  StartInv'
<1> DEFINE q == Without(queue, cs)
           b == batch \ cs
           mine == BatchOf(EndpointOf[c], b)
<1>0. EndpointOf[c] \in Endpoints  BY LimiterAssumption
<1>1. /\ q \in Seq(Calls) /\ ToSet(q) = ToSet(queue) \ cs /\ IsInjective(q)
    BY WithoutProperties DEF StartInv, QueuesOK, StartedOnce
<1>2. c \notin Queued /\ phase[c] = "idle" /\ ToSet(queue) \subseteq Calls
    BY DEF StartInv, FreshIsIdle, QueuesOK, ToSet
<1>3. /\ ToSet(q) \cap b = {} /\ c \notin ToSet(q) /\ c \notin b
      /\ ToSet(q) \subseteq Calls /\ b \subseteq Calls
      /\ \A x \in ToSet(q) \cup b : phase[x] = "idle" /\ x \in Queued
      /\ mine \subseteq b
    BY <1>1, <1>2 DEF StartInv, StartedOnce, Queued, QueuesOK, BatchOf
<1>4. /\ call'[c].promise = "pending"
      /\ \A x \in Calls : call'[x].promise = "none" => call[x].promise = "none" /\ x # c
  <2>1. call' = [Answered(cs) EXCEPT ![c] = AcceptedCall]  BY DEF Accept
  <2>2. \A x \in Calls : call'[x] = IF x = c THEN AcceptedCall ELSE Answered(cs)[x]
      BY <2>1 DEF Answered
  <2> QED  BY <2>2, AnsweredIsMade DEF AcceptedCall
<1> HIDE DEF q, b, mine
<1>5. CASE c \in Batchable
  <2>1. AddToBatch(c, q, b)  BY <1>5 DEF Accept, q, b
  <2>2. batchTimers' \in [Endpoints -> Nat] /\ queue' = q
      BY <1>0, <2>1 DEF AddToBatch, StartInv, QueuesOK
  <2>3. CASE batch' = b \ mine /\ phase' = Moved(mine \cup {c}, "starting")
    <3>1. /\ phase' \in [Calls -> ExecPhases]
          /\ \A x \in Calls : phase'[x] = IF x \in mine \cup {c} THEN "starting" ELSE phase[x]
        BY <2>3 DEF Moved, ExecPhases, StartInv, PhasesOK
    <3>2. QueuesOK' /\ PhasesOK'
        BY <1>1, <1>3, <2>2, <2>3, <3>1 DEF StartInv, QueuesOK, PhasesOK
    <3>3. Queued' = ToSet(q) \cup (b \ mine)  BY <2>2, <2>3 DEF Queued
    <3>4. StartedOnce'  BY <1>1, <1>3, <2>2, <2>3, <3>1, <3>3 DEF StartedOnce
    <3>5. FreshIsIdle'
      <4> SUFFICES ASSUME NEW x \in Calls, call'[x].promise = "none"
                   PROVE  phase'[x] = "idle" /\ x \notin Queued'
          BY DEF FreshIsIdle
      <4>1. x # c /\ phase[x] = "idle" /\ x \notin Queued  BY <1>4 DEF StartInv, FreshIsIdle
      <4> QED  BY <1>3, <3>1, <3>3, <4>1
    <3>6. NeverStuck'  BY <3>1 DEF StartInv, NeverStuck, PhasesOK
    <3> QED  BY <3>2, <3>4, <3>5, <3>6 DEF StartInv
  <2>4. CASE batch' = b \cup {c} /\ phase' = phase
    <3>1. QueuesOK' /\ PhasesOK'  BY <1>1, <1>3, <2>2, <2>4 DEF StartInv, QueuesOK, PhasesOK
    <3>2. Queued' = ToSet(q) \cup b \cup {c}  BY <2>2, <2>4 DEF Queued
    <3>3. StartedOnce'  BY <1>1, <1>2, <1>3, <2>2, <2>4, <3>2 DEF StartedOnce
    <3>4. FreshIsIdle'  BY <1>3, <1>4, <2>4, <3>2 DEF StartInv, FreshIsIdle
    <3>5. NeverStuck'  BY <2>4 DEF StartInv, NeverStuck
    <3> QED  BY <3>1, <3>3, <3>4, <3>5 DEF StartInv
  <2> QED  BY <2>1, <2>3, <2>4 DEF AddToBatch, mine
<1>6. CASE c \notin Batchable
  <2>1. AddToQueue(c, q, b)  BY <1>6 DEF Accept, q, b
  <2>2. PlaceFor(c, q, UrgencyOf) \in 1..(Len(q) + 1)
      BY <1>1, ManagerAssumption, PlaceForProperties
  <2>3. /\ queue' \in Seq(Calls) /\ ToSet(queue') = ToSet(q) \cup {c} /\ IsInjective(queue')
      BY <1>1, <1>3, <2>1, <2>2, InsertAtProperties DEF AddToQueue
  <2>4. batch' = b /\ phase' = phase /\ batchTimers' = batchTimers  BY <2>1 DEF AddToQueue
  <2>5. QueuesOK' /\ PhasesOK'  BY <1>3, <2>3, <2>4 DEF StartInv, QueuesOK, PhasesOK
  <2>6. Queued' = ToSet(q) \cup b \cup {c}  BY <2>3, <2>4 DEF Queued
  <2>7. StartedOnce'  BY <1>2, <1>3, <2>3, <2>4, <2>6 DEF StartedOnce
  <2>8. FreshIsIdle'  BY <1>3, <1>4, <2>4, <2>6 DEF StartInv, FreshIsIdle
  <2>9. NeverStuck'  BY <2>4 DEF StartInv, NeverStuck
  <2> QED  BY <2>5, <2>7, <2>8, <2>9 DEF StartInv
<1> QED  BY <1>5, <1>6

LEMMA QueueingKeepsStart ==
    ASSUME NEW c \in Calls, CallsOK, StartInv, QueueRequest(c)
    PROVE  StartInv'
<1>0. call[c].promise = "none" /\ UNCHANGED <<processing, shedding>>
    BY DEF QueueRequest, execution
<1>1. CASE RefuseCall(c)
  <2>1. \A x \in Calls : call'[x].promise = "none" => call[x].promise = "none"
      BY <1>1 DEF RefuseCall, CallsOK, CallRecords
  <2>2. IsInjective(queue) /\ queue \in Seq(Calls)  BY DEF StartInv, StartedOnce, QueuesOK
  <2> QED  BY <1>0, <1>1, <2>1, <2>2, LeavingKeepsStart DEF RefuseCall
<1>2. ASSUME NEW cs, Accept(c, cs)  PROVE StartInv'
    BY <1>0, <1>2, AcceptKeepsStart
<1> QED  BY <1>1, <1>2 DEF QueueRequest

\* The group at the head of the queue, and the batch of an endpoint, are started.
LEMMA ProcessingKeepsStart ==
    ASSUME StartInv, ProcessRequestQueue
    PROVE  StartInv'
<1> DEFINE h == Head(queue)
<1>0. queue \in Seq(Calls) /\ queue # <<>>  BY DEF StartInv, QueuesOK, ProcessRequestQueue
<1>1. /\ h \in ToSet(queue) /\ h \in Calls
      /\ Tail(queue) \in Seq(Calls) /\ IsInjective(Tail(queue))
      /\ ToSet(Tail(queue)) = ToSet(queue) \ {h}
    BY <1>0, TailProperties DEF StartInv, StartedOnce
<1>2. queue' = Tail(queue) /\ batch' = batch /\ processing' = h
    BY DEF ProcessRequestQueue, WithoutHead
<1>3. /\ phase' \in [Calls -> ExecPhases]
      /\ \A x \in Calls : phase'[x] = IF x = h THEN "starting" ELSE phase[x]
    BY DEF ProcessRequestQueue, Moved, ExecPhases, StartInv, PhasesOK
<1> HIDE DEF h
<1>4. QueuesOK' /\ PhasesOK'
    BY <1>1, <1>2, <1>3 DEF ProcessRequestQueue, StartInv, QueuesOK, PhasesOK
<1>5. Queued' = Queued \ {h} /\ Queued \subseteq Calls
  <2>1. ToSet(queue) \subseteq Calls  BY <1>0 DEF ToSet
  <2>2. batch \subseteq Calls /\ ToSet(queue) \cap batch = {}
      BY DEF StartInv, StartedOnce, QueuesOK
  <2> QED  BY <1>1, <1>2, <2>1, <2>2 DEF Queued
<1>6. StartedOnce'  BY <1>1, <1>2, <1>3, <1>5 DEF StartInv, StartedOnce
<1>7. FreshIsIdle'  BY <1>1, <1>3, <1>5 DEF StartInv, FreshIsIdle, ProcessRequestQueue, Queued
<1>8. NeverStuck'  BY <1>1, <1>2, <1>3 DEF NeverStuck
<1> QED  BY <1>4, <1>6, <1>7, <1>8 DEF StartInv

LEMMA BatchKeepsStart ==
    ASSUME NEW e \in Endpoints, StartInv, BatchTimer(e)
    PROVE  StartInv'
<1> DEFINE mine == BatchOf(e, batch)
<1>0. mine \subseteq batch  BY DEF BatchOf
<1>1. /\ phase' \in [Calls -> ExecPhases]
      /\ \A x \in Calls : phase'[x] = IF x \in mine THEN "starting" ELSE phase[x]
    BY DEF BatchTimer, Moved, ExecPhases, StartInv, PhasesOK
<1>2. QueuesOK' /\ PhasesOK'
    BY <1>1 DEF BatchTimer, execution, StartInv, QueuesOK, PhasesOK
<1>3. Queued' = ToSet(queue) \cup (batch \ mine) /\ ToSet(queue) \subseteq Calls
    BY DEF BatchTimer, Queued, StartInv, QueuesOK, ToSet
<1>4. StartedOnce'
  <2>1. IsInjective(queue) /\ ToSet(queue) \cap batch = {} /\ \A x \in Queued : phase[x] = "idle"
      BY DEF StartInv, StartedOnce
  <2>2. queue' = queue /\ batch' = batch \ mine  BY DEF BatchTimer
  <2>3. \A x \in Queued' : x \in Queued /\ x \notin mine /\ x \in Calls
      BY <1>0, <1>3, <2>1 DEF Queued, StartInv, QueuesOK
  <2> HIDE DEF mine
  <2>4. ToSet(queue') \cap batch' = {}  BY <2>1, <2>2
  <2>5. \A x \in Queued' : phase'[x] = "idle"  BY <1>1, <2>1, <2>3
  <2> QED  BY <2>1, <2>2, <2>4, <2>5 DEF StartedOnce
<1>5. FreshIsIdle'
    BY <1>0, <1>1, <1>3 DEF BatchTimer, StartInv, FreshIsIdle, Queued
<1>6. NeverStuck'  BY <1>1 DEF BatchTimer, execution, StartInv, NeverStuck, PhasesOK
<1> QED  BY <1>2, <1>4, <1>5, <1>6 DEF StartInv

\* An execution that ends was not queued; its group may go back to the front.
LEMMA EndKeepsStart ==
    ASSUME NEW c \in Calls, StartInv, Ends(c), phase[c] # "idle",
           queue' = queue \/ queue' = <<c>> \o queue,
           \A x \in Calls : call'[x].promise = "none" => call[x].promise = "none"
    PROVE  StartInv'
<1>1. c \notin Queued  BY DEF StartInv, StartedOnce
<1>2. /\ phase' \in [Calls -> ExecPhases]
      /\ \A x \in Calls : phase'[x] = IF x = c THEN "idle" ELSE phase[x]
    BY DEF Ends, Moved, ExecPhases, StartInv, PhasesOK
<1>3. /\ queue' \in Seq(Calls) /\ IsInjective(queue')
      /\ ToSet(queue') \subseteq ToSet(queue) \cup {c}
  <2>0. queue \in Seq(Calls) /\ IsInjective(queue) /\ c \notin ToSet(queue)
      BY <1>1 DEF StartInv, StartedOnce, QueuesOK, Queued
  <2>1. CASE queue' = queue  BY <2>0, <2>1
  <2>2. CASE queue' = <<c>> \o queue
    <3> DEFINE t == <<c>> \o queue
    <3>1. t \in Seq(Calls) /\ IsInjective(t) /\ ToSet(t) = ToSet(queue) \cup {c}
        BY <2>0, ConsProperties
    <3> HIDE DEF t
    <3>2. queue' = t  BY <2>2 DEF t
    <3> QED  BY <3>1, <3>2
  <2> QED  BY <2>1, <2>2
<1>4. processing' = (IF processing = c THEN Nobody ELSE processing) /\ UNCHANGED <<batch, batchTimers, shedding>>
    BY DEF Ends, Finished
<1>5. QueuesOK' /\ PhasesOK'  BY <1>2, <1>3, <1>4 DEF StartInv, QueuesOK, PhasesOK
<1>6. Queued' \subseteq Queued \cup {c} /\ Queued \subseteq Calls
  <2>1. ToSet(queue) \subseteq Calls  BY DEF StartInv, QueuesOK, ToSet
  <2> QED  BY <1>3, <1>4, <2>1 DEF Queued, StartInv, QueuesOK
<1>7. StartedOnce'
    BY <1>1, <1>2, <1>3, <1>4, <1>6 DEF StartInv, StartedOnce, Queued
<1>8. FreshIsIdle'
  <2> SUFFICES ASSUME NEW x \in Calls, call'[x].promise = "none"
               PROVE  phase'[x] = "idle" /\ x \notin Queued'
      BY DEF FreshIsIdle
  <2>1. phase[x] = "idle" /\ x \notin Queued  BY DEF StartInv, FreshIsIdle
  <2> QED  BY <1>2, <1>6, <2>1
<1>9. NeverStuck'  BY <1>2, <1>4 DEF StartInv, NeverStuck, PhasesOK
<1> QED  BY <1>5, <1>7, <1>8, <1>9 DEF StartInv

-----------------------------------------------------------------------------
(***************************************************************************)
(* The leaders: the call under way for an endpoint, if there is one.       *)
(***************************************************************************)
FlightsOK ==
    /\ attempt \in [Calls -> 0..(MaxRetries + 1)]
    /\ flight \in [Endpoints -> Calls \cup {Nobody}]
    /\ \A c \in Calls : phase[c] = "backoff" => attempt[c] <= MaxRetries
Leaders ==
    /\ \A c \in Calls : phase[c] \in UnderWay => flight[EndpointOf[c]] = c
    /\ \A e \in Endpoints : flight[e] # Nobody =>
            phase[flight[e]] \in UnderWay /\ EndpointOf[flight[e]] = e
LeadInv == FlightsOK /\ Leaders /\ JoinedHasLeader

\* Calls that neither lead nor join, before and after.
Aside == ExecPhases \ (UnderWay \cup {"joined"})

LEMMA AsideKeepsLeaders ==
    ASSUME LeadInv, PhasesOK, phase' \in [Calls -> ExecPhases],
           \A x \in Calls : phase'[x] = phase[x] \/ (phase[x] \in Aside /\ phase'[x] \in Aside),
           UNCHANGED <<attempt, flight>>
    PROVE  LeadInv'
<1>0. Nobody \notin Calls /\ EndpointOf \in [Calls -> Endpoints]
    BY ManagerAssumption, LimiterAssumption
<1>1. \A x \in Calls : /\ phase[x] \in UnderWay <=> phase'[x] \in UnderWay
                       /\ phase[x] = "joined" <=> phase'[x] = "joined"
                       /\ phase[x] = "backoff" <=> phase'[x] = "backoff"
    BY DEF Aside, UnderWay
<1>2. FlightsOK'  BY <1>1 DEF LeadInv, FlightsOK
<1>3. \A e \in Endpoints : flight[e] # Nobody => flight[e] \in Calls
    BY DEF LeadInv, FlightsOK
<1>4. Leaders'  BY <1>0, <1>1, <1>3 DEF LeadInv, Leaders
<1>5. JoinedHasLeader'
  <2> SUFFICES ASSUME NEW x \in Calls, phase'[x] = "joined"
               PROVE  flight[EndpointOf[x]] # Nobody /\ phase'[flight[EndpointOf[x]]] \in UnderWay
      BY DEF JoinedHasLeader, UnderWay
  <2>1. phase[x] = "joined"  BY <1>1
  <2>2. flight[EndpointOf[x]] # Nobody /\ phase[flight[EndpointOf[x]]] \in UnderWay
      BY <2>1 DEF LeadInv, JoinedHasLeader, UnderWay
  <2> QED  BY <1>0, <1>1, <1>3, <2>2
<1> QED  BY <1>2, <1>4, <1>5 DEF LeadInv

\* The promise of a leader settles: nobody is left who waits for it.
LEMMA SettleKeepsLeaders ==
    ASSUME NEW c \in Calls, LeadInv, PhasesOK, phase[c] \in UnderWay,
           NEW p \in Aside, Settle(c, p)
    PROVE  LeadInv'
<1> DEFINE e == EndpointOf[c]
           moved == {c} \cup Joined(e)
<1>0. Nobody \notin Calls /\ EndpointOf \in [Calls -> Endpoints] /\ MaxRetries \in Nat
    BY ManagerAssumption, LimiterAssumption
<1>1. flight[e] = c /\ e \in Endpoints  BY <1>0 DEF LeadInv, Leaders
<1>2. /\ \A x \in Calls : phase'[x] = IF x \in moved THEN p ELSE phase[x]
      /\ phase' \in [Calls -> ExecPhases]
    BY DEF Settle, Moved, PhasesOK, Aside
<1>3. \A x \in Calls : x \in moved <=> x = c \/ (phase[x] = "joined" /\ EndpointOf[x] = e)
    BY DEF Joined
<1> HIDE DEF moved
<1>4. \A x \in Calls : phase'[x] \in UnderWay \cup {"joined"} => phase'[x] = phase[x] /\ EndpointOf[x] # e
  <2> SUFFICES ASSUME NEW x \in Calls, phase'[x] \in UnderWay \cup {"joined"}
               PROVE  phase'[x] = phase[x] /\ EndpointOf[x] # e
      OBVIOUS
  <2>1. x \notin moved /\ phase'[x] = phase[x]  BY <1>2 DEF Aside
  <2>2. x # c /\ ~(phase[x] = "joined" /\ EndpointOf[x] = e)  BY <1>3, <2>1
  <2>3. phase[x] \in UnderWay => flight[EndpointOf[x]] = x  BY DEF LeadInv, Leaders
  <2> QED  BY <1>1, <2>1, <2>2, <2>3
<1>5. /\ attempt' \in [Calls -> 0..(MaxRetries + 1)]
      /\ \A x \in Calls : x # c => attempt'[x] = attempt[x]
    BY <1>0 DEF Settle, LeadInv, FlightsOK
<1>6. /\ flight' \in [Endpoints -> Calls \cup {Nobody}]
      /\ \A f \in Endpoints : flight'[f] = IF f = e THEN Nobody ELSE flight[f]
    BY DEF Settle, LeadInv, FlightsOK
<1> HIDE DEF e
<1>7. FlightsOK'
  <2>1. ASSUME NEW x \in Calls, phase'[x] = "backoff"  PROVE attempt'[x] <= MaxRetries
    <3>1. phase[x] = "backoff" /\ x # c  BY <1>4, <2>1 DEF UnderWay, e
    <3> QED  BY <1>5, <3>1 DEF LeadInv, FlightsOK
  <2> QED  BY <1>5, <1>6, <2>1 DEF FlightsOK
<1>8. Leaders'
  <2>1. ASSUME NEW x \in Calls, phase'[x] \in UnderWay  PROVE flight'[EndpointOf[x]] = x
    <3>1. phase[x] \in UnderWay /\ EndpointOf[x] # e /\ EndpointOf[x] \in Endpoints
        BY <1>0, <1>4, <2>1
    <3> QED  BY <1>6, <3>1 DEF LeadInv, Leaders
  <2>2. ASSUME NEW f \in Endpoints, flight'[f] # Nobody
        PROVE  phase'[flight'[f]] \in UnderWay /\ EndpointOf[flight'[f]] = f
    <3>1. f # e /\ flight'[f] = flight[f] /\ flight[f] \in Calls
        BY <1>6, <2>2 DEF LeadInv, FlightsOK
    <3>2. phase[flight[f]] \in UnderWay /\ EndpointOf[flight[f]] = f
        BY <2>2, <3>1 DEF LeadInv, Leaders
    <3>3. flight[f] \notin moved
        BY <1>3, <3>1, <3>2 DEF UnderWay, e
    <3> QED  BY <1>2, <3>1, <3>2, <3>3
  <2> QED  BY <2>1, <2>2 DEF Leaders
<1>9. JoinedHasLeader'
  <2> SUFFICES ASSUME NEW x \in Calls, phase'[x] = "joined"
               PROVE  flight'[EndpointOf[x]] # Nobody /\ phase'[flight'[EndpointOf[x]]] \in UnderWay
      BY DEF JoinedHasLeader, UnderWay
  <2>1. phase[x] = "joined" /\ EndpointOf[x] # e /\ EndpointOf[x] \in Endpoints
      BY <1>0, <1>4
  <2>2. flight[EndpointOf[x]] # Nobody  BY <2>1 DEF LeadInv, JoinedHasLeader
  <2> QED  BY <1>6, <1>8, <2>1, <2>2 DEF Leaders
<1> QED  BY <1>7, <1>8, <1>9 DEF LeadInv

\* A leader that goes on remains the leader.
LEMMA LeaderGoesOn ==
    ASSUME NEW c \in Calls, LeadInv, PhasesOK, phase[c] \in UnderWay,
           NEW p \in UnderWay, phase' = Moved({c}, p), flight' = flight,
           attempt' \in [Calls -> 0..(MaxRetries + 1)],
           \A x \in Calls : x # c => attempt'[x] = attempt[x],
           p = "backoff" => attempt'[c] <= MaxRetries
    PROVE  LeadInv'
<1>0. Nobody \notin Calls /\ EndpointOf \in [Calls -> Endpoints]
    BY ManagerAssumption, LimiterAssumption
<1>1. \A x \in Calls : phase'[x] = IF x = c THEN p ELSE phase[x]
    BY DEF Moved
<1>2. \A x \in Calls : /\ phase[x] \in UnderWay <=> phase'[x] \in UnderWay
                       /\ phase[x] = "joined" <=> phase'[x] = "joined"
    BY <1>1 DEF UnderWay
<1>3. FlightsOK'  BY <1>1 DEF LeadInv, FlightsOK
<1>4. \A e \in Endpoints : flight[e] # Nobody => flight[e] \in Calls
    BY DEF LeadInv, FlightsOK
<1>5. Leaders'  BY <1>0, <1>2, <1>4 DEF LeadInv, Leaders
<1>6. JoinedHasLeader'
  <2> SUFFICES ASSUME NEW x \in Calls, phase'[x] = "joined"
               PROVE  flight[EndpointOf[x]] # Nobody /\ phase'[flight[EndpointOf[x]]] \in UnderWay
      BY DEF JoinedHasLeader, UnderWay
  <2>1. phase[x] = "joined"  BY <1>2
  <2>2. flight[EndpointOf[x]] # Nobody /\ phase[flight[EndpointOf[x]]] \in UnderWay
      BY <2>1 DEF LeadInv, JoinedHasLeader, UnderWay
  <2> QED  BY <1>0, <1>2, <1>4, <2>2
<1> QED  BY <1>3, <1>5, <1>6 DEF LeadInv

\* A call that is admitted fails, joins the leader, or becomes the leader of an
\* endpoint that has none.
LEMMA ExecuteKeepsLeaders ==
    ASSUME NEW c \in Calls, LeadInv, PhasesOK, ExecuteWithRetry(c)
    PROVE  LeadInv'
<1> DEFINE e == EndpointOf[c]
<1>0. Nobody \notin Calls /\ EndpointOf \in [Calls -> Endpoints] /\ MaxRetries \in Nat /\ e \in Endpoints
    BY ManagerAssumption, LimiterAssumption
<1>1. phase[c] = "permission"  BY DEF ExecuteWithRetry
<1>2. CASE phase' = Moved({c}, "failing") /\ UNCHANGED <<attempt, flight>>
  <2>1. phase' \in [Calls -> ExecPhases]
      BY <1>2 DEF Moved, PhasesOK, ExecPhases
  <2>2. \A x \in Calls : phase'[x] = phase[x] \/ (phase[x] \in Aside /\ phase'[x] \in Aside)
      BY <1>1, <1>2 DEF Moved, Aside, UnderWay, ExecPhases
  <2> QED  BY <1>2, <2>1, <2>2, AsideKeepsLeaders
<1>3. CASE phase' = Moved({c}, "joined") /\ flight[e] # Nobody /\ UNCHANGED <<attempt, flight>>
  <2>1. \A x \in Calls : phase'[x] = IF x = c THEN "joined" ELSE phase[x]
      BY <1>3 DEF Moved
  <2>2. \A x \in Calls : phase[x] \in UnderWay <=> phase'[x] \in UnderWay
      BY <1>1, <2>1 DEF UnderWay
  <2>3. \A f \in Endpoints : flight[f] # Nobody => flight[f] \in Calls
      BY DEF LeadInv, FlightsOK
  <2>4. FlightsOK'  BY <1>3, <2>1 DEF LeadInv, FlightsOK
  <2>5. Leaders'  BY <1>0, <1>3, <2>2, <2>3 DEF LeadInv, Leaders
  <2>6. JoinedHasLeader'
    <3> SUFFICES ASSUME NEW x \in Calls, phase'[x] = "joined"
                 PROVE  flight[EndpointOf[x]] # Nobody /\ phase'[flight[EndpointOf[x]]] \in UnderWay
        BY <1>3 DEF JoinedHasLeader, UnderWay
    <3>1. flight[EndpointOf[x]] # Nobody
      <4>1. CASE x = c  BY <1>3, <4>1
      <4>2. CASE x # c  BY <2>1, <4>2 DEF LeadInv, JoinedHasLeader
      <4> QED  BY <4>1, <4>2
    <3>2. EndpointOf[x] \in Endpoints  BY <1>0
    <3> QED  BY <1>3, <2>5, <3>1, <3>2 DEF Leaders
  <2> QED  BY <2>4, <2>5, <2>6 DEF LeadInv
<1>4. CASE /\ phase' = Moved({c}, "attempting") /\ flight[e] = Nobody
           /\ attempt' = [attempt EXCEPT ![c] = 1] /\ flight' = [flight EXCEPT ![e] = c]
  <2>1. \A x \in Calls : phase'[x] = IF x = c THEN "attempting" ELSE phase[x]
      BY <1>4 DEF Moved
  <2>2. /\ \A f \in Endpoints : flight'[f] = IF f = e THEN c ELSE flight[f]
        /\ flight' \in [Endpoints -> Calls \cup {Nobody}]
      BY <1>4 DEF LeadInv, FlightsOK
  <2>3. FlightsOK'
    <3>1. attempt' \in [Calls -> 0..(MaxRetries + 1)]  BY <1>0, <1>4 DEF LeadInv, FlightsOK
    <3>2. \A x \in Calls : x # c => attempt'[x] = attempt[x]  BY <1>4 DEF LeadInv, FlightsOK
    <3> QED  BY <2>1, <2>2, <3>1, <3>2 DEF LeadInv, FlightsOK
  <2> HIDE DEF e
  <2>4. Leaders'
    <3>1. ASSUME NEW x \in Calls, phase'[x] \in UnderWay  PROVE flight'[EndpointOf[x]] = x
      <4>1. CASE x = c  BY <1>0, <2>2, <4>1 DEF e
      <4>2. CASE x # c
        <5>1. phase[x] \in UnderWay /\ flight[EndpointOf[x]] = x  BY <2>1, <3>1, <4>2 DEF LeadInv, Leaders
        <5>2. EndpointOf[x] # e  BY <1>0, <1>4, <5>1
        <5> QED  BY <1>0, <2>2, <5>1, <5>2
      <4> QED  BY <4>1, <4>2
    <3>2. ASSUME NEW f \in Endpoints, flight'[f] # Nobody
          PROVE  phase'[flight'[f]] \in UnderWay /\ EndpointOf[flight'[f]] = f
      <4>1. CASE f = e  BY <2>1, <2>2, <4>1 DEF e, UnderWay
      <4>2. CASE f # e
        <5>1. flight'[f] = flight[f] /\ flight[f] \in Calls /\ flight[f] # Nobody
            BY <2>2, <3>2, <4>2
        <5>2. phase[flight[f]] \in UnderWay /\ EndpointOf[flight[f]] = f
            BY <5>1 DEF LeadInv, Leaders
        <5> QED  BY <1>1, <2>1, <5>1, <5>2 DEF UnderWay
      <4> QED  BY <4>1, <4>2
    <3> QED  BY <3>1, <3>2 DEF Leaders
  <2>5. JoinedHasLeader'
    <3> SUFFICES ASSUME NEW x \in Calls, phase'[x] = "joined"
                 PROVE  flight'[EndpointOf[x]] # Nobody /\ phase'[flight'[EndpointOf[x]]] \in UnderWay
        BY DEF JoinedHasLeader, UnderWay
    <3>1. phase[x] = "joined" /\ EndpointOf[x] \in Endpoints  BY <1>0, <2>1
    <3>2. flight[EndpointOf[x]] # Nobody  BY <3>1 DEF LeadInv, JoinedHasLeader
    <3>3. flight'[EndpointOf[x]] # Nobody  BY <1>0, <2>2, <3>1, <3>2
    <3> QED  BY <2>4, <3>1, <3>3 DEF Leaders
  <2> QED  BY <2>3, <2>4, <2>5 DEF LeadInv
<1> QED  BY <1>2, <1>3, <1>4 DEF ExecuteWithRetry

-----------------------------------------------------------------------------
LEMMA InitAccount == Init => AccountInv
<1> SUFFICES ASSUME Init  PROVE AccountInv  OBVIOUS
<1>0. GroupRetries \in Nat /\ ThreadLimit \in Nat  BY ManagerAssumption, LimiterAssumption
<1>1. PermitsOK  BY <1>0 DEF Init, LimiterInit, PermitsOK, Permits
<1>2. CallsOK /\ WaiterHasTimer
    BY <1>0 DEF Init, NewCall, CallsOK, CallRecords, WaiterHasTimer
<1>3. ThreadsAccounted
  <2> SUFFICES ASSUME NEW e \in Endpoints  PROVE threads[e] <= Cardinality(Running(e))
      BY DEF ThreadsAccounted
  <2> QED  BY RunningFinite DEF Init, LimiterInit
<1> QED  BY <1>1, <1>2, <1>3 DEF AccountInv

\* The steps of one call.
LEMMA ContinueKeepsAccount ==
    ASSUME NEW c \in Calls, AccountInv, Continue(c)
    PROVE  AccountInv'
<1> USE DEF AccountInv
<1>1. CASE Begin(c)
    BY <1>1, PermissionKeepsAccount, SameCalls DEF Begin, outside
<1>2. CASE PermissionRefused(c)
    BY <1>2, SameLimiter, SameCalls DEF PermissionRefused, outside, limiterVars
<1>3. CASE ExecuteWithRetry(c)
    BY <1>3, SameLimiter, SameCalls DEF ExecuteWithRetry, outside, limiterVars
<1>4. CASE AttemptSucceeds(c)
    BY <1>4, SameLimiter, SameCalls DEF AttemptSucceeds, outside, limiterVars
<1>5. CASE \E transient \in BOOLEAN : AttemptFails(c, transient)
    BY <1>5, SameLimiter, SameCalls DEF AttemptFails, outside, limiterVars
<1>6. CASE BackoffEnds(c)
    BY <1>6, SameLimiter, SameCalls DEF BackoffEnds, outside, limiterVars
<1>7. CASE Succeed(c)
    BY <1>7, NotifyKeepsAccount, AnsweringKeepsTimers DEF Succeed, Ends
<1>8. CASE Fail(c)
    BY <1>8, NotifyKeepsAccount, FailKeepsTimers DEF Fail, Ends
<1>9. CASE LimiterStep(PermissionTimesOut(c))
    BY <1>9, TimeoutKeepsAccount, SameCalls DEF LimiterStep, managerVars
<1> QED  BY <1>1, <1>2, <1>3, <1>4, <1>5, <1>6, <1>7, <1>8, <1>9 DEF Continue

LEMMA NextKeepsAccount == AccountInv /\ [Next]_vars => AccountInv'
<1> SUFFICES ASSUME AccountInv, [Next]_vars  PROVE AccountInv'  OBVIOUS
<1> USE DEF AccountInv
<1>1. CASE \E c \in Calls : QueueRequest(c)
    BY <1>1, SameLimiter, QueueingKeepsTimers DEF QueueRequest, limiterVars
<1>2. CASE \E c \in Calls : RequestTimer(c)
    BY <1>2, SameLimiter, TimerKeepsTimers DEF RequestTimer, limiterVars
<1>3. CASE \E c \in Calls : Continue(c)
    BY <1>3, ContinueKeepsAccount
<1>4. CASE ProcessRequestQueue
    BY <1>4, SameLimiter, SameCalls DEF ProcessRequestQueue, limiterVars
<1>5. CASE \E e \in Endpoints : BatchTimer(e)
    BY <1>5, SameLimiter, SameCalls DEF BatchTimer, limiterVars
<1>6. CASE ClearQueue
  <2>1. PICK reject \in BOOLEAN : call' = Answered(IF reject THEN Queued ELSE {})
      BY <1>6 DEF ClearQueue
  <2>2. call' = Answered((IF reject THEN Queued ELSE {}) \cap Calls)
      BY <2>1 DEF Answered
  <2> QED  BY <1>6, <2>2, SameLimiter, AnsweringKeepsTimers DEF ClearQueue, limiterVars
<1>7. CASE HealthTick
    BY <1>7, SameLimiter, SameCalls DEF HealthTick, limiterVars
<1>8. CASE LimiterStep(AllowanceChanges)
    BY <1>8, SameLimiter, SameCalls DEF LimiterStep, AllowanceChanges, managerVars
<1>9. CASE \E e \in Endpoints : RecoveryDue(e)
    BY <1>9, SameLimiter, SameCalls DEF RecoveryDue, limiterVars, outside
<1>10. CASE \E e \in Endpoints : FailureAges(e)
    BY <1>10, SameLimiter, SameCalls DEF FailureAges, limiterVars, outside
<1>11. CASE UNCHANGED vars
    BY <1>11, SameLimiter, SameCalls DEF vars
<1> QED  BY <1>1, <1>2, <1>3, <1>4, <1>5, <1>6, <1>7, <1>8, <1>9, <1>10, <1>11 DEF Next

-----------------------------------------------------------------------------
IInv == AccountInv /\ WaitersOK /\ StartInv /\ LeadInv

LEMMA InitIInv == Init => IInv
<1> SUFFICES ASSUME Init  PROVE IInv  OBVIOUS
<1>0. Nobody \notin Calls /\ MaxRetries \in Nat  BY ManagerAssumption
<1>1. <<>> \in Seq(Calls) /\ IsInjective(<<>>) /\ ToSet(<<>>) = {} /\ DOMAIN <<>> = {}
    BY DEF IsInjective, ToSet
<1>2. WaitersOK
  <2>1. Waiting = {}  BY DEF Init, LimiterInit, Waiting
  <2> QED  BY <1>1, <2>1 DEF Init, LimiterInit, WaitersOK, WaitingQueueExact
<1>3. Queued = {}  BY <1>1 DEF Init, Queued
<1>4. StartInv
    BY <1>1, <1>3 DEF Init, StartInv, QueuesOK, PhasesOK, ExecPhases, StartedOnce, FreshIsIdle, NeverStuck
<1>5. LeadInv
    BY <1>0 DEF Init, LeadInv, FlightsOK, Leaders, JoinedHasLeader, UnderWay
<1> QED  BY <1>2, <1>4, <1>5, InitAccount DEF IInv

\* A step that does not touch what waits or runs.
LEMMA SameExecution ==
    ASSUME StartInv, LeadInv, UNCHANGED <<queue, batch, batchTimers, processing, call, phase, attempt, flight>>,
           shedding' \in BOOLEAN
    PROVE  StartInv' /\ LeadInv'
<1>1. Queued' = Queued  BY DEF Queued
<1>2. StartInv'
    BY <1>1 DEF StartInv, QueuesOK, PhasesOK, StartedOnce, FreshIsIdle, NeverStuck
<1>3. LeadInv'
    BY DEF LeadInv, FlightsOK, Leaders, JoinedHasLeader
<1> QED  BY <1>2, <1>3

\* Calls that were not under way are moved to where they are not either.
LEMMA MovedAside ==
    ASSUME LeadInv, PhasesOK, NEW cs, NEW p \in Aside, \A x \in Calls : x \in cs => phase[x] \in Aside,
           phase' = Moved(cs, p), UNCHANGED <<attempt, flight>>
    PROVE  LeadInv'
<1>1. /\ phase' \in [Calls -> ExecPhases]
      /\ \A x \in Calls : phase'[x] = phase[x] \/ (phase[x] \in Aside /\ phase'[x] \in Aside)
    BY DEF Moved, PhasesOK, Aside
<1> QED  BY <1>1, AsideKeepsLeaders

LEMMA SamePermits ==
    ASSUME WaitersOK, UNCHANGED <<permit, waiting, admitting>>
    PROVE  WaitersOK'
BY SameWaiters DEF WaitersOK

\* The steps of one call.
LEMMA ContinueKeepsIInv ==
    ASSUME NEW c \in Calls, IInv, Continue(c)
    PROVE  IInv'
<1> SUFFICES WaitersOK' /\ StartInv' /\ LeadInv'
    BY ContinueKeepsAccount DEF IInv
<1>0. /\ PermitsOK /\ CallsOK /\ WaitersOK /\ StartInv /\ PhasesOK /\ LeadInv
      /\ phase[c] \in ExecPhases /\ {c} \in SUBSET Calls
    BY DEF IInv, AccountInv, StartInv, PhasesOK
<1>1. CASE Begin(c)
  <2>1. phase[c] \in Aside /\ phase[c] # "idle"  BY <1>1 DEF Begin, Aside, ExecPhases, UnderWay
  <2>2. "permission" \in Aside /\ "permission" \in ExecPhases \ {"idle"}
      BY DEF Aside, ExecPhases, UnderWay
  <2>3. WaitersOK'  BY <1>0, <1>1, PermissionKeepsOrder DEF Begin
  <2>4. StartInv'  BY <1>0, <1>1, <2>1, <2>2, GoingOnKeepsStart DEF Begin, outside
  <2>5. LeadInv'  BY <1>0, <1>1, <2>1, <2>2, MovedAside DEF Begin
  <2> QED  BY <2>3, <2>4, <2>5
<1>2. CASE PermissionRefused(c)
  <2>1. phase[c] \in Aside /\ phase[c] # "idle"  BY <1>2 DEF PermissionRefused, Aside, ExecPhases, UnderWay
  <2>2. "failing" \in Aside /\ "failing" \in ExecPhases \ {"idle"}
      BY DEF Aside, ExecPhases, UnderWay
  <2>3. WaitersOK'  BY <1>0, <1>2, SamePermits DEF PermissionRefused, limiterVars
  <2>4. StartInv'  BY <1>0, <1>2, <2>1, <2>2, GoingOnKeepsStart DEF PermissionRefused, outside
  <2>5. LeadInv'  BY <1>0, <1>2, <2>1, <2>2, MovedAside DEF PermissionRefused
  <2> QED  BY <2>3, <2>4, <2>5
<1>3. CASE ExecuteWithRetry(c)
  <2>1. phase[c] # "idle" /\ UNCHANGED <<permit, waiting, admitting, queue, batch, batchTimers, processing, call, shedding>>
      BY <1>3 DEF ExecuteWithRetry, outside, limiterVars
  <2>2. PICK p \in {"failing", "joined", "attempting"} : phase' = Moved({c}, p)
      BY <1>3 DEF ExecuteWithRetry
  <2>3. p \in ExecPhases \ {"idle"}  BY DEF ExecPhases
  <2>4. StartInv'  BY <1>0, <2>1, <2>2, <2>3, GoingOnKeepsStart
  <2> QED  BY <1>0, <1>3, <2>1, <2>4, ExecuteKeepsLeaders, SamePermits
<1>4. ASSUME NEW p \in {"succeeding", "failing"}, phase[c] \in UnderWay, Settle(c, p),
             UNCHANGED <<limiterVars, outside>>
      PROVE  WaitersOK' /\ StartInv' /\ LeadInv'
  <2>1. p \in Aside /\ p \in ExecPhases \ {"idle"}  BY DEF Aside, ExecPhases, UnderWay
  <2> DEFINE moved == {c} \cup Joined(EndpointOf[c])
  <2>2. /\ moved \in SUBSET Calls /\ phase' = Moved(moved, p)
        /\ \A x \in moved : phase[x] # "idle"
      BY <1>4 DEF Joined, Settle, UnderWay
  <2> HIDE DEF moved
  <2>3. StartInv'  BY <1>0, <1>4, <2>1, <2>2, GoingOnKeepsStart DEF outside
  <2>4. LeadInv'  BY <1>0, <1>4, <2>1, SettleKeepsLeaders
  <2> QED  BY <1>0, <1>4, <2>3, <2>4, SamePermits DEF limiterVars
<1>5. ASSUME NEW p \in UnderWay, phase[c] \in UnderWay, phase' = Moved({c}, p), flight' = flight,
             attempt' = attempt \/ (p = "attempting" /\ phase[c] = "backoff" /\ attempt' = [attempt EXCEPT ![c] = @ + 1]),
             p = "backoff" => attempt' = attempt /\ attempt[c] <= MaxRetries,
             UNCHANGED <<limiterVars, outside>>
      PROVE  WaitersOK' /\ StartInv' /\ LeadInv'
  <2>0. MaxRetries \in Nat  BY ManagerAssumption
  <2>1. p \in ExecPhases \ {"idle"} /\ phase[c] # "idle"  BY <1>5 DEF ExecPhases, UnderWay
  <2>2. StartInv'  BY <1>0, <1>5, <2>1, GoingOnKeepsStart DEF outside
  <2>3. /\ attempt' \in [Calls -> 0..(MaxRetries + 1)]
        /\ \A x \in Calls : x # c => attempt'[x] = attempt[x]
        /\ p = "backoff" => attempt'[c] <= MaxRetries
    <3>1. attempt \in [Calls -> 0..(MaxRetries + 1)]  BY <1>0 DEF LeadInv, FlightsOK
    <3>2. CASE attempt' = attempt  BY <1>5, <3>1, <3>2
    <3>3. CASE p = "attempting" /\ phase[c] = "backoff" /\ attempt' = [attempt EXCEPT ![c] = @ + 1]
      <4>1. attempt[c] \in 0..MaxRetries  BY <1>0, <3>1, <3>3 DEF LeadInv, FlightsOK
      <4>2. attempt[c] + 1 \in 0..(MaxRetries + 1)  BY <2>0, <4>1
      <4> QED  BY <3>1, <3>3, <4>2
    <3> QED  BY <1>5, <3>2, <3>3
  <2>4. LeadInv'  BY <1>0, <1>5, <2>3, LeaderGoesOn
  <2> QED  BY <1>0, <1>5, <2>2, <2>4, SamePermits DEF limiterVars
<1>6. CASE AttemptSucceeds(c)
    BY <1>4, <1>6 DEF AttemptSucceeds, UnderWay
<1>7. CASE \E transient \in BOOLEAN : AttemptFails(c, transient)
  <2>1. phase[c] \in UnderWay /\ UNCHANGED <<limiterVars, outside>>
      BY <1>7 DEF AttemptFails, UnderWay
  <2>2. \/ Settle(c, "failing")
        \/ attempt[c] <= MaxRetries /\ phase' = Moved({c}, "backoff") /\ UNCHANGED <<attempt, flight>>
      BY <1>7 DEF AttemptFails
  <2>3. "failing" \in {"succeeding", "failing"} /\ "backoff" \in UnderWay  BY DEF UnderWay
  <2> QED  BY <1>4, <1>5, <2>1, <2>2, <2>3
<1>8. CASE BackoffEnds(c)
  <2>1. phase[c] = "backoff" /\ phase[c] \in UnderWay /\ UNCHANGED <<limiterVars, outside>>
      BY <1>8 DEF BackoffEnds, UnderWay
  <2>2. \/ Settle(c, "failing")
        \/ /\ phase' = Moved({c}, "attempting") /\ flight' = flight
           /\ attempt' = [attempt EXCEPT ![c] = @ + 1]
      BY <1>8 DEF BackoffEnds
  <2>3. "failing" \in {"succeeding", "failing"} /\ "attempting" \in UnderWay  BY DEF UnderWay
  <2> QED  BY <1>4, <1>5, <2>1, <2>2, <2>3
<1>9. ASSUME phase[c] \in {"succeeding", "failing"}, Ends(c), queue' = queue \/ queue' = <<c>> \o queue,
             call' = Answered({c}) \/ call' = [call EXCEPT ![c].retries = @ + 1]
      PROVE  WaitersOK' /\ StartInv' /\ LeadInv'
  <2>1. \A x \in Calls : call'[x].promise = "none" => call[x].promise = "none"
    <3>1. CASE call' = Answered({c})  BY <3>1, AnsweredIsMade
    <3>2. CASE call' = [call EXCEPT ![c].retries = @ + 1]
      <4>1. \A x \in Calls : call'[x].promise = call[x].promise
          BY <1>0, <3>2 DEF CallsOK, CallRecords
      <4> QED  BY <4>1
    <3> QED  BY <1>9, <3>1, <3>2
  <2>2. StartInv'  BY <1>0, <1>9, <2>1, EndKeepsStart
  <2>3. phase[c] \in Aside /\ "idle" \in Aside  BY <1>9 DEF Aside, ExecPhases, UnderWay
  <2>4. LeadInv'  BY <1>0, <1>9, <2>3, MovedAside DEF Ends
  <2>5. WaitersOK'  BY <1>0, <1>9, NotifyKeepsOrder DEF Ends
  <2> QED  BY <2>2, <2>4, <2>5
<1>10. CASE Succeed(c)
    BY <1>9, <1>10 DEF Succeed
<1>11. CASE Fail(c)
    BY <1>9, <1>11 DEF Fail
<1>12. CASE LimiterStep(PermissionTimesOut(c))
  <2>1. UNCHANGED managerVars /\ PermissionTimesOut(c)  BY <1>12 DEF LimiterStep
  <2>2. shedding' \in BOOLEAN  BY <1>0, <2>1 DEF managerVars, StartInv, QueuesOK
  <2>3. StartInv' /\ LeadInv'  BY <1>0, <2>1, <2>2, SameExecution DEF managerVars
  <2> QED  BY <1>0, <2>1, <2>3, TimeoutKeepsOrder
<1> QED  BY <1>1, <1>2, <1>3, <1>6, <1>7, <1>8, <1>10, <1>11, <1>12 DEF Continue

LEMMA NextKeepsIInv == IInv /\ [Next]_vars => IInv'
<1> SUFFICES ASSUME IInv, [Next]_vars  PROVE WaitersOK' /\ StartInv' /\ LeadInv'
    BY NextKeepsAccount DEF IInv
<1>0. PermitsOK /\ CallsOK /\ WaitersOK /\ StartInv /\ PhasesOK /\ LeadInv
    BY DEF IInv, AccountInv, StartInv
<1> DEFINE Kept == WaitersOK' /\ StartInv' /\ LeadInv'
<1>1. ASSUME NEW c \in Calls, QueueRequest(c)  PROVE Kept
  <2>1. StartInv' /\ WaitersOK'
      BY <1>0, <1>1, QueueingKeepsStart, SamePermits DEF QueueRequest, limiterVars
  <2>2. UNCHANGED <<attempt, flight>>  BY <1>1 DEF QueueRequest, execution
  <2>3. LeadInv'
    <3>1. "starting" \in Aside  BY DEF Aside, ExecPhases, UnderWay
    <3>2. CASE phase' = phase
      <4>1. phase' \in [Calls -> ExecPhases]  BY <1>0, <3>2 DEF PhasesOK
      <4> QED  BY <1>0, <2>2, <3>2, <4>1, AsideKeepsLeaders
    <3>3. ASSUME NEW cs, Accept(c, cs), phase' # phase  PROVE LeadInv'
      <4> DEFINE mine == BatchOf(EndpointOf[c], batch \ cs)
      <4>1. phase' = Moved(mine \cup {c}, "starting") /\ mine \subseteq batch
          BY <3>3 DEF Accept, AddToBatch, AddToQueue, BatchOf
      <4> HIDE DEF mine
      <4>2. phase[c] = "idle" /\ \A x \in batch : phase[x] = "idle"
          BY <1>0, <1>1 DEF QueueRequest, StartInv, FreshIsIdle, StartedOnce, Queued
      <4>3. \A x \in Calls : x \in mine \cup {c} => phase[x] \in Aside
          BY <4>1, <4>2 DEF Aside, ExecPhases, UnderWay
      <4> QED  BY <1>0, <2>2, <3>1, <4>1, <4>3, MovedAside
    <3> QED  BY <1>1, <3>2, <3>3 DEF QueueRequest, RefuseCall
  <2> QED  BY <2>1, <2>3
<1>2. ASSUME UNCHANGED <<phase, attempt, flight>>  PROVE LeadInv'
  <2>1. phase' \in [Calls -> ExecPhases]  BY <1>0, <1>2 DEF PhasesOK
  <2> QED  BY <1>0, <1>2, <2>1, AsideKeepsLeaders
<1>3. CASE \E c \in Calls : RequestTimer(c)
    BY <1>0, <1>2, <1>3, TimerKeepsStart, SamePermits DEF RequestTimer, limiterVars, execution
<1>4. CASE \E c \in Calls : Continue(c)
    BY <1>4, ContinueKeepsIInv DEF IInv
<1>5. CASE ProcessRequestQueue
  <2>1. Head(queue) \in Queued
    <3>1. queue \in Seq(Calls) /\ queue # <<>> /\ IsInjective(queue)
        BY <1>0, <1>5 DEF ProcessRequestQueue, StartInv, QueuesOK, StartedOnce
    <3>2. Head(queue) \in ToSet(queue)  BY <3>1, TailProperties
    <3> QED  BY <3>2 DEF Queued
  <2>2. phase[Head(queue)] \in Aside /\ "starting" \in Aside
      BY <1>0, <2>1 DEF StartInv, StartedOnce, Aside, ExecPhases, UnderWay
  <2>3. \A x \in Calls : x \in {Head(queue)} => phase[x] \in Aside  BY <2>2
  <2>4. LeadInv'  BY <1>0, <1>5, <2>2, <2>3, MovedAside DEF ProcessRequestQueue
  <2> QED  BY <1>0, <1>5, <2>4, ProcessingKeepsStart, SamePermits DEF ProcessRequestQueue, limiterVars
<1>6. ASSUME NEW e \in Endpoints, BatchTimer(e)  PROVE Kept
  <2>1. \A x \in Calls : x \in BatchOf(e, batch) => phase[x] \in Aside
      BY <1>0 DEF StartInv, StartedOnce, Queued, BatchOf, Aside, ExecPhases, UnderWay
  <2>2. "starting" \in Aside  BY DEF Aside, ExecPhases, UnderWay
  <2>3. LeadInv'  BY <1>0, <1>6, <2>1, <2>2, MovedAside DEF BatchTimer, execution
  <2> QED  BY <1>0, <1>6, <2>3, BatchKeepsStart, SamePermits DEF BatchTimer, limiterVars
<1>7. CASE ClearQueue
    BY <1>0, <1>2, <1>7, ClearKeepsStart, SamePermits DEF ClearQueue, limiterVars, execution
<1>8. CASE HealthTick
  <2>1. shedding' \in BOOLEAN  BY <1>8 DEF HealthTick
  <2> QED  BY <1>0, <1>8, <2>1, SameExecution, SamePermits DEF HealthTick, limiterVars, execution
<1>9. CASE LimiterStep(AllowanceChanges)
  <2>1. UNCHANGED managerVars /\ UNCHANGED <<permit, waiting>> /\ admitting' \in BOOLEAN
      BY <1>9 DEF LimiterStep, AllowanceChanges
  <2>2. shedding' \in BOOLEAN  BY <1>0, <2>1 DEF managerVars, StartInv, QueuesOK
  <2>3. StartInv' /\ LeadInv'  BY <1>0, <2>1, <2>2, SameExecution DEF managerVars
  <2>4. WaitersOK'  BY <1>0, <2>1, SameWaiters
  <2> QED  BY <2>3, <2>4
<1>10. CASE \E e \in Endpoints : RecoveryDue(e) \/ FailureAges(e)
  <2>1. UNCHANGED <<limiterVars, outside, phase, attempt, flight>>
      BY <1>10 DEF RecoveryDue, FailureAges
  <2>2. shedding' \in BOOLEAN  BY <1>0, <2>1 DEF outside, StartInv, QueuesOK
  <2> QED  BY <1>0, <2>1, <2>2, SameExecution, SamePermits DEF outside, limiterVars
<1>11. CASE UNCHANGED vars
  <2>1. shedding' \in BOOLEAN  BY <1>0, <1>11 DEF vars, StartInv, QueuesOK
  <2> QED  BY <1>0, <1>11, <2>1, SameExecution, SamePermits DEF vars
<1> QED  BY <1>1, <1>3, <1>4, <1>5, <1>6, <1>7, <1>8, <1>9, <1>10, <1>11 DEF Next

\* In every behaviour of the manager its state has its type; the limiter holds
\* no more threads than there are granted calls; its queue lists the calls that
\* wait, by priority; a call is started at most once at a time; a call that was
\* deduplicated has a leader under way; the flag that holds back the ticks
\* belongs to a group in execution; and no caller waits without its timer.
THEOREM ReliabilityCorrect ==
    Spec => [](/\ TypeOK /\ ThreadsAccounted /\ WaitingQueueExact /\ StartedOnce
               /\ JoinedHasLeader /\ NeverStuck /\ WaiterHasTimer)
<1>1. IInv => TypeOK
    BY DEF IInv, AccountInv, TypeOK, LimiterTypeOK, PermitsOK, Permits, WaitersOK, CallsOK, CallRecords,
           StartInv, QueuesOK, PhasesOK, ExecPhases, LeadInv, FlightsOK
<1>2. IInv => /\ ThreadsAccounted /\ WaitingQueueExact /\ StartedOnce
              /\ JoinedHasLeader /\ NeverStuck /\ WaiterHasTimer
    BY DEF IInv, AccountInv, WaitersOK, StartInv, LeadInv
<1> QED  BY <1>1, <1>2, InitIInv, NextKeepsIInv, PTL DEF Spec
=============================================================================
