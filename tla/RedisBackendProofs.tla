------------------------- MODULE RedisBackendProofs -------------------------
(***************************************************************************)
(* Proofs about RedisBackend: for any number of processes, requests, crashes *)
(* and calls, a request has one owner, and a pending record is indexed.      *)
(***************************************************************************)
EXTENDS RedisBackend, TLAPS

OwnerKinds == {"work", "defer", "retry"}

(* What a call in flight may look like.                                    *)
Shape(c) ==
    /\ c.kind \in OwnerKinds => c.id \in submitted
    /\ c.step \in {"fetching", "executing"} => c.kind = "work"
    /\ c.to = "pending" => c.kind \in OwnerKinds
    /\ c.step \in {"reading", "writing"} => c.to \in Statuses /\ c.kind # "defer"
    /\ c.kind \in {"timeout", "retry"} => c.to \in Statuses
    /\ c.step # "deleting" => c.id \in Ids

Shapes == \A c \in calls : Shape(c)
QueuedWasSubmitted == pqueue \subseteq submitted

(* The record of a request that a tick or a retry timer holds is not       *)
(* pending, so that the write that makes it pending moves it to the index. *)
InHand ==
    \A c \in calls : c.kind \in {"work", "retry"} =>
        /\ hash[c.id].status # "pending"
        /\ c.step = "writing" /\ c.to = "pending" => c.seen # "pending"

IInv == RedisTypeOK /\ Shapes /\ QueuedWasSubmitted /\ OneOwner /\ InHand /\ PendingIsIndexed

(* Records keep their type when one is overwritten.                        *)
LEMMA MovedTyped ==
    ASSUME statusIndex \in [Statuses -> SUBSET Ids], NEW id \in Ids, NEW from, NEW to
    PROVE  /\ Moved(id, from, to) \in [Statuses -> SUBSET Ids]
           /\ \A j \in Ids \ {id}, s \in Statuses : j \in Moved(id, from, to)[s] <=> j \in statusIndex[s]
           /\ to \in Statuses => id \in Moved(id, from, to)[to]
  BY DEF Moved

LEMMA InitHolds == Init => IInv
  BY RedisAssumption DEF Init, IInv, RedisTypeOK, Shapes, QueuedWasSubmitted, OneOwner, Owners, InHand,
     PendingIsIndexed, Whole, Gone, Statuses

(* The steps that change no more than the calls: some end,                 *)
LEMMA CallsEnd ==
    ASSUME IInv, UNCHANGED <<hash, pqueue, statusIndex, submitted, made>>,
           calls' \subseteq calls, crashes' \in 0..MaxCrashes
    PROVE  IInv'
  <1>1. RedisTypeOK'
    BY DEF IInv, RedisTypeOK
  <1>2. Shapes' /\ QueuedWasSubmitted'
    BY DEF IInv, Shapes, Shape, QueuedWasSubmitted
  <1>3. OneOwner' /\ InHand'
    BY DEF IInv, OneOwner, Owners, InHand
  <1>4. PendingIsIndexed'
    BY DEF IInv, PendingIsIndexed, Whole
  <1> QED
    BY <1>1, <1>2, <1>3, <1>4 DEF IInv

(* one goes on to its next step,                                           *)
LEMMA CallGoesOn ==
    ASSUME IInv, UNCHANGED <<hash, pqueue, statusIndex, submitted, made, crashes>>,
           NEW c \in calls, NEW d \in Call, calls' = (calls \ {c}) \cup {d},
           Shape(d), d.kind = c.kind, d.id = c.id,
           d.step \in {"writing", "erasing"} => d.seen \in Statuses /\ d.seen = hash[d.id].status
    PROVE  IInv'
  <1>1. RedisTypeOK'
    BY DEF IInv, RedisTypeOK
  <1>2. Shapes' /\ QueuedWasSubmitted'
    BY DEF IInv, Shapes, Shape, QueuedWasSubmitted
  <1>3. OneOwner'
    BY DEF IInv, OneOwner, Owners
  <1>4. InHand'
    BY DEF IInv, InHand
  <1>5. PendingIsIndexed'
    BY DEF IInv, PendingIsIndexed, Whole
  <1> QED
    BY <1>1, <1>2, <1>3, <1>4, <1>5 DEF IInv

(* or one starts that owns nothing.                                        *)
LEMMA CallStarts ==
    ASSUME IInv, UNCHANGED <<hash, pqueue, statusIndex, submitted, crashes>>,
           NEW d \in Call, Makes(d), Shape(d), d.kind \notin OwnerKinds,
           d.step \notin {"writing", "erasing"}
    PROVE  IInv'
  <1>1. RedisTypeOK'
    <2>1. made' \in 0..MaxCalls
      BY RedisAssumption DEF Makes, IInv, RedisTypeOK
    <2> QED
      BY <2>1 DEF Makes, IInv, RedisTypeOK
  <1>2. Shapes' /\ QueuedWasSubmitted'
    BY DEF Makes, IInv, Shapes, Shape, QueuedWasSubmitted
  <1>3. OneOwner' /\ InHand'
    BY DEF Makes, IInv, OneOwner, Owners, InHand, OwnerKinds
  <1>4. PendingIsIndexed'
    BY DEF Makes, IInv, PendingIsIndexed, Whole
  <1> QED
    BY <1>1, <1>2, <1>3, <1>4 DEF IInv

LEMMA FetchKeeps ==
    ASSUME IInv, NEW c \in calls, Fetch(c)
    PROVE  IInv'
  <1>1. CASE ~Whole(c.id)
    BY <1>1, CallsEnd DEF Fetch, Ends, IInv, RedisTypeOK
  <1>2. CASE Whole(c.id)
    <2>1. PICK to \in {"processing", "pending"} :
            calls' = (calls \ {c}) \cup {[c EXCEPT !.step = "reading", !.to = to]}
      BY <1>2 DEF Fetch
    <2> DEFINE d == [c EXCEPT !.step = "reading", !.to = to]
    <2>2. c \in Call /\ Shape(c) /\ c.step = "fetching"
      BY DEF IInv, RedisTypeOK, Shapes, Fetch
    <2>3. d \in Call /\ Shape(d) /\ d.kind = c.kind /\ d.id = c.id /\ d.step = "reading"
      BY <2>2 DEF Call, Shape, Statuses, OwnerKinds
    <2> HIDE DEF d
    <2>4. calls' = (calls \ {c}) \cup {d}
      BY <2>1 DEF d
    <2> QED
      BY <2>3, <2>4, CallGoesOn DEF Fetch
  <1> QED
    BY <1>1, <1>2

LEMMA ReadsKeeps ==
    ASSUME IInv, NEW c \in calls, Reads(c)
    PROVE  IInv'
  <1>1. CASE ~Whole(c.id)
    BY <1>1, CallsEnd DEF Reads, Ends, IInv, RedisTypeOK
  <1>2. CASE Whole(c.id)
    <2>1. PICK to \in Targets(c) :
            calls' = (calls \ {c}) \cup {[c EXCEPT !.step = "writing", !.to = to, !.seen = hash[c.id].status]}
      BY <1>2 DEF Reads
    <2> DEFINE d == [c EXCEPT !.step = "writing", !.to = to, !.seen = hash[c.id].status]
    <2>2. c \in Call /\ Shape(c) /\ c.step \in {"reading", "executing"}
      BY DEF IInv, RedisTypeOK, Shapes, Reads
    <2>3. to \in Statuses /\ (to = "pending" => c.to = "pending")
      BY <2>2 DEF Targets, Outcomes, Shape, Statuses
    <2>4. hash[c.id].status \in Statuses
      BY <1>2, <2>2 DEF IInv, RedisTypeOK, Record, Gone, Whole, Shape
    <2>5. d \in Call /\ Shape(d) /\ d.kind = c.kind /\ d.id = c.id /\ d.seen = hash[d.id].status
      BY <2>2, <2>3, <2>4 DEF Call, Shape, OwnerKinds
    <2>6. d.seen \in Statuses
      BY <2>2, <2>4 DEF Call
    <2> HIDE DEF d
    <2>7. calls' = (calls \ {c}) \cup {d}
      BY <2>1 DEF d
    <2>8. d \in Call /\ Shape(d) /\ d.kind = c.kind /\ d.id = c.id
          /\ d.seen = hash[d.id].status
      BY <2>5
    <2>9. UNCHANGED <<hash, pqueue, statusIndex, submitted, made, crashes>>
      BY DEF Reads
    <2> QED
      BY <2>6, <2>7, <2>8, <2>9, CallGoesOn
  <1> QED
    BY <1>1, <1>2

LEMMA TimerKeeps ==
    ASSUME IInv, NEW c \in calls, Expire(c) \/ Retry(c)
    PROVE  IInv'
  <1>1. CASE calls' = calls \ {c}
    BY <1>1, CallsEnd DEF Expire, Retry, IInv, RedisTypeOK
  <1>2. CASE Becomes(c, "reading")
    <2> DEFINE d == [c EXCEPT !.step = "reading"]
    <2>1. c \in Call /\ Shape(c) /\ c.step = "waiting" /\ c.kind \in {"timeout", "retry"}
      BY DEF IInv, RedisTypeOK, Shapes, Expire, Retry
    <2>2. d \in Call /\ Shape(d) /\ d.kind = c.kind /\ d.id = c.id /\ d.step = "reading"
      BY <2>1 DEF Call, Shape, Statuses, OwnerKinds
    <2> HIDE DEF d
    <2>3. calls' = (calls \ {c}) \cup {d}
      BY <1>2 DEF d, Becomes
    <2>4. UNCHANGED <<hash, pqueue, statusIndex, submitted, made, crashes>>
      BY DEF Expire, Retry
    <2> QED
      BY <2>2, <2>3, <2>4, CallGoesOn
  <1> QED
    BY <1>1, <1>2 DEF Expire, Retry, Ends

(* The steps on the store.                                                 *)
LEMMA SubmitKeeps ==
    ASSUME IInv, NEW m \in Callers, NEW id \in Ids, NEW scheduled \in BOOLEAN,
           Submit(m, id, scheduled)
    PROVE  IInv'
  <1> DEFINE r == [whole |-> TRUE, status |-> "pending", scheduled |-> scheduled]
             d == Started("timeout", id, m, "waiting", "expired")
  <1>1. /\ hash' = [hash EXCEPT ![id] = r] /\ pqueue' = pqueue \cup {id}
        /\ statusIndex' = Moved(id, "none", "pending")
        /\ submitted' = submitted \cup {id} /\ id \notin submitted
        /\ calls' \subseteq calls \cup {d}
        /\ UNCHANGED <<made, crashes>>
    BY DEF Submit, Enqueued
  <1>2. r \in Record /\ r.status = "pending" /\ r.whole
    BY DEF Record, Statuses
  <1>3. d \in Call /\ Shape(d)' /\ d.kind = "timeout" /\ d.step = "waiting"
    BY RedisAssumption DEF Started, Call, Shape, Statuses, OwnerKinds
  <1> HIDE DEF r, d
  <1>4. RedisTypeOK'
    BY <1>1, <1>2, <1>3, MovedTyped DEF IInv, RedisTypeOK
  <1>5. Shapes' /\ QueuedWasSubmitted'
    BY <1>1, <1>3 DEF IInv, Shapes, Shape, QueuedWasSubmitted
  <1>6. \A c \in calls' : c.kind \in OwnerKinds => c \in calls /\ c.id # id
    BY <1>1, <1>3 DEF IInv, Shapes, Shape, OwnerKinds
  <1>7. OneOwner'
    BY <1>1, <1>6 DEF IInv, OneOwner, Owners, OwnerKinds
  <1>8. InHand'
    BY <1>1, <1>6 DEF IInv, InHand, OwnerKinds, RedisTypeOK, Shapes, Shape
  <1>9. PendingIsIndexed'
    BY <1>1, <1>2, MovedTyped DEF IInv, PendingIsIndexed, Whole, RedisTypeOK, Statuses
  <1> QED
    BY <1>4, <1>5, <1>7, <1>8, <1>9 DEF IInv

LEMMA TakeKeeps ==
    ASSUME IInv, NEW m \in Managers, Take(m)
    PROVE  IInv'
  <1>1. PICK id \in Found : 
            /\ pqueue' = pqueue \ {id}
            /\ hash' = [hash EXCEPT ![id].status = "processing"]
            /\ statusIndex' = Moved(id, "pending", "processing")
            /\ calls' = calls \cup {Started("work", id, m, "fetching", "processing")}
    BY DEF Take
  <1> DEFINE d == Started("work", id, m, "fetching", "processing")
  <1>2. id \in pqueue /\ id \in Ids /\ id \in submitted /\ hash[id].status = "pending"
    BY DEF Found, First, IInv, RedisTypeOK, QueuedWasSubmitted
  <1>3. hash[id] \in Record
    BY <1>2 DEF IInv, RedisTypeOK, Gone
  <1>4. d \in Call /\ Shape(d)' /\ d.kind = "work" /\ d.step = "fetching" /\ d.id = id
    BY <1>2 DEF Started, Call, Shape, Statuses, OwnerKinds, Take
  <1> HIDE DEF d
  <1>5. calls' = calls \cup {d} /\ UNCHANGED <<submitted, made, crashes>>
    BY <1>1 DEF d, Take
  <1>6. /\ hash' \in [Ids -> Record \cup {Gone}] /\ hash'[id].status = "processing"
        /\ \A j \in Ids \ {id} : hash'[j] = hash[j]
    BY <1>1, <1>2, <1>3 DEF IInv, RedisTypeOK, Record, Statuses
  <1>7. RedisTypeOK'
    BY <1>1, <1>2, <1>4, <1>5, <1>6, MovedTyped DEF IInv, RedisTypeOK
  <1>8. Shapes' /\ QueuedWasSubmitted'
    BY <1>1, <1>4, <1>5 DEF IInv, Shapes, Shape, QueuedWasSubmitted
  <1>9. \A c \in calls : c.kind \in OwnerKinds => c.id # id
    BY <1>2 DEF IInv, OneOwner, Owners, OwnerKinds
  <1>10. OneOwner'
    BY <1>1, <1>4, <1>5, <1>9 DEF IInv, OneOwner, Owners, OwnerKinds
  <1>11. InHand'
    <2>1. \A c \in calls : c.kind \in {"work", "retry"} => c.id \in Ids \ {id}
      BY <1>9 DEF IInv, RedisTypeOK, Shapes, Shape, OwnerKinds
    <2> QED
      BY <2>1, <1>4, <1>5, <1>6 DEF IInv, InHand
  <1>12. PendingIsIndexed'
    BY <1>1, <1>2, <1>6, MovedTyped DEF IInv, PendingIsIndexed, Whole, RedisTypeOK, Statuses
  <1> QED
    BY <1>7, <1>8, <1>10, <1>11, <1>12 DEF IInv

LEMMA DeferKeeps ==
    ASSUME IInv, NEW c \in calls, Defer(c)
    PROVE  IInv'
  <1> DEFINE r == [whole |-> TRUE, status |-> "pending", scheduled |-> TRUE]
  <1>1. /\ hash' = [hash EXCEPT ![c.id] = r] /\ pqueue' = pqueue \cup {c.id}
        /\ statusIndex' = Moved(c.id, "none", "pending")
        /\ calls' = calls \ {c} /\ UNCHANGED <<submitted, made, crashes>>
    BY DEF Defer, Enqueued, Ends
  <1>2. r \in Record /\ r.status = "pending" /\ r.whole
    BY DEF Record, Statuses
  <1>3. c.id \in Ids /\ c.id \in submitted /\ c.kind = "defer"
    BY DEF IInv, Shapes, Shape, Defer, OwnerKinds
  <1> HIDE DEF r
  <1>4. RedisTypeOK'
    BY <1>1, <1>2, <1>3, MovedTyped DEF IInv, RedisTypeOK
  <1>5. Shapes' /\ QueuedWasSubmitted'
    BY <1>1, <1>3 DEF IInv, Shapes, Shape, QueuedWasSubmitted
  <1>6. \A d \in calls' : d.kind \in OwnerKinds => d \in calls /\ d.id # c.id
    BY <1>1, <1>3 DEF IInv, OneOwner, Owners, OwnerKinds
  <1>7. OneOwner'
    BY <1>1, <1>6 DEF IInv, OneOwner, Owners, OwnerKinds
  <1>8. InHand'
    BY <1>1, <1>6 DEF IInv, InHand, OwnerKinds, RedisTypeOK, Shapes, Shape
  <1>9. PendingIsIndexed'
    BY <1>1, <1>2, <1>3, MovedTyped DEF IInv, PendingIsIndexed, Whole, RedisTypeOK, Statuses
  <1> QED
    BY <1>4, <1>5, <1>7, <1>8, <1>9 DEF IInv

LEMMA RemoveReadsKeeps ==
    ASSUME IInv, NEW c \in calls, RemoveReads(c)
    PROVE  IInv'
  <1>1. CASE ~Whole(c.id)
    BY <1>1, CallsEnd DEF RemoveReads, Ends, IInv, RedisTypeOK
  <1>2. CASE Whole(c.id)
    <2> DEFINE d == [c EXCEPT !.step = "erasing", !.seen = hash[c.id].status]
    <2>1. c \in Call /\ Shape(c) /\ c.step = "listed"
      BY DEF IInv, RedisTypeOK, Shapes, RemoveReads
    <2>2. hash[c.id].status \in Statuses
      BY <1>2, <2>1 DEF IInv, RedisTypeOK, Record, Gone, Whole, Shape
    <2>3. d \in Call /\ Shape(d) /\ d.kind = c.kind /\ d.id = c.id
          /\ d.seen = hash[d.id].status /\ d.seen \in Statuses
      BY <2>1, <2>2 DEF Call, Shape, OwnerKinds
    <2> HIDE DEF d
    <2>4. calls' = (calls \ {c}) \cup {d}
      BY <1>2 DEF RemoveReads, d
    <2>5. UNCHANGED <<hash, pqueue, statusIndex, submitted, made, crashes>>
      BY DEF RemoveReads
    <2> QED
      BY <2>3, <2>4, <2>5, CallGoesOn
  <1> QED
    BY <1>1, <1>2

LEMMA RemoveWritesKeeps ==
    ASSUME IInv, NEW c \in calls, RemoveWrites(c)
    PROVE  IInv'
  <1>1. /\ hash' = [hash EXCEPT ![c.id] = Gone] /\ pqueue' = pqueue \ {c.id}
        /\ statusIndex' = Moved(c.id, c.seen, "none")
        /\ calls' \subseteq calls /\ UNCHANGED <<submitted, made, crashes>>
    BY DEF RemoveWrites
  <1>2. c.id \in Ids
    BY DEF IInv, Shapes, Shape, RemoveWrites
  <1>3. RedisTypeOK'
    BY <1>1, <1>2, MovedTyped DEF IInv, RedisTypeOK
  <1>4. Shapes' /\ QueuedWasSubmitted'
    BY <1>1 DEF IInv, Shapes, Shape, QueuedWasSubmitted
  <1>5. OneOwner'
    BY <1>1 DEF IInv, OneOwner, Owners
  <1>6. InHand'
    BY <1>1, <1>2 DEF IInv, InHand, RedisTypeOK, Gone, Shapes, Shape, OwnerKinds
  <1>7. PendingIsIndexed'
    BY <1>1, <1>2, MovedTyped DEF IInv, PendingIsIndexed, Whole, RedisTypeOK, Gone, Statuses
  <1> QED
    BY <1>3, <1>4, <1>5, <1>6, <1>7 DEF IInv

(* What follows the update of a tick has no owner but that tick's request. *)
LEMMA FollowsShape ==
    ASSUME NEW c \in Call, Shape(c), c.step = "writing", NEW d \in Follows(c)
    PROVE  /\ d \in Call /\ Shape(d) /\ d.id = c.id
           /\ c.kind = "work" /\ d.kind \in OwnerKinds
           /\ d.step \in {"waiting", "executing"}
           /\ d.kind \in {"work", "retry"} => c.to # "pending"
           /\ \A e \in Follows(c) : e = d
  <1>1. c.kind = "work" /\ c.to \in {"processing", "pending", "retrying"}
    BY DEF Follows
  <1>2. CASE c.to = "processing"
    BY <1>1, <1>2 DEF Follows, Call, Shape, OwnerKinds, Statuses
  <1>3. CASE c.to = "pending"
    BY <1>1, <1>3 DEF Follows, Started, Call, Shape, OwnerKinds, Statuses
  <1>4. CASE c.to = "retrying"
    BY <1>1, <1>4 DEF Follows, Started, Call, Shape, OwnerKinds, Statuses
  <1> QED
    BY <1>1, <1>2, <1>3, <1>4

LEMMA WritesKeeps ==
    ASSUME IInv, NEW c \in calls, Writes(c)
    PROVE  IInv'
  <1>1. /\ c \in Call /\ Shape(c) /\ c.step = "writing" /\ c.id \in Ids
        /\ c.to \in Statuses /\ c.seen \in Statuses
    BY DEF IInv, RedisTypeOK, Shapes, Shape, Writes
  <1>2. calls' \subseteq (calls \ {c}) \cup Follows(c)
    BY DEF Writes
  <1>3. UNCHANGED <<pqueue, submitted, made, crashes>>
    BY DEF Writes
  <1>4. /\ hash' \in [Ids -> Record \cup {Gone}]
        /\ hash'[c.id].status = c.to
        /\ \A j \in Ids \ {c.id} : hash'[j] = hash[j]
        /\ hash'[c.id].whole => Whole(c.id)
    <2> DEFINE r == Written(c)
    <2>1. hash' = [hash EXCEPT ![c.id] = r]
      BY DEF Writes
    <2>2. hash[c.id].whole \in BOOLEAN
      <3>1. hash[c.id] \in Record \/ hash[c.id] = Gone
        BY <1>1 DEF IInv, RedisTypeOK
      <3>2. \A q \in Record : q.whole \in BOOLEAN
        BY Zenon DEF Record
      <3>3. Gone.whole \in BOOLEAN
        BY DEF Gone
      <3> QED
        BY <3>1, <3>2, <3>3
    <2>3. (hash[c.id].scheduled \/ Dates(c)) \in BOOLEAN
      BY Zenon
    <2>4. r \in Record /\ r.status = c.to /\ r.whole = hash[c.id].whole
      BY <2>2, <2>3, <1>1 DEF Record, Written
    <2> HIDE DEF r
    <2> QED
      BY <2>1, <2>4, <1>1 DEF IInv, RedisTypeOK, Whole
  <1>5. RedisTypeOK'
    <2>1. statusIndex' \in [Statuses -> SUBSET Ids]
      BY <1>1, MovedTyped DEF IInv, RedisTypeOK, Writes, WriteIndex
    <2>2. /\ calls' \subseteq Call
          /\ \A d \in calls' : d.step \in {"writing", "erasing"} => d.seen \in Statuses
      BY <1>1, <1>2, FollowsShape DEF IInv, RedisTypeOK
    <2> QED
      BY <1>3, <1>4, <2>1, <2>2 DEF IInv, RedisTypeOK
  <1>6. Shapes' /\ QueuedWasSubmitted'
    BY <1>1, <1>2, <1>3, FollowsShape DEF IInv, Shapes, Shape, QueuedWasSubmitted
  <1>7. OneOwner'
    <2>1. \A d \in calls' : d.kind \in OwnerKinds => d \in calls \/ d \in Follows(c)
      BY <1>2
    <2>2. \A d \in Follows(c) : d.id = c.id /\ c.kind \in OwnerKinds /\ \A e \in Follows(c) : e = d
      BY <1>1, FollowsShape DEF OwnerKinds
    <2>3. \A d \in calls : d.kind \in OwnerKinds /\ c.kind \in OwnerKinds /\ d.id = c.id => d = c
      BY <1>1 DEF IInv, OneOwner, Owners, OwnerKinds
    <2>4. \A id \in Ids : \A d, e \in Owners(id)' : d = e
      BY <1>1, <1>2, <2>1, <2>2, <2>3 DEF IInv, OneOwner, Owners, OwnerKinds
    <2>5. \A id \in Ids : id \in pqueue' => Owners(id)' = {}
      BY <1>1, <1>3, <2>1, <2>2 DEF IInv, OneOwner, Owners, OwnerKinds
    <2> QED
      BY <2>4, <2>5 DEF OneOwner
  <1>8. InHand'
    <2> SUFFICES ASSUME NEW d \in calls', d.kind \in {"work", "retry"}
                 PROVE  /\ hash'[d.id].status # "pending"
                        /\ d.step = "writing" /\ d.to = "pending" => d.seen # "pending"
      BY DEF InHand
    <2>1. CASE d \in Follows(c)
      BY <2>1, <1>1, <1>4, FollowsShape
    <2>2. CASE d \in calls \ {c}
      <3>1. d.id \in Ids
        BY <2>2 DEF IInv, RedisTypeOK, Shapes, Shape, OwnerKinds
      <3>2. d.id = c.id => c.to # "pending"
        BY <2>2, <3>1, <1>1 DEF IInv, OneOwner, Owners, OwnerKinds, Shape
      <3> QED
        BY <2>2, <3>1, <3>2, <1>4 DEF IInv, InHand
    <2> QED
      BY <1>2, <2>1, <2>2
  <1>9. PendingIsIndexed'
    <2> SUFFICES ASSUME NEW id \in Ids, hash'[id].whole, hash'[id].status = "pending"
                 PROVE  id \in statusIndex'["pending"]
      BY DEF PendingIsIndexed, Whole
    <2>1. statusIndex' = WriteIndex(c)
      BY DEF Writes
    <2>2. CASE id # c.id
      BY <2>1, <2>2, <1>1, <1>4, MovedTyped
         DEF WriteIndex, IInv, PendingIsIndexed, RedisTypeOK, Whole, Statuses
    <2>3. CASE id = c.id
      <3>1. c.to = "pending" /\ c.kind \in {"work", "retry"} /\ c.seen # "pending"
        BY <2>3, <1>1, <1>4 DEF IInv, InHand, Shape, OwnerKinds
      <3> QED
        BY <3>1, <2>1, <2>3, <1>1, MovedTyped DEF WriteIndex, IInv, RedisTypeOK
    <2> QED
      BY <2>2, <2>3
  <1> QED
    BY <1>5, <1>6, <1>7, <1>8, <1>9 DEF IInv

LEMMA DeleteQueueKeeps ==
    ASSUME IInv, NEW c \in calls, DeleteQueue(c)
    PROVE  IInv'
  <1>1. calls' \subseteq calls /\ pqueue' = {} /\ UNCHANGED <<hash, statusIndex, submitted, made, crashes>>
    BY DEF DeleteQueue, Ends
  <1>2. RedisTypeOK' /\ PendingIsIndexed'
    BY <1>1 DEF IInv, RedisTypeOK, PendingIsIndexed, Whole
  <1>3. Shapes' /\ QueuedWasSubmitted' /\ OneOwner' /\ InHand'
    BY <1>1 DEF IInv, Shapes, Shape, QueuedWasSubmitted, OneOwner, Owners, InHand
  <1> QED
    BY <1>2, <1>3 DEF IInv

(* Every step of every process keeps the invariant.                        *)
LEMMA NextKeeps == IInv /\ [Next]_vars => IInv'
  <1> SUFFICES ASSUME IInv, [Next]_vars PROVE IInv'
    OBVIOUS
  <1>1. ASSUME NEW m \in Callers, NEW id \in Ids, Cancel(m, id)
        PROVE  IInv'
    <2> DEFINE d == Started("cancel", id, m, "reading", "cancelled")
    <2>1. d \in Call /\ Shape(d) /\ d.kind \notin OwnerKinds /\ d.step \notin {"writing", "erasing"}
      BY RedisAssumption DEF Started, Call, Shape, Statuses, OwnerKinds
    <2> HIDE DEF d
    <2>2. Makes(d) /\ UNCHANGED <<hash, pqueue, statusIndex, submitted, crashes>>
      BY <1>1 DEF Cancel, d
    <2> QED
      BY <2>1, <2>2, CallStarts
  <1>2. ASSUME NEW m \in Callers, NEW id \in Ids, NEW kind \in {"sweep", "clear"}, List(m, kind, id)
        PROVE  IInv'
    <2> DEFINE d == Started(kind, id, m, "listed", "none")
    <2>1. d \in Call /\ Shape(d) /\ d.kind \notin OwnerKinds /\ d.step \notin {"writing", "erasing"}
      BY RedisAssumption DEF Started, Call, Shape, Statuses, OwnerKinds
    <2> HIDE DEF d
    <2>2. Makes(d) /\ UNCHANGED <<hash, pqueue, statusIndex, submitted, crashes>>
      BY <1>2 DEF List, d
    <2> QED
      BY <2>1, <2>2, CallStarts
  <1>3. ASSUME NEW m \in Managers, Count(m)
        PROVE  IInv'
    <2> DEFINE d == Started("maintain", "none", m, "deleting", "none")
    <2>1. d \in Call /\ Shape(d) /\ d.kind \notin OwnerKinds /\ d.step \notin {"writing", "erasing"}
      BY DEF Started, Call, Shape, Statuses, OwnerKinds
    <2> HIDE DEF d
    <2>2. Makes(d) /\ UNCHANGED <<hash, pqueue, statusIndex, submitted, crashes>>
      BY <1>3 DEF Count, d
    <2> QED
      BY <2>1, <2>2, CallStarts
  <1>4. ASSUME NEW m \in Managers, Crash(m)
        PROVE  IInv'
    <2>1. crashes' \in 0..MaxCrashes
      BY <1>4, RedisAssumption DEF Crash, IInv, RedisTypeOK
    <2> QED
      BY <1>4, <2>1, CallsEnd DEF Crash
  <1>5. ASSUME NEW c \in calls, RemoveReads(c)
        PROVE  IInv'
    BY <1>5, RemoveReadsKeeps DEF IInv
  <1>6. CASE UNCHANGED vars
    <2>1. crashes' \in 0..MaxCrashes /\ calls' \subseteq calls
      BY <1>6 DEF vars, IInv, RedisTypeOK
    <2> QED
      BY <1>6, <2>1, CallsEnd DEF vars
  <1> QED
    BY <1>1, <1>2, <1>3, <1>4, <1>5, <1>6, SubmitKeeps, TakeKeeps, FetchKeeps, ReadsKeeps, WritesKeeps,
       TimerKeeps, DeferKeeps, RemoveWritesKeeps, DeleteQueueKeeps DEF Next, Proceeds

(* Whatever the number of processes and requests, and however updates race *)
(* with ticks, timers, removals and crashes: a request that is in its      *)
(* queue is with nobody, one that was given out is with one tick or timer, *)
(* and the index of pending requests misses none.                          *)
THEOREM SharedStoreCorrect == Spec => [](RedisTypeOK /\ OneOwner /\ PendingIsIndexed)
  <1>1. IInv => RedisTypeOK /\ OneOwner /\ PendingIsIndexed
    BY DEF IInv
  <1> QED
    BY InitHolds, NextKeeps, <1>1, PTL DEF Spec
=============================================================================
