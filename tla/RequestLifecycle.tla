-------------------------- MODULE RequestLifecycle --------------------------
(***************************************************************************)
(* What the queue promises about the dispatch of requests, without stores, *)
(* timers, promises or interleavings: a request waits, is taken by one     *)
(* tick, and is finished with by that tick, set aside to wait again later, *)
(* or left to a retry, which puts it back unless it is dropped before.     *)
(* A request that has left never comes back.                               *)
(***************************************************************************)
CONSTANTS Ids, Workers

VARIABLE place  \* where each request is: a member of Workers is its tick

Init == place = [id \in Ids |-> "new"]

Move(id, from, to) == place[id] = from /\ place' = [place EXCEPT ![id] = to]

Enter(id) == Move(id, "new", "waiting")
Decline(id) == Move(id, "new", "gone")
Take(w, id) == /\ \A other \in Ids : place[other] # w
               /\ Move(id, "waiting", w)
Park(w, id) == Move(id, w, "parked")
Return(id) == Move(id, "parked", "waiting")
Delay(w, id) == Move(id, w, "retrying")
Retry(id) == Move(id, "retrying", "waiting")
Leave(w, id) == Move(id, w, "gone")
Drop(S) == /\ \A id \in S : place[id] \in {"waiting", "retrying"}
           /\ place' = [id \in Ids |-> IF id \in S THEN "gone" ELSE place[id]]

Next ==
    \/ \E id \in Ids : Enter(id) \/ Decline(id) \/ Return(id) \/ Retry(id)
    \/ \E w \in Workers, id \in Ids :
          Take(w, id) \/ Park(w, id) \/ Delay(w, id) \/ Leave(w, id)
    \/ \E S \in SUBSET Ids : Drop(S)

Spec == Init /\ [][Next]_place
=============================================================================
