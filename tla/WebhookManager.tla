--------------------------- MODULE WebhookManager ---------------------------
(***************************************************************************)
(* webhooks/WebhookManager.ts, processWebhook: a webhook is parsed, stored, *)
(* routed to its handlers, delivered once more to those that succeeded, and *)
(* synchronised. The steps of different requests interleave at every await. *)
(*                                                                         *)
(* The delivery manager exists only with an event store in Redis, so a save *)
(* is one pipeline that is executed or fails. SynchronizationEngine is seen *)
(* through activeSyncs: a sync of an entity is refused while one is running.*)
(***************************************************************************)
EXTENDS EventRouter, DeliveryManager

CONSTANTS
    Entities, EntityOf      \* [Events -> Entities]

ASSUME PipelineAssumption ==
    /\ EntityOf \in [Events -> Entities]
    /\ Jobs = Requests \X Handlers
    /\ KeyOf = [j \in Jobs |-> <<j[2], EventOf[j[1]]>>]

VARIABLES
    step,       \* request -> where processWebhook stands
    todo,       \* request -> handlers it has still to call deliver for
    results,    \* request -> handlers of the routes in a routing result that says matched
    syncs       \* activeSyncs: entities

pipelineVars == <<step, todo, results, syncs>>
vars == <<routes, circuit, active, run, waiting, working, adding, fate, keys,
          requeue, requeued, crashes, step, todo, results, syncs>>

Init ==
    /\ RouterInit /\ DeliveryInit
    /\ step = [r \in Requests |-> "new"]
    /\ todo = [r \in Requests |-> <<>>]
    /\ results = [r \in Requests |-> {}]
    /\ syncs = {}

Entity(r) == EntityOf[EventOf[r]]
Goes(r, s) == step' = [step EXCEPT ![r] = s]

\* Parsing fails, or the event goes to the store, which fails or not.
Parse(r, parsed) ==
    /\ step[r] = "new"
    /\ Goes(r, IF parsed THEN "saving" ELSE "failed")
    /\ UNCHANGED <<routerVars, deliveryVars, todo, results, syncs>>

SaveFails(r) ==
    /\ step[r] = "saving"
    /\ Goes(r, "failed")
    /\ UNCHANGED <<routerVars, deliveryVars, todo, results, syncs>>

Saved(r) ==
    /\ step[r] = "saving"
    /\ Goes(r, "routing")
    /\ Route(r)
    /\ UNCHANGED <<deliveryVars, todo, results, syncs>>

\* route() returns: the handlers to deliver to are those of its results that
\* succeeded. One whose result comes later is forgotten.
SucceededFirst(r) == IF \E i \in DOMAIN Started(r) : run[r][Started(r)[i]] = "failed"  \* mutant
                     THEN <<>> ELSE Started(r)
Succeeded(r) == Filter(Started(r), {h \in Handlers : run[r][h] = "succeeded"})

Routed(r) ==
    /\ step[r] = "routing"
    /\ RouteReturns(r)
    /\ Goes(r, "delivering")
    /\ IF Matched(r)
       THEN results' = [results EXCEPT ![r] = Results(r)] /\ todo' = [todo EXCEPT ![r] = Succeeded(r)]
       ELSE UNCHANGED <<results, todo>>
    /\ UNCHANGED <<routerVars, deliveryVars, syncs>>

\* The loop over the matched routes: a delivery that rejects ends the request.
NextJob(r) == <<r, Head(todo[r])>>
Proceed(r) == todo' = [todo EXCEPT ![r] = Tail(@)]

DeliverNext(r) ==
    /\ step[r] = "delivering" /\ todo[r] # <<>>
    /\ Deliver(NextJob(r))
    /\ IF Duplicate(NextJob(r)) THEN Proceed(r) ELSE UNCHANGED todo
    /\ UNCHANGED <<routerVars, step, results, syncs>>

DeliveryAnswered(r, added) ==
    /\ step[r] = "delivering" /\ todo[r] # <<>>
    /\ DeliverEnds(NextJob(r), added)
    /\ IF added THEN Proceed(r) /\ UNCHANGED step ELSE Goes(r, "failed") /\ UNCHANGED todo
    /\ UNCHANGED <<routerVars, results, syncs>>

\* syncFromAutotask: a sync that finds one of its entity under way is refused,
\* which the pipeline does not notice.
RefusedEndsToo(r) == syncs \ {Entity(r)}  \* mutant
AfterRefusal(r) == syncs

SyncBegins(r) ==
    /\ step[r] = "delivering" /\ todo[r] = <<>>
    /\ IF Entity(r) \in syncs THEN Goes(r, "answered") /\ syncs' = AfterRefusal(r)
                              ELSE Goes(r, "syncing") /\ syncs' = syncs \cup {Entity(r)}
    /\ UNCHANGED <<routerVars, deliveryVars, todo, results>>

SyncEnds(r) ==
    /\ step[r] = "syncing"
    /\ Goes(r, "answered")
    /\ syncs' = syncs \ {Entity(r)}
    /\ UNCHANGED <<routerVars, deliveryVars, todo, results>>

\* The process stops: only what is in Redis survives.
Crash ==
    /\ DeliveryCrash
    /\ routes' = Handlers
    /\ circuit' = [h \in Handlers |-> ClosedRoute]
    /\ active' = {}
    /\ run' = [r \in Requests |-> NoRuns]
    /\ step' = [r \in Requests |-> IF step[r] \in {"new", "answered", "failed"} THEN step[r] ELSE "aborted"]
    /\ todo' = [r \in Requests |-> <<>>]
    /\ results' = [r \in Requests |-> {}]
    /\ syncs' = {}

Outside(A) == A /\ UNCHANGED pipelineVars

Handling(r) ==
    \/ \E parsed \in BOOLEAN : Parse(r, parsed)
    \/ SaveFails(r) \/ Saved(r) \/ Routed(r) \/ DeliverNext(r)
    \/ \E added \in BOOLEAN : DeliveryAnswered(r, added)
    \/ SyncBegins(r) \/ SyncEnds(r)

Routing(h) ==
    \/ \E r \in Requests, outcome \in {"succeeds", "reports", "throws"} : HandlerEnds(r, h, outcome)
    \/ AddRoute(h) \/ RemoveRoute(h) \/ NextAttemptDue(h)

Next ==
    \/ \E r \in Requests : Handling(r)
    \/ \E h \in Handlers : Outside(Routing(h) /\ UNCHANGED deliveryVars)
    \/ Outside(QueueStep /\ UNCHANGED routerVars)
    \/ Crash

Spec == Init /\ [][Next]_vars

-----------------------------------------------------------------------------
TypeOK ==
    /\ RouterTypeOK /\ DeliveryTypeOK
    /\ step \in [Requests -> {"new", "saving", "routing", "delivering", "syncing", "answered", "failed", "aborted"}]
    /\ todo \in [Requests -> Seq(Handlers)]
    /\ results \in [Requests -> SUBSET Handlers] /\ syncs \subseteq Entities

\* A webhook acknowledged as matched was delivered for every handler that
\* succeeded, if route() waits for it or had its result: the job was added to the
\* queue, or is a duplicate of another job with its key, one that was added, is
\* being added, or was refused by Redis (its key stays recorded nevertheless).
Asked(j) == j \in adding \/ fate[j] \cap {"accepted", "rejected"} # {}
SameKey(j) == {i \in ExactlyOnce \ {j} : KeyOf[i] = KeyOf[j]}
Kept(j) ==
    \/ "accepted" \in fate[j]
    \/ "suppressed" \in fate[j] /\ \E i \in SameKey(j) : Asked(i)
AcknowledgedIsDelivered ==
    \A r \in Requests : results[r] # {} /\ step[r] \in {"syncing", "answered"} =>
        \A i \in DOMAIN Started(r) :
            LET h == Started(r)[i]
            IN  run[r][h] = "succeeded" /\ (Awaited(i) \/ h \in results[r]) => Kept(<<r, h>>)

\* activeSyncs holds an entity exactly while one sync of it runs, whichever of
\* several requests for it are refused meanwhile.
Syncing == {r \in Requests : step[r] = "syncing"}
SyncsExclusive ==
    /\ syncs = {Entity(r) : r \in Syncing}
    /\ \A q, r \in Syncing : Entity(q) = Entity(r) => q = r
=============================================================================
