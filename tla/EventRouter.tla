---------------------------- MODULE EventRouter ----------------------------
(***************************************************************************)
(* webhooks/EventRouter.ts: every handler whose filter matches an event is  *)
(* executed at once, under a timeout, a limit on the handlers that run, and *)
(* a circuit per route that opens after a number of failures.               *)
(*                                                                         *)
(* The results are collected by executeWithConcurrencyLimit. Once the limit *)
(* is reached it waits for any result, then forgets the promise it has just *)
(* added instead of the one that settled: in the end it waits for the first *)
(* MaxHandlers - 1 promises only. A result missing before one that is there *)
(* makes route() throw inside its try, and the event counts as not matched; *)
(* results missing at the end only make the array shorter, and the handlers *)
(* they belong to are not among the matched routes.                         *)
(***************************************************************************)
EXTENDS Collections, SequencesExt, FiniteSets

CONSTANTS
    Requests,       \* webhook requests
    Events,
    EventOf,        \* [Requests -> Events]
    Handlers,       \* handlers, one route each
    ByPriority,     \* the handlers by descending priority
    Matching,       \* [Handlers -> SUBSET Events], the filters
    MaxHandlers,    \* maxConcurrentHandlers
    Threshold       \* circuitBreakerThreshold

ASSUME RouterAssumption ==
    /\ EventOf \in [Requests -> Events]
    /\ ByPriority \in Seq(Handlers) /\ IsInjective(ByPriority) /\ ToSet(ByPriority) = Handlers
    /\ Matching \in [Handlers -> SUBSET Events]
    /\ MaxHandlers \in Nat \ {0} /\ Threshold \in Nat \ {0}

VARIABLES
    routes,     \* the routes that are registered and enabled
    circuit,    \* circuitBreakers: one per route, with whether nextAttempt has passed
    active,     \* activeHandlers: ids of handlers in execution, <<handler, event>>
    run         \* request -> handler -> execution started by route()

routerVars == <<routes, circuit, active, run>>

ClosedRoute == [state |-> "closed", failures |-> 0, due |-> FALSE]
NoRuns == [h \in Handlers |-> "none"]

RouterInit ==
    /\ routes = Handlers
    /\ circuit = [h \in Handlers |-> ClosedRoute]
    /\ active = {}
    /\ run = [r \in Requests |-> NoRuns]

Id(r, h) == <<h, EventOf[r]>>

\* updateCircuitBreaker and resetCircuitBreaker
Failed(k) ==
    LET failures == IF k.failures < Threshold THEN k.failures + 1 ELSE k.failures
    IN  IF failures >= Threshold THEN [state |-> "open", failures |-> failures, due |-> FALSE]
                                 ELSE [k EXCEPT !.failures = failures]
Reset(k) == ClosedRoute

(***************************************************************************)
(* route: the matching handlers start one after the other; one that finds   *)
(* the limit reached fails at once, and its `finally` deletes the id that   *)
(* an execution of the same handler for the same event may have added.      *)
(***************************************************************************)
Admitted(k) == k.state # "open" \/ k.due
Tried(k) == IF k.state = "open" /\ k.due THEN [k EXCEPT !.state = "half_open", !.due = FALSE] ELSE k

Start(r, s, h) ==
    IF Cardinality(s.active) >= MaxHandlers
    THEN [active  |-> s.active \ {Id(r, h)},
          run     |-> [s.run EXCEPT ![h] = "failed"],
          circuit |-> [s.circuit EXCEPT ![h] = Failed(@)]]
    ELSE [s EXCEPT !.active = @ \cup {Id(r, h)}, !.run[h] = "running"]

Route(r) ==
    LET found   == {h \in routes : Admitted(circuit[h]) /\ EventOf[r] \in Matching[h]}
        before  == [active |-> active, run |-> NoRuns,
                    circuit |-> [h \in Handlers |-> IF h \in routes THEN Tried(circuit[h]) ELSE circuit[h]]]
        started == Filter(ByPriority, found)
        after[n \in 0..Len(started)] == IF n = 0 THEN before ELSE Start(r, after[n - 1], started[n])
        end     == after[Len(started)]
    IN  /\ active' = end.active
        /\ run' = [run EXCEPT ![r] = end.run]
        /\ circuit' = end.circuit
        /\ UNCHANGED routes

\* executeHandler: the handler returns success, returns failure, or throws or
\* runs into the timeout. Only the last counts against the route.
KeptActiveOnFailure(r, h, outcome) == IF outcome = "throws" THEN active ELSE active \ {Id(r, h)}  \* mutant
NoLongerActive(r, h, outcome) == active \ {Id(r, h)}

HandlerEnds(r, h, outcome) ==
    /\ run[r][h] = "running"
    /\ run' = [run EXCEPT ![r][h] = IF outcome = "succeeds" THEN "succeeded" ELSE "failed"]
    /\ circuit' = [circuit EXCEPT ![h] = IF outcome = "throws" THEN Failed(@) ELSE Reset(@)]
    /\ active' = NoLongerActive(r, h, outcome)
    /\ UNCHANGED routes

\* What executeWithConcurrencyLimit waits for, the results it has when it stops
\* waiting, and whether the loop over them comes to the end.
Started(r) == Filter(ByPriority, {h \in Handlers : run[r][h] # "none"})
Awaited(i) == i < MaxHandlers \/ MaxHandlers = 1
Results(r) == {h \in Handlers : run[r][h] \in {"succeeded", "failed"}}
RouteReturns(r) == \A i \in DOMAIN Started(r) : Awaited(i) => Started(r)[i] \in Results(r)
HasHole(r) ==
    \E i, k \in DOMAIN Started(r) : i < k /\ Started(r)[i] \notin Results(r) /\ Started(r)[k] \in Results(r)
Matched(r) == Started(r) # <<>> /\ ~HasHole(r)

(***************************************************************************)
(* addRoute, removeRoute, and the end of the minute an open circuit waits.  *)
(* Removing a route drops its circuit: an execution that is still under way *)
(* then creates a new one when it fails.                                    *)
(***************************************************************************)
AddRoute(h) ==
    /\ h \notin routes
    /\ routes' = routes \cup {h}
    /\ UNCHANGED <<circuit, active, run>>

RemoveRoute(h) ==
    /\ h \in routes
    /\ routes' = routes \ {h}
    /\ circuit' = [circuit EXCEPT ![h] = ClosedRoute]
    /\ UNCHANGED <<active, run>>

NextAttemptDue(h) ==
    /\ circuit[h].state = "open" /\ ~circuit[h].due
    /\ circuit' = [circuit EXCEPT ![h].due = TRUE]
    /\ UNCHANGED <<routes, active, run>>

-----------------------------------------------------------------------------
RouterTypeOK ==
    /\ routes \subseteq Handlers
    /\ circuit \in [Handlers -> [state : {"closed", "open", "half_open"}, failures : 0..Threshold, due : BOOLEAN]]
    /\ active \subseteq Handlers \X Events
    /\ run \in [Requests -> [Handlers -> {"none", "running", "succeeded", "failed"}]]

\* No slot of the limit is leaked: an id in activeHandlers is that of a handler
\* in execution, also after failures, timeouts and refusals.
SlotsInUse == \A id \in active : \E r \in Requests, h \in Handlers : run[r][h] = "running" /\ id = Id(r, h)
=============================================================================
