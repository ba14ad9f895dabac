-------------------------- MODULE MCCircuitBreaker --------------------------
(* An instance of CircuitBreaker: two overlapping operations, thresholds   *)
(* of two, a window and an open period of two ticks.                       *)
EXTENDS CircuitBreaker

CONSTANTS p, q

AllStates == States
=============================================================================
