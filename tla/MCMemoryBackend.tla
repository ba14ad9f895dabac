-------------------------- MODULE MCMemoryBackend --------------------------
(* An instance of MemoryBackend: three requests of one zone, two of which  *)
(* share a priority queue.                                                 *)
EXTENDS MemoryBackend

CONSTANTS a, b, c

MCZones == {"default", "zone1"}
MCPriorities == {5, 8}
OneZone == [id \in Ids |-> "default"]
LastUrgent == [id \in Ids |-> IF id = c THEN 8 ELSE 5]

MCStatuses == {"pending"}
MCPhases == {"future"}
=============================================================================
