--------------------------- MODULE MCReliability ---------------------------
EXTENDS ReliabilityManager
CONSTANTS c1, c2, c3

\* c1 is the urgent call, and all are for one endpoint.
MCEndpointOf == [x \in Calls |-> "companies"]
MCPriorityOf == [x \in Calls |-> 5]
MCUrgencyOf == [x \in Calls |-> IF x = c1 THEN 2 ELSE 1]
=============================================================================
