--------------------------- MODULE MCQueueManager ---------------------------
(* Instances of QueueManager.                                              *)
EXTENDS QueueManager

CONSTANTS a, b, c, w1, w2

MCZones == {"default", "zone1"}
MCPriorities == {5}
MCFingerprints == {"f", "g"}
OneZone == [id \in Ids |-> "default"]
OnePriority == [id \in Ids |-> 5]
Distinct == [id \in Ids |-> IF id = a THEN "f" ELSE "g"]
Duplicates == [id \in Ids |-> "f"]
SomeDuplicates == [id \in Ids |-> IF id = c THEN "g" ELSE "f"]
Now == {"none"}
NowOrLater == {"none", "future"}
=============================================================================
