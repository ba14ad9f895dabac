--------------------------- MODULE MCCacheManager ---------------------------
EXTENDS CacheManager
CONSTANTS c1, c2

\* A company and a ticket of it: the ticket depends on the company.
MCTagsOf == [k \in Keys |-> IF k = "company" THEN {"company"} ELSE {"ticket"}]
MCRuleTag == [k \in Keys |-> k]
MCDependents == [k \in Keys |-> IF k = "company" THEN {"ticket"} ELSE {}]
MCAlone == [k \in Keys |-> {}]
MCSizeOf == [v \in Versions |-> v + 1]
MCSetters == Clients \cup Keys \cup {"flush"}
MCSweepers == Keys \cup {"cleanup"}
=============================================================================
