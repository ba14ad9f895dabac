--------------------------- MODULE MCRedisBackend ---------------------------
(* Two requests in a queue that two processes share.                      *)
EXTENDS RedisBackend

CONSTANTS a, b, m1, m2

MCRank == [id \in Ids |-> IF id = a THEN 1 ELSE 2]
=============================================================================
