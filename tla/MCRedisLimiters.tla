---------------------------- MODULE MCRedisLimiters ----------------------------
(* RedisLimiters for TLC: requests and callers are interchangeable.  Where *)
(* all requests use one shard, or none, all of them are made; with the two *)
(* shards of v4 in use there are two.                                      *)
EXTENDS RedisLimiters, TLC

Symmetry == Permutations(Requests) \cup Permutations(Callers)

Made == {r \in Requests : pc[r] = "new"}

MCInit ==
  /\ Init
  /\ IF kind = "batch" /\ version = "v4" THEN Cardinality(Made) = 2 ELSE Made = Requests

MCSpec == MCInit /\ [][Next]_vars
================================================================================
