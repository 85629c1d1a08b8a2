---------------------------- MODULE MCRedisQueue ----------------------------
(* Two worker processes and an API process on one Redis server.            *)
EXTENDS RedisQueue, TLC

Symmetry == Permutations(Worker)
=============================================================================
