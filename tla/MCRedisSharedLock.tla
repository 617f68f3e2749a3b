-------------------------- MODULE MCRedisSharedLock --------------------------
(* Small instances of RedisSharedLock: two processes with one caller each.  *)
(* A process has the name of its caller, so the two are alike.              *)
EXTENDS RedisSharedLock, TLC

CONSTANTS g1, g2

OneCallerEach == [g \in {g1, g2} |-> g]
Alike == Permutations({g1, g2})
=============================================================================
