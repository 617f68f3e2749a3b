------------------------- MODULE MCRedisExclusiveLock -------------------------
(* Small instances of RedisExclusiveLock: which goroutine calls which lock  *)
(* object.                                                                  *)
EXTENDS RedisExclusiveLock, TLC

CONSTANTS g1, g2, a

(* Two processes with one caller each: a process has the name of its caller,*)
(* so the two are alike.                                                    *)
OneCallerEach == [g \in {g1, g2} |-> g]
Alike == Permutations({g1, g2})

(* Two callers of one process: they share its lock object.                  *)
SharedObject == [g \in {g1, g2} |-> a]
=============================================================================
