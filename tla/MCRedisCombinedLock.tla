------------------------- MODULE MCRedisCombinedLock -------------------------
(* Small instances of RedisCombinedLock: two processes with one caller each.*)
(* A process has the name of its caller, so the two are alike.              *)
EXTENDS RedisCombinedLock, TLC

CONSTANTS g1, g2

OneCallerEach == [g \in {g1, g2} |-> g]
Alike == Permutations({g1, g2})

NoPrefix == <<>>

(* As in the documented configurations (SUMMARY.md:160).                    *)
LockPrefix == <<"lock:">>
=============================================================================
