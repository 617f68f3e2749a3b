-------------------------- MODULE MCEtcdCombinedLock --------------------------
(* Small instances of EtcdCombinedLock: two processes with one caller each; *)
(* a process has the name of its caller.                                    *)
EXTENDS EtcdCombinedLock, TLC

CONSTANTS g1, g2, l1, l2, l3

OneCallerEach == [g \in {g1, g2} |-> g]

(* EtcdConfig.Prefix left out.                                              *)
NoPrefix == <<>>

(* One process can have two leases at a time.                               *)
TwoAndOne == [l \in {l1, l2, l3} |-> IF l = l3 THEN g2 ELSE g1]

Alike == Permutations({l1, l2})
=============================================================================
