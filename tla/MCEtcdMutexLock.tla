---------------------------- MODULE MCEtcdMutexLock ----------------------------
(* Small instances of EtcdMutexLock: which goroutine calls which lock       *)
(* object, and which sessions an object can have.                           *)
EXTENDS EtcdMutexLock

CONSTANTS g1, g2, a, s1, s2, s3

(* Two processes with one caller each; a process has the name of its caller.*)
OneCallerEach == [g \in {g1, g2} |-> g]
TwoAndOne == [s \in {s1, s2, s3} |-> IF s = s3 THEN g2 ELSE g1]

(* Two callers of one process: they share its lock object.                  *)
SharedObject == [g \in {g1, g2} |-> a]
AllShared == [s \in {s1, s2, s3} |-> a]
=============================================================================
