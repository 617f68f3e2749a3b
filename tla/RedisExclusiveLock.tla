-------------------------- MODULE RedisExclusiveLock --------------------------
(***************************************************************************)
(* RedisExclusiveLock: the Redis key exclusive:<key>, the scripts that     *)
(* read and write it, and the clients of module RedisClient.               *)
(***************************************************************************)
EXTENDS RedisClient

(* Renew checks its duration.                                               *)
ASSUME ExclusiveAssumption == Rejected = {0}

VARIABLES
  stored,  \* the value under the lock key
  ttl      \* ticks until the lock key expires, 0 when there is none

serverVars == <<stored, ttl>>
vars == <<clientVars, serverVars>>

Init ==
  /\ ClientInit
  /\ stored = None
  /\ ttl = 0

(* Mutant of Expire: the script sets the key and forgets the expiry.        *)
NoExpiry(v, d) == stored' = v /\ ttl' = 0

(* EXPIRE with no full second deletes the key.                              *)
Expire(v, d) ==
  IF Seconds(d) = 0
  THEN stored' = None /\ ttl' = 0
  ELSE stored' = v /\ ttl' = Seconds(d)

(* Mutants of TryLockScript: SET in the place of SETNX, and a lock value    *)
(* that may enter again.                                                    *)
SetAlways(v, d, readers, ok) ==
  IF ok THEN readers = 0 /\ Expire(v, d) ELSE readers > 0 /\ UNCHANGED serverVars

Reentrant(v, d, readers, ok) ==
  \/ ok /\ readers = 0 /\ stored \in {None, v} /\ Expire(v, d)
  \/ ~ok /\ (readers > 0 \/ stored \notin {None, v}) /\ UNCHANGED serverVars

(* readers is the number under the counter key that the script looks at.    *)
TryLockScript(v, d, readers, ok) ==
  \/ /\ ok
     /\ readers = 0
     /\ stored = None
     /\ Expire(v, d)
  \/ /\ ~ok
     /\ readers > 0 \/ stored # None
     /\ UNCHANGED serverVars

(* Mutant of UnlockScript: the value under the key is not compared.         *)
UnlockAnyValue(v, ok) == ok /\ stored' = None /\ ttl' = 0

UnlockScript(v, ok) ==
  \/ /\ ok
     /\ stored = v
     /\ stored' = None
     /\ ttl' = 0
  \/ /\ ~ok
     /\ stored # v
     /\ UNCHANGED serverVars

RenewScript(v, d, ok) ==
  \/ /\ ok
     /\ stored = v
     /\ Expire(v, d)
  \/ /\ ~ok
     /\ stored # v
     /\ UNCHANGED serverVars

Script(q, readers, ok) ==
  \/ q.op = "lock" /\ TryLockScript(q.value, q.ttl, readers, ok)
  \/ q.op = "unlock" /\ UnlockScript(q.value, ok)
  \/ q.op = "renew" /\ RenewScript(q.value, q.ttl, ok)

Eval(g, readers) ==
  /\ call[g].pc = "eval"
  /\ \E ok \in BOOLEAN : Script(Request(g), readers, ok) /\ Evaluated(g, ok)

EvalLate(readers) ==
  \E r \in late, ok \in BOOLEAN : Script(r, readers, ok) /\ EvaluatedLate(r, ok)

Tick ==
  /\ ttl # 1 \/ MayExpire
  /\ ttl' = IF ttl = 0 THEN 0 ELSE ttl - 1
  /\ stored' = IF ttl = 1 THEN None ELSE stored
  /\ Elapse

(* The counter key belongs to the shared lock: here it has any value.       *)
Step(g) ==
  \/ Continue(g) /\ UNCHANGED serverVars
  \/ Store(g, {stored}) /\ UNCHANGED serverVars
  \/ \E readers \in 0..1 : Eval(g, readers)

Next ==
  \/ \E g \in Goroutine :
       \/ BeginCall(g) /\ UNCHANGED serverVars
       \/ Step(g)
       \/ Interrupt(g) /\ UNCHANGED serverVars
  \/ \E readers \in 0..1 : EvalLate(readers)
  \/ \E i \in Instance : Crash(i) /\ UNCHANGED serverVars
  \/ Tick

Spec == Init /\ [][Next]_vars

(* Goroutines are scheduled, requests are answered, and time passes; no     *)
(* goroutine has to start a call.                                           *)
Fairness ==
  /\ \A g \in Goroutine : WF_vars(Step(g))
  /\ WF_vars(\E readers \in 0..1 : EvalLate(readers))
  /\ WF_vars(Tick)

FairSpec == Spec /\ Fairness

-----------------------------------------------------------------------------
(* Every variable has its type, and the key has a value exactly while it    *)
(* has time left.                                                           *)
TypeOK ==
  /\ ClientTypeOK
  /\ stored \in Value \cup {None}
  /\ ttl \in Nat
  /\ stored = None <=> ttl = 0

(* At most one goroutine is within a lease that the server granted          *)
(* (TryLock: "同一时间只能有一个客户端持有"): neither crashes, nor lost, repeated  *)
(* or delayed requests, nor holders that overrun their lease give the lock  *)
(* to a second client before the first one gave it up or ran out of time.   *)
LeaseExclusion ==
  \A g, h \in Goroutine : lease[g] > 0 /\ lease[h] > 0 => g = h

(* Why LeaseExclusion holds: a lease is backed by the key, which has a      *)
(* value of the goroutine's object and lives at least as long as the lease; *)
(* its goroutine is not unlocking, and no request of a crashed process can  *)
(* remove the key that backs it.                                            *)
LeaseBacked ==
  \A g \in Goroutine : lease[g] > 0 =>
    /\ g \in Worker
    /\ call[g].op # "unlock"
    /\ stored # None
    /\ stored[1] = InstanceOf[g]
    /\ lease[g] <= ttl
    /\ \A r \in late : r.from = None => r.value # stored

LeaseInv == TypeOK /\ ClientInv /\ LeaseBacked

(* A holder within its lease can still name its lock: the value in the      *)
(* table of its object is the value under the key, so that its Unlock and   *)
(* its Renew will succeed.                                                  *)
HolderCanRelease ==
  \A g \in Goroutine :
    held[g] /\ lease[g] > 0 => stored = lockValues[InstanceOf[g]]

(* No request is sent twice, and none takes effect after its call.          *)
RequestsRunOnce ==
  "timeout" \notin Faults \/ (MaxRetries = 0 /\ "straggle" \notin Faults)

(* Callers that are done before the lock expires exclude each other, also   *)
(* when they share one lock object and hence one lock value, whatever call  *)
(* fails, as long as requests run once.  With resends it does not hold: the *)
(* script of an Unlock ran, its reply is lost, a second goroutine takes the *)
(* lock under the same value, and the Unlock that is sent again deletes it. *)
HeldExclusion ==
  RequestsRunOnce /\ "overrun" \notin Faults =>
    \A g, h \in Goroutine : held[g] /\ held[h] => g = h

(* Nobody has the lock that is there: its process crashed, its TryLock or   *)
(* its Unlock failed, or it released another value.                         *)
Orphaned == stored # None /\ \A g \in Goroutine : ~InSection(g)

(* Such a lock expires, unless somebody renews it under its own value.      *)
OrphanExpires ==
  Orphaned ~> \/ stored = None
              \/ \E g \in Goroutine : call[g].op = "renew" /\ call[g].value = stored

(* Every call returns: Lock after at most RetryCount + 1 rounds, whoever    *)
(* holds the lock.                                                          *)
CallsReturn ==
  \A g \in Goroutine : call[g].pc # "ready" ~> call[g].pc = "ready"

(* The leases behave as module ReadWriteLease says.                         *)
Abstract == INSTANCE ReadWriteLease WITH
  Client <- Goroutine, exclusive <- lease,
  shared <- [g \in Goroutine |-> 0]

ImplementsLease == Abstract!Spec
=============================================================================
