---------------------------- MODULE RedisSharedLock ----------------------------
(***************************************************************************)
(* RedisSharedLock: the Redis keys shared_lock:<key>:counter and           *)
(* shared_lock:<key>:holders, the scripts that read and write them, and    *)
(* the clients of module RedisClient.  Each script that sets the expiry of *)
(* one key sets that of the other one too, so one deadline is enough; the  *)
(* third key that the scripts expire and delete, shared_lock:<key>, is     *)
(* never written.                                                          *)
(***************************************************************************)
EXTENDS RedisClient

CONSTANT MaxCount  \* bound on the counter

(* Renew does not check its duration.                                       *)
ASSUME SharedAssumption == Rejected = {} /\ MaxCount \in Nat

VARIABLES
  count,    \* the counter, 0 when there is no such key
  holders,  \* the set of lock values
  ttl       \* ticks until both keys expire, 0 when there are none

serverVars == <<count, holders, ttl>>
vars == <<clientVars, serverVars>>

Init ==
  /\ ClientInit
  /\ count = 0
  /\ holders = {}
  /\ ttl = 0

Delete == count' = 0 /\ holders' = {} /\ ttl' = 0

(* The keys are written and get an expiry; with no full second they go.     *)
Expire(n, H, d) ==
  IF Seconds(d) = 0
  THEN Delete
  ELSE count' = n /\ holders' = H /\ ttl' = Seconds(d)

(* locked: the key that the script takes for the exclusive lock exists.     *)
TryLockScript(v, d, locked, ok) ==
  \/ /\ ok
     /\ ~locked
     /\ count < MaxCount
     /\ Expire(count + 1, holders \cup {v}, d)
  \/ /\ ~ok
     /\ locked
     /\ UNCHANGED serverVars

(* Mutants of UnlockScript: the counter falls to zero and stays; the        *)
(* members are not looked at; the keys go while one reader is left.         *)
KeepAtZero(v, ok) ==
  \/ /\ ok
     /\ v \in holders
     /\ count' = count - 1
     /\ holders' = holders \ {v}
     /\ ttl' = ttl
  \/ ~ok /\ v \notin holders /\ UNCHANGED serverVars

AnyMember(v, ok) ==
  /\ ok
  /\ IF count - 1 <= 0
     THEN Delete
     ELSE count' = count - 1 /\ holders' = holders \ {v} /\ ttl' = ttl

DeleteEarly(v, ok) ==
  \/ /\ ok
     /\ v \in holders
     /\ IF count - 1 <= 1
        THEN Delete
        ELSE count' = count - 1 /\ holders' = holders \ {v} /\ ttl' = ttl
  \/ ~ok /\ v \notin holders /\ UNCHANGED serverVars

UnlockScript(v, ok) ==
  \/ /\ ok
     /\ v \in holders
     /\ IF count - 1 <= 0
        THEN Delete
        ELSE /\ count' = count - 1
             /\ holders' = holders \ {v}
             /\ ttl' = ttl
  \/ /\ ~ok
     /\ v \notin holders
     /\ UNCHANGED serverVars

RenewScript(v, d, ok) ==
  \/ /\ ok
     /\ v \in holders
     /\ Expire(count, holders, d)
  \/ /\ ~ok
     /\ v \notin holders
     /\ UNCHANGED serverVars

Script(q, locked, ok) ==
  \/ q.op = "lock" /\ TryLockScript(q.value, q.ttl, locked, ok)
  \/ q.op = "unlock" /\ UnlockScript(q.value, ok)
  \/ q.op = "renew" /\ RenewScript(q.value, q.ttl, ok)

Eval(g, locked) ==
  /\ call[g].pc = "eval"
  /\ \E ok \in BOOLEAN : Script(Request(g), locked, ok) /\ Evaluated(g, ok)

EvalLate(locked) ==
  \E r \in late, ok \in BOOLEAN : Script(r, locked, ok) /\ EvaluatedLate(r, ok)

Tick ==
  /\ ttl # 1 \/ MayExpire
  /\ IF ttl <= 1
     THEN Delete
     ELSE ttl' = ttl - 1 /\ UNCHANGED <<count, holders>>
  /\ Elapse

(* The lock key belongs to the exclusive lock: here it may exist or not.    *)
Step(g) ==
  \/ Continue(g) /\ UNCHANGED serverVars
  \/ Store(g, holders) /\ UNCHANGED serverVars
  \/ \E locked \in BOOLEAN : Eval(g, locked)

Next ==
  \/ \E g \in Goroutine :
       \/ BeginCall(g) /\ UNCHANGED serverVars
       \/ Step(g)
       \/ Interrupt(g) /\ UNCHANGED serverVars
  \/ \E locked \in BOOLEAN : EvalLate(locked)
  \/ \E i \in Instance : Crash(i) /\ UNCHANGED serverVars
  \/ Tick

Spec == Init /\ [][Next]_vars

(* Goroutines are scheduled, requests are answered, and time passes; no     *)
(* goroutine has to start a call.                                           *)
Fairness ==
  /\ \A g \in Goroutine : WF_vars(Step(g))
  /\ WF_vars(\E locked \in BOOLEAN : EvalLate(locked))
  /\ WF_vars(Tick)

FairSpec == Spec /\ Fairness

-----------------------------------------------------------------------------
(* Every variable has its type, and the keys exist exactly while they have  *)
(* time left.                                                               *)
TypeOK ==
  /\ ClientTypeOK
  /\ count \in Nat
  /\ holders \in SUBSET Value
  /\ ttl \in Nat
  /\ count = 0 <=> ttl = 0

(* The counter, which alone keeps writers out, is never below the number of *)
(* holders: no crash, repeated request or shared lock value makes a member  *)
(* of the set invisible to TryLock of the exclusive lock.                   *)
HoldersCounted == IsFiniteSet(holders) /\ Cardinality(holders) <= count

(* Why ReaderCounted holds: a lease is backed by a member that lives at     *)
(* least as long and that no request of a crashed process can remove.       *)
LeaseBacked ==
  \A g \in Goroutine : lease[g] > 0 =>
    /\ g \in Worker
    /\ call[g].op # "unlock"
    /\ lease[g] <= ttl
    /\ \A d \in TTLs \cup RenewTTLs : lease[g] <= d
    /\ \E v \in holders : /\ v[1] = InstanceOf[g]
                         /\ \A r \in late : r.from = None => r.value # v

LeaseInv == TypeOK /\ ClientInv /\ HoldersCounted /\ LeaseBacked

(* A reader within its lease is counted, under a value of its own, whatever *)
(* the other readers do: they release, they crash, their requests come      *)
(* twice or late.                                                           *)
ReaderCounted ==
  \A g \in Goroutine :
    lease[g] > 0 => count > 0 /\ \E v \in holders : v[1] = InstanceOf[g]

(* The hold of a process that crashed is known to no call, no table and no  *)
(* request: its TTL frees it (SUMMARY.md:254).                              *)
Orphaned(v) ==
  /\ v \in holders
  /\ \A i \in Instance : lockValues[i] # v
  /\ \A g \in Goroutine : call[g].value # v
  /\ \A r \in late : r.value # v

OrphanExpires == \A v \in Value : Orphaned(v) ~> v \notin holders
=============================================================================
