------------------------------ MODULE RedisClient ------------------------------
(***************************************************************************)
(* The client side that RedisExclusiveLock and RedisSharedLock have in     *)
(* common: the calls TryLock, Lock, Unlock and Renew of one lock object as *)
(* its goroutines run them, the lockValues table of the object, and the    *)
(* requests they exchange with the Redis server.  The two lock objects     *)
(* extend this module with the state of the server and with the Lua        *)
(* scripts that it runs.                                                   *)
(*                                                                         *)
(* One key is modelled: every entry of lockValues and every Redis key      *)
(* belongs to one user key, so locks on different keys do not interact.    *)
(***************************************************************************)
EXTENDS Integers, FiniteSets

CONSTANTS
  Goroutine,   \* callers of the lock objects
  Worker,      \* the goroutines that lock and unlock; the others only renew
  Instance,    \* lock objects, each in a process of its own
  InstanceOf,  \* the lock object that a goroutine calls
  Token,       \* what generateLockValue draws from (a bound: 128 random bits)
  None,        \* no entry in a table, no value under a key
  Second,      \* ticks of the clock in a second
  TTLs,        \* the durations, in ticks, that Lock and TryLock are asked for
  RenewTTLs,   \* the durations that Renew is asked for
  Rejected,    \* those that Renew of this lock object refuses by itself
  RetryCount,  \* LockOptions.RetryCount
  MaxRetries,  \* redis.Options.MaxRetries: how often go-redis sends again
  MaxLate,     \* bound on the requests that outlive their timeout
  Faults       \* what can go wrong, see FaultKinds

(* A random value is unique, so it also tells which object generated it.    *)
Value == Instance \X Token

(* "timeout":  a request or its reply is lost, or the request is delayed;   *)
(* "straggle": a delayed request may take effect after its call returned;   *)
(* "crash":    a process stops and starts again with an empty table;        *)
(* "overrun":  a holder may still be at work when the lock expires.         *)
FaultKinds == {"timeout", "straggle", "crash", "overrun"}

ASSUME ClientAssumption ==
  /\ Worker \subseteq Goroutine
  /\ InstanceOf \in [Goroutine -> Instance]
  /\ None \notin Value
  /\ None \notin Goroutine
  /\ Second \in Nat \ {0}
  /\ TTLs \subseteq Nat
  /\ RenewTTLs \subseteq Nat
  /\ Rejected \subseteq Nat
  /\ RetryCount \in Nat
  /\ MaxRetries \in Nat
  /\ MaxLate \in Nat
  /\ Faults \subseteq FaultKinds

VARIABLES
  lockValues,  \* the sync.Map of each lock object, at the modelled key
  call,        \* the call that a goroutine is in
  late,        \* requests in the network whose caller stopped waiting
  held,        \* history: the goroutine was told that it has the lock
  lease        \* history: ticks left of what the server granted to it

clientVars == <<lockValues, call, late, held, lease>>

Op == {"none", "lock", "unlock", "renew"}

Call == [pc      : {"ready", "load", "store", "eval", "reply", "wait"},
         op      : Op,
         ttl     : Nat,
         value   : Value \cup {None},
         attempt : Nat,     \* iterations of the loop in Lock
         sends   : Nat,     \* repetitions of the request by go-redis
         ok      : BOOLEAN] \* the reply of the script is 1

Ready == [pc |-> "ready", op |-> "none", ttl |-> 0, value |-> None,
          attempt |-> 0, sends |-> 0, ok |-> FALSE]

LateRequest == [from  : Goroutine \cup {None},
                op    : Op,
                value : Value \cup {None},
                ttl   : Nat]

Request(g) == [from |-> g, op |-> call[g].op,
               value |-> call[g].value, ttl |-> call[g].ttl]

(* int(ttl.Seconds()): the conversion drops the fraction of a second.       *)
Seconds(d) == (d \div Second) * Second

(* What a user of the library has to see to: durations are whole seconds,   *)
(* readers all use the same one, and one goroutine of a process locks and   *)
(* unlocks a key.                                                           *)
WholeSeconds == \A d \in TTLs \cup RenewTTLs : Seconds(d) = d

UniformTTL == \A d, e \in TTLs \cup RenewTTLs : d = e

OneWorkerPerInstance ==
  \A g, h \in Worker : InstanceOf[g] = InstanceOf[h] => g = h

ClientTypeOK ==
  /\ lockValues \in [Instance -> Value \cup {None}]
  /\ call \in [Goroutine -> Call]
  /\ late \in SUBSET LateRequest
  /\ held \in [Goroutine -> BOOLEAN]
  /\ lease \in [Goroutine -> Nat]

(* A goroutine outside a call has nothing left of an earlier one, and a     *)
(* call works with a value of its own lock object.                          *)
CallsOK ==
  \A g \in Goroutine :
    /\ call[g].pc = "ready" => call[g] = Ready
    /\ call[g].pc \in {"eval", "reply"} => call[g].value # None
    /\ call[g].value # None => call[g].value[1] = InstanceOf[g]
    /\ call[g].op \in {"lock", "unlock"} => g \in Worker
    /\ call[g].op = "lock" => call[g].ttl \in TTLs
    /\ call[g].op = "renew" => call[g].ttl \in RenewTTLs

TablesOK ==
  \A i \in Instance : lockValues[i] # None => lockValues[i][1] = i

(* A late request has a value of its sender; when the sender crashed, no    *)
(* call and no table has this value any more.                               *)
LateOK ==
  \A r \in late :
    /\ r.value # None
    /\ r.op = "lock" => r.ttl \in TTLs
    /\ r.op = "renew" => r.ttl \in RenewTTLs
    /\ r.from # None => r.value[1] = InstanceOf[r.from]
    /\ r.from = None => /\ \A i \in Instance : lockValues[i] # r.value
                       /\ \A g \in Goroutine : call[g].value # r.value

(* Without "straggle", a late request belongs to the call of its sender.    *)
LateInCall ==
  "straggle" \notin Faults =>
    \A r \in late :
      r.from # None => /\ call[r.from].op = r.op
                       /\ r.op # "lock" => call[r.from].pc \in {"eval", "reply"}

ClientInv == ClientTypeOK /\ CallsOK /\ TablesOK /\ LateOK /\ LateInCall

ClientInit ==
  /\ lockValues = [i \in Instance |-> None]
  /\ call = [g \in Goroutine |-> Ready]
  /\ late = {}
  /\ held = [g \in Goroutine |-> FALSE]
  /\ lease = [g \in Goroutine |-> 0]

-----------------------------------------------------------------------------
(* Calls begin.                                                             *)

Begin(g, op, d, attempt) ==
  /\ call[g].pc = "ready"
  /\ call' = [call EXCEPT ![g] = [Ready EXCEPT !.pc = "load", !.op = op,
                                               !.ttl = d, !.attempt = attempt]]

(* A goroutine that calls Unlock has left its critical section, however     *)
(* often it took the lock.                                                  *)
GiveUp(g) ==
  /\ held' = [held EXCEPT ![g] = FALSE]
  /\ lease' = [lease EXCEPT ![g] = 0]

(* A goroutine may ask for a lock that it already has.                      *)
BeginLock(g) ==
  /\ g \in Worker
  /\ \E d \in TTLs : Begin(g, "lock", d, 0)
  /\ UNCHANGED <<lockValues, late, held, lease>>

(* TryLock is the last round of the loop in Lock.                           *)
BeginTryLock(g) ==
  /\ g \in Worker
  /\ \E d \in TTLs : Begin(g, "lock", d, RetryCount)
  /\ UNCHANGED <<lockValues, late, held, lease>>

BeginUnlock(g) ==
  /\ g \in Worker
  /\ held[g]
  /\ Begin(g, "unlock", 0, 0)
  /\ GiveUp(g)
  /\ UNCHANGED <<lockValues, late>>

BeginRenew(g) ==
  /\ \E d \in RenewTTLs : Begin(g, "renew", d, 0)
  /\ UNCHANGED <<lockValues, late, held, lease>>

-----------------------------------------------------------------------------
(* getLockValue: Load and Store are two steps, others run in between.       *)

Return(g) == call' = [call EXCEPT ![g] = Ready]

(* The request is sent, unless Renew rejects its argument.                  *)
Proceed(g, v) ==
  IF call[g].op = "renew" /\ call[g].ttl \in Rejected
  THEN Return(g)
  ELSE call' = [call EXCEPT ![g].pc = "eval", ![g].value = v]

(* Mutant of Load: the table is never looked at.                            *)
LoadNothing(g) ==
  /\ call[g].pc = "load"
  /\ call' = [call EXCEPT ![g].pc = "store"]
  /\ UNCHANGED <<lockValues, late, held, lease>>

Load(g) ==
  /\ call[g].pc = "load"
  /\ LET v == lockValues[InstanceOf[g]] IN
       IF v # None
       THEN Proceed(g, v)
       ELSE call' = [call EXCEPT ![g].pc = "store"]
  /\ UNCHANGED <<lockValues, late, held, lease>>

(* A random value is one that is in use nowhere; which one does not matter. *)
Fresh(i, remote) ==
  {v \in {i} \X Token :
     /\ v \notin remote
     /\ \A j \in Instance : lockValues[j] # v
     /\ \A g \in Goroutine : call[g].value # v
     /\ \A r \in late : r.value # v}

Store(g, remote) ==
  /\ call[g].pc = "store"
  /\ Fresh(InstanceOf[g], remote) # {}
  /\ LET v == CHOOSE w \in Fresh(InstanceOf[g], remote) : TRUE IN
       /\ lockValues' = [lockValues EXCEPT ![InstanceOf[g]] = v]
       /\ Proceed(g, v)
  /\ UNCHANGED <<late, held, lease>>

-----------------------------------------------------------------------------
(* A script ran: what its reply makes of the lease of each goroutine.       *)

Renewed(q, ok) ==
  [h \in Goroutine |->
     IF ok /\ q.op = "renew" /\ lease[h] > 0 /\ q.value[1] = InstanceOf[h]
     THEN q.ttl
     ELSE lease[h]]

Evaluated(g, ok) ==
  /\ call' = [call EXCEPT ![g].pc = "reply", ![g].ok = ok]
  /\ lease' = IF ok /\ call[g].op = "lock"
              THEN [lease EXCEPT ![g] = call[g].ttl]
              ELSE Renewed(Request(g), ok)
  /\ UNCHANGED <<lockValues, late, held>>

EvaluatedLate(r, ok) ==
  /\ late' = late \ {r}
  /\ lease' = Renewed(r, ok)
  /\ UNCHANGED <<lockValues, call, held>>

-----------------------------------------------------------------------------
(* The reply arrives, and the call returns or goes round its loop.          *)

(* Without "straggle" a call returns only when all its requests are done.   *)
MayReturn(g, requests) ==
  "straggle" \in Faults \/ \A r \in requests : r.from # g

Replied(g, op, ok) == call[g].pc = "reply" /\ call[g].op = op /\ call[g].ok = ok

Acquired(g) ==
  /\ Replied(g, "lock", TRUE)
  /\ MayReturn(g, late)
  /\ Return(g)
  /\ held' = [held EXCEPT ![g] = TRUE]
  /\ UNCHANGED <<lockValues, late, lease>>

Refused(g) ==
  /\ Replied(g, "lock", FALSE)
  /\ call[g].attempt >= RetryCount
  /\ MayReturn(g, late)
  /\ Return(g)
  /\ UNCHANGED <<lockValues, late, held, lease>>

Backoff(g) ==
  /\ Replied(g, "lock", FALSE)
  /\ call[g].attempt < RetryCount
  /\ call' = [call EXCEPT ![g] = [Ready EXCEPT !.pc = "wait", !.op = "lock",
                                    !.ttl = call[g].ttl,
                                    !.attempt = call[g].attempt]]
  /\ UNCHANGED <<lockValues, late, held, lease>>

(* Mutant of Wake: the round is not counted.                                *)
WakeUncounted(g) ==
  /\ call[g].pc = "wait"
  /\ call' = [call EXCEPT ![g].pc = "load"]
  /\ UNCHANGED <<lockValues, late, held, lease>>

Wake(g) ==
  /\ call[g].pc = "wait"
  /\ call' = [call EXCEPT ![g].pc = "load", ![g].attempt = @ + 1]
  /\ UNCHANGED <<lockValues, late, held, lease>>

Cancel(g) ==
  /\ call[g].pc = "wait"
  /\ MayReturn(g, late)
  /\ Return(g)
  /\ UNCHANGED <<lockValues, late, held, lease>>

(* The value leaves the table in a step of its own, after the server ran.   *)
Released(g) ==
  /\ Replied(g, "unlock", TRUE)
  /\ MayReturn(g, late)
  /\ lockValues' = [lockValues EXCEPT ![InstanceOf[g]] = None]
  /\ Return(g)
  /\ UNCHANGED <<late, held, lease>>

NotHeld(g) ==
  /\ Replied(g, "unlock", FALSE)
  /\ MayReturn(g, late)
  /\ Return(g)
  /\ UNCHANGED <<lockValues, late, held, lease>>

RenewReturns(g) ==
  /\ \E ok \in BOOLEAN : Replied(g, "renew", ok)
  /\ MayReturn(g, late)
  /\ Return(g)
  /\ UNCHANGED <<lockValues, late, held, lease>>

-----------------------------------------------------------------------------
(* Timeouts: go-redis sends the same request again, or the call fails.      *)

Resend(g) ==
  /\ call[g].sends < MaxRetries
  /\ call' = [call EXCEPT ![g].pc = "eval", ![g].ok = FALSE,
                          ![g].sends = @ + 1]

Fail(g) == MayReturn(g, late') /\ Return(g)

(* A caller of Lock that never learns of its lock does not rely on it,      *)
(* unless it has the lock from an earlier call.                             *)
TimedOut(g) ==
  /\ "timeout" \in Faults
  /\ Resend(g) \/ Fail(g)
  /\ lease' = IF call[g].op = "lock" /\ ~held[g]
              THEN [lease EXCEPT ![g] = 0] ELSE lease
  /\ UNCHANGED <<lockValues, held>>

RequestLost(g) ==
  /\ call[g].pc = "eval"
  /\ late' = late
  /\ TimedOut(g)

RequestDelayed(g) ==
  /\ call[g].pc = "eval"
  /\ Cardinality(late) < MaxLate
  /\ late' = late \cup {Request(g)}
  /\ TimedOut(g)

ReplyLost(g) ==
  /\ call[g].pc = "reply"
  /\ late' = late
  /\ TimedOut(g)

-----------------------------------------------------------------------------
(* The process of a lock object crashes and starts again.                   *)

Crash(i) ==
  /\ "crash" \in Faults
  /\ lockValues' = [lockValues EXCEPT ![i] = None]
  /\ call' = [g \in Goroutine |-> IF InstanceOf[g] = i THEN Ready ELSE call[g]]
  /\ held' = [g \in Goroutine |-> InstanceOf[g] # i /\ held[g]]
  /\ lease' = [g \in Goroutine |-> IF InstanceOf[g] = i THEN 0 ELSE lease[g]]
  /\ late' = {IF r.from # None /\ InstanceOf[r.from] = i
              THEN [r EXCEPT !.from = None] ELSE r : r \in late}

-----------------------------------------------------------------------------
(* Time.                                                                    *)

Elapse ==
  /\ lease' = [g \in Goroutine |-> IF lease[g] = 0 THEN 0 ELSE lease[g] - 1]
  /\ UNCHANGED <<lockValues, call, late, held>>

(* From the grant to the release, whatever the lease says.                  *)
InSection(g) ==
  held[g] \/ call[g].op = "unlock" \/ Replied(g, "lock", TRUE)

(* Without "overrun" every holder is done before its lock can expire.       *)
MayExpire == "overrun" \in Faults \/ \A g \in Goroutine : ~InSection(g)

(* What a call does between its start and its end when nothing fails.       *)
Continue(g) ==
  \/ Load(g) \/ Acquired(g) \/ Refused(g) \/ Backoff(g) \/ Wake(g)
  \/ Released(g) \/ NotHeld(g) \/ RenewReturns(g)

Interrupt(g) ==
  Cancel(g) \/ RequestLost(g) \/ RequestDelayed(g) \/ ReplyLost(g)

BeginCall(g) ==
  BeginLock(g) \/ BeginTryLock(g) \/ BeginUnlock(g) \/ BeginRenew(g)
=============================================================================
