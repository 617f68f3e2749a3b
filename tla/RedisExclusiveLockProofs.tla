---------------------- MODULE RedisExclusiveLockProofs ----------------------
(***************************************************************************)
(* Type correctness of RedisExclusiveLock, the exclusion of leases, their  *)
(* refinement of ReadWriteLease, what a holder can rely on, and that       *)
(* holders of one lock object exclude each other, for every number of      *)
(* goroutines, lock objects, retries and late requests.                    *)
(***************************************************************************)
EXTENDS RedisExclusiveLock, RedisClientProofs

ServerTypeOK ==
  /\ stored \in Value \cup {None}
  /\ ttl \in Nat
  /\ stored = None <=> ttl = 0

(* A script leaves the server in its type when its value is one.            *)
LEMMA ScriptType ==
  ASSUME ServerTypeOK, NEW q, q.value \in Value, q.ttl \in Nat,
         NEW readers, NEW ok, Script(q, readers, ok)
  PROVE  ServerTypeOK'
<1>1. CASE UNCHANGED serverVars
  BY <1>1 DEF serverVars, ServerTypeOK
<1>2. CASE Expire(q.value, q.ttl)
  BY <1>2, SecondsNat, ClientAssumption DEF Expire, ServerTypeOK
<1>3. CASE stored' = None /\ ttl' = 0
  BY <1>3 DEF ServerTypeOK
<1>. QED
  BY <1>1, <1>2, <1>3
     DEF Script, TryLockScript, UnlockScript, RenewScript

(* A script runs, whatever it finds under the counter key.                  *)
LEMMA EvalInv ==
  ASSUME ServerTypeOK, ClientInv, NEW g \in Goroutine, NEW readers, Eval(g, readers)
  PROVE  ServerTypeOK' /\ ClientInv'
<1>1. PICK ok \in BOOLEAN : Script(Request(g), readers, ok) /\ Evaluated(g, ok)
  BY DEF Eval
<1>2. call[g].pc = "eval"
  BY DEF Eval
<1>3. Request(g).value \in Value /\ Request(g).ttl \in Nat
  BY <1>2 DEF Request, ClientInv, ClientTypeOK, CallsOK, Call
<1>. QED
  BY <1>1, <1>2, <1>3, ScriptType, EvaluatedInv

LEMMA EvalLateInv ==
  ASSUME ServerTypeOK, ClientInv, NEW readers, EvalLate(readers)
  PROVE  ServerTypeOK' /\ ClientInv'
<1>1. PICK r \in late, ok \in BOOLEAN :
        Script(r, readers, ok) /\ EvaluatedLate(r, ok)
  BY DEF EvalLate
<1>2. r.value \in Value /\ r.ttl \in Nat
  BY DEF ClientInv, ClientTypeOK, LateOK, LateRequest
<1>. QED
  BY <1>1, <1>2, ScriptType, EvaluatedLateInv

LEMMA TickInv ==
  ASSUME ServerTypeOK, ClientInv, Tick
  PROVE  ServerTypeOK' /\ ClientInv'
BY ElapseInv DEF Tick, ServerTypeOK

(* The step lemma of the client, with the server's part of each step.       *)
LEMMA NextInv ==
  ASSUME ServerTypeOK, ClientInv, [Next]_vars
  PROVE  ServerTypeOK' /\ ClientInv'
<1>1. CASE ClientStep({stored}) /\ UNCHANGED serverVars
  BY <1>1, ClientStepInv DEF ServerTypeOK, serverVars
<1>4. ASSUME NEW g \in Goroutine, NEW readers \in 0..1, Eval(g, readers)
      PROVE  ServerTypeOK' /\ ClientInv'
  BY <1>4, EvalInv
<1>5. ASSUME NEW readers \in 0..1, EvalLate(readers)
      PROVE  ServerTypeOK' /\ ClientInv'
  BY <1>5, EvalLateInv
<1>6. CASE Tick
  BY <1>6, TickInv
<1>7. CASE UNCHANGED vars
  BY <1>7 DEF vars, clientVars, serverVars, ServerTypeOK, ClientInv,
     ClientTypeOK, CallsOK, TablesOK, LateOK, LateInCall, Request
<1>. QED
  BY <1>1, <1>4, <1>5, <1>6, <1>7 DEF Next, Step, ClientStep

LEMMA ClientInvariant == Spec => [](ServerTypeOK /\ ClientInv)
<1>1. Init => ServerTypeOK /\ ClientInv
  BY ClientInitInv DEF Init, ServerTypeOK
<1>2. ServerTypeOK /\ ClientInv /\ [Next]_vars => (ServerTypeOK /\ ClientInv)'
  BY NextInv
<1>. QED
  BY <1>1, <1>2, PTL DEF Spec

(* Every reachable state is well typed, whatever goes wrong, and the lock   *)
(* key is never without an expiry.                                          *)
THEOREM TypeCorrect == Spec => []TypeOK
<1>1. ServerTypeOK /\ ClientInv => TypeOK
  BY DEF TypeOK, ServerTypeOK, ClientInv
<1>. QED
  BY <1>1, ClientInvariant, PTL
-----------------------------------------------------------------------------
(* Leases end, and the key lives on: then LeaseBacked is kept.              *)
LEMMA BackedKept ==
  ASSUME LeaseBacked, ClientInv, LeasesEndOnly, UNCHANGED serverVars
  PROVE  LeaseBacked'
BY DEF LeaseBacked, LeasesEndOnly, serverVars, ClientInv, ClientTypeOK

LEMMA BackedTick ==
  ASSUME LeaseBacked, ClientInv, ServerTypeOK, Tick
  PROVE  LeaseBacked'
BY DEF LeaseBacked, ClientInv, ClientTypeOK, ServerTypeOK, Tick, Elapse

(* The scripts, for the goroutine that waits for the answer ...             *)
LEMMA BackedEval ==
  ASSUME OneWorkerPerInstance, WholeSeconds,
         LeaseBacked, ClientInv, ServerTypeOK,
         NEW g \in Goroutine, NEW readers, Eval(g, readers)
  PROVE  LeaseBacked'
<1>1. PICK ok \in BOOLEAN : Script(Request(g), readers, ok) /\ Evaluated(g, ok)
  BY DEF Eval
<1>2. /\ call[g].pc = "eval"
      /\ call[g].value \in Value
      /\ call[g].value[1] = InstanceOf[g]
      /\ call[g].ttl \in Nat
      /\ \A r \in late : r.from = None => r.value # call[g].value
  BY DEF Eval, ClientInv, ClientTypeOK, CallsOK, LateOK, Call
<1>3. late' = late /\ \A h \in Goroutine : call'[h].op = call[h].op
  BY <1>1 DEF Evaluated, ClientInv, ClientTypeOK, Call
<1>4. CASE ~ok
  <2>1. UNCHANGED serverVars
    BY <1>1, <1>4 DEF Script, TryLockScript, UnlockScript, RenewScript
  <2>2. lease' = lease
    BY <1>1, <1>4 DEF Evaluated, Renewed, ClientInv, ClientTypeOK
  <2>. QED
    BY <1>3, <2>1, <2>2, BackedKept DEF LeasesEndOnly
<1>5. CASE ok /\ call[g].op = "lock"
  <2>1. stored = None /\ Expire(call[g].value, call[g].ttl)
    BY <1>1, <1>5 DEF Script, TryLockScript, Request
  <2>2. lease' = [lease EXCEPT ![g] = call[g].ttl]
    BY <1>1, <1>5 DEF Evaluated
  <2>3. g \in Worker /\ Seconds(call[g].ttl) = call[g].ttl
    BY <1>5 DEF ClientInv, CallsOK, WholeSeconds
  <2>4. \A h \in Goroutine : ~(lease[h] > 0)
    BY <2>1 DEF LeaseBacked
  <2>5. \A h \in Goroutine : lease'[h] > 0 => h = g /\ lease'[h] = call[g].ttl
    BY <2>2, <2>4 DEF ClientInv, ClientTypeOK
  <2>. QED
    BY <1>2, <1>3, <1>5, <2>1, <2>3, <2>5, ClientAssumption
       DEF LeaseBacked, Expire
<1>6. CASE ok /\ call[g].op = "unlock"
  <2>1. stored = call[g].value
    BY <1>1, <1>6 DEF Script, UnlockScript, Request
  <2>2. lease' = lease
    BY <1>1, <1>6 DEF Evaluated, Renewed, Request, ClientInv, ClientTypeOK
  <2>3. \A h \in Goroutine : ~(lease[h] > 0)
    BY <1>2, <1>6, <2>1 DEF LeaseBacked, OneWorkerPerInstance, ClientInv, CallsOK
  <2>. QED
    BY <2>2, <2>3 DEF LeaseBacked
<1>7. CASE ok /\ call[g].op = "renew"
  <2>1. stored = call[g].value /\ Expire(call[g].value, call[g].ttl)
    BY <1>1, <1>7 DEF Script, RenewScript, Request
  <2>2. Seconds(call[g].ttl) = call[g].ttl
    BY <1>7 DEF ClientInv, CallsOK, WholeSeconds
  <2>3. \A h \in Goroutine : lease'[h] > 0 => lease[h] > 0 /\ lease'[h] = call[g].ttl
    BY <1>1, <1>2, <1>7, <2>1
       DEF Evaluated, Renewed, Request, LeaseBacked, ClientInv, ClientTypeOK
  <2>. QED
    BY <1>2, <1>3, <2>1, <2>2, <2>3, ClientAssumption DEF LeaseBacked, Expire
<1>. QED
  BY <1>1, <1>4, <1>5, <1>6, <1>7 DEF Script, Request

(* ... and for a late request, which makes no lease.                        *)
LEMMA BackedEvalLate ==
  ASSUME OneWorkerPerInstance, WholeSeconds, "straggle" \notin Faults,
         LeaseBacked, ClientInv, ServerTypeOK,
         NEW readers, EvalLate(readers)
  PROVE  LeaseBacked'
<1>1. PICK r \in late, ok \in BOOLEAN :
        Script(r, readers, ok) /\ EvaluatedLate(r, ok)
  BY DEF EvalLate
<1>2. r.value \in Value /\ r.ttl \in Nat /\ r.from \in Goroutine \cup {None}
  BY DEF ClientInv, ClientTypeOK, LateOK, LateRequest
<1>3. late' \subseteq late /\ call' = call
  BY <1>1 DEF EvaluatedLate
<1>4. r.op # "renew" => lease' = lease
  BY <1>1 DEF EvaluatedLate, Renewed, ClientInv, ClientTypeOK
<1>5. CASE ~ok
  <2>1. UNCHANGED serverVars
    BY <1>1, <1>5 DEF Script, TryLockScript, UnlockScript, RenewScript
  <2>2. lease' = lease
    BY <1>1, <1>5 DEF EvaluatedLate, Renewed, ClientInv, ClientTypeOK
  <2>. QED
    BY <1>3, <2>1, <2>2, BackedKept DEF LeasesEndOnly
<1>6. CASE ok /\ r.op = "lock"
  <2>1. stored = None
    BY <1>1, <1>6 DEF Script, TryLockScript
  <2>. QED
    BY <1>4, <1>6, <2>1 DEF LeaseBacked
<1>7. CASE ok /\ r.op = "unlock"
  <2>1. stored = r.value
    BY <1>1, <1>7 DEF Script, UnlockScript
  <2>2. ASSUME NEW h \in Goroutine, lease[h] > 0 PROVE FALSE
    <3>1. r.from # None
      BY <2>1, <2>2 DEF LeaseBacked
    <3>2. r.from \in Worker /\ call[r.from].op = "unlock"
      BY <1>2, <1>7, <3>1 DEF ClientInv, LateInCall, CallsOK
    <3>3. InstanceOf[r.from] = InstanceOf[h]
      BY <2>1, <2>2, <3>1 DEF LeaseBacked, ClientInv, LateOK
    <3>. QED
      BY <2>2, <3>2, <3>3 DEF LeaseBacked, OneWorkerPerInstance
  <2>. QED
    BY <1>4, <1>7, <2>2 DEF LeaseBacked
<1>8. CASE ok /\ r.op = "renew"
  <2>1. stored = r.value /\ Expire(r.value, r.ttl)
    BY <1>1, <1>8 DEF Script, RenewScript
  <2>2. Seconds(r.ttl) = r.ttl
    BY <1>8 DEF ClientInv, LateOK, WholeSeconds
  <2>3. \A h \in Goroutine : lease'[h] > 0 => lease[h] > 0 /\ lease'[h] = r.ttl
    BY <1>1, <1>8, <2>1
       DEF EvaluatedLate, Renewed, LeaseBacked, ClientInv, ClientTypeOK
  <2>. QED
    BY <1>2, <1>3, <2>1, <2>2, <2>3, ClientAssumption DEF LeaseBacked, Expire
<1>. QED
  BY <1>1, <1>5, <1>6, <1>7, <1>8 DEF Script

LEMMA LeaseInvariant ==
  ASSUME OneWorkerPerInstance, WholeSeconds, "straggle" \notin Faults
  PROVE  Spec => []LeaseInv
<1>1. Init => LeaseBacked
  BY DEF Init, ClientInit, LeaseBacked
<1>2. ServerTypeOK /\ ClientInv /\ LeaseBacked /\ [Next]_vars => LeaseBacked'
  <2>. SUFFICES ASSUME ServerTypeOK, ClientInv, LeaseBacked, [Next]_vars
                PROVE  LeaseBacked'
    OBVIOUS
  <2>1. CASE ClientStep({stored}) /\ UNCHANGED serverVars
    BY <2>1, ClientStepEndsLeases, BackedKept
  <2>4. CASE \E g \in Goroutine, readers \in 0..1 : Eval(g, readers)
    BY <2>4, BackedEval
  <2>5. CASE \E readers \in 0..1 : EvalLate(readers)
    BY <2>5, BackedEvalLate
  <2>7. CASE Tick
    BY <2>7, BackedTick
  <2>8. CASE UNCHANGED vars
    BY <2>8 DEF vars, clientVars, serverVars, LeaseBacked
  <2>. QED
    BY <2>1, <2>4, <2>5, <2>7, <2>8 DEF Next, Step, ClientStep
<1>3. ServerTypeOK /\ ClientInv /\ LeaseBacked => LeaseInv
  BY DEF ServerTypeOK, LeaseInv, TypeOK, ClientInv
<1>. QED
  BY <1>1, <1>2, <1>3, ClientInvariant, PTL DEF Spec

(* Two clients are never within a lease at the same time, whatever crashes, *)
(* is lost, repeated or late, and however long a holder overruns, provided  *)
(* that one goroutine of a process locks the key, that durations are whole  *)
(* seconds, and that no request takes effect after its call has returned.   *)
THEOREM LeasesExclude ==
  ASSUME OneWorkerPerInstance, WholeSeconds, "straggle" \notin Faults
  PROVE  Spec => []LeaseExclusion
<1>1. LeaseInv => LeaseExclusion
  BY DEF LeaseInv, LeaseBacked, LeaseExclusion, OneWorkerPerInstance
<1>. QED
  BY <1>1, LeaseInvariant, PTL
-----------------------------------------------------------------------------
(* The steps of the lock object as steps of ReadWriteLease.  Leases that    *)
(* only end are those of some clients that the abstract step takes away ... *)
LEMMA EndRefined ==
  ASSUME ClientInv, ClientInv', LeasesEndOnly
  PROVE  Abstract!Next
<1>. DEFINE C == {g \in Goroutine : lease'[g] = 0}
<1>1. lease' = [g \in Goroutine |-> IF g \in C THEN 0 ELSE lease[g]]
  <2>1. \A g \in Goroutine : lease'[g] = IF g \in C THEN 0 ELSE lease[g]
    BY DEF LeasesEndOnly, ClientInv, ClientTypeOK
  <2>2. lease' \in [Goroutine -> Nat]
    BY DEF ClientInv, ClientTypeOK
  <2>. QED
    BY <2>1, <2>2
<1>2. C \in SUBSET Goroutine /\ Abstract!End(C)
  BY <1>1 DEF Abstract!End, Abstract!Without
<1>. QED
  BY <1>2 DEF Abstract!Next

(* ... a renewal sets the only lease there is ...                           *)
LEMMA RenewRefined ==
  ASSUME OneWorkerPerInstance, LeaseBacked, ClientInv,
         NEW q, q.ttl \in Nat, NEW ok \in BOOLEAN, lease' = Renewed(q, ok)
  PROVE  Abstract!Next \/ lease' = lease
<1>. SUFFICES ASSUME lease' # lease
              PROVE  Abstract!Next
  OBVIOUS
<1>1. PICK g \in Goroutine : lease'[g] # lease[g]
  BY RenewedType DEF ClientInv, ClientTypeOK
<1>2. lease[g] > 0 /\ lease'[g] = q.ttl
  BY <1>1 DEF Renewed
<1>3. \A h \in Goroutine : h # g => lease[h] = 0
  BY <1>2 DEF LeaseBacked, OneWorkerPerInstance, ClientInv, ClientTypeOK
<1>4. \A h \in Goroutine : h # g => lease'[h] = lease[h]
  BY <1>3 DEF Renewed
<1>5. lease' = [lease EXCEPT ![g] = lease'[g]]
  BY <1>4, RenewedType DEF ClientInv, ClientTypeOK
<1>6. Abstract!Renew(g)
  BY <1>2, <1>5 DEF Abstract!Renew, Abstract!Holds
<1>. QED
  BY <1>6 DEF Abstract!Next

(* ... and TryLock finds no key, hence no lease, when it grants one.        *)
LEMMA EvalRefined ==
  ASSUME OneWorkerPerInstance, LeaseBacked, ClientInv,
         NEW g \in Goroutine, NEW readers \in 0..1, Eval(g, readers)
  PROVE  Abstract!Next \/ lease' = lease
<1>1. PICK ok \in BOOLEAN : Script(Request(g), readers, ok) /\ Evaluated(g, ok)
  BY DEF Eval
<1>2. call[g].ttl \in Nat
  BY DEF ClientInv, ClientTypeOK, Call
<1>3. CASE ok /\ call[g].op = "lock"
  <2>1. stored = None
    BY <1>1, <1>3 DEF Script, TryLockScript, Request
  <2>2. lease' = [lease EXCEPT ![g] = call[g].ttl]
    BY <1>1, <1>3 DEF Evaluated
  <2>3. \A h \in Goroutine : lease[h] = 0
    BY <2>1 DEF LeaseBacked, ClientInv, ClientTypeOK
  <2>4. CASE call[g].ttl = 0
    <3>1. lease' = lease
      BY <2>2, <2>3, <2>4 DEF ClientInv, ClientTypeOK
    <3>. QED
      BY <3>1
  <2>5. CASE call[g].ttl > 0
    <3>1. Abstract!GrantExclusive(g)
      BY <2>2, <2>3, <2>5
         DEF Abstract!GrantExclusive, Abstract!Nobody, Abstract!Holds,
             ClientInv, ClientTypeOK
    <3>. QED
      BY <3>1 DEF Abstract!Next
  <2>. QED
    BY <1>2, <2>4, <2>5
<1>4. CASE ~(ok /\ call[g].op = "lock")
  <2>1. lease' = Renewed(Request(g), ok)
    BY <1>1, <1>4 DEF Evaluated
  <2>2. Request(g).ttl \in Nat
    BY <1>2 DEF Request
  <2>. QED
    BY <2>1, <2>2, RenewRefined
<1>. QED
  BY <1>3, <1>4

(* A tick of the clock takes one from every lease.                          *)
LEMMA TickRefined ==
  ASSUME ClientInv, Tick
  PROVE  Abstract!Next
<1>1. lease' = [g \in Goroutine |-> IF lease[g] > 0 THEN lease[g] - 1 ELSE 0]
  BY DEF Tick, Elapse, ClientInv, ClientTypeOK
<1>2. Abstract!Pass
  BY <1>1 DEF Abstract!Pass, Abstract!Less, Abstract!Holds
<1>. QED
  BY <1>2 DEF Abstract!Next

(* The leases that TryLock, Renew and Unlock of the exclusive lock make and *)
(* end behave as the README promises: one is granted when there is none,    *)
(* only a lease that has not ended is renewed, and each one runs out, is    *)
(* given up or is lost with its process; under the conditions of            *)
(* LeasesExclude.                                                           *)
THEOREM LeasesRefine ==
  ASSUME OneWorkerPerInstance, WholeSeconds, "straggle" \notin Faults
  PROVE  Spec => ImplementsLease
<1>1. Init => Abstract!Init
  BY DEF Init, ClientInit, Abstract!Init
<1>2. LeaseInv /\ ClientInv' /\ [Next]_vars => [Abstract!Next]_(Abstract!vars)
  <2>. SUFFICES ASSUME LeaseInv, ClientInv', [Next]_vars
                PROVE  Abstract!Next \/ lease' = lease
    BY DEF Abstract!vars
  <2>. USE DEF LeaseInv
  <2>1. CASE ClientStep({stored})
    BY <2>1, ClientStepEndsLeases, EndRefined
  <2>2. CASE \E g \in Goroutine, readers \in 0..1 : Eval(g, readers)
    BY <2>2, EvalRefined
  <2>3. ASSUME NEW readers \in 0..1, EvalLate(readers)
        PROVE  Abstract!Next \/ lease' = lease
    <3>1. PICK r \in late, ok \in BOOLEAN : EvaluatedLate(r, ok)
      BY <2>3 DEF EvalLate
    <3>2. r.ttl \in Nat /\ lease' = Renewed(r, ok)
      BY <3>1 DEF EvaluatedLate, ClientInv, ClientTypeOK, LateRequest
    <3>. QED
      BY <3>2, RenewRefined
  <2>4. CASE Tick
    BY <2>4, TickRefined
  <2>5. CASE UNCHANGED vars
    BY <2>5 DEF vars, clientVars
  <2>. QED
    BY <2>1, <2>2, <2>3, <2>4, <2>5 DEF Next, Step, ClientStep
<1>3. LeaseInv => ClientInv
  BY DEF LeaseInv
<1>. QED
  BY <1>1, <1>2, <1>3, LeaseInvariant, PTL
     DEF Spec, ImplementsLease, Abstract!Spec
-----------------------------------------------------------------------------
(* No two goroutines call one lock object, not even to renew.               *)
OneCallerPerInstance ==
  \A g, h \in Goroutine : InstanceOf[g] = InstanceOf[h] => g = h

(* Why HolderCanRelease holds: the table has the value that the call of its *)
(* only caller works with, no value is drawn while the table has one, and   *)
(* the key that backs a lease has the value of the table.                   *)
CallNamed(g) ==
  /\ call[g].pc = "store" => lockValues[InstanceOf[g]] = None
  /\ call[g].pc \in {"eval", "reply"} =>
       call[g].value = lockValues[InstanceOf[g]]

TableNamesKey ==
  \A g \in Goroutine :
    /\ CallNamed(g)
    /\ lease[g] > 0 => stored = lockValues[InstanceOf[g]]

(* A step of one caller, of whose table the calls of the others see nothing.*)
LEMMA CallNamedAlone ==
  ASSUME OneCallerPerInstance, ClientInv, TableNamesKey, NEW g \in Goroutine,
         \A h \in Goroutine : h # g =>
           /\ call'[h] = call[h]
           /\ lockValues'[InstanceOf[h]] = lockValues[InstanceOf[h]],
         CallNamed(g)'
  PROVE  \A h \in Goroutine : CallNamed(h)'
BY DEF TableNamesKey, CallNamed

LEMMA CallNamedContinue ==
  ASSUME OneCallerPerInstance, ClientInv, TableNamesKey, NEW g \in Goroutine,
         BeginCall(g) \/ Continue(g) \/ Store(g, {stored}) \/ Interrupt(g)
  PROVE  \A h \in Goroutine : CallNamed(h)'
<1>. USE ClientAssumption DEF ClientInv, ClientTypeOK
<1>1. SUFFICES /\ CallNamed(g)'
               /\ \A h \in Goroutine : h # g =>
                    /\ call'[h] = call[h]
                    /\ lockValues'[InstanceOf[h]] = lockValues[InstanceOf[h]]
  BY CallNamedAlone
<1>2. CASE Load(g) \/ Store(g, {stored})
  <2>1. ASSUME NEW v \in Value, lockValues'[InstanceOf[g]] = v, Proceed(g, v)
        PROVE  CallNamed(g)'
    BY <2>1 DEF CallNamed, Proceed, Return, Ready, Call
  <2>2. CASE Load(g)
    BY <2>1, <2>2 DEF Load, CallNamed, Proceed, Return, Ready, Call
  <2>3. CASE Store(g, {stored})
    BY <2>1, <2>3, FreshValue DEF Store, Proceed, Return, OneCallerPerInstance
  <2>. QED
    BY <1>2, <2>2, <2>3
<1>3. CASE BeginCall(g)
  <2>1. /\ lockValues' = lockValues
        /\ \E op \in Op, d \in Nat, n \in Nat : Begin(g, op, d, n)
    BY <1>3 DEF BeginCall, BeginLock, BeginTryLock, BeginUnlock, BeginRenew, Op
  <2>. QED
    BY <2>1 DEF Begin, CallNamed, Ready
<1>4. CASE Return(g) /\ (lockValues' = lockValues \/ Released(g))
  BY <1>4 DEF Return, Released, CallNamed, Ready, OneCallerPerInstance
<1>5. CASE Backoff(g)
  BY <1>5 DEF Backoff, CallNamed, Ready
<1>6. CASE Wake(g)
  BY <1>6 DEF Wake, CallNamed, Call
<1>7. CASE Resend(g) /\ lockValues' = lockValues /\ call[g].pc \in {"eval", "reply"}
  BY <1>7 DEF Resend, CallNamed, TableNamesKey, Call
<1>. QED
  BY <1>2, <1>3, <1>4, <1>5, <1>6, <1>7
     DEF Continue, Acquired, Refused, Released, NotHeld, RenewReturns,
         Interrupt, Cancel, RequestLost, RequestDelayed, ReplyLost, TimedOut, Fail

LEMMA CallNamedCrash ==
  ASSUME ClientInv, TableNamesKey, NEW i \in Instance, Crash(i)
  PROVE  \A h \in Goroutine : CallNamed(h)'
BY DEF Crash, CallNamed, TableNamesKey, Ready, ClientInv, ClientTypeOK

(* The table of a client within a lease stays as it is.                     *)
LEMMA NamedByHolder ==
  ASSUME OneCallerPerInstance, ClientInv, LeaseBacked, TableNamesKey,
         ClientStep({stored}), NEW h \in Goroutine, lease'[h] > 0
  PROVE  lockValues'[InstanceOf[h]] = lockValues[InstanceOf[h]]
<1>. USE ClientAssumption DEF ClientInv, ClientTypeOK
<1>1. lease[h] > 0
  BY ClientStepEndsLeases DEF LeasesEndOnly
<1>2. lockValues[InstanceOf[h]] # None /\ call[h].op # "unlock"
  BY <1>1 DEF LeaseBacked, TableNamesKey
<1>3. ASSUME NEW g \in Goroutine, Store(g, {stored})
      PROVE  InstanceOf[g] # InstanceOf[h]
  BY <1>2, <1>3 DEF Store, TableNamesKey, CallNamed
<1>4. ASSUME NEW g \in Goroutine, Released(g)
      PROVE  InstanceOf[g] # InstanceOf[h]
  BY <1>2, <1>4 DEF Released, Replied, OneCallerPerInstance
<1>5. ASSUME NEW i \in Instance, Crash(i)
      PROVE  i # InstanceOf[h]
  BY <1>5 DEF Crash
<1>6. CASE lockValues' # lockValues
  <2>1. \/ \E g \in Goroutine : Store(g, {stored}) \/ Released(g)
        \/ \E i \in Instance : Crash(i)
    BY <1>6 DEF ClientStep, BeginCall, BeginLock, BeginTryLock, BeginUnlock,
         BeginRenew, Continue, Load, Acquired, Refused, Backoff, Wake, NotHeld,
         RenewReturns, Interrupt, Cancel, RequestLost, RequestDelayed,
         ReplyLost, TimedOut
  <2>. QED
    BY <1>3, <1>4, <1>5, <2>1 DEF Store, Released, Crash
<1>. QED
  BY <1>6

LEMMA NamedByScript ==
  ASSUME OneCallerPerInstance, WholeSeconds, ClientInv, LeaseBacked, LeaseBacked',
         TableNamesKey, NEW readers \in 0..1,
         (\E g \in Goroutine : Eval(g, readers)) \/ EvalLate(readers)
  PROVE  TableNamesKey'
<1>. USE ClientAssumption DEF ClientInv, ClientTypeOK
<1>1. lockValues' = lockValues /\ \A h \in Goroutine : CallNamed(h)'
  <2>1. CASE EvalLate(readers)
    BY <2>1 DEF EvalLate, EvaluatedLate, CallNamed, TableNamesKey
  <2>2. ASSUME NEW g \in Goroutine, NEW ok \in BOOLEAN,
               call[g].pc = "eval", Evaluated(g, ok)
        PROVE  lockValues' = lockValues /\ \A h \in Goroutine : CallNamed(h)'
    BY <2>2 DEF Evaluated, CallNamed, TableNamesKey, Call
  <2>. QED
    BY <2>1, <2>2 DEF Eval
<1>2. ASSUME NEW h \in Goroutine, lease'[h] > 0
      PROVE  stored' = lockValues[InstanceOf[h]]
  <2>1. stored' # None
    BY <1>2 DEF LeaseBacked
  <2>2. CASE lease[h] > 0
    <3>1. stored # None /\ stored = lockValues[InstanceOf[h]]
      BY <2>2 DEF LeaseBacked, TableNamesKey
    <3>. QED
      BY <2>1, <3>1
         DEF Eval, EvalLate, Script, TryLockScript, UnlockScript, RenewScript,
             Expire, serverVars
  <2>3. CASE ~(lease[h] > 0)
    <3>1. /\ call[h].pc = "eval" /\ call[h].op = "lock"
          /\ \E ok \in BOOLEAN : ok /\ Script(Request(h), readers, ok)
      <4>1. \A q, ok : lease' # Renewed(q, ok)
        BY <1>2, <2>3 DEF Renewed
      <4>2. PICK g \in Goroutine, ok \in BOOLEAN :
              call[g].pc = "eval" /\ Script(Request(g), readers, ok) /\ Evaluated(g, ok)
        BY <4>1 DEF Eval, EvalLate, EvaluatedLate
      <4>3. ok /\ call[g].op = "lock" /\ lease' = [lease EXCEPT ![g] = call[g].ttl]
        BY <4>1, <4>2 DEF Evaluated
      <4>. QED
        BY <1>2, <2>3, <4>2, <4>3
    <3>2. stored' = call[h].value
      BY <2>1, <3>1 DEF Script, TryLockScript, Expire, Request
    <3>. QED
      BY <3>1, <3>2 DEF TableNamesKey, CallNamed
  <2>. QED
    BY <2>2, <2>3
<1>. QED
  BY <1>1, <1>2 DEF TableNamesKey

(* A goroutine that was told that it has the lock, and is within its lease, *)
(* finds the value under the key in the table of its object, so its Unlock  *)
(* and its Renew succeed, provided that the process has no second goroutine *)
(* that calls this lock: getLockValue of both of them would draw a value    *)
(* and the later one overwrite the table.                                   *)
THEOREM HoldersRelease ==
  ASSUME OneCallerPerInstance, WholeSeconds, "straggle" \notin Faults
  PROVE  Spec => []HolderCanRelease
<1>. OneWorkerPerInstance
  BY ClientAssumption DEF OneCallerPerInstance, OneWorkerPerInstance
<1>1. Init => TableNamesKey
  BY DEF Init, ClientInit, TableNamesKey, CallNamed, Ready
<1>2. LeaseInv /\ LeaseInv' /\ TableNamesKey /\ [Next]_vars => TableNamesKey'
  <2>. SUFFICES ASSUME LeaseInv, LeaseInv', TableNamesKey, [Next]_vars
                PROVE  TableNamesKey'
    OBVIOUS
  <2>. USE DEF LeaseInv
  <2>1. CASE ClientStep({stored}) /\ UNCHANGED serverVars
    <3>1. \A h \in Goroutine : CallNamed(h)'
      BY <2>1, CallNamedContinue, CallNamedCrash DEF ClientStep
    <3>2. \A h \in Goroutine : lease'[h] > 0 => lease[h] > 0
      BY <2>1, ClientStepEndsLeases DEF LeasesEndOnly
    <3>. QED
      BY <2>1, <3>1, <3>2, NamedByHolder DEF TableNamesKey, serverVars
  <2>2. CASE \E readers \in 0..1 : (\E g \in Goroutine : Eval(g, readers))
                                  \/ EvalLate(readers)
    BY <2>2, NamedByScript
  <2>3. CASE Tick
    <3>1. \A h \in Goroutine : lease'[h] > 0 => lease[h] > 0 /\ ttl # 1
      BY <2>3 DEF Tick, Elapse, LeaseBacked, TypeOK, ClientInv, ClientTypeOK
    <3>. QED
      BY <2>3, <3>1 DEF Tick, Elapse, TableNamesKey, CallNamed
  <2>4. CASE UNCHANGED vars
    BY <2>4 DEF vars, clientVars, serverVars, TableNamesKey, CallNamed
  <2>. QED
    BY <2>1, <2>2, <2>3, <2>4 DEF Next, Step, ClientStep
<1>3. TableNamesKey => HolderCanRelease
  BY DEF TableNamesKey, HolderCanRelease
<1>. QED
  BY <1>1, <1>2, <1>3, LeaseInvariant, PTL DEF Spec
-----------------------------------------------------------------------------
(* No key is set to expire at once.                                         *)
FullSeconds == \A d \in TTLs \cup (RenewTTLs \ Rejected) : Seconds(d) > 0

(* Why HeldExclusion holds: from the grant until its unlock script, a       *)
(* goroutine is the only one, and the key is there.                         *)
Inside(g) ==
  \/ held[g]
  \/ Replied(g, "lock", TRUE)
  \/ call[g].op = "unlock" /\ call[g].pc # "reply"

SectionGuarded ==
  /\ late = {}
  /\ \A g \in Goroutine :
       /\ Inside(g) => stored # None
       /\ call[g].op = "unlock" => ~held[g]
       /\ call[g].op = "renew" /\ call[g].pc = "eval" => call[g].ttl \notin Rejected
  /\ \A g, h \in Goroutine : Inside(g) /\ Inside(h) => g = h

LEMMA SecondsLeft ==
  ASSUME FullSeconds, NEW d \in TTLs \cup (RenewTTLs \ Rejected)
  PROVE  Seconds(d) # 0
<1>1. d \in Nat
  BY ClientAssumption
<1>2. Seconds(d) \in Nat
  BY <1>1, SecondsNat
<1>3. Seconds(d) > 0
  BY DEF FullSeconds
<1>. QED
  BY <1>2, <1>3

(* One caller goes a step and is no more inside than before.                *)
LEMMA GuardedAlone ==
  ASSUME SectionGuarded, ClientInv, UNCHANGED <<serverVars, late>>,
         NEW g \in Goroutine, Inside(g)' => Inside(g),
         call'[g].op = "unlock" => ~held'[g],
         call'[g].op = "renew" /\ call'[g].pc = "eval" => call'[g].ttl \notin Rejected,
         \A h \in Goroutine : h # g => call'[h] = call[h] /\ held'[h] = held[h]
  PROVE  SectionGuarded'
<1>1. \A h \in Goroutine : Inside(h)' => Inside(h)
  BY DEF Inside, Replied
<1>. QED
  BY <1>1 DEF SectionGuarded, serverVars

LEMMA GuardedBegin ==
  ASSUME SectionGuarded, ClientInv, UNCHANGED serverVars,
         NEW g \in Goroutine, BeginCall(g)
  PROVE  SectionGuarded'
<1>. USE DEF ClientInv, ClientTypeOK
<1>1. /\ late' = late
      /\ \A h \in Goroutine : h # g => call'[h] = call[h] /\ held'[h] = held[h]
      /\ call'[g].pc = "load"
  <2>1. /\ late' = late
        /\ \A h \in Goroutine : h # g => held'[h] = held[h]
        /\ \E op \in Op, d \in Nat, n \in Nat : Begin(g, op, d, n)
    BY ClientAssumption
       DEF BeginCall, BeginLock, BeginTryLock, BeginUnlock, BeginRenew, GiveUp, Op
  <2>. QED
    BY <2>1 DEF Begin, Ready
<1>2. (Inside(g)' => Inside(g)) /\ (call'[g].op = "unlock" => ~held'[g])
  <2>1. CASE BeginUnlock(g)
    BY <2>1 DEF BeginUnlock, GiveUp, Inside
  <2>2. CASE BeginLock(g) \/ BeginTryLock(g) \/ BeginRenew(g)
    <3>1. held' = held /\ call'[g].op # "unlock"
      BY <2>2 DEF BeginLock, BeginTryLock, BeginRenew, Begin, Ready
    <3>. QED
      BY <1>1, <3>1 DEF Inside, Replied
  <2>. QED
    BY <2>1, <2>2 DEF BeginCall
<1>. QED
  BY <1>1, <1>2, GuardedAlone

LEMMA GuardedContinue ==
  ASSUME SectionGuarded, ClientInv, UNCHANGED serverVars,
         NEW g \in Goroutine, Continue(g) \/ Store(g, {stored}) \/ Cancel(g)
  PROVE  SectionGuarded'
<1>. USE DEF ClientInv, ClientTypeOK
<1>0. call[g].op = "unlock" => ~held[g]
  BY DEF SectionGuarded
<1>1. late' = late
  BY DEF Continue, Load, Acquired, Refused, Backoff, Wake, Released, NotHeld,
         RenewReturns, Store, Cancel
<1>. SUFFICES
       /\ Inside(g)' => Inside(g)
       /\ call'[g].op = "unlock" => ~held'[g]
       /\ call'[g].op = "renew" /\ call'[g].pc = "eval" => call'[g].ttl \notin Rejected
       /\ \A h \in Goroutine : h # g => call'[h] = call[h] /\ held'[h] = held[h]
  BY <1>1, GuardedAlone
<1>2. CASE Return(g) /\ held' = held
  BY <1>2 DEF Return, Inside, Replied, Ready
<1>3. CASE Acquired(g)
  BY <1>3 DEF Acquired, Return, Inside, Ready
<1>4. CASE held' = held /\ call[g].pc \in {"load", "store"} /\ \E v \in Value : Proceed(g, v)
  <2>1. PICK v \in Value : Proceed(g, v)
    BY <1>4
  <2>2. CASE call[g].op = "renew" /\ call[g].ttl \in Rejected
    BY <1>2, <1>4, <2>1, <2>2 DEF Proceed
  <2>3. CASE ~(call[g].op = "renew" /\ call[g].ttl \in Rejected)
    <3>1. call' = [call EXCEPT ![g].pc = "eval", ![g].value = v]
      BY <2>1, <2>3 DEF Proceed
    <3>2. /\ call'[g].pc = "eval" /\ call'[g].op = call[g].op
          /\ call'[g].ttl = call[g].ttl
          /\ \A h \in Goroutine : h # g => call'[h] = call[h]
      BY <3>1 DEF Call
    <3>. QED
      BY <1>0, <1>4, <2>3, <3>2 DEF Inside, Replied
  <2>. QED
    BY <2>2, <2>3
<1>5. CASE held' = held /\ call[g].pc = "load" /\ call' = [call EXCEPT ![g].pc = "store"]
  BY <1>0, <1>5 DEF Inside, Replied, Call
<1>6. CASE Backoff(g)
  BY <1>6 DEF Backoff, Inside, Replied, Ready
<1>7. CASE Wake(g)
  BY <1>7 DEF Wake, Inside, Replied, Call, CallsOK
<1>8. Load(g) => \/ held' = held /\ call[g].pc \in {"load", "store"}
                       /\ \E v \in Value : Proceed(g, v)
                 \/ held' = held /\ call[g].pc = "load"
                       /\ call' = [call EXCEPT ![g].pc = "store"]
  BY ClientAssumption DEF Load
<1>9. Store(g, {stored}) => held' = held /\ call[g].pc \in {"load", "store"}
                              /\ \E v \in Value : Proceed(g, v)
  BY ClientAssumption, FreshValue DEF Store
<1>. QED
  BY <1>2, <1>3, <1>4, <1>5, <1>6, <1>7, <1>8, <1>9
     DEF Continue, Refused, Released, NotHeld, RenewReturns, Cancel

(* A request that fails ends its call: it is not sent again, nor does it    *)
(* stay in the network.                                                     *)
LEMMA GuardedInterrupt ==
  ASSUME RequestsRunOnce, SectionGuarded, ClientInv, UNCHANGED serverVars,
         NEW g \in Goroutine, Interrupt(g)
  PROVE  SectionGuarded'
<1>. USE DEF ClientInv, ClientTypeOK
<1>1. CASE Cancel(g)
  BY <1>1, GuardedContinue
<1>2. CASE ~Cancel(g)
  <2>1. TimedOut(g) /\ (late' = late \/ late' = late \cup {Request(g)})
    BY <1>2 DEF Interrupt, RequestLost, RequestDelayed, ReplyLost
  <2>2. MaxRetries = 0 /\ "straggle" \notin Faults
    BY <2>1 DEF TimedOut, RequestsRunOnce
  <2>3. ~Resend(g)
    BY <2>2 DEF Resend, Call
  <2>4. MayReturn(g, late') /\ Return(g) /\ held' = held
    BY <2>1, <2>3 DEF TimedOut, Fail
  <2>5. late' = late
    BY <2>1, <2>2, <2>4 DEF MayReturn, Request
  <2>6. /\ call'[g] = Ready
        /\ \A h \in Goroutine : h # g => call'[h] = call[h]
    BY <2>4 DEF Return
  <2>7. call'[g].pc = "ready" /\ call'[g].op = "none"
    BY <2>6 DEF Ready
  <2>8. Inside(g)' => Inside(g)
    BY <2>4, <2>7 DEF Inside, Replied
  <2>. QED
    BY <2>4, <2>5, <2>6, <2>7, <2>8, GuardedAlone
<1>. QED
  BY <1>1, <1>2

LEMMA GuardedCrash ==
  ASSUME SectionGuarded, ClientInv, UNCHANGED serverVars,
         NEW i \in Instance, Crash(i)
  PROVE  SectionGuarded'
<1>1. late' = {}
  BY DEF SectionGuarded, Crash
<1>2. \A h \in Goroutine : 
        /\ Inside(h)' => Inside(h)
        /\ call'[h] = call[h] \/ call'[h] = Ready
        /\ held'[h] => held[h]
  BY DEF Crash, Inside, Replied, Ready, ClientInv, ClientTypeOK
<1>. QED
  BY <1>1, <1>2 DEF SectionGuarded, serverVars, Ready

LEMMA GuardedEval ==
  ASSUME FullSeconds, SectionGuarded, ClientInv,
         NEW g \in Goroutine, NEW readers \in 0..1, Eval(g, readers)
  PROVE  SectionGuarded'
<1>. USE DEF ClientInv, ClientTypeOK
<1>1. PICK ok \in BOOLEAN : Script(Request(g), readers, ok) /\ Evaluated(g, ok)
  BY DEF Eval
<1>2. /\ call[g].pc = "eval" /\ call[g].value \in Value /\ call[g].value # None
      /\ call'[g].pc = "reply" /\ call'[g].op = call[g].op /\ call'[g].ok = ok
      /\ \A h \in Goroutine : h # g => call'[h] = call[h]
      /\ held' = held /\ late' = late
  BY <1>1 DEF Eval, Evaluated, CallsOK, Call
<1>3. \A h \in Goroutine : h # g /\ Inside(h)' => Inside(h)
  <2>1. ASSUME NEW h \in Goroutine, h # g, Inside(h)'
        PROVE  Inside(h)
    <3>1. held'[h] = held[h] /\ call'[h] = call[h]
      BY <1>2, <2>1
    <3>. QED
      BY <2>1, <3>1 DEF Inside, Replied
  <2>. QED
    BY <2>1
<1>8. Inside(g)' /\ ~held[g] => ok /\ call[g].op = "lock"
  <2>1. SUFFICES ASSUME Inside(g)', ~held[g]
                 PROVE  ok /\ call[g].op = "lock"
    OBVIOUS
  <2>2. call'[g].op = "lock" /\ call'[g].ok = TRUE
    BY <1>2, <2>1 DEF Inside, Replied
  <2>. QED
    BY <1>2, <2>2
<1>4. CASE ~ok
  <2>1. stored' = stored
    BY <1>1, <1>4
       DEF Script, TryLockScript, UnlockScript, RenewScript, serverVars
  <2>2. \A h \in Goroutine : Inside(h)' => Inside(h)
    BY <1>3, <1>4, <1>8 DEF Inside
  <2>. QED
    BY <1>2, <2>1, <2>2 DEF SectionGuarded
<1>5. CASE ok /\ call[g].op = "lock"
  <2>1. stored = None /\ Expire(call[g].value, call[g].ttl) /\ call[g].ttl \in TTLs
    BY <1>1, <1>5 DEF Script, TryLockScript, Request, CallsOK
  <2>2. stored' # None
    <3>1. Seconds(call[g].ttl) # 0
      BY <2>1, SecondsLeft
    <3>. QED
      BY <1>2, <2>1, <3>1 DEF Expire
  <2>3. \A h \in Goroutine : ~Inside(h)
    BY <2>1 DEF SectionGuarded
  <2>. QED
    BY <1>2, <1>3, <2>2, <2>3 DEF SectionGuarded
<1>6. CASE ok /\ call[g].op = "unlock"
  <2>1. Inside(g) /\ ~held[g]
    BY <1>2, <1>6 DEF Inside, SectionGuarded
  <2>. QED
    BY <1>2, <1>3, <1>6, <1>8, <2>1 DEF SectionGuarded
<1>7. CASE ok /\ call[g].op = "renew"
  <2>1. /\ stored = call[g].value /\ Expire(call[g].value, call[g].ttl)
        /\ call[g].ttl \in RenewTTLs \ Rejected
    BY <1>1, <1>2, <1>7 DEF Script, RenewScript, Request, CallsOK, SectionGuarded
  <2>2. Seconds(call[g].ttl) # 0
    BY <2>1, SecondsLeft
  <2>3. stored' = stored
    BY <2>1, <2>2 DEF Expire
  <2>. QED
    BY <1>2, <1>3, <1>7, <1>8, <2>3 DEF SectionGuarded, Inside
<1>. QED
  BY <1>1, <1>4, <1>5, <1>6, <1>7 DEF Script, Request

LEMMA GuardedTick ==
  ASSUME "overrun" \notin Faults, SectionGuarded, ClientInv, Tick
  PROVE  SectionGuarded'
<1>1. \A h \in Goroutine : Inside(h)' <=> Inside(h)
  BY DEF Tick, Elapse, Inside, Replied
<1>2. \A h \in Goroutine : Inside(h) => ttl # 1
  BY DEF Tick, MayExpire, Inside, InSection
<1>. QED
  BY <1>1, <1>2 DEF SectionGuarded, Tick, Elapse

(* Goroutines that share a lock object, and so one lock value, are never    *)
(* told both that they have the lock, crash or fail what may, provided that *)
(* requests run once, that every holder is done before its lock expires,    *)
(* and that no duration is below one second.                                *)
THEOREM HoldersExclude ==
  ASSUME FullSeconds
  PROVE  Spec => []HeldExclusion
<1>0. CASE ~(RequestsRunOnce /\ "overrun" \notin Faults)
  <2>1. HeldExclusion
    BY <1>0 DEF HeldExclusion
  <2>. QED
    BY <2>1, PTL
<1>. SUFFICES ASSUME RequestsRunOnce, "overrun" \notin Faults
              PROVE  Spec => []HeldExclusion
  BY <1>0
<1>1. Init => SectionGuarded
  BY DEF Init, ClientInit, SectionGuarded, Inside, Replied, Ready
<1>2. ClientInv /\ SectionGuarded /\ [Next]_vars => SectionGuarded'
  <2>. SUFFICES ASSUME ClientInv, SectionGuarded, [Next]_vars
                PROVE  SectionGuarded'
    OBVIOUS
  <2>1. CASE ClientStep({stored}) /\ UNCHANGED serverVars
    BY <2>1, GuardedBegin, GuardedContinue, GuardedInterrupt, GuardedCrash
       DEF ClientStep
  <2>2. CASE \E g \in Goroutine, readers \in 0..1 : Eval(g, readers)
    BY <2>2, GuardedEval
  <2>3. CASE \E readers \in 0..1 : EvalLate(readers)
    BY <2>3 DEF EvalLate, SectionGuarded
  <2>4. CASE Tick
    BY <2>4, GuardedTick
  <2>5. CASE UNCHANGED vars
    BY <2>5 DEF vars, clientVars, serverVars, SectionGuarded, Inside, Replied
  <2>. QED
    BY <2>1, <2>2, <2>3, <2>4, <2>5 DEF Next, Step, ClientStep
<1>3. SectionGuarded => HeldExclusion
  BY DEF SectionGuarded, Inside, HeldExclusion
<1>. QED
  BY <1>1, <1>2, <1>3, ClientInvariant, PTL DEF Spec
==============================================================================
