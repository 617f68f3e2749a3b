------------------------ MODULE RedisSharedLockProofs ------------------------
(***************************************************************************)
(* Type correctness of RedisSharedLock, the relation of its counter to its *)
(* set of holders, and the safety of readers, for every number of          *)
(* goroutines, lock objects, retries and late requests.                    *)
(***************************************************************************)
EXTENDS RedisSharedLock, RedisClientProofs, FiniteSetTheorems

(* The server's part of the inductive invariant.                            *)
ServerInv ==
  /\ count \in Nat
  /\ holders \in SUBSET Value
  /\ ttl \in Nat
  /\ count = 0 <=> ttl = 0
  /\ HoldersCounted

LEMMA DeleteInv == Delete => ServerInv'
<1>. SUFFICES ASSUME Delete PROVE ServerInv'
  OBVIOUS
<1>1. count' = 0 /\ holders' = {} /\ ttl' = 0
  BY DEF Delete
<1>. QED
  BY <1>1, FS_EmptySet DEF ServerInv, HoldersCounted

LEMMA ExpireInv ==
  ASSUME NEW n \in Nat \ {0}, NEW H \in SUBSET Value, NEW d \in Nat,
         IsFiniteSet(H), Cardinality(H) <= n, Expire(n, H, d)
  PROVE  ServerInv'
<1>1. CASE Seconds(d) = 0
  BY <1>1, DeleteInv DEF Expire
<1>2. CASE Seconds(d) # 0
  BY <1>2, SecondsNat DEF Expire, ServerInv, HoldersCounted
<1>. QED
  BY <1>1, <1>2

(* The scripts keep it for every value that they are given: a member leaves *)
(* the set together with its share of the counter.                          *)
LEMMA ScriptInv ==
  ASSUME ServerInv, NEW q, q.value \in Value, q.ttl \in Nat,
         NEW locked, NEW ok, Script(q, locked, ok)
  PROVE  ServerInv'
<1>1. CASE UNCHANGED serverVars
  BY <1>1 DEF serverVars, ServerInv, HoldersCounted
<1>2. CASE Expire(count + 1, holders \cup {q.value}, q.ttl)
  <2>1. /\ IsFiniteSet(holders \cup {q.value})
        /\ Cardinality(holders \cup {q.value}) <= Cardinality(holders) + 1
        /\ Cardinality(holders) \in Nat
    <3>1. IsFiniteSet(holders)
      BY DEF ServerInv, HoldersCounted
    <3>2. Cardinality(holders) \in Nat
      BY <3>1, FS_CardinalityType
    <3>3. /\ IsFiniteSet(holders \cup {q.value})
          /\ Cardinality(holders \cup {q.value}) =
               IF q.value \in holders THEN Cardinality(holders)
               ELSE Cardinality(holders) + 1
      BY <3>1, FS_AddElement
    <3>. QED
      BY <3>2, <3>3
  <2>2. Cardinality(holders \cup {q.value}) \in Nat
    BY <2>1, FS_CardinalityType
  <2>. QED
    BY <1>2, <2>1, <2>2, ExpireInv DEF ServerInv, HoldersCounted
<1>3. CASE UnlockScript(q.value, TRUE) /\ q.value \in holders
  <2>1. CASE count - 1 <= 0
    BY <1>3, <2>1, DeleteInv DEF UnlockScript
  <2>2. CASE ~(count - 1 <= 0)
    <3>1. /\ count' = count - 1
          /\ holders' = holders \ {q.value}
          /\ ttl' = ttl
      BY <1>3, <2>2 DEF UnlockScript
    <3>2. /\ IsFiniteSet(holders \ {q.value})
          /\ Cardinality(holders \ {q.value}) = Cardinality(holders) - 1
          /\ Cardinality(holders) \in Nat
      BY <1>3, FS_RemoveElement, FS_CardinalityType DEF ServerInv, HoldersCounted
    <3>. QED
      BY <2>2, <3>1, <3>2 DEF ServerInv, HoldersCounted
  <2>. QED
    BY <2>1, <2>2
<1>4. CASE Expire(count, holders, q.ttl) /\ q.value \in holders
  <2>1. count # 0
    BY <1>4, FS_EmptySet, FS_CardinalityType DEF ServerInv, HoldersCounted
  <2>. QED
    BY <1>4, <2>1, ExpireInv DEF ServerInv, HoldersCounted
<1>. QED
  BY <1>1, <1>2, <1>3, <1>4
     DEF Script, TryLockScript, UnlockScript, RenewScript

(* A script runs, whether it takes the exclusive lock to be held or not.    *)
LEMMA EvalInv ==
  ASSUME ServerInv, ClientInv, NEW g \in Goroutine, NEW locked, Eval(g, locked)
  PROVE  ServerInv' /\ ClientInv'
<1>1. PICK ok \in BOOLEAN : Script(Request(g), locked, ok) /\ Evaluated(g, ok)
  BY DEF Eval
<1>2. call[g].pc = "eval"
  BY DEF Eval
<1>3. Request(g).value \in Value /\ Request(g).ttl \in Nat
  BY <1>2 DEF Request, ClientInv, ClientTypeOK, CallsOK, Call
<1>. QED
  BY <1>1, <1>2, <1>3, ScriptInv, EvaluatedInv

LEMMA EvalLateInv ==
  ASSUME ServerInv, ClientInv, NEW locked, EvalLate(locked)
  PROVE  ServerInv' /\ ClientInv'
<1>1. PICK r \in late, ok \in BOOLEAN :
        Script(r, locked, ok) /\ EvaluatedLate(r, ok)
  BY DEF EvalLate
<1>2. r.value \in Value /\ r.ttl \in Nat
  BY DEF ClientInv, ClientTypeOK, LateOK, LateRequest
<1>. QED
  BY <1>1, <1>2, ScriptInv, EvaluatedLateInv

LEMMA TickInv ==
  ASSUME ServerInv, ClientInv, Tick
  PROVE  ServerInv' /\ ClientInv'
<1>1. CASE ttl <= 1
  BY <1>1, DeleteInv, ElapseInv DEF Tick
<1>2. CASE ~(ttl <= 1)
  BY <1>2, ElapseInv DEF Tick, ServerInv, HoldersCounted
<1>. QED
  BY <1>1, <1>2

LEMMA NextInv ==
  ASSUME ServerInv, ClientInv, [Next]_vars
  PROVE  ServerInv' /\ ClientInv'
<1>1. UNCHANGED serverVars => ServerInv'
  BY DEF serverVars, ServerInv, HoldersCounted
<1>2. CASE ClientStep(holders) /\ UNCHANGED serverVars
  BY <1>1, <1>2, ClientStepInv
<1>5. ASSUME NEW g \in Goroutine, NEW locked \in BOOLEAN, Eval(g, locked)
      PROVE  ServerInv' /\ ClientInv'
  BY <1>5, EvalInv
<1>6. ASSUME NEW locked \in BOOLEAN, EvalLate(locked)
      PROVE  ServerInv' /\ ClientInv'
  BY <1>6, EvalLateInv
<1>7. CASE Tick
  BY <1>7, TickInv
<1>8. CASE UNCHANGED vars
  BY <1>1, <1>8 DEF vars, clientVars, ClientInv,
     ClientTypeOK, CallsOK, TablesOK, LateOK, LateInCall, Request
<1>. QED
  BY <1>2, <1>5, <1>6, <1>7, <1>8 DEF Next, Step, ClientStep

LEMMA InitServerInv == Init => ServerInv
BY FS_EmptySet DEF Init, ServerInv, HoldersCounted

LEMMA Invariant == Spec => [](ServerInv /\ ClientInv)
<1>1. Init => ServerInv /\ ClientInv
  BY ClientInitInv, InitServerInv DEF Init
<1>2. ServerInv /\ ClientInv /\ [Next]_vars => (ServerInv /\ ClientInv)'
  BY NextInv
<1>. QED
  BY <1>1, <1>2, PTL DEF Spec

(* Every reachable state is well typed, whatever goes wrong, and the        *)
(* counter is never without an expiry.                                      *)
THEOREM TypeCorrect == Spec => []TypeOK
<1>1. ServerInv /\ ClientInv => TypeOK
  BY DEF TypeOK, ServerInv, ClientInv
<1>. QED
  BY <1>1, Invariant, PTL

(* The counter is never below the number of holders, without any assumption *)
(* on the network, the callers and their durations.                         *)
THEOREM CounterCoversHolders == Spec => []HoldersCounted
<1>1. ServerInv => HoldersCounted
  BY DEF ServerInv
<1>. QED
  BY <1>1, Invariant, PTL

-----------------------------------------------------------------------------
(* Leases end, and the keys live on: then LeaseBacked is kept.              *)
LEMMA BackedKept ==
  ASSUME LeaseBacked, ClientInv, LeasesEndOnly, UNCHANGED serverVars
  PROVE  LeaseBacked'
<1>. SUFFICES ASSUME NEW g \in Goroutine, lease'[g] > 0
              PROVE  LeaseBacked!(g)!2'
  BY DEF LeaseBacked
<1>1. lease[g] > 0 /\ lease'[g] = lease[g] /\ call'[g].op # "unlock"
      /\ holders' = holders /\ ttl' = ttl
  BY DEF LeaseBacked, LeasesEndOnly, serverVars
<1>2. PICK v \in holders : /\ v[1] = InstanceOf[g]
                           /\ \A r \in late : r.from = None => r.value # v
  BY <1>1 DEF LeaseBacked
<1>3. \A r \in late' : r.from = None => r.value # v
  BY <1>2 DEF LeasesEndOnly
<1>. QED
  BY <1>1, <1>2, <1>3 DEF LeaseBacked

LEMMA BackedTick ==
  ASSUME LeaseBacked, ClientInv, ServerInv, Tick
  PROVE  LeaseBacked'
<1>. SUFFICES ASSUME NEW g \in Goroutine, lease'[g] > 0
              PROVE  LeaseBacked!(g)!2'
  BY DEF LeaseBacked
<1>1. lease[g] > 1 /\ lease'[g] = lease[g] - 1 /\ call' = call /\ late' = late
  BY DEF Tick, Elapse, ClientInv, ClientTypeOK
<1>2. lease[g] <= ttl /\ ttl > 1
  BY <1>1 DEF LeaseBacked, ServerInv, ClientInv, ClientTypeOK
<1>3. ttl' = ttl - 1 /\ holders' = holders
  BY <1>2 DEF Tick, ServerInv
<1>4. lease[g] \in Nat /\ ttl \in Nat
  BY DEF ServerInv, ClientInv, ClientTypeOK
<1>5. \A d \in TTLs \cup RenewTTLs : d \in Nat
  BY ClientAssumption
<1>. QED
  BY <1>1, <1>2, <1>3, <1>4, <1>5 DEF LeaseBacked

(* A member of the set leaves it only by an Unlock with its own value.      *)
LEMMA OthersStay ==
  ASSUME ServerInv, NEW v, UnlockScript(v, TRUE)
  PROVE  /\ \A w \in holders : w # v => w \in holders'
         /\ (\E w \in holders : w # v) => ttl' = ttl
<1>1. CASE count - 1 <= 0
  <2>1. \A w \in holders : w = v
    <3>. SUFFICES ASSUME NEW w \in holders, w # v PROVE FALSE
      OBVIOUS
    <3>1. v \in holders /\ IsFiniteSet(holders) /\ Cardinality(holders) <= count
      BY DEF UnlockScript, ServerInv, HoldersCounted
    <3>2. /\ IsFiniteSet(holders \ {v})
          /\ Cardinality(holders \ {v}) = Cardinality(holders) - 1
          /\ Cardinality(holders) \in Nat
      BY <3>1, FS_RemoveElement, FS_CardinalityType
    <3>3. Cardinality(holders \ {v}) = 0
      BY <1>1, <3>1, <3>2, FS_CardinalityType DEF ServerInv
    <3>. QED
      BY <3>2, <3>3, FS_EmptySet
  <2>. QED
    BY <2>1
<1>2. CASE ~(count - 1 <= 0)
  BY <1>2 DEF UnlockScript
<1>. QED
  BY <1>1, <1>2

LEMMA BackedEval ==
  ASSUME OneWorkerPerInstance, WholeSeconds, UniformTTL,
         LeaseBacked, ClientInv, ServerInv,
         NEW g \in Goroutine, NEW locked, Eval(g, locked)
  PROVE  LeaseBacked'
<1>1. PICK ok \in BOOLEAN : Script(Request(g), locked, ok) /\ Evaluated(g, ok)
  BY DEF Eval
<1>2. /\ call[g].pc = "eval"
      /\ call[g].value \in Value
      /\ call[g].value[1] = InstanceOf[g]
      /\ call[g].ttl \in Nat
      /\ \A r \in late : r.from = None => r.value # call[g].value
  BY DEF Eval, ClientInv, ClientTypeOK, CallsOK, LateOK, Call
<1>3. late' = late /\ \A h \in Goroutine : call'[h].op = call[h].op
  BY <1>1 DEF Evaluated, ClientInv, ClientTypeOK, Call
<1>4. CASE ~ok
  <2>1. UNCHANGED serverVars
    BY <1>1, <1>4 DEF Script, TryLockScript, UnlockScript, RenewScript
  <2>2. lease' = lease
    BY <1>1, <1>4 DEF Evaluated, Renewed, ClientInv, ClientTypeOK
  <2>. QED
    BY <1>3, <2>1, <2>2, BackedKept DEF LeasesEndOnly
<1>5. CASE ok /\ call[g].op = "lock"
  <2>1. Expire(count + 1, holders \cup {call[g].value}, call[g].ttl)
    BY <1>1, <1>5 DEF Script, TryLockScript, Request
  <2>2. lease' = [lease EXCEPT ![g] = call[g].ttl]
    BY <1>1, <1>5 DEF Evaluated
  <2>3. g \in Worker /\ call[g].ttl \in TTLs /\ Seconds(call[g].ttl) = call[g].ttl
    BY <1>5 DEF ClientInv, CallsOK, WholeSeconds
  <2>4. ASSUME NEW h \in Goroutine, lease'[h] > 0 PROVE LeaseBacked!(h)!2'
    <3>1. CASE h = g
      <4>1. lease'[h] = call[g].ttl
        BY <2>2, <3>1 DEF ClientInv, ClientTypeOK
      <4>2. holders' = holders \cup {call[g].value} /\ ttl' = call[g].ttl
        BY <2>1, <2>3, <2>4, <4>1 DEF Expire
      <4>3. \A d \in TTLs \cup RenewTTLs : call[g].ttl = d
        BY <2>3 DEF UniformTTL
      <4>. QED
        BY <1>2, <1>3, <1>5, <2>3, <3>1, <4>1, <4>2, <4>3
    <3>2. CASE h # g
      <4>1. lease'[h] = lease[h]
        BY <2>2, <3>2 DEF ClientInv, ClientTypeOK
      <4>2. lease[h] <= call[g].ttl
        BY <2>3, <2>4, <4>1 DEF LeaseBacked
      <4>3. holders' = holders \cup {call[g].value} /\ ttl' = call[g].ttl
        BY <1>2, <2>1, <2>3, <2>4, <4>1, <4>2
           DEF Expire, ClientInv, ClientTypeOK
      <4>. QED
        BY <1>3, <2>4, <4>1, <4>2, <4>3 DEF LeaseBacked
    <3>. QED
      BY <3>1, <3>2
  <2>. QED
    BY <2>4 DEF LeaseBacked
<1>6. CASE ok /\ call[g].op = "unlock"
  <2>1. UnlockScript(call[g].value, TRUE)
    BY <1>1, <1>6 DEF Script, Request
  <2>2. lease' = lease
    BY <1>1, <1>6 DEF Evaluated, Renewed, Request, ClientInv, ClientTypeOK
  <2>3. ASSUME NEW h \in Goroutine, lease'[h] > 0 PROVE LeaseBacked!(h)!2'
    <3>1. PICK v \in holders : /\ v[1] = InstanceOf[h]
                               /\ \A r \in late : r.from = None => r.value # v
      BY <2>2, <2>3 DEF LeaseBacked
    <3>2. call[g].value # v
      <4>1. h \in Worker /\ call[h].op # "unlock"
        BY <2>2, <2>3 DEF LeaseBacked
      <4>2. g \in Worker /\ g # h
        BY <1>6, <4>1 DEF ClientInv, CallsOK
      <4>. QED
        BY <1>2, <3>1, <4>1, <4>2 DEF OneWorkerPerInstance
    <3>3. v \in holders' /\ ttl' = ttl
      <4>1. /\ \A w \in holders : w # call[g].value => w \in holders'
            /\ (\E w \in holders : w # call[g].value) => ttl' = ttl
        BY <2>1, OthersStay
      <4>. QED
        BY <3>2, <4>1
    <3>4. \A r \in late' : r.from = None => r.value # v
      BY <1>3, <3>1
    <3>5. lease'[h] = lease[h] /\ call'[h].op = call[h].op
      BY <1>3, <2>2
    <3>. QED
      BY <2>3, <3>1, <3>3, <3>4, <3>5 DEF LeaseBacked
  <2>. QED
    BY <2>3 DEF LeaseBacked
<1>7. CASE ok /\ call[g].op = "renew"
  <2>1. Expire(count, holders, call[g].ttl)
    BY <1>1, <1>7 DEF Script, RenewScript, Request
  <2>2. Seconds(call[g].ttl) = call[g].ttl /\ call[g].ttl \in RenewTTLs
    BY <1>7 DEF ClientInv, CallsOK, WholeSeconds
  <2>3. ASSUME NEW h \in Goroutine, lease'[h] > 0 PROVE LeaseBacked!(h)!2'
    <3>1. lease[h] > 0 /\ (lease'[h] = lease[h] \/ lease'[h] = call[g].ttl)
      BY <1>1, <1>7, <2>3
         DEF Evaluated, Renewed, Request, ClientInv, ClientTypeOK
    <3>2. lease'[h] <= call[g].ttl /\ call[g].ttl > 0
      BY <1>2, <2>2, <2>3, <3>1 DEF LeaseBacked, ClientInv, ClientTypeOK
    <3>3. holders' = holders /\ ttl' = call[g].ttl
      BY <2>1, <2>2, <3>2 DEF Expire
    <3>4. \A d \in TTLs \cup RenewTTLs : call[g].ttl = d
      BY <2>2 DEF UniformTTL
    <3>. QED
      BY <1>3, <2>3, <3>1, <3>2, <3>3, <3>4 DEF LeaseBacked
  <2>. QED
    BY <2>3 DEF LeaseBacked
<1>. QED
  BY <1>1, <1>4, <1>5, <1>6, <1>7 DEF Script, Request

LEMMA BackedEvalLate ==
  ASSUME OneWorkerPerInstance, WholeSeconds, UniformTTL,
         "straggle" \notin Faults,
         LeaseBacked, ClientInv, ServerInv,
         NEW locked, EvalLate(locked)
  PROVE  LeaseBacked'
<1>1. PICK r \in late, ok \in BOOLEAN :
        Script(r, locked, ok) /\ EvaluatedLate(r, ok)
  BY DEF EvalLate
<1>2. r.value \in Value /\ r.ttl \in Nat /\ r.from \in Goroutine \cup {None}
  BY DEF ClientInv, ClientTypeOK, LateOK, LateRequest
<1>3. late' \subseteq late /\ call' = call
  BY <1>1 DEF EvaluatedLate
<1>4. r.op # "renew" => lease' = lease
  BY <1>1 DEF EvaluatedLate, Renewed, ClientInv, ClientTypeOK
<1>5. CASE ~ok
  <2>1. UNCHANGED serverVars
    BY <1>1, <1>5 DEF Script, TryLockScript, UnlockScript, RenewScript
  <2>2. lease' = lease
    BY <1>1, <1>5 DEF EvaluatedLate, Renewed, ClientInv, ClientTypeOK
  <2>. QED
    BY <1>3, <2>1, <2>2, BackedKept DEF LeasesEndOnly
<1>6. CASE ok /\ r.op \in {"lock", "renew"}
  <2>1. \E n, H : holders \subseteq H /\ Expire(n, H, r.ttl)
    <3>1. CASE r.op = "lock"
      BY <1>1, <1>6, <3>1 DEF Script, TryLockScript
    <3>2. CASE r.op = "renew"
      BY <1>1, <1>6, <3>2 DEF Script, RenewScript
    <3>. QED
      BY <1>6, <3>1, <3>2
  <2>2. r.ttl \in TTLs \cup RenewTTLs /\ Seconds(r.ttl) = r.ttl
    BY <1>6 DEF ClientInv, LateOK, WholeSeconds
  <2>3. ASSUME NEW h \in Goroutine, lease'[h] > 0 PROVE LeaseBacked!(h)!2'
    <3>1. lease[h] > 0 /\ (lease'[h] = lease[h] \/ lease'[h] = r.ttl)
      BY <1>1, <2>3 DEF EvaluatedLate, Renewed, ClientInv, ClientTypeOK
    <3>2. lease'[h] <= r.ttl /\ r.ttl > 0
      BY <1>2, <2>2, <2>3, <3>1 DEF LeaseBacked, ClientInv, ClientTypeOK
    <3>3. holders \subseteq holders' /\ ttl' = r.ttl
      BY <2>1, <2>2, <3>2 DEF Expire
    <3>4. \A d \in TTLs \cup RenewTTLs : r.ttl = d
      BY <2>2 DEF UniformTTL
    <3>5. PICK v \in holders : /\ v[1] = InstanceOf[h]
                               /\ \A q \in late : q.from = None => q.value # v
      BY <3>1 DEF LeaseBacked
    <3>6. v \in holders' /\ \A q \in late' : q.from = None => q.value # v
      BY <1>3, <3>3, <3>5
    <3>. QED
      BY <1>3, <3>1, <3>2, <3>3, <3>4, <3>5, <3>6 DEF LeaseBacked
  <2>. QED
    BY <2>3 DEF LeaseBacked
<1>7. CASE ok /\ r.op = "unlock"
  <2>1. UnlockScript(r.value, TRUE)
    BY <1>1, <1>7 DEF Script
  <2>2. lease' = lease
    BY <1>4, <1>7
  <2>3. ASSUME NEW h \in Goroutine, lease'[h] > 0 PROVE LeaseBacked!(h)!2'
    <3>1. PICK v \in holders : /\ v[1] = InstanceOf[h]
                               /\ \A q \in late : q.from = None => q.value # v
      BY <2>2, <2>3 DEF LeaseBacked
    <3>2. r.value # v
      <4>1. CASE r.from = None
        BY <3>1, <4>1
      <4>2. CASE r.from # None
        <5>1. /\ r.from \in Worker /\ call[r.from].op = "unlock"
              /\ r.value[1] = InstanceOf[r.from]
          BY <1>2, <1>7, <4>2 DEF ClientInv, LateInCall, LateOK, CallsOK
        <5>2. h \in Worker /\ call[h].op # "unlock"
          BY <2>2, <2>3 DEF LeaseBacked
        <5>. QED
          BY <3>1, <5>1, <5>2 DEF OneWorkerPerInstance
      <4>. QED
        BY <4>1, <4>2
    <3>3. v \in holders' /\ ttl' = ttl
      <4>1. /\ \A w \in holders : w # r.value => w \in holders'
            /\ (\E w \in holders : w # r.value) => ttl' = ttl
        BY <2>1, OthersStay
      <4>. QED
        BY <3>2, <4>1
    <3>4. \A q \in late' : q.from = None => q.value # v
      BY <1>3, <3>1
    <3>. QED
      BY <1>3, <2>2, <2>3, <3>1, <3>3, <3>4 DEF LeaseBacked
  <2>. QED
    BY <2>3 DEF LeaseBacked
<1>. QED
  BY <1>1, <1>5, <1>6, <1>7 DEF Script

LEMMA LeaseInvariant ==
  ASSUME OneWorkerPerInstance, WholeSeconds, UniformTTL,
         "straggle" \notin Faults
  PROVE  Spec => []LeaseInv
<1>1. Init => LeaseBacked
  BY DEF Init, ClientInit, LeaseBacked
<1>2. ServerInv /\ ClientInv /\ LeaseBacked /\ [Next]_vars => LeaseBacked'
  <2>. SUFFICES ASSUME ServerInv, ClientInv, LeaseBacked, [Next]_vars
                PROVE  LeaseBacked'
    OBVIOUS
  <2>1. CASE ClientStep(holders) /\ UNCHANGED serverVars
    BY <2>1, ClientStepEndsLeases, BackedKept
  <2>2. CASE \E g \in Goroutine, locked \in BOOLEAN : Eval(g, locked)
    BY <2>2, BackedEval
  <2>3. CASE \E locked \in BOOLEAN : EvalLate(locked)
    BY <2>3, BackedEvalLate
  <2>4. CASE Tick
    BY <2>4, BackedTick
  <2>5. CASE UNCHANGED vars
    BY <2>5 DEF vars, clientVars, serverVars, LeaseBacked
  <2>. QED
    BY <2>1, <2>2, <2>3, <2>4, <2>5 DEF Next, Step, ClientStep
<1>3. ServerInv /\ ClientInv /\ LeaseBacked => LeaseInv
  BY DEF ServerInv, LeaseInv, TypeOK, ClientInv
<1>. QED
  BY <1>1, <1>2, <1>3, Invariant, PTL DEF Spec

(* A reader within its lease is counted under a value of its own, whatever  *)
(* the other readers do, provided that one goroutine of a process locks the *)
(* key, that all durations are the same number of whole seconds, and that   *)
(* no request takes effect after its call has returned.                     *)
THEOREM ReadersAreCounted ==
  ASSUME OneWorkerPerInstance, WholeSeconds, UniformTTL,
         "straggle" \notin Faults
  PROVE  Spec => []ReaderCounted
<1>1. LeaseInv => ReaderCounted
  <2>. SUFFICES ASSUME LeaseInv, NEW g \in Goroutine, lease[g] > 0
                PROVE  count > 0 /\ \E v \in holders : v[1] = InstanceOf[g]
    BY DEF ReaderCounted
  <2>1. ttl # 0 /\ \E v \in holders : v[1] = InstanceOf[g]
    BY DEF LeaseInv, LeaseBacked, TypeOK, ClientTypeOK
  <2>. QED
    BY <2>1 DEF LeaseInv, TypeOK
<1>. QED
  BY <1>1, LeaseInvariant, PTL
==============================================================================
