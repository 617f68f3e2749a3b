-------------------------- MODULE RedisClientProofs --------------------------
(***************************************************************************)
(* ClientInv is an invariant of the steps of RedisClient, whatever the     *)
(* scripts at the server do.  The proofs about the two lock objects start  *)
(* from here.                                                              *)
(***************************************************************************)
EXTENDS RedisClient, TLAPS

(* The duration that Redis gets is a number of ticks.                       *)
LEMMA SecondsNat == ASSUME NEW d \in Nat PROVE Seconds(d) \in Nat
<1>1. d \div Second \in Nat
  BY ClientAssumption
<1>2. Second \in Nat
  BY ClientAssumption
<1>. DEFINE k == d \div Second
<1>3. k * Second \in Nat
  <2>. HIDE DEF k
  <2>1. k \in Nat
    BY <1>1 DEF k
  <2>. QED
    BY <2>1, <1>2
<1>. QED
  BY <1>3 DEF Seconds

LEMMA FreshValue ==
  ASSUME NEW i \in Instance, NEW remote, Fresh(i, remote) # {}
  PROVE  LET v == CHOOSE w \in Fresh(i, remote) : TRUE IN
           /\ v \in Value
           /\ v # None
           /\ v[1] = i
           /\ \A j \in Instance : lockValues[j] # v
           /\ \A g \in Goroutine : call[g].value # v
           /\ \A r \in late : r.value # v
<1>. DEFINE v == CHOOSE w \in Fresh(i, remote) : TRUE
<1>1. v \in Fresh(i, remote)
  OBVIOUS
<1>. HIDE DEF v
<1>2. v \in {i} \X Token /\ v \in Value /\ v[1] = i
  BY <1>1 DEF Fresh, Value
<1>. QED
  BY <1>1, <1>2, ClientAssumption DEF Fresh, v

(* The client starts in ClientInv.                                          *)
LEMMA ClientInitInv == ClientInit => ClientInv
BY ClientAssumption
   DEF ClientInit, ClientInv, ClientTypeOK, CallsOK, TablesOK, LateOK,
       LateInCall, Call, Op, Ready, Value

(* One lemma per kind of step.  A call begins ...                           *)
LEMMA BeginOpInv ==
  ASSUME ClientInv, NEW g \in Goroutine,
         NEW op \in Op \ {"none"}, NEW d \in Nat, NEW n \in Nat, Begin(g, op, d, n),
         op \in {"lock", "unlock"} => g \in Worker,
         op = "lock" => d \in TTLs,
         op = "renew" => d \in RenewTTLs,
         UNCHANGED <<lockValues, late>>,
         held' \in [Goroutine -> BOOLEAN], lease' \in [Goroutine -> Nat]
  PROVE  ClientInv'
<1>. USE ClientAssumption DEF ClientInv, ClientTypeOK
<1>1. call'[g] \in Call /\ call' = [call EXCEPT ![g] = call'[g]]
  BY DEF Begin, Ready, Call
<1>2. ClientTypeOK'
  BY <1>1
<1>3. CallsOK'
  BY DEF CallsOK, Begin, Ready
<1>4. TablesOK' /\ LateOK'
  BY DEF TablesOK, LateOK, Begin, Ready
<1>5. LateInCall'
  BY DEF LateInCall, Begin, Ready, CallsOK
<1>. QED
  BY <1>2, <1>3, <1>4, <1>5

LEMMA GiveUpType ==
  ASSUME ClientTypeOK, NEW g \in Goroutine, GiveUp(g)
  PROVE  held' \in [Goroutine -> BOOLEAN] /\ lease' \in [Goroutine -> Nat]
BY DEF GiveUp, ClientTypeOK

(* ... as the four operations begin theirs.                                 *)
LEMMA BeginInv ==
  ASSUME ClientInv, NEW g \in Goroutine, BeginCall(g)
  PROVE  ClientInv'
<1>. USE ClientAssumption
<1>1. PICK op \in Op \ {"none"}, d \in Nat, n \in Nat :
        /\ Begin(g, op, d, n)
        /\ op \in {"lock", "unlock"} => g \in Worker
        /\ op = "lock" => d \in TTLs
        /\ op = "renew" => d \in RenewTTLs
  BY DEF BeginCall, BeginLock, BeginTryLock, BeginUnlock, BeginRenew, Op
<1>2. UNCHANGED <<lockValues, late>>
  BY DEF BeginCall, BeginLock, BeginTryLock, BeginUnlock, BeginRenew
<1>3. held' \in [Goroutine -> BOOLEAN] /\ lease' \in [Goroutine -> Nat]
  <2>1. GiveUp(g) \/ UNCHANGED <<held, lease>>
    BY DEF BeginCall, BeginLock, BeginTryLock, BeginUnlock, BeginRenew
  <2>. QED
    BY <2>1, GiveUpType DEF ClientInv, ClientTypeOK
<1>. QED
  BY <1>1, <1>2, <1>3, BeginOpInv

(* A call ends: what is left of it is Ready.                                *)
LEMMA ReturnInv ==
  ASSUME ClientInv, NEW g \in Goroutine, Return(g), MayReturn(g, late'),
         late' \subseteq LateRequest,
         \A r \in late' : r \in late \/ (r = Request(g) /\ call[g].pc = "eval"),
         \/ lockValues' = lockValues
         \/ lockValues' = [lockValues EXCEPT ![InstanceOf[g]] = None],
         held' \in [Goroutine -> BOOLEAN],
         lease' \in [Goroutine -> Nat]
  PROVE  ClientInv'
<1>. USE ClientAssumption DEF ClientInv, ClientTypeOK, Return
<1>1. Ready \in Call
  BY DEF Ready, Call, Op
<1>2. lockValues' \in [Instance -> Value \cup {None}]
  OBVIOUS
<1>3. \A i \in Instance : lockValues'[i] # None => lockValues'[i] = lockValues[i]
  OBVIOUS
<1>4. \A h \in Goroutine : h # g => call'[h] = call[h]
  OBVIOUS
<1>5. call'[g] = Ready
  OBVIOUS
<1>6. ClientTypeOK'
  BY <1>1, <1>2
<1>7. CallsOK'
  BY <1>4, <1>5 DEF CallsOK, Ready
<1>8. TablesOK'
  BY <1>3 DEF TablesOK
<1>9. LateOK'
  <2>. SUFFICES ASSUME NEW r \in late' PROVE LateOK!(r)'
    BY DEF LateOK
  <2>1. CASE r \in late
    BY <1>3, <1>4, <1>5, <2>1 DEF LateOK, Ready
  <2>2. CASE r = Request(g) /\ call[g].pc = "eval"
    BY <2>2 DEF CallsOK, Request
  <2>. QED
    BY <2>1, <2>2
<1>10. LateInCall'
  BY <1>4 DEF LateInCall, LateRequest, MayReturn, Request
<1>. QED
  BY <1>6, <1>7, <1>8, <1>9, <1>10

(* getLockValue finds or makes a value of the object of its goroutine.      *)
LEMMA ProceedInv ==
  ASSUME ClientInv, NEW g \in Goroutine, NEW v \in Value, Proceed(g, v),
         call[g].pc \in {"load", "store"},
         v[1] = InstanceOf[g],
         \A r \in late : r.from = None => r.value # v,
         \/ lockValues' = lockValues
         \/ lockValues' = [lockValues EXCEPT ![InstanceOf[g]] = v],
         late' = late, held' = held, lease' = lease
  PROVE  ClientInv'
<1>. USE ClientAssumption DEF ClientInv, ClientTypeOK
<1>0. v # None
  OBVIOUS
<1>1. lockValues' \in [Instance -> Value \cup {None}]
  OBVIOUS
<1>2. TablesOK'
  BY <1>0 DEF TablesOK
<1>3. \A r \in late : r.from = None => \A i \in Instance : lockValues'[i] # r.value
  BY DEF LateOK
<1>4. CASE call[g].op = "renew" /\ call[g].ttl \in Rejected
  <2>1. call' = [call EXCEPT ![g] = Ready]
    BY <1>4 DEF Proceed, Return
  <2>2. Ready \in Call
    BY DEF Ready, Call, Op
  <2>3. ClientTypeOK'
    BY <1>1, <2>1, <2>2
  <2>4. CallsOK'
    BY <2>1 DEF CallsOK, Ready
  <2>5. LateOK'
    BY <1>3, <2>1 DEF LateOK, Ready
  <2>6. "straggle" \notin Faults => \A r \in late : r.from # g
    BY <1>4 DEF LateInCall
  <2>7. LateInCall'
    BY <2>1, <2>6 DEF LateInCall, LateRequest
  <2>. QED
    BY <1>2, <2>3, <2>4, <2>5, <2>7
<1>5. CASE ~(call[g].op = "renew" /\ call[g].ttl \in Rejected)
  <2>1. call' = [call EXCEPT ![g].pc = "eval", ![g].value = v]
    BY <1>5 DEF Proceed
  <2>2. ClientTypeOK'
    <3>0. call[g] \in Call
      OBVIOUS
    <3>1. [call[g] EXCEPT !.pc = "eval", !.value = v] \in Call
      BY <3>0, Zenon DEF Call
    <3>2. call' = [call EXCEPT ![g] = [call[g] EXCEPT !.pc = "eval", !.value = v]]
      BY <2>1
    <3>. QED
      BY <1>1, <3>1, <3>2
  <2>3. CallsOK'
    BY <1>0, <2>1 DEF CallsOK, Call
  <2>4. LateOK'
    BY <1>3, <2>1 DEF LateOK, Call
  <2>5. LateInCall'
    BY <2>1 DEF LateInCall, LateRequest, Call
  <2>. QED
    BY <1>2, <2>2, <2>3, <2>4, <2>5
<1>. QED
  BY <1>4, <1>5

LEMMA StoreInv ==
  ASSUME ClientInv, NEW g \in Goroutine, NEW remote, Store(g, remote)
  PROVE  ClientInv'
<1>. DEFINE v == CHOOSE w \in Fresh(InstanceOf[g], remote) : TRUE
<1>1. InstanceOf[g] \in Instance
  BY ClientAssumption
<1>2. v \in Value /\ v[1] = InstanceOf[g] /\ \A r \in late : r.value # v
  BY <1>1, FreshValue DEF Store
<1>3. /\ lockValues' = [lockValues EXCEPT ![InstanceOf[g]] = v]
      /\ Proceed(g, v)
      /\ call[g].pc = "store"
      /\ UNCHANGED <<late, held, lease>>
  BY DEF Store
<1>. HIDE DEF v
<1>. QED
  BY <1>2, <1>3, ProceedInv

(* A call changes, and keeps what it is about: its operation and duration.  *)
LEMMA CallChangesInv ==
  ASSUME ClientInv, NEW g \in Goroutine, NEW c \in Call,
         call' = [call EXCEPT ![g] = c],
         c.pc # "ready", c.op = call[g].op, c.ttl = call[g].ttl,
         c.value = call[g].value \/ c.value = None,
         c.pc \in {"eval", "reply"} => c.value # None,
         call[g].pc \in {"eval", "reply"} /\ c.op # "lock"
           => c.pc \in {"eval", "reply"},
         lockValues' = lockValues,
         held' \in [Goroutine -> BOOLEAN],
         lease' \in [Goroutine -> Nat],
         late' \subseteq LateRequest,
         \A r \in late' : r \in late \/ (r = Request(g) /\ call[g].pc = "eval")
  PROVE  ClientInv'
<1>. USE ClientAssumption DEF ClientInv, ClientTypeOK
<1>1. \A h \in Goroutine : h # g => call'[h] = call[h]
  OBVIOUS
<1>2. call'[g] = c
  OBVIOUS
<1>3. ClientTypeOK'
  OBVIOUS
<1>4. CallsOK'
  BY <1>1, <1>2 DEF CallsOK
<1>5. TablesOK'
  BY DEF TablesOK
<1>6. LateOK'
  <2>. SUFFICES ASSUME NEW r \in late' PROVE LateOK!(r)'
    BY DEF LateOK
  <2>1. CASE r \in late
    BY <1>1, <1>2, <2>1 DEF LateOK
  <2>2. CASE r = Request(g) /\ call[g].pc = "eval"
    BY <2>2 DEF CallsOK, Request
  <2>. QED
    BY <2>1, <2>2
<1>7. LateInCall'
  <2>. SUFFICES ASSUME "straggle" \notin Faults, NEW r \in late', r.from # None
                PROVE  /\ call'[r.from].op = r.op
                       /\ r.op # "lock" => call'[r.from].pc \in {"eval", "reply"}
    BY DEF LateInCall
  <2>1. CASE r \in late
    BY <1>1, <1>2, <2>1 DEF LateInCall, LateRequest
  <2>2. CASE r = Request(g) /\ call[g].pc = "eval"
    BY <1>2, <2>2 DEF Request
  <2>. QED
    BY <2>1, <2>2
<1>. QED
  BY <1>3, <1>4, <1>5, <1>6, <1>7

LEMMA CallAloneChangesInv ==
  ASSUME ClientInv, NEW g \in Goroutine, NEW c \in Call,
         call' = [call EXCEPT ![g] = c],
         c.pc # "ready", c.op = call[g].op, c.ttl = call[g].ttl,
         c.value = call[g].value \/ c.value = None,
         c.pc \in {"eval", "reply"} => c.value # None,
         call[g].pc \in {"eval", "reply"} /\ c.op # "lock"
           => c.pc \in {"eval", "reply"},
         UNCHANGED <<lockValues, late, held, lease>>
  PROVE  ClientInv'
<1>1. lockValues' = lockValues /\ held' \in [Goroutine -> BOOLEAN]
  BY DEF ClientInv, ClientTypeOK
<1>2. lease' \in [Goroutine -> Nat] /\ late' \subseteq LateRequest
  BY DEF ClientInv, ClientTypeOK
<1>3. \A r \in late' : r \in late \/ (r = Request(g) /\ call[g].pc = "eval")
  OBVIOUS
<1>. QED
  BY <1>1, <1>2, <1>3, CallChangesInv

LEMMA ReturnAloneInv ==
  ASSUME ClientInv, NEW g \in Goroutine, Return(g), MayReturn(g, late),
         \/ lockValues' = lockValues
         \/ lockValues' = [lockValues EXCEPT ![InstanceOf[g]] = None],
         late' = late, lease' = lease,
         held' = held \/ held' = [held EXCEPT ![g] = TRUE]
  PROVE  ClientInv'
<1>1. held' \in [Goroutine -> BOOLEAN]
  <2>1. CASE held' = held
    BY <2>1 DEF ClientInv, ClientTypeOK
  <2>2. CASE held' = [held EXCEPT ![g] = TRUE]
    BY <2>2 DEF ClientInv, ClientTypeOK
  <2>. QED
    BY <2>1, <2>2
<1>2. lease' \in [Goroutine -> Nat] /\ late' \subseteq LateRequest
  BY DEF ClientInv, ClientTypeOK
<1>3. MayReturn(g, late')
  BY DEF MayReturn
<1>4. \A r \in late' : r \in late \/ (r = Request(g) /\ call[g].pc = "eval")
  OBVIOUS
<1>. QED
  BY <1>1, <1>2, <1>3, <1>4, ReturnInv

LEMMA ContinueInv ==
  ASSUME ClientInv, NEW g \in Goroutine, Continue(g)
  PROVE  ClientInv'
<1>. USE ClientAssumption DEF ClientInv, ClientTypeOK
<1>1. call[g] \in Call
  OBVIOUS
<1>3. CASE Load(g)
  <2>. DEFINE v == lockValues[InstanceOf[g]]
  <2>1. CASE v # None
    <3>1. v \in Value /\ v[1] = InstanceOf[g]
      BY <2>1 DEF TablesOK
    <3>2. \A r \in late : r.from = None => r.value # v
      BY DEF LateOK
    <3>. QED
      BY <1>3, <2>1, <3>1, <3>2, ProceedInv DEF Load
  <2>2. CASE v = None
    <3>1. [call[g] EXCEPT !.pc = "store"] \in Call
      BY <1>1 DEF Call
    <3>2. call' = [call EXCEPT ![g] = [call[g] EXCEPT !.pc = "store"]]
      BY <1>3, <2>2 DEF Load
    <3>3. call[g].pc = "load" /\ UNCHANGED <<lockValues, late, held, lease>>
      BY <1>3 DEF Load
    <3>. QED
      BY <1>1, <3>1, <3>2, <3>3, CallAloneChangesInv DEF Call
  <2>. QED
    BY <2>1, <2>2
<1>4. CASE Acquired(g)
  BY <1>4, ReturnAloneInv DEF Acquired
<1>5. CASE Refused(g)
  BY <1>5, ReturnAloneInv DEF Refused
<1>6. CASE Backoff(g)
  <2>. DEFINE c == [Ready EXCEPT !.pc = "wait", !.op = "lock",
                                 !.ttl = call[g].ttl, !.attempt = call[g].attempt]
  <2>1. c \in Call /\ c.pc = "wait" /\ c.op = "lock" /\ c.ttl = call[g].ttl /\ c.value = None
    BY <1>1 DEF Ready, Call, Op
  <2>2. call' = [call EXCEPT ![g] = c] /\ call[g].op = "lock"
        /\ UNCHANGED <<lockValues, late, held, lease>>
    BY <1>6 DEF Backoff, Replied
  <2>. HIDE DEF c
  <2>. QED
    BY <2>1, <2>2, CallAloneChangesInv
<1>7. CASE Wake(g)
  <2>. DEFINE c == [call[g] EXCEPT !.pc = "load", !.attempt = @ + 1]
  <2>1. c \in Call
    <3>1. call[g].attempt + 1 \in Nat
      BY <1>1 DEF Call
    <3>. QED
      BY <1>1, <3>1, Zenon DEF Call
  <2>2. c.pc = "load" /\ c.op = call[g].op /\ c.ttl = call[g].ttl /\ c.value = call[g].value
    BY <1>1 DEF Call
  <2>3. /\ call' = [call EXCEPT ![g] = c]
        /\ call[g].pc = "wait"
        /\ UNCHANGED <<lockValues, late, held, lease>>
    BY <1>7 DEF Wake
  <2>. HIDE DEF c
  <2>. QED
    BY <2>1, <2>2, <2>3, CallAloneChangesInv
<1>8. CASE Released(g)
  BY <1>8, ReturnAloneInv DEF Released
<1>9. CASE NotHeld(g)
  BY <1>9, ReturnAloneInv DEF NotHeld
<1>10. CASE RenewReturns(g)
  BY <1>10, ReturnAloneInv DEF RenewReturns
<1>. QED
  BY <1>3, <1>4, <1>5, <1>6, <1>7, <1>8, <1>9, <1>10 DEF Continue

LEMMA InterruptInv ==
  ASSUME ClientInv, NEW g \in Goroutine, Interrupt(g)
  PROVE  ClientInv'
<1>. USE ClientAssumption DEF ClientInv, ClientTypeOK
<1>1. call[g] \in Call
  OBVIOUS
<1>2. CASE Cancel(g)
  BY <1>2, ReturnAloneInv DEF Cancel
<1>3. CASE RequestLost(g) \/ RequestDelayed(g) \/ ReplyLost(g)
  <2>1. /\ late' = late \/ (late' = late \cup {Request(g)} /\ call[g].pc = "eval")
        /\ call[g].pc \in {"eval", "reply"}
        /\ TimedOut(g)
    <3>1. CASE RequestLost(g)
      BY <3>1 DEF RequestLost
    <3>2. CASE RequestDelayed(g)
      BY <3>2 DEF RequestDelayed
    <3>3. CASE ReplyLost(g)
      BY <3>3 DEF ReplyLost
    <3>. QED
      BY <1>3, <3>1, <3>2, <3>3
  <2>2. Request(g) \in LateRequest
    BY <1>1 DEF Request, LateRequest, Call
  <2>3. late' \subseteq LateRequest
    BY <2>1, <2>2
  <2>4. /\ lease' \in [Goroutine -> Nat]
        /\ lockValues' = lockValues
        /\ held' \in [Goroutine -> BOOLEAN]
        /\ \A r \in late' : r \in late \/ (r = Request(g) /\ call[g].pc = "eval")
    <3>1. lease' \in [Goroutine -> Nat]
      BY <2>1 DEF TimedOut
    <3>. QED
      BY <2>1, <3>1 DEF TimedOut
  <2>5. CASE Resend(g)
    <3>. DEFINE c == [call[g] EXCEPT !.pc = "eval", !.ok = FALSE, !.sends = @ + 1]
    <3>1. c \in Call
      <4>1. call[g].sends + 1 \in Nat
        BY <1>1 DEF Call
      <4>. QED
        BY <1>1, <4>1, Zenon DEF Call
    <3>2. /\ c.pc = "eval" /\ c.op = call[g].op /\ c.ttl = call[g].ttl
          /\ c.value = call[g].value /\ c.value # None
      BY <1>1, <2>1 DEF Call, CallsOK
    <3>3. call' = [call EXCEPT ![g] = c]
      BY <2>5 DEF Resend
    <3>. HIDE DEF c
    <3>. QED
      BY <2>1, <2>3, <2>4, <3>1, <3>2, <3>3, CallChangesInv
  <2>6. CASE Fail(g)
    BY <2>3, <2>4, <2>6, ReturnInv DEF Fail
  <2>. QED
    BY <2>1, <2>5, <2>6 DEF TimedOut
<1>. QED
  BY <1>2, <1>3 DEF Interrupt

(* A script ran for a call in progress, or for a late request.              *)
LEMMA RenewedType ==
  ASSUME ClientTypeOK, NEW q, q.ttl \in Nat, NEW ok \in BOOLEAN
  PROVE  Renewed(q, ok) \in [Goroutine -> Nat]
BY DEF Renewed, ClientTypeOK

LEMMA EvaluatedInv ==
  ASSUME ClientInv, NEW g \in Goroutine, NEW ok \in BOOLEAN,
         call[g].pc = "eval", Evaluated(g, ok)
  PROVE  ClientInv'
<1>. DEFINE c == [call[g] EXCEPT !.pc = "reply", !.ok = ok]
<1>1. call[g] \in Call /\ call[g].value # None /\ call[g].ttl \in Nat
  BY DEF ClientInv, ClientTypeOK, CallsOK, Call
<1>2. c \in Call
  BY <1>1, Zenon DEF Call
<1>3. /\ c.pc = "reply" /\ c.op = call[g].op
      /\ c.ttl = call[g].ttl /\ c.value = call[g].value
  BY <1>1 DEF Call
<1>4. call' = [call EXCEPT ![g] = c]
  BY DEF Evaluated
<1>5. lease' \in [Goroutine -> Nat]
  <2>1. CASE ok /\ call[g].op = "lock"
    BY <1>1, <2>1 DEF Evaluated, ClientInv, ClientTypeOK
  <2>2. CASE ~(ok /\ call[g].op = "lock")
    <3>1. Request(g).ttl \in Nat
      BY <1>1 DEF Request
    <3>. QED
      BY <2>2, <3>1, RenewedType DEF Evaluated, ClientInv
  <2>. QED
    BY <2>1, <2>2
<1>6. lockValues' = lockValues /\ held' \in [Goroutine -> BOOLEAN]
  BY DEF Evaluated, ClientInv, ClientTypeOK
<1>7. late' \subseteq LateRequest
  BY DEF Evaluated, ClientInv, ClientTypeOK
<1>8. \A r \in late' : r \in late \/ (r = Request(g) /\ call[g].pc = "eval")
  BY DEF Evaluated
<1>. HIDE DEF c
<1>. QED
  BY <1>1, <1>2, <1>3, <1>4, <1>5, <1>6, <1>7, <1>8, CallChangesInv

LEMMA EvaluatedLateInv ==
  ASSUME ClientInv, NEW r \in late, NEW ok \in BOOLEAN, EvaluatedLate(r, ok)
  PROVE  ClientInv'
<1>. USE DEF ClientInv, ClientTypeOK, EvaluatedLate
<1>1. lease' \in [Goroutine -> Nat]
  BY RenewedType DEF LateRequest
<1>2. ClientTypeOK'
  BY <1>1
<1>3. CallsOK' /\ TablesOK'
  BY DEF CallsOK, TablesOK
<1>4. LateOK' /\ LateInCall'
  BY DEF LateOK, LateInCall
<1>. QED
  BY <1>2, <1>3, <1>4

LEMMA ElapseInv ==
  ASSUME ClientInv, Elapse
  PROVE  ClientInv'
<1>. USE DEF ClientInv, ClientTypeOK, Elapse
<1>1. lease' \in [Goroutine -> Nat]
  OBVIOUS
<1>2. ClientTypeOK'
  BY <1>1
<1>3. CallsOK' /\ TablesOK' /\ LateOK' /\ LateInCall'
  BY DEF CallsOK, TablesOK, LateOK, LateInCall
<1>. QED
  BY <1>2, <1>3

(* A process crashes: its values are left only in late requests.            *)
LEMMA CrashInv ==
  ASSUME ClientInv, NEW i \in Instance, Crash(i)
  PROVE  ClientInv'
<1>. USE ClientAssumption DEF ClientInv, ClientTypeOK
<1>. DEFINE Orphan(r) == IF r.from # None /\ InstanceOf[r.from] = i
                         THEN [r EXCEPT !.from = None] ELSE r
<1>1. ASSUME NEW r \in late
      PROVE  /\ Orphan(r) \in LateRequest
             /\ Orphan(r).op = r.op /\ Orphan(r).ttl = r.ttl /\ Orphan(r).value = r.value
             /\ Orphan(r).from # None => Orphan(r) = r /\ InstanceOf[r.from] # i
             /\ Orphan(r).from = None => r.from = None \/ InstanceOf[r.from] = i
  BY DEF LateRequest
<1>2. late' = {Orphan(r) : r \in late}
  BY DEF Crash
<1>. HIDE DEF Orphan
<1>3. \A h \in Goroutine :
        call'[h] = IF InstanceOf[h] = i THEN Ready ELSE call[h]
  BY DEF Crash
<1>4. \A j \in Instance : lockValues'[j] = IF j = i THEN None ELSE lockValues[j]
  BY DEF Crash
<1>5. ClientTypeOK'
  <2>1. Ready \in Call
    BY DEF Ready, Call, Op
  <2>2. call' \in [Goroutine -> Call] /\ lockValues' \in [Instance -> Value \cup {None}]
    BY <2>1 DEF Crash
  <2>3. late' \subseteq LateRequest
    BY <1>1, <1>2
  <2>4. held' \in [Goroutine -> BOOLEAN]
    BY Zenon DEF Crash
  <2>5. lease' \in [Goroutine -> Nat]
    BY DEF Crash
  <2>. QED
    BY <2>2, <2>3, <2>4, <2>5
<1>6. CallsOK'
  <2>. SUFFICES ASSUME NEW h \in Goroutine
                PROVE  CallsOK!(h)'
    BY DEF CallsOK
  <2>1. CASE InstanceOf[h] = i
    <3>1. call'[h] = Ready
      BY <1>3, <2>1
    <3>. QED
      BY <3>1 DEF Ready
  <2>2. CASE InstanceOf[h] # i
    <3>1. call'[h] = call[h]
      BY <1>3, <2>2
    <3>. QED
      BY <3>1 DEF CallsOK
  <2>. QED
    BY <2>1, <2>2
<1>7. TablesOK'
  BY <1>4 DEF TablesOK
<1>8. LateOK'
  <2>. SUFFICES ASSUME NEW r \in late
                PROVE  LateOK!(Orphan(r))'
    BY <1>2 DEF LateOK
  <2>. QED
    BY <1>1, <1>3, <1>4 DEF LateOK, CallsOK, TablesOK, Ready, LateRequest
<1>9. LateInCall'
  BY <1>1, <1>2, <1>3 DEF LateInCall, LateRequest
<1>. QED
  BY <1>5, <1>6, <1>7, <1>8, <1>9

-----------------------------------------------------------------------------
(* The steps that the server takes no part in.                              *)
ClientStep(remote) ==
  \/ \E g \in Goroutine :
       BeginCall(g) \/ Continue(g) \/ Store(g, remote) \/ Interrupt(g)
  \/ \E i \in Instance : Crash(i)

LEMMA ClientStepInv ==
  ASSUME NEW remote, ClientInv, ClientStep(remote)
  PROVE  ClientInv'
BY BeginInv, ContinueInv, StoreInv, InterruptInv, CrashInv DEF ClientStep

(* Leases are neither made nor prolonged, no goroutine within a lease       *)
(* begins to unlock, and a request that its process leaves behind when it   *)
(* crashes is of an object that has no lease any more.                      *)
LeasesEndOnly ==
  /\ \A g \in Goroutine : lease'[g] > 0 =>
       /\ lease'[g] = lease[g]
       /\ call[g].op # "unlock" => call'[g].op # "unlock"
  /\ \A r \in late' : r.from = None =>
       \/ r \in late
       \/ \A g \in Goroutine : lease'[g] > 0 => InstanceOf[g] # r.value[1]

LEMMA BeginEndsLeases ==
  ASSUME ClientInv, NEW g \in Goroutine, BeginCall(g)
  PROVE  LeasesEndOnly
<1>1. late' = late
  BY DEF BeginCall, BeginLock, BeginTryLock, BeginUnlock, BeginRenew
<1>2. CASE BeginUnlock(g)
  BY <1>1, <1>2 DEF LeasesEndOnly, BeginUnlock, Begin, GiveUp, ClientInv, ClientTypeOK
<1>3. CASE BeginLock(g) \/ BeginTryLock(g) \/ BeginRenew(g)
  <2>1. lease' = lease /\ call'[g].op # "unlock"
        /\ \A h \in Goroutine : h # g => call'[h] = call[h]
    BY <1>3 DEF BeginLock, BeginTryLock, BeginRenew, Begin, ClientInv,
                ClientTypeOK, Ready
  <2>. QED
    BY <1>1, <2>1 DEF LeasesEndOnly
<1>. QED
  BY <1>2, <1>3 DEF BeginCall

LEMMA ContinueEndsLeases ==
  ASSUME ClientInv, NEW g \in Goroutine, NEW remote,
         Continue(g) \/ Store(g, remote)
  PROVE  LeasesEndOnly
<1>1. late' = late /\ lease' = lease
  BY DEF Continue, Load, Acquired, Refused, Backoff, Wake, Released, NotHeld,
         RenewReturns, Store
<1>2. \A h \in Goroutine : call'[h].op # call[h].op => call'[h].op # "unlock"
  <2>. SUFFICES /\ \A h \in Goroutine : h # g => call'[h] = call[h]
                /\ call'[g].op = call[g].op \/ call'[g].op = "lock" \/ call'[g] = Ready
    BY DEF Ready
  <2>. USE DEF ClientInv, ClientTypeOK
  <2>1. CASE Return(g)
    BY <2>1 DEF Return
  <2>2. CASE \E v \in Value : Proceed(g, v)
    BY <2>2 DEF Proceed, Return, Call
  <2>3. CASE Backoff(g)
    BY <2>3 DEF Backoff, Ready
  <2>4. CASE Wake(g)
    BY <2>4 DEF Wake, Call
  <2>5. CASE call' = [call EXCEPT ![g].pc = "store"]
    BY <2>5 DEF Call
  <2>6. Load(g) => \/ \E v \in Value : Proceed(g, v)
                   \/ call' = [call EXCEPT ![g].pc = "store"]
    BY ClientAssumption DEF Load
  <2>7. Store(g, remote) => \E v \in Value : Proceed(g, v)
    BY ClientAssumption, FreshValue DEF Store
  <2>. QED
    BY <2>1, <2>2, <2>3, <2>4, <2>5, <2>6, <2>7
       DEF Continue, Acquired, Refused, Released, NotHeld, RenewReturns
<1>. QED
  BY <1>1, <1>2 DEF LeasesEndOnly

LEMMA InterruptEndsLeases ==
  ASSUME ClientInv, NEW g \in Goroutine, Interrupt(g)
  PROVE  LeasesEndOnly
<1>1. late' = late \/ late' = late \cup {Request(g)}
  BY DEF Interrupt, Cancel, RequestLost, RequestDelayed, ReplyLost
<1>2. \A h \in Goroutine : lease'[h] > 0 => lease'[h] = lease[h]
  BY DEF Interrupt, Cancel, RequestLost, RequestDelayed, ReplyLost, TimedOut,
         ClientInv, ClientTypeOK
<1>3. \A h \in Goroutine : call'[h].op # call[h].op => call'[h].op # "unlock"
  <2>1. CASE Return(g)
    BY <2>1 DEF Return, Ready, ClientInv, ClientTypeOK
  <2>2. CASE Resend(g)
    BY <2>2 DEF Resend, ClientInv, ClientTypeOK, Call
  <2>. QED
    BY <2>1, <2>2 DEF Interrupt, Cancel, RequestLost, RequestDelayed, ReplyLost,
       TimedOut, Fail
<1>4. Request(g).from # None
  BY ClientAssumption DEF Request
<1>. QED
  BY <1>1, <1>2, <1>3, <1>4 DEF LeasesEndOnly

LEMMA CrashEndsLeases ==
  ASSUME ClientInv, NEW i \in Instance, Crash(i)
  PROVE  LeasesEndOnly
<1>1. \A h \in Goroutine : lease'[h] > 0 =>
        lease'[h] = lease[h] /\ InstanceOf[h] # i /\ call'[h] = call[h]
  BY DEF Crash, ClientInv, ClientTypeOK
<1>2. ASSUME NEW r \in late', r.from = None
      PROVE  r \in late \/ r.value[1] = i
  <2>1. PICK q \in late : r = IF q.from # None /\ InstanceOf[q.from] = i
                              THEN [q EXCEPT !.from = None] ELSE q
    BY DEF Crash
  <2>2. CASE q.from # None /\ InstanceOf[q.from] = i
    <3>1. q.value[1] = i
      BY <2>2 DEF ClientInv, LateOK
    <3>2. r.value = q.value
      BY <2>1, <2>2 DEF ClientInv, ClientTypeOK, LateRequest
    <3>. QED
      BY <3>1, <3>2
  <2>. QED
    BY <2>1, <2>2
<1>. QED
  BY <1>1, <1>2 DEF LeasesEndOnly

LEMMA ClientStepEndsLeases ==
  ASSUME NEW remote, ClientInv, ClientStep(remote)
  PROVE  LeasesEndOnly
BY BeginEndsLeases, ContinueEndsLeases, InterruptEndsLeases, CrashEndsLeases
   DEF ClientStep
-----------------------------------------------------------------------------
(* For who runs the steps of a client himself, as the combined lock does: a *)
(* call of any operation begins, or a goroutine gives up between two calls. *)
LEMMA BeginOpEndsLeases ==
  ASSUME ClientInv, NEW g \in Goroutine, NEW op, NEW d, NEW n, Begin(g, op, d, n),
         op = "unlock" => lease'[g] = 0,
         late' = late, lease' = lease \/ GiveUp(g)
  PROVE  LeasesEndOnly
<1>1. \A h \in Goroutine : lease'[h] > 0 => lease'[h] = lease[h]
  BY DEF GiveUp, ClientInv, ClientTypeOK
<1>2. call'[g].op = op /\ \A h \in Goroutine : h # g => call'[h] = call[h]
  BY DEF Begin, Ready, ClientInv, ClientTypeOK
<1>. QED
  BY <1>1, <1>2 DEF LeasesEndOnly

LEMMA GiveUpInv ==
  ASSUME ClientInv, NEW g \in Goroutine, GiveUp(g),
         UNCHANGED <<lockValues, call, late>>
  PROVE  ClientInv' /\ LeasesEndOnly
<1>1. held' \in [Goroutine -> BOOLEAN] /\ lease' \in [Goroutine -> Nat]
  BY GiveUpType DEF ClientInv
<1>2. ClientInv'
  BY <1>1 DEF ClientInv, ClientTypeOK, CallsOK, TablesOK, LateOK, LateInCall
<1>3. LeasesEndOnly
  BY DEF LeasesEndOnly, GiveUp, ClientInv, ClientTypeOK
<1>. QED
  BY <1>2, <1>3

(* A call in progress goes on: the others rest, and it does not become an   *)
(* Unlock.                                                                  *)
LEMMA CallGoesOn ==
  ASSUME ClientInv, NEW g \in Goroutine, NEW remote,
         Continue(g) \/ Store(g, remote) \/ Interrupt(g)
  PROVE  /\ call[g].pc # "ready"
         /\ \A h \in Goroutine : h # g => call'[h] = call[h]
         /\ call'[g].op = "unlock" => call[g].op = "unlock"
<1>. USE DEF ClientInv, ClientTypeOK
<1>1. call[g].pc # "ready"
  BY DEF Continue, Load, Acquired, Refused, Backoff, Wake, Released, NotHeld,
     RenewReturns, Replied, Store, Interrupt, Cancel, RequestLost,
     RequestDelayed, ReplyLost
<1>. SUFFICES /\ \A h \in Goroutine : h # g => call'[h] = call[h]
              /\ call'[g].op = "unlock" => call[g].op = "unlock"
  BY <1>1
<1>2. CASE Return(g)
  BY <1>2 DEF Return, Ready
<1>3. CASE \E v \in Value : Proceed(g, v)
  BY <1>2, <1>3 DEF Proceed, Call
<1>4. CASE Backoff(g)
  BY <1>4 DEF Backoff, Ready
<1>5. CASE Wake(g)
  BY <1>5 DEF Wake, Call
<1>6. CASE call' = [call EXCEPT ![g].pc = "store"]
  BY <1>6 DEF Call
<1>7. CASE Resend(g)
  BY <1>7 DEF Resend, Call
<1>8. Load(g) => \/ \E v \in Value : Proceed(g, v)
                 \/ call' = [call EXCEPT ![g].pc = "store"]
  BY ClientAssumption DEF Load
<1>9. Store(g, remote) => \E v \in Value : Proceed(g, v)
  BY ClientAssumption, FreshValue DEF Store
<1>10. Interrupt(g) => Return(g) \/ Resend(g)
  BY DEF Interrupt, Cancel, RequestLost, RequestDelayed, ReplyLost, TimedOut, Fail
<1>11. Continue(g) => Load(g) \/ Return(g) \/ Backoff(g) \/ Wake(g)
  BY DEF Continue, Acquired, Refused, Released, NotHeld, RenewReturns
<1>. QED
  BY <1>2, <1>3, <1>4, <1>5, <1>6, <1>7, <1>8, <1>9, <1>10, <1>11

(* Only goroutines that lock and unlock are ever told that they have it.    *)
HoldersWork == \A g \in Goroutine : held[g] => g \in Worker

LEMMA HoldersWorkKept ==
  ASSUME NEW remote, ClientInv, HoldersWork, ClientStep(remote)
  PROVE  HoldersWork'
<1>. USE DEF ClientInv, ClientTypeOK
<1>1. CASE UNCHANGED held
  BY <1>1 DEF HoldersWork
<1>2. ASSUME NEW g \in Goroutine, Acquired(g)
      PROVE  HoldersWork'
  BY <1>2 DEF Acquired, Replied, CallsOK, HoldersWork
<1>3. ASSUME NEW g \in Goroutine, BeginUnlock(g)
      PROVE  HoldersWork'
  BY <1>3 DEF BeginUnlock, GiveUp, HoldersWork
<1>4. ASSUME NEW i \in Instance, Crash(i)
      PROVE  HoldersWork'
  BY <1>4 DEF Crash, HoldersWork
<1>. QED
  BY <1>1, <1>2, <1>3, <1>4
     DEF ClientStep, BeginCall, BeginLock, BeginTryLock, BeginRenew, Continue,
         Load, Refused, Backoff, Wake, Released, NotHeld, RenewReturns, Store,
         Interrupt, Cancel, RequestLost, RequestDelayed, ReplyLost, TimedOut
==============================================================================
