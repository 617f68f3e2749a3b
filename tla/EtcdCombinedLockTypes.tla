------------------------ MODULE EtcdCombinedLockTypes -------------------------
(***************************************************************************)
(* Types of EtcdCombinedLock, for every use of it: where the steps of a    *)
(* call lead, and that no step leaves the types of the tables and keys.    *)
(***************************************************************************)
EXTENDS EtcdCombinedLock, FiniteSetTheorems, TLAPS

(* What a call has with it at each place.                                   *)
CallFits(g, c) ==
  /\ c.pc \in {"check", "put", "find holder", "read count", "release"} =>
       c.value \in Value /\ c.value[1] = InstanceOf[g]
  /\ c.pc \in {"check", "put", "set lease"} => c.lease \in Lease \cup {Ended}
  /\ c.pc = "put" /\ c.kind = "shared" => c.count < MaxCount
  /\ c.pc = "release" => c.count <= MaxCount
  /\ c.pc \in {"check", "put", "wait", "set lease"} => c.op = "lock"
  /\ c.pc \in {"delete value", "delete lease"} => c.op = "unlock"
  /\ c.pc = "ready" => c = Ready
  /\ c.pc \in {"load", "store"} => /\ c.op # "none"
                                   /\ c.op = "renew" => c.kind = "shared"

CallsOK ==
  /\ call \in [Goroutine -> Call]
  /\ \A g \in Goroutine : CallFits(g, call[g])

TablesOK ==
  /\ lockValues \in [Kind -> [Instance -> MaybeValue]]
  /\ leaseIDs \in [Kind -> [Instance -> MaybeLease]]
  /\ \A k \in Kind, i \in Instance :
       lockValues[k][i] # None => lockValues[k][i][1] = i

HeldOK == held \in [Goroutine -> Hold \cup {NoHold}]

HistoryOK == contested \subseteq Goroutine /\ sound \in BOOLEAN

CountOK ==
  /\ count \in 0..MaxCount
  /\ countLease \in Lease \cup {None}
  /\ count = 0 => countLease = None
  /\ holders \in [Value -> Lease \cup {None}]

TypeInv ==
  CallsOK /\ TablesOK /\ HeldOK /\ HistoryOK /\ ExclusiveTypeOK /\ CountOK

-----------------------------------------------------------------------------
(* Where the steps of a call lead: the call of g becomes c.                 *)
Turn(g, c) == c \in Call /\ CallFits(g, c) /\ call' = [call EXCEPT ![g] = c]

LEMMA TurnType ==
  ASSUME CallsOK, NEW g \in Goroutine, NEW c, Turn(g, c)
  PROVE  CallsOK'
BY DEF CallsOK, Turn

LEMMA ReadyFits == ASSUME NEW g \in Goroutine PROVE Ready \in Call /\ CallFits(g, Ready)
BY DEF Ready, Call, CallFits, Kind, MaybeValue, MaybeLease

LEMMA ReturnTurn ==
  ASSUME NEW g \in Goroutine, Return(g)
  PROVE  Turn(g, Ready)
BY ReadyFits DEF Return, Turn

(* The call of g after getLockValue has the value v.                        *)
Requested(g, op, kind, v, c) ==
  /\ c.op = op /\ c.kind = kind /\ c.value = v /\ c.count = 0
  /\ \/ op = "lock" /\ c.pc = "check" /\ c.lease \in Lease
     \/ op # "lock" /\ c.pc = "release" /\ kind = "exclusive" /\ c.lease = None
     \/ op # "lock" /\ c.pc = "find holder" /\ kind = "shared" /\ c.lease = None

LEMMA RequestTurn ==
  ASSUME NEW g \in Goroutine, NEW op \in {"lock", "unlock", "renew"},
         NEW kind \in Kind, NEW v \in Value, v[1] = InstanceOf[g], NEW remote,
         Request(g, op, kind, v, remote)
  PROVE  \E c \in Call : Turn(g, c) /\ Requested(g, op, kind, v, c)
<1>. DEFINE b == [Ready EXCEPT !.op = op, !.kind = kind, !.value = v]
<1>0. 0 <= MaxCount
  BY MaxCountAssumption
<1>1. CASE op = "lock"
  <2>1. PICK l \in Lease :
          call' = [call EXCEPT ![g] = [b EXCEPT !.pc = "check", !.lease = l]]
    BY <1>1 DEF Request, Unused
  <2>. DEFINE c == [b EXCEPT !.pc = "check", !.lease = l]
  <2>2. c \in Call /\ CallFits(g, c) /\ Requested(g, op, kind, v, c)
    BY <1>1, MaxCountAssumption
       DEF Call, CallFits, Requested, MaybeValue, MaybeLease, Ready
  <2>. QED
    BY <2>1, <2>2 DEF Turn
<1>2. CASE op # "lock"
  <2>1. PICK p \in {"release", "find holder"} :
          /\ p = IF kind = "exclusive" THEN "release" ELSE "find holder"
          /\ call' = [call EXCEPT ![g] = [b EXCEPT !.pc = p]]
    BY <1>2 DEF Request
  <2>. DEFINE c == [b EXCEPT !.pc = p]
  <2>2. c \in Call
    BY MaxCountAssumption DEF Call, MaybeValue, MaybeLease, Ready
  <2>4. /\ c.pc = p /\ c.op = op /\ c.kind = kind /\ c.value = v
        /\ c.lease = None /\ c.count = 0
    BY DEF Ready
  <2>. HIDE DEF c
  <2>6. CallFits(g, c)
    BY <1>0, <1>2, <2>1, <2>4 DEF CallFits
  <2>3. Requested(g, op, kind, v, c)
    BY <1>2, <2>1, <2>4 DEF Requested, Kind
  <2>. QED
    BY <2>1, <2>2, <2>3, <2>6 DEF Turn, c
<1>. QED
  BY <1>1, <1>2

(* ... and after it has looked into the table.                              *)
LEMMA LookTurn ==
  ASSUME TablesOK, NEW g \in Goroutine, NEW op \in {"lock", "unlock", "renew"},
         NEW kind \in Kind, op = "renew" => kind = "shared", NEW remote,
         Look(g, op, kind, remote)
  PROVE  \E c \in Call :
           /\ Turn(g, c)
           /\ \/ Requested(g, op, kind, lockValues[kind][InstanceOf[g]], c)
              \/ /\ c = [Ready EXCEPT !.pc = "store", !.op = op, !.kind = kind]
                 /\ lockValues[kind][InstanceOf[g]] = None
<1>. DEFINE v == lockValues[kind][InstanceOf[g]]
<1>0. InstanceOf[g] \in Instance
  BY EtcdClientAssumption
<1>1. CASE v # None
  <2>1. v \in Value /\ v[1] = InstanceOf[g]
    BY <1>0, <1>1 DEF TablesOK, MaybeValue
  <2>2. Request(g, op, kind, v, remote)
    BY <1>1 DEF Look
  <2>. QED
    BY <2>1, <2>2, RequestTurn
<1>2. CASE v = None
  <2>. DEFINE c == [Ready EXCEPT !.pc = "store", !.op = op, !.kind = kind]
  <2>1. call' = [call EXCEPT ![g] = c]
    BY <1>2 DEF Look
  <2>2. c \in Call /\ CallFits(g, c)
    BY DEF Call, CallFits, Ready, MaybeValue, MaybeLease
  <2>. QED
    BY <1>2, <2>1, <2>2 DEF Turn
<1>. QED
  BY <1>1, <1>2

(* A failing call ends, or begins again with the shared lock object.        *)
LEMMA FailTurn ==
  ASSUME CallsOK, NEW g \in Goroutine, Fail(g)
  PROVE  \E c \in Call :
           /\ Turn(g, c)
           /\ \/ c = Ready
              \/ /\ call[g].op \in {"unlock", "renew"} /\ call[g].kind = "exclusive"
                 /\ c = [Ready EXCEPT !.pc = "load", !.op = call[g].op, !.kind = "shared"]
<1>1. CASE call[g].op \in {"unlock", "renew"} /\ call[g].kind = "exclusive"
  <2>. DEFINE c == [Ready EXCEPT !.pc = "load", !.op = call[g].op, !.kind = "shared"]
  <2>1. call' = [call EXCEPT ![g] = c]
    BY <1>1 DEF Fail
  <2>2. c \in Call /\ CallFits(g, c)
    BY <1>1 DEF Call, CallFits, Ready, MaybeValue, MaybeLease, Kind
  <2>. QED
    BY <1>1, <2>1, <2>2 DEF Turn
<1>2. CASE ~(call[g].op \in {"unlock", "renew"} /\ call[g].kind = "exclusive")
  BY <1>2, ReturnTurn, ReadyFits DEF Fail
<1>. QED
  BY <1>1, <1>2

LEMMA RefuseTurn ==
  ASSUME CallsOK, NEW g \in Goroutine, Refuse(g)
  PROVE  \E c \in Call :
           /\ Turn(g, c)
           /\ c = Ready \/ c = [Ready EXCEPT !.pc = "wait", !.op = "lock",
                                             !.kind = call[g].kind]
<1>. DEFINE c == [Ready EXCEPT !.pc = "wait", !.op = "lock", !.kind = call[g].kind]
<1>1. c \in Call /\ CallFits(g, c)
  BY DEF CallsOK, Call, CallFits, Ready, MaybeValue, MaybeLease
<1>. QED
  BY <1>1, ReturnTurn, ReadyFits DEF Refuse, Turn

(* A call goes on to another place, with what it has.                       *)
LEMMA GotoTurn ==
  ASSUME CallsOK, NEW g \in Goroutine, NEW pc,
         \/ pc = "put" /\ At(g, "check") /\ call[g].kind = "exclusive"
         \/ pc = "read count" /\ At(g, "find holder")
         \/ pc = "load lease"
         \/ pc = "delete lease" /\ At(g, "delete value"),
         Goto(g, pc)
  PROVE  Turn(g, [call[g] EXCEPT !.pc = pc])
<1>. DEFINE c == [call[g] EXCEPT !.pc = pc]
<1>1. call[g] \in Call /\ CallFits(g, call[g])
  BY DEF CallsOK
<1>2. pc \in {"put", "read count", "load lease", "delete lease"}
  OBVIOUS
<1>3. c \in Call
  BY <1>1, <1>2 DEF Call
<1>4. /\ c.pc = pc /\ c.op = call[g].op /\ c.kind = call[g].kind
      /\ c.value = call[g].value /\ c.lease = call[g].lease
  BY <1>1, <1>2 DEF Call
<1>5. CallFits(g, c)
  <2>. HIDE DEF c
  <2>. QED
    BY <1>1, <1>2, <1>4 DEF CallFits, At, Kind
<1>. QED
  BY <1>3, <1>5 DEF Turn, Goto

(* etcd answers that the key is written or deleted.                         *)
LEMMA SucceedTurn ==
  ASSUME CallsOK, NEW g \in Goroutine, NEW pc,
         \/ pc = "set lease" /\ At(g, "put")
         \/ pc = "delete value" /\ call[g].op = "unlock",
         Succeed(g, pc)
  PROVE  Turn(g, [call[g] EXCEPT !.pc = pc, !.value = None, !.count = 0])
<1>. DEFINE c == [call[g] EXCEPT !.pc = pc, !.value = None, !.count = 0]
<1>1. call[g] \in Call /\ CallFits(g, call[g])
  BY DEF CallsOK
<1>2. pc \in {"set lease", "delete value"}
  OBVIOUS
<1>3. c \in Call
  BY <1>1, <1>2 DEF Call, MaybeValue
<1>4. c.pc = pc /\ c.op = call[g].op /\ c.lease = call[g].lease
  BY <1>1, <1>2 DEF Call
<1>5. CallFits(g, c)
  <2>. HIDE DEF c
  <2>. QED
    BY <1>1, <1>2, <1>4 DEF CallFits, At
<1>6. call' = [call EXCEPT ![g] = c]
  BY DEF Succeed, CallsOK
<1>. QED
  BY <1>3, <1>5, <1>6 DEF Turn

(* The counter is read.                                                     *)
LEMMA ReadTurn ==
  ASSUME CallsOK, CountOK, NEW g \in Goroutine, NEW pc,
         \/ pc = "put" /\ At(g, "check") /\ count < MaxCount
         \/ pc = "release" /\ At(g, "read count"),
         Read(g, pc)
  PROVE  Turn(g, [call[g] EXCEPT !.pc = pc, !.count = count])
<1>. DEFINE c == [call[g] EXCEPT !.pc = pc, !.count = count]
<1>1. call[g] \in Call /\ CallFits(g, call[g])
  BY DEF CallsOK
<1>7. count \in Nat /\ count <= MaxCount
  BY ONLY MaxCountAssumption, CountOK DEF CountOK
<1>2. pc \in {"put", "release"} /\ count \in Nat /\ count <= MaxCount
  BY <1>7
<1>3. c \in Call
  BY <1>1, <1>2 DEF Call
<1>4. /\ c.pc = pc /\ c.op = call[g].op /\ c.count = count
      /\ c.value = call[g].value /\ c.lease = call[g].lease
  BY <1>1, <1>2 DEF Call
<1>5. CallFits(g, c)
  <2>. HIDE DEF c
  <2>. QED
    BY <1>1, <1>2, <1>4 DEF CallFits, At
<1>6. call' = [call EXCEPT ![g] = c]
  BY DEF Read, CallsOK
<1>. QED
  BY <1>3, <1>5, <1>6 DEF Turn

(* The lease number is read from the table.                                 *)
LEMMA LoadLeaseTurn ==
  ASSUME CallsOK, NEW g \in Goroutine, NEW l \in MaybeLease,
         call' = [call EXCEPT ![g].pc = "keep alive", ![g].lease = l]
  PROVE  Turn(g, [call[g] EXCEPT !.pc = "keep alive", !.lease = l])
<1>. DEFINE c == [call[g] EXCEPT !.pc = "keep alive", !.lease = l]
<1>1. c \in Call /\ c.pc = "keep alive"
  BY DEF CallsOK, Call
<1>2. CallFits(g, c)
  BY <1>1 DEF CallFits
<1>3. call' = [call EXCEPT ![g] = c]
  BY DEF CallsOK
<1>. QED
  BY <1>1, <1>2, <1>3 DEF Turn

(* One lemma for the steps that change nothing but the call, ...            *)
CallOnly(g) ==
  \/ \E kind \in Kind : BeginLock(g, kind, LeasesInEtcd)
  \/ BeginRenew(g) \/ Load(g, LeasesInEtcd) \/ Wake(g, LeasesInEtcd)
  \/ PutFails(g) \/ LoadLease(g) \/ KeepAlive(g) \/ Cancel(g) \/ RequestLost(g)
  \/ Check(g, Readers) \/ NotHeld(g)
  \/ EnterFails(g, Locked) \/ FindHolder(g) \/ ReadCount(g) \/ LeaveFails(g)

(* Where they lead: TryLock asks for the value of its table, and comes to   *)
(* the Put of the exclusive lock when it found neither key nor reader.      *)
Onward(g, c) ==
  /\ ~At(g, "set lease") /\ c.pc # "set lease"
  /\ \/ c.op \in {call[g].op, "none"}
     \/ At(g, "ready") /\ c.op = "lock" /\ held[g] = NoHold
     \/ At(g, "ready") /\ c.op = "renew"
  /\ c.pc = "store" => lockValues[c.kind][InstanceOf[g]] = None
  /\ c.pc = "check" => c.value = lockValues[c.kind][InstanceOf[g]]
  /\ c.pc = "put" => /\ At(g, "check") /\ lockKey = NoKey /\ Readers = 0
                     /\ call[g].kind = "exclusive"
                     /\ c = [call[g] EXCEPT !.pc = "put"]
  /\ c.pc = "release" /\ c.kind = "shared" => At(g, "read count") /\ c.count = count

LEMMA OnwardEnds ==
  ASSUME CallsOK, NEW g \in Goroutine, NEW c,
         \/ c = Ready
         \/ c = [Ready EXCEPT !.pc = "load", !.op = call[g].op, !.kind = "shared"]
         \/ c = [Ready EXCEPT !.pc = "wait", !.op = "lock", !.kind = call[g].kind]
            /\ call[g].op = "lock",
         ~At(g, "set lease")
  PROVE  Onward(g, c)
<1>1. c.pc \in {"ready", "load", "wait"} /\ c.op \in {call[g].op, "none"}
  <2>1. CASE c = Ready
    BY <2>1 DEF Ready
  <2>2. CASE c = [Ready EXCEPT !.pc = "load", !.op = call[g].op, !.kind = "shared"]
    BY <2>2 DEF Ready
  <2>3. CASE /\ c = [Ready EXCEPT !.pc = "wait", !.op = "lock", !.kind = call[g].kind]
             /\ call[g].op = "lock"
    BY <2>3 DEF Ready
  <2>. QED
    BY <2>1, <2>2, <2>3
<1>. QED
  BY <1>1 DEF Onward

LEMMA OnwardLook ==
  ASSUME NEW g \in Goroutine, NEW op \in {"lock", "unlock", "renew"},
         NEW kind \in Kind, NEW c, ~At(g, "set lease"),
         \/ op = call[g].op
         \/ At(g, "ready") /\ op = "lock" /\ held[g] = NoHold,
         \/ Requested(g, op, kind, lockValues[kind][InstanceOf[g]], c)
         \/ /\ c = [Ready EXCEPT !.pc = "store", !.op = op, !.kind = kind]
            /\ lockValues[kind][InstanceOf[g]] = None
  PROVE  Onward(g, c)
<1>1. /\ c.op = op /\ c.kind = kind
      /\ \/ c.pc = "check" /\ c.value = lockValues[kind][InstanceOf[g]]
         \/ c.pc = "release" /\ kind = "exclusive"
         \/ c.pc = "find holder"
         \/ c.pc = "store" /\ lockValues[kind][InstanceOf[g]] = None
  BY DEF Requested, Ready
<1>. QED
  BY <1>1 DEF Onward

LEMMA LookOnward ==
  ASSUME TablesOK, NEW g \in Goroutine, NEW op \in {"lock", "unlock", "renew"},
         NEW kind \in Kind, op = "renew" => kind = "shared", NEW remote,
         Look(g, op, kind, remote), ~At(g, "set lease"),
         \/ op = call[g].op
         \/ At(g, "ready") /\ op = "lock" /\ held[g] = NoHold
  PROVE  \E c \in Call : Turn(g, c) /\ Onward(g, c)
<1>1. PICK c \in Call :
        /\ Turn(g, c)
        /\ \/ Requested(g, op, kind, lockValues[kind][InstanceOf[g]], c)
           \/ /\ c = [Ready EXCEPT !.pc = "store", !.op = op, !.kind = kind]
              /\ lockValues[kind][InstanceOf[g]] = None
  BY LookTurn
<1>2. Onward(g, c)
  BY <1>1, OnwardLook
<1>. QED
  BY <1>1, <1>2

LEMMA CallOnlyTurns ==
  ASSUME TypeInv, NEW g \in Goroutine, CallOnly(g)
  PROVE  (\E c \in Call : Turn(g, c) /\ Onward(g, c)) /\ UNCHANGED <<tableVars, held>>
<1>. USE DEF TypeInv
<1>0. call[g] \in Call /\ CallFits(g, call[g]) /\ InstanceOf[g] \in Instance
  BY EtcdClientAssumption DEF CallsOK
<1>1. UNCHANGED <<tableVars, held>>
  BY DEF CallOnly, BeginLock, BeginRenew, Load, Wake, PutFails, LoadLease,
         KeepAlive, Cancel, RequestLost, Check, NotHeld, EnterFails, FindHolder,
         ReadCount, LeaveFails, Read
<1>. SUFFICES \E c \in Call : Turn(g, c) /\ Onward(g, c)
  BY <1>1
<1>2. ASSUME ~At(g, "set lease"),
             Return(g) \/ Fail(g) \/ (Refuse(g) /\ call[g].op = "lock")
      PROVE  \E c \in Call : Turn(g, c) /\ Onward(g, c)
  <2>1. CASE Return(g)
    BY <1>2, <2>1, ReturnTurn, OnwardEnds, ReadyFits
  <2>2. CASE Fail(g)
    BY <1>2, <2>2, FailTurn, OnwardEnds
  <2>3. CASE Refuse(g) /\ call[g].op = "lock"
    BY <1>2, <2>3, RefuseTurn, OnwardEnds
  <2>. QED
    BY <1>2, <2>1, <2>2, <2>3
<1>3. ASSUME NEW kind \in Kind, BeginLock(g, kind, LeasesInEtcd)
      PROVE  \E c \in Call : Turn(g, c) /\ Onward(g, c)
  <2>1. At(g, "ready") /\ held[g] = NoHold /\ ~At(g, "set lease")
    BY <1>3 DEF BeginLock, At
  <2>2. Look(g, "lock", kind, LeasesInEtcd)
    BY <1>3 DEF BeginLock
  <2>. QED
    BY <2>1, <2>2, LookOnward
<1>4. CASE BeginRenew(g)
  <2>. DEFINE c == [Ready EXCEPT !.pc = "load lease", !.op = "renew"]
  <2>1. c \in Call /\ CallFits(g, c)
    BY DEF Call, CallFits, Ready, Kind, MaybeValue, MaybeLease
  <2>2. Onward(g, c)
    BY <1>4 DEF BeginRenew, Onward, At, Ready
  <2>. QED
    BY <1>4, <2>1, <2>2 DEF BeginRenew, Turn
<1>5. CASE Load(g, LeasesInEtcd) \/ Wake(g, LeasesInEtcd)
  <2>. DEFINE op == call[g].op
              kind == call[g].kind
  <2>1. /\ op \in {"lock", "unlock", "renew"} /\ kind \in Kind
        /\ op = "renew" => kind = "shared"
        /\ ~At(g, "set lease")
    BY <1>0, <1>5 DEF Load, Wake, Call, CallFits, At
  <2>2. Look(g, op, kind, LeasesInEtcd)
    BY <1>0, <1>5 DEF Load, Wake, CallFits, At
  <2>. HIDE DEF kind
  <2>. QED
    BY <2>1, <2>2, LookOnward DEF op
<1>6. CASE LoadLease(g)
  <2>. DEFINE l == leaseIDs[call[g].kind][InstanceOf[g]]
              c == [call[g] EXCEPT !.pc = "keep alive", !.lease = l]
  <2>1. l \in MaybeLease /\ ~At(g, "set lease")
    BY <1>0, <1>6 DEF TablesOK, Call, LoadLease, At
  <2>2. c.pc = "keep alive" /\ c.op = call[g].op
    BY <1>0 DEF Call
  <2>3. Onward(g, c)
    BY <2>1, <2>2 DEF Onward
  <2>4. CASE l # None
    <3>1. call' = [call EXCEPT ![g].pc = "keep alive", ![g].lease = l]
      BY <1>6, <2>4 DEF LoadLease
    <3>2. Turn(g, c)
      BY <2>1, <3>1, LoadLeaseTurn
    <3>. QED
      BY <2>3, <3>2 DEF Turn
  <2>5. CASE l = None
    BY <1>2, <1>6, <2>1, <2>5 DEF LoadLease
  <2>. QED
    BY <2>4, <2>5
<1>7. CASE Check(g, Readers)
  <2>0. At(g, "check") /\ call[g].op = "lock" /\ ~At(g, "set lease")
    BY <1>7 DEF Check, At, In
  <2>1. CASE lockKey = NoKey /\ Readers = 0
    <3>. DEFINE c == [call[g] EXCEPT !.pc = "put"]
    <3>1. call[g].kind = "exclusive" /\ Goto(g, "put")
      BY <1>7, <2>1 DEF Check, In
    <3>2. Turn(g, c)
      BY <2>0, <3>1, GotoTurn
    <3>3. c.pc = "put" /\ c.op = call[g].op
      BY <1>0 DEF Call
    <3>4. Onward(g, c)
      BY <2>0, <2>1, <3>1, <3>3 DEF Onward
    <3>. QED
      BY <3>2, <3>4 DEF Turn
  <2>. QED
    BY <1>2, <1>7, <2>0, <2>1 DEF Check
<1>8. CASE FindHolder(g)
  <2>1. At(g, "find holder") /\ ~At(g, "set lease")
    BY <1>8 DEF FindHolder, At
  <2>2. ASSUME NEW pc \in {"read count", "load lease"}, Goto(g, pc)
        PROVE  \E c \in Call : Turn(g, c) /\ Onward(g, c)
    <3>. DEFINE c == [call[g] EXCEPT !.pc = pc]
    <3>1. Turn(g, c)
      BY <2>1, <2>2, GotoTurn
    <3>2. c.pc = pc /\ c.op = call[g].op
      BY <1>0 DEF Call
    <3>3. Onward(g, c)
      BY <2>1, <3>2 DEF Onward
    <3>. QED
      BY <3>1, <3>3 DEF Turn
  <2>3. Fail(g) \/ \E pc \in {"read count", "load lease"} : Goto(g, pc)
    BY <1>8 DEF FindHolder
  <2>. QED
    BY <1>2, <2>1, <2>2, <2>3
<1>9. CASE ReadCount(g)
  <2>. DEFINE c == [call[g] EXCEPT !.pc = "release", !.count = count]
  <2>1. Turn(g, c)
    BY <1>9, ReadTurn DEF ReadCount
  <2>2. c.pc = "release" /\ c.op = call[g].op /\ c.count = count
    BY <1>0 DEF Call
  <2>3. Onward(g, c)
    BY <1>9, <2>2 DEF Onward, ReadCount, At
  <2>. QED
    BY <2>1, <2>3 DEF Turn
<1>10. CASE EnterFails(g, Locked)
  BY <1>2, <1>10 DEF EnterFails, At, In
<1>11. CASE PutFails(g) \/ KeepAlive(g) \/ Cancel(g) \/ RequestLost(g)
            \/ NotHeld(g) \/ LeaveFails(g)
  <2>1. ~At(g, "set lease")
    BY <1>11 DEF PutFails, KeepAlive, Cancel, RequestLost, NotHeld, LeaveFails, At
  <2>2. Return(g) \/ Fail(g)
    BY <1>11 DEF PutFails, KeepAlive, Cancel, RequestLost, NotHeld, LeaveFails
  <2>. QED
    BY <1>2, <2>1, <2>2
<1>. QED
  BY <1>3, <1>4, <1>5, <1>6, <1>7, <1>8, <1>9, <1>10, <1>11 DEF CallOnly

(* ... and one for those that change the tables or the lock of a caller.    *)
LEMMA StoreTurns ==
  ASSUME TypeInv, NEW g \in Goroutine, NEW values, Store(g, values, LeasesInEtcd)
  PROVE  /\ \E c \in Call, v \in Value :
              /\ Turn(g, c)
              /\ v[1] = InstanceOf[g]
              /\ Requested(g, call[g].op, call[g].kind, v, c)
              /\ lockValues' = [lockValues EXCEPT ![call[g].kind][InstanceOf[g]] = v]
         /\ UNCHANGED <<leaseIDs, held>>
<1>. DEFINE F == Fresh(g, values)
            v == CHOOSE w \in F : TRUE
<1>1. v \in F
  BY DEF Store
<1>4. /\ lockValues' = [lockValues EXCEPT ![call[g].kind][InstanceOf[g]] = v]
      /\ Request(g, call[g].op, call[g].kind, v, LeasesInEtcd)
      /\ UNCHANGED <<leaseIDs, held>>
  BY DEF Store
<1>. HIDE DEF v
<1>2. v \in Value /\ v[1] = InstanceOf[g]
  <2>1. v \in {InstanceOf[g]} \X Token
    BY <1>1 DEF Fresh
  <2>. QED
    BY <2>1, EtcdClientAssumption DEF Value
<1>3. /\ call[g].op \in {"lock", "unlock", "renew"}
      /\ call[g].kind \in Kind
  BY DEF Store, At, TypeInv, CallsOK, CallFits, Call
<1>. QED
  BY <1>2, <1>3, <1>4, RequestTurn

-----------------------------------------------------------------------------
(* The types, for the calls and tables of a caller and what it holds ...    *)
CallerOK == CallsOK /\ TablesOK /\ HeldOK

LEMMA AcquiredType ==
  ASSUME CallerOK, NEW g \in Goroutine, At(g, "put"), HasLease(g), Acquired(g),
         UNCHANGED tableVars
  PROVE  CallerOK'
<1>1. CallsOK'
  BY SucceedTurn, TurnType DEF Acquired, CallerOK
<1>2. call[g].kind \in Kind /\ call[g].lease \in Lease
  BY DEF CallerOK, CallsOK, CallFits, Call, At, HasLease
<1>3. HeldOK'
  BY <1>2 DEF Acquired, CallerOK, HeldOK, Hold
<1>. QED
  BY <1>1, <1>3 DEF CallerOK, TablesOK, tableVars

LEMMA ReleasedType ==
  ASSUME CallerOK, NEW g \in Goroutine, call[g].op = "unlock", Released(g),
         UNCHANGED tableVars
  PROVE  CallerOK'
<1>1. CallsOK'
  BY SucceedTurn, TurnType DEF Released, CallerOK
<1>. QED
  BY <1>1 DEF Released, CallerOK, TablesOK, HeldOK, tableVars

LEMMA ReplyLostType ==
  ASSUME CallerOK, NEW g \in Goroutine, ReplyLost(g), UNCHANGED tableVars
  PROVE  CallerOK'
<1>1. CallsOK'
  BY FailTurn, TurnType DEF ReplyLost, CallerOK
<1>. QED
  BY <1>1 DEF ReplyLost, CallerOK, TablesOK, HeldOK, tableVars

LEMMA CallOnlyType ==
  ASSUME TypeInv, NEW g \in Goroutine, CallOnly(g)
  PROVE  CallerOK'
<1>1. CallsOK' /\ UNCHANGED <<tableVars, held>>
  BY CallOnlyTurns, TurnType DEF TypeInv
<1>. QED
  BY <1>1 DEF TypeInv, CallerOK, TablesOK, HeldOK, tableVars

LEMMA TablesType ==
  ASSUME CallerOK, NEW g \in Goroutine, SetLease(g) \/ DeleteValue(g) \/ DeleteLease(g)
  PROVE  CallerOK'
<1>. USE DEF CallerOK
<1>0. /\ InstanceOf[g] \in Instance /\ call[g].kind \in Kind
      /\ call[g].lease \in MaybeLease /\ None \in MaybeLease /\ None \in MaybeValue
  BY EtcdClientAssumption DEF CallsOK, Call, MaybeLease, MaybeValue
<1>1. CallsOK'
  BY ReturnTurn, GotoTurn, TurnType DEF SetLease, DeleteValue, DeleteLease
<1>2. TablesOK'
  <2>1. CASE SetLease(g)
    BY <1>0, <2>1 DEF SetLease, TablesOK
  <2>2. CASE DeleteValue(g)
    BY <1>0, <2>2 DEF DeleteValue, TablesOK
  <2>3. CASE DeleteLease(g)
    BY <1>0, <2>3 DEF DeleteLease, TablesOK
  <2>. QED
    BY <2>1, <2>2, <2>3
<1>3. HeldOK'
  BY DEF SetLease, DeleteValue, DeleteLease, HeldOK
<1>. QED
  BY <1>1, <1>2, <1>3

LEMMA StoreType ==
  ASSUME TypeInv, NEW g \in Goroutine, NEW values, Store(g, values, LeasesInEtcd)
  PROVE  CallerOK'
<1>1. PICK c \in Call, v \in Value :
        /\ Turn(g, c)
        /\ v[1] = InstanceOf[g]
        /\ lockValues' = [lockValues EXCEPT ![call[g].kind][InstanceOf[g]] = v]
        /\ UNCHANGED <<leaseIDs, held>>
  BY StoreTurns
<1>2. InstanceOf[g] \in Instance /\ call[g].kind \in Kind /\ v \in MaybeValue
  BY EtcdClientAssumption DEF TypeInv, CallsOK, Call, MaybeValue
<1>3. CallsOK'
  BY <1>1, TurnType DEF TypeInv
<1>4. TablesOK'
  BY <1>1, <1>2 DEF TypeInv, TablesOK
<1>. QED
  BY <1>1, <1>3, <1>4 DEF TypeInv, CallerOK, HeldOK

LEMMA BeginUnlockType ==
  ASSUME CallerOK, NEW g \in Goroutine, NEW remote, BeginUnlock(g, remote)
  PROVE  CallerOK'
<1>1. CallsOK'
  BY LookTurn, TurnType DEF BeginUnlock, CallerOK, Kind
<1>. QED
  BY <1>1 DEF BeginUnlock, CallerOK, TablesOK, HeldOK, tableVars

LEMMA CrashType ==
  ASSUME CallerOK, NEW i \in Instance, ClientCrash(i)
  PROVE  CallerOK'
<1>1. CallsOK'
  BY ReadyFits DEF ClientCrash, CallerOK, CallsOK
<1>2. TablesOK'
  BY DEF ClientCrash, CallerOK, TablesOK, MaybeValue, MaybeLease
<1>3. HeldOK'
  BY DEF ClientCrash, CallerOK, HeldOK
<1>. QED
  BY <1>1, <1>2, <1>3 DEF CallerOK

LEMMA EndLeaseType ==
  ASSUME CallerOK, NEW l \in Lease, EndLease(l)
  PROVE  CallerOK'
<1>. DEFINE End(m) == IF m = l THEN Ended ELSE m
<1>0. \A m \in MaybeLease : End(m) \in MaybeLease
  BY DEF MaybeLease
<1>1. CallsOK'
  <2>1. ASSUME NEW g \in Goroutine
        PROVE  /\ [call[g] EXCEPT !.lease = End(@)] \in Call
               /\ CallFits(g, [call[g] EXCEPT !.lease = End(@)])
    <3>. DEFINE c == [call[g] EXCEPT !.lease = End(@)]
    <3>1. call[g] \in Call /\ CallFits(g, call[g])
      BY DEF CallerOK, CallsOK
    <3>2. c \in Call /\ c.lease = End(call[g].lease)
      BY <1>0, <3>1 DEF Call
    <3>3. /\ c.pc = call[g].pc /\ c.op = call[g].op /\ c.kind = call[g].kind
          /\ c.value = call[g].value /\ c.count = call[g].count
      BY <3>1 DEF Call
    <3>4. call[g] = Ready => c = Ready
      BY EtcdClientAssumption DEF Ready
    <3>5. CallFits(g, c)
      <4>. HIDE DEF c
      <4>. QED
        BY <3>1, <3>2, <3>3, <3>4 DEF CallFits
    <3>. QED
      BY <3>2, <3>5
  <2>. QED
    BY <2>1 DEF EndLease, CallsOK
<1>2. TablesOK'
  BY <1>0 DEF EndLease, CallerOK, TablesOK
<1>3. HeldOK'
  <2>1. ASSUME NEW g \in Goroutine
        PROVE  [held[g] EXCEPT !.lease = End(@)] \in Hold \cup {NoHold}
    BY EtcdClientAssumption DEF CallerOK, HeldOK, Hold, NoHold
  <2>. QED
    BY <2>1 DEF EndLease, HeldOK
<1>. QED
  BY <1>1, <1>2, <1>3 DEF CallerOK

(* ... and for the keys in etcd.                                            *)
EtcdVars == <<lockKey, sharedVars>>

LEMMA KeysKeptType ==
  ASSUME ExclusiveTypeOK, CountOK, UNCHANGED EtcdVars
  PROVE  ExclusiveTypeOK' /\ CountOK'
BY DEF ExclusiveTypeOK, CountOK, EtcdVars, sharedVars, NoKey

LEMMA PutKeyType ==
  ASSUME CallsOK, CountOK, NEW g \in Goroutine, PutKey(g), UNCHANGED sharedVars
  PROVE  ExclusiveTypeOK' /\ CountOK'
<1>1. call[g].value \in Value /\ call[g].lease \in Lease
  BY DEF PutKey, CallsOK, CallFits, At, HasLease
<1>2. lockKey' \in [value : Value, lease : Lease]
  BY <1>1 DEF PutKey
<1>. QED
  BY <1>2 DEF ExclusiveTypeOK, CountOK, sharedVars

LEMMA DeleteKeyType ==
  ASSUME CountOK, NEW g \in Goroutine, DeleteKey(g), UNCHANGED sharedVars
  PROVE  ExclusiveTypeOK' /\ CountOK'
BY DEF DeleteKey, ExclusiveTypeOK, CountOK, sharedVars, NoKey

LEMMA EnterType ==
  ASSUME CallsOK, ExclusiveTypeOK, CountOK, NEW g \in Goroutine, NEW locked,
         Enter(g, locked), UNCHANGED lockKey
  PROVE  ExclusiveTypeOK' /\ CountOK'
<1>1. call[g].value \in Value /\ call[g].lease \in Lease
  BY DEF Enter, CallsOK, CallFits, At, HasLease
<1>2. holders' \in [Value -> Lease \cup {None}]
  BY <1>1 DEF Enter, CountOK
<1>. QED
  BY <1>2 DEF Enter, ExclusiveTypeOK, CountOK, NoKey

LEMMA PutCountType ==
  ASSUME CallsOK, ExclusiveTypeOK, CountOK, NEW g \in Goroutine, PutCount(g),
         UNCHANGED lockKey
  PROVE  ExclusiveTypeOK' /\ CountOK'
<1>1. /\ call[g].count \in Nat /\ call[g].count < MaxCount
      /\ call[g].lease \in Lease
  BY DEF PutCount, CallsOK, CallFits, Call, At, In, HasLease
<1>2. call[g].count + 1 \in 1..MaxCount
  BY <1>1, MaxCountAssumption
<1>3. count' \in 0..MaxCount /\ count' # 0
  BY <1>2, MaxCountAssumption DEF PutCount
<1>. QED
  BY <1>1, <1>3 DEF PutCount, ExclusiveTypeOK, CountOK, NoKey

LEMMA LeaveType ==
  ASSUME CallsOK, ExclusiveTypeOK, CountOK, NEW g \in Goroutine, Leave(g),
         UNCHANGED lockKey
  PROVE  ExclusiveTypeOK' /\ CountOK'
<1>1. call[g].count \in Nat /\ call[g].count <= MaxCount
  BY DEF Leave, CallsOK, CallFits, Call, At
<1>2. (IF call[g].count > 1 THEN call[g].count - 1 ELSE 0) \in 0..MaxCount
  BY <1>1, MaxCountAssumption
<1>3. count' \in 0..MaxCount /\ countLease' = None
  BY <1>2 DEF Leave
<1>4. holders' \in [Value -> Lease \cup {None}]
  BY DEF Leave, CountOK
<1>. QED
  BY <1>3, <1>4 DEF ExclusiveTypeOK, CountOK, NoKey

LEMMA ExpireType ==
  ASSUME ExclusiveTypeOK, CountOK, NEW l \in Lease, ExpireKey(l), ExpireShared(l)
  PROVE  ExclusiveTypeOK' /\ CountOK'
<1>1. ExclusiveTypeOK'
  BY DEF ExclusiveTypeOK, ExpireKey, NoKey
<1>2. count' \in 0..MaxCount
  BY MaxCountAssumption DEF CountOK, ExpireShared
<1>3. holders' \in [Value -> Lease \cup {None}]
  BY DEF CountOK, ExpireShared
<1>. QED
  BY <1>1, <1>2, <1>3 DEF CountOK, ExpireShared

LEMMA HistoryType == ASSUME HistoryOK, Observe PROVE HistoryOK'
BY DEF HistoryOK, Observe, ObserveContest, ObserveCounter

-----------------------------------------------------------------------------
(* The steps of a goroutine, sorted by what they change.                    *)
TablesStep(g) == SetLease(g) \/ DeleteValue(g) \/ DeleteLease(g)

CallerStep(g) ==
  \/ /\ \/ CallOnly(g) \/ BeginUnlock(g, LeasesInEtcd) \/ TablesStep(g)
        \/ Store(g, ValuesInEtcd(call[g].kind), LeasesInEtcd)
     /\ UNCHANGED EtcdVars
  \/ (PutKey(g) \/ DeleteKey(g)) /\ UNCHANGED sharedVars
  \/ (Enter(g, Locked) \/ PutCount(g) \/ Leave(g)) /\ UNCHANGED lockKey

LEMMA NextCases ==
  ASSUME [Next]_vars
  PROVE  \/ \E g \in Goroutine : CallerStep(g) /\ Observe
         \/ \E i \in Instance : ClientCrash(i) /\ UNCHANGED EtcdVars /\ Observe
         \/ \E l \in Lease : Expire(l)
         \/ UNCHANGED vars
<1>1. ASSUME NEW g \in Goroutine, Lock(g) \/ Unlock(g) \/ Renew(g) \/ Interrupt(g)
      PROVE  CallerStep(g) /\ Observe
  BY <1>1 DEF Lock, Unlock, Renew, Interrupt, CallerStep, CallOnly, EtcdVars
<1>2. ASSUME NEW g \in Goroutine, Step(g)
      PROVE  CallerStep(g) /\ Observe
  BY <1>2 DEF Step, ClientStep, ExclusiveStep, SharedStep, CallerStep, CallOnly,
         TablesStep, EtcdVars, Check, NotHeld, EnterFails, FindHolder, ReadCount,
         LeaveFails
<1>. QED
  BY <1>1, <1>2 DEF Next, Crash, Abandon, Overrun, EtcdVars

LEMMA TypeNext ==
  ASSUME TypeInv, [Next]_vars
  PROVE  TypeInv'
<1>0. CallerOK
  BY DEF TypeInv, CallerOK
<1>1. ASSUME NEW g \in Goroutine, CallerStep(g), Observe
      PROVE  TypeInv'
  <2>1. CASE (CallOnly(g) \/ BeginUnlock(g, LeasesInEtcd) \/ TablesStep(g)
                \/ Store(g, ValuesInEtcd(call[g].kind), LeasesInEtcd))
             /\ UNCHANGED EtcdVars
    BY <1>0, <1>1, <2>1, CallOnlyType, BeginUnlockType, TablesType, StoreType,
       KeysKeptType, HistoryType DEF TypeInv, CallerOK, TablesStep
  <2>2. CASE PutKey(g) /\ UNCHANGED sharedVars
    <3>1. CallerOK'
      BY <1>0, <2>2, AcquiredType, ReplyLostType DEF PutKey
    <3>. QED
      BY <1>1, <2>2, <3>1, PutKeyType, HistoryType DEF TypeInv, CallerOK
  <2>3. CASE DeleteKey(g) /\ UNCHANGED sharedVars
    <3>1. CallerOK'
      BY <1>0, <2>3, ReleasedType, ReplyLostType DEF DeleteKey, In
    <3>. QED
      BY <1>1, <2>3, <3>1, DeleteKeyType, HistoryType DEF TypeInv, CallerOK
  <2>4. CASE Enter(g, Locked) /\ UNCHANGED lockKey
    <3>1. CallerOK'
      <4>1. CASE Read(g, "put")
        <5>1. CallsOK'
          BY <2>4, <4>1, ReadTurn, TurnType DEF Enter, TypeInv
        <5>. QED
          BY <1>0, <2>4, <4>1, <5>1 DEF Enter, Read, CallerOK, TablesOK, HeldOK, tableVars
      <4>. QED
        BY <1>0, <2>4, <4>1, ReplyLostType DEF Enter
    <3>. QED
      BY <1>1, <2>4, <3>1, EnterType, HistoryType DEF TypeInv, CallerOK
  <2>5. CASE PutCount(g) /\ UNCHANGED lockKey
    <3>1. CallerOK'
      BY <1>0, <2>5, AcquiredType, ReplyLostType DEF PutCount
    <3>. QED
      BY <1>1, <2>5, <3>1, PutCountType, HistoryType DEF TypeInv, CallerOK
  <2>6. CASE Leave(g) /\ UNCHANGED lockKey
    <3>1. CallerOK'
      BY <1>0, <2>6, ReleasedType, ReplyLostType DEF Leave, In
    <3>. QED
      BY <1>1, <2>6, <3>1, LeaveType, HistoryType DEF TypeInv, CallerOK
  <2>. QED
    BY <1>1, <2>1, <2>2, <2>3, <2>4, <2>5, <2>6 DEF CallerStep
<1>2. ASSUME NEW i \in Instance, ClientCrash(i), UNCHANGED EtcdVars, Observe
      PROVE  TypeInv'
  BY <1>0, <1>2, CrashType, KeysKeptType, HistoryType DEF TypeInv, CallerOK
<1>3. ASSUME NEW l \in Lease, Expire(l)
      PROVE  TypeInv'
  BY <1>0, <1>3, EndLeaseType, ExpireType, HistoryType DEF Expire, TypeInv, CallerOK
<1>4. CASE UNCHANGED vars
  BY <1>4, KeysKeptType
     DEF vars, clientVars, tableVars, EtcdVars, TypeInv, CallsOK, TablesOK, HeldOK,
         HistoryOK
<1>. QED
  BY <1>1, <1>2, <1>3, <1>4, NextCases

LEMMA TypeInvariant == Spec => []TypeInv
<1>1. Init => TypeInv
  <2>. SUFFICES ASSUME Init PROVE TypeInv
    OBVIOUS
  <2>. USE DEF Init, ClientInit, ExclusiveInit, SharedInit
  <2>1. CallsOK
    BY ReadyFits DEF CallsOK
  <2>2. TablesOK /\ HeldOK
    BY DEF TablesOK, HeldOK, MaybeValue, MaybeLease
  <2>3. HistoryOK /\ ExclusiveTypeOK /\ CountOK
    BY MaxCountAssumption DEF HistoryOK, ExclusiveTypeOK, CountOK
  <2>. QED
    BY <2>1, <2>2, <2>3 DEF TypeInv
<1>2. TypeInv /\ [Next]_vars => TypeInv'
  BY TypeNext
<1>. QED
  BY <1>1, <1>2, PTL DEF Spec

(* Every reachable state is well typed, whatever goes wrong and however     *)
(* many goroutines call a lock object: no key hangs on a lease that is gone *)
(* and a counter that does not exist has no lease.                          *)
THEOREM TypeCorrect == Spec => []TypeOK
<1>1. TypeInv => TypeOK
  BY DEF TypeInv, TypeOK, ClientTypeOK, SharedTypeOK, CallsOK, TablesOK, HeldOK,
         HistoryOK, CountOK
<1>. QED
  BY <1>1, TypeInvariant, PTL
===============================================================================
