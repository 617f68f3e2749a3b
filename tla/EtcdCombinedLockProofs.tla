------------------------ MODULE EtcdCombinedLockProofs ------------------------
(***************************************************************************)
(* What EtcdCombinedLock keeps, when each lock object has one caller:      *)
(* writers exclude each other, the counter covers the readers, holders can *)
(* unlock, and, without a prefix, readers and writers exclude each other.  *)
(***************************************************************************)
EXTENDS EtcdCombinedLockTypes

(* One goroutine for each lock object.                                      *)
OneCallerPerInstance ==
  \A g, h \in Goroutine : InstanceOf[g] = InstanceOf[h] => g = h

(* The tables then belong to the call: nobody has a lock while Lock or      *)
(* Unlock runs, the value of the call is the one in the table, and who has  *)
(* a lock has a value and, when Lock has returned, its lease in the tables. *)
OwnFits(g) ==
  /\ call[g].op = "unlock" => held[g] = NoHold
  /\ call[g].op = "lock" /\ ~At(g, "set lease") => held[g] = NoHold
  /\ At(g, "set lease") =>
       held[g] = [kind |-> call[g].kind, lease |-> call[g].lease]
  /\ At(g, "store") => lockValues[call[g].kind][InstanceOf[g]] = None
  /\ At(g, "check") \/ At(g, "put") =>
       call[g].value = lockValues[call[g].kind][InstanceOf[g]]
  /\ held[g] # NoHold =>
       /\ lockValues[held[g].kind][InstanceOf[g]] # None
       /\ call[g].op # "lock" => leaseIDs[held[g].kind][InstanceOf[g]] = held[g].lease

OwnInv == \A g \in Goroutine : OwnFits(g)

(* The others, and their entries in the tables, stay as they are.           *)
OthersStay(g) ==
  \A h \in Goroutine \ {g} :
    /\ call'[h] = call[h] /\ held'[h] = held[h]
    /\ \A k \in Kind : /\ lockValues'[k][InstanceOf[h]] = lockValues[k][InstanceOf[h]]
                       /\ leaseIDs'[k][InstanceOf[h]] = leaseIDs[k][InstanceOf[h]]

LEMMA OwnAlone ==
  ASSUME TypeInv, OwnInv, NEW g \in Goroutine, OthersStay(g), OwnFits(g)'
  PROVE  OwnInv'
<1>1. ASSUME NEW h \in Goroutine \ {g}
      PROVE  OwnFits(h)'
  <2>1. call[h].kind \in Kind
    BY DEF TypeInv, CallsOK, Call
  <2>2. held[h].kind \in Kind
    <3>1. held[h] \in Hold \/ held[h] = NoHold
      BY DEF TypeInv, HeldOK
    <3>. QED
      BY <3>1 DEF Hold, NoHold, Kind
  <2>3. call'[h] = call[h] /\ held'[h] = held[h] /\ OwnFits(h)
    BY DEF OthersStay, OwnInv
  <2>4. \A k \in Kind : /\ lockValues'[k][InstanceOf[h]] = lockValues[k][InstanceOf[h]]
                       /\ leaseIDs'[k][InstanceOf[h]] = leaseIDs[k][InstanceOf[h]]
    BY DEF OthersStay
  <2>. QED
    BY <2>1, <2>2, <2>3, <2>4 DEF OwnFits, At
<1>. QED
  BY <1>1 DEF OwnInv

LEMMA OwnOnward ==
  ASSUME TypeInv, OwnInv, NEW g \in Goroutine, NEW c \in Call, Turn(g, c),
         Onward(g, c), UNCHANGED <<tableVars, held>>
  PROVE  OthersStay(g) /\ OwnFits(g)'
<1>1. OthersStay(g)
  BY DEF OthersStay, Turn, TypeInv, CallsOK, tableVars
<1>2. call'[g] = c /\ OwnFits(g) /\ CallFits(g, call[g])
  BY DEF Turn, TypeInv, CallsOK, OwnInv
<1>3. call[g].pc = "ready" => call[g].op = "none"
  BY <1>2 DEF CallFits, Ready
<1>4. c.op = "lock" \/ c.op = "unlock" => held[g] = NoHold
  BY <1>2 DEF Onward, OwnFits
<1>5. c.pc = "put" => /\ At(g, "check") /\ c.value = call[g].value
                      /\ c.kind = call[g].kind
  BY DEF Onward, TypeInv, CallsOK, Call
<1>6. held[g] # NoHold => call[g].op # "lock"
  BY <1>2 DEF Onward, OwnFits
<1>. QED
  BY <1>1, <1>2, <1>4, <1>5, <1>6 DEF OwnFits, At, Onward, tableVars

LEMMA OwnTables ==
  ASSUME TypeInv, OwnInv, OneCallerPerInstance, NEW g \in Goroutine, TablesStep(g)
  PROVE  OthersStay(g) /\ OwnFits(g)'
<1>0. /\ OwnFits(g) /\ CallFits(g, call[g]) /\ call[g] \in Call
      /\ InstanceOf[g] \in Instance
  BY EtcdClientAssumption DEF TypeInv, CallsOK, OwnInv
<1>. USE DEF TablesStep, TypeInv, CallsOK, TablesOK
<1>1. OthersStay(g)
  <2>1. ASSUME NEW h \in Goroutine \ {g}
        PROVE  InstanceOf[h] # InstanceOf[g] /\ InstanceOf[h] \in Instance
    BY EtcdClientAssumption DEF OneCallerPerInstance
  <2>2. call[g].kind \in Kind
    BY <1>0 DEF Call
  <2>3. CASE SetLease(g)
    BY <2>1, <2>2, <2>3 DEF OthersStay, SetLease, Return
  <2>4. CASE DeleteValue(g)
    BY <2>1, <2>2, <2>4 DEF OthersStay, DeleteValue, Goto
  <2>5. CASE DeleteLease(g)
    BY <2>1, <2>2, <2>5 DEF OthersStay, DeleteLease, Return
  <2>. QED
    BY <2>3, <2>4, <2>5
<1>2. CASE SetLease(g)
  <2>1. /\ call'[g] = Ready /\ held'[g] = held[g] /\ lockValues' = lockValues
        /\ held[g] = [kind |-> call[g].kind, lease |-> call[g].lease]
        /\ call[g].kind \in Kind
    BY <1>0, <1>2 DEF SetLease, Return, OwnFits, Call
  <2>2. leaseIDs'[call[g].kind][InstanceOf[g]] = call[g].lease
    BY <1>0, <1>2, <2>1 DEF SetLease
  <2>3. call'[g].pc = "ready" /\ call'[g].op = "none"
    BY <2>1 DEF Ready
  <2>4. held'[g].kind = call[g].kind /\ held'[g].lease = call[g].lease
    BY <2>1
  <2>5. held[g] # NoHold => lockValues[held[g].kind][InstanceOf[g]] # None
    BY <1>0 DEF OwnFits
  <2>6. OwnFits(g)'
    BY <2>1, <2>2, <2>3, <2>4, <2>5 DEF OwnFits, At
  <2>. QED
    BY <1>1, <2>6
<1>3. CASE DeleteValue(g) \/ DeleteLease(g)
  <2>1. call[g].op = "unlock"
    BY <1>0, <1>3 DEF DeleteValue, DeleteLease, CallFits, At
  <2>3. held'[g] = held[g] /\ held[g] = NoHold
    BY <1>0, <1>3, <2>1 DEF DeleteValue, DeleteLease, OwnFits
  <2>2. call'[g].pc \in {"ready", "delete lease"}
    <3>1. CASE DeleteValue(g)
      BY <1>0, <3>1 DEF DeleteValue, Goto, Call
    <3>2. CASE DeleteLease(g)
      BY <1>0, <3>2 DEF DeleteLease, Return, Ready
    <3>. QED
      BY <1>3, <3>1, <3>2
  <2>4. OwnFits(g)'
    BY <2>2, <2>3 DEF OwnFits, At
  <2>. QED
    BY <1>1, <2>4
<1>. QED
  BY <1>2, <1>3

LEMMA OwnStore ==
  ASSUME TypeInv, OwnInv, OneCallerPerInstance, NEW g \in Goroutine,
         NEW values, Store(g, values, LeasesInEtcd)
  PROVE  OthersStay(g) /\ OwnFits(g)'
<1>1. PICK c \in Call, v \in Value :
        /\ Turn(g, c)
        /\ Requested(g, call[g].op, call[g].kind, v, c)
        /\ lockValues' = [lockValues EXCEPT ![call[g].kind][InstanceOf[g]] = v]
        /\ UNCHANGED <<leaseIDs, held>>
  BY StoreTurns
<1>2. /\ OwnFits(g) /\ call[g].kind \in Kind /\ call'[g] = c
      /\ InstanceOf[g] \in Instance /\ At(g, "store")
  BY <1>1, EtcdClientAssumption DEF TypeInv, CallsOK, Call, OwnInv, Turn, Store
<1>3. OthersStay(g)
  <2>1. ASSUME NEW h \in Goroutine \ {g}
        PROVE  InstanceOf[h] # InstanceOf[g] /\ InstanceOf[h] \in Instance
    BY EtcdClientAssumption DEF OneCallerPerInstance
  <2>. QED
    BY <1>1, <1>2, <2>1 DEF OthersStay, Turn, TypeInv, CallsOK, TablesOK
<1>4. /\ lockValues'[call[g].kind][InstanceOf[g]] = v
      /\ \A k \in Kind : k # call[g].kind =>
           lockValues'[k][InstanceOf[g]] = lockValues[k][InstanceOf[g]]
  BY <1>1, <1>2 DEF TypeInv, TablesOK
<1>5. held[g] # NoHold => held[g].kind \in Kind /\ held[g].kind # call[g].kind
  BY <1>2 DEF OwnFits, TypeInv, HeldOK, Hold
<1>6. /\ c.op = call[g].op /\ c.kind = call[g].kind /\ c.value = v
      /\ c.pc \in {"check", "release", "find holder"}
  BY <1>1 DEF Requested
<1>. QED
  BY <1>1, <1>2, <1>3, <1>4, <1>5, <1>6 DEF OwnFits, At

LEMMA OwnBeginUnlock ==
  ASSUME TypeInv, OwnInv, NEW g \in Goroutine, NEW remote, BeginUnlock(g, remote)
  PROVE  OthersStay(g) /\ OwnFits(g)'
<1>1. PICK c \in Call :
        /\ Turn(g, c)
        /\ \/ Requested(g, "unlock", "exclusive", lockValues["exclusive"][InstanceOf[g]], c)
           \/ /\ c = [Ready EXCEPT !.pc = "store", !.op = "unlock", !.kind = "exclusive"]
              /\ lockValues["exclusive"][InstanceOf[g]] = None
  BY LookTurn DEF BeginUnlock, TypeInv, Kind
<1>2. /\ call'[g] = c /\ held'[g] = NoHold /\ UNCHANGED tableVars
      /\ OthersStay(g)
  BY <1>1 DEF BeginUnlock, Turn, TypeInv, CallsOK, HeldOK, OthersStay, tableVars
<1>3. \/ c.pc \in {"release", "find holder"}
      \/ /\ c.pc = "store" /\ c.kind = "exclusive"
         /\ lockValues["exclusive"][InstanceOf[g]] = None
  BY <1>1 DEF Requested, Ready
<1>. QED
  BY <1>2, <1>3 DEF OwnFits, At, tableVars

LEMMA OwnReplyLost ==
  ASSUME TypeInv, OwnInv, NEW g \in Goroutine, ~At(g, "set lease"), ReplyLost(g),
         UNCHANGED tableVars
  PROVE  OthersStay(g) /\ OwnFits(g)'
<1>1. PICK c \in Call : Turn(g, c) /\ Onward(g, c)
  BY FailTurn, OnwardEnds DEF ReplyLost, TypeInv
<1>. QED
  BY <1>1, OwnOnward DEF ReplyLost

LEMMA OwnAcquired ==
  ASSUME TypeInv, OwnInv, NEW g \in Goroutine, At(g, "put"), Acquired(g),
         UNCHANGED tableVars
  PROVE  OthersStay(g) /\ OwnFits(g)'
<1>1. call[g] \in Call /\ CallFits(g, call[g]) /\ OwnFits(g)
  BY DEF TypeInv, CallsOK, OwnInv
<1>2. OthersStay(g)
  BY DEF Acquired, Succeed, OthersStay, TypeInv, CallsOK, HeldOK, tableVars
<1>3. /\ call'[g].pc = "set lease" /\ call'[g].op = call[g].op
      /\ call'[g].kind = call[g].kind /\ call'[g].lease = call[g].lease
      /\ held'[g] = [kind |-> call[g].kind, lease |-> call[g].lease]
  BY <1>1 DEF Acquired, Succeed, TypeInv, CallsOK, HeldOK, Call
<1>4. call[g].op = "lock" /\ call[g].value \in Value
  BY <1>1 DEF CallFits, At
<1>5. lockValues[call[g].kind][InstanceOf[g]] # None
  <2>1. call[g].value = lockValues[call[g].kind][InstanceOf[g]]
    BY <1>1 DEF OwnFits
  <2>2. None \notin Value
    BY EtcdClientAssumption
  <2>. QED
    BY <1>4, <2>1, <2>2
<1>6. /\ held'[g].kind = call[g].kind
      /\ lockValues'[held'[g].kind][InstanceOf[g]] # None
  <2>1. held'[g].kind = call[g].kind
    <3>1. held'[g] = [kind |-> call[g].kind, lease |-> call[g].lease]
      BY <1>3
    <3>. QED
      BY ONLY <3>1
  <2>2. lockValues' = lockValues
    BY DEF tableVars
  <2>. QED
    BY <1>5, <2>1, <2>2
<1>. QED
  BY <1>2, <1>3, <1>4, <1>6 DEF OwnFits, At

LEMMA OwnReleased ==
  ASSUME TypeInv, OwnInv, NEW g \in Goroutine, call[g].op = "unlock", Released(g),
         UNCHANGED tableVars
  PROVE  OthersStay(g) /\ OwnFits(g)'
<1>1. call[g] \in Call /\ held[g] = NoHold
  BY DEF TypeInv, CallsOK, OwnInv, OwnFits
<1>2. OthersStay(g)
  BY DEF Released, Succeed, OthersStay, TypeInv, CallsOK, tableVars
<1>3. call'[g].pc = "delete value" /\ held'[g] = NoHold
  BY <1>1 DEF Released, Succeed, TypeInv, CallsOK, Call
<1>. QED
  BY <1>2, <1>3 DEF OwnFits, At

LEMMA OwnRead ==
  ASSUME TypeInv, OwnInv, NEW g \in Goroutine, At(g, "check"), Read(g, "put"),
         UNCHANGED tableVars
  PROVE  OthersStay(g) /\ OwnFits(g)'
<1>1. call[g] \in Call /\ CallFits(g, call[g]) /\ OwnFits(g)
  BY DEF TypeInv, CallsOK, OwnInv
<1>2. OthersStay(g)
  BY DEF Read, OthersStay, TypeInv, CallsOK, tableVars
<1>3. /\ call'[g].pc = "put" /\ call'[g].op = call[g].op
      /\ call'[g].kind = call[g].kind /\ call'[g].value = call[g].value
      /\ held' = held
  BY <1>1 DEF Read, TypeInv, CallsOK, Call
<1>. QED
  BY <1>1, <1>2, <1>3 DEF OwnFits, At, tableVars

LEMMA OwnCaller ==
  ASSUME TypeInv, OwnInv, OneCallerPerInstance, NEW g \in Goroutine, CallerStep(g)
  PROVE  OthersStay(g) /\ OwnFits(g)'
<1>1. CASE CallOnly(g)
  BY <1>1, CallOnlyTurns, OwnOnward
<1>2. CASE PutKey(g) \/ PutCount(g)
  <2>1. At(g, "put") /\ ~At(g, "set lease") /\ UNCHANGED tableVars
    BY <1>2 DEF PutKey, PutCount, At
  <2>. QED
    BY <1>2, <2>1, OwnAcquired, OwnReplyLost DEF PutKey, PutCount
<1>3. CASE DeleteKey(g) \/ Leave(g)
  <2>1. call[g].op = "unlock" /\ ~At(g, "set lease") /\ UNCHANGED tableVars
    BY <1>3 DEF DeleteKey, Leave, At, In
  <2>. QED
    BY <1>3, <2>1, OwnReleased, OwnReplyLost DEF DeleteKey, Leave
<1>4. CASE Enter(g, Locked)
  <2>1. At(g, "check") /\ ~At(g, "set lease") /\ UNCHANGED tableVars
    BY <1>4 DEF Enter, At
  <2>. QED
    BY <1>4, <2>1, OwnRead, OwnReplyLost DEF Enter
<1>. QED
  BY <1>1, <1>2, <1>3, <1>4, OwnTables, OwnStore, OwnBeginUnlock DEF CallerStep

LEMMA OwnCrash ==
  ASSUME TypeInv, OwnInv, NEW i \in Instance, ClientCrash(i)
  PROVE  OwnInv'
<1>1. ASSUME NEW g \in Goroutine PROVE OwnFits(g)'
  <2>1. CASE InstanceOf[g] = i
    <3>1. call'[g] = Ready /\ held'[g] = NoHold
      BY <2>1 DEF ClientCrash
    <3>. QED
      BY <3>1 DEF OwnFits, At, Ready
  <2>2. CASE InstanceOf[g] # i
    <3>1. OwnFits(g) /\ call[g].kind \in Kind
      BY DEF OwnInv, TypeInv, CallsOK, Call
    <3>2. held[g] # NoHold => held[g].kind \in Kind
      BY DEF TypeInv, HeldOK, Hold
    <3>3. call'[g] = call[g] /\ held'[g] = held[g]
      BY <2>2 DEF ClientCrash
    <3>4. \A k \in Kind : /\ lockValues'[k][InstanceOf[g]] = lockValues[k][InstanceOf[g]]
                         /\ leaseIDs'[k][InstanceOf[g]] = leaseIDs[k][InstanceOf[g]]
      BY <2>2, EtcdClientAssumption DEF ClientCrash, TypeInv, TablesOK
    <3>. QED
      BY <3>1, <3>2, <3>3, <3>4 DEF OwnFits, At
  <2>. QED
    BY <2>1, <2>2
<1>. QED
  BY <1>1 DEF OwnInv

LEMMA OwnEndLease ==
  ASSUME TypeInv, OwnInv, NEW l \in Lease, EndLease(l)
  PROVE  OwnInv'
<1>. DEFINE End(m) == IF m = l THEN Ended ELSE m
<1>1. ASSUME NEW g \in Goroutine PROVE OwnFits(g)'
  <2>1. OwnFits(g) /\ call[g] \in Call /\ InstanceOf[g] \in Instance
    BY EtcdClientAssumption DEF OwnInv, TypeInv, CallsOK
  <2>2. /\ call'[g].pc = call[g].pc /\ call'[g].op = call[g].op
        /\ call'[g].kind = call[g].kind /\ call'[g].value = call[g].value
        /\ call'[g].lease = End(call[g].lease)
    BY <2>1 DEF EndLease, Call
  <2>3. held[g] \in Hold \/ held[g] = NoHold
    BY DEF TypeInv, HeldOK
  <2>4. held[g] = NoHold => held'[g] = NoHold
    BY EtcdClientAssumption DEF EndLease, NoHold
  <2>5. /\ held[g] # NoHold => held'[g].kind = held[g].kind /\ held[g].kind \in Kind
        /\ held[g] # NoHold => held'[g] = [kind |-> held[g].kind, lease |-> End(held[g].lease)]
    BY <2>3 DEF EndLease, Hold
  <2>6. \A k \in Kind : /\ lockValues'[k][InstanceOf[g]] = lockValues[k][InstanceOf[g]]
                       /\ leaseIDs'[k][InstanceOf[g]] = End(leaseIDs[k][InstanceOf[g]])
    BY <2>1 DEF EndLease
  <2>7. At(g, "set lease") => held[g] # NoHold
    <3>1. At(g, "set lease") => call[g].lease \in Lease \cup {Ended}
      BY DEF TypeInv, CallsOK, CallFits, At
    <3>2. None \notin Lease /\ None # Ended
      BY EtcdClientAssumption
    <3>3. CASE At(g, "set lease")
      <4>1. held[g] = [kind |-> call[g].kind, lease |-> call[g].lease]
        BY <2>1, <3>3 DEF OwnFits
      <4>2. held[g].lease = call[g].lease /\ NoHold.lease = None
        BY <4>1 DEF NoHold
      <4>. QED
        BY <3>1, <3>2, <3>3, <4>2
    <3>. QED
      BY <3>3
  <2>8. call[g].kind \in Kind
    BY <2>1 DEF Call
  <2>. HIDE DEF End
  <2>9. held[g] = NoHold => OwnFits(g)'
    BY <2>1, <2>2, <2>4, <2>6, <2>7, <2>8 DEF OwnFits, At
  <2>10. CASE held[g] # NoHold
    <3>1. /\ call'[g].op \in {"none", "lock", "renew"}
          /\ call'[g].op = "lock" => call'[g].pc = "set lease"
      BY <2>1, <2>2, <2>10 DEF OwnFits, Call, At
    <3>2. call'[g].pc = "set lease" =>
            held'[g] = [kind |-> call'[g].kind, lease |-> call'[g].lease]
      <4>1. CASE At(g, "set lease")
        <5>1. held[g] = [kind |-> call[g].kind, lease |-> call[g].lease]
          BY <2>1, <4>1 DEF OwnFits
        <5>2. held[g].kind = call[g].kind /\ held[g].lease = call[g].lease
          BY <5>1
        <5>. QED
          BY <2>2, <2>5, <2>10, <5>2
      <4>. QED
        BY <2>2, <4>1 DEF At
    <3>3. /\ lockValues'[held'[g].kind][InstanceOf[g]] # None
          /\ call'[g].op # "lock" =>
               leaseIDs'[held'[g].kind][InstanceOf[g]] = held'[g].lease
      <4>1. /\ lockValues[held[g].kind][InstanceOf[g]] # None
            /\ call[g].op # "lock" =>
                 leaseIDs[held[g].kind][InstanceOf[g]] = held[g].lease
        BY <2>1, <2>10 DEF OwnFits
      <4>2. held'[g].kind = held[g].kind /\ held'[g].lease = End(held[g].lease)
        BY <2>5, <2>10
      <4>. QED
        BY <2>2, <2>5, <2>6, <2>10, <4>1, <4>2
    <3>4. /\ call'[g].pc = "store" =>
               lockValues'[call'[g].kind][InstanceOf[g]] = None
          /\ call'[g].pc \in {"check", "put"} =>
               call'[g].value = lockValues'[call'[g].kind][InstanceOf[g]]
      BY <2>1, <2>2, <2>6, <2>8 DEF OwnFits, At
    <3>. QED
      BY <3>1, <3>2, <3>3, <3>4 DEF OwnFits, At
  <2>. QED
    BY <2>9, <2>10
<1>. QED
  BY <1>1 DEF OwnInv

LEMMA OwnNext ==
  ASSUME OneCallerPerInstance, TypeInv, OwnInv, [Next]_vars
  PROVE  OwnInv'
<1>1. CASE \E g \in Goroutine : CallerStep(g)
  BY <1>1, OwnCaller, OwnAlone
<1>2. CASE UNCHANGED vars
  BY <1>2 DEF vars, clientVars, tableVars, OwnInv, OwnFits, At
<1>. QED
  BY <1>1, <1>2, OwnCrash, OwnEndLease, NextCases DEF Expire

LEMMA OwnInvariant ==
  ASSUME OneCallerPerInstance
  PROVE  Spec => [](TypeInv /\ OwnInv)
<1>1. Init => OwnInv
  <2>. SUFFICES ASSUME Init, NEW g \in Goroutine PROVE OwnFits(g)
    BY DEF OwnInv
  <2>1. call[g].pc = "ready" /\ call[g].op = "none" /\ held[g] = NoHold
    BY DEF Init, ClientInit, Ready
  <2>. QED
    BY <2>1 DEF OwnFits, At
<1>2. TypeInv /\ OwnInv /\ [Next]_vars => OwnInv'
  BY OwnNext
<1>. QED
  BY <1>1, <1>2, TypeInvariant, PTL DEF Spec

-----------------------------------------------------------------------------
(* What the steps of a caller have in common.  A call comes to its Put      *)
(* from the check that the lock is free, and from nowhere else.             *)
Unlocks(g) == BeginUnlock(g, LeasesInEtcd)
Stores(g) == Store(g, ValuesInEtcd(call[g].kind), LeasesInEtcd)

LEMMA LostElsewhere ==
  ASSUME CallsOK, NEW g \in Goroutine, ReplyLost(g)
  PROVE  call'[g].pc \in {"ready", "load"} /\ held' = held
<1>1. PICK c \in Call :
        /\ Turn(g, c)
        /\ \/ c = Ready
           \/ c = [Ready EXCEPT !.pc = "load", !.op = call[g].op, !.kind = "shared"]
  BY FailTurn DEF ReplyLost
<1>2. call'[g] = c
  BY <1>1 DEF Turn, CallsOK
<1>3. CASE c = Ready
  BY <1>2, <1>3 DEF Ready, ReplyLost
<1>4. CASE c = [Ready EXCEPT !.pc = "load", !.op = call[g].op, !.kind = "shared"]
  <2>1. c.pc = "load"
    BY <1>4 DEF Ready
  <2>. QED
    BY <1>2, <2>1 DEF ReplyLost
<1>. QED
  BY <1>1, <1>3, <1>4

LEMMA SucceedElsewhere ==
  ASSUME CallsOK, NEW g \in Goroutine, NEW pc, Succeed(g, pc)
  PROVE  call'[g].pc = pc
BY DEF Succeed, CallsOK, Call

LEMMA PutComes ==
  ASSUME TypeInv, NEW g \in Goroutine, CallerStep(g), At(g, "put")'
  PROVE  \/ /\ CallOnly(g) /\ UNCHANGED EtcdVars
            /\ At(g, "check") /\ lockKey = NoKey /\ Readers = 0
            /\ call'[g] = [call[g] EXCEPT !.pc = "put"]
            /\ call'[g].kind = "exclusive"
         \/ /\ Enter(g, Locked) /\ Read(g, "put") /\ UNCHANGED lockKey
            /\ call'[g].kind = "shared"
<1>. USE DEF TypeInv
<1>1. CASE CallOnly(g) /\ UNCHANGED EtcdVars
  <2>1. PICK c \in Call : Turn(g, c) /\ Onward(g, c)
    BY <1>1, CallOnlyTurns
  <2>2. call'[g] = c /\ c.pc = "put"
    BY <2>1 DEF Turn, CallsOK, At
  <2>3. call'[g].kind = "exclusive"
    BY <2>1, <2>2 DEF Onward, CallsOK, Call
  <2>. QED
    BY <1>1, <2>1, <2>2, <2>3 DEF Onward
<1>2. CASE Unlocks(g)
  <2>1. PICK c \in Call :
          /\ Turn(g, c)
          /\ \/ Requested(g, "unlock", "exclusive", lockValues["exclusive"][InstanceOf[g]], c)
             \/ c = [Ready EXCEPT !.pc = "store", !.op = "unlock", !.kind = "exclusive"]
    BY <1>2, LookTurn DEF Unlocks, BeginUnlock, Kind
  <2>2. call'[g] = c /\ c.pc # "put"
    BY <2>1 DEF Turn, CallsOK, Requested, Ready
  <2>. QED
    BY <2>2 DEF At
<1>3. CASE Stores(g)
  <2>1. PICK c \in Call, v \in Value :
          Turn(g, c) /\ Requested(g, call[g].op, call[g].kind, v, c)
    BY <1>3, StoreTurns DEF Stores
  <2>2. call'[g] = c /\ c.pc # "put"
    BY <2>1 DEF Turn, CallsOK, Requested
  <2>. QED
    BY <2>2 DEF At
<1>4. CASE TablesStep(g)
  <2>1. CASE SetLease(g) \/ DeleteLease(g)
    <3>1. call'[g] = Ready
      BY <2>1 DEF SetLease, DeleteLease, Return, CallsOK
    <3>. QED
      BY <3>1 DEF Ready, At
  <2>2. CASE DeleteValue(g)
    BY <2>2 DEF DeleteValue, Goto, CallsOK, Call, At
  <2>. QED
    BY <1>4, <2>1, <2>2 DEF TablesStep
<1>5. CASE PutKey(g) \/ PutCount(g)
  BY <1>5, LostElsewhere, SucceedElsewhere DEF PutKey, PutCount, Acquired, At
<1>6. CASE DeleteKey(g) \/ Leave(g)
  BY <1>6, LostElsewhere, SucceedElsewhere DEF DeleteKey, Leave, Released, At
<1>7. CASE Enter(g, Locked) /\ UNCHANGED lockKey
  <2>1. ~ReplyLost(g)
    BY LostElsewhere DEF At
  <2>2. Read(g, "put") /\ call[g].kind = "shared"
    BY <1>7, <2>1 DEF Enter, In
  <2>3. call'[g].kind = "shared"
    BY <2>2 DEF Read, CallsOK, Call
  <2>. QED
    BY <1>7, <2>2, <2>3
<1>. QED
  BY <1>1, <1>2, <1>3, <1>4, <1>5, <1>6, <1>7 DEF CallerStep, Unlocks, Stores

(* Who has a lock got it from a Put and gave it back with Unlock.           *)
LEMMA HeldComes ==
  ASSUME TypeInv, NEW g \in Goroutine, CallerStep(g)
  PROVE  \/ held' = held
         \/ held'[g] = NoHold
         \/ Acquired(g) /\ PutKey(g) /\ UNCHANGED sharedVars
         \/ Acquired(g) /\ PutCount(g) /\ UNCHANGED lockKey
<1>1. CASE CallOnly(g)
  BY <1>1, CallOnlyTurns
<1>2. CASE Unlocks(g)
  BY <1>2 DEF Unlocks, BeginUnlock, TypeInv, HeldOK
<1>3. CASE Stores(g) \/ TablesStep(g)
  BY <1>3 DEF Stores, Store, TablesStep, SetLease, DeleteValue, DeleteLease
<1>4. CASE (PutKey(g) /\ UNCHANGED sharedVars) \/ (PutCount(g) /\ UNCHANGED lockKey)
  BY <1>4 DEF PutKey, PutCount, ReplyLost
<1>5. CASE DeleteKey(g) \/ Leave(g) \/ Enter(g, Locked)
  BY <1>5 DEF DeleteKey, Leave, Enter, Released, Read, ReplyLost
<1>. QED
  BY <1>1, <1>2, <1>3, <1>4, <1>5 DEF CallerStep, Unlocks, Stores

(* As long as somebody has a lock, its value stays in the table.            *)
LEMMA ValueStays ==
  ASSUME TypeInv, OwnInv, OneCallerPerInstance, NEW a \in Goroutine, CallerStep(a),
         NEW g \in Goroutine, held[g] # NoHold
  PROVE  lockValues'[held[g].kind][InstanceOf[g]] = lockValues[held[g].kind][InstanceOf[g]]
<1>0. held[g].kind \in Kind
  BY DEF TypeInv, HeldOK, Hold
<1>1. CASE g # a
  BY <1>0, <1>1, OwnCaller DEF OthersStay
<1>2. CASE g = a
  <2>1. CASE lockValues' = lockValues
    BY <2>1
  <2>2. CASE Stores(a)
    <3>1. PICK v \in Value :
            lockValues' = [lockValues EXCEPT ![call[a].kind][InstanceOf[a]] = v]
      BY <2>2, StoreTurns DEF Stores
    <3>2. held[g].kind # call[g].kind
      BY <1>2, <2>2 DEF Stores, Store, OwnInv, OwnFits
    <3>. QED
      BY <1>0, <1>2, <3>1, <3>2 DEF TypeInv, TablesOK
  <2>3. CASE DeleteValue(a)
    BY <1>2, <2>3 DEF DeleteValue, TypeInv, CallsOK, CallFits, OwnInv, OwnFits, At
  <2>4. CASE SetLease(a) \/ DeleteLease(a)
    BY <2>1, <2>4 DEF SetLease, DeleteLease
  <2>5. CASE CallOnly(a) \/ Unlocks(a)
    BY <2>1, <2>5, CallOnlyTurns DEF Unlocks, BeginUnlock, tableVars
  <2>6. CASE PutKey(a) \/ DeleteKey(a) \/ Enter(a, Locked) \/ PutCount(a) \/ Leave(a)
    BY <2>1, <2>6 DEF PutKey, DeleteKey, Enter, PutCount, Leave, tableVars
  <2>. QED
    BY <2>2, <2>3, <2>4, <2>5, <2>6 DEF CallerStep, Unlocks, Stores, TablesStep
<1>. QED
  BY <1>1, <1>2

-----------------------------------------------------------------------------
(* Writers.  Who is between check and Put together with somebody else is    *)
(* contested; the lock's key is that of every other writer, and as long as  *)
(* it is there nobody comes to the Put of the exclusive lock.               *)
Putting(g) == At(g, "put") /\ call[g].kind = "exclusive"

HasKey(g) ==
  /\ lockKey = [value |-> lockValues["exclusive"][InstanceOf[g]], lease |-> held[g].lease]
  /\ \A h \in Goroutine : ~Putting(h)

ContestInv ==
  \A g, h \in Goroutine : Between(g) /\ Between(h) /\ g # h => g \in contested

WriterInv == \A g \in Goroutine \ contested : Writer(g) => HasKey(g)

LEMMA ContestNext ==
  ASSUME ContestInv, [Next]_vars
  PROVE  ContestInv'
<1>1. CASE Observe
  BY <1>1 DEF Observe, ObserveContest, ContestInv
<1>2. CASE UNCHANGED vars
  BY <1>2 DEF vars, clientVars, ContestInv, Between, At
<1>. QED
  BY <1>1, <1>2, NextCases DEF Expire

(* Nobody stops being contested with a lock or on the way to it.            *)
LEMMA ContestLasts ==
  ASSUME Observe, NEW g \in contested, g \in Goroutine,
         held'[g] # NoHold \/ Between(g)'
  PROVE  g \in contested'
BY DEF Observe, ObserveContest

LEMMA OwnsIsHold ==
  ASSUME NEW g \in Goroutine, NEW kind, Owns(g, kind)
  PROVE  held[g] # NoHold /\ held[g].kind = kind /\ held[g].lease \in Lease
BY EtcdClientAssumption DEF Owns, NoHold

(* A writer's value is one, and tells the lock object.                      *)
LEMMA WriterValue ==
  ASSUME TypeInv, OwnInv, NEW g \in Goroutine, Writer(g)
  PROVE  /\ held[g] # NoHold
         /\ lockValues["exclusive"][InstanceOf[g]] \in Value
         /\ lockValues["exclusive"][InstanceOf[g]][1] = InstanceOf[g]
         /\ HasKey(g) => lockKey # NoKey
<1>1. held[g] # NoHold /\ held[g].kind = "exclusive"
  BY OwnsIsHold DEF Writer
<1>2. lockValues["exclusive"][InstanceOf[g]] # None
  BY <1>1 DEF OwnInv, OwnFits
<1>3. /\ lockValues["exclusive"][InstanceOf[g]] \in Value
      /\ lockValues["exclusive"][InstanceOf[g]][1] = InstanceOf[g]
  BY <1>2, EtcdClientAssumption DEF TypeInv, TablesOK, MaybeValue, Kind
<1>4. HasKey(g) => lockKey # NoKey
  BY <1>2 DEF HasKey, NoKey
<1>. QED
  BY <1>1, <1>3, <1>4

(* With the key in etcd nobody comes to the Put of the exclusive lock.      *)
LEMMA NobodyPuts ==
  ASSUME TypeInv, OwnInv, OneCallerPerInstance, NEW a \in Goroutine, CallerStep(a),
         lockKey # NoKey, NEW h \in Goroutine, ~Putting(h)
  PROVE  ~Putting(h)'
<1>1. CASE h = a
  BY <1>1, PutComes DEF Putting
<1>2. CASE h # a
  BY <1>2, OwnCaller DEF OthersStay, Putting, At
<1>. QED
  BY <1>1, <1>2

(* The key of a writer stays, until its lease ends.                         *)
LEMMA KeyStays ==
  ASSUME TypeInv, OwnInv, OneCallerPerInstance, NEW a \in Goroutine, CallerStep(a),
         NEW g \in Goroutine, Writer(g), HasKey(g)
  PROVE  lockKey' = lockKey
<1>1. /\ lockKey.value = lockValues["exclusive"][InstanceOf[g]]
      /\ lockKey.value[1] = InstanceOf[g] /\ held[g] # NoHold
  BY WriterValue DEF HasKey
<1>2. ~PutKey(a)
  BY DEF HasKey, PutKey, Putting, In
<1>3. ASSUME DeleteKey(a) PROVE FALSE
  <2>1. call[a].value[1] = InstanceOf[a]
    BY <1>3 DEF DeleteKey, TypeInv, CallsOK, CallFits, At
  <2>2. a = g
    BY <1>1, <1>3, <2>1 DEF DeleteKey, OneCallerPerInstance
  <2>. QED
    BY <1>1, <1>3, <2>2 DEF DeleteKey, In, OwnInv, OwnFits
<1>. QED
  BY <1>2, <1>3 DEF CallerStep, EtcdVars

LEMMA WriterStays ==
  ASSUME TypeInv, OwnInv, OneCallerPerInstance, WriterInv, Observe,
         NEW a \in Goroutine, CallerStep(a),
         NEW g \in Goroutine \ contested', Writer(g)', held'[g] = held[g]
  PROVE  HasKey(g)'
<1>1. held'[g] # NoHold /\ Writer(g)
  BY EtcdClientAssumption DEF Writer, Owns, NoHold
<1>2. HasKey(g)
  BY <1>1, ContestLasts DEF WriterInv
<1>3. held[g] # NoHold /\ held[g].kind = "exclusive" /\ lockKey # NoKey
  BY <1>1, <1>2, WriterValue DEF Writer, Owns
<1>4. lockKey' = lockKey
  BY <1>1, <1>2, KeyStays
<1>5. lockValues'["exclusive"][InstanceOf[g]] = lockValues["exclusive"][InstanceOf[g]]
  BY <1>3, ValueStays
<1>6. \A h \in Goroutine : ~Putting(h)'
  BY <1>2, <1>3, NobodyPuts DEF HasKey
<1>. QED
  BY <1>2, <1>4, <1>5, <1>6 DEF HasKey

(* A Put writes the key of a new writer; nobody else is about to put one.   *)
LEMMA WriterComes ==
  ASSUME TypeInv, OwnInv, OneCallerPerInstance, ContestInv, Observe,
         NEW g \in Goroutine \ contested', CallerStep(g), PutKey(g), Acquired(g)
  PROVE  HasKey(g)' /\ \A h \in Goroutine : ~Between(h)'
<1>1. call'[g].pc = "set lease" /\ At(g, "put") /\ call[g].kind = "exclusive"
  BY SucceedElsewhere DEF Acquired, PutKey, In, TypeInv
<1>2. held'[g] = [kind |-> call[g].kind, lease |-> call[g].lease]
  BY DEF Acquired, TypeInv, HeldOK
<1>3. call[g].lease \in Lease \cup {Ended} /\ None \notin Lease /\ None # Ended
  BY <1>1, EtcdClientAssumption DEF TypeInv, CallsOK, CallFits, At
<1>4. held'[g].lease = call[g].lease /\ held'[g] # NoHold
  BY <1>2, <1>3 DEF NoHold
<1>5. g \notin contested
  BY <1>4, ContestLasts
<1>6. ASSUME NEW h \in Goroutine PROVE ~Between(h)'
  <2>1. CASE h = g
    BY <1>1, <2>1 DEF Between, At
  <2>2. CASE h # g
    BY <1>1, <1>5, <2>2, OwnCaller DEF ContestInv, Between, OthersStay, At
  <2>. QED
    BY <2>1, <2>2
<1>7. lockKey' = [value |-> lockValues["exclusive"][InstanceOf[g]], lease |-> call[g].lease]
  BY <1>1 DEF PutKey, OwnInv, OwnFits
<1>8. lockValues' = lockValues
  BY DEF PutKey, tableVars
<1>. QED
  BY <1>4, <1>6, <1>7, <1>8 DEF HasKey, Putting, Between

LEMMA WriterCaller ==
  ASSUME TypeInv, OwnInv, OneCallerPerInstance, ContestInv, WriterInv, Observe,
         NEW a \in Goroutine, CallerStep(a)
  PROVE  WriterInv'
<1>. SUFFICES ASSUME NEW g \in Goroutine \ contested', Writer(g)' PROVE HasKey(g)'
  BY DEF WriterInv
<1>1. CASE held'[g] = held[g]
  BY <1>1, WriterStays
<1>2. CASE held'[g] # held[g]
  <2>1. g = a
    BY <1>2, OwnCaller DEF OthersStay
  <2>2. held'[g] # NoHold
    BY EtcdClientAssumption DEF Writer, Owns, NoHold
  <2>3. Acquired(g) /\ (PutKey(g) \/ PutCount(g))
    BY <1>2, <2>1, <2>2, HeldComes
  <2>4. held'[g].kind = call[g].kind
    BY <2>3 DEF Acquired, TypeInv, HeldOK
  <2>5. PutKey(g)
    BY <2>3, <2>4 DEF PutCount, In, Writer, Owns
  <2>. QED
    BY <2>1, <2>3, <2>5, WriterComes
<1>. QED
  BY <1>1, <1>2

LEMMA WriterCrash ==
  ASSUME TypeInv, WriterInv, Observe, NEW i \in Instance, ClientCrash(i), UNCHANGED EtcdVars
  PROVE  WriterInv'
<1>. SUFFICES ASSUME NEW g \in Goroutine \ contested', Writer(g)' PROVE HasKey(g)'
  BY DEF WriterInv
<1>1. held'[g] # NoHold
  BY EtcdClientAssumption DEF Writer, Owns, NoHold
<1>2. InstanceOf[g] # i /\ held'[g] = held[g]
  BY <1>1 DEF ClientCrash
<1>3. HasKey(g)
  BY <1>1, <1>2, ContestLasts DEF WriterInv, Writer, Owns
<1>4. lockValues'["exclusive"][InstanceOf[g]] = lockValues["exclusive"][InstanceOf[g]]
  BY <1>2, EtcdClientAssumption DEF ClientCrash, TypeInv, TablesOK, Kind
<1>5. \A h \in Goroutine : call'[h] = call[h] \/ call'[h].pc = "ready"
  BY DEF ClientCrash, Ready
<1>. QED
  BY <1>2, <1>3, <1>4, <1>5 DEF HasKey, Putting, At, EtcdVars

(* At the end of a lease a call or a holder has another lease, or it ends.  *)
LEMMA EndedElsewhere ==
  ASSUME TypeInv, NEW l \in Lease, EndLease(l), NEW g \in Goroutine
  PROVE  /\ call'[g].pc = call[g].pc /\ call'[g].op = call[g].op
         /\ call'[g].kind = call[g].kind /\ call'[g].value = call[g].value
         /\ call'[g].count = call[g].count
         /\ call'[g].lease = IF call[g].lease = l THEN Ended ELSE call[g].lease
         /\ \A k : Owns(g, k)' => Owns(g, k) /\ held'[g] = held[g] /\ held[g].lease # l
<1>1. call[g] \in Call /\ (held[g] \in Hold \/ held[g] = NoHold)
  BY DEF TypeInv, CallsOK, HeldOK
<1>2. /\ held'[g].kind = held[g].kind
      /\ held'[g].lease = IF held[g].lease = l THEN Ended ELSE held[g].lease
      /\ held[g].lease # l => held'[g] = held[g]
  BY <1>1 DEF EndLease, Hold, NoHold
<1>3. ASSUME NEW k, Owns(g, k)'
      PROVE  Owns(g, k) /\ held'[g] = held[g] /\ held[g].lease # l
  BY <1>2, <1>3, EtcdClientAssumption DEF Owns
<1>4. /\ call'[g].pc = call[g].pc /\ call'[g].op = call[g].op
      /\ call'[g].kind = call[g].kind /\ call'[g].value = call[g].value
      /\ call'[g].count = call[g].count
      /\ call'[g].lease = IF call[g].lease = l THEN Ended ELSE call[g].lease
  BY <1>1 DEF EndLease, Call
<1>. QED
  BY <1>3, <1>4

LEMMA WriterExpire ==
  ASSUME TypeInv, WriterInv, NEW l \in Lease, Expire(l)
  PROVE  WriterInv'
<1>. SUFFICES ASSUME NEW g \in Goroutine \ contested', Writer(g)' PROVE HasKey(g)'
  BY DEF WriterInv
<1>1. held'[g] # NoHold
  BY EtcdClientAssumption DEF Writer, Owns, NoHold
<1>2. Writer(g) /\ held'[g] = held[g] /\ held[g].lease # l
  BY EndedElsewhere DEF Writer, Expire
<1>3. HasKey(g)
  BY <1>1, <1>2, ContestLasts DEF WriterInv, Expire
<1>4. lockKey' = lockKey /\ lockValues' = lockValues
  BY <1>2, <1>3 DEF HasKey, Expire, ExpireKey, EndLease
<1>5. \A h \in Goroutine : Putting(h)' => Putting(h)
  BY EndedElsewhere DEF Expire, Putting, At
<1>. QED
  BY <1>2, <1>3, <1>4, <1>5 DEF HasKey

LEMMA WriterInvariant ==
  ASSUME OneCallerPerInstance
  PROVE  Spec => [](TypeInv /\ OwnInv /\ ContestInv /\ WriterInv)
<1>1. Init => ContestInv /\ WriterInv
  <2>. SUFFICES ASSUME Init, NEW g \in Goroutine PROVE ~Between(g) /\ ~Writer(g)
    BY DEF ContestInv, WriterInv
  <2>1. call[g].pc = "ready" /\ held[g].lease = None
    BY DEF Init, ClientInit, Ready, NoHold
  <2>. QED
    BY <2>1, EtcdClientAssumption DEF Between, At, Writer, Owns
<1>2. TypeInv /\ OwnInv /\ ContestInv /\ WriterInv /\ [Next]_vars
        => ContestInv' /\ WriterInv'
  <2>. SUFFICES ASSUME TypeInv, OwnInv, ContestInv, WriterInv, [Next]_vars
                PROVE  WriterInv'
    BY ContestNext
  <2>1. CASE UNCHANGED vars
    BY <2>1 DEF vars, clientVars, tableVars, WriterInv, Writer, Owns, HasKey, Putting, At
  <2>. QED
    BY <2>1, NextCases, WriterCaller, WriterCrash, WriterExpire
<1>. QED
  BY <1>1, <1>2, OwnInvariant, PTL DEF Spec

(* Two goroutines that did not meet between check and Put never have the    *)
(* exclusive lock at the same time, whatever faults there are and whatever  *)
(* the readers do, if a lock object has one caller.                         *)
THEOREM WritersAlone ==
  ASSUME OneCallerPerInstance
  PROVE  Spec => []WritersExclude
<1>1. TypeInv /\ OwnInv /\ WriterInv => WritersExclude
  <2>. SUFFICES ASSUME TypeInv, OwnInv, WriterInv,
                       NEW g \in Goroutine \ contested, NEW h \in Goroutine \ contested,
                       Writer(g), Writer(h)
                PROVE  g = h
    BY DEF WritersExclude
  <2>1. lockKey.value[1] = InstanceOf[g] /\ lockKey.value[1] = InstanceOf[h]
    BY WriterValue DEF WriterInv, HasKey
  <2>. QED
    BY <2>1 DEF OneCallerPerInstance
<1>. QED
  BY <1>1, WriterInvariant, PTL

-----------------------------------------------------------------------------
(* Readers.  As long as the counter is sound, at most one goroutine is      *)
(* about to write it and knows what it is, it covers the keys but that of   *)
(* a reader who has not counted itself yet, and every reader has its key.   *)
Entering(g) == At(g, "put") /\ call[g].kind = "shared"
Leaving(g) == At(g, "release") /\ call[g].kind = "shared"
ReaderValue(g) == lockValues["shared"][InstanceOf[g]]

OneCounts == \A g, h \in Goroutine : Counting(g) /\ Counting(h) => g = h

Covered ==
  /\ \A g \in Goroutine :
       Entering(g) => Cardinality(HolderKeys \ {call[g].value}) <= count
  /\ (\A g \in Goroutine : ~Entering(g)) => Cardinality(HolderKeys) <= count

Known ==
  \A g \in Goroutine :
    /\ Entering(g) /\ HasLease(g) =>
         call[g].count = count /\ holders[call[g].value] = call[g].lease
    /\ Leaving(g) /\ holders[call[g].value] # None => call[g].count = count

Keyed == \A g \in Goroutine : Reader(g) => holders[ReaderValue(g)] = held[g].lease

CountInv == sound => OneCounts /\ Covered /\ Known /\ Keyed

FiniteInv == IsFiniteSet(HolderKeys)

LEMMA CountingIs ==
  ASSUME NEW g \in Goroutine
  PROVE  Counting(g) <=> Entering(g) \/ Leaving(g)
BY DEF Counting, Entering, Leaving, At

(* The keys of readers come one by one.                                     *)
LEMMA KeysGrow ==
  ASSUME TypeInv, NEW a \in Goroutine, CallerStep(a)
  PROVE  HolderKeys' \subseteq HolderKeys \cup {call[a].value}
<1>1. CASE UNCHANGED sharedVars
  BY <1>1 DEF sharedVars, HolderKeys
<1>2. CASE Enter(a, Locked) \/ PutCount(a) \/ Leave(a)
  BY <1>2 DEF Enter, PutCount, Leave, HolderKeys, TypeInv, CountOK
<1>. QED
  BY <1>1, <1>2 DEF CallerStep, EtcdVars, sharedVars

LEMMA FiniteNext ==
  ASSUME TypeInv, FiniteInv, [Next]_vars
  PROVE  FiniteInv'
<1>1. ASSUME NEW a \in Goroutine, CallerStep(a)
      PROVE  FiniteInv'
  BY <1>1, KeysGrow, FS_AddElement, FS_Subset DEF FiniteInv
<1>2. ASSUME NEW l \in Lease, Expire(l)
      PROVE  FiniteInv'
  <2>1. HolderKeys' \subseteq HolderKeys
    BY <1>2 DEF Expire, ExpireShared, HolderKeys
  <2>. QED
    BY <2>1, FS_Subset DEF FiniteInv
<1>3. CASE UNCHANGED EtcdVars \/ UNCHANGED vars
  <2>1. HolderKeys' = HolderKeys
    BY <1>3 DEF EtcdVars, vars, sharedVars, HolderKeys
  <2>. QED
    BY <2>1 DEF FiniteInv
<1>. QED
  BY <1>1, <1>2, <1>3, NextCases

LEMMA ReaderHasValue ==
  ASSUME TypeInv, OwnInv, NEW g \in Goroutine, Reader(g)
  PROVE  /\ held[g] # NoHold /\ held[g].kind = "shared" /\ held[g].lease # None
         /\ ReaderValue(g) \in Value /\ ReaderValue(g)[1] = InstanceOf[g]
<1>1. held[g] # NoHold /\ held[g].kind = "shared" /\ held[g].lease # None
  BY OwnsIsHold, EtcdClientAssumption DEF Reader
<1>2. ReaderValue(g) # None
  BY <1>1 DEF OwnInv, OwnFits, ReaderValue
<1>3. ReaderValue(g) \in Value /\ ReaderValue(g)[1] = InstanceOf[g]
  BY <1>2, EtcdClientAssumption DEF TypeInv, TablesOK, MaybeValue, Kind, ReaderValue
<1>. QED
  BY <1>1, <1>3

(* A call that is about to count itself and does not is over.               *)
LEMMA PutEnds ==
  ASSUME TypeInv, NEW g \in Goroutine, CallerStep(g), At(g, "put")
  PROVE  PutKey(g) \/ PutCount(g) \/ call'[g].pc = "ready"
<1>1. CASE CallOnly(g)
  <2>1. PutFails(g) \/ RequestLost(g)
    BY <1>1 DEF CallOnly, BeginLock, BeginRenew, Load, Wake, LoadLease, KeepAlive,
                Cancel, Check, NotHeld, EnterFails, FindHolder, ReadCount, LeaveFails, At
  <2>2. call[g].op = "lock"
    BY DEF TypeInv, CallsOK, CallFits, At
  <2>3. call'[g] = Ready
    BY <2>1, <2>2 DEF PutFails, RequestLost, Fail, Return, TypeInv, CallsOK
  <2>. QED
    BY <2>3 DEF Ready
<1>2. CASE Unlocks(g) \/ Stores(g) \/ TablesStep(g)
  BY <1>2 DEF Unlocks, BeginUnlock, Stores, Store, TablesStep, SetLease, DeleteValue,
              DeleteLease, At
<1>3. CASE DeleteKey(g) \/ Enter(g, Locked) \/ Leave(g)
  BY <1>3 DEF DeleteKey, Enter, Leave, At
<1>. QED
  BY <1>1, <1>2, <1>3 DEF CallerStep, Unlocks, Stores

(* A call comes to the Delete of the shared lock from the counter.          *)
LEMMA LeaveComes ==
  ASSUME TypeInv, NEW g \in Goroutine, CallerStep(g), Leaving(g)'
  PROVE  /\ At(g, "read count") /\ call'[g].count = count
         /\ UNCHANGED EtcdVars /\ held' = held
<1>. USE DEF TypeInv, Leaving, At
<1>1. CASE CallOnly(g) /\ UNCHANGED EtcdVars
  <2>1. PICK c \in Call : Turn(g, c) /\ Onward(g, c) /\ held' = held
    BY <1>1, CallOnlyTurns
  <2>2. call'[g] = c
    BY <2>1 DEF Turn, CallsOK
  <2>. QED
    BY <1>1, <2>1, <2>2 DEF Onward
<1>2. CASE Unlocks(g)
  <2>1. PICK c \in Call :
          /\ Turn(g, c)
          /\ \/ Requested(g, "unlock", "exclusive", lockValues["exclusive"][InstanceOf[g]], c)
             \/ c = [Ready EXCEPT !.pc = "store", !.op = "unlock", !.kind = "exclusive"]
    BY <1>2, LookTurn DEF Unlocks, BeginUnlock, Kind
  <2>2. call'[g] = c /\ c.kind = "exclusive"
    BY <2>1 DEF Turn, CallsOK, Requested, Ready
  <2>. QED
    BY <2>2
<1>3. CASE Stores(g)
  <2>1. PICK c \in Call, v \in Value :
          Turn(g, c) /\ Requested(g, call[g].op, call[g].kind, v, c)
    BY <1>3, StoreTurns DEF Stores
  <2>2. call'[g] = c /\ (c.pc = "release" => c.kind = "exclusive")
    BY <2>1 DEF Turn, CallsOK, Requested
  <2>. QED
    BY <2>2
<1>4. CASE TablesStep(g)
  <2>1. CASE SetLease(g) \/ DeleteLease(g)
    <3>1. call'[g] = Ready /\ Ready.pc = "ready"
      BY <2>1 DEF SetLease, DeleteLease, Return, CallsOK, Ready
    <3>. QED
      BY <3>1
  <2>2. CASE DeleteValue(g)
    BY <2>2 DEF DeleteValue, Goto, CallsOK, Call
  <2>. QED
    BY <1>4, <2>1, <2>2 DEF TablesStep
<1>5. CASE PutKey(g) \/ PutCount(g)
  BY <1>5, LostElsewhere, SucceedElsewhere DEF PutKey, PutCount, Acquired
<1>6. CASE DeleteKey(g) \/ Leave(g)
  BY <1>6, LostElsewhere, SucceedElsewhere DEF DeleteKey, Leave, Released
<1>7. CASE Enter(g, Locked)
  <2>1. CASE Read(g, "put")
    BY <2>1 DEF Read, CallsOK, Call
  <2>. QED
    BY <1>7, <2>1, LostElsewhere DEF Enter
<1>. QED
  BY <1>1, <1>2, <1>3, <1>4, <1>5, <1>6, <1>7 DEF CallerStep, Unlocks, Stores

(* The steps of a caller, by what becomes of the counter and the keys.      *)
Quiet(a) == UNCHANGED sharedVars /\ ~Counting(a)'

LEMMA CounterCases ==
  ASSUME TypeInv, NEW a \in Goroutine, CallerStep(a)
  PROVE  \/ Quiet(a)
         \/ Enter(a, Locked) /\ Read(a, "put")
         \/ Enter(a, Locked) /\ held' = held /\ ~Counting(a)'
         \/ /\ At(a, "read count") /\ Leaving(a)' /\ call'[a].count = count
            /\ UNCHANGED sharedVars /\ held' = held
         \/ PutCount(a) /\ ~Counting(a)'
         \/ Leave(a) /\ ~Counting(a)' /\ held' = held
<1>1. CASE Counting(a)'
  <2>1. CASE Entering(a)'
    <3>1. At(a, "put")'
      BY <2>1 DEF Entering
    <3>. QED
      BY <2>1, <3>1, PutComes DEF Entering
  <2>2. CASE Leaving(a)'
    BY <2>2, LeaveComes DEF EtcdVars
  <2>. QED
    BY <1>1, <2>1, <2>2 DEF Counting, Entering, Leaving, At
<1>2. CASE ~Counting(a)'
  <2>1. CASE UNCHANGED sharedVars
    BY <1>2, <2>1 DEF Quiet
  <2>2. CASE Enter(a, Locked) \/ Leave(a)
    BY <1>2, <2>2 DEF Enter, Leave, Read, Released, ReplyLost
  <2>3. CASE PutCount(a)
    BY <1>2, <2>3
  <2>. QED
    BY <2>1, <2>2, <2>3 DEF CallerStep, EtcdVars
<1>. QED
  BY <1>1, <1>2

(* Others do not count themselves because of a step of this caller.         *)
LEMMA OthersCount ==
  ASSUME TypeInv, OwnInv, OneCallerPerInstance, NEW a \in Goroutine, CallerStep(a),
         NEW g \in Goroutine \ {a}
  PROVE  /\ call'[g] = call[g] /\ held'[g] = held[g]
         /\ Entering(g)' <=> Entering(g)
         /\ Leaving(g)' <=> Leaving(g)
         /\ Counting(g)' <=> Counting(g)
BY OwnCaller DEF OthersStay, Entering, Leaving, Counting, At

(* A reader keeps its key, when the step leaves the key alone.              *)
LEMMA KeyedStays ==
  ASSUME TypeInv, OwnInv, OneCallerPerInstance, Keyed, NEW a \in Goroutine,
         CallerStep(a), NEW g \in Goroutine, Reader(g)', held'[g] = held[g],
         holders'[ReaderValue(g)] = holders[ReaderValue(g)]
  PROVE  holders'[ReaderValue(g)'] = held'[g].lease
<1>1. Reader(g)
  BY DEF Reader, Owns
<1>2. held[g] # NoHold /\ held[g].kind = "shared"
  BY <1>1, ReaderHasValue
<1>3. ReaderValue(g)' = ReaderValue(g)
  BY <1>2, ValueStays DEF ReaderValue
<1>. QED
  BY <1>1, <1>3 DEF Keyed

LEMMA QuietCount ==
  ASSUME TypeInv, OwnInv, OneCallerPerInstance, CountInv, sound,
         NEW a \in Goroutine, CallerStep(a), Quiet(a), ~Spoils
  PROVE  Covered' /\ Known' /\ Keyed'
<1>. USE DEF Quiet
<1>0. /\ ~Entering(a)' /\ ~Leaving(a)' /\ HolderKeys' = HolderKeys
      /\ count' = count /\ holders' = holders
  BY DEF Counting, Entering, Leaving, At, sharedVars, HolderKeys
<1>1. ~Entering(a)
  <2>1. SUFFICES ASSUME Entering(a) PROVE FALSE
    OBVIOUS
  <2>2. At(a, "put") /\ In(a, "lock", "shared")
    BY <2>1 DEF Entering, In, TypeInv, CallsOK, CallFits, At
  <2>3. ~PutKey(a) /\ ~PutCount(a)
    <3>1. ~PutKey(a)
      BY <2>2 DEF PutKey, In
    <3>2. ASSUME PutCount(a) PROVE FALSE
      <4>1. HasLease(a) /\ count' = call[a].count + 1
        BY <3>2 DEF PutCount
      <4>2. call[a].count = count /\ count \in Nat
        BY <2>1, <4>1, MaxCountAssumption DEF CountInv, Known, TypeInv, CountOK
      <4>. QED
        BY <1>0, <4>1, <4>2
    <3>. QED
      BY <3>1, <3>2
  <2>4. call'[a].pc = "ready"
    BY <2>2, <2>3, PutEnds
  <2>. QED
    BY <1>0, <2>2, <2>4 DEF Spoils
<1>2. \A g \in Goroutine \ {a} :
        /\ call'[g] = call[g] /\ held'[g] = held[g]
        /\ Entering(g)' <=> Entering(g)
        /\ Leaving(g)' <=> Leaving(g)
  BY OthersCount
<1>3. Covered'
  BY <1>0, <1>1, <1>2 DEF CountInv, Covered
<1>4. Known'
  <2>. SUFFICES ASSUME NEW g \in Goroutine \ {a}
                PROVE  /\ Entering(g)' /\ HasLease(g)' =>
                            /\ call'[g].count = count'
                            /\ holders'[call'[g].value] = call'[g].lease
                       /\ Leaving(g)' /\ holders'[call'[g].value] # None =>
                            call'[g].count = count'
    BY <1>0 DEF Known
  <2>. QED
    BY <1>0, <1>2 DEF CountInv, Known, HasLease
<1>5. ASSUME NEW g \in Goroutine, Reader(g)'
      PROVE  holders'[ReaderValue(g)'] = held'[g].lease
  <2>1. CASE held'[g] = held[g]
    BY <1>0, <1>5, <2>1, KeyedStays DEF CountInv
  <2>2. CASE held'[g] # held[g]
    <3>1. g = a /\ held'[g] # NoHold /\ held'[g].kind = "shared"
      BY <1>2, <1>5, <2>2, EtcdClientAssumption DEF Reader, Owns, NoHold
    <3>2. Acquired(g) /\ (PutKey(g) \/ PutCount(g))
      BY <2>2, <3>1, HeldComes
    <3>3. held'[g].kind = call[g].kind
      BY <3>2 DEF Acquired, TypeInv, HeldOK
    <3>. QED
      BY <1>1, <3>1, <3>2, <3>3 DEF PutKey, PutCount, Entering
  <2>. QED
    BY <2>1, <2>2
<1>. QED
  BY <1>3, <1>4, <1>5 DEF Keyed

(* Values of different lock objects are different.                          *)
LEMMA OtherValue ==
  ASSUME TypeInv, OwnInv, OneCallerPerInstance, NEW a \in Goroutine,
         call[a].pc \in {"check", "put", "release"},
         NEW g \in Goroutine \ {a}, Reader(g)
  PROVE  ReaderValue(g) \in Value /\ ReaderValue(g) # call[a].value
<1>1. call[a].value[1] = InstanceOf[a]
  BY DEF TypeInv, CallsOK, CallFits
<1>2. InstanceOf[g] # InstanceOf[a]
  BY DEF OneCallerPerInstance
<1>. QED
  BY <1>1, <1>2, ReaderHasValue

LEMMA EnterCount ==
  ASSUME TypeInv, OwnInv, FiniteInv, OneCallerPerInstance, CountInv, sound,
         NEW a \in Goroutine, CallerStep(a), Enter(a, Locked), Read(a, "put"), OneCounts'
  PROVE  Covered' /\ Known' /\ Keyed'
<1>1. /\ call[a].value \in Value /\ call[a].op = "lock" /\ At(a, "check")
      /\ call[a] \in Call /\ call[a].kind = "shared"
      /\ count' = count /\ held' = held /\ held[a] = NoHold
      /\ holders' = [holders EXCEPT ![call[a].value] = call[a].lease]
  BY DEF Enter, In, Read, TypeInv, CallsOK, CallFits, At, OwnInv, OwnFits
<1>2. /\ call'[a].pc = "put" /\ call'[a].count = count /\ call'[a].kind = "shared"
      /\ call'[a].value = call[a].value /\ call'[a].lease = call[a].lease
  BY <1>1 DEF Read, TypeInv, CallsOK, Call
<1>3. Entering(a)' /\ ~Entering(a) /\ Counting(a)'
  BY <1>1, <1>2 DEF Entering, Counting, At
<1>4. \A g \in Goroutine \ {a} : ~Counting(g)' /\ ~Counting(g)
  BY <1>3, OthersCount DEF OneCounts
<1>5. \A g \in Goroutine \ {a} : ~Entering(g) /\ ~Entering(g)' /\ ~Leaving(g)'
  BY <1>4 DEF Counting, Entering, Leaving, At
<1>6. Covered'
  <2>1. Cardinality(HolderKeys) <= count
    BY <1>3, <1>5 DEF CountInv, Covered
  <2>2. HolderKeys' \ {call'[a].value} \subseteq HolderKeys
    BY <1>1, <1>2 DEF HolderKeys, TypeInv, CountOK
  <2>3. Cardinality(HolderKeys' \ {call'[a].value}) <= Cardinality(HolderKeys)
    BY <2>2, FS_Subset DEF FiniteInv
  <2>4. /\ IsFiniteSet(HolderKeys' \ {call'[a].value})
        /\ Cardinality(HolderKeys) \in Nat
    BY <2>2, FS_Subset, FS_CardinalityType DEF FiniteInv
  <2>5. Cardinality(HolderKeys' \ {call'[a].value}) \in Nat
    BY <2>4, FS_CardinalityType
  <2>6. Cardinality(HolderKeys' \ {call'[a].value}) <= count'
    BY <1>1, <2>1, <2>3, <2>4, <2>5, MaxCountAssumption DEF TypeInv, CountOK
  <2>. QED
    BY <1>3, <1>5, <2>6 DEF Covered
<1>7. Known'
  <2>1. holders'[call'[a].value] = call'[a].lease
    BY <1>1, <1>2 DEF TypeInv, CountOK
  <2>2. ~Leaving(a)'
    BY <1>2 DEF Leaving, At
  <2>. QED
    BY <1>1, <1>2, <1>5, <2>1, <2>2 DEF Known
<1>8. ASSUME NEW g \in Goroutine, Reader(g)'
      PROVE  holders'[ReaderValue(g)'] = held'[g].lease
  <2>1. Reader(g) /\ g # a
    BY <1>1, <1>8, EtcdClientAssumption DEF Reader, Owns, NoHold
  <2>2. holders'[ReaderValue(g)] = holders[ReaderValue(g)]
    BY <1>1, <2>1, OtherValue DEF TypeInv, CountOK, At
  <2>. QED
    BY <1>1, <1>8, <2>2, KeyedStays DEF CountInv
<1>. QED
  BY <1>6, <1>7, <1>8 DEF Keyed

(* The reader's key is written and nobody counts it: that spoils the        *)
(* counter, but when the key was there already.                             *)
LEMMA EnterLostCount ==
  ASSUME TypeInv, OwnInv, OneCallerPerInstance, CountInv, sound,
         NEW a \in Goroutine, CallerStep(a), Enter(a, Locked), held' = held,
         ~Counting(a)', ~Spoils
  PROVE  Covered' /\ Known' /\ Keyed'
<1>1. At(a, "check") /\ In(a, "lock", "shared")
  BY DEF Enter
<1>2. call'[a].pc = "ready"
  <2>1. CASE ReplyLost(a)
    <3>1. call'[a] = Ready
      BY <1>1, <2>1 DEF ReplyLost, Fail, Return, In, TypeInv, CallsOK
    <3>. QED
      BY <3>1 DEF Ready
  <2>2. CASE Read(a, "put")
    <3>1. call'[a].pc = "put" /\ call'[a].kind = call[a].kind
      BY <2>2 DEF Read, TypeInv, CallsOK, Call
    <3>. QED
      BY <1>1, <3>1 DEF Counting, In
  <2>. QED
    BY <2>1, <2>2 DEF Enter
<1>3. holders' = holders
  BY <1>1, <1>2 DEF Spoils
<1>4. Quiet(a)
  BY <1>3 DEF Quiet, Enter, sharedVars
<1>. QED
  BY <1>4, QuietCount

LEMMA ReadCountCount ==
  ASSUME TypeInv, OwnInv, OneCallerPerInstance, CountInv, sound, OneCounts',
         NEW a \in Goroutine, CallerStep(a), At(a, "read count"), Leaving(a)',
         call'[a].count = count, UNCHANGED sharedVars, held' = held
  PROVE  Covered' /\ Known' /\ Keyed'
<1>1. HolderKeys' = HolderKeys /\ count' = count /\ holders' = holders
  BY DEF sharedVars, HolderKeys
<1>2. Counting(a)' /\ ~Entering(a) /\ ~Entering(a)'
  BY DEF Counting, Entering, Leaving, At
<1>3. \A g \in Goroutine \ {a} : ~Entering(g) /\ ~Entering(g)' /\ ~Leaving(g)'
  <2>1. \A g \in Goroutine \ {a} : ~Counting(g)' /\ ~Counting(g)
    BY <1>2, OthersCount DEF OneCounts
  <2>. QED
    BY <2>1 DEF Counting, Entering, Leaving, At
<1>4. Covered'
  BY <1>1, <1>2, <1>3 DEF CountInv, Covered
<1>5. Known'
  BY <1>1, <1>2, <1>3 DEF Known
<1>6. ASSUME NEW g \in Goroutine, Reader(g)'
      PROVE  holders'[ReaderValue(g)'] = held'[g].lease
  BY <1>1, <1>6, KeyedStays DEF CountInv
<1>. QED
  BY <1>4, <1>5, <1>6 DEF Keyed

LEMMA PutCountCount ==
  ASSUME TypeInv, OwnInv, FiniteInv, OneCallerPerInstance, CountInv, sound,
         NEW a \in Goroutine, CallerStep(a), PutCount(a), ~Counting(a)'
  PROVE  Covered' /\ Known' /\ Keyed'
<1>1. Entering(a) /\ HasLease(a) /\ holders' = holders /\ Counting(a)
  BY DEF PutCount, In, Entering, Counting, At
<1>2. call[a].count = count /\ holders[call[a].value] = call[a].lease
  BY <1>1 DEF CountInv, Known
<1>3. HolderKeys' = HolderKeys /\ count' = count + 1 /\ count \in Nat
  BY <1>1, <1>2, MaxCountAssumption DEF PutCount, HolderKeys, TypeInv, CountOK
<1>4. \A g \in Goroutine : ~Entering(g)' /\ ~Leaving(g)'
  <2>1. \A g \in Goroutine : ~Counting(g)'
    BY <1>1, OthersCount DEF CountInv, OneCounts
  <2>. QED
    BY <2>1 DEF Counting, Entering, Leaving, At
<1>5. Covered'
  <2>. DEFINE v == call[a].value
  <2>1. Cardinality(HolderKeys \ {v}) <= count
    BY <1>1 DEF CountInv, Covered
  <2>2. /\ Cardinality(HolderKeys) \in Nat
        /\ Cardinality(HolderKeys \ {v}) =
             IF v \in HolderKeys THEN Cardinality(HolderKeys) - 1
                                 ELSE Cardinality(HolderKeys)
    BY FS_CardinalityType, FS_RemoveElement DEF FiniteInv
  <2>. HIDE DEF v
  <2>3. Cardinality(HolderKeys) <= count + 1
    BY <1>3, <2>1, <2>2
  <2>. QED
    BY <1>3, <1>4, <2>3 DEF Covered
<1>6. Known'
  BY <1>4 DEF Known
<1>7. ASSUME NEW g \in Goroutine, Reader(g)'
      PROVE  holders'[ReaderValue(g)'] = held'[g].lease
  <2>1. CASE held'[g] = held[g]
    BY <1>1, <1>7, <2>1, KeyedStays DEF CountInv
  <2>2. CASE held'[g] # held[g]
    <3>1. g = a
      BY <2>2, OthersCount
    <3>2. Acquired(a)
      BY <2>2, <3>1 DEF PutCount, ReplyLost
    <3>3. held'[a].lease = call[a].lease
      BY <3>2 DEF Acquired, TypeInv, HeldOK
    <3>4. ReaderValue(a)' = call[a].value
      BY DEF PutCount, In, OwnInv, OwnFits, ReaderValue, tableVars
    <3>. QED
      BY <1>1, <1>2, <3>1, <3>3, <3>4
  <2>. QED
    BY <2>1, <2>2
<1>. QED
  BY <1>5, <1>6, <1>7 DEF Keyed

(* The last reader, whose counter says so, removes no key but its own.      *)
LEMMA LeaveCount ==
  ASSUME TypeInv, OwnInv, FiniteInv, OneCallerPerInstance, CountInv, sound,
         NEW a \in Goroutine, CallerStep(a), Leave(a), ~Counting(a)', held' = held
  PROVE  Covered' /\ Known' /\ Keyed'
<1>. DEFINE v == call[a].value
<1>1. /\ Leaving(a) /\ Counting(a) /\ v \in HolderKeys /\ held[a] = NoHold
      /\ v \in Value
  BY DEF Leave, In, Leaving, Counting, At, HolderKeys, TypeInv, CallsOK, CallFits,
         OwnInv, OwnFits
<1>2. call[a].count = count /\ count \in Nat
  BY <1>1, MaxCountAssumption DEF CountInv, Known, HolderKeys, TypeInv, CountOK
<1>3. \A g \in Goroutine : ~Entering(g) /\ ~Entering(g)' /\ ~Leaving(g)'
  <2>1. \A g \in Goroutine \ {a} : ~Counting(g) /\ ~Counting(g)'
    BY <1>1, OthersCount DEF CountInv, OneCounts
  <2>. QED
    BY <1>1, <2>1 DEF Counting, Entering, Leaving, At
<1>4. Cardinality(HolderKeys) <= count
  BY <1>3 DEF CountInv, Covered
<1>5. /\ Cardinality(HolderKeys) \in Nat
      /\ Cardinality(HolderKeys \ {v}) = Cardinality(HolderKeys) - 1
      /\ IsFiniteSet(HolderKeys \ {v})
  BY <1>1, FS_CardinalityType, FS_RemoveElement DEF FiniteInv
<1>6. Cardinality(HolderKeys \ {v}) \in Nat
  BY <1>5, FS_CardinalityType
<1>7. /\ count' = IF count > 1 THEN count - 1 ELSE 0
      /\ holders' = [w \in Value |-> IF w = v \/ count <= 1 THEN None ELSE holders[w]]
  BY <1>2 DEF Leave
<1>. HIDE DEF v
<1>8. count <= 1 => HolderKeys \ {v} = {}
  <2>1. count <= 1 => Cardinality(HolderKeys \ {v}) = 0
    BY <1>2, <1>4, <1>5, <1>6
  <2>. QED
    BY <1>5, <2>1, FS_EmptySet
<1>9. HolderKeys' = HolderKeys \ {v}
  BY <1>7, <1>8 DEF HolderKeys
<1>10. Covered'
  <2>1. Cardinality(HolderKeys') <= count'
    BY <1>2, <1>4, <1>5, <1>6, <1>7, <1>9
  <2>. QED
    BY <1>3, <2>1 DEF Covered
<1>11. Known'
  BY <1>3 DEF Known
<1>12. ASSUME NEW g \in Goroutine, Reader(g)'
       PROVE  holders'[ReaderValue(g)'] = held'[g].lease
  <2>1. Reader(g) /\ g # a /\ held'[g] = held[g]
    BY <1>1, <1>12, EtcdClientAssumption DEF Reader, Owns, NoHold
  <2>2. ReaderValue(g) \in Value /\ ReaderValue(g) # v
    BY <1>1, <2>1, OtherValue DEF Leaving, At, v
  <2>3. holders[ReaderValue(g)] # None
    BY <2>1, ReaderHasValue DEF CountInv, Keyed
  <2>4. count > 1
    <3>1. ReaderValue(g) \in HolderKeys \ {v}
      BY <2>2, <2>3 DEF HolderKeys
    <3>. QED
      BY <1>2, <1>8, <3>1
  <2>5. holders'[ReaderValue(g)] = holders[ReaderValue(g)]
    BY <1>2, <1>7, <2>2, <2>4
  <2>. QED
    BY <1>12, <2>1, <2>5, KeyedStays DEF CountInv
<1>. QED
  BY <1>10, <1>11, <1>12 DEF Keyed

LEMMA CrashCount ==
  ASSUME TypeInv, OwnInv, CountInv, sound, NEW i \in Instance, ClientCrash(i),
         UNCHANGED EtcdVars, ~Spoils
  PROVE  Covered' /\ Known' /\ Keyed'
<1>1. HolderKeys' = HolderKeys /\ count' = count /\ holders' = holders
  BY DEF EtcdVars, sharedVars, HolderKeys
<1>2. ASSUME NEW g \in Goroutine, InstanceOf[g] = i
      PROVE  /\ ~Entering(g) /\ ~Entering(g)' /\ ~Leaving(g)' /\ ~Reader(g)'
  <2>1. call'[g].pc = "ready" /\ held'[g].lease = None
    BY <1>2 DEF ClientCrash, Ready, NoHold
  <2>2. ASSUME Entering(g) PROVE FALSE
    <3>1. At(g, "put") /\ In(g, "lock", "shared")
      BY <2>2 DEF Entering, In, TypeInv, CallsOK, CallFits, At
    <3>. QED
      BY <1>1, <2>1, <3>1 DEF Spoils
  <2>. QED
    BY <2>1, <2>2, EtcdClientAssumption DEF Entering, Leaving, At, Reader, Owns
<1>3. ASSUME NEW g \in Goroutine, InstanceOf[g] # i
      PROVE  /\ call'[g] = call[g] /\ held'[g] = held[g]
             /\ Entering(g)' <=> Entering(g)
             /\ Leaving(g)' <=> Leaving(g)
             /\ Reader(g)' => Reader(g) /\ ReaderValue(g)' = ReaderValue(g)
  <2>1. call'[g] = call[g] /\ held'[g] = held[g]
    BY <1>3 DEF ClientCrash
  <2>2. ReaderValue(g)' = ReaderValue(g)
    BY <1>3, EtcdClientAssumption DEF ClientCrash, ReaderValue, TypeInv, TablesOK, Kind
  <2>. QED
    BY <2>1, <2>2 DEF Entering, Leaving, At, Reader, Owns
<1>4. Covered'
  BY <1>1, <1>2, <1>3 DEF CountInv, Covered
<1>5. Known'
  <2>. SUFFICES ASSUME NEW g \in Goroutine, InstanceOf[g] # i
                PROVE  /\ Entering(g)' /\ HasLease(g)' =>
                            /\ call'[g].count = count'
                            /\ holders'[call'[g].value] = call'[g].lease
                       /\ Leaving(g)' /\ holders'[call'[g].value] # None =>
                            call'[g].count = count'
    BY <1>2 DEF Known
  <2>. QED
    BY <1>1, <1>3 DEF CountInv, Known, HasLease
<1>6. Keyed'
  BY <1>1, <1>2, <1>3 DEF CountInv, Keyed
<1>. QED
  BY <1>4, <1>5, <1>6

(* The counter goes with its lease only when no key is left.                *)
LEMMA ExpireCount ==
  ASSUME TypeInv, OwnInv, FiniteInv, CountInv, sound, NEW l \in Lease, Expire(l), ~Spoils
  PROVE  Covered' /\ Known' /\ Keyed'
<1>. USE DEF Expire
<1>1. /\ count \in Nat
      /\ count = 0 => countLease = None
      /\ l # None /\ l # Ended /\ None # Ended
  BY MaxCountAssumption, EtcdClientAssumption DEF TypeInv, CountOK
<1>2. HolderKeys' \subseteq HolderKeys
  BY DEF ExpireShared, HolderKeys
<1>3. /\ Cardinality(HolderKeys) \in Nat /\ Cardinality(HolderKeys') \in Nat
      /\ Cardinality(HolderKeys') <= Cardinality(HolderKeys)
      /\ IsFiniteSet(HolderKeys')
  BY <1>2, FS_Subset, FS_CardinalityType DEF FiniteInv
<1>4. HolderKeys' = {} \/ count' = count
  <2>1. CASE countLease = l
    BY <1>1, <2>1 DEF ExpireShared, Spoils
  <2>. QED
    BY <2>1 DEF ExpireShared
<1>5. ASSUME NEW g \in Goroutine
      PROVE  /\ Entering(g)' <=> Entering(g)
             /\ Leaving(g)' <=> Leaving(g)
             /\ call'[g].value = call[g].value /\ call'[g].count = call[g].count
  BY EndedElsewhere DEF Entering, Leaving, At
<1>6. count' \in Nat /\ (HolderKeys' = {} => Cardinality(HolderKeys') <= count')
  BY <1>1, FS_EmptySet DEF ExpireShared
<1>7. Covered'
  <2>1. CASE HolderKeys' = {}
    <3>1. \A v : HolderKeys' \ {v} = HolderKeys'
      BY <2>1
    <3>. QED
      BY <1>6, <2>1, <3>1 DEF Covered
  <2>2. CASE count' = count
    <3>1. ASSUME NEW g \in Goroutine, Entering(g)'
          PROVE  Cardinality(HolderKeys' \ {call'[g].value}) <= count'
      <4>. DEFINE S == HolderKeys \ {call[g].value}
                  T == HolderKeys' \ {call[g].value}
      <4>1. T \subseteq S /\ IsFiniteSet(S)
        BY <1>2, FS_Subset DEF FiniteInv
      <4>2. /\ Cardinality(T) <= Cardinality(S)
            /\ Cardinality(T) \in Nat /\ Cardinality(S) \in Nat
        <5>. HIDE DEF S, T
        <5>. QED
          BY <4>1, FS_Subset, FS_CardinalityType
      <4>3. Cardinality(S) <= count
        BY <1>5, <3>1 DEF CountInv, Covered
      <4>4. T = HolderKeys' \ {call'[g].value}
        BY <1>5
      <4>5. Cardinality(T) <= count'
        <5>. HIDE DEF S, T
        <5>. QED
          BY <1>1, <2>2, <4>2, <4>3
      <4>. QED
        BY <4>4, <4>5
    <3>2. ASSUME \A g \in Goroutine : ~Entering(g)'
          PROVE  Cardinality(HolderKeys') <= count'
      <4>1. Cardinality(HolderKeys) <= count
        BY <1>5, <3>2 DEF CountInv, Covered
      <4>. QED
        BY <1>1, <1>3, <2>2, <4>1
    <3>. QED
      BY <3>1, <3>2 DEF Covered
  <2>. QED
    BY <1>4, <2>1, <2>2
<1>8. Known'
  <2>1. ASSUME NEW g \in Goroutine, Entering(g)', HasLease(g)'
        PROVE  call'[g].count = count' /\ holders'[call'[g].value] = call'[g].lease
    <3>1. call'[g].lease = call[g].lease /\ call[g].lease # l /\ HasLease(g)
      BY <2>1, EndedElsewhere DEF HasLease
    <3>2. /\ call[g].lease \in Lease /\ call[g].lease # None /\ call[g].value \in Value
      BY <1>5, <2>1, <3>1, EtcdClientAssumption
         DEF Entering, At, TypeInv, CallsOK, CallFits, HasLease
    <3>3. call[g].count = count /\ holders[call[g].value] = call[g].lease
      BY <1>5, <2>1, <3>1 DEF CountInv, Known
    <3>4. holders'[call[g].value] = call[g].lease
      BY <3>1, <3>2, <3>3 DEF ExpireShared
    <3>5. call[g].value \in HolderKeys'
      BY <3>2, <3>4 DEF HolderKeys
    <3>. QED
      BY <1>4, <1>5, <3>1, <3>3, <3>4, <3>5
  <2>2. ASSUME NEW g \in Goroutine, Leaving(g)', holders'[call'[g].value] # None
        PROVE  call'[g].count = count'
    <3>1. call[g].value \in Value
      BY <1>5, <2>2 DEF Leaving, At, TypeInv, CallsOK, CallFits
    <3>2. call[g].value \in HolderKeys'
      BY <1>5, <2>2, <3>1 DEF HolderKeys
    <3>3. holders[call[g].value] # None
      BY <1>2, <3>2 DEF HolderKeys
    <3>. QED
      BY <1>4, <1>5, <2>2, <3>2, <3>3 DEF CountInv, Known
  <2>. QED
    BY <2>1, <2>2 DEF Known
<1>9. ASSUME NEW g \in Goroutine, Reader(g)'
      PROVE  holders'[ReaderValue(g)'] = held'[g].lease
  <2>1. Reader(g) /\ held'[g] = held[g] /\ held[g].lease # l
    BY <1>9, EndedElsewhere DEF Reader
  <2>2. ReaderValue(g)' = ReaderValue(g) /\ ReaderValue(g) \in Value
    BY <2>1, ReaderHasValue DEF EndLease, ReaderValue
  <2>3. holders[ReaderValue(g)] = held[g].lease
    BY <2>1 DEF CountInv, Keyed
  <2>. QED
    BY <2>1, <2>2, <2>3 DEF ExpireShared
<1>. QED
  BY <1>7, <1>8, <1>9 DEF Keyed

LEMMA NoReadersCount ==
  ASSUME NoReaders
  PROVE  OneCounts /\ Covered /\ Known /\ Keyed
<1>1. \A g \in Goroutine : ~Counting(g) /\ ~Reader(g)
  BY DEF NoReaders, Reader
<1>2. \A g \in Goroutine : ~Entering(g) /\ ~Leaving(g)
  BY <1>1 DEF Counting, Entering, Leaving, At
<1>3. Cardinality(HolderKeys) <= count
  BY FS_EmptySet DEF NoReaders
<1>. QED
  BY <1>1, <1>2, <1>3 DEF OneCounts, Covered, Known, Keyed

LEMMA CountCaller ==
  ASSUME TypeInv, OwnInv, FiniteInv, OneCallerPerInstance, CountInv, sound,
         NEW a \in Goroutine, CallerStep(a), ~Spoils, OneCounts'
  PROVE  Covered' /\ Known' /\ Keyed'
BY CounterCases, QuietCount, EnterCount, EnterLostCount, ReadCountCount,
   PutCountCount, LeaveCount

LEMMA CountNext ==
  ASSUME TypeInv, OwnInv, FiniteInv, OneCallerPerInstance, CountInv, [Next]_vars
  PROVE  CountInv'
<1>1. CASE UNCHANGED vars
  BY <1>1 DEF vars, clientVars, tableVars, sharedVars, CountInv, OneCounts, Covered,
              Known, Keyed, Counting, Entering, Leaving, At, HasLease, Reader, Owns,
              ReaderValue, HolderKeys
<1>2. CASE Observe
  <2>. SUFFICES ASSUME sound' PROVE OneCounts' /\ Covered' /\ Known' /\ Keyed'
    BY DEF CountInv
  <2>1. CASE NoReaders'
    BY <2>1, NoReadersCount, PTL
  <2>2. CASE ~NoReaders'
    <3>1. sound /\ ~Spoils
      BY <1>2, <2>2 DEF Observe, ObserveCounter
    <3>2. OneCounts'
      BY <3>1 DEF Spoils, OneCounts
    <3>3. Covered' /\ Known' /\ Keyed'
      <4>1. CASE UNCHANGED vars
        BY <1>1, <4>1 DEF CountInv
      <4>. QED
        BY <3>1, <3>2, <4>1, NextCases, CountCaller, CrashCount, ExpireCount
    <3>. QED
      BY <3>2, <3>3
  <2>. QED
    BY <2>1, <2>2
<1>. QED
  BY <1>1, <1>2, NextCases DEF Expire

LEMMA CountInvariant ==
  ASSUME OneCallerPerInstance
  PROVE  Spec => [](FiniteInv /\ CountInv)
<1>1. Init => FiniteInv /\ CountInv
  <2>. SUFFICES ASSUME Init PROVE FiniteInv /\ CountInv
    OBVIOUS
  <2>1. HolderKeys = {} /\ count = 0
    BY DEF Init, SharedInit, HolderKeys
  <2>2. \A g \in Goroutine : call[g].pc = "ready" /\ held[g].lease = None
    BY DEF Init, ClientInit, Ready, NoHold
  <2>3. NoReaders
    BY <2>1, <2>2, EtcdClientAssumption DEF NoReaders, Owns, Counting
  <2>. QED
    BY <2>1, <2>3, NoReadersCount, FS_EmptySet DEF FiniteInv, CountInv
<1>2. TypeInv /\ OwnInv /\ FiniteInv /\ CountInv /\ [Next]_vars => FiniteInv' /\ CountInv'
  BY FiniteNext, CountNext
<1>. QED
  BY <1>1, <1>2, OwnInvariant, PTL DEF Spec

(* As long as nothing spoils it, the counter covers the keys of all readers *)
(* but one that is about to count itself, and every reader has its key,     *)
(* however many readers come, go, crash and lose their leases.              *)
THEOREM ReadersAreCovered ==
  ASSUME OneCallerPerInstance
  PROVE  Spec => []ReadersCounted
<1>. DEFINE E == {g \in Goroutine : Counting(g) /\ At(g, "put")}
<1>1. ASSUME TypeInv, OwnInv, FiniteInv, CountInv, sound
      PROVE  Cardinality(HolderKeys) <= count + Cardinality(E)
  <2>. USE <1>1
  <2>1. count \in Nat /\ Cardinality(HolderKeys) \in Nat
    BY MaxCountAssumption, FS_CardinalityType DEF TypeInv, CountOK, FiniteInv
  <2>2. CASE E = {}
    <3>1. Cardinality(E) = 0
      BY <2>2, FS_EmptySet
    <3>2. Cardinality(HolderKeys) <= count
      BY <2>2 DEF CountInv, Covered, Counting, Entering, At
    <3>. QED
      BY <2>1, <3>1, <3>2
  <2>3. CASE E # {}
    <3>1. PICK g \in Goroutine : Counting(g) /\ At(g, "put")
      BY <2>3
    <3>2. E = {g}
      BY <3>1 DEF CountInv, OneCounts
    <3>3. Cardinality(E) = 1
      BY <3>2, FS_Singleton
    <3>4. Cardinality(HolderKeys \ {call[g].value}) <= count
      BY <3>1 DEF CountInv, Covered, Counting, Entering
    <3>5. Cardinality(HolderKeys) <= count + 1
      <4>. DEFINE v == call[g].value
      <4>1. Cardinality(HolderKeys \ {v}) =
              IF v \in HolderKeys THEN Cardinality(HolderKeys) - 1
                                  ELSE Cardinality(HolderKeys)
        BY FS_RemoveElement DEF FiniteInv
      <4>2. Cardinality(HolderKeys \ {v}) <= count
        BY <3>4
      <4>. HIDE DEF v
      <4>. QED
        BY <2>1, <4>1, <4>2
    <3>. QED
      BY <3>3, <3>5
  <2>. QED
    BY <2>2, <2>3
<1>2. TypeInv /\ OwnInv /\ FiniteInv /\ CountInv => ReadersCounted
  <2>. SUFFICES ASSUME TypeInv, OwnInv, CountInv, sound, NEW g \in Goroutine, Reader(g)
                PROVE  \E v \in Value : holders[v] = held[g].lease
    BY <1>1 DEF ReadersCounted
  <2>. QED
    BY ReaderHasValue DEF CountInv, Keyed
<1>. QED
  BY <1>2, OwnInvariant, CountInvariant, PTL

(* Who has a lock, outside Lock and Unlock, finds in the tables of its lock *)
(* object the value and the lease of its key: its Unlock and its Renew will *)
(* reach the lock.                                                          *)
THEOREM HoldersUnlock ==
  ASSUME OneCallerPerInstance
  PROVE  Spec => []HolderCanUnlock
<1>1. TypeInv /\ OwnInv /\ WriterInv /\ CountInv => HolderCanUnlock
  <2>. SUFFICES ASSUME TypeInv, OwnInv, WriterInv, CountInv,
                       NEW g \in Goroutine, call[g].op \in {"none", "renew"}
                PROVE  LET i == InstanceOf[g] IN
                         /\ Writer(g) /\ g \notin contested =>
                              /\ lockKey = [value |-> lockValues["exclusive"][i],
                                            lease |-> held[g].lease]
                              /\ leaseIDs["exclusive"][i] = held[g].lease
                         /\ Reader(g) /\ sound =>
                              /\ lockValues["shared"][i] # None
                              /\ holders[lockValues["shared"][i]] = held[g].lease
                              /\ leaseIDs["shared"][i] = held[g].lease
    BY DEF HolderCanUnlock
  <2>1. ASSUME NEW k \in Kind, Owns(g, k)
        PROVE  /\ leaseIDs[k][InstanceOf[g]] = held[g].lease
               /\ lockValues[k][InstanceOf[g]] # None
    <3>1. held[g] # NoHold /\ held[g].kind = k /\ call[g].op # "lock"
      BY <2>1, OwnsIsHold
    <3>2. OwnFits(g)
      BY DEF OwnInv
    <3>. QED
      BY <3>1, <3>2 DEF OwnFits
  <2>2. CASE Writer(g) /\ g \notin contested
    BY <2>1, <2>2 DEF WriterInv, HasKey, Writer, Reader, Owns, Kind
  <2>3. CASE Reader(g) /\ sound
    BY <2>1, <2>3 DEF CountInv, Keyed, ReaderValue, Writer, Reader, Owns, Kind
  <2>4. Reader(g) => ~Writer(g)
    BY DEF Reader, Writer, Owns
  <2>. QED
    BY <2>2, <2>3, <2>4
<1>. QED
  BY <1>1, WriterInvariant, CountInvariant, PTL

-----------------------------------------------------------------------------
(* Readers and writers, when the two lock objects know each other's keys.   *)
(* While there is an uncontested writer nobody is on the way to a lock, and *)
(* while there is an uncontested reader nobody is on the way to the         *)
(* exclusive one.                                                           *)
NamesMatch == LockNameOfShared = LockName /\ CounterNameOfExclusive = CounterName

ClearInv ==
  \A g \in Goroutine \ contested : Writer(g) => \A h \in Goroutine : ~Between(h)

ReaderFits(g) ==
  Reader(g) => /\ \A h \in Goroutine : ~Putting(h)
               /\ \A h \in Goroutine \ contested : ~Writer(h)

ReaderInv == sound => \A g \in Goroutine \ contested : ReaderFits(g)

(* A new holder has come from a Put of its own.                             *)
LEMMA OwnerComes ==
  ASSUME TypeInv, OwnInv, OneCallerPerInstance, NEW a \in Goroutine, CallerStep(a),
         NEW g \in Goroutine, NEW k, Owns(g, k)', held'[g] # held[g]
  PROVE  /\ g = a /\ Acquired(g) /\ call[g].kind = k /\ At(g, "put")
         /\ (k = "exclusive" => PutKey(g)) /\ (k = "shared" => PutCount(g))
         /\ ~Between(g)'
<1>1. g = a
  BY OwnCaller DEF OthersStay
<1>2. held'[g] # NoHold /\ held'[g].kind = k
  BY EtcdClientAssumption DEF Owns, NoHold
<1>3. Acquired(g) /\ (PutKey(g) \/ PutCount(g))
  BY <1>1, <1>2, HeldComes
<1>4. held'[g].kind = call[g].kind
  BY <1>3 DEF Acquired, TypeInv, HeldOK
<1>5. call'[g].pc = "set lease"
  BY <1>3, SucceedElsewhere DEF Acquired, TypeInv
<1>. QED
  BY <1>1, <1>2, <1>3, <1>4, <1>5 DEF PutKey, PutCount, In, Between, At

(* A new owner that is not contested was alone between check and Put.       *)
LEMMA OwnerAlone ==
  ASSUME TypeInv, OwnInv, OneCallerPerInstance, ContestInv, Observe,
         NEW a \in Goroutine, CallerStep(a),
         NEW g \in Goroutine \ contested', NEW k, Owns(g, k)', held'[g] # held[g]
  PROVE  \A h \in Goroutine : ~Between(h)'
<1>1. g = a /\ Between(g) /\ ~Between(g)'
  BY OwnerComes DEF Between
<1>2. held'[g] # NoHold
  BY EtcdClientAssumption DEF Owns, NoHold
<1>3. g \notin contested
  BY <1>2, ContestLasts
<1>4. ASSUME NEW h \in Goroutine \ {g} PROVE ~Between(h)'
  <2>1. ~Between(h)
    BY <1>1, <1>3 DEF ContestInv
  <2>. QED
    BY <1>1, <2>1, OwnCaller DEF OthersStay, Between, At
<1>. QED
  BY <1>1, <1>4

LEMMA OwnerLasts ==
  ASSUME Observe, NEW g \in Goroutine \ contested', NEW k, Owns(g, k)', held'[g] = held[g]
  PROVE  g \notin contested /\ Owns(g, k)
<1>1. held'[g] # NoHold
  BY EtcdClientAssumption DEF Owns, NoHold
<1>. QED
  BY <1>1, ContestLasts DEF Owns

(* A key that is in etcd keeps the readers out.                             *)
LEMMA NobodyComes ==
  ASSUME TypeInv, OwnInv, OneCallerPerInstance, NamesMatch, NEW a \in Goroutine,
         CallerStep(a), lockKey # NoKey, NEW h \in Goroutine, ~Between(h)
  PROVE  ~Between(h)'
<1>1. CASE h = a
  <2>1. Locked
    BY DEF Locked, NamesMatch
  <2>2. ~Enter(a, Locked)
    BY <2>1 DEF Enter
  <2>. QED
    BY <1>1, <2>2, PutComes DEF Between
<1>2. CASE h # a
  BY <1>2, OwnCaller DEF OthersStay, Between, At
<1>. QED
  BY <1>1, <1>2

LEMMA ClearCaller ==
  ASSUME TypeInv, OwnInv, OneCallerPerInstance, NamesMatch, ContestInv, WriterInv,
         ClearInv, Observe, NEW a \in Goroutine, CallerStep(a)
  PROVE  ClearInv'
<1>. SUFFICES ASSUME NEW g \in Goroutine \ contested', Writer(g)'
              PROVE  \A h \in Goroutine : ~Between(h)'
  BY DEF ClearInv
<1>1. CASE held'[g] = held[g]
  <2>1. g \notin contested /\ Writer(g)
    BY <1>1, OwnerLasts DEF Writer
  <2>2. lockKey # NoKey
    BY <2>1, WriterValue DEF WriterInv
  <2>. QED
    BY <2>1, <2>2, NobodyComes DEF ClearInv
<1>2. CASE held'[g] # held[g]
  BY <1>2, OwnerAlone DEF Writer
<1>. QED
  BY <1>1, <1>2

(* A reader is counted, so the exclusive lock finds the counter.            *)
LEMMA ReaderIsCounted ==
  ASSUME TypeInv, OwnInv, FiniteInv, OneCallerPerInstance, CountInv, sound,
         NEW g \in Goroutine, Reader(g)
  PROVE  count # 0
<1>. SUFFICES ASSUME count = 0 PROVE FALSE
  OBVIOUS
<1>1. ReaderValue(g) \in HolderKeys /\ held[g] # NoHold
  BY ReaderHasValue DEF CountInv, Keyed, HolderKeys
<1>2. Cardinality(HolderKeys) # 0 /\ Cardinality(HolderKeys) \in Nat
  BY <1>1, FS_EmptySet, FS_CardinalityType DEF FiniteInv
<1>3. PICK h \in Goroutine : Entering(h)
  <2>1. ~(Cardinality(HolderKeys) <= count)
    BY <1>2
  <2>2. Covered
    BY DEF CountInv
  <2>3. ~\A h \in Goroutine : ~Entering(h)
    BY ONLY <2>1, <2>2 DEF Covered
  <2>. QED
    BY ONLY <2>3
<1>4. h # g
  <2>1. call[h].op = "lock" /\ ~At(h, "set lease")
    BY <1>3 DEF Entering, At, TypeInv, CallsOK, CallFits
  <2>2. held[h] = NoHold
    BY <2>1 DEF OwnInv, OwnFits
  <2>. QED
    BY <1>1, <2>2
<1>5. ReaderValue(g) # call[h].value
  BY <1>3, <1>4, OtherValue DEF Entering, At
<1>. DEFINE S == HolderKeys \ {call[h].value}
<1>6. Cardinality(S) <= 0
  BY <1>3 DEF CountInv, Covered
<1>7. S # {} /\ IsFiniteSet(S)
  BY <1>1, <1>5, FS_Subset DEF FiniteInv
<1>. HIDE DEF S
<1>8. Cardinality(S) # 0 /\ Cardinality(S) \in Nat
  BY <1>7, FS_EmptySet, FS_CardinalityType
<1>. QED
  BY <1>6, <1>8

LEMMA ReaderCaller ==
  ASSUME TypeInv, OwnInv, FiniteInv, OneCallerPerInstance, NamesMatch, ContestInv,
         ClearInv, CountInv, ReaderInv, Observe, NEW a \in Goroutine, CallerStep(a)
  PROVE  ReaderInv'
<1>. SUFFICES ASSUME sound', NEW g \in Goroutine \ contested', Reader(g)'
              PROVE  /\ \A h \in Goroutine : ~Putting(h)'
                     /\ \A h \in Goroutine \ contested' : ~Writer(h)'
  BY DEF ReaderInv, ReaderFits
<1>0. sound
  <2>1. ~NoReaders'
    BY DEF NoReaders, Reader
  <2>. QED
    BY <2>1 DEF Observe, ObserveCounter
<1>1. CASE held'[g] = held[g]
  <2>1. g \notin contested /\ Reader(g)
    BY <1>1, OwnerLasts DEF Reader
  <2>2. /\ \A h \in Goroutine : ~Putting(h)
        /\ \A h \in Goroutine \ contested : ~Writer(h)
    BY <1>0, <2>1 DEF ReaderInv, ReaderFits
  <2>3. Readers # 0
    BY <1>0, <2>1, ReaderIsCounted DEF Readers, NamesMatch
  <2>4. ASSUME NEW h \in Goroutine PROVE ~Putting(h)'
    <3>1. CASE h = a
      BY <2>3, <3>1, PutComes DEF Putting
    <3>2. CASE h # a
      BY <2>2, <3>2, OwnCaller DEF OthersStay, Putting, At
    <3>. QED
      BY <3>1, <3>2
  <2>5. ASSUME NEW h \in Goroutine \ contested', Writer(h)' PROVE FALSE
    <3>1. CASE held'[h] = held[h]
      BY <2>2, <2>5, <3>1, OwnerLasts DEF Writer
    <3>2. CASE held'[h] # held[h]
      BY <2>2, <2>5, <3>2, OwnerComes DEF Writer, Putting
    <3>. QED
      BY <3>1, <3>2
  <2>. QED
    BY <2>4, <2>5
<1>2. CASE held'[g] # held[g]
  <2>1. g = a /\ Between(g)
    BY <1>2, OwnerComes DEF Reader, Between
  <2>2. \A h \in Goroutine : ~Putting(h)'
    BY <1>2, OwnerAlone DEF Reader, Putting, Between
  <2>3. ASSUME NEW h \in Goroutine \ contested', Writer(h)' PROVE FALSE
    <3>1. h # g
      BY <2>3 DEF Reader, Writer, Owns
    <3>2. held'[h] = held[h]
      BY <2>1, <3>1, OwnCaller DEF OthersStay
    <3>3. h \notin contested /\ Writer(h)
      BY <2>3, <3>2, OwnerLasts DEF Writer
    <3>. QED
      BY <2>1, <3>3 DEF ClearInv
  <2>. QED
    BY <2>2, <2>3
<1>. QED
  BY <1>1, <1>2

(* Crashes and the ends of leases only take calls and locks away.           *)
Shrinks ==
  /\ Observe
  /\ \A g \in Goroutine :
       /\ At(g, "put")' => At(g, "put") /\ call'[g].kind = call[g].kind
       /\ \A k \in Kind : Owns(g, k)' => Owns(g, k) /\ held'[g] = held[g]

LEMMA FaultsShrink ==
  ASSUME TypeInv,
         \/ \E i \in Instance : ClientCrash(i) /\ Observe
         \/ \E l \in Lease : Expire(l)
  PROVE  Shrinks
<1>1. ASSUME NEW i \in Instance, ClientCrash(i), Observe
      PROVE  Shrinks
  <2>1. ASSUME NEW g \in Goroutine, InstanceOf[g] = i
        PROVE  ~At(g, "put")' /\ \A k \in Kind : ~Owns(g, k)'
    <3>1. call'[g].pc = "ready" /\ held'[g].lease = None
      BY <1>1, <2>1 DEF ClientCrash, Ready, NoHold
    <3>. QED
      BY <3>1, EtcdClientAssumption DEF At, Owns
  <2>2. ASSUME NEW g \in Goroutine, InstanceOf[g] # i
        PROVE  call'[g] = call[g] /\ held'[g] = held[g]
    BY <1>1, <2>2 DEF ClientCrash
  <2>. QED
    BY <1>1, <2>1, <2>2 DEF Shrinks, At, Owns
<1>2. ASSUME NEW l \in Lease, Expire(l)
      PROVE  Shrinks
  BY <1>2, EndedElsewhere DEF Expire, Shrinks, At
<1>. QED
  BY <1>1, <1>2

LEMMA ShrinkNext ==
  ASSUME ClearInv, ReaderInv, Shrinks
  PROVE  ClearInv' /\ ReaderInv'
<1>0. Observe /\ "exclusive" \in Kind /\ "shared" \in Kind
  BY DEF Shrinks, Kind
<1>1. ASSUME NEW g \in Goroutine \ contested', NEW k \in Kind, Owns(g, k)'
      PROVE  g \notin contested /\ Owns(g, k)
  <2>1. Owns(g, k) /\ held'[g] = held[g]
    BY <1>1 DEF Shrinks
  <2>. QED
    BY <1>0, <1>1, <2>1, OwnerLasts
<1>2. \A g \in Goroutine : (Between(g)' => Between(g)) /\ (Putting(g)' => Putting(g))
  BY DEF Shrinks, Between, Putting
<1>3. ClearInv'
  BY <1>0, <1>1, <1>2 DEF ClearInv, Writer
<1>4. ReaderInv'
  <2>. SUFFICES ASSUME sound', NEW g \in Goroutine \ contested', Reader(g)'
                PROVE  /\ \A h \in Goroutine : ~Putting(h)'
                       /\ \A h \in Goroutine \ contested' : ~Writer(h)'
    BY DEF ReaderInv, ReaderFits
  <2>1. sound
    <3>1. ~NoReaders'
      BY DEF NoReaders, Reader
    <3>. QED
      BY <1>0, <3>1 DEF Observe, ObserveCounter
  <2>2. g \notin contested /\ Reader(g)
    BY <1>0, <1>1 DEF Reader
  <2>. QED
    BY <1>0, <1>1, <1>2, <2>1, <2>2 DEF ReaderInv, ReaderFits, Writer
<1>. QED
  BY <1>3, <1>4

LEMMA ReaderInvariant ==
  ASSUME OneCallerPerInstance, NamesMatch
  PROVE  Spec => [](ClearInv /\ ReaderInv)
<1>1. Init => ClearInv /\ ReaderInv
  <2>. SUFFICES ASSUME Init, NEW g \in Goroutine PROVE ~Writer(g) /\ ~Reader(g)
    BY DEF ClearInv, ReaderInv, ReaderFits
  <2>1. held[g].lease = None
    BY DEF Init, ClientInit, NoHold
  <2>. QED
    BY <2>1, EtcdClientAssumption DEF Writer, Reader, Owns
<1>2. TypeInv /\ OwnInv /\ ContestInv /\ WriterInv /\ FiniteInv /\ CountInv
        /\ ClearInv /\ ReaderInv /\ [Next]_vars
        => ClearInv' /\ ReaderInv'
  <2>. SUFFICES ASSUME TypeInv, OwnInv, ContestInv, WriterInv, FiniteInv, CountInv,
                       ClearInv, ReaderInv, [Next]_vars
                PROVE  ClearInv' /\ ReaderInv'
    OBVIOUS
  <2>1. CASE \E a \in Goroutine : CallerStep(a) /\ Observe
    BY <2>1, ClearCaller, ReaderCaller
  <2>2. ASSUME NEW i \in Instance, ClientCrash(i), Observe
        PROVE  ClearInv' /\ ReaderInv'
    BY <2>2, FaultsShrink, ShrinkNext
  <2>3. ASSUME NEW l \in Lease, Expire(l)
        PROVE  ClearInv' /\ ReaderInv'
    BY <2>3, FaultsShrink, ShrinkNext
  <2>4. CASE UNCHANGED vars
    BY <2>4 DEF vars, clientVars, tableVars, sharedVars, ClearInv, ReaderInv, ReaderFits,
                Writer, Reader, Owns, Between, Putting, At
  <2>. QED
    BY <2>1, <2>2, <2>3, <2>4, NextCases
<1>. QED
  BY <1>1, <1>2, WriterInvariant, CountInvariant, PTL DEF Spec

LEMMA NoPrefixNames == Prefix = <<>> => NamesMatch
BY DEF NamesMatch, LockName, LockNameOfShared, CounterName, CounterNameOfExclusive

(* A reader and a writer never have their locks at the same time, if none   *)
(* of them met another goroutine between check and Put and nothing spoiled  *)
(* the counter, for a server configured without a prefix for its keys and   *)
(* lock objects with one caller each.                                       *)
THEOREM ReadersExcludeWriters ==
  ASSUME OneCallerPerInstance, Prefix = <<>>
  PROVE  Spec => []ReadersAndWritersExclude
<1>1. ReaderInv => ReadersAndWritersExclude
  BY DEF ReaderInv, ReaderFits, ReadersAndWritersExclude
<1>. QED
  BY <1>1, NoPrefixNames, ReaderInvariant, PTL

=============================================================================
