-------------------------- MODULE EtcdMutexLockProofs --------------------------
(***************************************************************************)
(* Types of EtcdMutexLock, for every use of it, and mutual exclusion and   *)
(* the tables of the owner, for one caller per process.                    *)
(***************************************************************************)
EXTENDS EtcdMutexLock, TLAPS

(* A call that works on a session or on a mutex has one.                    *)
Working == {"acquire", "wait", "store mutex", "store session"}

SessionsOK ==
  \A g \in Goroutine :
    /\ call[g].pc \in Working => call[g].session \in Session
    /\ call[g].pc \in {"load session", "unlock"} => call[g].mutex \in Session

TypeInv == TypeOK /\ SessionsOK

(* The steps of etcd keep keys, their order and leases in their types.      *)
EtcdTypeOK ==
  /\ keys \subseteq Session
  /\ ahead \in [Session -> SUBSET keys]
  /\ lease \in [Session -> {"kept", "left", "none"}]
  /\ \A s \in keys : lease[s] # "none"

LEMMA CreateKeyType ==
  ASSUME EtcdTypeOK, NEW s \in Session, lease[s] # "none", CreateKey(s), lease' = lease
  PROVE  EtcdTypeOK'
BY DEF EtcdTypeOK, CreateKey

LEMMA DeleteKeysType ==
  ASSUME EtcdTypeOK, NEW S, DeleteKeys(S), lease' \in [Session -> {"kept", "left", "none"}],
         \A s \in Session \ S : lease'[s] = "none" => lease[s] = "none"
  PROVE  EtcdTypeOK'
BY DEF EtcdTypeOK, DeleteKeys

LEMMA LeaveType ==
  ASSUME EtcdTypeOK, NEW S, Leave(S), UNCHANGED <<keys, ahead>>
  PROVE  EtcdTypeOK'
BY DEF EtcdTypeOK, Leave

(* The part of the types that the goroutines change.                        *)
TablesTypeOK ==
  /\ mutexes \in [Instance -> MaybeSession]
  /\ sessions \in [Instance -> MaybeSession]
  /\ unlocked \subseteq Session
  /\ held \in [Goroutine -> MaybeSession]

CallTypeOK == call \in [Goroutine -> Call]

LEMMA TypeParts == TypeOK <=> EtcdTypeOK /\ TablesTypeOK /\ CallTypeOK
BY DEF TypeOK, EtcdTypeOK, TablesTypeOK, CallTypeOK

(* A step changes the place of one goroutine in its call, or none.          *)
LEMMA GotoType ==
  ASSUME CallTypeOK, SessionsOK, NEW g \in Goroutine, NEW pc,
         pc \in {"wait", "store mutex", "store session", "delete mutex",
                 "delete session", "close"},
         pc \in Working => call[g].pc \in Working,
         Goto(g, pc)
  PROVE  CallTypeOK' /\ SessionsOK'
<1>1. CallTypeOK'
  BY DEF CallTypeOK, Call, Goto
<1>2. SessionsOK'
  BY DEF CallTypeOK, SessionsOK, Call, Goto
<1>. QED
  BY <1>1, <1>2

LEMMA ReturnType ==
  ASSUME CallTypeOK, SessionsOK, NEW g \in Goroutine, Return(g)
  PROVE  CallTypeOK' /\ SessionsOK'
BY DEF CallTypeOK, SessionsOK, Call, Return, Ready, MaybeSession, Working

LEMMA TypeNext ==
  ASSUME TypeInv, [Next]_vars
  PROVE  TypeInv'
<1>. SUFFICES EtcdTypeOK' /\ TablesTypeOK' /\ CallTypeOK' /\ SessionsOK'
  BY TypeParts DEF TypeInv, TypeOK, EtcdTypeOK, TablesTypeOK, CallTypeOK
<1>0. EtcdTypeOK /\ TablesTypeOK /\ CallTypeOK /\ SessionsOK
  BY TypeParts DEF TypeInv
<1>. USE DEF At, etcdVars, tableVars
<1>1. ASSUME NEW g \in Goroutine, NEW op \in {"trylock", "lock"}, NewSession(g, op)
      PROVE  EtcdTypeOK' /\ TablesTypeOK' /\ CallTypeOK' /\ SessionsOK'
  <2>1. PICK s \in Session :
          /\ lease' = [lease EXCEPT ![s] = "kept"]
          /\ unlocked' = unlocked \ {s}
          /\ call' = [call EXCEPT ![g] = [Ready EXCEPT !.pc = "acquire", !.op = op,
                                                       !.session = s]]
    BY <1>1 DEF NewSession, Unused
  <2>2. CallTypeOK' /\ SessionsOK'
    BY <1>0, <2>1 DEF CallTypeOK, SessionsOK, Call, Ready, MaybeSession
  <2>. QED
    BY <1>0, <1>1, <2>1, <2>2 DEF NewSession, EtcdTypeOK, TablesTypeOK
<1>2. ASSUME NEW g \in Goroutine, Acquire(g) \/ AcquireTimedOut(g)
      PROVE  EtcdTypeOK' /\ TablesTypeOK' /\ CallTypeOK' /\ SessionsOK'
  <2>1. call[g].session \in Session
    BY <1>0, <1>2 DEF SessionsOK, Working, Acquire, AcquireTimedOut
  <2>2. EtcdTypeOK'
    <3>1. CASE CreateKey(call[g].session) /\ lease[call[g].session] # "none"
      BY <1>0, <1>2, <2>1, <3>1, CreateKeyType DEF Acquire, AcquireTimedOut
    <3>2. CASE UNCHANGED <<keys, ahead>>
      BY <1>0, <1>2, <3>2 DEF Acquire, AcquireTimedOut, EtcdTypeOK
    <3>. QED
      BY <1>2, <3>1, <3>2 DEF Acquire, AcquireTimedOut
  <2>3. CallTypeOK' /\ SessionsOK'
    BY <1>0, <1>2, GotoType DEF Acquire, AcquireTimedOut, Working
  <2>. QED
    BY <1>0, <1>2, <2>2, <2>3 DEF Acquire, AcquireTimedOut, TablesTypeOK
<1>3. ASSUME NEW g \in Goroutine, AcquireFails(g) \/ Awaited(g)
      PROVE  EtcdTypeOK' /\ TablesTypeOK' /\ CallTypeOK' /\ SessionsOK'
  <2>1. CallTypeOK' /\ SessionsOK'
    BY <1>0, <1>3, GotoType DEF AcquireFails, Awaited, Working
  <2>. QED
    BY <1>0, <1>3, <2>1 DEF AcquireFails, Awaited, TablesTypeOK, EtcdTypeOK
<1>4. ASSUME NEW g \in Goroutine, Cancel(g)
      PROVE  EtcdTypeOK' /\ TablesTypeOK' /\ CallTypeOK' /\ SessionsOK'
  <2>1. EtcdTypeOK'
    BY <1>0, <1>4, DeleteKeysType DEF Cancel, EtcdTypeOK
  <2>2. CallTypeOK' /\ SessionsOK'
    BY <1>0, <1>4, GotoType DEF Cancel, Working
  <2>. QED
    BY <1>0, <1>4, <2>1, <2>2 DEF Cancel, TablesTypeOK
<1>5. ASSUME NEW g \in Goroutine, StoreMutex(g) \/ StoreSession(g)
      PROVE  EtcdTypeOK' /\ TablesTypeOK' /\ CallTypeOK' /\ SessionsOK'
  <2>1. call[g].session \in Session
    BY <1>0, <1>5 DEF SessionsOK, Working, StoreMutex, StoreSession
  <2>2. CallTypeOK' /\ SessionsOK'
    BY <1>0, <1>5, GotoType, ReturnType DEF StoreMutex, StoreSession, Working
  <2>. QED
    BY <1>0, <1>5, <2>1, <2>2
       DEF StoreMutex, StoreSession, TablesTypeOK, EtcdTypeOK, MaybeSession
<1>6. ASSUME NEW g \in Goroutine, BeginUnlock(g) \/ LoadMutex(g) \/ LoadSession(g)
      PROVE  EtcdTypeOK' /\ TablesTypeOK' /\ CallTypeOK' /\ SessionsOK'
  <2>0. InstanceOf[g] \in Instance
    BY MutexAssumption
  <2>1. CASE BeginUnlock(g)
    BY <1>0, <2>1 DEF BeginUnlock, CallTypeOK, SessionsOK, Call, Ready,
       MaybeSession, Working, TablesTypeOK, EtcdTypeOK
  <2>2. CASE LoadMutex(g)
    <3>1. CallTypeOK' /\ SessionsOK'
      <4>1. CASE Return(g)
        BY <1>0, <4>1, ReturnType
      <4>2. CASE /\ mutexes[InstanceOf[g]] # None
                 /\ call' = [call EXCEPT ![g].pc = "load session",
                                         ![g].mutex = mutexes[InstanceOf[g]]]
        <5>1. mutexes[InstanceOf[g]] \in Session
          BY <1>0, <2>0, <4>2 DEF TablesTypeOK, MaybeSession
        <5>2. CallTypeOK'
          BY <1>0, <4>2, <5>1 DEF CallTypeOK, Call, MaybeSession
        <5>3. /\ call'[g].pc = "load session" /\ call'[g].mutex \in Session
              /\ \A h \in Goroutine : h # g => call'[h] = call[h]
          BY <1>0, <4>2, <5>1 DEF CallTypeOK, Call
        <5>. QED
          BY <1>0, <5>2, <5>3 DEF SessionsOK, Working
      <4>. QED
        BY <2>2, <4>1, <4>2 DEF LoadMutex
    <3>. QED
      BY <1>0, <2>2, <3>1 DEF LoadMutex, TablesTypeOK, EtcdTypeOK
  <2>3. CASE LoadSession(g)
    <3>1. CallTypeOK' /\ SessionsOK'
      <4>1. CASE Return(g)
        BY <1>0, <4>1, ReturnType
      <4>2. CASE call' = [call EXCEPT ![g].pc = "unlock",
                                      ![g].session = sessions[InstanceOf[g]]]
        <5>1. /\ sessions[InstanceOf[g]] \in MaybeSession
              /\ call[g].mutex \in Session
          BY <1>0, <2>0, <2>3 DEF TablesTypeOK, SessionsOK, LoadSession
        <5>2. CallTypeOK'
          BY <1>0, <4>2, <5>1 DEF CallTypeOK, Call
        <5>3. /\ call'[g].pc = "unlock" /\ call'[g].mutex \in Session
              /\ \A h \in Goroutine : h # g => call'[h] = call[h]
          BY <1>0, <4>2, <5>1 DEF CallTypeOK, Call
        <5>. QED
          BY <1>0, <5>2, <5>3 DEF SessionsOK, Working
      <4>. QED
        BY <2>3, <4>1, <4>2 DEF LoadSession
    <3>. QED
      BY <1>0, <2>3, <3>1 DEF LoadSession, TablesTypeOK, EtcdTypeOK
  <2>. QED
    BY <1>6, <2>1, <2>2, <2>3
<1>7. ASSUME NEW g \in Goroutine, UnlockMutex(g) \/ UnlockTimedOut(g)
      PROVE  EtcdTypeOK' /\ TablesTypeOK' /\ CallTypeOK' /\ SessionsOK'
  <2>1. EtcdTypeOK'
    <3>1. CASE DeleteKeys({call[g].mutex})
      BY <1>0, <1>7, <3>1, DeleteKeysType DEF UnlockMutex, UnlockTimedOut, EtcdTypeOK
    <3>2. CASE UNCHANGED <<keys, ahead>>
      BY <1>0, <1>7, <3>2 DEF UnlockMutex, UnlockTimedOut, EtcdTypeOK
    <3>. QED
      BY <1>7, <3>1, <3>2 DEF UnlockMutex, UnlockTimedOut
  <2>2. CallTypeOK' /\ SessionsOK'
    BY <1>0, <1>7, GotoType, ReturnType DEF UnlockMutex, UnlockTimedOut, Working
  <2>3. unlocked' \subseteq Session
    <3>1. unlocked \subseteq Session /\ (At(g, "unlock") => call[g].mutex \in Session)
      BY <1>0 DEF TablesTypeOK, SessionsOK
    <3>2. unlocked' = unlocked \/ unlocked' = unlocked \cup {call[g].mutex}
      BY <1>7 DEF UnlockMutex, UnlockTimedOut
    <3>3. At(g, "unlock")
      BY <1>7 DEF UnlockMutex, UnlockTimedOut
    <3>. QED
      BY <3>1, <3>2, <3>3
  <2>. QED
    BY <1>0, <1>7, <2>1, <2>2, <2>3 DEF UnlockMutex, UnlockTimedOut, TablesTypeOK
<1>8. ASSUME NEW g \in Goroutine, DeleteMutex(g) \/ DeleteSession(g)
      PROVE  EtcdTypeOK' /\ TablesTypeOK' /\ CallTypeOK' /\ SessionsOK'
  <2>1. CallTypeOK' /\ SessionsOK'
    BY <1>0, <1>8, GotoType DEF DeleteMutex, DeleteSession, Working
  <2>. QED
    BY <1>0, <1>8, <2>1
       DEF DeleteMutex, DeleteSession, TablesTypeOK, EtcdTypeOK, MaybeSession
<1>9. ASSUME NEW g \in Goroutine, CloseSession(g) \/ CloseTimedOut(g)
      PROVE  EtcdTypeOK' /\ TablesTypeOK' /\ CallTypeOK' /\ SessionsOK'
  <2>1. CASE CloseSession(g)
    <3>1. EtcdTypeOK'
      BY <1>0, <2>1, DeleteKeysType DEF CloseSession, EndLeases, EtcdTypeOK
    <3>. QED
      BY <1>0, <2>1, <3>1, ReturnType DEF CloseSession, TablesTypeOK
  <2>2. CASE CloseTimedOut(g)
    BY <1>0, <2>2, LeaveType, ReturnType DEF CloseTimedOut, TablesTypeOK
  <2>. QED
    BY <1>9, <2>1, <2>2
<1>10. ASSUME NEW s \in Session, Partition(s) \/ Expire(s)
       PROVE  EtcdTypeOK' /\ TablesTypeOK' /\ CallTypeOK' /\ SessionsOK'
  <2>1. EtcdTypeOK'
    <3>1. CASE Partition(s)
      BY <1>0, <3>1, LeaveType DEF Partition
    <3>2. CASE Expire(s)
      BY <1>0, <3>2, DeleteKeysType DEF Expire, EndLeases, EtcdTypeOK
    <3>. QED
      BY <1>10, <3>1, <3>2
  <2>. QED
    BY <1>0, <1>10, <2>1 DEF Partition, Expire, TablesTypeOK, CallTypeOK, SessionsOK
<1>11. ASSUME NEW i \in Instance, Crash(i) \/ Close(i)
       PROVE  EtcdTypeOK' /\ TablesTypeOK' /\ CallTypeOK' /\ SessionsOK'
  <2>1. EtcdTypeOK'
    <3>1. CASE Crash(i)
      BY <1>0, <3>1, LeaveType DEF Crash
    <3>2. CASE Close(i)
      BY <1>0, <3>2, DeleteKeysType DEF Close, EtcdTypeOK
    <3>. QED
      BY <1>11, <3>1, <3>2
  <2>2. Reset(i) /\ unlocked' = unlocked
    BY <1>11 DEF Crash, Close
  <2>3. CallTypeOK' /\ SessionsOK'
    BY <1>0, <2>2
       DEF Reset, CallTypeOK, SessionsOK, Call, Ready, MaybeSession, Working
  <2>. QED
    BY <1>0, <2>1, <2>2, <2>3 DEF Reset, TablesTypeOK, MaybeSession
<1>12. CASE UNCHANGED vars
  BY <1>0, <1>12 DEF vars, EtcdTypeOK, TablesTypeOK, CallTypeOK, SessionsOK
<1>. QED
  BY <1>1, <1>2, <1>3, <1>4, <1>5, <1>6, <1>7, <1>8, <1>9, <1>10, <1>11, <1>12
     DEF Next, Step, BeginTryLock, BeginLock

LEMMA TypeInvariant == Spec => []TypeInv
<1>1. Init => TypeInv
  <2>. SUFFICES ASSUME Init PROVE TypeInv
    OBVIOUS
  <2>1. EtcdTypeOK
    BY DEF Init, EtcdTypeOK
  <2>2. TablesTypeOK
    BY DEF Init, TablesTypeOK, MaybeSession
  <2>3. Ready \in Call
    BY DEF Ready, Call, MaybeSession
  <2>4. CallTypeOK /\ SessionsOK
    BY <2>3 DEF Init, CallTypeOK, SessionsOK, Working, Ready
  <2>. QED
    BY <2>1, <2>2, <2>4, TypeParts DEF TypeInv
<1>2. TypeInv /\ [Next]_vars => TypeInv'
  BY TypeNext
<1>. QED
  BY <1>1, <1>2, PTL DEF Spec

(* Every reachable state is well typed, a key hangs on a lease, and what is *)
(* ahead of a key is a key, with any number of goroutines in a process.     *)
THEOREM TypeCorrect == Spec => []TypeOK
<1>1. TypeInv => TypeOK
  BY DEF TypeInv
<1>. QED
  BY <1>1, TypeInvariant, PTL
-----------------------------------------------------------------------------
(* What makes the invariant inductive.                                      *)

(* A goroutine and its lock object know sessions of their own only.         *)
OwnOK ==
  /\ \A g \in Goroutine, s \in Session :
       call[g].session = s \/ call[g].mutex = s \/ held[g] = s =>
         CreatorOf[s] = InstanceOf[g]
  /\ \A i \in Instance, s \in Session :
       mutexes[i] = s \/ sessions[i] = s => CreatorOf[s] = i

(* A holder is not in a call, and Lock creates its key once.                *)
CallsOK ==
  \A g \in Goroutine :
    /\ held[g] # None => At(g, "ready")
    /\ At(g, "acquire") => call[g].session \notin keys

(* Of two keys one was there before the other.                              *)
Ordered ==
  \A s, t \in keys : s = t \/ s \in ahead[t] \/ t \in ahead[s]

(* The session with which a goroutine has the lock, if it has: from the     *)
(* moment that etcd let it through.                                         *)
Got(g, s) ==
  \/ held[g] = s
  \/ call[g].pc \in {"store mutex", "store session"} /\ call[g].session = s

(* The lock rests on the first of the keys while the lease lasts.           *)
Backed ==
  \A g \in Goroutine, s \in Session :
    Got(g, s) /\ lease[s] # "none" => s \in keys /\ ahead[s] = {}

TablesHave ==
  \A g \in Goroutine :
    /\ held[g] # None => /\ mutexes[InstanceOf[g]] = held[g]
                         /\ sessions[InstanceOf[g]] = held[g]
    /\ At(g, "store session") => mutexes[InstanceOf[g]] = call[g].session

LockInv == OwnOK /\ CallsOK /\ Ordered /\ Backed /\ TablesHave
(* The facts that the lemmas below take from the types.                     *)
LEMMA Types ==
  ASSUME TypeInv
  PROVE  /\ EtcdTypeOK /\ TablesTypeOK /\ CallTypeOK /\ SessionsOK
         /\ InstanceOf \in [Goroutine -> Instance]
         /\ None \notin Session
BY TypeParts, MutexAssumption DEF TypeInv

(* What a step of a goroutine does to the calls.                            *)
LEMMA GotoFrame ==
  ASSUME CallTypeOK, NEW g \in Goroutine, NEW pc, Goto(g, pc)
  PROVE  \A h \in Goroutine :
           /\ call'[h].session = call[h].session
           /\ call'[h].mutex = call[h].mutex
           /\ call'[h].op = call[h].op
           /\ call'[h].pc = IF h = g THEN pc ELSE call[h].pc
BY DEF CallTypeOK, Call, Goto

LEMMA CallFrame ==
  ASSUME CallTypeOK, NEW g \in Goroutine, NEW c, call' = [call EXCEPT ![g] = c]
  PROVE  \A h \in Goroutine : call'[h] = IF h = g THEN c ELSE call[h]
BY DEF CallTypeOK

LEMMA ReturnFrame ==
  ASSUME CallTypeOK, NEW g \in Goroutine, Return(g)
  PROVE  /\ \A h \in Goroutine : h # g => call'[h] = call[h]
         /\ call'[g].pc = "ready"
         /\ call'[g].session = None
         /\ call'[g].mutex = None
BY DEF CallTypeOK, Return, Ready

LEMMA NewSessionFrame ==
  ASSUME CallTypeOK, NEW g \in Goroutine, NEW op, NewSession(g, op)
  PROVE  \E s \in Unused(InstanceOf[g]) :
           /\ lease' = [lease EXCEPT ![s] = "kept"]
           /\ \A h \in Goroutine : h # g => call'[h] = call[h]
           /\ call'[g].pc = "acquire"
           /\ call'[g].session = s
           /\ call'[g].mutex = None
BY DEF CallTypeOK, NewSession, Ready

LEMMA LoadFrame ==
  ASSUME CallTypeOK, NEW g \in Goroutine, LoadMutex(g) \/ LoadSession(g)
  PROVE  /\ \A h \in Goroutine : h # g => call'[h] = call[h]
         /\ call'[g].pc \in {"ready", "load session", "unlock"}
         /\ call'[g].session \in {None, call[g].session, sessions[InstanceOf[g]]}
         /\ call'[g].mutex \in {None, call[g].mutex, mutexes[InstanceOf[g]]}
<1>1. CASE Return(g)
  BY <1>1, ReturnFrame
<1>2. CASE call' = [call EXCEPT ![g].pc = "load session",
                                ![g].mutex = mutexes[InstanceOf[g]]]
  BY <1>2 DEF CallTypeOK, Call
<1>3. CASE call' = [call EXCEPT ![g].pc = "unlock",
                                ![g].session = sessions[InstanceOf[g]]]
  BY <1>3 DEF CallTypeOK, Call
<1>. QED
  BY <1>1, <1>2, <1>3 DEF LoadMutex, LoadSession

LEMMA ResetFrame ==
  ASSUME NEW i \in Instance, Reset(i)
  PROVE  /\ \A h \in Goroutine :
              IF InstanceOf[h] = i
              THEN /\ held'[h] = None
                   /\ call'[h].pc = "ready"
                   /\ call'[h].session = None
                   /\ call'[h].mutex = None
              ELSE held'[h] = held[h] /\ call'[h] = call[h]
BY DEF Reset, Ready

-----------------------------------------------------------------------------
(* A goroutine learns of no session that is not its object's.               *)
LEMMA OwnKept ==
  ASSUME OwnOK,
         \A g \in Goroutine, s \in Session :
           call'[g].session = s \/ call'[g].mutex = s \/ held'[g] = s =>
             \/ call[g].session = s \/ call[g].mutex = s \/ held[g] = s
             \/ CreatorOf[s] = InstanceOf[g],
         \A i \in Instance, s \in Session :
           mutexes'[i] = s \/ sessions'[i] = s =>
             mutexes[i] = s \/ sessions[i] = s \/ CreatorOf[s] = i
  PROVE  OwnOK'
BY DEF OwnOK

LEMMA OwnNext ==
  ASSUME TypeInv, OwnOK, [Next]_vars
  PROVE  OwnOK'
<1>0. /\ CallTypeOK /\ TablesTypeOK
      /\ InstanceOf \in [Goroutine -> Instance]
      /\ None \notin Session
  BY Types
<1>1. ASSUME NEW g \in Goroutine, NEW op, NewSession(g, op)
      PROVE  OwnOK'
  <2>1. UNCHANGED <<mutexes, sessions, held>>
    BY <1>1 DEF NewSession, tableVars
  <2>. QED
    BY <1>0, <1>1, <2>1, NewSessionFrame, OwnKept DEF Unused
<1>2. ASSUME NEW g \in Goroutine, NEW pc, Goto(g, pc),
             UNCHANGED <<tableVars, held>>
      PROVE  OwnOK'
  BY <1>0, <1>2, GotoFrame, OwnKept DEF tableVars
<1>3. ASSUME NEW g \in Goroutine, Return(g), UNCHANGED <<tableVars, held>>
      PROVE  OwnOK'
  BY <1>0, <1>3, ReturnFrame, OwnKept DEF tableVars
<1>4. ASSUME NEW g \in Goroutine, StoreMutex(g)
      PROVE  OwnOK'
  <2>1. \A i \in Instance :
          mutexes'[i] = IF i = InstanceOf[g] THEN call[g].session ELSE mutexes[i]
    BY <1>0, <1>4 DEF StoreMutex, TablesTypeOK
  <2>2. UNCHANGED <<sessions, held>> /\ Goto(g, "store session")
    BY <1>4 DEF StoreMutex
  <2>3. \A s \in Session : call[g].session = s => CreatorOf[s] = InstanceOf[g]
    BY DEF OwnOK
  <2>. QED
    BY <1>0, <2>1, <2>2, <2>3, GotoFrame, OwnKept
<1>5. ASSUME NEW g \in Goroutine, StoreSession(g)
      PROVE  OwnOK'
  <2>1. \A i \in Instance :
          sessions'[i] = IF i = InstanceOf[g] THEN call[g].session ELSE sessions[i]
    BY <1>0, <1>5 DEF StoreSession, TablesTypeOK
  <2>2. \A h \in Goroutine : held'[h] = IF h = g THEN call[g].session ELSE held[h]
    BY <1>0, <1>5 DEF StoreSession, TablesTypeOK
  <2>3. mutexes' = mutexes /\ Return(g)
    BY <1>5 DEF StoreSession
  <2>4. \A s \in Session : call[g].session = s => CreatorOf[s] = InstanceOf[g]
    BY DEF OwnOK
  <2>. QED
    BY <1>0, <2>1, <2>2, <2>3, <2>4, ReturnFrame, OwnKept
<1>6. ASSUME NEW g \in Goroutine, BeginUnlock(g)
      PROVE  OwnOK'
  <2>1. \A h \in Goroutine : held'[h] = IF h = g THEN None ELSE held[h]
    BY <1>0, <1>6 DEF BeginUnlock, TablesTypeOK
  <2>2. \A h \in Goroutine :
          IF h = g THEN call'[h].session = None /\ call'[h].mutex = None
          ELSE call'[h] = call[h]
    BY <1>0, <1>6 DEF BeginUnlock, CallTypeOK, Ready
  <2>. QED
    BY <1>0, <1>6, <2>1, <2>2, OwnKept DEF BeginUnlock, tableVars
<1>7. ASSUME NEW g \in Goroutine, LoadMutex(g) \/ LoadSession(g)
      PROVE  OwnOK'
  <2>1. \A s \in Session :
          s \in {mutexes[InstanceOf[g]], sessions[InstanceOf[g]]} =>
            CreatorOf[s] = InstanceOf[g]
    BY <1>0 DEF OwnOK
  <2>2. UNCHANGED <<mutexes, sessions, held>>
    BY <1>7 DEF LoadMutex, LoadSession, tableVars
  <2>3. /\ \A h \in Goroutine : h # g => call'[h] = call[h]
        /\ call'[g].session \in {None, call[g].session, sessions[InstanceOf[g]]}
        /\ call'[g].mutex \in {None, call[g].mutex, mutexes[InstanceOf[g]]}
    BY <1>0, <1>7, LoadFrame
  <2>4. \A h \in Goroutine, s \in Session :
          call'[h].session = s \/ call'[h].mutex = s =>
            call[h].session = s \/ call[h].mutex = s \/ CreatorOf[s] = InstanceOf[h]
    BY <2>1, <2>3, MutexAssumption
  <2>. QED
    BY <2>2, <2>4, OwnKept
<1>9. ASSUME NEW g \in Goroutine, DeleteMutex(g) \/ DeleteSession(g)
      PROVE  OwnOK'
  <2>1. \A i \in Instance : /\ mutexes'[i] \in {None, mutexes[i]}
                            /\ sessions'[i] \in {None, sessions[i]}
    BY <1>0, <1>9 DEF DeleteMutex, DeleteSession, TablesTypeOK
  <2>2. held' = held /\ \E pc : Goto(g, pc)
    BY <1>9 DEF DeleteMutex, DeleteSession
  <2>. QED
    BY <1>0, <2>1, <2>2, GotoFrame, OwnKept
<1>10. ASSUME NEW i \in Instance, Crash(i) \/ Close(i)
       PROVE  OwnOK'
  <2>1. Reset(i)
    BY <1>10 DEF Crash, Close
  <2>2. \A j \in Instance : /\ mutexes'[j] \in {None, mutexes[j]}
                            /\ sessions'[j] \in {None, sessions[j]}
    BY <1>0, <2>1 DEF Reset, TablesTypeOK
  <2>. QED
    BY <1>0, <2>1, <2>2, ResetFrame, OwnKept
<1>11. CASE UNCHANGED <<call, held, tableVars>>
  BY <1>11 DEF OwnOK, tableVars
<1>12. ASSUME NEW g \in Goroutine,
              \/ Acquire(g) \/ AcquireFails(g) \/ Awaited(g) \/ Cancel(g)
              \/ UnlockMutex(g) \/ CloseSession(g)
              \/ AcquireTimedOut(g) \/ UnlockTimedOut(g) \/ CloseTimedOut(g)
       PROVE  OwnOK'
  BY <1>2, <1>3, <1>12
     DEF Acquire, AcquireFails, Awaited, Cancel, UnlockMutex, CloseSession,
         AcquireTimedOut, UnlockTimedOut, CloseTimedOut, tableVars
<1>14. ASSUME NEW s \in Session, Partition(s) \/ Expire(s)
       PROVE  OwnOK'
  BY <1>11, <1>14 DEF Partition, Expire
<1>. QED
  BY <1>1, <1>4, <1>5, <1>6, <1>7, <1>9, <1>10, <1>11, <1>12, <1>14
     DEF Next, Step, BeginTryLock, BeginLock, vars
-----------------------------------------------------------------------------
(* The keys of a step: one is created, or some are deleted.                 *)
LEMMA KeysFrame ==
  ASSUME [Next]_vars
  PROVE  \/ \E g \in Goroutine : /\ At(g, "acquire")
                                 /\ CreateKey(call[g].session)
                                 /\ Acquire(g) \/ AcquireTimedOut(g)
         \/ \E S : DeleteKeys(S)
         \/ UNCHANGED <<keys, ahead>>
<1>1. ASSUME NEW g \in Goroutine, Step(g)
      PROVE  \/ Acquire(g) /\ At(g, "acquire") /\ CreateKey(call[g].session)
             \/ \E S : DeleteKeys(S)
             \/ UNCHANGED <<keys, ahead>>
  BY <1>1
     DEF Step, Acquire, AcquireFails, Awaited, StoreMutex, StoreSession, LoadMutex,
         LoadSession, UnlockMutex, DeleteMutex, DeleteSession, CloseSession,
         EndLeases, etcdVars
<1>2. ASSUME NEW g \in Goroutine,
             \/ BeginTryLock(g) \/ BeginLock(g) \/ BeginUnlock(g) \/ Cancel(g)
             \/ UnlockTimedOut(g) \/ CloseTimedOut(g)
      PROVE  (\E S : DeleteKeys(S)) \/ UNCHANGED <<keys, ahead>>
  BY <1>2
     DEF BeginTryLock, BeginLock, NewSession, BeginUnlock, Cancel, UnlockTimedOut,
         CloseTimedOut, etcdVars
<1>3. ASSUME NEW g \in Goroutine, AcquireTimedOut(g)
      PROVE  \/ At(g, "acquire") /\ CreateKey(call[g].session)
             \/ UNCHANGED <<keys, ahead>>
  BY <1>3 DEF AcquireTimedOut
<1>4. ASSUME NEW s \in Session, Partition(s) \/ Expire(s)
      PROVE  (\E S : DeleteKeys(S)) \/ UNCHANGED <<keys, ahead>>
  BY <1>4 DEF Partition, Expire, EndLeases
<1>5. ASSUME NEW i \in Instance, Crash(i) \/ Close(i)
      PROVE  (\E S : DeleteKeys(S)) \/ UNCHANGED <<keys, ahead>>
  BY <1>5 DEF Crash, Close
<1>6. CASE UNCHANGED vars
  BY <1>6 DEF vars, etcdVars
<1>. QED
  BY <1>1, <1>2, <1>3, <1>4, <1>5, <1>6 DEF Next

LEMMA OrderedNext ==
  ASSUME TypeInv, Ordered, [Next]_vars
  PROVE  Ordered'
<1>1. EtcdTypeOK /\ SessionsOK
  BY Types
<1>2. ASSUME NEW g \in Goroutine, At(g, "acquire"), CreateKey(call[g].session)
      PROVE  Ordered'
  <2>1. call[g].session \in Session
    BY <1>1, <1>2 DEF SessionsOK, Working, At
  <2>. QED
    BY <1>1, <1>2, <2>1 DEF EtcdTypeOK, CreateKey, Ordered
<1>3. ASSUME NEW S, DeleteKeys(S)
      PROVE  Ordered'
  BY <1>1, <1>3 DEF EtcdTypeOK, DeleteKeys, Ordered
<1>4. CASE UNCHANGED <<keys, ahead>>
  BY <1>4 DEF Ordered
<1>. QED
  BY <1>2, <1>3, <1>4, KeysFrame

-----------------------------------------------------------------------------
(* A goroutine enters a call from outside, and starts with a session of its *)
(* own that has no key yet.                                                 *)
LEMMA CallsNext ==
  ASSUME OneCallerPerInstance, TypeInv, OwnOK, CallsOK, [Next]_vars
  PROVE  CallsOK'
<1>0. /\ CallTypeOK /\ TablesTypeOK /\ EtcdTypeOK /\ SessionsOK
      /\ None \notin Session
  BY Types
<1>1. ASSUME NEW g \in Goroutine, At(g, "acquire"), At(g, "acquire")',
             call'[g] = call[g]
      PROVE  call'[g].session \notin keys'
  <2>1. call[g].session \in Session \ keys
    BY <1>0, <1>1 DEF SessionsOK, Working, CallsOK, At
  <2>2. ASSUME NEW h \in Goroutine, At(h, "acquire"), CreateKey(call[h].session),
               Acquire(h) \/ AcquireTimedOut(h)
        PROVE  call[g].session \notin keys'
    <3>1. h # g
      <4>1. CASE h = g
        <5>1. \E pc : pc # "acquire" /\ Goto(g, pc)
          BY <2>2, <4>1 DEF Acquire, AcquireTimedOut
        <5>. QED
          BY <1>0, <1>1, <5>1, GotoFrame DEF At
      <4>. QED
        BY <4>1
    <3>2. call[h].session \in Session
      BY <1>0, <2>2 DEF SessionsOK, Working, At
    <3>3. call[h].session # call[g].session
      BY <2>1, <3>1, <3>2 DEF OwnOK, OneCallerPerInstance
    <3>. QED
      BY <2>1, <2>2, <3>3 DEF CreateKey
  <2>3. (\E S : DeleteKeys(S)) => call[g].session \notin keys'
    BY <2>1 DEF DeleteKeys
  <2>. QED
    BY <1>1, <2>1, <2>2, <2>3, KeysFrame
<1>2. SUFFICES ASSUME NEW g \in Goroutine
               PROVE  /\ held'[g] # None => At(g, "ready")'
                      /\ At(g, "acquire")' => call'[g].session \notin keys'
  BY DEF CallsOK
<1>3. CASE call'[g] = call[g] /\ held'[g] = held[g]
  BY <1>1, <1>3 DEF CallsOK, At
<1>4. CASE held'[g] = None /\ call'[g].pc # "acquire"
  BY <1>4 DEF At
<1>5. CASE call'[g].pc = "ready"
  BY <1>5 DEF At
<1>6. ASSUME NEW op, NewSession(g, op)
      PROVE  held'[g] = None /\ call'[g].session \notin keys'
  <2>1. PICK s \in Unused(InstanceOf[g]) : call'[g].session = s
    BY <1>0, <1>6, NewSessionFrame
  <2>2. s \notin keys
    BY <1>0, <2>1 DEF Unused, EtcdTypeOK
  <2>. QED
    BY <1>6, <2>1, <2>2 DEF NewSession
<1>7. ASSUME NEW h \in Goroutine, NEW op, NewSession(h, op), h # g
      PROVE  call'[g] = call[g] /\ held'[g] = held[g]
  BY <1>0, <1>7, NewSessionFrame DEF NewSession
<1>8. ASSUME NEW h \in Goroutine, NEW pc, pc # "acquire", Goto(h, pc), held' = held,
             ~At(h, "ready")
      PROVE  \/ call'[g] = call[g] /\ held'[g] = held[g]
             \/ held'[g] = None /\ call'[g].pc # "acquire"
  BY <1>0, <1>8, GotoFrame DEF CallsOK, CallTypeOK, Goto
<1>9. ASSUME NEW h \in Goroutine, Return(h), \A k \in Goroutine \ {h} : held'[k] = held[k]
      PROVE  \/ call'[g] = call[g] /\ held'[g] = held[g]
             \/ call'[g].pc = "ready"
  BY <1>0, <1>9, ReturnFrame
<1>10. ASSUME NEW h \in Goroutine, Step(h)
       PROVE  \/ call'[g] = call[g] /\ held'[g] = held[g]
              \/ held'[g] = None /\ call'[g].pc # "acquire"
              \/ call'[g].pc = "ready"
  <2>1. CASE Acquire(h) \/ AcquireFails(h) \/ Awaited(h) \/ StoreMutex(h)
             \/ DeleteMutex(h) \/ DeleteSession(h)
    <3>1. held' = held /\ ~At(h, "ready") /\ \E pc : pc # "acquire" /\ Goto(h, pc)
      BY <2>1 DEF Acquire, AcquireFails, Awaited, StoreMutex, DeleteMutex,
         DeleteSession, At
    <3>. QED
      BY <1>8, <3>1
  <2>2. CASE StoreSession(h)
    <3>1. \A k \in Goroutine \ {h} : held'[k] = held[k]
      BY <1>0, <2>2 DEF StoreSession, TablesTypeOK
    <3>. QED
      BY <1>9, <2>2, <3>1 DEF StoreSession
  <2>3. CASE LoadMutex(h) \/ LoadSession(h)
    <3>1. held' = held /\ held[h] = None
      BY <2>3 DEF LoadMutex, LoadSession, CallsOK, At
    <3>. QED
      BY <1>0, <2>3, <3>1, LoadFrame
  <2>4. CASE UnlockMutex(h)
    <3>1. held' = held /\ ~At(h, "ready") /\ (Return(h) \/ Goto(h, "delete mutex"))
      BY <2>4 DEF UnlockMutex, At
    <3>. QED
      BY <1>8, <1>9, <3>1
  <2>5. CASE CloseSession(h)
    BY <1>9, <2>5 DEF CloseSession
  <2>. QED
    BY <1>10, <2>1, <2>2, <2>3, <2>4, <2>5 DEF Step
<1>11. ASSUME NEW h \in Goroutine,
              \/ Cancel(h) \/ AcquireTimedOut(h) \/ UnlockTimedOut(h)
              \/ CloseTimedOut(h)
       PROVE  \/ call'[g] = call[g] /\ held'[g] = held[g]
              \/ held'[g] = None /\ call'[g].pc # "acquire"
              \/ call'[g].pc = "ready"
  <2>1. held' = held /\ ~At(h, "ready") /\ (Return(h) \/ Goto(h, "close"))
    BY <1>11 DEF Cancel, AcquireTimedOut, UnlockTimedOut, CloseTimedOut, At
  <2>. QED
    BY <1>8, <1>9, <2>1
<1>12. ASSUME NEW h \in Goroutine, BeginUnlock(h)
       PROVE  \/ call'[g] = call[g] /\ held'[g] = held[g]
              \/ held'[g] = None /\ call'[g].pc # "acquire"
  BY <1>0, <1>12 DEF BeginUnlock, TablesTypeOK, CallTypeOK, Ready
<1>13. ASSUME NEW i \in Instance, Crash(i) \/ Close(i)
       PROVE  \/ call'[g] = call[g] /\ held'[g] = held[g]
              \/ call'[g].pc = "ready"
  BY <1>13, ResetFrame DEF Crash, Close
<1>14. ASSUME NEW s \in Session, Partition(s) \/ Expire(s)
       PROVE  call'[g] = call[g] /\ held'[g] = held[g]
  BY <1>14 DEF Partition, Expire
<1>15. UNCHANGED vars => call'[g] = call[g] /\ held'[g] = held[g]
  BY DEF vars
<1>16. \/ call'[g] = call[g] /\ held'[g] = held[g]
       \/ held'[g] = None /\ call'[g].pc # "acquire"
       \/ call'[g].pc = "ready"
       \/ NewSession(g, "trylock") \/ NewSession(g, "lock")
  <2>1. CASE \E h \in Goroutine : BeginTryLock(h) \/ BeginLock(h)
    BY <1>7, <2>1 DEF BeginTryLock, BeginLock
  <2>. QED
    BY <1>10, <1>11, <1>12, <1>13, <1>14, <1>15, <2>1 DEF Next
<1>17. CASE NewSession(g, "trylock") \/ NewSession(g, "lock")
  BY <1>6, <1>17
<1>. QED
  BY <1>3, <1>4, <1>5, <1>16, <1>17
-----------------------------------------------------------------------------
(* Backed is kept when nobody gets the lock, no lease is made, and no key   *)
(* of a goroutine that has the lock is deleted.                             *)
GotKept ==
  \A g \in Goroutine, s \in Session :
    Got(g, s)' /\ lease'[s] # "none" => Got(g, s) /\ lease[s] # "none"

LEMMA BackedSame ==
  ASSUME Backed, GotKept, UNCHANGED <<keys, ahead>>
  PROVE  Backed'
BY DEF Backed, GotKept

LEMMA BackedDelete ==
  ASSUME Backed, GotKept, NEW S, DeleteKeys(S),
         \A g \in Goroutine, s \in Session :
           Got(g, s)' /\ lease'[s] # "none" => s \notin S
  PROVE  Backed'
BY DEF Backed, GotKept, DeleteKeys

(* The session of another goroutine's call is not the one of a holder.      *)
LEMMA OthersSession ==
  ASSUME OneCallerPerInstance, OwnOK, NEW g \in Goroutine, NEW h \in Goroutine,
         NEW s \in Session, Got(h, s),
         s = call[g].session \/ s = call[g].mutex \/ s = held[g]
  PROVE  g = h
<1>1. CreatorOf[s] = InstanceOf[g]
  BY DEF OwnOK
<1>2. call[h].session = s \/ held[h] = s
  BY DEF Got
<1>3. CreatorOf[s] = InstanceOf[h]
  BY <1>2 DEF OwnOK
<1>. QED
  BY <1>1, <1>3 DEF OneCallerPerInstance

LEMMA BackedNext ==
  ASSUME OneCallerPerInstance, TypeInv, OwnOK, CallsOK, Backed, [Next]_vars
  PROVE  Backed'
<1>0. /\ CallTypeOK /\ TablesTypeOK /\ EtcdTypeOK /\ SessionsOK
      /\ InstanceOf \in [Goroutine -> Instance]
      /\ None \notin Session
  BY Types
<1>1. ASSUME NEW g \in Goroutine, NEW op, NewSession(g, op)
      PROVE  Backed'
  <2>1. PICK s \in Unused(InstanceOf[g]) :
          /\ lease' = [lease EXCEPT ![s] = "kept"]
          /\ \A h \in Goroutine : h # g => call'[h] = call[h]
          /\ call'[g].pc = "acquire"
    BY <1>0, <1>1, NewSessionFrame
  <2>2. held' = held /\ UNCHANGED <<keys, ahead>>
    BY <1>1 DEF NewSession
  <2>3. \A h \in Goroutine : ~Got(h, s)
    BY <2>1 DEF Unused, Got
  <2>4. \A h \in Goroutine, t \in Session : Got(h, t)' => Got(h, t)
    BY <2>1, <2>2 DEF Got
  <2>5. GotKept
    BY <1>0, <2>1, <2>3, <2>4 DEF GotKept, EtcdTypeOK
  <2>. QED
    BY <2>2, <2>5, BackedSame
<1>2. ASSUME NEW g \in Goroutine, NEW pc, pc \notin {"store mutex", "store session"},
             Goto(g, pc), held' = held
      PROVE  \A h \in Goroutine, t \in Session : Got(h, t)' => Got(h, t)
  <2>1. /\ \A h \in Goroutine : call'[h].session = call[h].session
        /\ \A h \in Goroutine : call'[h].pc = IF h = g THEN pc ELSE call[h].pc
    BY <1>0, <1>2, GotoFrame
  <2>. QED
    BY <1>2, <2>1 DEF Got
<1>3. ASSUME NEW g \in Goroutine, Return(g), held' = held
      PROVE  \A h \in Goroutine, t \in Session : Got(h, t)' => Got(h, t)
  BY <1>0, <1>3, ReturnFrame DEF Got
<1>4. ASSUME NEW g \in Goroutine, At(g, "acquire"), CreateKey(call[g].session),
             NEW pc, Goto(g, pc), pc = "store mutex" => keys = {},
             pc # "store session",
             UNCHANGED <<lease, held>>
      PROVE  Backed'
  <2>1. call[g].session \in Session
    BY <1>0, <1>4 DEF SessionsOK, Working, At
  <2>2. held[g] = None
    BY <1>4 DEF CallsOK, At
  <2>3. ASSUME NEW h \in Goroutine, NEW t \in Session, Got(h, t)', lease'[t] # "none"
        PROVE  t \in keys' /\ ahead'[t] = {}
    <3>1. CASE h = g
      <4>1. call'[g].pc = pc /\ call'[g].session = call[g].session
        BY <1>0, <1>4, GotoFrame
      <4>2. t = call[g].session /\ keys = {}
        BY <1>0, <1>4, <2>2, <2>3, <3>1, <4>1 DEF Got
      <4>. QED
        BY <1>0, <1>4, <2>1, <4>2 DEF CreateKey, EtcdTypeOK
    <3>2. CASE h # g
      <4>1. Got(h, t)
        BY <1>0, <1>4, <2>3, <3>2, GotoFrame DEF Got
      <4>2. t \in keys /\ ahead[t] = {}
        BY <1>4, <2>3, <4>1 DEF Backed
      <4>3. t # call[g].session
        BY <3>2, <4>1, OthersSession
      <4>. QED
        BY <1>0, <1>4, <4>2, <4>3 DEF CreateKey, EtcdTypeOK
    <3>. QED
      BY <3>1, <3>2
  <2>. QED
    BY <2>3 DEF Backed
<1>5. ASSUME NEW g \in Goroutine, Acquire(g)
      PROVE  Backed'
  <2>1. \E pc : /\ pc = "store mutex" => keys = {}
                /\ pc # "store session"
                /\ Goto(g, pc)
    BY <1>5 DEF Acquire
  <2>. QED
    BY <1>4, <1>5, <2>1 DEF Acquire
<1>6. ASSUME NEW g \in Goroutine, AcquireTimedOut(g)
      PROVE  Backed'
  <2>1. Goto(g, "close") /\ UNCHANGED <<lease, held>> /\ At(g, "acquire")
    BY <1>6 DEF AcquireTimedOut
  <2>2. CASE CreateKey(call[g].session)
    BY <1>4, <2>1, <2>2
  <2>3. CASE UNCHANGED <<keys, ahead>>
    BY <1>2, <2>1, <2>3, BackedSame DEF GotKept
  <2>. QED
    BY <1>6, <2>2, <2>3 DEF AcquireTimedOut
<1>7. ASSUME NEW g \in Goroutine, Awaited(g)
      PROVE  Backed'
  <2>1. CASE call[g].session \in keys
    <3>1. /\ Goto(g, "store mutex") /\ held' = held /\ UNCHANGED etcdVars
          /\ ahead[call[g].session] = {} /\ held[g] = None
      BY <1>7, <2>1 DEF Awaited, CallsOK, At
    <3>2. \A h \in Goroutine, t \in Session :
            Got(h, t)' => Got(h, t) \/ t = call[g].session
      BY <1>0, <3>1, GotoFrame DEF Got
    <3>. QED
      BY <2>1, <3>1, <3>2 DEF Backed, etcdVars
  <2>2. CASE call[g].session \notin keys
    <3>1. Goto(g, "close") /\ held' = held /\ UNCHANGED etcdVars
      BY <1>7, <2>2 DEF Awaited
    <3>2. GotKept
      BY <1>2, <3>1 DEF GotKept, etcdVars
    <3>. QED
      BY <3>1, <3>2, BackedSame DEF etcdVars
  <2>. QED
    BY <2>1, <2>2
<1>8. ASSUME NEW g \in Goroutine, Cancel(g)
      PROVE  Backed'
  <2>1. /\ Goto(g, "close") /\ UNCHANGED <<lease, held>>
        /\ At(g, "wait") /\ held[g] = None
    BY <1>8 DEF Cancel, CallsOK, At
  <2>2. \A h \in Goroutine, t \in Session : Got(h, t)' => Got(h, t)
    BY <1>2, <2>1
  <2>3. CASE DeleteKeys({call[g].session})
    <3>1. ~Got(g, call[g].session) \/ call[g].session \notin Session
      BY <1>0, <2>1 DEF Got, At
    <3>2. \A h \in Goroutine, t \in Session : Got(h, t) => t # call[g].session
      BY <3>1, OthersSession
    <3>. QED
      BY <2>1, <2>2, <2>3, <3>2, BackedDelete DEF GotKept
  <2>4. CASE UNCHANGED <<keys, ahead>>
    BY <2>1, <2>2, <2>4, BackedSame DEF GotKept
  <2>. QED
    BY <1>8, <2>3, <2>4 DEF Cancel
<1>9. ASSUME NEW g \in Goroutine, StoreMutex(g)
      PROVE  Backed'
  <2>1. Goto(g, "store session") /\ held' = held /\ UNCHANGED etcdVars
    BY <1>9 DEF StoreMutex
  <2>2. \A h \in Goroutine, t \in Session : Got(h, t)' => Got(h, t)
    BY <1>0, <1>9, <2>1, GotoFrame DEF Got, StoreMutex, At
  <2>. QED
    BY <2>1, <2>2, BackedSame DEF GotKept, etcdVars
<1>10. ASSUME NEW g \in Goroutine, StoreSession(g)
       PROVE  Backed'
  <2>1. Return(g) /\ UNCHANGED etcdVars /\ call[g].pc = "store session"
    BY <1>10 DEF StoreSession, At
  <2>2. \A h \in Goroutine : held'[h] = IF h = g THEN call[g].session ELSE held[h]
    BY <1>0, <1>10 DEF StoreSession, TablesTypeOK
  <2>3. \A h \in Goroutine, t \in Session : Got(h, t)' => Got(h, t)
    BY <1>0, <2>1, <2>2, ReturnFrame DEF Got
  <2>. QED
    BY <2>1, <2>3, BackedSame DEF GotKept, etcdVars
<1>11. ASSUME NEW g \in Goroutine, BeginUnlock(g)
       PROVE  Backed'
  <2>1. \A h \in Goroutine : held'[h] = IF h = g THEN None ELSE held[h]
    BY <1>0, <1>11 DEF BeginUnlock, TablesTypeOK
  <2>2. \A h \in Goroutine :
          IF h = g THEN call'[h].pc = "load mutex" ELSE call'[h] = call[h]
    BY <1>0, <1>11 DEF BeginUnlock, CallTypeOK, Ready
  <2>3. \A h \in Goroutine, t \in Session : Got(h, t)' => Got(h, t)
    BY <1>0, <2>1, <2>2 DEF Got
  <2>. QED
    BY <1>11, <2>3, BackedSame DEF GotKept, BeginUnlock, etcdVars
<1>12. ASSUME NEW g \in Goroutine, LoadMutex(g) \/ LoadSession(g)
       PROVE  Backed'
  <2>1. held' = held /\ UNCHANGED etcdVars
    BY <1>12 DEF LoadMutex, LoadSession
  <2>2. \A h \in Goroutine, t \in Session : Got(h, t)' => Got(h, t)
    BY <1>0, <1>12, <2>1, LoadFrame DEF Got
  <2>. QED
    BY <2>1, <2>2, BackedSame DEF GotKept, etcdVars
<1>13. ASSUME NEW g \in Goroutine, UnlockMutex(g) \/ UnlockTimedOut(g)
       PROVE  Backed'
  <2>1. /\ UNCHANGED <<lease, held>> /\ At(g, "unlock") /\ held[g] = None
        /\ Return(g) \/ Goto(g, "delete mutex")
    BY <1>13 DEF UnlockMutex, UnlockTimedOut, CallsOK, At
  <2>2. \A h \in Goroutine, t \in Session : Got(h, t)' => Got(h, t)
    BY <1>2, <1>3, <2>1
  <2>3. \A h \in Goroutine, t \in Session : Got(h, t) => t # call[g].mutex
    <3>1. \A t \in Session : ~Got(g, t)
      BY <1>0, <2>1 DEF Got, At
    <3>. QED
      BY <3>1, OthersSession
  <2>4. CASE DeleteKeys({call[g].mutex})
    BY <2>1, <2>2, <2>3, <2>4, BackedDelete DEF GotKept
  <2>5. CASE UNCHANGED <<keys, ahead>>
    BY <2>1, <2>2, <2>5, BackedSame DEF GotKept
  <2>. QED
    BY <1>13, <2>4, <2>5 DEF UnlockMutex, UnlockTimedOut
<1>14. ASSUME NEW g \in Goroutine,
              \/ AcquireFails(g) \/ DeleteMutex(g) \/ DeleteSession(g)
       PROVE  Backed'
  <2>1. /\ held' = held /\ UNCHANGED etcdVars
        /\ \E pc : pc \notin {"store mutex", "store session"} /\ Goto(g, pc)
    BY <1>14 DEF AcquireFails, DeleteMutex, DeleteSession
  <2>. QED
    BY <1>2, <2>1, BackedSame DEF GotKept, etcdVars
<1>15. ASSUME NEW g \in Goroutine, CloseSession(g)
       PROVE  Backed'
  <2>1. /\ Return(g) /\ held' = held /\ DeleteKeys({call[g].session})
        /\ lease' = [t \in Session |-> IF t \in {call[g].session} THEN "none" ELSE lease[t]]
    BY <1>15 DEF CloseSession, EndLeases
  <2>. QED
    BY <1>3, <2>1, BackedDelete DEF GotKept
<1>16. ASSUME NEW g \in Goroutine, CloseTimedOut(g)
       PROVE  Backed'
  BY <1>3, <1>16, BackedSame DEF CloseTimedOut, Leave, GotKept
<1>17. ASSUME NEW s \in Session, Partition(s)
       PROVE  Backed'
  BY <1>17, BackedSame DEF Partition, Leave, GotKept, Got
<1>18. ASSUME NEW s \in Session, Expire(s)
       PROVE  Backed'
  BY <1>18, BackedDelete DEF Expire, EndLeases, GotKept, Got
<1>19. ASSUME NEW i \in Instance, Reset(i)
       PROVE  \A h \in Goroutine, t \in Session : Got(h, t)' => Got(h, t)
  BY <1>0, <1>19, ResetFrame DEF Got
<1>20. ASSUME NEW i \in Instance, Crash(i)
       PROVE  Backed'
  BY <1>19, <1>20, BackedSame DEF Crash, Leave, GotKept
<1>21. ASSUME NEW i \in Instance, Close(i)
       PROVE  Backed'
  BY <1>19, <1>21, BackedDelete DEF Close, GotKept
<1>22. CASE UNCHANGED vars
  BY <1>22 DEF vars, etcdVars, Backed, Got
<1>. QED
  BY <1>1, <1>5, <1>6, <1>7, <1>8, <1>9, <1>10, <1>11, <1>12, <1>13, <1>14, <1>15,
     <1>16, <1>17, <1>18, <1>20, <1>21, <1>22
     DEF Next, Step, BeginTryLock, BeginLock
-----------------------------------------------------------------------------
(* With one caller per process nobody else writes the tables.               *)
LEMMA TablesKept ==
  ASSUME TablesHave,
         \A g \in Goroutine :
           /\ held'[g] # None \/ call'[g].pc = "store session" =>
                /\ mutexes'[InstanceOf[g]] = mutexes[InstanceOf[g]]
                /\ sessions'[InstanceOf[g]] = sessions[InstanceOf[g]]
           /\ held'[g] # None => held'[g] = held[g]
           /\ call'[g].pc = "store session" =>
                /\ call[g].pc = "store session"
                /\ call'[g].session = call[g].session
  PROVE  TablesHave'
BY DEF TablesHave, At

LEMMA TablesNext ==
  ASSUME OneCallerPerInstance, TypeInv, CallsOK, TablesHave, [Next]_vars
  PROVE  TablesHave'
<1>0. /\ CallTypeOK /\ TablesTypeOK
      /\ InstanceOf \in [Goroutine -> Instance]
  BY Types
<1>1. ASSUME NEW g \in Goroutine, NEW op, NewSession(g, op)
      PROVE  TablesHave'
  <2>1. /\ \A h \in Goroutine : h # g => call'[h] = call[h]
        /\ call'[g].pc = "acquire"
    BY <1>0, <1>1, NewSessionFrame
  <2>. QED
    BY <1>1, <2>1, TablesKept DEF NewSession, tableVars
<1>2. ASSUME NEW g \in Goroutine, NEW pc, pc # "store session", Goto(g, pc),
             UNCHANGED <<tableVars, held>>
      PROVE  TablesHave'
  BY <1>0, <1>2, GotoFrame, TablesKept DEF tableVars
<1>3. ASSUME NEW g \in Goroutine, Return(g), UNCHANGED <<tableVars, held>>
      PROVE  TablesHave'
  BY <1>0, <1>3, ReturnFrame, TablesKept DEF tableVars
<1>4. ASSUME NEW g \in Goroutine,
             \/ Acquire(g) \/ AcquireFails(g) \/ Awaited(g) \/ Cancel(g)
             \/ UnlockMutex(g) \/ CloseSession(g)
             \/ AcquireTimedOut(g) \/ UnlockTimedOut(g) \/ CloseTimedOut(g)
      PROVE  TablesHave'
  <2>1. /\ UNCHANGED <<tableVars, held>>
        /\ Return(g) \/ \E pc : pc # "store session" /\ Goto(g, pc)
    BY <1>4
       DEF Acquire, AcquireFails, Awaited, Cancel, UnlockMutex, CloseSession,
           AcquireTimedOut, UnlockTimedOut, CloseTimedOut
  <2>. QED
    BY <1>2, <1>3, <2>1
<1>5. ASSUME NEW g \in Goroutine, StoreMutex(g)
      PROVE  TablesHave'
  <2>1. /\ Goto(g, "store session") /\ UNCHANGED <<sessions, held>>
        /\ held[g] = None
    BY <1>5 DEF StoreMutex, CallsOK, At
  <2>2. \A h \in Goroutine :
          mutexes'[InstanceOf[h]] = IF h = g THEN call[g].session
                                    ELSE mutexes[InstanceOf[h]]
    BY <1>0, <1>5 DEF StoreMutex, TablesTypeOK, OneCallerPerInstance
  <2>. QED
    <3>1. \A h \in Goroutine :
            /\ call'[h].session = call[h].session
            /\ call'[h].pc = IF h = g THEN "store session" ELSE call[h].pc
      BY <1>0, <2>1, GotoFrame
    <3>2. ASSUME NEW h \in Goroutine, h # g
          PROVE  /\ held'[h] # None => /\ mutexes'[InstanceOf[h]] = held'[h]
                                       /\ sessions'[InstanceOf[h]] = held'[h]
                 /\ call'[h].pc = "store session" =>
                      mutexes'[InstanceOf[h]] = call'[h].session
      BY <2>1, <2>2, <3>1, <3>2 DEF TablesHave, At
    <3>3. /\ held'[g] = None
          /\ mutexes'[InstanceOf[g]] = call'[g].session
      BY <2>1, <2>2, <3>1
    <3>. QED
      BY <3>2, <3>3 DEF TablesHave, At
<1>6. ASSUME NEW g \in Goroutine, StoreSession(g)
      PROVE  TablesHave'
  <2>1. Return(g) /\ mutexes' = mutexes /\ call[g].pc = "store session"
    BY <1>6 DEF StoreSession, At
  <2>2. \A h \in Goroutine :
          sessions'[InstanceOf[h]] = IF h = g THEN call[g].session
                                     ELSE sessions[InstanceOf[h]]
    BY <1>0, <1>6 DEF StoreSession, TablesTypeOK, OneCallerPerInstance
  <2>3. \A h \in Goroutine : held'[h] = IF h = g THEN call[g].session ELSE held[h]
    BY <1>0, <1>6 DEF StoreSession, TablesTypeOK
  <2>. QED
    <3>1. /\ call'[g].pc = "ready"
          /\ \A h \in Goroutine : h # g => call'[h] = call[h]
      BY <1>0, <2>1, ReturnFrame
    <3>2. ASSUME NEW h \in Goroutine, h # g
          PROVE  /\ held'[h] # None => /\ mutexes'[InstanceOf[h]] = held'[h]
                                       /\ sessions'[InstanceOf[h]] = held'[h]
                 /\ call'[h].pc = "store session" =>
                      mutexes'[InstanceOf[h]] = call'[h].session
      BY <2>1, <2>2, <2>3, <3>1, <3>2 DEF TablesHave, At
    <3>3. /\ mutexes'[InstanceOf[g]] = held'[g]
          /\ sessions'[InstanceOf[g]] = held'[g]
      BY <2>1, <2>2, <2>3 DEF TablesHave, At
    <3>. QED
      BY <3>1, <3>2, <3>3 DEF TablesHave, At
<1>7. ASSUME NEW g \in Goroutine, BeginUnlock(g)
      PROVE  TablesHave'
  <2>1. \A h \in Goroutine : held'[h] = IF h = g THEN None ELSE held[h]
    BY <1>0, <1>7 DEF BeginUnlock, TablesTypeOK
  <2>2. \A h \in Goroutine :
          IF h = g THEN call'[h].pc = "load mutex" ELSE call'[h] = call[h]
    BY <1>0, <1>7 DEF BeginUnlock, CallTypeOK, Ready
  <2>. QED
    BY <1>7, <2>1, <2>2, TablesKept DEF BeginUnlock, tableVars
<1>8. ASSUME NEW g \in Goroutine, LoadMutex(g) \/ LoadSession(g)
      PROVE  TablesHave'
  <2>1. UNCHANGED <<mutexes, sessions, held>>
    BY <1>8 DEF LoadMutex, LoadSession, tableVars
  <2>. QED
    BY <1>0, <1>8, <2>1, LoadFrame, TablesKept
<1>9. ASSUME NEW g \in Goroutine, DeleteMutex(g) \/ DeleteSession(g)
      PROVE  TablesHave'
  <2>1. /\ held' = held /\ held[g] = None
        /\ Goto(g, "delete session") \/ Goto(g, "close")
    BY <1>9 DEF DeleteMutex, DeleteSession, CallsOK, At
  <2>2. \A h \in Goroutine \ {g} :
          /\ mutexes'[InstanceOf[h]] = mutexes[InstanceOf[h]]
          /\ sessions'[InstanceOf[h]] = sessions[InstanceOf[h]]
    BY <1>0, <1>9 DEF DeleteMutex, DeleteSession, TablesTypeOK, OneCallerPerInstance
  <2>. QED
    <3>1. \A h \in Goroutine :
            /\ call'[h].session = call[h].session
            /\ h # g => call'[h].pc = call[h].pc
      BY <1>0, <2>1, GotoFrame
    <3>2. call'[g].pc \in {"delete session", "close"}
      <4>1. Goto(g, "delete session") => call'[g].pc = "delete session"
        BY <1>0, GotoFrame
      <4>2. Goto(g, "close") => call'[g].pc = "close"
        BY <1>0, GotoFrame
      <4>. QED
        BY <2>1, <4>1, <4>2
    <3>3. ASSUME NEW h \in Goroutine
          PROVE  /\ held'[h] # None => h # g /\ held'[h] = held[h]
                 /\ call'[h].pc = "store session" =>
                      /\ h # g
                      /\ call[h].pc = "store session"
                      /\ call'[h].session = call[h].session
      BY <2>1, <3>1, <3>2
    <3>. QED
      BY <2>2, <3>3, TablesKept
<1>10. ASSUME NEW i \in Instance, Crash(i) \/ Close(i)
       PROVE  TablesHave'
  <2>1. Reset(i)
    BY <1>10 DEF Crash, Close
  <2>2. \A h \in Goroutine : InstanceOf[h] # i =>
          /\ mutexes'[InstanceOf[h]] = mutexes[InstanceOf[h]]
          /\ sessions'[InstanceOf[h]] = sessions[InstanceOf[h]]
    BY <1>0, <2>1 DEF Reset, TablesTypeOK
  <2>. QED
    BY <2>1, <2>2, ResetFrame, TablesKept
<1>11. CASE UNCHANGED <<call, held, tableVars>>
  BY <1>11, TablesKept DEF tableVars
<1>12. ASSUME NEW s \in Session, Partition(s) \/ Expire(s)
       PROVE  TablesHave'
  BY <1>11, <1>12 DEF Partition, Expire
<1>. QED
  BY <1>1, <1>4, <1>5, <1>6, <1>7, <1>8, <1>9, <1>10, <1>11, <1>12
     DEF Next, Step, BeginTryLock, BeginLock, vars

-----------------------------------------------------------------------------
LEMMA LockInvariant ==
  ASSUME OneCallerPerInstance
  PROVE  Spec => []LockInv
<1>1. Init => LockInv
  <2>. SUFFICES ASSUME Init PROVE LockInv
    OBVIOUS
  <2>1. OwnOK
    BY MutexAssumption DEF Init, OwnOK, Ready
  <2>2. CallsOK /\ Ordered
    BY DEF Init, CallsOK, Ordered, Ready, At
  <2>3. Backed /\ TablesHave
    BY MutexAssumption DEF Init, Backed, TablesHave, Got, Ready, At
  <2>. QED
    BY <2>1, <2>2, <2>3 DEF LockInv
<1>2. TypeInv /\ LockInv /\ [Next]_vars => LockInv'
  BY OwnNext, CallsNext, OrderedNext, BackedNext, TablesNext DEF LockInv
<1>. QED
  BY <1>1, <1>2, TypeInvariant, PTL DEF Spec

(* At most one goroutine has the lock while its lease lasts, whatever is    *)
(* lost, whoever crashes or is cut off, with one caller per process.        *)
THEOREM MutexesExclude ==
  ASSUME OneCallerPerInstance
  PROVE  Spec => []MutualExclusion
<1>1. TypeInv /\ LockInv => MutualExclusion
  <2>. SUFFICES ASSUME TypeInv, LockInv,
                       NEW g \in Goroutine, NEW h \in Goroutine, Owns(g), Owns(h)
                PROVE  g = h
    BY DEF MutualExclusion
  <2>1. held[g] \in Session /\ held[h] \in Session
    BY Types DEF Owns, TablesTypeOK, MaybeSession
  <2>2. Got(g, held[g]) /\ Got(h, held[h])
    BY DEF Got
  <2>3. /\ held[g] \in keys /\ ahead[held[g]] = {}
        /\ held[h] \in keys /\ ahead[held[h]] = {}
    BY <2>1, <2>2 DEF LockInv, Backed, Owns
  <2>4. held[g] = held[h]
    BY <2>3 DEF LockInv, Ordered
  <2>. QED
    BY <2>1, <2>2, <2>4, OthersSession DEF LockInv
<1>. QED
  BY <1>1, LockInvariant, TypeInvariant, PTL

(* The owner finds its mutex and its session in the tables, with one caller *)
(* per process.                                                             *)
THEOREM HoldersCanUnlock ==
  ASSUME OneCallerPerInstance
  PROVE  Spec => []HolderCanUnlock
<1>1. LockInv => HolderCanUnlock
  BY DEF LockInv, TablesHave, HolderCanUnlock, Owns
<1>. QED
  BY <1>1, LockInvariant, PTL
================================================================================
