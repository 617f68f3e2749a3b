----------------------------- MODULE EtcdMutexLock -----------------------------
(***************************************************************************)
(* EtcdMutexLock: a lock object that keeps a concurrency.Mutex and a       *)
(* concurrency.Session of the etcd client per key, in two tables.  Every   *)
(* call of TryLock and Lock makes a new session with a new mutex, whose    *)
(* key in etcd waits for the keys created before it; the session keeps its *)
(* lease alive until it is closed.  One user key is modelled.              *)
(***************************************************************************)
CONSTANTS
  Goroutine,   \* callers of the lock objects
  Instance,    \* lock objects, each in a process of its own
  InstanceOf,  \* the lock object that a goroutine calls
  Session,     \* names for the sessions that exist at a time
  CreatorOf,   \* the lock object that creates a session of a name
  None,        \* no entry in a table
  Faults       \* what can go wrong, see FaultKinds

(* "timeout":   a request or its reply is lost;                             *)
(* "crash":     a process stops and starts again with empty tables;         *)
(* "partition": the keep-alives of a session no longer reach etcd.          *)
FaultKinds == {"timeout", "crash", "partition"}

ASSUME MutexAssumption ==
  /\ InstanceOf \in [Goroutine -> Instance]
  /\ CreatorOf \in [Session -> Instance]
  /\ None \notin Session
  /\ Faults \subseteq FaultKinds

VARIABLES
  keys,      \* the sessions that have a key in etcd
  ahead,     \* of these, the ones created before the key of a session
  lease,     \* leases in etcd: kept alive, left to expire, or none
  mutexes,   \* the sync.Map of mutexes of each lock object
  sessions,  \* the sync.Map of sessions of each lock object
  unlocked,  \* mutexes that had a successful Unlock
  call,      \* the call that a goroutine is in
  held       \* history: the session with which a goroutine got the lock

etcdVars == <<keys, ahead, lease>>
tableVars == <<mutexes, sessions>>
vars == <<etcdVars, tableVars, unlocked, call, held>>

MaybeSession == Session \cup {None}

Call == [pc      : {"ready", "acquire", "wait", "store mutex", "store session",
                    "load mutex", "load session", "unlock", "delete mutex",
                    "delete session", "close"},
         op      : {"none", "trylock", "lock", "unlock"},
         session : MaybeSession,
         mutex   : MaybeSession]

Ready == [pc |-> "ready", op |-> "none", session |-> None, mutex |-> None]

Init ==
  /\ keys = {}
  /\ ahead = [s \in Session |-> {}]
  /\ lease = [s \in Session |-> "none"]
  /\ mutexes = [i \in Instance |-> None]
  /\ sessions = [i \in Instance |-> None]
  /\ unlocked = {}
  /\ call = [g \in Goroutine |-> Ready]
  /\ held = [g \in Goroutine |-> None]

-----------------------------------------------------------------------------
(* What etcd does with keys and leases.                                     *)

CreateKey(s) ==
  /\ keys' = keys \cup {s}
  /\ ahead' = [ahead EXCEPT ![s] = keys \ {s}]

DeleteKeys(S) ==
  /\ keys' = keys \ S
  /\ ahead' = [s \in Session |-> ahead[s] \ S]

(* A lease that ends takes its key along.                                   *)
EndLeases(S) ==
  /\ DeleteKeys(S)
  /\ lease' = [s \in Session |-> IF s \in S THEN "none" ELSE lease[s]]

At(g, pc) == call[g].pc = pc

Goto(g, pc) == call' = [call EXCEPT ![g].pc = pc]

Return(g) == call' = [call EXCEPT ![g] = Ready]

-----------------------------------------------------------------------------
(* TryLock and Lock.                                                        *)

(* The name of a session is used again when nothing has it any more; a      *)
(* session has one mutex, which goes by the same name.                      *)
Unused(i) ==
  {s \in Session :
     /\ CreatorOf[s] = i
     /\ lease[s] = "none"
     /\ \A j \in Instance : mutexes[j] # s /\ sessions[j] # s
     /\ \A g \in Goroutine : s \notin {call[g].session, call[g].mutex, held[g]}}

NewSession(g, op) ==
  /\ At(g, "ready")
  /\ held[g] = None
  /\ Unused(InstanceOf[g]) # {}
  /\ LET s == CHOOSE t \in Unused(InstanceOf[g]) : TRUE IN
       /\ lease' = [lease EXCEPT ![s] = "kept"]
       /\ unlocked' = unlocked \ {s}
       /\ call' = [call EXCEPT ![g] = [Ready EXCEPT !.pc = "acquire", !.op = op,
                                                    !.session = s]]
  /\ UNCHANGED <<keys, ahead, tableVars, held>>

BeginTryLock(g) == NewSession(g, "trylock")

BeginLock(g) == NewSession(g, "lock")

(* Mutants of Acquire: the key does not hang on the lease of the session;   *)
(* TryLock takes no notice of the keys ahead; TryLock leaves its session    *)
(* open when there are some.                                                *)
AcquireWithoutLease(g) ==
  /\ At(g, "acquire")
  /\ CreateKey(call[g].session)
  /\ Goto(g, IF keys = {} THEN "store mutex"
             ELSE IF call[g].op = "lock" THEN "wait" ELSE "close")
  /\ UNCHANGED <<lease, tableVars, unlocked, held>>

AcquireAnyway(g) ==
  /\ At(g, "acquire")
  /\ lease[call[g].session] # "none"
  /\ CreateKey(call[g].session)
  /\ Goto(g, IF keys # {} /\ call[g].op = "lock" THEN "wait" ELSE "store mutex")
  /\ UNCHANGED <<lease, tableVars, unlocked, held>>

AcquireLeaving(g) ==
  /\ At(g, "acquire")
  /\ lease[call[g].session] # "none"
  /\ CreateKey(call[g].session)
  /\ IF keys # {} /\ call[g].op = "trylock"
     THEN Return(g)
     ELSE Goto(g, IF keys = {} THEN "store mutex" ELSE "wait")
  /\ UNCHANGED <<lease, tableVars, unlocked, held>>

(* The key is created, and the lock acquired if no key is ahead.  If one    *)
(* is, Lock waits, and TryLock fails; the key it deletes then is deleted    *)
(* by closing its session, the next step, in any case.                      *)
Acquire(g) ==
  /\ At(g, "acquire")
  /\ lease[call[g].session] # "none"
  /\ CreateKey(call[g].session)
  /\ Goto(g, IF keys = {} THEN "store mutex"
             ELSE IF call[g].op = "lock" THEN "wait" ELSE "close")
  /\ UNCHANGED <<lease, tableVars, unlocked, held>>

(* etcd refuses a key whose lease is gone.                                  *)
AcquireFails(g) ==
  /\ At(g, "acquire")
  /\ lease[call[g].session] = "none"
  /\ Goto(g, "close")
  /\ UNCHANGED <<etcdVars, tableVars, unlocked, held>>

(* The keys ahead are gone; Mutex.Lock looks whether its own still exists.  *)
Awaited(g) ==
  /\ At(g, "wait")
  /\ ahead[call[g].session] = {}
  /\ Goto(g, IF call[g].session \in keys THEN "store mutex" ELSE "close")
  /\ UNCHANGED <<etcdVars, tableVars, unlocked, held>>

(* The context ends: Mutex.Lock deletes its key, or fails to and leaves it  *)
(* to the lease.                                                            *)
Cancel(g) ==
  /\ At(g, "wait")
  /\ \/ DeleteKeys({call[g].session})
     \/ "timeout" \in Faults /\ UNCHANGED <<keys, ahead>>
  /\ Goto(g, "close")
  /\ UNCHANGED <<lease, tableVars, unlocked, held>>

StoreMutex(g) ==
  /\ At(g, "store mutex")
  /\ mutexes' = [mutexes EXCEPT ![InstanceOf[g]] = call[g].session]
  /\ Goto(g, "store session")
  /\ UNCHANGED <<etcdVars, sessions, unlocked, held>>

(* Mutant of StoreSession: only the mutex is stored.                        *)
StoreNoSession(g) ==
  /\ At(g, "store session")
  /\ held' = [held EXCEPT ![g] = call[g].session]
  /\ Return(g)
  /\ UNCHANGED <<etcdVars, tableVars, unlocked>>

StoreSession(g) ==
  /\ At(g, "store session")
  /\ sessions' = [sessions EXCEPT ![InstanceOf[g]] = call[g].session]
  /\ held' = [held EXCEPT ![g] = call[g].session]
  /\ Return(g)
  /\ UNCHANGED <<etcdVars, mutexes, unlocked>>

-----------------------------------------------------------------------------
(* Unlock: it works with what it finds in the tables.                       *)

BeginUnlock(g) ==
  /\ At(g, "ready")
  /\ held[g] # None
  /\ held' = [held EXCEPT ![g] = None]
  /\ call' = [call EXCEPT ![g] = [Ready EXCEPT !.pc = "load mutex",
                                              !.op = "unlock"]]
  /\ UNCHANGED <<etcdVars, tableVars, unlocked>>

LoadMutex(g) ==
  /\ At(g, "load mutex")
  /\ LET m == mutexes[InstanceOf[g]] IN
       IF m = None
       THEN Return(g)
       ELSE call' = [call EXCEPT ![g].pc = "load session", ![g].mutex = m]
  /\ UNCHANGED <<etcdVars, tableVars, unlocked, held>>

LoadSession(g) ==
  /\ At(g, "load session")
  /\ LET s == sessions[InstanceOf[g]] IN
       IF s = None
       THEN Return(g)
       ELSE call' = [call EXCEPT ![g].pc = "unlock", ![g].session = s]
  /\ UNCHANGED <<etcdVars, tableVars, unlocked, held>>

(* Mutex.Unlock deletes the key of the mutex, once.                         *)
UnlockMutex(g) ==
  /\ At(g, "unlock")
  /\ IF call[g].mutex \in unlocked
     THEN /\ Return(g)
          /\ UNCHANGED <<keys, ahead, unlocked>>
     ELSE /\ DeleteKeys({call[g].mutex})
          /\ unlocked' = unlocked \cup {call[g].mutex}
          /\ Goto(g, "delete mutex")
  /\ UNCHANGED <<lease, tableVars, held>>

DeleteMutex(g) ==
  /\ At(g, "delete mutex")
  /\ mutexes' = [mutexes EXCEPT ![InstanceOf[g]] = None]
  /\ Goto(g, "delete session")
  /\ UNCHANGED <<etcdVars, sessions, unlocked, held>>

DeleteSession(g) ==
  /\ At(g, "delete session")
  /\ sessions' = [sessions EXCEPT ![InstanceOf[g]] = None]
  /\ Goto(g, "close")
  /\ UNCHANGED <<etcdVars, mutexes, unlocked, held>>

(* Session.Close, also of a call of TryLock or Lock that failed: the        *)
(* keep-alives stop and the lease is revoked.                               *)
CloseSession(g) ==
  /\ At(g, "close")
  /\ EndLeases({call[g].session})
  /\ Return(g)
  /\ UNCHANGED <<tableVars, unlocked, held>>

-----------------------------------------------------------------------------
(* Timeouts: the request had its effect or not, and the call fails.         *)

Leave(S) ==
  lease' = [s \in Session |-> IF s \in S /\ lease[s] = "kept" THEN "left"
                             ELSE lease[s]]

AcquireTimedOut(g) ==
  /\ "timeout" \in Faults
  /\ At(g, "acquire")
  /\ \/ lease[call[g].session] # "none" /\ CreateKey(call[g].session)
     \/ UNCHANGED <<keys, ahead>>
  /\ Goto(g, "close")
  /\ UNCHANGED <<lease, tableVars, unlocked, held>>

UnlockTimedOut(g) ==
  /\ "timeout" \in Faults
  /\ At(g, "unlock")
  /\ call[g].mutex \notin unlocked
  /\ DeleteKeys({call[g].mutex}) \/ UNCHANGED <<keys, ahead>>
  /\ Return(g)
  /\ UNCHANGED <<lease, tableVars, unlocked, held>>

CloseTimedOut(g) ==
  /\ "timeout" \in Faults
  /\ At(g, "close")
  /\ Leave({call[g].session})
  /\ Return(g)
  /\ UNCHANGED <<keys, ahead, tableVars, unlocked, held>>

-----------------------------------------------------------------------------
(* Leases that nobody keeps alive, crashes, and the end of a lock object.   *)

Partition(s) ==
  /\ "partition" \in Faults
  /\ lease[s] = "kept"
  /\ Leave({s})
  /\ UNCHANGED <<keys, ahead, tableVars, unlocked, call, held>>

Expire(s) ==
  /\ lease[s] = "left"
  /\ EndLeases({s})
  /\ UNCHANGED <<tableVars, unlocked, call, held>>

(* The goroutines and the tables of a lock object are gone.                 *)
Reset(i) ==
  /\ mutexes' = [mutexes EXCEPT ![i] = None]
  /\ sessions' = [sessions EXCEPT ![i] = None]
  /\ call' = [g \in Goroutine |-> IF InstanceOf[g] = i THEN Ready ELSE call[g]]
  /\ held' = [g \in Goroutine |-> IF InstanceOf[g] = i THEN None ELSE held[g]]

Crash(i) ==
  /\ "crash" \in Faults
  /\ Leave({s \in Session : CreatorOf[s] = i})
  /\ Reset(i)
  /\ UNCHANGED <<keys, ahead, unlocked>>

(* Close, when no call is running: the session in the table is closed, the  *)
(* keep-alives of other ones end with the client.                           *)
Close(i) ==
  /\ \A g \in Goroutine : InstanceOf[g] = i => At(g, "ready")
  /\ DeleteKeys({sessions[i]})
  /\ lease' = [s \in Session |->
                 IF s = sessions[i] THEN "none"
                 ELSE IF CreatorOf[s] = i /\ lease[s] = "kept" THEN "left" ELSE lease[s]]
  /\ Reset(i)
  /\ UNCHANGED unlocked

-----------------------------------------------------------------------------
(* What a call does between its start and its end when nothing fails.       *)
Step(g) ==
  \/ Acquire(g) \/ AcquireFails(g) \/ Awaited(g)
  \/ StoreMutex(g) \/ StoreSession(g)
  \/ LoadMutex(g) \/ LoadSession(g) \/ UnlockMutex(g)
  \/ DeleteMutex(g) \/ DeleteSession(g) \/ CloseSession(g)

Next ==
  \/ \E g \in Goroutine :
       \/ BeginTryLock(g) \/ BeginLock(g) \/ BeginUnlock(g)
       \/ Step(g)
       \/ Cancel(g)
       \/ AcquireTimedOut(g) \/ UnlockTimedOut(g) \/ CloseTimedOut(g)
  \/ \E s \in Session : Partition(s) \/ Expire(s)
  \/ \E i \in Instance : Crash(i) \/ Close(i)

Spec == Init /\ [][Next]_vars

(* Goroutines are scheduled and requests answered, leases that are left     *)
(* alone expire, and whoever has the lock calls Unlock in the end.          *)
Fairness ==
  /\ \A g \in Goroutine : WF_vars(Step(g)) /\ WF_vars(BeginUnlock(g))
  /\ \A s \in Session : WF_vars(Expire(s))

FairSpec == Spec /\ Fairness

-----------------------------------------------------------------------------
(* Every variable has its type, a key hangs on a lease, and the keys ahead  *)
(* of another are keys.                                                     *)
TypeOK ==
  /\ keys \subseteq Session
  /\ ahead \in [Session -> SUBSET keys]
  /\ lease \in [Session -> {"kept", "left", "none"}]
  /\ mutexes \in [Instance -> MaybeSession]
  /\ sessions \in [Instance -> MaybeSession]
  /\ unlocked \subseteq Session
  /\ call \in [Goroutine -> Call]
  /\ held \in [Goroutine -> MaybeSession]
  /\ \A s \in keys : lease[s] # "none"

(* The use of a key that the theorems are about: the goroutines of a process*)
(* that lock it take turns, as one caller.                                  *)
OneCallerPerInstance ==
  \A g, h \in Goroutine : InstanceOf[g] = InstanceOf[h] => g = h

(* A goroutine that got the lock and whose lease has not ended.             *)
Owns(g) == held[g] # None /\ lease[held[g]] # "none"

(* At most one goroutine has the lock while its lease lasts, whatever is    *)
(* lost, whoever crashes or is cut off: no Unlock and no closed session of  *)
(* another caller takes the key of the owner away.                          *)
MutualExclusion == \A g, h \in Goroutine : Owns(g) /\ Owns(h) => g = h

(* The owner can unlock: the tables of its lock object have its mutex and   *)
(* its session.  Nobody else can end this session, and it keeps itself      *)
(* alive: without its entries the lock is never free again.                 *)
HolderCanUnlock ==
  \A g \in Goroutine :
    Owns(g) => /\ mutexes[InstanceOf[g]] = held[g]
               /\ sessions[InstanceOf[g]] = held[g]

(* The session of an Unlock that failed: it stays in the tables and alive,  *)
(* and no goroutine will use it any more.                                   *)
Stuck(s) ==
  /\ s \in keys
  /\ \E i \in Instance : mutexes[i] = s
  /\ \A g \in Goroutine : /\ call[g].op # "unlock"
                          /\ s \notin {held[g], call[g].session}

(* A call of Lock does not wait for ever, unless it waits for the lock of   *)
(* an Unlock that failed; sessions of callers that crashed, gave up or were *)
(* refused are out of its way in the end.                                   *)
WaitersServed ==
  \A g \in Goroutine :
    At(g, "wait") ~> ~At(g, "wait") \/ \E s \in Session : Stuck(s)
=============================================================================
