---------------------------- MODULE EtcdSharedLock ----------------------------
(***************************************************************************)
(* EtcdSharedLock: a counter of the readers and a key for each of them.    *)
(* The transaction of TryLock writes the key of the reader and reads the   *)
(* counter, which a request of its own then writes; Unlock reads the       *)
(* counter before its transaction.  The key that marks the lock as shared  *)
(* is left out: nothing reads it.                                          *)
(***************************************************************************)
EXTENDS EtcdClient

CONSTANTS MaxCount  \* bound on the counter

ASSUME MaxCountAssumption == MaxCount \in Nat

VARIABLES
  count,       \* the counter; 0: there is no such key
  countLease,  \* its lease, if it has one
  holders,     \* the lease of the key of each reader
  sound        \* history: nothing has spoiled the counter

sharedVars == <<count, countLease, holders>>

SharedInit ==
  /\ count = 0
  /\ countLease = None
  /\ holders = [v \in Value |-> None]
  /\ sound = TRUE

(* Leases that keys hang on exist; there is no counter of 0.                *)
SharedTypeOK ==
  /\ count \in 0..MaxCount
  /\ countLease \in Lease \cup {None}
  /\ count = 0 => countLease = None
  /\ holders \in [Value -> Lease \cup {None}]
  /\ sound \in BOOLEAN

HolderKeys == {v \in Value : holders[v] # None}

Read(g, pc) ==
  /\ call' = [call EXCEPT ![g].pc = pc, ![g].count = count]
  /\ UNCHANGED held

Enter(g, locked) ==
  /\ At(g, "check") /\ In(g, "lock", "shared")
  /\ ~locked
  /\ HasLease(g)
  /\ count < MaxCount
  /\ holders' = [holders EXCEPT ![call[g].value] = call[g].lease]
  /\ Read(g, "put") \/ ReplyLost(g)
  /\ UNCHANGED <<tableVars, count, countLease>>

(* There is a writer, or the lease is gone and the transaction an error.    *)
EnterFails(g, locked) ==
  /\ At(g, "check") /\ In(g, "lock", "shared")
  /\ \/ locked /\ Refuse(g)
     \/ ~locked /\ ~HasLease(g) /\ Fail(g)
  /\ UNCHANGED <<tableVars, held, sharedVars>>

PutCount(g) ==
  /\ At(g, "put") /\ In(g, "lock", "shared")
  /\ HasLease(g)
  /\ count' = call[g].count + 1
  /\ countLease' = call[g].lease
  /\ Acquired(g) \/ ReplyLost(g)
  /\ UNCHANGED <<tableVars, holders>>

(* Unlock and Renew both look for the key of the reader first.              *)
FindHolder(g) ==
  /\ At(g, "find holder")
  /\ IF holders[call[g].value] = None
     THEN Fail(g)
     ELSE Goto(g, IF call[g].op = "unlock" THEN "read count" ELSE "load lease")
  /\ UNCHANGED <<tableVars, held, sharedVars>>

ReadCount(g) ==
  /\ At(g, "read count")
  /\ Read(g, "release")
  /\ UNCHANGED <<tableVars, sharedVars>>

(* Mutant of Leave: the last two readers are taken for the last one.        *)
LeaveEarly(g) ==
  /\ At(g, "release") /\ In(g, "unlock", "shared")
  /\ holders[call[g].value] # None
  /\ count' = IF call[g].count > 2 THEN call[g].count - 1 ELSE 0
  /\ countLease' = None
  /\ holders' = [v \in Value |-> IF v = call[g].value \/ call[g].count <= 2
                                 THEN None ELSE holders[v]]
  /\ Released(g) \/ ReplyLost(g)
  /\ UNCHANGED tableVars

(* The last reader deletes the keys of all readers; another one writes the  *)
(* counter, now without a lease.                                            *)
Leave(g) ==
  /\ At(g, "release") /\ In(g, "unlock", "shared")
  /\ holders[call[g].value] # None
  /\ count' = IF call[g].count > 1 THEN call[g].count - 1 ELSE 0
  /\ countLease' = None
  /\ holders' = [v \in Value |-> IF v = call[g].value \/ call[g].count <= 1
                                 THEN None ELSE holders[v]]
  /\ Released(g) \/ ReplyLost(g)
  /\ UNCHANGED tableVars

LeaveFails(g) ==
  /\ At(g, "release") /\ In(g, "unlock", "shared")
  /\ holders[call[g].value] = None
  /\ Fail(g)
  /\ UNCHANGED <<tableVars, held, sharedVars>>

(* The keys go with their leases.                                           *)
ExpireShared(l) ==
  /\ count' = IF countLease = l THEN 0 ELSE count
  /\ countLease' = IF countLease = l THEN None ELSE countLease
  /\ holders' = [v \in Value |-> IF holders[v] = l THEN None ELSE holders[v]]

SharedStep(g, locked) ==
  \/ Enter(g, locked) \/ EnterFails(g, locked) \/ PutCount(g)
  \/ FindHolder(g) \/ ReadCount(g) \/ Leave(g) \/ LeaveFails(g)

-----------------------------------------------------------------------------
(* A goroutine that has read the counter and is about to write it.          *)
Counting(g) == call[g].kind = "shared" /\ call[g].pc \in {"put", "release"}

(* What spoils the counter: two such goroutines at a time; a reader whose   *)
(* key is written and who fails to count itself; the end of the lease that  *)
(* the counter hangs on while other readers have theirs.                    *)
Spoils ==
  \/ \E g, h \in Goroutine : g # h /\ Counting(g)' /\ Counting(h)'
  \/ \E g \in Goroutine :
       /\ In(g, "lock", "shared")
       /\ call'[g].pc = "ready"
       /\ \/ At(g, "check") /\ holders' # holders
          \/ At(g, "put") /\ count' = count
  \/ count > 0 /\ count' = 0 /\ HolderKeys' # {}

(* No reader and no key of one: what happened before does not matter.       *)
NoReaders ==
  /\ count = 0
  /\ HolderKeys = {}
  /\ \A g \in Goroutine : ~Owns(g, "shared") /\ ~Counting(g)

ObserveCounter == sound' = (NoReaders' \/ (sound /\ ~Spoils))
=============================================================================
