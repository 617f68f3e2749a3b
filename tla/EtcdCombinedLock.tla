--------------------------- MODULE EtcdCombinedLock ---------------------------
(***************************************************************************)
(* EtcdCombinedLock: an exclusive and a shared lock object side by side,   *)
(* what NewEtcdDistributedLock returns.  Each looks for the keys of the    *)
(* other; Unlock and Renew ask one after the other.                        *)
(***************************************************************************)
EXTENDS EtcdExclusiveLock, EtcdSharedLock, Sequences

CONSTANTS Prefix  \* EtcdConfig.Prefix, a sequence of the parts of a key

vars == <<clientVars, contested, lockKey, sharedVars, sound>>

Init == ClientInit /\ ExclusiveInit /\ SharedInit

-----------------------------------------------------------------------------
(* The names of the keys: what each object writes and the other one reads.  *)

LockName == Prefix \o <<"/exclusive_locks/", "key">>
CounterName == Prefix \o <<"/shared_locks/", "key", "/counter">>

CounterNameOfExclusive == <<"/shared_locks/", "key", "/counter">>

(* Mutant of LockNameOfShared: it begins with the prefix of its own object. *)
LockNameAfterShared == Prefix \o <<"/shared_locks/", "/exclusive_locks/", "key">>

LockNameOfShared == <<"/exclusive_locks/", "key">>

Readers == IF CounterNameOfExclusive = CounterName THEN count ELSE 0
Locked == LockNameOfShared = LockName /\ lockKey # NoKey

-----------------------------------------------------------------------------
Observe == ObserveContest /\ ObserveCounter

ValuesInEtcd(kind) ==
  IF kind = "exclusive" THEN {lockKey.value} ELSE HolderKeys

LeasesInEtcd == {lockKey.lease, countLease} \cup {holders[v] : v \in HolderKeys}

(* LockOptions.LockType says which of the two lock objects is called.       *)
Lock(g) ==
  /\ \E kind \in Kind : BeginLock(g, kind, LeasesInEtcd)
  /\ UNCHANGED <<lockKey, sharedVars>>
  /\ Observe

Unlock(g) ==
  /\ BeginUnlock(g, LeasesInEtcd)
  /\ UNCHANGED <<lockKey, sharedVars>>
  /\ Observe

Renew(g) ==
  /\ BeginRenew(g)
  /\ UNCHANGED <<lockKey, sharedVars>>
  /\ Observe

Step(g) ==
  /\ \/ /\ \/ ClientStep(g)
           \/ Load(g, LeasesInEtcd)
           \/ Wake(g, LeasesInEtcd)
           \/ Store(g, ValuesInEtcd(call[g].kind), LeasesInEtcd)
        /\ UNCHANGED <<lockKey, sharedVars>>
     \/ ExclusiveStep(g, Readers) /\ UNCHANGED sharedVars
     \/ SharedStep(g, Locked) /\ UNCHANGED lockKey
  /\ Observe

Interrupt(g) ==
  /\ Cancel(g) \/ RequestLost(g)
  /\ UNCHANGED <<lockKey, sharedVars>>
  /\ Observe

Crash(i) ==
  /\ ClientCrash(i)
  /\ UNCHANGED <<lockKey, sharedVars>>
  /\ Observe

Expire(l) ==
  /\ EndLease(l)
  /\ ExpireKey(l)
  /\ ExpireShared(l)
  /\ Observe

(* Nobody keeps the lease alive.                                            *)
Abandon(l) ==
  /\ l \in LeasesInEtcd \/ \E k \in Kind, i \in Instance : leaseIDs[k][i] = l
  /\ ~InUse(l)
  /\ Expire(l)

Overrun(l) == "overrun" \in Faults /\ InUse(l) /\ Expire(l)

Next ==
  \/ \E g \in Goroutine :
       Lock(g) \/ Unlock(g) \/ Renew(g) \/ Step(g) \/ Interrupt(g)
  \/ \E i \in Instance : Crash(i)
  \/ \E l \in Lease : Abandon(l) \/ Overrun(l)

Spec == Init /\ [][Next]_vars

-----------------------------------------------------------------------------
(* Every variable has its type, and keys hang on leases that exist.         *)
TypeOK == ClientTypeOK /\ ExclusiveTypeOK /\ SharedTypeOK

Writer(g) == Owns(g, "exclusive")
Reader(g) == Owns(g, "shared")

(* At most one goroutine has the exclusive lock while its lease lasts, if   *)
(* none of them was between check and Put together with another one.        *)
WritersExclude ==
  \A g, h \in Goroutine \ contested : Writer(g) /\ Writer(h) => g = h

(* At most one goroutine has the exclusive lock while its lease lasts.      *)
(* "事务" (a transaction) is what SUMMARY.md:272 has for atomicity, and the  *)
(* code in SUMMARY.md:134 checks and puts the key in one transaction.       *)
OneWriter == \A g, h \in Goroutine : Writer(g) /\ Writer(h) => g = h

(* Who has a lock, outside Lock and Unlock, can unlock it: the tables of    *)
(* its object have the value and the lease of its key in etcd.              *)
HolderCanUnlock ==
  \A g \in Goroutine :
    call[g].op \in {"none", "renew"} =>
      LET i == InstanceOf[g] IN
        /\ Writer(g) /\ g \notin contested =>
             /\ lockKey = [value |-> lockValues["exclusive"][i], lease |-> held[g].lease]
             /\ leaseIDs["exclusive"][i] = held[g].lease
        /\ Reader(g) /\ sound =>
             /\ lockValues["shared"][i] # None
             /\ holders[lockValues["shared"][i]] = held[g].lease
             /\ leaseIDs["shared"][i] = held[g].lease

(* As long as nothing spoils it, the counter covers the keys of the         *)
(* readers, but for one that is about to count itself, and every reader has *)
(* its key.                                                                 *)
ReadersCounted ==
  sound =>
    /\ Cardinality(HolderKeys)
         <= count + Cardinality({g \in Goroutine : Counting(g) /\ At(g, "put")})
    /\ \A g \in Goroutine : Reader(g) => \E v \in Value : holders[v] = held[g].lease

(* Readers and writers exclude each other, with the same reservations.      *)
ReadersAndWritersExclude ==
  \A g, h \in Goroutine \ contested : ~(sound /\ Reader(g) /\ Writer(h))
=============================================================================
