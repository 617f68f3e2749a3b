--------------------------- MODULE EtcdExclusiveLock ---------------------------
(***************************************************************************)
(* EtcdExclusiveLock: the lock is a key with a lease.  TryLock looks in a  *)
(* transaction whether the key, or the counter of the readers, exists, and *)
(* writes the key in a request of its own.                                 *)
(***************************************************************************)
EXTENDS EtcdClient

VARIABLE lockKey  \* the value and the lease of the lock's key in etcd

NoKey == [value |-> None, lease |-> None]

ExclusiveInit == lockKey = NoKey

(* The key hangs on a lease that exists.                                    *)
ExclusiveTypeOK ==
  \/ lockKey = NoKey
  \/ lockKey \in [value : Value, lease : Lease]

Check(g, readers) ==
  /\ At(g, "check") /\ In(g, "lock", "exclusive")
  /\ IF lockKey = NoKey /\ readers = 0 THEN Goto(g, "put") ELSE Refuse(g)
  /\ UNCHANGED <<tableVars, held, lockKey>>

(* Mutant of PutKey: the key is written without a lease.                    *)
PutKeyForEver(g) ==
  /\ At(g, "put") /\ In(g, "lock", "exclusive")
  /\ HasLease(g)
  /\ lockKey' = [value |-> call[g].value, lease |-> None]
  /\ Acquired(g) \/ ReplyLost(g)
  /\ UNCHANGED tableVars

(* The Put does not look whether the key exists by now.                     *)
PutKey(g) ==
  /\ At(g, "put") /\ In(g, "lock", "exclusive")
  /\ HasLease(g)
  /\ lockKey' = [value |-> call[g].value, lease |-> call[g].lease]
  /\ Acquired(g) \/ ReplyLost(g)
  /\ UNCHANGED tableVars

(* Mutant of DeleteKey: the value is not compared.                          *)
DeleteAnyKey(g) ==
  /\ At(g, "release") /\ In(g, "unlock", "exclusive")
  /\ lockKey' = NoKey
  /\ Released(g) \/ ReplyLost(g)
  /\ UNCHANGED tableVars

DeleteKey(g) ==
  /\ At(g, "release") /\ In(g, "unlock", "exclusive")
  /\ lockKey.value = call[g].value
  /\ lockKey' = NoKey
  /\ Released(g) \/ ReplyLost(g)
  /\ UNCHANGED tableVars

NotHeld(g) ==
  /\ At(g, "release") /\ In(g, "unlock", "exclusive")
  /\ lockKey.value # call[g].value
  /\ Fail(g)
  /\ UNCHANGED <<tableVars, held, lockKey>>

(* The key goes with its lease.                                             *)
ExpireKey(l) == lockKey' = IF lockKey.lease = l THEN NoKey ELSE lockKey

ExclusiveStep(g, readers) ==
  Check(g, readers) \/ PutKey(g) \/ DeleteKey(g) \/ NotHeld(g)
=============================================================================
