------------------------------ MODULE EtcdClient ------------------------------
(***************************************************************************)
(* What EtcdExclusiveLock and EtcdSharedLock have in common: the tables of *)
(* lock values and lease numbers of a lock object, the calls TryLock,      *)
(* Lock, Unlock and Renew as far as both objects run them in the same way, *)
(* and the leases of the etcd server.  Both objects of a combined lock     *)
(* are modelled at once: a table has an entry for each kind of lock.       *)
(*                                                                         *)
(* One key is modelled.  Leases have no clock: a keep-alive makes a lease  *)
(* end later, and one that is not kept alive ends at any time.             *)
(***************************************************************************)
EXTENDS Integers, FiniteSets

CONSTANTS
  Goroutine,   \* callers of the lock objects
  Renewer,     \* those that renew, as AutoRenew does
  Instance,    \* combined lock objects, each in a process of its own
  InstanceOf,  \* the lock object that a goroutine calls
  Token,       \* what generateLockValue draws from (a bound: 128 random bits)
  Lease,       \* numbers of leases (a bound, see Unused)
  GrantedTo,   \* the lock object that gets a lease of a number
  None,        \* no entry in a table, no lease, no value
  Ended,       \* the number of a lease that has ended
  Faults       \* what can go wrong, see FaultKinds

(* "timeout": a request or its reply is lost;                               *)
(* "crash":   a process stops and starts again with empty tables;           *)
(* "overrun": the lease of a holder or of a running call may end.           *)
FaultKinds == {"timeout", "crash", "overrun"}

Kind == {"exclusive", "shared"}

(* A random value is unique, so it also tells which object generated it.    *)
Value == Instance \X Token

ASSUME EtcdClientAssumption ==
  /\ Renewer \subseteq Goroutine
  /\ InstanceOf \in [Goroutine -> Instance]
  /\ GrantedTo \in [Lease -> Instance]
  /\ None \notin Value \cup Lease
  /\ Ended \notin Lease \cup {None}
  /\ Faults \subseteq FaultKinds

VARIABLES
  lockValues,  \* the sync.Map of lock values of each lock object
  leaseIDs,    \* the sync.Map of lease numbers of each lock object
  call,        \* the call that a goroutine is in
  held,        \* history: the lock that etcd gave a goroutine
  contested    \* history: the goroutines that took it at the same time

tableVars == <<lockValues, leaseIDs>>
clientVars == <<tableVars, call, held>>

MaybeValue == Value \cup {None}
MaybeLease == Lease \cup {Ended, None}

Call == [pc    : {"ready", "load", "store", "check", "put", "set lease", "wait",
                  "find holder", "read count", "release", "delete value",
                  "delete lease", "load lease", "keep alive"},
         op    : {"none", "lock", "unlock", "renew"},
         kind  : Kind,
         value : MaybeValue,
         lease : MaybeLease,
         count : Nat]         \* the number of readers that was read

Ready == [pc |-> "ready", op |-> "none", kind |-> "exclusive", value |-> None,
          lease |-> None, count |-> 0]

Hold == [kind : Kind, lease : Lease \cup {Ended}]
NoHold == [kind |-> "exclusive", lease |-> None]

ClientInit ==
  /\ lockValues = [k \in Kind |-> [i \in Instance |-> None]]
  /\ leaseIDs = [k \in Kind |-> [i \in Instance |-> None]]
  /\ call = [g \in Goroutine |-> Ready]
  /\ held = [g \in Goroutine |-> NoHold]
  /\ contested = {}

ClientTypeOK ==
  /\ lockValues \in [Kind -> [Instance -> MaybeValue]]
  /\ leaseIDs \in [Kind -> [Instance -> MaybeLease]]
  /\ call \in [Goroutine -> Call]
  /\ held \in [Goroutine -> Hold \cup {NoHold}]
  /\ contested \subseteq Goroutine

At(g, pc) == call[g].pc = pc

In(g, op, kind) == call[g].op = op /\ call[g].kind = kind

-----------------------------------------------------------------------------
(* getLockValue: Load and Store are two steps, others run in between.       *)

Goto(g, pc) == call' = [call EXCEPT ![g].pc = pc]

Return(g) == call' = [call EXCEPT ![g] = Ready]

(* The server gives each lease a new number; here one that is mentioned     *)
(* nowhere any more serves again.                                           *)
Unused(i, remote) ==
  {l \in Lease :
     /\ GrantedTo[l] = i
     /\ l \notin remote
     /\ \A k \in Kind : leaseIDs[k][i] # l
     /\ \A g \in Goroutine : call[g].lease # l /\ held[g].lease # l}

(* With the value Unlock and Renew send their first request, and TryLock    *)
(* the one after the grant of a lease, which nobody else sees.              *)
Request(g, op, kind, v, remote) ==
  LET c == [Ready EXCEPT !.op = op, !.kind = kind, !.value = v] IN
  IF op = "lock"
  THEN \E l \in Unused(InstanceOf[g], remote) :
         call' = [call EXCEPT ![g] = [c EXCEPT !.pc = "check", !.lease = l]]
  ELSE call' = [call EXCEPT ![g] = [c EXCEPT !.pc = IF kind = "exclusive" THEN "release"
                                                    ELSE "find holder"]]

Look(g, op, kind, remote) ==
  LET v == lockValues[kind][InstanceOf[g]] IN
  IF v # None
  THEN Request(g, op, kind, v, remote)
  ELSE call' = [call EXCEPT ![g] = [Ready EXCEPT !.pc = "store", !.op = op,
                                                !.kind = kind]]

(* A random value is one that is in use nowhere; which one does not matter. *)
Fresh(g, remote) ==
  {v \in {InstanceOf[g]} \X Token :
     /\ v \notin remote
     /\ \A h \in Goroutine : call[h].kind = call[g].kind => call[h].value # v
     /\ lockValues[call[g].kind][InstanceOf[g]] # v}

Store(g, values, remote) ==
  /\ At(g, "store")
  /\ Fresh(g, values) # {}
  /\ LET v == CHOOSE w \in Fresh(g, values) : TRUE IN
       /\ lockValues' = [lockValues EXCEPT ![call[g].kind][InstanceOf[g]] = v]
       /\ Request(g, call[g].op, call[g].kind, v, remote)
  /\ UNCHANGED <<leaseIDs, held>>

-----------------------------------------------------------------------------
(* How a call begins and how it fails.                                      *)

BeginLock(g, kind, remote) ==
  /\ At(g, "ready")
  /\ held[g] = NoHold
  /\ Look(g, "lock", kind, remote)
  /\ UNCHANGED <<tableVars, held>>

(* LockService calls Unlock once, after the function ran under the lock.    *)
BeginUnlock(g, remote) ==
  /\ At(g, "ready")
  /\ held[g] # NoHold
  /\ Look(g, "unlock", "exclusive", remote)
  /\ held' = [held EXCEPT ![g] = NoHold]
  /\ UNCHANGED tableVars

(* AutoRenew calls it as long as it runs, with the lock or without.         *)
BeginRenew(g) ==
  /\ At(g, "ready")
  /\ g \in Renewer
  /\ call' = [call EXCEPT ![g] = [Ready EXCEPT !.pc = "load lease", !.op = "renew"]]
  /\ UNCHANGED <<tableVars, held>>

(* An error ends the call, but Unlock and Renew of the combined lock, which *)
(* do not know the kind of the lock, then ask the shared lock object.       *)
Fail(g) ==
  IF call[g].op \in {"unlock", "renew"} /\ call[g].kind = "exclusive"
  THEN call' = [call EXCEPT ![g] = [Ready EXCEPT !.pc = "load", !.op = call[g].op,
                                                !.kind = "shared"]]
  ELSE Return(g)

Load(g, remote) ==
  /\ At(g, "load")
  /\ Look(g, call[g].op, call[g].kind, remote)
  /\ UNCHANGED <<tableVars, held>>

-----------------------------------------------------------------------------
(* TryLock and Lock, but for the keys in etcd.                              *)

HasLease(g) == call[g].lease # Ended

(* The lock is not free: TryLock returns, and Lock, which may have rounds   *)
(* left, waits for the next one.                                            *)
Refuse(g) ==
  \/ Return(g)
  \/ call' = [call EXCEPT ![g] = [Ready EXCEPT !.pc = "wait", !.op = "lock",
                                               !.kind = call[g].kind]]

Wake(g, remote) ==
  /\ At(g, "wait")
  /\ Look(g, "lock", call[g].kind, remote)
  /\ UNCHANGED <<tableVars, held>>

Cancel(g) ==
  /\ At(g, "wait")
  /\ Return(g)
  /\ UNCHANGED <<tableVars, held>>

(* etcd did what it was asked for: the caller learns it or not.  Only its   *)
(* tables are left to be changed.                                           *)
Succeed(g, pc) ==
  call' = [call EXCEPT ![g].pc = pc, ![g].value = None, ![g].count = 0]

Acquired(g) ==
  /\ Succeed(g, "set lease")
  /\ held' = [held EXCEPT ![g] = [kind |-> call[g].kind, lease |-> call[g].lease]]

Released(g) == Succeed(g, "delete value") /\ UNCHANGED held

ReplyLost(g) ==
  /\ "timeout" \in Faults
  /\ Fail(g)
  /\ UNCHANGED held

(* A Put with a lease that is gone is an error.                             *)
PutFails(g) ==
  /\ At(g, "put")
  /\ ~HasLease(g)
  /\ Fail(g)
  /\ UNCHANGED <<tableVars, held>>

(* Mutant of SetLease: the lease number is not kept.                        *)
SetNoLease(g) ==
  /\ At(g, "set lease")
  /\ Return(g)
  /\ UNCHANGED <<tableVars, held>>

SetLease(g) ==
  /\ At(g, "set lease")
  /\ leaseIDs' = [leaseIDs EXCEPT ![call[g].kind][InstanceOf[g]] = call[g].lease]
  /\ Return(g)
  /\ UNCHANGED <<lockValues, held>>

-----------------------------------------------------------------------------
(* The end of Unlock, which leaves the lease alone, and Renew.              *)

DeleteValue(g) ==
  /\ At(g, "delete value")
  /\ lockValues' = [lockValues EXCEPT ![call[g].kind][InstanceOf[g]] = None]
  /\ Goto(g, "delete lease")
  /\ UNCHANGED <<leaseIDs, held>>

DeleteLease(g) ==
  /\ At(g, "delete lease")
  /\ leaseIDs' = [leaseIDs EXCEPT ![call[g].kind][InstanceOf[g]] = None]
  /\ Return(g)
  /\ UNCHANGED <<lockValues, held>>

LoadLease(g) ==
  /\ At(g, "load lease")
  /\ LET l == leaseIDs[call[g].kind][InstanceOf[g]] IN
       IF l = None THEN Fail(g)
       ELSE call' = [call EXCEPT ![g].pc = "keep alive", ![g].lease = l]
  /\ UNCHANGED <<tableVars, held>>

KeepAlive(g) ==
  /\ At(g, "keep alive")
  /\ IF HasLease(g) THEN Return(g) ELSE Fail(g)
  /\ UNCHANGED <<tableVars, held>>

-----------------------------------------------------------------------------
(* Faults.                                                                  *)

(* A request that is lost has no effect (for the others see ReplyLost).     *)
RequestLost(g) ==
  /\ "timeout" \in Faults
  /\ call[g].pc \in {"check", "put", "find holder", "read count",
                     "release", "keep alive"}
  /\ Fail(g)
  /\ UNCHANGED <<tableVars, held>>

ClientCrash(i) ==
  /\ "crash" \in Faults
  /\ lockValues' = [k \in Kind |-> [lockValues[k] EXCEPT ![i] = None]]
  /\ leaseIDs' = [k \in Kind |-> [leaseIDs[k] EXCEPT ![i] = None]]
  /\ call' = [g \in Goroutine |-> IF InstanceOf[g] = i THEN Ready ELSE call[g]]
  /\ held' = [g \in Goroutine |-> IF InstanceOf[g] = i THEN NoHold ELSE held[g]]

InUse(l) == \E g \in Goroutine : l \in {held[g].lease, call[g].lease}

(* Nothing tells the numbers of two leases that ended from each other:      *)
(* every mention of this one becomes Ended.                                 *)
EndLease(l) ==
  LET End(m) == IF m = l THEN Ended ELSE m IN
  /\ leaseIDs' = [k \in Kind |-> [i \in Instance |-> End(leaseIDs[k][i])]]
  /\ call' = [g \in Goroutine |-> [call[g] EXCEPT !.lease = End(@)]]
  /\ held' = [g \in Goroutine |-> [held[g] EXCEPT !.lease = End(@)]]
  /\ UNCHANGED lockValues

(* What a call does between its start and its end, but for the keys.        *)
ClientStep(g) ==
  \/ PutFails(g) \/ SetLease(g)
  \/ DeleteValue(g) \/ DeleteLease(g) \/ LoadLease(g) \/ KeepAlive(g)

-----------------------------------------------------------------------------
(* Between the check that the lock is free and the Put that takes it.       *)
Between(g) == At(g, "put")

(* History: two goroutines that are there at the same time have not seen    *)
(* each other; this is remembered as long as they have their locks.         *)
ObserveContest ==
  contested' =
    {g \in Goroutine :
       \/ Between(g)' /\ \E h \in Goroutine \ {g} : Between(h)'
       \/ g \in contested /\ (Between(g)' \/ held'[g] # NoHold)}

Owns(g, kind) == held[g].kind = kind /\ held[g].lease \in Lease
=============================================================================
