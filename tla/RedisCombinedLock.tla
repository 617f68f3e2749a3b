--------------------------- MODULE RedisCombinedLock ---------------------------
(***************************************************************************)
(* RedisCombinedLock: an exclusive and a shared lock object side by side,  *)
(* what NewRedisDistributedLock returns.  Lock and TryLock go to one of    *)
(* them; Unlock and Renew, which do not know the kind of the lock, go to   *)
(* the exclusive one and, if that fails, to the shared one.  The scripts   *)
(* of each object look for the keys of the other.                          *)
(***************************************************************************)
EXTENDS Integers, Sequences, FiniteSets

CONSTANTS
  Goroutine, Worker, Instance, InstanceOf, Token, None, Second, TTLs,
  RenewTTLs, RetryCount, MaxRetries, MaxLate, MaxCount, Faults,
  Prefix, \* RedisConfig.Prefix, a sequence of the parts of a key
  Nested  \* the goroutines that ask for a lock while they have one (a bound)

(* The parameters are those of both lock objects.  A holder may overrun its *)
(* lock: both have the clock of the server, which does not wait for the     *)
(* holder of one of them.                                                   *)
ASSUME CombinedAssumption ==
  /\ Worker \subseteq Goroutine
  /\ InstanceOf \in [Goroutine -> Instance]
  /\ None \notin Instance \X Token
  /\ None \notin Goroutine
  /\ Second \in Nat \ {0}
  /\ TTLs \subseteq Nat
  /\ RenewTTLs \subseteq Nat
  /\ RetryCount \in Nat
  /\ MaxRetries \in Nat
  /\ MaxLate \in Nat
  /\ MaxCount \in Nat
  /\ Faults \subseteq {"timeout", "straggle", "crash", "overrun"}
  /\ "overrun" \in Faults
  /\ Nested \subseteq Goroutine

VARIABLES
  eValues, eCall, eLate, eHeld, eLease, stored, eTtl,
  sValues, sCall, sLate, sHeld, sLease, count, holders, sTtl

E == INSTANCE RedisExclusiveLock WITH
  lockValues <- eValues, call <- eCall, late <- eLate, held <- eHeld,
  lease <- eLease, ttl <- eTtl, Rejected <- {0}

S == INSTANCE RedisSharedLock WITH
  lockValues <- sValues, call <- sCall, late <- sLate, held <- sHeld,
  lease <- sLease, ttl <- sTtl, Rejected <- {}

eServer == <<stored, eTtl>>
sServer == <<count, holders, sTtl>>
eVars == <<eValues, eCall, eLate, eHeld, eLease, eServer>>
sVars == <<sValues, sCall, sLate, sHeld, sLease, sServer>>
vars == <<eVars, sVars>>

Init == E!Init /\ S!Init

-----------------------------------------------------------------------------
(* The names of the keys: what each object writes, and what the scripts of  *)
(* the other one read.                                                      *)

LockKey == Prefix \o <<"exclusive:", "key">>
CounterKey == Prefix \o <<"shared_lock:", "key", ":counter">>

(* Mutant of CounterKeyOfExclusive: the key without its suffix.             *)
KeyWithoutSuffix == <<"shared_lock:", "key">>

CounterKeyOfExclusive == <<"shared_lock:", "key", ":counter">>
LockKeyOfShared == <<"exclusive:">> \o Prefix \o <<"shared_lock:", "key">>

Readers == IF CounterKeyOfExclusive = CounterKey THEN count ELSE 0
Locked == LockKeyOfShared = LockKey /\ stored # None

-----------------------------------------------------------------------------
Idle(g) == eCall[g].pc = "ready" /\ sCall[g].pc = "ready"

Holding(g) == eHeld[g] \/ sHeld[g]

MayLock(g) == Idle(g) /\ (Holding(g) => g \in Nested)

BeginExclusive(g) ==
  /\ MayLock(g)
  /\ E!BeginLock(g) \/ E!BeginTryLock(g)
  /\ UNCHANGED <<eServer, sVars>>

BeginShared(g) ==
  /\ MayLock(g)
  /\ S!BeginLock(g) \/ S!BeginTryLock(g)
  /\ UNCHANGED <<sServer, eVars>>

(* Unlock asks the exclusive lock object, whichever lock is held.           *)
BeginUnlock(g) ==
  /\ Idle(g) /\ Holding(g)
  /\ E!Begin(g, "unlock", 0, 0)
  /\ E!GiveUp(g)
  /\ S!GiveUp(g)
  /\ UNCHANGED <<eValues, eLate, eServer>>
  /\ UNCHANGED <<sValues, sCall, sLate, sServer>>

BeginRenew(g) ==
  /\ Idle(g)
  /\ E!BeginRenew(g)
  /\ UNCHANGED <<eServer, sVars>>

(* The step ends Unlock or Renew of the exclusive lock object.              *)
Ends(g) == eCall[g].op \in {"unlock", "renew"} /\ eCall'[g].pc = "ready"

Succeeds(g) ==
  /\ E!Released(g) \/ (E!Replied(g, "renew", TRUE) /\ E!RenewReturns(g))
  /\ UNCHANGED <<eServer, sVars>>

(* MaxLate bounds the late requests of both objects together.               *)
FewLate == Cardinality(eLate') + Cardinality(sLate') <= MaxLate

(* It fails, for whatever reason: the shared lock object is asked.          *)
FallsThrough(g) ==
  /\ \/ E!NotHeld(g)
     \/ E!Replied(g, "renew", FALSE) /\ E!RenewReturns(g)
     \/ E!Load(g)
     \/ E!Store(g, {stored})
     \/ E!Interrupt(g)
  /\ Ends(g)
  /\ S!Begin(g, eCall[g].op, eCall[g].ttl, 0)
  /\ UNCHANGED <<eServer, sValues, sLate, sHeld, sLease, sServer>>
  /\ FewLate

ExclusiveStep(g) ==
  /\ \/ (E!Continue(g) \/ E!Store(g, {stored})) /\ UNCHANGED eServer
     \/ E!Eval(g, Readers)
  /\ ~Ends(g)
  /\ UNCHANGED sVars

ExclusiveInterrupted(g) ==
  /\ E!Interrupt(g)
  /\ ~Ends(g)
  /\ UNCHANGED <<eServer, sVars>>
  /\ FewLate

SharedStep(g) ==
  /\ \/ (S!Continue(g) \/ S!Store(g, holders)) /\ UNCHANGED sServer
     \/ S!Eval(g, Locked)
  /\ UNCHANGED eVars

SharedInterrupted(g) ==
  /\ S!Interrupt(g)
  /\ UNCHANGED <<sServer, eVars>>
  /\ FewLate

EvalLate ==
  \/ E!EvalLate(Readers) /\ UNCHANGED sVars
  \/ S!EvalLate(Locked) /\ UNCHANGED eVars

Crash(i) ==
  /\ E!Crash(i) /\ S!Crash(i)
  /\ UNCHANGED <<eServer, sServer>>

(* A Redis server has one clock for all keys.                               *)
Tick == E!Tick /\ S!Tick

Next ==
  \/ \E g \in Goroutine :
       \/ BeginExclusive(g) \/ BeginShared(g) \/ BeginUnlock(g) \/ BeginRenew(g)
       \/ ExclusiveStep(g) \/ SharedStep(g)
       \/ Succeeds(g) \/ FallsThrough(g)
       \/ ExclusiveInterrupted(g) \/ SharedInterrupted(g)
  \/ EvalLate
  \/ \E i \in Instance : Crash(i)
  \/ Tick

Spec == Init /\ [][Next]_vars

-----------------------------------------------------------------------------
(* Every variable has its type, and a goroutine is in one call at a time,   *)
(* of one of the two objects.                                               *)
TypeOK ==
  /\ E!TypeOK
  /\ S!TypeOK
  /\ \A g \in Goroutine : eCall[g].pc = "ready" \/ sCall[g].pc = "ready"

(* The two objects keep their promises side by side: Unlock and Renew that  *)
(* try both of them end nobody else's exclusive lease ...                   *)
WritersExclude == E!LeaseExclusion

(* ... and no reader's.                                                     *)
ReadersCounted == S!ReaderCounted

(* A writer waits for the readers: no exclusive lease starts while a reader *)
(* is within its lease (README.md:204).  It holds when Prefix is empty.     *)
WriterWaitsForReaders ==
  [][\A g, h \in Goroutine :
       eLease[g] = 0 /\ eLease'[g] > 0 => sLease[h] = 0]_vars

(* A reader waits for the writer: no shared lease starts while a writer is  *)
(* within its lease (README.md:203).  No Prefix makes it hold.              *)
ReaderWaitsForWriter ==
  [][\A g, h \in Goroutine :
       sLease[g] = 0 /\ sLease'[g] > 0 => eLease[h] = 0]_vars
=============================================================================
