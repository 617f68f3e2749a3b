------------------------ MODULE RedisCombinedLockProofs ------------------------
(***************************************************************************)
(* RedisCombinedLock keeps what its two lock objects promise. A step of it *)
(* is seen from each object as one of that object's own, or as one of the  *)
(* two that only the combined lock makes: Unlock, which ends a lease of    *)
(* either kind, and a call that falls through. The lemmas about each       *)
(* object then say what the step keeps.                                    *)
(***************************************************************************)
EXTENDS RedisCombinedLock, TLAPS

EP == INSTANCE RedisExclusiveLockProofs WITH
  lockValues <- eValues, call <- eCall, late <- eLate, held <- eHeld,
  lease <- eLease, ttl <- eTtl, Rejected <- {0}

SP == INSTANCE RedisSharedLockProofs WITH
  lockValues <- sValues, call <- sCall, late <- sLate, held <- sHeld,
  lease <- sLease, ttl <- sTtl, Rejected <- {}

(* The parameters are right for both.                                       *)
LEMMA ExclusiveParameters == EP!ClientAssumption /\ EP!ExclusiveAssumption
BY CombinedAssumption
   DEF EP!ClientAssumption, EP!ExclusiveAssumption, EP!Value, EP!FaultKinds

LEMMA SharedParameters == SP!ClientAssumption /\ SP!SharedAssumption
BY CombinedAssumption
   DEF SP!ClientAssumption, SP!SharedAssumption, SP!Value, SP!FaultKinds

-----------------------------------------------------------------------------
(* E and EP are the same operators on the same variables, and so are S and  *)
(* SP.                                                                      *)

LEMMA ExclusiveBegins ==
  ASSUME NEW g
  PROVE  /\ \A op, d, n : E!Begin(g, op, d, n) <=> EP!Begin(g, op, d, n)
         /\ E!GiveUp(g) <=> EP!GiveUp(g)
         /\ E!BeginLock(g) <=> EP!BeginLock(g)
         /\ E!BeginTryLock(g) <=> EP!BeginTryLock(g)
         /\ E!BeginRenew(g) <=> EP!BeginRenew(g)
<1>. USE Zenon DEF E!Begin, EP!Begin, E!Ready, EP!Ready
<1>1. \A op, d, n : E!Begin(g, op, d, n) <=> EP!Begin(g, op, d, n)
  OBVIOUS
<1>2. E!GiveUp(g) <=> EP!GiveUp(g)
  BY DEF E!GiveUp, EP!GiveUp
<1>3. E!BeginLock(g) <=> EP!BeginLock(g)
  BY DEF E!BeginLock, EP!BeginLock
<1>4. E!BeginTryLock(g) <=> EP!BeginTryLock(g)
  BY DEF E!BeginTryLock, EP!BeginTryLock
<1>5. E!BeginRenew(g) <=> EP!BeginRenew(g)
  BY DEF E!BeginRenew, EP!BeginRenew
<1>. QED
  BY <1>1, <1>2, <1>3, <1>4, <1>5

LEMMA ExclusiveContinues ==
  ASSUME NEW g
  PROVE  /\ E!Continue(g) <=> EP!Continue(g)
         /\ E!Interrupt(g) <=> EP!Interrupt(g)
         /\ \A v : E!Store(g, v) <=> EP!Store(g, v)
<1>. USE Zenon DEF E!Return, EP!Return, E!Ready, EP!Ready,
       E!Replied, EP!Replied, E!MayReturn, EP!MayReturn
<1>1. E!Load(g) <=> EP!Load(g)
  BY DEF E!Load, EP!Load, E!Proceed, EP!Proceed
<1>2. E!Acquired(g) <=> EP!Acquired(g)
  BY DEF E!Acquired, EP!Acquired
<1>3. E!Refused(g) <=> EP!Refused(g)
  BY DEF E!Refused, EP!Refused
<1>4. E!Backoff(g) <=> EP!Backoff(g)
  BY DEF E!Backoff, EP!Backoff
<1>5. E!Wake(g) <=> EP!Wake(g)
  BY DEF E!Wake, EP!Wake
<1>6. E!Released(g) <=> EP!Released(g)
  BY DEF E!Released, EP!Released
<1>7. E!NotHeld(g) <=> EP!NotHeld(g)
  BY DEF E!NotHeld, EP!NotHeld
<1>8. E!RenewReturns(g) <=> EP!RenewReturns(g)
  BY DEF E!RenewReturns, EP!RenewReturns
<1>9. E!Continue(g) <=> EP!Continue(g)
  BY <1>1, <1>2, <1>3, <1>4, <1>5, <1>6, <1>7, <1>8 DEF E!Continue, EP!Continue
<1>10. E!TimedOut(g) <=> EP!TimedOut(g)
  BY DEF E!TimedOut, EP!TimedOut, E!Resend, EP!Resend, E!Fail, EP!Fail
<1>11. \A T : E!Cardinality(T) = EP!Cardinality(T)
  BY DEF E!Cardinality, EP!Cardinality
<1>12. E!Interrupt(g) <=> EP!Interrupt(g)
  BY <1>10, <1>11
     DEF E!Interrupt, EP!Interrupt, E!Cancel, EP!Cancel, E!RequestLost,
         EP!RequestLost, E!RequestDelayed, EP!RequestDelayed, E!ReplyLost,
         EP!ReplyLost, E!Request, EP!Request
<1>13. \A v : E!Store(g, v) <=> EP!Store(g, v)
  BY DEF E!Store, EP!Store, E!Fresh, EP!Fresh, E!Proceed, EP!Proceed
<1>. QED
  BY <1>9, <1>12, <1>13

LEMMA ExclusiveRuns ==
  /\ \A g, r : E!Eval(g, r) <=> EP!Eval(g, r)
  /\ \A r : E!EvalLate(r) <=> EP!EvalLate(r)
  /\ \A i : E!Crash(i) <=> EP!Crash(i)
  /\ E!Tick <=> EP!Tick
<1>. USE Zenon DEF E!Renewed, EP!Renewed, E!Request, EP!Request
<1>1. \A q, r, ok : E!Script(q, r, ok) <=> EP!Script(q, r, ok)
  BY DEF E!Script, EP!Script, E!TryLockScript, EP!TryLockScript,
         E!UnlockScript, EP!UnlockScript, E!RenewScript, EP!RenewScript,
         E!Expire, EP!Expire, E!Seconds, EP!Seconds, E!serverVars,
         EP!serverVars
<1>2. \A g, r : E!Eval(g, r) <=> EP!Eval(g, r)
  BY <1>1 DEF E!Eval, EP!Eval, E!Evaluated, EP!Evaluated
<1>3. \A r : E!EvalLate(r) <=> EP!EvalLate(r)
  BY <1>1 DEF E!EvalLate, EP!EvalLate, E!EvaluatedLate, EP!EvaluatedLate
<1>4. \A i : E!Crash(i) <=> EP!Crash(i)
  BY DEF E!Crash, EP!Crash, E!Ready, EP!Ready
<1>5. E!Tick <=> EP!Tick
  BY DEF E!Tick, EP!Tick, E!Elapse, EP!Elapse, E!MayExpire, EP!MayExpire,
         E!InSection, EP!InSection, E!Replied, EP!Replied
<1>. QED
  BY <1>2, <1>3, <1>4, <1>5

LEMMA SharedBegins ==
  ASSUME NEW g
  PROVE  /\ \A op, d, n : S!Begin(g, op, d, n) <=> SP!Begin(g, op, d, n)
         /\ S!GiveUp(g) <=> SP!GiveUp(g)
         /\ S!BeginLock(g) <=> SP!BeginLock(g)
         /\ S!BeginTryLock(g) <=> SP!BeginTryLock(g)
         /\ S!BeginRenew(g) <=> SP!BeginRenew(g)
<1>. USE Zenon DEF S!Begin, SP!Begin, S!Ready, SP!Ready
<1>1. \A op, d, n : S!Begin(g, op, d, n) <=> SP!Begin(g, op, d, n)
  OBVIOUS
<1>2. S!GiveUp(g) <=> SP!GiveUp(g)
  BY DEF S!GiveUp, SP!GiveUp
<1>3. S!BeginLock(g) <=> SP!BeginLock(g)
  BY DEF S!BeginLock, SP!BeginLock
<1>4. S!BeginTryLock(g) <=> SP!BeginTryLock(g)
  BY DEF S!BeginTryLock, SP!BeginTryLock
<1>5. S!BeginRenew(g) <=> SP!BeginRenew(g)
  BY DEF S!BeginRenew, SP!BeginRenew
<1>. QED
  BY <1>1, <1>2, <1>3, <1>4, <1>5

LEMMA SharedContinues ==
  ASSUME NEW g
  PROVE  /\ S!Continue(g) <=> SP!Continue(g)
         /\ S!Interrupt(g) <=> SP!Interrupt(g)
         /\ \A v : S!Store(g, v) <=> SP!Store(g, v)
<1>. USE Zenon DEF S!Return, SP!Return, S!Ready, SP!Ready,
       S!Replied, SP!Replied, S!MayReturn, SP!MayReturn
<1>1. S!Load(g) <=> SP!Load(g)
  BY DEF S!Load, SP!Load, S!Proceed, SP!Proceed
<1>2. S!Acquired(g) <=> SP!Acquired(g)
  BY DEF S!Acquired, SP!Acquired
<1>3. S!Refused(g) <=> SP!Refused(g)
  BY DEF S!Refused, SP!Refused
<1>4. S!Backoff(g) <=> SP!Backoff(g)
  BY DEF S!Backoff, SP!Backoff
<1>5. S!Wake(g) <=> SP!Wake(g)
  BY DEF S!Wake, SP!Wake
<1>6. S!Released(g) <=> SP!Released(g)
  BY DEF S!Released, SP!Released
<1>7. S!NotHeld(g) <=> SP!NotHeld(g)
  BY DEF S!NotHeld, SP!NotHeld
<1>8. S!RenewReturns(g) <=> SP!RenewReturns(g)
  BY DEF S!RenewReturns, SP!RenewReturns
<1>9. S!Continue(g) <=> SP!Continue(g)
  BY <1>1, <1>2, <1>3, <1>4, <1>5, <1>6, <1>7, <1>8 DEF S!Continue, SP!Continue
<1>10. S!TimedOut(g) <=> SP!TimedOut(g)
  BY DEF S!TimedOut, SP!TimedOut, S!Resend, SP!Resend, S!Fail, SP!Fail
<1>11. \A T : S!Cardinality(T) = SP!Cardinality(T)
  BY DEF S!Cardinality, SP!Cardinality
<1>12. S!Interrupt(g) <=> SP!Interrupt(g)
  BY <1>10, <1>11
     DEF S!Interrupt, SP!Interrupt, S!Cancel, SP!Cancel, S!RequestLost,
         SP!RequestLost, S!RequestDelayed, SP!RequestDelayed, S!ReplyLost,
         SP!ReplyLost, S!Request, SP!Request
<1>13. \A v : S!Store(g, v) <=> SP!Store(g, v)
  BY DEF S!Store, SP!Store, S!Fresh, SP!Fresh, S!Proceed, SP!Proceed
<1>. QED
  BY <1>9, <1>12, <1>13

LEMMA SharedRuns ==
  /\ \A g, r : S!Eval(g, r) <=> SP!Eval(g, r)
  /\ \A r : S!EvalLate(r) <=> SP!EvalLate(r)
  /\ \A i : S!Crash(i) <=> SP!Crash(i)
  /\ S!Tick <=> SP!Tick
<1>. USE Zenon DEF S!Renewed, SP!Renewed, S!Request, SP!Request
<1>1. \A q, r, ok : S!Script(q, r, ok) <=> SP!Script(q, r, ok)
  BY DEF S!Script, SP!Script, S!TryLockScript, SP!TryLockScript,
         S!UnlockScript, SP!UnlockScript, S!RenewScript, SP!RenewScript,
         S!Expire, SP!Expire, S!Delete, SP!Delete, S!Seconds, SP!Seconds,
         S!serverVars, SP!serverVars
<1>2. \A g, r : S!Eval(g, r) <=> SP!Eval(g, r)
  BY <1>1 DEF S!Eval, SP!Eval, S!Evaluated, SP!Evaluated
<1>3. \A r : S!EvalLate(r) <=> SP!EvalLate(r)
  BY <1>1 DEF S!EvalLate, SP!EvalLate, S!EvaluatedLate, SP!EvaluatedLate
<1>4. \A i : S!Crash(i) <=> SP!Crash(i)
  BY DEF S!Crash, SP!Crash, S!Ready, SP!Ready
<1>5. S!Tick <=> SP!Tick
  BY DEF S!Tick, SP!Tick, S!Elapse, SP!Elapse, S!MayExpire, SP!MayExpire,
         S!InSection, SP!InSection, S!Replied, SP!Replied, S!Delete, SP!Delete
<1>. QED
  BY <1>2, <1>3, <1>4, <1>5

-----------------------------------------------------------------------------
(* What a step of the library is to its exclusive lock object ...           *)
ExclusiveView ==
  \/ EP!ClientStep({stored}) /\ UNCHANGED eServer
  \/ \E g \in Goroutine :
       /\ Holding(g)
       /\ EP!Begin(g, "unlock", 0, 0) /\ EP!GiveUp(g)
       /\ UNCHANGED <<eValues, eLate, eServer>>
  \/ \E g \in Goroutine : EP!Eval(g, Readers)
  \/ EP!EvalLate(Readers)
  \/ EP!Tick
  \/ UNCHANGED eVars

(* ... and to its shared one, which begins the calls that the exclusive one *)
(* failed, and whose leases end when Unlock begins.                         *)
SharedView ==
  \/ SP!ClientStep(holders) /\ UNCHANGED sServer
  \/ \E g \in Goroutine :
       /\ SP!GiveUp(g)
       /\ UNCHANGED <<sValues, sCall, sLate, sServer>>
  \/ \E g \in Goroutine :
       /\ eCall[g].op \in {"unlock", "renew"}
       /\ SP!Begin(g, eCall[g].op, eCall[g].ttl, 0)
       /\ UNCHANGED <<sValues, sLate, sHeld, sLease, sServer>>
  \/ \E g \in Goroutine : SP!Eval(g, Locked)
  \/ SP!EvalLate(Locked)
  \/ SP!Tick
  \/ UNCHANGED sVars

LEMMA ExclusiveViewed == [Next]_vars => ExclusiveView
<1>. USE DEF EP!ClientStep, EP!BeginCall
<1>1. ASSUME NEW g \in Goroutine,
             BeginExclusive(g) \/ BeginRenew(g)
      PROVE  ExclusiveView
  BY <1>1, ExclusiveBegins DEF BeginExclusive, BeginRenew, ExclusiveView
<1>2. ASSUME NEW g \in Goroutine, BeginUnlock(g)
      PROVE  ExclusiveView
  BY <1>2, ExclusiveBegins DEF BeginUnlock, ExclusiveView
<1>3. ASSUME NEW g \in Goroutine,
             E!Continue(g) \/ E!Store(g, {stored}) \/ E!Interrupt(g),
             UNCHANGED eServer
      PROVE  ExclusiveView
  BY <1>3, ExclusiveContinues DEF ExclusiveView
<1>4. ASSUME NEW g \in Goroutine,
             Succeeds(g) \/ FallsThrough(g) \/ ExclusiveInterrupted(g)
      PROVE  ExclusiveView
  BY <1>3, <1>4 DEF Succeeds, FallsThrough, ExclusiveInterrupted, E!Continue
<1>5. ASSUME NEW g \in Goroutine, ExclusiveStep(g)
      PROVE  ExclusiveView
  BY <1>3, <1>5, ExclusiveRuns DEF ExclusiveStep, ExclusiveView
<1>6. CASE UNCHANGED eVars
  BY <1>6 DEF ExclusiveView
<1>7. CASE EvalLate
  BY <1>6, <1>7, ExclusiveRuns DEF EvalLate, ExclusiveView
<1>8. ASSUME NEW i \in Instance, Crash(i)
      PROVE  ExclusiveView
  BY <1>8, ExclusiveRuns DEF Crash, ExclusiveView
<1>9. CASE Tick
  BY <1>9, ExclusiveRuns DEF Tick, ExclusiveView
<1>10. ASSUME NEW g \in Goroutine,
              BeginShared(g) \/ SharedStep(g) \/ SharedInterrupted(g)
       PROVE  UNCHANGED eVars
  BY <1>10 DEF BeginShared, SharedStep, SharedInterrupted
<1>. QED
  BY <1>1, <1>2, <1>4, <1>5, <1>6, <1>7, <1>8, <1>9, <1>10 DEF Next, vars

LEMMA SharedViewed == [Next]_vars => SharedView
<1>. USE DEF SP!ClientStep, SP!BeginCall
<1>1. ASSUME NEW g \in Goroutine, BeginShared(g)
      PROVE  SharedView
  BY <1>1, SharedBegins DEF BeginShared, SharedView
<1>2. ASSUME NEW g \in Goroutine, BeginUnlock(g)
      PROVE  SharedView
  BY <1>2, SharedBegins DEF BeginUnlock, SharedView
<1>3. ASSUME NEW g \in Goroutine, FallsThrough(g)
      PROVE  SharedView
  BY <1>3, SharedBegins DEF FallsThrough, Ends, SharedView
<1>4. ASSUME NEW g \in Goroutine, SharedStep(g) \/ SharedInterrupted(g)
      PROVE  SharedView
  BY <1>4, SharedContinues, SharedRuns
     DEF SharedStep, SharedInterrupted, SharedView
<1>5. CASE UNCHANGED sVars
  BY <1>5 DEF SharedView
<1>6. CASE EvalLate
  BY <1>5, <1>6, SharedRuns DEF EvalLate, SharedView
<1>7. ASSUME NEW i \in Instance, Crash(i)
      PROVE  SharedView
  BY <1>7, SharedRuns DEF Crash, SharedView
<1>8. CASE Tick
  BY <1>8, SharedRuns DEF Tick, SharedView
<1>9. ASSUME NEW g \in Goroutine,
             \/ BeginExclusive(g) \/ BeginRenew(g) \/ ExclusiveStep(g)
             \/ Succeeds(g) \/ ExclusiveInterrupted(g)
      PROVE  UNCHANGED sVars
  BY <1>9 DEF BeginExclusive, BeginRenew, ExclusiveStep, Succeeds,
     ExclusiveInterrupted
<1>. QED
  BY <1>1, <1>2, <1>3, <1>4, <1>5, <1>6, <1>7, <1>8, <1>9 DEF Next, vars

-----------------------------------------------------------------------------
(* A goroutine is in a call of one object at a time, and who unlocks has    *)
(* given up its shared lease also while the exclusive object is asked.      *)
Apart(g) ==
  /\ eCall[g].pc = "ready" \/ sCall[g].pc = "ready"
  /\ eCall[g].op = "unlock" => sLease[g] = 0

(* The inductive invariant of the two objects together.                     *)
ExclusivePart == EP!ServerTypeOK /\ EP!ClientInv /\ EP!HoldersWork

SharedPart == SP!ServerInv /\ SP!ClientInv /\ SP!HoldersWork

CombinedInv ==
  /\ ExclusivePart
  /\ SharedPart
  /\ \A g \in Goroutine : Apart(g)

LEMMA ExclusiveKept ==
  ASSUME ExclusivePart, SharedPart, ExclusiveView
  PROVE  ExclusivePart'
<1>. USE ExclusiveParameters DEF ExclusivePart
<1>1. CASE EP!ClientStep({stored}) /\ UNCHANGED eServer
  <2>1. EP!ClientInv' /\ EP!HoldersWork'
    BY <1>1, EP!ClientStepInv, EP!HoldersWorkKept
  <2>2. EP!ServerTypeOK'
    BY <1>1 DEF eServer, EP!ServerTypeOK
  <2>. QED
    BY <2>1, <2>2
<1>2. ASSUME NEW g \in Goroutine, Holding(g),
             EP!Begin(g, "unlock", 0, 0), EP!GiveUp(g),
             UNCHANGED <<eValues, eLate, eServer>>
      PROVE  ExclusivePart'
  <2>1. g \in Worker
    BY <1>2 DEF Holding, SharedPart, EP!HoldersWork, SP!HoldersWork
  <2>2. eHeld' \in [Goroutine -> BOOLEAN] /\ eLease' \in [Goroutine -> Nat]
    BY <1>2, EP!GiveUpType DEF EP!ClientInv
  <2>3. EP!ClientInv'
    BY <1>2, <2>1, <2>2, EP!BeginOpInv DEF EP!Op
  <2>4. EP!ServerTypeOK' /\ EP!HoldersWork'
    BY <1>2, <2>1 DEF eServer, EP!ServerTypeOK, EP!GiveUp, EP!HoldersWork,
       EP!ClientInv, EP!ClientTypeOK
  <2>. QED
    BY <2>3, <2>4
<1>3. CASE \E g \in Goroutine : EP!Eval(g, Readers)
  <2>1. EP!ServerTypeOK' /\ EP!ClientInv'
    BY <1>3, EP!EvalInv
  <2>2. EP!HoldersWork'
    BY <1>3 DEF EP!Eval, EP!Evaluated, EP!HoldersWork
  <2>. QED
    BY <2>1, <2>2
<1>4. CASE EP!EvalLate(Readers)
  <2>1. EP!ServerTypeOK' /\ EP!ClientInv'
    BY <1>4, EP!EvalLateInv
  <2>2. EP!HoldersWork'
    BY <1>4 DEF EP!EvalLate, EP!EvaluatedLate, EP!HoldersWork
  <2>. QED
    BY <2>1, <2>2
<1>5. CASE EP!Tick
  <2>1. EP!ServerTypeOK' /\ EP!ClientInv'
    BY <1>5, EP!TickInv
  <2>2. EP!HoldersWork'
    BY <1>5 DEF EP!Tick, EP!Elapse, EP!HoldersWork
  <2>. QED
    BY <2>1, <2>2
<1>6. CASE UNCHANGED eVars
  BY <1>6 DEF eVars, eServer, EP!ServerTypeOK, EP!HoldersWork, EP!ClientInv,
     EP!ClientTypeOK, EP!CallsOK, EP!TablesOK, EP!LateOK, EP!LateInCall
<1>. QED
  BY <1>1, <1>2, <1>3, <1>4, <1>5, <1>6 DEF ExclusiveView

LEMMA SharedKept ==
  ASSUME ExclusivePart, SharedPart, SharedView
  PROVE  SharedPart'
<1>. USE SharedParameters DEF SharedPart
<1>0. UNCHANGED sServer => SP!ServerInv'
  BY DEF sServer, SP!ServerInv, SP!HoldersCounted
<1>1. CASE SP!ClientStep(holders) /\ UNCHANGED sServer
  BY <1>0, <1>1, SP!ClientStepInv, SP!HoldersWorkKept
<1>2. ASSUME NEW g \in Goroutine, SP!GiveUp(g),
             UNCHANGED <<sValues, sCall, sLate, sServer>>
      PROVE  SharedPart'
  <2>1. SP!ClientInv'
    BY <1>2, SP!GiveUpInv
  <2>2. SP!HoldersWork'
    BY <1>2 DEF SP!GiveUp, SP!HoldersWork, SP!ClientInv, SP!ClientTypeOK
  <2>. QED
    BY <1>0, <1>2, <2>1, <2>2
<1>3. ASSUME NEW g \in Goroutine, eCall[g].op \in {"unlock", "renew"},
             SP!Begin(g, eCall[g].op, eCall[g].ttl, 0),
             UNCHANGED <<sValues, sLate, sHeld, sLease, sServer>>
      PROVE  SharedPart'
  <2>1. /\ eCall[g].op = "unlock" => g \in Worker
        /\ eCall[g].op = "renew" => eCall[g].ttl \in RenewTTLs
        /\ eCall[g].ttl \in Nat
    BY DEF ExclusivePart, EP!ClientInv, EP!ClientTypeOK, EP!CallsOK, EP!Call
  <2>2. eCall[g].op \in SP!Op \ {"none"} /\ eCall[g].op # "lock"
    BY <1>3 DEF SP!Op
  <2>3. sHeld' \in [Goroutine -> BOOLEAN] /\ sLease' \in [Goroutine -> Nat]
    BY <1>3 DEF SP!ClientInv, SP!ClientTypeOK
  <2>4. SP!ClientInv'
    BY <1>3, <2>1, <2>2, <2>3, SP!BeginOpInv
  <2>5. SP!HoldersWork'
    BY <1>3 DEF SP!HoldersWork
  <2>. QED
    BY <1>0, <1>3, <2>4, <2>5
<1>4. CASE \E g \in Goroutine : SP!Eval(g, Locked)
  <2>1. SP!ServerInv' /\ SP!ClientInv'
    BY <1>4, SP!EvalInv
  <2>2. SP!HoldersWork'
    BY <1>4 DEF SP!Eval, SP!Evaluated, SP!HoldersWork
  <2>. QED
    BY <2>1, <2>2
<1>5. CASE SP!EvalLate(Locked)
  <2>1. SP!ServerInv' /\ SP!ClientInv'
    BY <1>5, SP!EvalLateInv
  <2>2. SP!HoldersWork'
    BY <1>5 DEF SP!EvalLate, SP!EvaluatedLate, SP!HoldersWork
  <2>. QED
    BY <2>1, <2>2
<1>6. CASE SP!Tick
  <2>1. SP!ServerInv' /\ SP!ClientInv'
    BY <1>6, SP!TickInv
  <2>2. SP!HoldersWork'
    BY <1>6 DEF SP!Tick, SP!Elapse, SP!HoldersWork
  <2>. QED
    BY <2>1, <2>2
<1>7. CASE UNCHANGED sVars
  BY <1>0, <1>7 DEF sVars, SP!HoldersWork, SP!ClientInv, SP!ClientTypeOK,
     SP!CallsOK, SP!TablesOK, SP!LateOK, SP!LateInCall
<1>. QED
  BY <1>1, <1>2, <1>3, <1>4, <1>5, <1>6, <1>7 DEF SharedView

-----------------------------------------------------------------------------
(* The steps that one goroutine takes in one of the objects.                *)
ExclusiveMove(g) ==
  \/ BeginExclusive(g) \/ BeginRenew(g) \/ ExclusiveStep(g)
  \/ Succeeds(g) \/ ExclusiveInterrupted(g)

SharedMove(g) == BeginShared(g) \/ SharedStep(g) \/ SharedInterrupted(g)

LEMMA ExclusiveMoves ==
  ASSUME CombinedInv, NEW g \in Goroutine, ExclusiveMove(g)
  PROVE  /\ sCall[g].pc = "ready"
         /\ \A h \in Goroutine : h # g => eCall'[h] = eCall[h]
         /\ eCall'[g].op = "unlock" => eCall[g].op = "unlock"
         /\ UNCHANGED sVars
<1>. USE ExclusiveParameters
     DEF CombinedInv, ExclusivePart, EP!ClientInv, EP!ClientTypeOK
<1>1. CASE BeginExclusive(g) \/ BeginRenew(g)
  <2>1. \E op \in {"lock", "renew"} : \E d, n : EP!Begin(g, op, d, n)
    BY <1>1, ExclusiveBegins
       DEF BeginExclusive, BeginRenew, EP!BeginLock, EP!BeginTryLock,
           EP!BeginRenew
  <2>2. sCall[g].pc = "ready" /\ UNCHANGED sVars
    BY <1>1 DEF BeginExclusive, BeginRenew, MayLock, Idle
  <2>. QED
    BY <2>1, <2>2 DEF EP!Begin, EP!Ready
<1>2. CASE \/ E!Continue(g) \/ E!Store(g, {stored}) \/ E!Interrupt(g)
  <2>1. /\ eCall[g].pc # "ready"
        /\ \A h \in Goroutine : h # g => eCall'[h] = eCall[h]
        /\ eCall'[g].op = "unlock" => eCall[g].op = "unlock"
    BY <1>2, ExclusiveContinues, EP!CallGoesOn
  <2>2. UNCHANGED sVars
    BY <1>2 DEF ExclusiveMove, BeginExclusive, BeginRenew, ExclusiveStep,
       Succeeds, ExclusiveInterrupted
  <2>. QED
    BY <2>1, <2>2 DEF Apart
<1>3. CASE E!Eval(g, Readers) /\ UNCHANGED sVars
  <2>1. EP!Eval(g, Readers)
    BY <1>3, ExclusiveRuns
  <2>2. /\ eCall[g].pc = "eval"
        /\ \A h \in Goroutine : h # g => eCall'[h] = eCall[h]
        /\ eCall'[g].op = eCall[g].op
    BY <2>1 DEF EP!Eval, EP!Evaluated, EP!Call
  <2>. QED
    BY <1>3, <2>2 DEF Apart
<1>. QED
  BY <1>1, <1>2, <1>3 DEF ExclusiveMove, ExclusiveStep, Succeeds,
     ExclusiveInterrupted, E!Continue

LEMMA SharedMoves ==
  ASSUME CombinedInv, NEW g \in Goroutine, SharedMove(g)
  PROVE  /\ eCall[g].pc = "ready"
         /\ \A h \in Goroutine : h # g => sCall'[h] = sCall[h]
         /\ UNCHANGED eVars
<1>. USE SharedParameters
     DEF CombinedInv, SharedPart, SP!ClientInv, SP!ClientTypeOK
<1>0. UNCHANGED eVars
  BY DEF SharedMove, BeginShared, SharedStep, SharedInterrupted
<1>1. CASE BeginShared(g)
  <2>1. \E op, d, n : SP!Begin(g, op, d, n)
    BY <1>1, SharedBegins DEF BeginShared, SP!BeginLock, SP!BeginTryLock
  <2>2. eCall[g].pc = "ready"
    BY <1>1 DEF BeginShared, MayLock, Idle
  <2>. QED
    BY <1>0, <2>1, <2>2 DEF SP!Begin
<1>2. CASE \/ S!Continue(g) \/ S!Store(g, holders) \/ S!Interrupt(g)
  <2>1. /\ sCall[g].pc # "ready"
        /\ \A h \in Goroutine : h # g => sCall'[h] = sCall[h]
    BY <1>2, SharedContinues, SP!CallGoesOn
  <2>. QED
    BY <1>0, <2>1 DEF Apart
<1>3. CASE S!Eval(g, Locked)
  <2>1. SP!Eval(g, Locked)
    BY <1>3, SharedRuns
  <2>2. /\ sCall[g].pc = "eval"
        /\ \A h \in Goroutine : h # g => sCall'[h] = sCall[h]
    BY <2>1 DEF SP!Eval, SP!Evaluated
  <2>. QED
    BY <1>0, <2>2 DEF Apart
<1>. QED
  BY <1>1, <1>2, <1>3 DEF SharedMove, SharedStep, SharedInterrupted

(* A shared lease begins only with the script of TryLock.                   *)
LEMMA SharedLeaseMade ==
  ASSUME SharedPart, SharedView, NEW h \in Goroutine,
         sLease[h] = 0, sCall[h].pc # "eval"
  PROVE  sLease'[h] = 0
<1>. USE SharedParameters DEF SharedPart, SP!ClientInv, SP!ClientTypeOK
<1>1. CASE SP!ClientStep(holders)
  <2>1. SP!LeasesEndOnly /\ sLease'[h] \in Nat
    BY <1>1, SP!ClientStepEndsLeases, SP!ClientStepInv
  <2>. QED
    BY <2>1 DEF SP!LeasesEndOnly
<1>2. CASE \E g \in Goroutine : SP!GiveUp(g)
  BY <1>2 DEF SP!GiveUp
<1>3. CASE UNCHANGED sLease
  BY <1>3
<1>4. ASSUME NEW g \in Goroutine, SP!Eval(g, Locked)
      PROVE  sLease'[h] = 0
  BY <1>4 DEF SP!Eval, SP!Evaluated, SP!Renewed
<1>5. CASE SP!EvalLate(Locked)
  BY <1>5 DEF SP!EvalLate, SP!EvaluatedLate, SP!Renewed
<1>6. CASE SP!Tick
  BY <1>6 DEF SP!Tick, SP!Elapse
<1>. QED
  BY <1>1, <1>2, <1>3, <1>4, <1>5, <1>6 DEF SharedView, sVars

LEMMA ApartKept ==
  ASSUME CombinedInv, SharedView, [Next]_vars, NEW h \in Goroutine
  PROVE  Apart(h)'
<1>. USE ExclusiveParameters, SharedParameters
     DEF CombinedInv, ExclusivePart, SharedPart,
         EP!ClientInv, EP!ClientTypeOK, SP!ClientInv, SP!ClientTypeOK
<1>1. eCall[h].pc = "ready" => eCall[h].op # "unlock"
  BY DEF EP!CallsOK, EP!Ready
(* No new Unlock, and not in both objects.                                  *)
<1>2. ASSUME eCall'[h].op = "unlock" => eCall[h].op = "unlock",
             eCall'[h].pc = "ready" \/ sCall'[h].pc = "ready"
      PROVE  Apart(h)'
  <2>. SUFFICES ASSUME eCall'[h].op = "unlock"
                PROVE  sLease'[h] = 0
    BY <1>2 DEF Apart
  <2>1. sLease[h] = 0 /\ sCall[h].pc = "ready"
    BY <1>1, <1>2 DEF Apart
  <2>. QED
    BY <2>1, SharedLeaseMade
<1>3. CASE UNCHANGED <<eCall, sCall>>
  BY <1>2, <1>3 DEF Apart
<1>4. ASSUME NEW g \in Goroutine, ExclusiveMove(g)
      PROVE  Apart(h)'
  <2>1. /\ sCall[g].pc = "ready" /\ sCall' = sCall
        /\ \A k \in Goroutine : k # g => eCall'[k] = eCall[k]
        /\ eCall'[g].op = "unlock" => eCall[g].op = "unlock"
    BY <1>4, ExclusiveMoves DEF sVars
  <2>. QED
    BY <1>2, <2>1 DEF Apart
<1>5. ASSUME NEW g \in Goroutine, SharedMove(g)
      PROVE  Apart(h)'
  <2>1. /\ eCall[g].pc = "ready" /\ eCall' = eCall
        /\ \A k \in Goroutine : k # g => sCall'[k] = sCall[k]
    BY <1>5, SharedMoves DEF eVars
  <2>. QED
    BY <1>2, <2>1 DEF Apart
<1>6. ASSUME NEW g \in Goroutine, BeginUnlock(g)
      PROVE  Apart(h)'
  <2>1. /\ sCall[g].pc = "ready" /\ sCall' = sCall
        /\ EP!Begin(g, "unlock", 0, 0) /\ SP!GiveUp(g)
    BY <1>6, ExclusiveBegins, SharedBegins DEF BeginUnlock, Idle
  <2>2. CASE h = g
    BY <2>1, <2>2 DEF Apart, SP!GiveUp
  <2>3. CASE h # g
    <3>1. eCall'[h] = eCall[h]
      BY <2>1, <2>3 DEF EP!Begin
    <3>. QED
      BY <1>2, <2>1, <3>1 DEF Apart
  <2>. QED
    BY <2>2, <2>3
<1>7. ASSUME NEW g \in Goroutine, FallsThrough(g)
      PROVE  Apart(h)'
  <2>1. /\ eCall[g].pc # "ready" /\ eCall'[g].pc = "ready"
        /\ \A k \in Goroutine : k # g => eCall'[k] = eCall[k]
        /\ eCall'[g].op = "unlock" => eCall[g].op = "unlock"
    <3>1. \/ E!Continue(g) \/ E!Store(g, {stored}) \/ E!Interrupt(g)
      BY <1>7 DEF FallsThrough, E!Continue
    <3>2. eCall'[g].pc = "ready"
      BY <1>7 DEF FallsThrough, Ends
    <3>3. EP!Continue(g) \/ EP!Store(g, {stored}) \/ EP!Interrupt(g)
      BY <3>1, ExclusiveContinues
    <3>4. /\ eCall[g].pc # "ready"
          /\ \A k \in Goroutine : k # g => eCall'[k] = eCall[k]
          /\ eCall'[g].op = "unlock" => eCall[g].op = "unlock"
      BY <3>3, EP!CallGoesOn
    <3>. QED
      BY <3>2, <3>4
  <2>2. \A k \in Goroutine : k # g => sCall'[k] = sCall[k]
    <3>1. SP!Begin(g, eCall[g].op, eCall[g].ttl, 0)
      BY <1>7, SharedBegins DEF FallsThrough
    <3>. QED
      BY <3>1 DEF SP!Begin
  <2>. QED
    BY <1>2, <2>1, <2>2 DEF Apart
<1>8. CASE EvalLate
  <2>1. UNCHANGED <<eCall, sCall>>
    BY <1>8, ExclusiveRuns, SharedRuns
       DEF EvalLate, EP!EvalLate, EP!EvaluatedLate, SP!EvalLate,
           SP!EvaluatedLate, eVars, sVars
  <2>. QED
    BY <1>3, <2>1
<1>9. ASSUME NEW i \in Instance, Crash(i)
      PROVE  Apart(h)'
  <2>1. /\ eCall'[h] = eCall[h] \/ eCall'[h] = EP!Ready
        /\ sCall'[h] = sCall[h] \/ sCall'[h] = SP!Ready
    BY <1>9, ExclusiveRuns, SharedRuns DEF Crash, EP!Crash, SP!Crash
  <2>2. EP!Ready.pc = "ready" /\ EP!Ready.op = "none" /\ SP!Ready.pc = "ready"
    BY DEF EP!Ready, SP!Ready
  <2>. QED
    BY <1>2, <2>1, <2>2 DEF Apart
<1>10. CASE Tick
  <2>1. UNCHANGED <<eCall, sCall>>
    BY <1>10, ExclusiveRuns, SharedRuns
       DEF Tick, EP!Tick, EP!Elapse, SP!Tick, SP!Elapse
  <2>. QED
    BY <1>3, <2>1
<1>11. CASE UNCHANGED vars
  BY <1>3, <1>11 DEF vars, eVars, sVars
<1>. QED
  BY <1>4, <1>5, <1>6, <1>7, <1>8, <1>9, <1>10, <1>11
     DEF Next, ExclusiveMove, SharedMove

LEMMA Invariant == Spec => []CombinedInv
<1>1. Init => CombinedInv
  <2>. SUFFICES ASSUME Init PROVE CombinedInv
    OBVIOUS
  <2>1. EP!ClientInit /\ SP!ClientInit /\ EP!Init /\ SP!Init
    BY DEF Init, E!Init, S!Init, EP!Init, SP!Init, E!ClientInit, S!ClientInit,
       EP!ClientInit, SP!ClientInit, E!Ready, S!Ready, EP!Ready, SP!Ready
  <2>2. EP!ClientInv /\ SP!ClientInv
    BY <2>1, ExclusiveParameters, SharedParameters,
       EP!ClientInitInv, SP!ClientInitInv
  <2>3. EP!ServerTypeOK
    BY <2>1 DEF EP!Init, EP!ServerTypeOK
  <2>4. SP!ServerInv
    BY <2>1, SharedParameters, SP!InitServerInv
  <2>5. EP!HoldersWork /\ SP!HoldersWork
    BY <2>1 DEF EP!ClientInit, SP!ClientInit, EP!HoldersWork, SP!HoldersWork
  <2>6. \A g \in Goroutine : Apart(g)
    BY <2>1 DEF EP!ClientInit, SP!ClientInit, Apart, EP!Ready, SP!Ready
  <2>. QED
    BY <2>2, <2>3, <2>4, <2>5, <2>6 DEF CombinedInv, ExclusivePart, SharedPart
<1>2. CombinedInv /\ [Next]_vars => CombinedInv'
  BY ExclusiveViewed, SharedViewed, ExclusiveKept, SharedKept, ApartKept
     DEF CombinedInv
<1>. QED
  BY <1>1, <1>2, PTL DEF Spec

(* Every reachable state of the combined lock is well typed, and no         *)
(* goroutine is ever in a call of both lock objects.                        *)
THEOREM TypeCorrect == Spec => []TypeOK
<1>. SUFFICES CombinedInv => TypeOK
  BY Invariant, PTL
<1>. SUFFICES ASSUME CombinedInv PROVE TypeOK
  OBVIOUS
<1>1. E!TypeOK
  BY DEF CombinedInv, ExclusivePart, EP!ServerTypeOK, EP!ClientInv,
     EP!ClientTypeOK, EP!Call, EP!LateRequest, EP!Value, EP!Op, E!TypeOK,
     E!ClientTypeOK, E!Call, E!LateRequest, E!Value, E!Op
<1>2. S!TypeOK
  BY DEF CombinedInv, SharedPart, SP!ServerInv, SP!ClientInv,
     SP!ClientTypeOK, SP!Call, SP!LateRequest, SP!Value, SP!Op, S!TypeOK,
     S!ClientTypeOK, S!Call, S!LateRequest, S!Value, S!Op
<1>. QED
  BY <1>1, <1>2 DEF TypeOK, CombinedInv, Apart

-----------------------------------------------------------------------------
(* Leases of the exclusive lock stay backed by its key ...                  *)
LEMMA ExclusiveBacked ==
  ASSUME EP!OneWorkerPerInstance, EP!WholeSeconds, "straggle" \notin Faults,
         CombinedInv, EP!LeaseBacked, ExclusiveView
  PROVE  EP!LeaseBacked'
<1>. USE ExclusiveParameters DEF CombinedInv, ExclusivePart
<1>1. CASE EP!LeasesEndOnly /\ UNCHANGED eServer
  BY <1>1, EP!BackedKept DEF eServer, EP!serverVars
<1>2. CASE EP!ClientStep({stored}) /\ UNCHANGED eServer
  BY <1>1, <1>2, EP!ClientStepEndsLeases
<1>3. ASSUME NEW g \in Goroutine,
             EP!Begin(g, "unlock", 0, 0), EP!GiveUp(g),
             UNCHANGED <<eValues, eLate, eServer>>
      PROVE  EP!LeaseBacked'
  <2>1. eLease'[g] = 0 /\ eLate' = eLate
    BY <1>3 DEF EP!GiveUp, EP!ClientInv, EP!ClientTypeOK
  <2>. QED
    BY <1>1, <1>3, <2>1, EP!BeginOpEndsLeases
<1>4. CASE \E g \in Goroutine : EP!Eval(g, Readers)
  BY <1>4, EP!BackedEval
<1>5. CASE EP!EvalLate(Readers)
  BY <1>5, EP!BackedEvalLate
<1>6. CASE EP!Tick
  BY <1>6, EP!BackedTick
<1>7. CASE UNCHANGED eVars
  BY <1>7 DEF eVars, eServer, EP!LeaseBacked
<1>. QED
  BY <1>2, <1>3, <1>4, <1>5, <1>6, <1>7 DEF ExclusiveView

(* ... and those of the shared lock by its set of holders: an Unlock that   *)
(* falls through to it is of a goroutine without a shared lease.            *)
LEMMA SharedBacked ==
  ASSUME SP!OneWorkerPerInstance, SP!WholeSeconds, SP!UniformTTL,
         "straggle" \notin Faults,
         CombinedInv, SP!LeaseBacked, SharedView
  PROVE  SP!LeaseBacked'
<1>. USE SharedParameters DEF CombinedInv, SharedPart
<1>1. CASE SP!LeasesEndOnly /\ UNCHANGED sServer
  BY <1>1, SP!BackedKept DEF sServer, SP!serverVars
<1>2. CASE SP!ClientStep(holders) /\ UNCHANGED sServer
  BY <1>1, <1>2, SP!ClientStepEndsLeases
<1>3. ASSUME NEW g \in Goroutine, SP!GiveUp(g),
             UNCHANGED <<sValues, sCall, sLate, sServer>>
      PROVE  SP!LeaseBacked'
  BY <1>1, <1>3, SP!GiveUpInv
<1>4. ASSUME NEW g \in Goroutine, SP!Begin(g, eCall[g].op, eCall[g].ttl, 0),
             UNCHANGED <<sValues, sLate, sHeld, sLease, sServer>>
      PROVE  SP!LeaseBacked'
  <2>1. eCall[g].op = "unlock" => sLease'[g] = 0
    BY <1>4 DEF Apart
  <2>. QED
    BY <1>1, <1>4, <2>1, SP!BeginOpEndsLeases
<1>5. CASE \E g \in Goroutine : SP!Eval(g, Locked)
  BY <1>5, SP!BackedEval
<1>6. CASE SP!EvalLate(Locked)
  BY <1>6, SP!BackedEvalLate
<1>7. CASE SP!Tick
  BY <1>7, SP!BackedTick
<1>8. CASE UNCHANGED sVars
  BY <1>8 DEF sVars, sServer, SP!LeaseBacked
<1>. QED
  BY <1>2, <1>3, <1>4, <1>5, <1>6, <1>7, <1>8 DEF SharedView

(* Two clients are never within an exclusive lease at the same time, also   *)
(* when Unlock and Renew ask both lock objects; under the conditions of the *)
(* exclusive lock on its own.                                               *)
THEOREM WritersAlone ==
  ASSUME E!OneWorkerPerInstance, E!WholeSeconds, "straggle" \notin Faults
  PROVE  Spec => []WritersExclude
<1>1. EP!OneWorkerPerInstance /\ EP!WholeSeconds
  BY DEF E!OneWorkerPerInstance, EP!OneWorkerPerInstance,
         E!WholeSeconds, EP!WholeSeconds, E!Seconds, EP!Seconds
<1>2. Init => EP!LeaseBacked
  BY DEF Init, E!Init, E!ClientInit, EP!LeaseBacked
<1>3. CombinedInv /\ EP!LeaseBacked /\ [Next]_vars => EP!LeaseBacked'
  BY <1>1, ExclusiveViewed, ExclusiveBacked
<1>4. EP!LeaseBacked => WritersExclude
  BY <1>1 DEF EP!LeaseBacked, EP!OneWorkerPerInstance, WritersExclude,
     E!LeaseExclusion
<1>. QED
  BY <1>2, <1>3, <1>4, Invariant, PTL DEF Spec

LEMMA ReadersInvariant ==
  ASSUME S!OneWorkerPerInstance, S!WholeSeconds, S!UniformTTL,
         "straggle" \notin Faults
  PROVE  Spec => [](CombinedInv /\ SP!LeaseBacked)
<1>1. SP!OneWorkerPerInstance /\ SP!WholeSeconds /\ SP!UniformTTL
  BY DEF S!OneWorkerPerInstance, SP!OneWorkerPerInstance, S!WholeSeconds,
         SP!WholeSeconds, S!Seconds, SP!Seconds, S!UniformTTL, SP!UniformTTL
<1>2. Init => SP!LeaseBacked
  BY DEF Init, S!Init, S!ClientInit, SP!LeaseBacked
<1>3. CombinedInv /\ SP!LeaseBacked /\ [Next]_vars => SP!LeaseBacked'
  BY <1>1, SharedViewed, SharedBacked
<1>. QED
  BY <1>2, <1>3, Invariant, PTL DEF Spec

LEMMA BackedIsCounted ==
  ASSUME CombinedInv, SP!LeaseBacked
  PROVE  ReadersCounted
<1>. SUFFICES ASSUME NEW g \in Goroutine, sLease[g] > 0
              PROVE  count > 0 /\ \E v \in holders : v[1] = InstanceOf[g]
  BY DEF ReadersCounted, S!ReaderCounted
<1>1. sLease[g] <= sTtl /\ \E v \in holders : v[1] = InstanceOf[g]
  BY DEF SP!LeaseBacked
<1>2. /\ sLease[g] \in Nat /\ sTtl \in Nat /\ count \in Nat
      /\ count = 0 <=> sTtl = 0
  BY DEF CombinedInv, SharedPart, SP!ServerInv, SP!ClientInv, SP!ClientTypeOK
<1>. QED
  BY <1>1, <1>2

(* A reader within its lease is counted under a value of its own, also when *)
(* writers release and renew through both lock objects; under the           *)
(* conditions of the shared lock on its own.                                *)
THEOREM ReadersStayCounted ==
  ASSUME S!OneWorkerPerInstance, S!WholeSeconds, S!UniformTTL,
         "straggle" \notin Faults
  PROVE  Spec => []ReadersCounted
BY ReadersInvariant, BackedIsCounted, PTL

-----------------------------------------------------------------------------
(* Without a prefix the exclusive lock looks at the counter that the shared *)
(* lock writes.                                                             *)
LEMMA CounterFound ==
  ASSUME Prefix = <<>>
  PROVE  Readers = count
<1>1. CounterKey = CounterKeyOfExclusive
  BY DEF CounterKey, CounterKeyOfExclusive
<1>. QED
  BY <1>1 DEF Readers

(* An exclusive lease begins only with a script that finds no reader.       *)
LEMMA ExclusiveLeaseMade ==
  ASSUME CombinedInv, ExclusiveView, NEW g \in Goroutine,
         eLease[g] = 0, eLease'[g] > 0
  PROVE  Readers = 0
<1>. USE ExclusiveParameters
     DEF CombinedInv, ExclusivePart, EP!ClientInv, EP!ClientTypeOK
<1>1. CASE EP!ClientStep({stored})
  BY <1>1, EP!ClientStepEndsLeases DEF EP!LeasesEndOnly
<1>2. CASE \E h \in Goroutine : EP!GiveUp(h)
  BY <1>2 DEF EP!GiveUp
<1>3. ASSUME NEW h \in Goroutine, EP!Eval(h, Readers)
      PROVE  Readers = 0
  <2>1. PICK ok \in BOOLEAN :
          EP!Script(EP!Request(h), Readers, ok) /\ EP!Evaluated(h, ok)
    BY <1>3 DEF EP!Eval
  <2>2. ok /\ eCall[h].op = "lock"
    BY <2>1 DEF EP!Evaluated, EP!Renewed
  <2>. QED
    BY <2>1, <2>2 DEF EP!Script, EP!TryLockScript, EP!Request
<1>4. CASE EP!EvalLate(Readers)
  BY <1>4 DEF EP!EvalLate, EP!EvaluatedLate, EP!Renewed
<1>5. CASE EP!Tick
  BY <1>5 DEF EP!Tick, EP!Elapse
<1>6. CASE UNCHANGED eVars
  BY <1>6 DEF eVars
<1>. QED
  BY <1>1, <1>2, <1>3, <1>4, <1>5, <1>6 DEF ExclusiveView

(* No exclusive lease begins while a reader is within its lease, provided   *)
(* that no prefix is configured, and under the conditions of                *)
(* ReadersStayCounted.                                                      *)
THEOREM WritersWait ==
  ASSUME Prefix = <<>>,
         S!OneWorkerPerInstance, S!WholeSeconds, S!UniformTTL,
         "straggle" \notin Faults
  PROVE  Spec => WriterWaitsForReaders
<1>1. CombinedInv /\ SP!LeaseBacked /\ [Next]_vars =>
        [\A g, h \in Goroutine :
           eLease[g] = 0 /\ eLease'[g] > 0 => sLease[h] = 0]_vars
  <2>. SUFFICES ASSUME CombinedInv, SP!LeaseBacked, [Next]_vars,
                       NEW g \in Goroutine, NEW h \in Goroutine,
                       eLease[g] = 0, eLease'[g] > 0
                PROVE  sLease[h] = 0
    OBVIOUS
  <2>1. count = 0
    BY ExclusiveViewed, ExclusiveLeaseMade, CounterFound
  <2>2. sLease[h] \in Nat
    BY DEF CombinedInv, SharedPart, SP!ClientInv, SP!ClientTypeOK
  <2>. QED
    BY <2>1, <2>2, BackedIsCounted DEF ReadersCounted, S!ReaderCounted
<1>. QED
  BY <1>1, ReadersInvariant, PTL DEF Spec, WriterWaitsForReaders
===============================================================================
