---------------------------- MODULE ReadWriteLease ----------------------------
(***************************************************************************)
(* What the library promises its callers: leases of an exclusive and of    *)
(* shared kind on one key (README.md "排他锁", "共享锁" and the table of     *)
(* compatible lock types).  A lease is the number of ticks it has left; it *)
(* ends when it runs out, when its client gives it up or when its client   *)
(* is gone.                                                                *)
(***************************************************************************)
EXTENDS Integers

CONSTANTS Client

VARIABLES exclusive, shared

vars == <<exclusive, shared>>

Holds(term, c) == term[c] > 0

Nobody(term) == \A c \in Client : ~Holds(term, c)

Init ==
  /\ exclusive = [c \in Client |-> 0]
  /\ shared = [c \in Client |-> 0]

(* An exclusive lease is granted when there is no lease at all ...          *)
GrantExclusive(c) ==
  /\ Nobody(exclusive)
  /\ Nobody(shared)
  /\ exclusive'[c] > 0
  /\ exclusive' = [exclusive EXCEPT ![c] = exclusive'[c]]
  /\ UNCHANGED shared

(* ... a shared one when there is no exclusive one.                         *)
GrantShared(c) ==
  /\ Nobody(exclusive)
  /\ shared'[c] > 0
  /\ shared' = [shared EXCEPT ![c] = shared'[c]]
  /\ UNCHANGED exclusive

(* Renew sets the rest of a lease that has not ended.                       *)
Renew(c) ==
  \/ /\ Holds(exclusive, c)
     /\ exclusive' = [exclusive EXCEPT ![c] = exclusive'[c]]
     /\ UNCHANGED shared
  \/ /\ Holds(shared, c)
     /\ shared' = [shared EXCEPT ![c] = shared'[c]]
     /\ UNCHANGED exclusive

(* Some clients have no lease any more: they gave it up, or they crashed.   *)
Without(term, C) == [c \in Client |-> IF c \in C THEN 0 ELSE term[c]]

End(C) ==
  /\ exclusive' = Without(exclusive, C)
  /\ shared' = Without(shared, C)

Less(term) == [c \in Client |-> IF Holds(term, c) THEN term[c] - 1 ELSE 0]

Pass ==
  /\ exclusive' = Less(exclusive)
  /\ shared' = Less(shared)

Next ==
  \/ Pass
  \/ \E c \in Client : GrantExclusive(c) \/ GrantShared(c) \/ Renew(c)
  \/ \E C \in SUBSET Client : End(C)

Spec == Init /\ [][Next]_vars
=============================================================================
