-------------------------------- MODULE Mailbox --------------------------------
(***************************************************************************)
(* A session's mailbox (src/core/bus.h, bus.cpp): a short queue of bus     *)
(* messages, oldest first.  The ring buffer's head and count are a         *)
(* sequence here; a message is a record with a kind.                       *)
(***************************************************************************)
EXTENDS Naturals, Sequences, FiniteSets, SequencesExt

CONSTANT BusDepth      \* BBS_BUS_DEPTH

ASSUME MailboxAssumption == BusDepth \in Nat \ {0}

OfKind(kinds, m) == m.kind \in kinds

\* has: is a message of one of these kinds waiting?
Has(q, kinds) == \E i \in DOMAIN q : OfKind(kinds, q[i])

\* The oldest of them, once Has.
Oldest(q, kinds) ==
  CHOOSE i \in DOMAIN q :
    OfKind(kinds, q[i]) /\ \A k \in 1..(i - 1) : ~OfKind(kinds, q[k])

\* take: q without that one; the gap is closed and the rest keep their order.
Taken(q, kinds) == RemoveAt(q, Oldest(q, kinds))

\* take, over and over: the others, in their order.
AllTaken(q, kinds) ==
  LET kept   == {i \in DOMAIN q : ~OfKind(kinds, q[i])}
      nth(n) == CHOOSE i \in kept : Cardinality({k \in kept : k <= i}) = n
  IN  [n \in 1..Cardinality(kept) |-> q[nth(n)]]

\* A message is a Ring or it is not; what the others say is left out.
NotRing == {"Notice"}

\* Mutant of Room: the oldest goes, whatever it is.
RoomOldestGoes(q) == IF Len(q) < BusDepth THEN q ELSE Tail(q)

\* push: when full the oldest goes, and never a Ring while anything else can.
Room(q) ==
  IF Len(q) < BusDepth THEN q
  ELSE IF Has(q, NotRing) THEN Taken(q, NotRing) ELSE Tail(q)

Pushed(q, m) == Append(Room(q), m)

===============================================================================
