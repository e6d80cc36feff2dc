-------------------------- MODULE OperatorRingProofs --------------------------
(***************************************************************************)
(* What is proved of the caller's ring (OperatorRing.tla) and of the       *)
(* mailbox it goes through (Mailbox.tla), for every number of nodes, every *)
(* mailbox of at least two messages, every limit and every wrap of the     *)
(* ring's number.                                                          *)
(***************************************************************************)
EXTENDS OperatorRing, TLAPS, FiniteSetTheorems, WellFoundedInduction, SequenceTheorems

-------------------------------------------------------------------------------
(* The least of a set of numbers                                           *)

\* A set of numbers has a least: of the intervals 0..x that end in it, the smallest.
LEMMA LeastOf ==
  ASSUME NEW S, S \subseteq Nat, S # {}
  PROVE  Min(S) \in S /\ \A y \in S : Min(S) <= y
<1> DEFINE T == {0..x : x \in S}
<1>1. \A x \in S : x \in Nat
  OBVIOUS
<1>2. T \subseteq FiniteSubsetsOf(Nat) /\ T # {}
  <2>1. \A x \in S : 0..x \in SUBSET Nat /\ IsFiniteSet(0..x)
    BY <1>1, FS_Interval
  <2> QED
    BY <2>1 DEF FiniteSubsetsOf
<1> HIDE DEF T
<1>3. PICK A \in T : \A B \in T : <<B, A>> \notin StrictSubsetOrdering(Nat)
  BY <1>2, FS_StrictSubsetOrderingWellFounded, WFMin
<1> USE DEF T
<1>4. PICK x \in S : A = 0..x
  OBVIOUS
<1>5. ASSUME NEW y \in S, y < x PROVE FALSE
  <2>1. 0..y \in T /\ 0..y \subseteq A /\ x \in A /\ x \notin 0..y
    BY <1>1, <1>4, <1>5
  <2>2. 0..y \in SUBSET Nat /\ A \in SUBSET Nat
    BY <1>1, <1>4
  <2>3. <<0..y, A>> \in StrictSubsetOrdering(Nat)
    BY <2>1, <2>2 DEF StrictSubsetOrdering
  <2> QED
    BY <2>1, <2>3, <1>3
<1>6. \A y \in S : x <= y
  BY <1>1, <1>5
<1> QED
  BY <1>6 DEF Min

-------------------------------------------------------------------------------
(* The mailbox                                                             *)

\* What a mailbox holds, and how many of it.
Message == [kind : {"Notice"}] \cup [kind : {"Ring"}, seq : Nat]
Boxes   == {q \in Seq(Message) : Len(q) <= BusDepth}

\* The rings waiting in one.
RingsOf(q) == {q[i] : i \in {k \in DOMAIN q : q[k].kind = "Ring"}}

\* One of them is a message of kind Ring somewhere in it.
LEMMA RingsIs ==
  ASSUME NEW q, NEW m
  PROVE  m \in RingsOf(q) <=> \E i \in DOMAIN q : q[i].kind = "Ring" /\ q[i] = m
BY DEF RingsOf

\* Has, asked of the Rings.
LEMMA HasRing ==
  ASSUME NEW q
  PROVE  Has(q, {"Ring"}) <=> RingsOf(q) # {}
BY DEF Has, OfKind, RingsOf

\* A message is a Ring or one of the kinds that are not.
LEMMA RingOrNot ==
  ASSUME NEW m \in Message
  PROVE  ~OfKind(NotRing, m) <=> m.kind = "Ring"
BY DEF Message, OfKind, NotRing

\* take finds what has saw.
LEMMA OldestIs ==
  ASSUME NEW q \in Seq(Message), NEW kinds, Has(q, kinds)
  PROVE  Oldest(q, kinds) \in 1..Len(q) /\ OfKind(kinds, q[Oldest(q, kinds)])
<1> DEFINE S == {i \in 1..Len(q) : OfKind(kinds, q[i])}
<1>1. DOMAIN q = 1..Len(q) /\ Len(q) \in Nat
  BY LenProperties
<1>2. S \subseteq Nat /\ S # {}
  BY <1>1 DEF Has
<1>3. Min(S) \in S /\ \A y \in S : Min(S) <= y
  BY <1>2, LeastOf
<1>4. \A k \in 1..(Min(S) - 1) : ~OfKind(kinds, q[k])
  BY <1>1, <1>2, <1>3
<1>5. \E i \in DOMAIN q : OfKind(kinds, q[i]) /\ \A k \in 1..(i - 1) : ~OfKind(kinds, q[k])
  BY <1>1, <1>3, <1>4
<1> HIDE DEF S
<1> QED
  BY <1>1, <1>5 DEF Oldest

\* take removes one message of the kinds asked for, and no other.
LEMMA TakenIs ==
  ASSUME NEW q \in Seq(Message), NEW kinds, Has(q, kinds)
  PROVE  /\ Taken(q, kinds) \in Seq(Message)
         /\ Len(Taken(q, kinds)) = Len(q) - 1
         /\ \A i \in 1..Len(q) : OfKind(kinds, q[i])
              \/ \E k \in 1..(Len(q) - 1) : Taken(q, kinds)[k] = q[i]
         /\ \A k \in 1..(Len(q) - 1) : \E i \in 1..Len(q) : Taken(q, kinds)[k] = q[i]
<1> DEFINE o == Oldest(q, kinds)
           a == SubSeq(q, 1, o - 1)
           b == SubSeq(q, o + 1, Len(q))
<1>1. o \in 1..Len(q) /\ OfKind(kinds, q[o]) /\ Len(q) \in Nat
  BY OldestIs, LenProperties
<1> HIDE DEF o
<1>0. \A i \in 1..Len(q) : q[i] \in Message
  BY ElementOfSeq
<1>2. /\ a \in Seq(Message) /\ Len(a) = o - 1
      /\ \A i \in 1..(o - 1) : a[i] = q[i]
  <2>1. /\ a \in Seq(Message) /\ Len(a) = IF 1 <= o - 1 THEN o - 1 - 1 + 1 ELSE 0
        /\ \A i \in 1..(o - 1 - 1 + 1) : a[i] = q[1 + i - 1]
    <3>1. 1 \in Int /\ o - 1 \in Int /\ \A i \in 1..(o - 1) : q[i] \in Message
      BY <1>0, <1>1
    <3> HIDE DEF a
    <3> QED
      BY <3>1, SubSeqProperties DEF a
  <2> HIDE DEF a
  <2> QED
    BY <1>1, <2>1
<1>3. /\ b \in Seq(Message) /\ Len(b) = Len(q) - o
      /\ \A i \in 1..(Len(q) - o) : b[i] = q[o + i]
  <2>1. /\ b \in Seq(Message) /\ Len(b) = IF o + 1 <= Len(q) THEN Len(q) - (o + 1) + 1 ELSE 0
        /\ \A i \in 1..(Len(q) - (o + 1) + 1) : b[i] = q[(o + 1) + i - 1]
    <3>1. o + 1 \in Int /\ Len(q) \in Int /\ \A i \in (o + 1)..Len(q) : q[i] \in Message
      BY <1>0, <1>1
    <3> HIDE DEF b
    <3> QED
      BY <3>1, SubSeqProperties DEF b
  <2> HIDE DEF b
  <2>2. Len(b) = Len(q) - o /\ Len(q) - (o + 1) + 1 = Len(q) - o
    BY <1>1, <2>1
  <2>3. ASSUME NEW i \in 1..(Len(q) - o) PROVE b[i] = q[o + i]
    <3>1. (o + 1) + i - 1 = o + i
      BY <1>1
    <3> QED
      BY <2>1, <2>2, <3>1
  <2> QED
    BY <2>1, <2>2, <2>3
<1>4. Taken(q, kinds) = a \o b
  BY DEF Taken, RemoveAt, o
<1> HIDE DEF a, b
<1>5. /\ Taken(q, kinds) \in Seq(Message) /\ Len(Taken(q, kinds)) = Len(q) - 1
      /\ \A i \in 1..(Len(q) - 1) :
           Taken(q, kinds)[i] = IF i <= o - 1 THEN q[i] ELSE q[i + 1]
  <2>1. /\ a \o b \in Seq(Message)
        /\ Len(a \o b) = Len(a) + Len(b)
        /\ \A i \in 1..Len(a) + Len(b) :
             (a \o b)[i] = IF i <= Len(a) THEN a[i] ELSE b[i - Len(a)]
    BY <1>2, <1>3, ConcatProperties
  <2>2. Len(a) + Len(b) = Len(q) - 1
    BY <1>1, <1>2, <1>3
  <2>3. \A i \in 1..(Len(q) - 1) : (a \o b)[i] = IF i <= o - 1 THEN q[i] ELSE q[i + 1]
    BY <1>1, <1>2, <1>3, <2>1, <2>2
  <2> QED
    BY <1>4, <2>1, <2>2, <2>3
<1>6. ASSUME NEW i \in 1..Len(q), ~OfKind(kinds, q[i])
      PROVE  \E k \in 1..(Len(q) - 1) : Taken(q, kinds)[k] = q[i]
  <2>1. CASE i < o
    BY <1>1, <1>5, <2>1
  <2>2. CASE i > o
    <3>1. i - 1 \in 1..(Len(q) - 1) /\ Taken(q, kinds)[i - 1] = q[i]
      BY <1>1, <1>5, <2>2
    <3> QED
      BY <3>1
  <2> QED
    BY <1>1, <1>6, <2>1, <2>2
<1>7. \A k \in 1..(Len(q) - 1) : \E i \in 1..Len(q) : Taken(q, kinds)[k] = q[i]
  BY <1>1, <1>5
<1> QED
  BY <1>5, <1>6, <1>7

\* Making room keeps to the messages there are, and a Ring that waits goes on waiting:
\* it is pushed out by nothing but another Ring.
LEMMA RoomKeeps ==
  ASSUME NEW q \in Boxes
  PROVE  /\ Room(q) \in Seq(Message) /\ Len(Room(q)) < BusDepth
         /\ RingsOf(Room(q)) \subseteq RingsOf(q)
         /\ RingsOf(q) # {} => RingsOf(Room(q)) # {}
<1>0. /\ q \in Seq(Message) /\ Len(q) \in Nat /\ Len(q) <= BusDepth
      /\ \A i \in 1..Len(q) : q[i] \in Message
  BY LenProperties, ElementOfSeq DEF Boxes
<1>d. DOMAIN q = 1..Len(q)
  BY <1>0, LenProperties
<1>1. CASE Len(q) < BusDepth
  BY <1>0, <1>1 DEF Room
<1>2. CASE Len(q) = BusDepth /\ Has(q, NotRing)
  <2>1. Room(q) = Taken(q, NotRing)
    BY <1>2 DEF Room
  <2>2. /\ Room(q) \in Seq(Message) /\ Len(Room(q)) = Len(q) - 1
        /\ \A i \in 1..Len(q) : OfKind(NotRing, q[i])
             \/ \E k \in 1..(Len(q) - 1) : Room(q)[k] = q[i]
        /\ \A k \in 1..(Len(q) - 1) : \E i \in 1..Len(q) : Room(q)[k] = q[i]
    <3>1. q \in Seq(Message) /\ Has(q, NotRing)
      BY <1>0, <1>2
    <3>2. /\ Taken(q, NotRing) \in Seq(Message)
          /\ Len(Taken(q, NotRing)) = Len(q) - 1
          /\ \A i \in 1..Len(q) : OfKind(NotRing, q[i])
               \/ \E k \in 1..(Len(q) - 1) : Taken(q, NotRing)[k] = q[i]
          /\ \A k \in 1..(Len(q) - 1) : \E i \in 1..Len(q) : Taken(q, NotRing)[k] = q[i]
      BY <3>1, TakenIs
    <3> QED
      BY <2>1, <3>2
  <2>3. DOMAIN Room(q) = 1..(Len(q) - 1)
    BY <2>2, LenProperties
  <2>4. RingsOf(Room(q)) \subseteq RingsOf(q)
    <3> SUFFICES ASSUME NEW m \in RingsOf(Room(q)) PROVE m \in RingsOf(q)
      OBVIOUS
    <3>1. PICK k \in 1..(Len(q) - 1) : Room(q)[k].kind = "Ring" /\ Room(q)[k] = m
      BY <2>3, RingsIs
    <3>2. PICK i \in 1..Len(q) : Room(q)[k] = q[i]
      BY <2>2
    <3> QED
      BY <1>0, <1>d, <3>1, <3>2, RingsIs
  <2>5. RingsOf(q) # {} => RingsOf(Room(q)) # {}
    <3>1. SUFFICES ASSUME NEW i \in 1..Len(q), q[i].kind = "Ring" PROVE RingsOf(Room(q)) # {}
      BY <1>d, RingsIs
    <3>2. ~OfKind(NotRing, q[i])
      BY <1>0, <3>1, RingOrNot
    <3>3. PICK k \in 1..(Len(q) - 1) : Room(q)[k] = q[i]
      BY <2>2, <3>2
    <3>4. Room(q)[k] \in RingsOf(Room(q))
      BY <2>3, <3>1, <3>3, RingsIs
    <3> QED
      BY <3>4
  <2> QED
    BY <1>0, <1>2, <2>2, <2>4, <2>5
<1>3. CASE Len(q) = BusDepth /\ ~Has(q, NotRing)
  <2>1. Room(q) = Tail(q) /\ q # <<>>
    BY <1>0, <1>3, EmptySeq, MailboxAssumption DEF Room
  <2>2. /\ Room(q) \in Seq(Message) /\ Len(Room(q)) = Len(q) - 1
        /\ \A i \in 1..(Len(q) - 1) : Room(q)[i] = q[i + 1]
    BY <1>0, <2>1, HeadTailProperties
  <2>3. DOMAIN Room(q) = 1..(Len(q) - 1)
    BY <2>2, LenProperties
  <2>4. \A i \in 1..Len(q) : q[i].kind = "Ring"
    BY <1>0, <1>d, <1>3, RingOrNot DEF Has
  <2>5. RingsOf(Room(q)) \subseteq RingsOf(q)
    <3> SUFFICES ASSUME NEW m \in RingsOf(Room(q)) PROVE m \in RingsOf(q)
      OBVIOUS
    <3>1. PICK k \in 1..(Len(q) - 1) : Room(q)[k].kind = "Ring" /\ Room(q)[k] = m
      BY <2>3, RingsIs
    <3>2. k + 1 \in 1..Len(q) /\ Room(q)[k] = q[k + 1]
      BY <1>0, <2>2
    <3> QED
      BY <1>0, <1>d, <3>1, <3>2, RingsIs
  <2>6. RingsOf(Room(q)) # {}
    <3>1. 1 \in 1..(Len(q) - 1) /\ 2 \in 1..Len(q) /\ Room(q)[1] = q[2]
      BY <1>0, <1>3, <2>2, RingAssumption
    <3>2. Room(q)[1] \in RingsOf(Room(q))
      BY <2>3, <2>4, <3>1, RingsIs
    <3> QED
      BY <3>2
  <2> QED
    BY <1>0, <1>3, <2>2, <2>5, <2>6
<1>4. Len(q) < BusDepth \/ Len(q) = BusDepth
  BY <1>0, MailboxAssumption
<1> QED
  BY <1>1, <1>2, <1>3, <1>4

\* push keeps the mailbox within its depth and a waiting Ring in it; the only Ring it
\* may add is the message itself.
LEMMA PushedKeeps ==
  ASSUME NEW q \in Boxes, NEW m \in Message
  PROVE  /\ Pushed(q, m) \in Boxes
         /\ \A r \in RingsOf(Pushed(q, m)) : r \in RingsOf(q) \/ (r = m /\ m.kind = "Ring")
         /\ RingsOf(q) # {} => RingsOf(Pushed(q, m)) # {}
         /\ m.kind = "Ring" => RingsOf(Pushed(q, m)) # {}
<1> DEFINE R == Room(q)
<1>1. /\ R \in Seq(Message) /\ Len(R) < BusDepth /\ Len(R) \in Nat
      /\ RingsOf(R) \subseteq RingsOf(q) /\ (RingsOf(q) # {} => RingsOf(R) # {})
  BY RoomKeeps, LenProperties
<1>2. Pushed(q, m) = Append(R, m)
  BY DEF Pushed
<1> HIDE DEF R
<1>3. /\ Append(R, m) \in Seq(Message)
      /\ Len(Append(R, m)) = Len(R) + 1
      /\ \A i \in 1..Len(R) : Append(R, m)[i] = R[i]
      /\ Append(R, m)[Len(R) + 1] = m
  BY <1>1, AppendProperties
<1>4. DOMAIN R = 1..Len(R) /\ DOMAIN Append(R, m) = 1..(Len(R) + 1)
  BY <1>1, <1>3, LenProperties
<1>5. Append(R, m) \in Boxes
  BY <1>1, <1>3, MailboxAssumption DEF Boxes
<1>6. ASSUME NEW r \in RingsOf(Append(R, m))
      PROVE  r \in RingsOf(R) \/ (r = m /\ m.kind = "Ring")
  <2>1. PICK i \in 1..(Len(R) + 1) : Append(R, m)[i].kind = "Ring" /\ Append(R, m)[i] = r
    BY <1>4, RingsIs
  <2>2. CASE i \in 1..Len(R)
    BY <1>3, <1>4, <2>1, <2>2, RingsIs
  <2>3. CASE i = Len(R) + 1
    BY <1>3, <2>1, <2>3
  <2>4. i \in 1..Len(R) \/ i = Len(R) + 1
    BY <1>1
  <2> QED
    BY <2>2, <2>3, <2>4
<1>7. ASSUME NEW r \in RingsOf(R) PROVE r \in RingsOf(Append(R, m))
  <2>1. PICK i \in 1..Len(R) : R[i].kind = "Ring" /\ R[i] = r
    BY <1>4, RingsIs
  <2>2. i \in 1..(Len(R) + 1) /\ Append(R, m)[i] = r
    BY <1>1, <1>3, <2>1
  <2> QED
    BY <1>4, <2>1, <2>2, RingsIs
<1>8. ASSUME m.kind = "Ring" PROVE m \in RingsOf(Append(R, m))
  <2>1. Len(R) + 1 \in 1..(Len(R) + 1)
    BY <1>1
  <2> QED
    BY <1>3, <1>4, <1>8, <2>1, RingsIs
<1> QED
  BY <1>1, <1>2, <1>5, <1>6, <1>7, <1>8

\* The numbers from 1 to n are n.
LEMMA UpTo ==
  ASSUME NEW n \in Nat
  PROVE  IsFiniteSet(1..n) /\ Cardinality(1..n) = n
<1>1. Cardinality(1..n) = IF 1 > n THEN 0 ELSE n - 1 + 1
  BY FS_Interval
<1> QED
  BY <1>1, FS_Interval

\* The members of K up to i.
First(K, i) == {k \in K : k <= i}

\* A count of some numbers, one at a time, misses none of the numbers it could be: among
\* the members of K there is an nth.
LEMMA NthOf ==
  ASSUME NEW top \in Nat, NEW K, K \subseteq 1..top, NEW n \in 1..Cardinality(K)
  PROVE  \E i \in K : Cardinality(First(K, i)) = n
<1> DEFINE Below(m) == First(K, m)
           S == {m \in Nat : n <= Cardinality(Below(m))}
<1>0. \A k \in K : k \in Nat /\ 1 <= k /\ k <= top
  OBVIOUS
<1>1. IsFiniteSet(K) /\ Cardinality(K) \in Nat
  <2>1. IsFiniteSet(1..top)
    BY FS_Interval
  <2> QED
    BY <2>1, FS_Subset, FS_CardinalityType
<1>2. \A m \in Nat : IsFiniteSet(Below(m)) /\ Cardinality(Below(m)) \in Nat
  BY <1>1, FS_Subset, FS_CardinalityType DEF First
<1>3. Below(top) = K /\ Below(0) = {}
  <2>1. \A k \in K : k <= top /\ ~(k <= 0)
    BY <1>0
  <2> QED
    BY <2>1 DEF First
<1>4. top \in S /\ 0 \notin S
  <2>1. Cardinality(Below(0)) = 0
    BY <1>3, FS_EmptySet
  <2> QED
    BY <1>1, <1>3, <2>1
<1>5. Min(S) \in S /\ \A m \in S : Min(S) <= m
  BY <1>4, LeastOf
<1> DEFINE i == Min(S)
<1>6. i \in Nat \ {0} /\ n <= Cardinality(Below(i)) /\ ~(n <= Cardinality(Below(i - 1)))
  <2>1. i \in Nat /\ i # 0 /\ n <= Cardinality(Below(i))
    BY <1>4, <1>5
  <2>2. i - 1 \in Nat /\ ~(i <= i - 1)
    BY <2>1
  <2>3. i - 1 \notin S
    BY <1>5, <2>2
  <2> QED
    BY <2>1, <2>2, <2>3
<1> HIDE DEF S, i
<1>7. CASE i \in K
  <2>0. i - 1 \in Nat /\ ~(i <= i - 1) /\ \A k \in K : k <= i <=> k <= i - 1 \/ k = i
    BY <1>0, <1>6
  <2>1. Below(i) = Below(i - 1) \cup {i} /\ i \notin Below(i - 1)
    BY <1>7, <2>0 DEF First
  <2>3. IsFiniteSet(Below(i - 1)) /\ Cardinality(Below(i - 1)) \in Nat
    BY <1>2, <2>0
  <2> HIDE DEF Below
  <2>2. Cardinality(Below(i)) = Cardinality(Below(i - 1)) + 1
    BY <2>1, <2>3, FS_AddElement
  <2>4. Cardinality(Below(i)) = n
    BY <1>1, <1>6, <2>2, <2>3
  <2> QED
    BY <1>7, <2>4 DEF Below
<1>8. CASE i \notin K
  <2>0. \A k \in K : k <= i <=> k <= i - 1
    BY <1>0, <1>6, <1>8
  <2>1. Below(i) = Below(i - 1)
    BY <2>0 DEF First
  <2> QED
    BY <1>6, <2>1
<1> QED
  BY <1>7, <1>8

\* take, over and over, leaves no Ring, and nothing that was not there.
LEMMA AllTakenIs ==
  ASSUME NEW q \in Boxes
  PROVE  AllTaken(q, {"Ring"}) \in Boxes /\ RingsOf(AllTaken(q, {"Ring"})) = {}
<1> DEFINE kept   == {i \in DOMAIN q : ~OfKind({"Ring"}, q[i])}
           nth(n) == CHOOSE i \in kept : Cardinality({k \in kept : k <= i}) = n
           c      == Cardinality(kept)
           T      == [n \in 1..c |-> q[nth(n)]]
<1>1. q \in Seq(Message) /\ Len(q) \in Nat /\ Len(q) <= BusDepth
  BY LenProperties DEF Boxes
<1>d. DOMAIN q = 1..Len(q)
  BY <1>1, LenProperties
<1>2. kept \subseteq 1..Len(q) /\ \A i \in kept : q[i] \in Message /\ q[i].kind # "Ring"
  BY <1>d, <1>1, ElementOfSeq DEF OfKind
<1>3. c \in Nat /\ c <= Len(q)
  <2>1. IsFiniteSet(1..Len(q)) /\ Cardinality(1..Len(q)) = Len(q)
    BY <1>1, UpTo
  <2> QED
    BY <1>2, <2>1, FS_Subset, FS_CardinalityType
<1>4. \A n \in 1..c : nth(n) \in kept
  <2> SUFFICES ASSUME NEW n \in 1..c PROVE nth(n) \in kept
    OBVIOUS
  <2>1. \E i \in kept : Cardinality({k \in kept : k <= i}) = n
    <3>1. kept \subseteq 1..Len(q) /\ Len(q) \in Nat /\ n \in 1..Cardinality(kept)
      BY <1>1, <1>2
    <3> HIDE DEF kept
    <3>2. \E i \in kept : Cardinality(First(kept, i)) = n
      BY <3>1, NthOf
    <3> QED
      BY <3>2 DEF First
  <2> HIDE DEF kept
  <2> QED
    BY <2>1
<1>5. \A n \in 1..c : q[nth(n)] \in Message /\ q[nth(n)].kind # "Ring"
  BY <1>2, <1>4
<1>6. AllTaken(q, {"Ring"}) = T
  BY DEF AllTaken
<1> HIDE DEF c, kept, nth
<1>7. T \in [1..c -> Message] /\ \A n \in 1..c : T[n].kind # "Ring"
  BY <1>5
<1> HIDE DEF T
<1>8. T \in Seq(Message) /\ Len(T) = c
  BY <1>3, <1>7
<1>9. T \in Boxes
  BY <1>1, <1>3, <1>8, MailboxAssumption DEF Boxes
<1>10. RingsOf(T) = {}
  <2>1. DOMAIN T = 1..c
    BY <1>7
  <2> QED
    BY <1>7, <2>1, RingsIs
<1> QED
  BY <1>6, <1>9, <1>10

\* What is left when the first k messages have been shown.
LEMMA RestIs ==
  ASSUME NEW q \in Boxes, NEW k \in DOMAIN q
  PROVE  /\ SubSeq(q, k + 1, Len(q)) \in Boxes
         /\ RingsOf(SubSeq(q, k + 1, Len(q))) \subseteq RingsOf(q)
         /\ RingsOf(q) # {} /\ (\A i \in 1..k : q[i].kind # "Ring")
              => RingsOf(SubSeq(q, k + 1, Len(q))) # {}
<1> DEFINE b == SubSeq(q, k + 1, Len(q))
<1>1. q \in Seq(Message) /\ Len(q) \in Nat /\ Len(q) <= BusDepth
  BY LenProperties DEF Boxes
<1>d. DOMAIN q = 1..Len(q)
  BY <1>1, LenProperties
<1>k. k \in 1..Len(q)
  BY <1>d
<1>2. \A i \in (k + 1)..Len(q) : q[i] \in Message
  BY <1>1, <1>k, ElementOfSeq
<1>3. /\ b \in Seq(Message) /\ Len(b) = IF k + 1 <= Len(q) THEN Len(q) - (k + 1) + 1 ELSE 0
      /\ \A i \in 1..(Len(q) - (k + 1) + 1) : b[i] = q[(k + 1) + i - 1]
  <2>1. k + 1 \in Int /\ Len(q) \in Int
    BY <1>1, <1>k
  <2> HIDE DEF b
  <2> QED
    BY <1>2, <2>1, SubSeqProperties, SMTT(30) DEF b
<1> HIDE DEF b
<1>4. Len(b) = Len(q) - k /\ Len(q) - (k + 1) + 1 = Len(q) - k
  BY <1>1, <1>k, <1>3
<1>5. ASSUME NEW i \in 1..(Len(q) - k) PROVE b[i] = q[k + i] /\ k + i \in 1..Len(q)
  <2>1. (k + 1) + i - 1 = k + i
    BY <1>k
  <2>2. b[i] = q[(k + 1) + i - 1]
    BY <1>3, <1>4
  <2> QED
    BY <1>1, <1>k, <2>1, <2>2
<1>6. DOMAIN b = 1..(Len(q) - k)
  BY <1>3, <1>4, LenProperties
<1>7. RingsOf(b) \subseteq RingsOf(q)
  <2> SUFFICES ASSUME NEW m \in RingsOf(b) PROVE m \in RingsOf(q)
    OBVIOUS
  <2>1. PICK i \in 1..(Len(q) - k) : b[i].kind = "Ring" /\ b[i] = m
    BY <1>6, RingsIs
  <2> QED
    BY <1>d, <1>5, <2>1, RingsIs
<1>8. ASSUME RingsOf(q) # {}, \A i \in 1..k : q[i].kind # "Ring"
      PROVE  RingsOf(b) # {}
  <2>1. PICK i \in 1..Len(q) : q[i].kind = "Ring"
    BY <1>8, <1>d, RingsIs
  <2>2. i - k \in 1..(Len(q) - k) /\ k + (i - k) = i
    BY <1>1, <1>k, <1>8, <2>1
  <2>3. b[i - k] = q[i]
    BY <1>5, <2>2
  <2>4. b[i - k] \in RingsOf(b)
    BY <1>6, <2>1, <2>2, <2>3, RingsIs
  <2> QED
    BY <2>4
<1>9. b \in Boxes
  BY <1>1, <1>3, <1>4, <1>k, MailboxAssumption DEF Boxes
<1> QED
  BY <1>7, <1>8, <1>9 DEF b

-------------------------------------------------------------------------------
(* The inductive invariant                                                 *)

States == {"Free", "Shell", "Plugin", "Form", "Watch", "Snoop",
           "RingWhy", "Ringing", "RingAsk", "Closing"}

Session ==
  [st : States, owner : {"none", "room", "other"}, sysop : BOOLEAN, here : BOOLEAN,
   out : BOOLEAN, mb : Boxes, rung : Nat, wait : Nat]

Sessions == [Slots -> Session]

RingType ==
  /\ ses \in Sessions
  /\ ring \in [from : 0..SysopSlot, to : 0..SysopSlot, shown : BOOLEAN, left : Nat]
  /\ seq \in Nat
  /\ used \in [Slots -> Nat] /\ gap \in [Slots -> Nat]
  /\ turn \in 1..PassTail

\* Who is waiting on a ring is its caller, and both its ends are on the line.
EndsAreOn(u) ==
  /\ ses[u].st = "Ringing" => ring.from = u
  /\ Live /\ u \in {ring.from, ring.to} => InUse(ses, u)

\* A Ring in the mail is the running ring's, and it is there until it has been shown.
MailIsTheRings(u) ==
  /\ \A m \in RingsOf(ses[u].mb) : RingLive(u, m)
  /\ RungHere(u) /\ ~ring.shown => RingsOf(ses[u].mb) # {}

\* The question about the running ring is on a sysop's screen, and has been shown.
QuestionIsShown(u) ==
  ses[u].st = "RingAsk" /\ RungHere(u) => ring.shown /\ ses[u].sysop

\* The allowance is the caller's own.
AllowanceIsOwn(u) ==
  InUse(ses, u) =>
    /\ ses[u].rung <= kPerCall
    /\ used[u] = ses[u].rung
    /\ used[u] > 0 => gap[u] = ses[u].wait

\* A sysop who has stepped down with a Ring in the mail is not shown it: what the command
\* printed is still going out in this turn, and the ring ends before the slot's next.
StepDownHoldsBack(u) ==
  RingsOf(ses[u].mb) # {} /\ ~ses[u].sysop /\ ses[u].st \in {"Shell", "Plugin"}
    => turn > u \/ (turn = u /\ ses[u].out)

SlotInv(u) ==
  /\ EndsAreOn(u)
  /\ MailIsTheRings(u)
  /\ QuestionIsShown(u)
  /\ AllowanceIsOwn(u)
  /\ StepDownHoldsBack(u)

RingInv ==
  /\ RingType
  /\ Live => ring.from \in Slots /\ ring.to \in Slots
  /\ RingsAreSettled
  /\ \A u \in Slots : SlotInv(u)

-------------------------------------------------------------------------------
(* What the operations do to the sessions                                  *)

\* A slot is a number, and so is its place in a pass.
LEMMA SlotsAre ==
  /\ SysopSlot \in Slots /\ None \notin Slots /\ PassTail \notin Slots
  /\ \A s \in Slots : s \in Nat /\ s \in 0..SysopSlot /\ s \in 1..PassTail /\ s + 1 \in 1..PassTail
BY RingAssumption DEF SysopSlot, Slots, None, PassTail

\* A slot nobody is on holds no mail.
LEMMA FreeIs ==
  /\ Free \in Session /\ RingsOf(Free.mb) = {}
  /\ [Free EXCEPT !.st = "Shell"] \in Session
<1>1. <<>> \in Boxes
  BY EmptySeq, MailboxAssumption DEF Boxes
<1>2. RingsOf(<<>>) = {}
  BY DEF RingsOf
<1> QED
  BY <1>1, <1>2 DEF Free, Session, States

\* T is S with session s at state st, and something printed to it.
PrintsTo(S, T, s, st) ==
  /\ T \in Sessions
  /\ \A u \in Slots \ {s} : T[u] = S[u]
  /\ T[s].st = st /\ T[s].sysop = S[s].sysop /\ T[s].here = S[s].here /\ T[s].mb = S[s].mb
  /\ T[s].rung = S[s].rung /\ T[s].wait = S[s].wait
  /\ RingsOf(S[s].mb) # {} => T[s].out

\* Printed marks the output of the one session it prints to.
LEMMA PrintedIs ==
  ASSUME NEW S \in Sessions, NEW s \in Slots
  PROVE  PrintsTo(S, Printed(S, s), s, S[s].st)
<1> DEFINE o == S[s].st = "RingAsk" \/ Has(S[s].mb, {"Ring"})
           T == [S EXCEPT ![s].out = o]
<1>1. o \in BOOLEAN /\ (RingsOf(S[s].mb) # {} => o)
  BY HasRing DEF Has
<1> HIDE DEF o
<1>2. PrintsTo(S, T, s, S[s].st)
  BY <1>1 DEF PrintsTo, Sessions, Session
<1> QED
  BY <1>2 DEF Printed, o

\* A screen of its own changes the state of that session and prints.
LEMMA ScreenIs ==
  ASSUME NEW S \in Sessions, NEW s \in Slots, NEW st \in States
  PROVE  PrintsTo(S, Screen(S, s, st), s, st)
<1> DEFINE R == [S EXCEPT ![s].st = st]
<1>1. /\ R \in Sessions /\ \A u \in Slots \ {s} : R[u] = S[u]
      /\ R[s].st = st /\ R[s].sysop = S[s].sysop
      /\ R[s].here = S[s].here /\ R[s].mb = S[s].mb
      /\ R[s].rung = S[s].rung /\ R[s].wait = S[s].wait
  BY DEF Sessions, Session
<1>2. Screen(S, s, st) = Printed(R, s)
  BY DEF Screen
<1> HIDE DEF R
<1>3. PrintsTo(R, Printed(R, s), s, R[s].st)
  BY <1>1, PrintedIs
<1> QED
  BY <1>1, <1>2, <1>3 DEF PrintsTo

\* Back to a plugin or to the prompt.
LEMMA RingBackIs ==
  ASSUME NEW S \in Sessions, NEW s \in Slots
  PROVE  \E st \in {"Shell", "Plugin"} : PrintsTo(S, RingBack(S, s), s, st)
<1> DEFINE st == IF S[s].owner = "none" THEN "Shell" ELSE "Plugin"
<1>1. st \in States /\ st \in {"Shell", "Plugin"}
  BY DEF States
<1>2. RingBack(S, s) = Screen(S, s, st)
  BY DEF RingBack
<1> HIDE DEF st
<1>3. PrintsTo(S, Screen(S, s, st), s, st)
  BY <1>1, ScreenIs
<1> QED
  BY <1>1, <1>2, <1>3

\* Into a plugin.
LEMMA EnterPluginIs ==
  ASSUME NEW S \in Sessions, NEW s \in Slots, NEW p \in {"room", "other"}
  PROVE  PrintsTo(S, EnterPlugin(S, s, p), s, "Plugin")
<1> DEFINE R == [S EXCEPT ![s].owner = p]
<1>1. /\ R \in Sessions /\ \A u \in Slots \ {s} : R[u] = S[u]
      /\ R[s].st = S[s].st /\ R[s].sysop = S[s].sysop
      /\ R[s].here = S[s].here /\ R[s].mb = S[s].mb
      /\ R[s].rung = S[s].rung /\ R[s].wait = S[s].wait
  BY DEF Sessions, Session
<1>2. EnterPlugin(S, s, p) = Screen(R, s, "Plugin")
  BY DEF EnterPlugin
<1> HIDE DEF R
<1>3. PrintsTo(R, Screen(R, s, "Plugin"), s, "Plugin")
  <2>1. "Plugin" \in States
    BY DEF States
  <2> QED
    BY <1>1, <2>1, ScreenIs
<1> QED
  BY <1>1, <1>2, <1>3 DEF PrintsTo

\* T is S with the message m posted to session s.
PostsTo(S, T, s, m) ==
  /\ T \in Sessions
  /\ \A u \in Slots \ {s} : T[u] = S[u]
  /\ T[s].st = S[s].st /\ T[s].sysop = S[s].sysop /\ T[s].here = S[s].here
  /\ T[s].out = S[s].out /\ T[s].rung = S[s].rung /\ T[s].wait = S[s].wait
  /\ \A r \in RingsOf(T[s].mb) : r \in RingsOf(S[s].mb) \/ (r = m /\ m.kind = "Ring")
  /\ RingsOf(S[s].mb) # {} \/ m.kind = "Ring" => RingsOf(T[s].mb) # {}

\* A message posted changes one mailbox.
LEMMA PostIs ==
  ASSUME NEW S \in Sessions, NEW s \in Slots, NEW m \in Message
  PROVE  PostsTo(S, Post(S, s, m), s, m)
<1> DEFINE q == Pushed(S[s].mb, m)
           T == [S EXCEPT ![s].mb = q]
<1>1. S[s].mb \in Boxes
  BY DEF Sessions, Session
<1>2. /\ q \in Boxes
      /\ \A r \in RingsOf(q) : r \in RingsOf(S[s].mb) \/ (r = m /\ m.kind = "Ring")
      /\ RingsOf(S[s].mb) # {} \/ m.kind = "Ring" => RingsOf(q) # {}
  BY <1>1, PushedKeeps
<1> HIDE DEF q
<1>3. /\ T \in Sessions /\ \A u \in Slots \ {s} : T[u] = S[u]
      /\ T[s].st = S[s].st /\ T[s].sysop = S[s].sysop
      /\ T[s].here = S[s].here /\ T[s].out = S[s].out
      /\ T[s].rung = S[s].rung /\ T[s].wait = S[s].wait /\ T[s].mb = q
  BY <1>2 DEF Sessions, Session
<1>4. Post(S, s, m) = T
  BY DEF Post, q
<1> HIDE DEF T
<1> QED
  BY <1>2, <1>3, <1>4 DEF PostsTo

\* T is S with some more notices in the mail.
Notices(S, T) ==
  /\ T \in Sessions
  /\ \A u \in Slots :
       /\ T[u].st = S[u].st /\ T[u].sysop = S[u].sysop /\ T[u].out = S[u].out
       /\ T[u].here = S[u].here /\ T[u].rung = S[u].rung /\ T[u].wait = S[u].wait
       /\ RingsOf(T[u].mb) \subseteq RingsOf(S[u].mb)
       /\ RingsOf(S[u].mb) # {} => RingsOf(T[u].mb) # {}

\* An arrival or a departure is one more notice for some sysops.
LEMMA NoticeAllIs ==
  ASSUME NEW S \in Sessions, NEW about
  PROVE  Notices(S, NoticeAll(S, about))
<1> DEFINE n == [kind |-> "Notice"]
           q(u) == Pushed(S[u].mb, n)
           T == NoticeAll(S, about)
<1>1. n \in Message /\ n.kind # "Ring"
  BY DEF Message
<1>2. \A u \in Slots : S[u] \in Session /\ S[u].mb \in Boxes
  BY DEF Sessions, Session
<1> HIDE DEF n
<1>3. \A u \in Slots : /\ q(u) \in Boxes /\ RingsOf(q(u)) \subseteq RingsOf(S[u].mb)
                       /\ RingsOf(S[u].mb) # {} => RingsOf(q(u)) # {}
  BY <1>1, <1>2, PushedKeeps
<1>4. T = [u \in Slots |-> IF u # about /\ InUse(S, u) /\ S[u].sysop
                            THEN [S[u] EXCEPT !.mb = q(u)] ELSE S[u]]
  BY DEF NoticeAll, n
<1> HIDE DEF q, T
<1>5. \A u \in Slots : T[u] = S[u] \/ T[u] = [S[u] EXCEPT !.mb = q(u)]
  BY <1>4
<1>6. T \in Sessions
  <2>1. \A u \in Slots : [S[u] EXCEPT !.mb = q(u)] \in Session
    BY <1>2, <1>3 DEF Session
  <2> QED
    BY <1>2, <1>4, <2>1 DEF Sessions
<1>7. ASSUME NEW u \in Slots
      PROVE  /\ T[u].st = S[u].st /\ T[u].sysop = S[u].sysop /\ T[u].out = S[u].out
             /\ T[u].here = S[u].here /\ T[u].rung = S[u].rung /\ T[u].wait = S[u].wait
             /\ RingsOf(T[u].mb) \subseteq RingsOf(S[u].mb)
             /\ RingsOf(S[u].mb) # {} => RingsOf(T[u].mb) # {}
  <2>1. CASE T[u] = S[u]
    BY <2>1
  <2>2. CASE T[u] = [S[u] EXCEPT !.mb = q(u)]
    <3>1. /\ T[u].st = S[u].st /\ T[u].sysop = S[u].sysop /\ T[u].out = S[u].out
          /\ T[u].here = S[u].here /\ T[u].rung = S[u].rung /\ T[u].wait = S[u].wait
          /\ T[u].mb = q(u)
      BY <1>2, <2>2 DEF Session
    <3> QED
      BY <1>3, <3>1
  <2> QED
    BY <1>5, <2>1, <2>2
<1>8. Notices(S, T)
  BY <1>6, <1>7 DEF Notices
<1> QED
  BY <1>8 DEF T

-------------------------------------------------------------------------------
(* Steps a ring does not notice, and steps that end it                     *)

\* T leaves what the ring rests on in slot u as it is in S: no caller begins to wait, no
\* Ring comes or goes, no question goes up, the allowance stays, and a session that is not
\* a sysop's comes no nearer to its mail.
QuietAt(S, T, u) ==
  /\ T[u].st = "Ringing" => S[u].st = "Ringing"
  /\ RingsOf(T[u].mb) \subseteq RingsOf(S[u].mb)
  /\ RingsOf(S[u].mb) # {} => RingsOf(T[u].mb) # {}
  /\ T[u].st = "RingAsk" => S[u].st = "RingAsk" /\ T[u].sysop = S[u].sysop
  /\ T[u].st # "Free" => S[u].st # "Free" /\ T[u].rung = S[u].rung /\ T[u].wait = S[u].wait
  /\ RingsOf(T[u].mb) # {} /\ ~T[u].sysop /\ T[u].st \in {"Shell", "Plugin"} =>
       \/ ~S[u].sysop /\ S[u].st \in {"Shell", "Plugin"} /\ T[u].out = S[u].out
       \/ turn = u /\ T[u].out
  /\ Live /\ u \in {ring.from, ring.to} /\ S[u].st # "Free" => T[u].st # "Free"

Quiet(S, T) == S \in Sessions /\ T \in Sessions /\ \A u \in Slots : QuietAt(S, T, u)

\* What a step changes in one slot only needs to be looked at there.
LEMMA QuietOnly ==
  ASSUME NEW S \in Sessions, NEW T \in Sessions, NEW s \in Slots,
         \A u \in Slots \ {s} : T[u] = S[u], QuietAt(S, T, s)
  PROVE  Quiet(S, T)
BY DEF Quiet, QuietAt

\* One after the other they are quiet together.
LEMMA QuietTwice ==
  ASSUME NEW S, NEW T, NEW R, Quiet(S, T), Quiet(T, R)
  PROVE  Quiet(S, R)
<1> SUFFICES ASSUME NEW u \in Slots PROVE QuietAt(S, R, u)
  BY DEF Quiet
<1>1. QuietAt(S, T, u) /\ QuietAt(T, R, u)
  BY DEF Quiet
<1> QED
  BY <1>1 DEF QuietAt

\* A screen printed in the session's own turn is, short of ringing and of the question.
LEMMA PrintsQuiet ==
  ASSUME NEW S \in Sessions, NEW T, NEW s \in Slots, turn = s, S[s].st # "Free",
         NEW st, st = S[s].st \/ st \notin {"Free", "Ringing", "RingAsk"},
         PrintsTo(S, T, s, st)
  PROVE  Quiet(S, T)
<1>1. QuietAt(S, T, s)
  BY DEF QuietAt, PrintsTo
<1> QED
  BY <1>1, QuietOnly DEF PrintsTo

\* A notice is, to whomever.
LEMMA PostsQuiet ==
  ASSUME NEW S \in Sessions, NEW T, NEW s \in Slots, NEW m, m.kind # "Ring",
         PostsTo(S, T, s, m)
  PROVE  Quiet(S, T)
<1>1. QuietAt(S, T, s)
  BY DEF QuietAt, PostsTo
<1> QED
  BY <1>1, QuietOnly DEF PostsTo

\* And to every sysop.
LEMMA NoticesQuiet ==
  ASSUME NEW S \in Sessions, NEW T, Notices(S, T)
  PROVE  Quiet(S, T)
BY DEF Notices, Quiet, QuietAt

\* A step that is quiet and touches nothing but the sessions keeps the invariant, whether
\* or not the slot's turn ends with it.
LEMMA QuietKeeps ==
  ASSUME RingInv, Quiet(ses, ses'), UNCHANGED <<ring, seq, owed, used, gap>>,
         turn' = turn \/ (turn \in Slots /\ turn' = turn + 1)
  PROVE  RingInv'
<1>1. RingType'
  BY SlotsAre DEF RingInv, RingType, Quiet
<1>2. ASSUME NEW u \in Slots PROVE SlotInv(u)'
  <2>1. SlotInv(u) /\ QuietAt(ses, ses', u)
    BY DEF RingInv, Quiet
  <2>2. EndsAreOn(u)'
    BY <2>1 DEF SlotInv, QuietAt, EndsAreOn, Live, InUse
  <2>3. MailIsTheRings(u)'
    BY <2>1 DEF SlotInv, QuietAt, MailIsTheRings, RingLive, RungHere, Live
  <2>4. QuestionIsShown(u)'
    BY <2>1 DEF SlotInv, QuietAt, QuestionIsShown, RungHere, Live
  <2>5. AllowanceIsOwn(u)'
    BY <2>1 DEF SlotInv, QuietAt, AllowanceIsOwn, InUse
  <2>6. StepDownHoldsBack(u)'
    BY <2>1, SlotsAre DEF SlotInv, QuietAt, StepDownHoldsBack
  <2> QED
    BY <2>2, <2>3, <2>4, <2>5, <2>6 DEF SlotInv
<1>3. RingsAreSettled' /\ (Live' => ring'.from \in Slots /\ ring'.to \in Slots)
  BY DEF RingInv, RingsAreSettled, Live
<1> QED
  BY <1>1, <1>2, <1>3 DEF RingInv

\* T is S with no ring in it: nobody waits, no Ring is in any mail, and whoever is on the
\* line has been there all along, with the allowance they had.
Settled(S, T) ==
  /\ S \in Sessions /\ T \in Sessions
  /\ \A u \in Slots :
       /\ T[u].st # "Ringing"
       /\ RingsOf(T[u].mb) = {}
       /\ T[u].st # "Free" => S[u].st # "Free" /\ T[u].rung = S[u].rung /\ T[u].wait = S[u].wait

\* A step that ends the ring so keeps the invariant.
LEMMA SettledKeeps ==
  ASSUME RingInv, Live, Settled(ses, ses'), ring' = NoRing, owed' = owed - 1,
         turn' \in 1..PassTail, UNCHANGED <<seq, used, gap>>
  PROVE  RingInv'
<1>1. RingType'
  BY SlotsAre DEF RingInv, RingType, Settled, NoRing, None, SysopSlot
<1>2. ~Live'
  BY DEF Live, NoRing
<1>3. ASSUME NEW u \in Slots PROVE SlotInv(u)'
  <2>1. AllowanceIsOwn(u)
    BY DEF RingInv, SlotInv
  <2>2. AllowanceIsOwn(u)'
    BY <2>1 DEF Settled, AllowanceIsOwn, InUse
  <2>3. EndsAreOn(u)' /\ MailIsTheRings(u)' /\ QuestionIsShown(u)' /\ StepDownHoldsBack(u)'
    BY <1>2 DEF Settled, EndsAreOn, MailIsTheRings, QuestionIsShown, StepDownHoldsBack, RungHere
  <2> QED
    BY <2>2, <2>3 DEF SlotInv
<1>4. RingsAreSettled'
  BY <1>2 DEF RingInv, RingsAreSettled
<1> QED
  BY <1>1, <1>2, <1>3, <1>4 DEF RingInv

\* T is S with no Ring in any mail: the same sessions, none of whom begins to wait.
Cleared(S, T) ==
  /\ T \in Sessions
  /\ \A u \in Slots :
       /\ RingsOf(T[u].mb) = {}
       /\ T[u].st = "Ringing" => S[u].st = "Ringing"
       /\ T[u].st # "Free" <=> S[u].st # "Free"
       /\ T[u].rung = S[u].rung /\ T[u].wait = S[u].wait

\* Printing to somebody who is there brings no Ring back.
LEMMA ClearedPrints ==
  ASSUME NEW S, NEW T, NEW R, Cleared(S, T), NEW s \in Slots, S[s].st # "Free",
         NEW st, st = T[s].st \/ st \notin {"Free", "Ringing"}, PrintsTo(T, R, s, st)
  PROVE  Cleared(S, R)
<1>1. ASSUME NEW u \in Slots
      PROVE  /\ RingsOf(R[u].mb) = {}
             /\ R[u].st = "Ringing" => T[u].st = "Ringing"
             /\ R[u].st # "Free" <=> S[u].st # "Free"
             /\ R[u].rung = S[u].rung /\ R[u].wait = S[u].wait
  BY DEF Cleared, PrintsTo
<1> QED
  BY <1>1 DEF Cleared, PrintsTo

\* The sessions of a running ring: only its caller waits, and only its sysop has a Ring.
RingIn(S) ==
  /\ S \in Sessions /\ ring.from \in Slots /\ ring.to \in Slots
  /\ \A u \in Slots : /\ S[u].st = "Ringing" => u = ring.from
                      /\ RingsOf(S[u].mb) # {} => u = ring.to

\* While a ring runs the reachable sessions are.
LEMMA RingIsIn ==
  ASSUME RingInv, Live
  PROVE  RingIn(ses) /\ ses[ring.from].st # "Free" /\ ses[ring.to].st # "Free"
<1>1. ses \in Sessions /\ ring.from \in Slots /\ ring.to \in Slots
  BY DEF RingInv, RingType
<1>2. ASSUME NEW u \in Slots
      PROVE  /\ ses[u].st = "Ringing" => u = ring.from
             /\ RingsOf(ses[u].mb) # {} => u = ring.to
             /\ u \in {ring.from, ring.to} => ses[u].st # "Free"
  <2>1. EndsAreOn(u) /\ MailIsTheRings(u)
    BY DEF RingInv, SlotInv
  <2> QED
    BY <2>1 DEF EndsAreOn, MailIsTheRings, RingLive, RungHere, InUse
<1> QED
  BY <1>1, <1>2 DEF RingIn

\* ringClear takes back the one Ring there is.
LEMMA RingClearIs ==
  ASSUME NEW S, RingIn(S)
  PROVE  /\ Cleared(S, RingClear(S))
         /\ \A u \in Slots : RingClear(S)[u].st = S[u].st
<1> DEFINE q == AllTaken(S[ring.to].mb, {"Ring"})
           T == [S EXCEPT ![ring.to].mb = q]
<1>0. S \in Sessions /\ ring.to \in Slots /\ S[ring.to].mb \in Boxes
  BY DEF RingIn, Sessions, Session
<1>1. q \in Boxes /\ RingsOf(q) = {}
  BY <1>0, AllTakenIs
<1>2. RingClear(S) = T
  BY DEF RingClear
<1> HIDE DEF q
<1>3. /\ T \in Sessions /\ T[ring.to].mb = q
      /\ \A u \in Slots : /\ u # ring.to => T[u].mb = S[u].mb
                          /\ T[u].st = S[u].st /\ T[u].rung = S[u].rung /\ T[u].wait = S[u].wait
  BY <1>0, <1>1 DEF Sessions, Session
<1> HIDE DEF T
<1>4. \A u \in Slots : RingsOf(T[u].mb) = {}
  BY <1>1, <1>3 DEF RingIn
<1> QED
  BY <1>2, <1>3, <1>4 DEF Cleared

\* ringEnd leaves no Ring behind; unless it was told the caller had hung up, nobody waits.
LEMMA RingEndIs ==
  ASSUME NEW S, RingIn(S), S[ring.from].st # "Free", NEW how
  PROVE  /\ Cleared(S, RingEnd(S, how))
         /\ how # "HungUp" => \A u \in Slots : RingEnd(S, how)[u].st # "Ringing"
<1> DEFINE c       == ring.from
           d       == ring.to
           cleared == RingClear(S)
           told    == IF cleared[c].st = "Ringing" /\ how # "HungUp"
                      THEN RingBack(cleared, c) ELSE cleared
           E       == RingEnd(S, how)
<1>0. c \in Slots /\ d \in Slots
  BY DEF RingIn
<1>1. Cleared(S, cleared) /\ \A u \in Slots : cleared[u].st = S[u].st
  BY RingClearIs
<1> HIDE DEF cleared
<1>2. /\ Cleared(S, told)
      /\ \A u \in Slots : told[u].st = "Ringing" => S[u].st = "Ringing"
      /\ how # "HungUp" => \A u \in Slots : told[u].st # "Ringing"
  <2>1. CASE cleared[c].st = "Ringing" /\ how # "HungUp"
    <3>1. PICK st \in {"Shell", "Plugin"} : PrintsTo(cleared, told, c, st)
      BY <1>0, <1>1, <2>1, RingBackIs DEF Cleared
    <3> HIDE DEF told, c
    <3>2. Cleared(S, told)
      BY <1>0, <1>1, <3>1, ClearedPrints DEF c
    <3>3. \A u \in Slots : told[u].st = "Ringing" => S[u].st = "Ringing"
      BY <3>2 DEF Cleared
    <3>4. told[c].st # "Ringing" /\ \A u \in Slots \ {c} : told[u].st = S[u].st
      BY <1>1, <3>1 DEF PrintsTo
    <3> QED
      BY <3>2, <3>3, <3>4 DEF RingIn, c
  <2>2. CASE ~(cleared[c].st = "Ringing" /\ how # "HungUp")
    <3>1. told = cleared
      BY <2>2
    <3> QED
      BY <1>1, <2>2, <3>1 DEF RingIn
  <2> QED
    BY <2>1, <2>2
<1>3. \/ E = told
      \/ E = RingBack(told, d) /\ told[d].st = "RingAsk"
      \/ E = Post(told, d, [kind |-> "Notice"])
  BY DEF RingEnd, cleared
<1> HIDE DEF told, E, c, d
<1>t. told \in Sessions
  BY <1>2 DEF Cleared
<1>4. CASE E = told
  BY <1>2, <1>4 DEF E
<1>5. CASE E = RingBack(told, d) /\ told[d].st = "RingAsk"
  <2>1. PICK st \in {"Shell", "Plugin"} : PrintsTo(told, E, d, st)
    BY <1>0, <1>t, <1>5, RingBackIs
  <2>2. S[d].st # "Free"
    BY <1>0, <1>2, <1>5 DEF Cleared
  <2>3. Cleared(S, told) /\ st \notin {"Free", "Ringing"}
    BY <1>2, <2>1
  <2>4. Cleared(S, E)
    BY <1>0, <2>1, <2>2, <2>3, ClearedPrints
  <2>5. \A u \in Slots : E[u].st = "Ringing" => told[u].st = "Ringing"
    BY <2>1 DEF PrintsTo
  <2> QED
    BY <1>2, <2>4, <2>5 DEF E
<1>6. CASE E = Post(told, d, [kind |-> "Notice"])
  <2>1. PICK m \in Message : m.kind # "Ring" /\ E = Post(told, d, m)
    BY <1>6 DEF Message
  <2>2. PostsTo(told, E, d, m)
    BY <1>0, <1>t, <2>1, PostIs
  <2>3. ASSUME NEW u \in Slots
        PROVE  /\ RingsOf(E[u].mb) = {} /\ E[u].st = told[u].st
               /\ E[u].rung = told[u].rung /\ E[u].wait = told[u].wait
    <3>1. RingsOf(told[u].mb) = {}
      BY <1>2 DEF Cleared
    <3> QED
      BY <2>1, <2>2, <3>1 DEF PostsTo
  <2>4. Cleared(S, E)
    BY <1>2, <2>2, <2>3 DEF Cleared, PostsTo
  <2> QED
    BY <1>2, <2>3, <2>4 DEF E
<1> QED
  BY <1>3, <1>4, <1>5, <1>6

\* With nobody waiting, that is a ring settled.
LEMMA ClearedSettles ==
  ASSUME NEW S \in Sessions, NEW T, Cleared(S, T), \A u \in Slots : T[u].st # "Ringing"
  PROVE  Settled(S, T)
BY DEF Cleared, Settled

-------------------------------------------------------------------------------
(* Step by step: what a ring does not notice                               *)

otherVars == <<ring, seq, owed, used, gap, turn>>

\* Printing to whoever has the turn keeps the invariant.
LEMMA PrintsKeeps ==
  ASSUME RingInv, NEW s \in Slots, turn = s, ses[s].st # "Free",
         NEW st, st = ses[s].st \/ st \notin {"Free", "Ringing", "RingAsk"},
         PrintsTo(ses, ses', s, st), UNCHANGED otherVars
  PROVE  RingInv'
<1>1. ses \in Sessions
  BY DEF RingInv, RingType
<1>2. Quiet(ses, ses')
  BY <1>1, PrintsQuiet
<1> QED
  BY <1>2, QuietKeeps DEF otherVars

\* So does printing after a change of what the ring does not rest on.
LEMMA ThenPrintsKeeps ==
  ASSUME RingInv, NEW s \in Slots, turn = s, ses[s].st # "Free",
         NEW R, Quiet(ses, R), R[s].st # "Free",
         NEW st, st = R[s].st \/ st \notin {"Free", "Ringing", "RingAsk"},
         PrintsTo(R, ses', s, st), UNCHANGED otherVars
  PROVE  RingInv'
<1>1. R \in Sessions
  BY DEF Quiet
<1>2. Quiet(R, ses')
  BY <1>1, PrintsQuiet
<1>3. Quiet(ses, ses')
  BY <1>2, QuietTwice
<1> QED
  BY <1>3, QuietKeeps DEF otherVars

\* The send-off begins: a session that stops waiting, or stops asking, rings no more.
LEMMA LogOffKeeps ==
  ASSUME RingInv, NEW s \in Slots, LogOff(s)
  PROVE  RingInv'
<1>1. ses \in Sessions
  BY DEF RingInv, RingType
<1>2. ses' = [ses EXCEPT ![s].st = "Closing"] /\ ses[s].st # "Free" /\ UNCHANGED otherVars
  BY DEF LogOff, InUse, ringVars, limits, otherVars
<1>3. ses' \in Sessions
  BY <1>1, <1>2 DEF Sessions, Session, States
<1>4. /\ \A u \in Slots \ {s} : ses'[u] = ses[u]
      /\ ses'[s].st = "Closing" /\ ses'[s].mb = ses[s].mb
      /\ ses'[s].rung = ses[s].rung /\ ses'[s].wait = ses[s].wait
  BY <1>1, <1>2 DEF Sessions, Session
<1>5. QuietAt(ses, ses', s)
  BY <1>2, <1>4 DEF QuietAt
<1>6. Quiet(ses, ses')
  BY <1>1, <1>3, <1>4, <1>5, QuietOnly
<1> QED
  BY <1>2, <1>6, QuietKeeps DEF otherVars

\* HIDE and its like, at the prompt.
LEMMA PresenceKeeps ==
  ASSUME RingInv, NEW s \in Slots, Presence(s)
  PROVE  RingInv'
<1> DEFINE R == [ses EXCEPT ![s].here = ~@]
<1>1. ses \in Sessions
  BY DEF RingInv, RingType
<1>2. /\ ses' = Printed(R, s) /\ turn = s /\ ses[s].st = "Shell" /\ UNCHANGED otherVars
  BY DEF Presence, At, ringVars, limits, otherVars
<1>3. /\ R \in Sessions /\ \A u \in Slots \ {s} : R[u] = ses[u]
      /\ R[s].st = ses[s].st /\ R[s].sysop = ses[s].sysop /\ R[s].out = ses[s].out
      /\ R[s].mb = ses[s].mb /\ R[s].rung = ses[s].rung /\ R[s].wait = ses[s].wait
  BY <1>1 DEF Sessions, Session
<1> HIDE DEF R
<1>4. QuietAt(ses, R, s)
  BY <1>2, <1>3 DEF QuietAt
<1>5. Quiet(ses, R)
  BY <1>1, <1>3, <1>4, QuietOnly
<1>6. PrintsTo(R, ses', s, "Shell")
  BY <1>2, <1>3, PrintedIs
<1> QED
  BY <1>2, <1>3, <1>5, <1>6, ThenPrintsKeeps

\* From the prompt to somewhere else.
LEMMA EnterKeeps ==
  ASSUME RingInv, NEW s \in Slots, Enter(s)
  PROVE  RingInv'
<1>1. ses \in Sessions
  BY DEF RingInv, RingType
<1>2. PICK p \in Places :
        ses' = IF p \in {"room", "other"} THEN EnterPlugin(ses, s, p) ELSE Screen(ses, s, p)
  BY DEF Enter
<1>3. turn = s /\ ses[s].st = "Shell" /\ UNCHANGED otherVars
  BY DEF Enter, At, ringVars, limits, otherVars
<1>4. PICK st \in {"Plugin", "Form", "Watch", "Snoop"} : PrintsTo(ses, ses', s, st)
  <2>1. CASE p \in {"room", "other"}
    BY <1>1, <1>2, <2>1, EnterPluginIs
  <2>2. CASE p \in {"Form", "Watch", "Snoop"}
    <3>1. p \in States /\ ses' = Screen(ses, s, p)
      BY <1>2, <2>2 DEF States
    <3> QED
      BY <1>1, <2>2, <3>1, ScreenIs
  <2> QED
    BY <2>1, <2>2, RingAssumption DEF AllPlaces
<1> QED
  BY <1>3, <1>4, PrintsKeeps

\* And back.
LEMMA LeaveKeeps ==
  ASSUME RingInv, NEW s \in Slots, Leave(s)
  PROVE  RingInv'
<1> DEFINE R == [ses EXCEPT ![s].owner = "none"]
<1>1. ses \in Sessions
  BY DEF RingInv, RingType
<1>2. /\ ses' = Screen(R, s, "Shell") /\ turn = s /\ UNCHANGED otherVars
      /\ ses[s].st \in {"Plugin", "Form", "Watch", "Snoop"}
  BY DEF Leave, At, ringVars, limits, otherVars
<1>3. /\ R \in Sessions /\ \A u \in Slots \ {s} : R[u] = ses[u]
      /\ R[s].st = ses[s].st /\ R[s].sysop = ses[s].sysop /\ R[s].out = ses[s].out
      /\ R[s].mb = ses[s].mb /\ R[s].rung = ses[s].rung /\ R[s].wait = ses[s].wait
  BY <1>1 DEF Sessions, Session
<1> HIDE DEF R
<1>4. QuietAt(ses, R, s)
  BY <1>2, <1>3 DEF QuietAt
<1>5. Quiet(ses, R)
  BY <1>1, <1>3, <1>4, QuietOnly
<1>6. PrintsTo(R, ses', s, "Shell")
  <2>1. "Shell" \in States
    BY DEF States
  <2> QED
    BY <1>2, <1>3, <2>1, ScreenIs
<1> QED
  BY <1>2, <1>3, <1>5, <1>6, ThenPrintsKeeps

\* A notice to a sysop.
LEMMA SendKeeps ==
  ASSUME RingInv, NEW s \in Slots, NEW t \in Slots, Send(s, t)
  PROVE  RingInv'
<1> DEFINE R == Printed(ses, s)
<1>1. ses \in Sessions
  BY DEF RingInv, RingType
<1>2. turn = s /\ ses[s].st = "Shell" /\ UNCHANGED otherVars
  BY DEF Send, At, ringVars, limits, otherVars
<1>3. PrintsTo(ses, R, s, ses[s].st)
  BY <1>1, PrintedIs
<1>4. PICK m \in Message : m.kind # "Ring" /\ ses' = Post(R, t, m)
  BY DEF Send, Message
<1> HIDE DEF R
<1>5. Quiet(ses, R)
  BY <1>1, <1>2, <1>3, PrintsQuiet
<1>6. PostsTo(R, ses', t, m)
  BY <1>3, <1>4, PostIs DEF PrintsTo
<1>7. Quiet(R, ses')
  BY <1>3, <1>4, <1>6, PostsQuiet DEF PrintsTo
<1>8. Quiet(ses, ses')
  BY <1>5, <1>7, QuietTwice
<1> QED
  BY <1>2, <1>8, QuietKeeps DEF otherVars

\* The question why, and a question left.
LEMMA AsksKeep ==
  ASSUME RingInv, NEW s \in Slots, AskWhy(s) \/ WhyNot(s) \/ AskLater(s)
  PROVE  RingInv'
<1>1. ses \in Sessions
  BY DEF RingInv, RingType
<1>2. turn = s /\ ses[s].st # "Free" /\ UNCHANGED otherVars
  BY DEF AskWhy, WhyNot, AskLater, AtRinger, AtQuestion, At, InUse, ringVars, limits, otherVars
<1>3. ses' = Screen(ses, s, "RingWhy") \/ ses' = RingBack(ses, s)
  BY DEF AskWhy, WhyNot, AskLater
<1>4. PICK st \in {"RingWhy", "Shell", "Plugin"} : PrintsTo(ses, ses', s, st)
  <2>1. "RingWhy" \in States
    BY DEF States
  <2>2. CASE ses' = Screen(ses, s, "RingWhy")
    BY <1>1, <2>1, <2>2, ScreenIs
  <2>3. CASE ses' = RingBack(ses, s)
    BY <1>1, <2>3, RingBackIs
  <2> QED
    BY <1>3, <2>2, <2>3
<1> QED
  BY <1>2, <1>4, PrintsKeeps

-------------------------------------------------------------------------------
(* Step by step: a call begins, and moves to another slot                  *)

\* A session moved to a slot nobody is on takes its ring, its mail and its allowance along.
LEMMA MoveKeeps ==
  ASSUME RingInv, NEW s \in Slots, NEW t \in Slots, s # t, turn = s,
         ses[s].st = "Shell", ses[t].st = "Free",
         NEW S \in Sessions, \A u \in Slots \ {s} : S[u] = ses[u],
         S[s].st = "Shell", S[s].mb = ses[s].mb,
         S[s].rung = ses[s].rung, S[s].wait = ses[s].wait,
         S[s].sysop \/ t < s,
         MoveSession(s, t, S), UNCHANGED <<seq, owed, turn>>
  PROVE  RingInv'
<1>0. /\ ses \in Sessions /\ used \in [Slots -> Nat] /\ gap \in [Slots -> Nat] /\ seq \in Nat
      /\ ring \in [from : 0..SysopSlot, to : 0..SysopSlot, shown : BOOLEAN, left : Nat]
      /\ turn \in 1..PassTail
  BY DEF RingInv, RingType
<1>1. /\ ses' = [S EXCEPT ![t] = S[s], ![s] = Free]
      /\ ring' = [ring EXCEPT !.from = IF @ = s THEN t ELSE @, !.to = IF @ = s THEN t ELSE @]
      /\ used' = [used EXCEPT ![t] = used[s], ![s] = 0]
      /\ gap' = [gap EXCEPT ![t] = gap[s], ![s] = 0]
  BY DEF MoveSession
<1>2. /\ ses'[t] = S[s] /\ ses'[s] = Free /\ \A u \in Slots \ {s, t} : ses'[u] = ses[u]
      /\ ses' \in Sessions
  BY <1>1, FreeIs DEF Sessions
<1>3. /\ used' \in [Slots -> Nat] /\ used'[t] = used[s]
      /\ \A u \in Slots \ {s, t} : used'[u] = used[u]
  BY <1>0, <1>1
<1>4. /\ gap' \in [Slots -> Nat] /\ gap'[t] = gap[s]
      /\ \A u \in Slots \ {s, t} : gap'[u] = gap[u]
  BY <1>0, <1>1
<1>5. /\ ring' \in [from : 0..SysopSlot, to : 0..SysopSlot, shown : BOOLEAN, left : Nat]
      /\ ring'.from = IF ring.from = s THEN t ELSE ring.from
      /\ ring'.to = IF ring.to = s THEN t ELSE ring.to
      /\ ring'.shown = ring.shown
  BY <1>0, <1>1, SlotsAre
<1>6. Live' <=> Live
  BY <1>5, SlotsAre DEF Live
<1>7. RingType'
  BY <1>0, <1>2, <1>3, <1>4, <1>5 DEF RingType
<1>8. SlotInv(s) /\ SlotInv(t)
  BY DEF RingInv
<1>9. Live => ring.from # t /\ ring.to # t
  BY <1>8 DEF SlotInv, EndsAreOn, InUse
<1>10. ASSUME NEW u \in Slots \ {s, t} PROVE SlotInv(u)'
  <2>1. SlotInv(u)
    BY DEF RingInv
  <2>2. EndsAreOn(u)' /\ QuestionIsShown(u)'
    BY <1>2, <1>5, <1>6, <2>1 DEF SlotInv, EndsAreOn, QuestionIsShown, RungHere, InUse
  <2>3. MailIsTheRings(u)'
    BY <1>2, <1>5, <1>6, <2>1 DEF SlotInv, MailIsTheRings, RingLive, RungHere
  <2>4. AllowanceIsOwn(u)' /\ StepDownHoldsBack(u)'
    BY <1>2, <1>3, <1>4, <2>1 DEF SlotInv, AllowanceIsOwn, StepDownHoldsBack, InUse
  <2> QED
    BY <2>2, <2>3, <2>4 DEF SlotInv
<1>11. SlotInv(s)'
  <2>1. ses'[s].st = "Free" /\ RingsOf(ses'[s].mb) = {}
    BY <1>2, FreeIs DEF Free
  <2>2. Live' => ring'.from # s /\ ring'.to # s
    BY <1>5
  <2>3. EndsAreOn(s)' /\ QuestionIsShown(s)' /\ MailIsTheRings(s)'
    BY <2>1, <2>2 DEF EndsAreOn, QuestionIsShown, MailIsTheRings, RungHere
  <2>4. AllowanceIsOwn(s)' /\ StepDownHoldsBack(s)'
    BY <2>1 DEF AllowanceIsOwn, StepDownHoldsBack, InUse
  <2> QED
    BY <2>3, <2>4 DEF SlotInv
<1>12. SlotInv(t)'
  <2>1. /\ ses'[t].st = "Shell" /\ ses'[t].mb = ses[s].mb
        /\ ses'[t].rung = ses[s].rung /\ ses'[t].wait = ses[s].wait
    BY <1>2
  <2>2. RungHere(t)' <=> RungHere(s)
    BY <1>5, <1>6, <1>9 DEF RungHere
  <2>3. EndsAreOn(t)' /\ QuestionIsShown(t)'
    BY <2>1 DEF EndsAreOn, QuestionIsShown, InUse
  <2>4. MailIsTheRings(t)'
    BY <1>5, <1>8, <2>1, <2>2 DEF SlotInv, MailIsTheRings, RingLive
  <2>5. AllowanceIsOwn(t)'
    BY <1>3, <1>4, <1>8, <2>1 DEF SlotInv, AllowanceIsOwn, InUse
  <2>6. StepDownHoldsBack(t)'
    BY <1>2, SlotsAre DEF StepDownHoldsBack
  <2> QED
    BY <2>3, <2>4, <2>5, <2>6 DEF SlotInv
<1>13. Live' => ring'.from \in Slots /\ ring'.to \in Slots
  BY <1>5, <1>6 DEF RingInv
<1>14. RingsAreSettled'
  BY <1>6 DEF RingInv, RingsAreSettled
<1> QED
  BY <1>7, <1>10, <1>11, <1>12, <1>13, <1>14 DEF RingInv

\* SYSOP: onto the sysop node, or a second sysop in place.
LEMMA ElevateKeeps ==
  ASSUME RingInv, NEW s \in Slots, Elevate(s)
  PROVE  RingInv'
<1>1. ses \in Sessions
  BY DEF RingInv, RingType
<1>2. turn = s /\ ses[s].st = "Shell" /\ UNCHANGED <<seq, owed, turn>>
  BY DEF Elevate, At
<1>3. ASSUME NEW h \in BOOLEAN, NEW S, S = [ses EXCEPT ![s].sysop = TRUE, ![s].here = h]
      PROVE  /\ S \in Sessions /\ \A u \in Slots \ {s} : S[u] = ses[u]
             /\ S[s].st = ses[s].st /\ S[s].sysop /\ S[s].mb = ses[s].mb
             /\ S[s].rung = ses[s].rung /\ S[s].wait = ses[s].wait
  BY <1>1, <1>3, ZenonT(60) DEF Sessions, Session
<1>4. CASE ~InUse(ses, SysopSlot)
  <2> DEFINE R == [ses EXCEPT ![s].sysop = TRUE, ![s].here = TRUE]
             P == Printed(R, s)
  <2>1. MoveSession(s, SysopSlot, P)
    BY <1>4 DEF Elevate
  <2>2. /\ R \in Sessions /\ \A u \in Slots \ {s} : R[u] = ses[u]
        /\ R[s].st = ses[s].st /\ R[s].sysop /\ R[s].mb = ses[s].mb
        /\ R[s].rung = ses[s].rung /\ R[s].wait = ses[s].wait
    BY <1>3
  <2> HIDE DEF R
  <2>3. PrintsTo(R, P, s, R[s].st)
    BY <2>2, PrintedIs
  <2> HIDE DEF P
  <2>4. /\ P \in Sessions /\ \A u \in Slots \ {s} : P[u] = ses[u]
        /\ P[s].st = "Shell" /\ P[s].sysop /\ P[s].mb = ses[s].mb
        /\ P[s].rung = ses[s].rung /\ P[s].wait = ses[s].wait
    BY <1>2, <2>2, <2>3 DEF PrintsTo
  <2>5. SysopSlot \in Slots /\ s # SysopSlot /\ ses[SysopSlot].st = "Free"
    BY <1>2, <1>4, SlotsAre DEF InUse
  <2> QED
    BY <1>2, <2>1, <2>4, <2>5, MoveKeeps
<1>5. CASE InUse(ses, SysopSlot)
  <2>1. PICK h \in BOOLEAN : /\ ses' = Printed([ses EXCEPT ![s].sysop = TRUE, ![s].here = h], s)
                             /\ UNCHANGED <<ring, limits>>
    BY <1>5 DEF Elevate
  <2> DEFINE R == [ses EXCEPT ![s].sysop = TRUE, ![s].here = h]
  <2>2. /\ R \in Sessions /\ \A u \in Slots \ {s} : R[u] = ses[u]
        /\ R[s].st = ses[s].st /\ R[s].sysop /\ R[s].mb = ses[s].mb
        /\ R[s].rung = ses[s].rung /\ R[s].wait = ses[s].wait
    BY <1>3
  <2>3. ses' = Printed(R, s)
    BY <2>1
  <2> HIDE DEF R
  <2>4. QuietAt(ses, R, s)
    BY <1>2, <2>2 DEF QuietAt
  <2>5. Quiet(ses, R)
    BY <1>1, <2>2, <2>4, QuietOnly
  <2>6. PrintsTo(R, ses', s, "Shell")
    BY <1>2, <2>2, <2>3, PrintedIs
  <2>7. UNCHANGED otherVars
    BY <1>2, <2>1 DEF otherVars, limits
  <2> QED
    BY <1>2, <2>2, <2>5, <2>6, <2>7, ThenPrintsKeeps
<1> QED
  BY <1>4, <1>5

\* DROP: a caller again, in place or on the first free node.
LEMMA DropKeeps ==
  ASSUME RingInv, NEW s \in Slots, Drop(s)
  PROVE  RingInv'
<1> DEFINE P == Printed(ses, s)
           R == [P EXCEPT ![s].sysop = FALSE, ![s].here = TRUE]
           free == {n \in Slots \ {SysopSlot} : ~InUse(ses, n)}
<1>1. ses \in Sessions
  BY DEF RingInv, RingType
<1>2. turn = s /\ ses[s].st = "Shell" /\ UNCHANGED <<seq, owed, turn>>
  BY DEF Drop, At
<1>3. PrintsTo(ses, P, s, "Shell")
  BY <1>1, <1>2, PrintedIs
<1>4. \/ s # SysopSlot /\ ses' = R /\ UNCHANGED <<ring, limits>>
      \/ s = SysopSlot /\ free # {} /\ MoveSession(s, Min(free), R)
  BY DEF Drop
<1> HIDE DEF P
<1>5. /\ R \in Sessions /\ \A u \in Slots \ {s} : R[u] = P[u]
      /\ R[s].st = P[s].st /\ R[s].mb = P[s].mb /\ R[s].out = P[s].out
      /\ R[s].rung = P[s].rung /\ R[s].wait = P[s].wait
  BY <1>3, ZenonT(60) DEF PrintsTo, Sessions, Session
<1> HIDE DEF R
<1>6. /\ \A u \in Slots \ {s} : R[u] = ses[u]
      /\ R[s].st = "Shell" /\ R[s].mb = ses[s].mb /\ (RingsOf(ses[s].mb) # {} => R[s].out)
      /\ R[s].rung = ses[s].rung /\ R[s].wait = ses[s].wait
  BY <1>3, <1>5 DEF PrintsTo
<1>7. CASE s # SysopSlot /\ ses' = R /\ UNCHANGED <<ring, limits>>
  <2>1. QuietAt(ses, R, s)
    BY <1>2, <1>6 DEF QuietAt
  <2>2. Quiet(ses, ses')
    BY <1>1, <1>5, <1>6, <1>7, <2>1, QuietOnly
  <2> QED
    BY <1>2, <1>7, <2>2, QuietKeeps DEF limits
<1>8. CASE s = SysopSlot /\ free # {} /\ MoveSession(s, Min(free), R)
  <2>1. free \subseteq Nat
    BY SlotsAre
  <2>2. Min(free) \in free
    BY <1>8, <2>1, LeastOf
  <2>3. PICK t \in Slots : t # s /\ ses[t].st = "Free" /\ MoveSession(s, t, R)
    BY <1>8, <2>2 DEF InUse
  <2>4. t < s
    BY <1>8, <2>3, RingAssumption DEF Slots, SysopSlot
  <2> QED
    BY <1>2, <1>5, <1>6, <2>3, <2>4, MoveKeeps
<1> QED
  BY <1>4, <1>7, <1>8

\* A call begins with nothing of the last one's.
LEMMA ConnectKeeps ==
  ASSUME RingInv, NEW s \in Slots, Connect(s)
  PROVE  RingInv'
<1> DEFINE N == NoticeAll(ses, s)
           new == [Free EXCEPT !.st = "Shell"]
<1>1. /\ ses \in Sessions /\ used \in [Slots -> Nat] /\ gap \in [Slots -> Nat]
      /\ RingsAreSettled /\ (Live => ring.from \in Slots /\ ring.to \in Slots)
  BY DEF RingInv, RingType
<1>2. /\ ses[s].st = "Free" /\ ses' = [N EXCEPT ![s] = new]
      /\ used' = [used EXCEPT ![s] = 0] /\ gap' = [gap EXCEPT ![s] = 0]
      /\ UNCHANGED <<ring, seq, owed, turn>>
  BY DEF Connect, InUse, ringVars
<1>3. Notices(ses, N)
  BY <1>1, NoticeAllIs
<1>4. /\ new \in Session /\ new.st = "Shell" /\ RingsOf(new.mb) = {} /\ new.rung = 0
  BY FreeIs DEF Free
<1> HIDE DEF N, new
<1>5. /\ ses' \in Sessions /\ ses'[s] = new /\ \A u \in Slots \ {s} : ses'[u] = N[u]
  BY <1>2, <1>3, <1>4 DEF Notices, Sessions
<1>6. /\ used' \in [Slots -> Nat] /\ used'[s] = 0 /\ \A u \in Slots \ {s} : used'[u] = used[u]
      /\ gap' \in [Slots -> Nat] /\ \A u \in Slots \ {s} : gap'[u] = gap[u]
  BY <1>1, <1>2
<1>7. RingType'
  BY <1>2, <1>5, <1>6 DEF RingInv, RingType
<1>8. SlotInv(s)'
  <2>1. ~RungHere(s) /\ (Live => s \notin {ring.from, ring.to})
    <3>1. EndsAreOn(s)
      BY DEF RingInv, SlotInv
    <3> QED
      BY <1>2, <3>1 DEF EndsAreOn, RungHere, InUse
  <2>2. /\ ses'[s].st = "Shell" /\ RingsOf(ses'[s].mb) = {} /\ ses'[s].rung = 0
    BY <1>4, <1>5
  <2>3. EndsAreOn(s)' /\ MailIsTheRings(s)' /\ QuestionIsShown(s)' /\ StepDownHoldsBack(s)'
    BY <1>2, <2>1, <2>2
       DEF EndsAreOn, MailIsTheRings, QuestionIsShown, StepDownHoldsBack, RungHere, Live
  <2>4. AllowanceIsOwn(s)'
    BY <1>6, <2>2, RingAssumption DEF AllowanceIsOwn
  <2> QED
    BY <2>3, <2>4 DEF SlotInv
<1>9. ASSUME NEW u \in Slots \ {s} PROVE SlotInv(u)'
  <2>1. SlotInv(u) /\ QuietAt(ses, N, u)
    BY <1>1, <1>3, NoticesQuiet DEF RingInv, Quiet
  <2>2. EndsAreOn(u)' /\ QuestionIsShown(u)' /\ AllowanceIsOwn(u)'
    BY <1>2, <1>5, <1>6, <2>1
       DEF SlotInv, QuietAt, EndsAreOn, QuestionIsShown, AllowanceIsOwn, Live, RungHere, InUse
  <2>3. MailIsTheRings(u)' /\ StepDownHoldsBack(u)'
    BY <1>2, <1>5, <2>1
       DEF SlotInv, QuietAt, MailIsTheRings, StepDownHoldsBack, RingLive, RungHere, Live
  <2> QED
    BY <2>2, <2>3 DEF SlotInv
<1>10. RingsAreSettled' /\ (Live' => ring'.from \in Slots /\ ring'.to \in Slots)
  BY <1>1, <1>2 DEF RingsAreSettled, Live
<1> QED
  BY <1>7, <1>8, <1>9, <1>10 DEF RingInv

-------------------------------------------------------------------------------
(* Step by step: the caller rings                                          *)

\* With no ring running nobody waits on one and there is none in any mail.
LEMMA NobodyRings ==
  ASSUME RingInv, ~Live, NEW u \in Slots
  PROVE  ses[u].st # "Ringing" /\ RingsOf(ses[u].mb) = {}
<1>1. EndsAreOn(u) /\ MailIsTheRings(u)
  BY DEF RingInv, SlotInv
<1> QED
  BY <1>1, SlotsAre DEF EndsAreOn, MailIsTheRings, RingLive, RungHere, Live

\* The target is one of those who can be asked, and not the caller.
LEMMA RingTargetIs ==
  ASSUME NEW s \in Slots, ~ses[s].sysop \/ ses[s].st = "RingWhy", Targets(ses) # {}
  PROVE  /\ RingTarget(ses) \in Slots \ {s}
         /\ ses[RingTarget(ses)].sysop
         /\ ses[RingTarget(ses)].st \in {"Shell", "Plugin", "Form", "Watch"}
<1>1. \A d \in Targets(ses) :
        d \in Slots /\ ses[d].sysop /\ ses[d].st \in {"Shell", "Plugin", "Form", "Watch"}
  BY DEF Targets, ThereToRing, AskNow, AskSoon
<1>2. Targets(ses) \subseteq Nat
  BY <1>1, SlotsAre
<1>3. RingTarget(ses) \in Targets(ses)
  BY <1>2, LeastOf DEF RingTarget
<1> QED
  BY <1>1, <1>3

\* A ring is spent, and begins or is left as a note.
LEMMA RingStartKeeps ==
  ASSUME RingInv, NEW s \in Slots, RingStart(s)
  PROVE  RingInv'
<1> DEFINE spent == [ses EXCEPT ![s].rung = @ + 1, ![s].wait = kGap]
           next  == IF seq = MaxSeq THEN 1 ELSE seq + 1
           d     == RingTarget(ses)
           m     == [kind |-> "Ring", seq |-> next]
           P     == Post(spent, d, m)
<1>1. /\ ses \in Sessions /\ used \in [Slots -> Nat] /\ gap \in [Slots -> Nat] /\ seq \in Nat
      /\ ring \in [from : 0..SysopSlot, to : 0..SysopSlot, shown : BOOLEAN, left : Nat]
      /\ turn \in 1..PassTail
  BY DEF RingInv, RingType
<1>2. /\ turn = s /\ turn' = turn /\ used[s] < kPerCall /\ ~Live
      /\ used' = [used EXCEPT ![s] = @ + 1] /\ gap' = [gap EXCEPT ![s] = kGap]
      /\ ses[s].st \in {"Shell", "Plugin", "RingWhy"}
      /\ ~ses[s].sysop \/ ses[s].st = "RingWhy"
  BY DEF RingStart, AtRinger, At, MayRing
<1>3. \/ /\ Targets(ses) = {}
         /\ ses' = IF ses[s].st = "RingWhy" THEN RingBack(spent, s) ELSE Printed(spent, s)
         /\ UNCHANGED ringVars
      \/ /\ Targets(ses) # {}
         /\ seq' = next
         /\ ring' = [from |-> s, to |-> d, shown |-> FALSE, left |-> kRing]
         /\ owed' = owed + 1
         /\ ses' = Screen(P, s, "Ringing")
  BY DEF RingStart
<1>4. /\ spent \in Sessions /\ \A u \in Slots \ {s} : spent[u] = ses[u]
      /\ spent[s].st = ses[s].st /\ spent[s].sysop = ses[s].sysop /\ spent[s].mb = ses[s].mb
      /\ spent[s].rung = ses[s].rung + 1 /\ spent[s].wait = kGap
  <2> DEFINE n == ses[s].rung + 1
  <2>1. n \in Nat /\ kGap \in Nat
    BY <1>1, RingAssumption DEF Sessions, Session
  <2>2. spent = [ses EXCEPT ![s].rung = n, ![s].wait = kGap]
    BY <1>1 DEF Sessions
  <2> HIDE DEF n, spent
  <2> QED
    BY <1>1, <2>1, <2>2, ZenonT(60) DEF Sessions, Session, n
<1>5. /\ used' \in [Slots -> Nat] /\ used'[s] = used[s] + 1
      /\ \A u \in Slots \ {s} : used'[u] = used[u]
      /\ gap' \in [Slots -> Nat] /\ gap'[s] = kGap
      /\ \A u \in Slots \ {s} : gap'[u] = gap[u]
  BY <1>1, <1>2, RingAssumption
<1>6. next \in Nat /\ m \in Message /\ m.kind = "Ring" /\ m.seq = next
  BY <1>1 DEF Message
<1> HIDE DEF spent, next, d, m, P
<1>7. ASSUME NEW u \in Slots,
             ses'[u].st # "Free" => spent[u].st # "Free"
               /\ ses'[u].rung = spent[u].rung /\ ses'[u].wait = spent[u].wait
      PROVE  AllowanceIsOwn(u)'
  <2>1. AllowanceIsOwn(u)
    BY DEF RingInv, SlotInv
  <2>2. ses[s].rung \in Nat /\ kPerCall \in Nat /\ used[s] \in Nat
    BY <1>1, RingAssumption DEF Sessions, Session
  <2>3. CASE u = s
    BY <1>2, <1>4, <1>5, <1>7, <2>1, <2>2, <2>3 DEF AllowanceIsOwn, InUse
  <2>4. CASE u # s
    BY <1>4, <1>5, <1>7, <2>1, <2>4 DEF AllowanceIsOwn, InUse
  <2> QED
    BY <2>3, <2>4
<1>8. \A u \in Slots : ses[u].st # "Ringing" /\ RingsOf(ses[u].mb) = {}
  BY <1>2, NobodyRings
<1>9. CASE /\ ses' = IF ses[s].st = "RingWhy" THEN RingBack(spent, s) ELSE Printed(spent, s)
           /\ UNCHANGED ringVars
  <2>1. PICK st \in {"Shell", "Plugin"} : PrintsTo(spent, ses', s, st)
    <3>1. CASE ses[s].st = "RingWhy"
      BY <1>4, <1>9, <3>1, RingBackIs
    <3>2. CASE ses[s].st # "RingWhy"
      <4>1. PrintsTo(spent, ses', s, spent[s].st)
        BY <1>4, <1>9, <3>2, PrintedIs
      <4> QED
        BY <1>2, <1>4, <3>2, <4>1
    <3> QED
      BY <3>1, <3>2
  <2>2. UNCHANGED <<ring, seq, owed>> /\ (Live' <=> Live)
    BY <1>9 DEF ringVars, Live
  <2>3. RingType'
    BY <1>1, <1>2, <1>5, <2>1, <2>2 DEF RingType, PrintsTo
  <2>4. ASSUME NEW u \in Slots PROVE SlotInv(u)'
    <3>1. ses'[u].st # "Ringing" /\ RingsOf(ses'[u].mb) = {}
      BY <1>4, <1>8, <2>1 DEF PrintsTo
    <3>2. ses'[u].st # "Free" => spent[u].st # "Free"
               /\ ses'[u].rung = spent[u].rung /\ ses'[u].wait = spent[u].wait
      BY <1>2, <1>4, <2>1 DEF PrintsTo
    <3>3. AllowanceIsOwn(u)'
      BY <1>7, <3>2
    <3>4. EndsAreOn(u)' /\ MailIsTheRings(u)' /\ QuestionIsShown(u)' /\ StepDownHoldsBack(u)'
      BY <1>2, <2>2, <3>1
         DEF EndsAreOn, MailIsTheRings, QuestionIsShown, StepDownHoldsBack, RungHere
    <3> QED
      BY <3>3, <3>4 DEF SlotInv
  <2>5. RingsAreSettled'
    BY <2>2 DEF RingInv, RingsAreSettled
  <2> QED
    BY <1>2, <2>2, <2>3, <2>4, <2>5 DEF RingInv
<1>10. CASE /\ Targets(ses) # {}
            /\ seq' = next
            /\ ring' = [from |-> s, to |-> d, shown |-> FALSE, left |-> kRing]
            /\ owed' = owed + 1
            /\ ses' = Screen(P, s, "Ringing")
  <2>1. /\ d \in Slots \ {s} /\ ses[d].sysop
        /\ ses[d].st \in {"Shell", "Plugin", "Form", "Watch"}
    BY <1>2, <1>10, RingTargetIs DEF d
  <2>2. PostsTo(spent, P, d, m)
    BY <1>4, <1>6, <2>1, PostIs DEF P
  <2>3. PrintsTo(P, ses', s, "Ringing")
    <3>1. "Ringing" \in States /\ P \in Sessions
      BY <2>2 DEF States, PostsTo
    <3> QED
      BY <1>10, <3>1, ScreenIs
  <2>4. /\ ring'.from = s /\ ring'.to = d /\ ~ring'.shown /\ Live'
        /\ ring' \in [from : 0..SysopSlot, to : 0..SysopSlot, shown : BOOLEAN, left : Nat]
    BY <1>10, <2>1, SlotsAre, RingAssumption DEF Live
  <2>5. RingType'
    BY <1>1, <1>2, <1>5, <1>6, <1>10, <2>3, <2>4 DEF RingType, PrintsTo
  <2>6. RingsAreSettled'
    BY <1>2, <1>10, <2>4 DEF RingInv, RingsAreSettled
  <2>7. ASSUME NEW u \in Slots PROVE SlotInv(u)'
    <3>1. /\ ses'[u].st = "Ringing" <=> u = s
          /\ u # s => ses'[u].st = ses[u].st /\ ses'[u].sysop = ses[u].sysop
          /\ ses'[u].rung = spent[u].rung /\ ses'[u].wait = spent[u].wait
      BY <1>4, <1>8, <2>1, <2>2, <2>3 DEF PostsTo, PrintsTo
    <3>2. \A r \in RingsOf(ses'[u].mb) : u = d /\ r = m
      BY <1>4, <1>8, <2>1, <2>2, <2>3 DEF PostsTo, PrintsTo
    <3>3. u = d => RingsOf(ses'[u].mb) # {}
      BY <1>6, <2>1, <2>2, <2>3 DEF PostsTo, PrintsTo
    <3>4. EndsAreOn(u)'
      BY <2>1, <2>4, <3>1 DEF EndsAreOn, InUse
    <3>5. MailIsTheRings(u)'
      BY <1>6, <1>10, <2>4, <3>2, <3>3 DEF MailIsTheRings, RingLive, RungHere
    <3>6. QuestionIsShown(u)'
      BY <2>1, <2>4, <3>1 DEF QuestionIsShown, RungHere
    <3>7. StepDownHoldsBack(u)'
      BY <2>1, <3>1, <3>2 DEF StepDownHoldsBack
    <3>8. AllowanceIsOwn(u)'
      <4>1. ses'[u].st # "Free" => spent[u].st # "Free"
              /\ ses'[u].rung = spent[u].rung /\ ses'[u].wait = spent[u].wait
        BY <1>2, <1>4, <3>1
      <4> QED
        BY <1>7, <4>1
    <3> QED
      BY <3>4, <3>5, <3>6, <3>7, <3>8 DEF SlotInv
  <2> QED
    BY <2>1, <2>4, <2>5, <2>6, <2>7 DEF RingInv
<1> QED
  BY <1>3, <1>9, <1>10

-------------------------------------------------------------------------------
(* Step by step: a slot's turn ends                                        *)

\* S is what the turn of slot s leaves of its session: no more Rings than there were, none
\* lost unseen, and the question up only for a sysop who is being rung and shown it.
Served(S, s) ==
  /\ S \in Sessions
  /\ \A u \in Slots \ {s} : S[u] = ses[u]
  /\ S[s].st = "Ringing" => ses[s].st = "Ringing"
  /\ S[s].st # "Free" <=> ses[s].st # "Free"
  /\ S[s].rung = ses[s].rung /\ S[s].wait = ses[s].wait
  /\ RingsOf(S[s].mb) \subseteq RingsOf(ses[s].mb)
  /\ RungHere(s) /\ ~ring'.shown => RingsOf(S[s].mb) # {}
  /\ S[s].st = "RingAsk" /\ RungHere(s) => ring'.shown /\ S[s].sysop

\* ring_ is as it was, but that the ring may now have been shown.
ShownOnly ==
  /\ ring' \in [from : 0..SysopSlot, to : 0..SysopSlot, shown : BOOLEAN, left : Nat]
  /\ ring'.from = ring.from /\ ring'.to = ring.to
  /\ ring.shown => ring'.shown

\* After its turn a slot rests as it was left, whether or not the output has gone out.
LEMMA ServedKeeps ==
  ASSUME RingInv, NEW s \in Slots, turn = s, NEW S, Served(S, s), ShownOnly, Flush(S, s),
         turn' = turn + 1, UNCHANGED <<seq, owed, used, gap>>
  PROVE  RingInv'
<1>1. /\ ses' \in Sessions /\ \A u \in Slots \ {s} : ses'[u] = ses[u]
      /\ ses'[s].st = S[s].st /\ ses'[s].sysop = S[s].sysop /\ ses'[s].mb = S[s].mb
      /\ ses'[s].rung = S[s].rung /\ ses'[s].wait = S[s].wait
  <2>1. CASE ses' = S
    BY <2>1 DEF Served
  <2>2. CASE ses' = [S EXCEPT ![s].out = FALSE]
    BY <2>2, ZenonT(60) DEF Served, Sessions, Session
  <2> QED
    BY <2>1, <2>2 DEF Flush
<1>2. (Live' <=> Live) /\ \A u \in Slots : RungHere(u)' <=> RungHere(u)
  BY DEF ShownOnly, Live, RungHere
<1>3. RingType'
  BY <1>1, SlotsAre DEF RingInv, RingType, ShownOnly
<1>4. ASSUME NEW u \in Slots PROVE SlotInv(u)'
  <2>1. SlotInv(u) /\ u \in Nat /\ s \in Nat
    BY SlotsAre DEF RingInv
  <2>2. CASE u = s
    <3>1. EndsAreOn(u)' /\ QuestionIsShown(u)'
      BY <1>1, <1>2, <2>1, <2>2
         DEF SlotInv, Served, ShownOnly, EndsAreOn, QuestionIsShown, InUse
    <3>2. MailIsTheRings(u)'
      BY <1>1, <1>2, <2>1, <2>2 DEF SlotInv, Served, ShownOnly, MailIsTheRings, RingLive
    <3>3. AllowanceIsOwn(u)'
      BY <1>1, <2>1, <2>2 DEF SlotInv, Served, AllowanceIsOwn, InUse
    <3>4. StepDownHoldsBack(u)'
      BY <2>1, <2>2 DEF StepDownHoldsBack
    <3> QED
      BY <3>1, <3>2, <3>3, <3>4 DEF SlotInv
  <2>3. CASE u # s
    <3>1. EndsAreOn(u)' /\ QuestionIsShown(u)'
      BY <1>1, <1>2, <2>1, <2>3 DEF SlotInv, ShownOnly, EndsAreOn, QuestionIsShown, InUse
    <3>2. MailIsTheRings(u)'
      BY <1>1, <1>2, <2>1, <2>3 DEF SlotInv, ShownOnly, MailIsTheRings, RingLive
    <3>3. AllowanceIsOwn(u)'
      BY <1>1, <2>1, <2>3 DEF SlotInv, AllowanceIsOwn, InUse
    <3>4. StepDownHoldsBack(u)'
      BY <1>1, <2>1, <2>3 DEF SlotInv, StepDownHoldsBack
    <3> QED
      BY <3>1, <3>2, <3>3, <3>4 DEF SlotInv
  <2> QED
    BY <2>2, <2>3
<1>5. RingsAreSettled' /\ (Live' => ring'.from \in Slots /\ ring'.to \in Slots)
  BY <1>2 DEF RingInv, RingsAreSettled, ShownOnly
<1> QED
  BY <1>3, <1>4, <1>5 DEF RingInv

\* A ring that is in the mail is live, so looking for one that is finds it.
LEMMA ShowsIs ==
  ASSUME RingInv, NEW s \in Slots, NEW k \in 1..Len(ses[s].mb)
  PROVE  /\ Shows(s, k) => RungHere(s) /\ RingsOf(ses[s].mb) # {}
         /\ ~Shows(s, k) => \A i \in 1..k : ses[s].mb[i].kind # "Ring"
<1>1. ses[s].mb \in Boxes /\ MailIsTheRings(s)
  BY DEF RingInv, RingType, SlotInv, Sessions, Session
<1>2. DOMAIN ses[s].mb = 1..Len(ses[s].mb) /\ Len(ses[s].mb) \in Nat
  BY <1>1, LenProperties DEF Boxes
<1>3. \A i \in 1..k : i \in DOMAIN ses[s].mb
  BY <1>2
<1>4. ASSUME NEW i \in 1..k, ses[s].mb[i].kind = "Ring"
      PROVE  RingLive(s, ses[s].mb[i])
  <2>1. ses[s].mb[i] \in RingsOf(ses[s].mb)
    BY <1>3, <1>4, RingsIs
  <2> QED
    BY <1>1, <2>1 DEF MailIsTheRings
<1>5. ASSUME NEW i \in 1..k, RingLive(s, ses[s].mb[i])
      PROVE  RungHere(s) /\ RingsOf(ses[s].mb) # {}
  <2>1. ses[s].mb[i].kind = "Ring"
    BY <1>5 DEF RingLive
  <2>2. ses[s].mb[i] \in RingsOf(ses[s].mb)
    BY <1>3, <2>1, RingsIs
  <2> QED
    BY <1>5, <2>2 DEF RingLive
<1> QED
  BY <1>4, <1>5 DEF Shows

\* Mail at the prompt or in a plugin: up to the first Ring, which is asked about.
LEMMA IdleServes ==
  ASSUME RingInv, NEW s \in Slots, turn = s, DeliverIdle(s)
  PROVE  ShownOnly /\ \E S : Served(S, s) /\ Flush(S, s)
<1> DEFINE box == ses[s].mb
<1>1. /\ ses \in Sessions /\ box \in Boxes /\ SlotInv(s)
      /\ ring \in [from : 0..SysopSlot, to : 0..SysopSlot, shown : BOOLEAN, left : Nat]
  BY DEF RingInv, RingType, Sessions, Session
<1>d. DOMAIN box = 1..Len(box) /\ Len(box) \in Nat
  BY <1>1, LenProperties DEF Boxes
<1>2. ses[s].st \in {"Shell", "Plugin"} /\ ~ses[s].out
  BY DEF DeliverIdle
<1>3. PICK k \in DOMAIN box :
        LET left == Printed([ses EXCEPT ![s].mb = SubSeq(@, k + 1, Len(@))], s)
        IN  /\ Flush(IF Shows(s, k) /\ ses[s].owner # "room" THEN Ask(left, s) ELSE left, s)
            /\ ring' = [ring EXCEPT !.shown = @ \/ Shows(s, k)]
  BY DEF DeliverIdle
<1>k. k \in 1..Len(box)
  BY <1>d
<1> DEFINE q    == SubSeq(box, k + 1, Len(box))
           R    == [ses EXCEPT ![s].mb = q]
           left == Printed(R, s)
           asks == Shows(s, k) /\ ses[s].owner # "room"
           S    == IF asks THEN Ask(left, s) ELSE left
<1>4. Flush(S, s) /\ ring' = [ring EXCEPT !.shown = @ \/ Shows(s, k)]
  BY <1>1, <1>3 DEF Sessions
<1>5. /\ q \in Boxes /\ RingsOf(q) \subseteq RingsOf(box)
      /\ RingsOf(box) # {} /\ (\A i \in 1..k : box[i].kind # "Ring") => RingsOf(q) # {}
  BY <1>1, <1>k, RestIs
<1> HIDE DEF q
<1>6. /\ R \in Sessions /\ \A u \in Slots \ {s} : R[u] = ses[u]
      /\ R[s].st = ses[s].st /\ R[s].sysop = ses[s].sysop /\ R[s].mb = q
      /\ R[s].rung = ses[s].rung /\ R[s].wait = ses[s].wait
  BY <1>1, <1>5 DEF Sessions, Session
<1> HIDE DEF R
<1>7. PrintsTo(R, left, s, ses[s].st)
  BY <1>6, PrintedIs
<1> HIDE DEF left
<1>8. /\ asks => PrintsTo(left, S, s, "RingAsk")
      /\ ~asks => S = left
  <2>1. "RingAsk" \in States /\ left \in Sessions
    BY <1>7 DEF States, PrintsTo
  <2> QED
    BY <2>1, ScreenIs DEF Ask
<1> HIDE DEF asks, S
<1>9. /\ S \in Sessions /\ \A u \in Slots \ {s} : S[u] = ses[u]
      /\ S[s].st = (IF asks THEN "RingAsk" ELSE ses[s].st) /\ S[s].sysop = ses[s].sysop
      /\ S[s].mb = q /\ S[s].rung = ses[s].rung /\ S[s].wait = ses[s].wait
  <2>1. CASE asks
    BY <1>6, <1>7, <1>8, <2>1 DEF PrintsTo
  <2>2. CASE ~asks
    BY <1>6, <1>7, <1>8, <2>2 DEF PrintsTo
  <2> QED
    BY <2>1, <2>2
<1>10. Shows(s, k) \in BOOLEAN
  BY DEF Shows
<1>11. ring'.shown <=> ring.shown \/ Shows(s, k)
  BY <1>1, <1>4
<1>12. ShownOnly
  BY <1>1, <1>4, <1>10 DEF ShownOnly
<1>13. RungHere(s) /\ ~ring'.shown => RingsOf(q) # {}
  <2>1. RungHere(s) /\ ~ring.shown => RingsOf(box) # {}
    BY <1>1 DEF SlotInv, MailIsTheRings
  <2>2. ~Shows(s, k) => \A i \in 1..k : box[i].kind # "Ring"
    BY <1>k, ShowsIs
  <2> QED
    BY <1>5, <1>11, <2>1, <2>2
<1>14. asks => ring'.shown /\ ses[s].sysop
  <2>1. Shows(s, k) => RingsOf(box) # {}
    BY <1>k, ShowsIs
  <2>2. RingsOf(box) # {} => ses[s].sysop
    BY <1>1, <1>2, SlotsAre DEF SlotInv, StepDownHoldsBack
  <2> QED
    BY <1>11, <2>1, <2>2 DEF asks
<1>15. Served(S, s)
  BY <1>2, <1>5, <1>9, <1>13, <1>14 DEF Served
<1> QED
  BY <1>4, <1>12, <1>15 DEF S

\* Mail on a form: every Ring, as a line of its own.
LEMMA FormServes ==
  ASSUME RingInv, NEW s \in Slots, DeliverForm(s)
  PROVE  ShownOnly /\ \E S : Served(S, s) /\ Flush(S, s)
<1> DEFINE box == ses[s].mb
           q   == AllTaken(box, {"Ring"})
           R   == [ses EXCEPT ![s].mb = q]
           S   == Printed(R, s)
           n   == Len(box)
<1>1. /\ ses \in Sessions /\ box \in Boxes
      /\ ring \in [from : 0..SysopSlot, to : 0..SysopSlot, shown : BOOLEAN, left : Nat]
  BY DEF RingInv, RingType, Sessions, Session
<1>d. DOMAIN box = 1..n /\ n \in Nat
  BY <1>1, LenProperties DEF Boxes
<1>2. /\ ses[s].st = "Form" /\ RingsOf(box) # {} /\ Flush(S, s)
      /\ ring' = [ring EXCEPT !.shown = @ \/ Shows(s, n)]
  BY <1>1, HasRing DEF DeliverForm, Sessions
<1>3. q \in Boxes /\ RingsOf(q) = {}
  BY <1>1, AllTakenIs
<1> HIDE DEF q
<1>4. /\ R \in Sessions /\ \A u \in Slots \ {s} : R[u] = ses[u]
      /\ R[s].st = ses[s].st /\ R[s].sysop = ses[s].sysop /\ R[s].mb = q
      /\ R[s].rung = ses[s].rung /\ R[s].wait = ses[s].wait
  BY <1>1, <1>3 DEF Sessions, Session
<1> HIDE DEF R
<1>5. PrintsTo(R, S, s, "Form")
  BY <1>2, <1>4, PrintedIs
<1> HIDE DEF S
<1>6. Shows(s, n)
  <2>1. PICK i \in 1..n : box[i].kind = "Ring"
    BY <1>2, <1>d, RingsIs
  <2>2. n \in 1..n
    BY <1>d, <2>1
  <2>3. ~Shows(s, n) => \A j \in 1..n : box[j].kind # "Ring"
    BY <2>2, ShowsIs
  <2> QED
    BY <2>1, <2>3
<1>7. ShownOnly /\ ring'.shown
  BY <1>1, <1>2, <1>6 DEF ShownOnly
<1>8. Served(S, s)
  BY <1>2, <1>3, <1>4, <1>5, <1>7 DEF Served, PrintsTo
<1> QED
  BY <1>2, <1>7, <1>8

\* The turn of a slot.
LEMMA ServiceKeeps ==
  ASSUME RingInv, NEW s \in Slots, Service(s)
  PROVE  RingInv'
<1>1. /\ turn = s /\ turn' = turn + 1 /\ UNCHANGED <<seq, owed, used, gap>>
      /\ ses \in Sessions /\ SlotInv(s)
      /\ ring \in [from : 0..SysopSlot, to : 0..SysopSlot, shown : BOOLEAN, left : Nat]
  BY DEF Service, NextTurn, limits, RingInv, RingType
<1>2. CASE DeliverIdle(s)
  BY <1>1, <1>2, IdleServes, ServedKeeps
<1>3. CASE DeliverForm(s)
  BY <1>1, <1>3, FormServes, ServedKeeps
<1>4. CASE DeliverWatch(s)
  <2> DEFINE S == Screen(ses, s, "Shell")
  <2>1. ses[s].st = "Watch" /\ Flush(S, s) /\ UNCHANGED ring
    BY <1>4 DEF DeliverWatch
  <2>2. PrintsTo(ses, S, s, "Shell")
    <3>1. "Shell" \in States
      BY DEF States
    <3> QED
      BY <1>1, <3>1, ScreenIs
  <2> HIDE DEF S
  <2>3. ShownOnly
    BY <1>1, <2>1 DEF ShownOnly
  <2>4. Served(S, s)
    BY <1>1, <2>1, <2>2 DEF Served, PrintsTo, SlotInv, MailIsTheRings
  <2> QED
    BY <1>1, <2>1, <2>3, <2>4, ServedKeeps
<1>5. CASE DeliverNothing(s)
  <2>1. Flush(ses, s) /\ UNCHANGED ring
    BY <1>5 DEF DeliverNothing
  <2>2. ShownOnly
    BY <1>1, <2>1 DEF ShownOnly
  <2>3. Served(ses, s)
    BY <1>1, <2>1 DEF Served, SlotInv, MailIsTheRings, QuestionIsShown
  <2> QED
    BY <1>1, <2>1, <2>2, <2>3, ServedKeeps
<1> QED
  BY <1>2, <1>3, <1>4, <1>5 DEF Service

\* O at the prompt: the question again, for the sysop the ring is for.
LEMMA AskAgainKeeps ==
  ASSUME RingInv, NEW s \in Slots, AskAgain(s)
  PROVE  RingInv'
<1>1. /\ ses \in Sessions
      /\ ring \in [from : 0..SysopSlot, to : 0..SysopSlot, shown : BOOLEAN, left : Nat]
  BY DEF RingInv, RingType
<1>2. /\ ses' = Screen(ses, s, "RingAsk") /\ ses[s].st = "Shell" /\ ses[s].sysop
      /\ ring' = [ring EXCEPT !.shown = TRUE] /\ UNCHANGED <<seq, owed, used, gap, turn>>
  BY DEF AskAgain, Ask, At, limits
<1>3. PrintsTo(ses, ses', s, "RingAsk")
  <2>1. "RingAsk" \in States
    BY DEF States
  <2> QED
    BY <1>1, <1>2, <2>1, ScreenIs
<1>4. ShownOnly /\ ring'.shown
  BY <1>1, <1>2 DEF ShownOnly
<1>5. (Live' <=> Live) /\ \A u \in Slots : RungHere(u)' <=> RungHere(u)
  BY <1>4 DEF ShownOnly, Live, RungHere
<1>6. RingType'
  BY <1>2, <1>3, <1>4 DEF RingInv, RingType, PrintsTo, ShownOnly
<1>7. ASSUME NEW u \in Slots PROVE SlotInv(u)'
  <2>1. SlotInv(u)
    BY DEF RingInv
  <2>2. /\ u # s => ses'[u] = ses[u]
        /\ u = s => ses'[u].st = "RingAsk" /\ ses'[u].sysop
        /\ ses'[u].mb = ses[u].mb
        /\ ses'[u].rung = ses[u].rung /\ ses'[u].wait = ses[u].wait
    BY <1>2, <1>3 DEF PrintsTo
  <2>3. EndsAreOn(u)' /\ QuestionIsShown(u)'
    BY <1>2, <1>4, <1>5, <2>1, <2>2
       DEF SlotInv, ShownOnly, EndsAreOn, QuestionIsShown, InUse
  <2>4. MailIsTheRings(u)'
    BY <1>2, <1>4, <1>5, <2>1, <2>2 DEF SlotInv, MailIsTheRings, RingLive
  <2>5. AllowanceIsOwn(u)' /\ StepDownHoldsBack(u)'
    BY <1>2, <2>1, <2>2 DEF SlotInv, AllowanceIsOwn, StepDownHoldsBack, InUse
  <2> QED
    BY <2>3, <2>4, <2>5 DEF SlotInv
<1>8. RingsAreSettled' /\ (Live' => ring'.from \in Slots /\ ring'.to \in Slots)
  BY <1>2, <1>4, <1>5 DEF RingInv, RingsAreSettled, ShownOnly
<1> QED
  BY <1>6, <1>7, <1>8 DEF RingInv

-------------------------------------------------------------------------------
(* Step by step: the ring ends                                             *)

\* The ring taken back, nobody told to wait: over.
LEMMA ClearedKeeps ==
  ASSUME RingInv, Live, Cleared(ses, ses'), \A u \in Slots : ses'[u].st # "Ringing",
         Over, UNCHANGED <<seq, used, gap, turn>>
  PROVE  RingInv'
<1>1. ses \in Sessions /\ turn \in 1..PassTail
  BY DEF RingInv, RingType
<1>2. Settled(ses, ses')
  BY <1>1, ClearedSettles
<1> QED
  BY <1>1, <1>2, SettledKeeps DEF Over

\* A key of the caller's stops it.
LEMMA RingingKeyKeeps ==
  ASSUME RingInv, NEW s \in Slots, RingingKey(s)
  PROVE  RingInv'
<1> DEFINE E == RingEnd(ses, "Stopped")
<1>1. /\ ring.from = s /\ ses' = E /\ Over /\ UNCHANGED <<seq, used, gap, turn>>
  BY DEF RingingKey, limits
<1>2. Live
  BY <1>1, SlotsAre DEF Live
<1>3. RingIn(ses) /\ ses[ring.from].st # "Free"
  BY <1>2, RingIsIn
<1>4. Cleared(ses, E) /\ \A u \in Slots : E[u].st # "Ringing"
  BY <1>3, RingEndIs
<1> QED
  BY <1>1, <1>2, <1>4, ClearedKeeps

\* D at the question, or /o- in the room.
LEMMA RingDeclineKeeps ==
  ASSUME RingInv, NEW s \in Slots, RingDecline(s)
  PROVE  RingInv'
<1> DEFINE E == RingEnd(ses, "Declined")
<1>1. /\ RungHere(s) /\ Live /\ ses[s].st # "Free"
      /\ ses' = RingBack(E, s) \/ ses' = Printed(E, s)
      /\ Over /\ UNCHANGED <<seq, used, gap, turn>>
  BY DEF RingDecline, AtQuestion, InRoom, At, InUse, RungHere, limits
<1>2. RingIn(ses) /\ ses[ring.from].st # "Free"
  BY <1>1, RingIsIn
<1>3. Cleared(ses, E) /\ \A u \in Slots : E[u].st # "Ringing"
  BY <1>2, RingEndIs
<1> HIDE DEF E
<1>4. E \in Sessions
  BY <1>3 DEF Cleared
<1>5. PICK st \in {"Shell", "Plugin", E[s].st} : PrintsTo(E, ses', s, st)
  <2>1. CASE ses' = RingBack(E, s)
    BY <1>4, <2>1, RingBackIs
  <2>2. CASE ses' = Printed(E, s)
    BY <1>4, <2>2, PrintedIs
  <2> QED
    BY <1>1, <2>1, <2>2
<1>6. st = E[s].st \/ st \notin {"Free", "Ringing"}
  OBVIOUS
<1>7. Cleared(ses, ses')
  BY <1>1, <1>3, <1>5, <1>6, ClearedPrints
<1>8. \A u \in Slots : ses'[u].st # "Ringing"
  BY <1>3, <1>5, <1>6 DEF PrintsTo
<1> QED
  BY <1>1, <1>7, <1>8, ClearedKeeps

\* X at the question: the sysop is away from here on.
LEMMA RingAwayKeeps ==
  ASSUME RingInv, NEW s \in Slots, RingAway(s)
  PROVE  RingInv'
<1> DEFINE R == [ses EXCEPT ![s].here = FALSE]
           E == RingEnd(R, "Away")
<1>1. /\ RungHere(s) /\ Live /\ ses[s].st # "Free" /\ ses \in Sessions
      /\ ses' = RingBack(E, s) /\ Over /\ UNCHANGED <<seq, used, gap, turn>>
  BY DEF RingAway, AtQuestion, At, InUse, RungHere, limits, RingInv, RingType
<1>2. RingIn(ses) /\ ses[ring.from].st # "Free" /\ ring.from \in Slots
  BY <1>1, RingIsIn DEF RingIn
<1>3. /\ R \in Sessions
      /\ \A u \in Slots : /\ R[u].st = ses[u].st /\ R[u].mb = ses[u].mb
                          /\ R[u].rung = ses[u].rung /\ R[u].wait = ses[u].wait
  BY <1>1 DEF Sessions, Session
<1> HIDE DEF R
<1>4. RingIn(R) /\ R[ring.from].st # "Free"
  BY <1>2, <1>3 DEF RingIn
<1>5. Cleared(R, E) /\ \A u \in Slots : E[u].st # "Ringing"
  BY <1>4, RingEndIs
<1> HIDE DEF E
<1>6. E \in Sessions
  BY <1>5 DEF Cleared
<1>7. PICK st \in {"Shell", "Plugin"} : PrintsTo(E, ses', s, st)
  BY <1>1, <1>6, RingBackIs
<1>8. R[s].st # "Free" /\ st \notin {"Free", "Ringing"}
  BY <1>1, <1>3
<1>9. Cleared(R, ses')
  BY <1>5, <1>7, <1>8, ClearedPrints
<1>10. Cleared(ses, ses')
  BY <1>3, <1>9 DEF Cleared
<1>11. \A u \in Slots : ses'[u].st # "Ringing"
  BY <1>5, <1>7 DEF PrintsTo
<1> QED
  BY <1>1, <1>10, <1>11, ClearedKeeps

\* Answered: the Ring is taken back, and both go into the room.
LEMMA RingAnswerKeeps ==
  ASSUME RingInv, NEW s \in Slots, RingAnswer(s)
  PROVE  RingInv'
<1> DEFINE c == ring.from
           X == RingClear(ses)
           Y == EnterPlugin(X, c, "room")
<1>1. /\ Live /\ ses[s].st # "Free" /\ ses' = EnterPlugin(Y, s, "room")
      /\ Over /\ UNCHANGED <<seq, used, gap, turn>>
  BY DEF RingAnswer, Converse, AtQuestion, InRoom, At, InUse, RungHere, Over, limits
<1>2. RingIn(ses) /\ ses[c].st # "Free" /\ c \in Slots
  BY <1>1, RingIsIn DEF RingIn
<1>3. Cleared(ses, X) /\ \A u \in Slots : X[u].st = ses[u].st
  BY <1>2, RingClearIs
<1> HIDE DEF X
<1>4. X \in Sessions
  BY <1>3 DEF Cleared
<1>5. PrintsTo(X, Y, c, "Plugin")
  BY <1>2, <1>4, EnterPluginIs
<1> HIDE DEF Y, c
<1>6. "Plugin" \notin {"Free", "Ringing"}
  OBVIOUS
<1>7. Cleared(ses, Y)
  BY <1>2, <1>3, <1>5, <1>6, ClearedPrints
<1>8. Y \in Sessions
  BY <1>7 DEF Cleared
<1>9. PrintsTo(Y, ses', s, "Plugin")
  BY <1>1, <1>8, EnterPluginIs
<1>10. Cleared(ses, ses')
  BY <1>1, <1>6, <1>7, <1>9, ClearedPrints
<1>11. \A u \in Slots : ses'[u].st # "Ringing"
  <2>1. \A u \in Slots : X[u].st = "Ringing" => u = c
    BY <1>2, <1>3 DEF RingIn, c
  <2>2. \A u \in Slots : Y[u].st # "Ringing"
    BY <1>5, <2>1 DEF PrintsTo
  <2> QED
    BY <1>9, <2>2 DEF PrintsTo
<1> QED
  BY <1>1, <1>10, <1>11, ClearedKeeps

\* A session closes: at either end of the ring that is the end of it, and of any other
\* session the ring takes no notice.
LEMMA CloseSessionKeeps ==
  ASSUME RingInv, NEW s \in Slots, turn = s, ses[s].st # "Free", CloseSession(s),
         turn' = turn \/ turn' = turn + 1
  PROVE  RingInv'
<1> DEFINE rung == IF Live THEN RingClosed(ses, s) ELSE ses
           told == IF s # SysopSlot /\ ses[s].here THEN NoticeAll(rung, s) ELSE rung
<1>1. ses \in Sessions /\ turn \in 1..PassTail /\ turn' \in 1..PassTail
  BY SlotsAre DEF RingInv, RingType
<1>2. /\ ses' = [told EXCEPT ![s] = Free] /\ UNCHANGED <<seq, used, gap>>
      /\ IF Live /\ s \in {ring.from, ring.to} THEN Over ELSE UNCHANGED <<ring, owed>>
  BY DEF CloseSession, limits
<1>3. ASSUME NEW T \in Sessions, ses' = [T EXCEPT ![s] = Free]
      PROVE  /\ ses' \in Sessions /\ \A u \in Slots \ {s} : ses'[u] = T[u]
             /\ ses'[s].st = "Free" /\ RingsOf(ses'[s].mb) = {}
  <2>1. Free \in Session /\ Free.st = "Free" /\ RingsOf(Free.mb) = {}
    BY FreeIs DEF Free
  <2> QED
    BY <1>3, <2>1 DEF Sessions
<1>4. ASSUME rung \in Sessions
      PROVE  told = rung \/ Notices(rung, told)
  BY <1>4, NoticeAllIs
<1>5. CASE Live /\ s \in {ring.from, ring.to}
  <2>1. RingIn(ses) /\ ses[ring.from].st # "Free"
    BY <1>5, RingIsIn
  <2>2. PICK how : /\ rung = RingEnd(ses, how)
                   /\ how # "HungUp" \/ s = ring.from
    BY <1>5 DEF RingClosed
  <2>3. /\ Cleared(ses, rung)
        /\ how # "HungUp" => \A u \in Slots : rung[u].st # "Ringing"
    BY <2>1, <2>2, RingEndIs
  <2> HIDE DEF rung
  <2>4. rung \in Sessions
    BY <2>3 DEF Cleared
  <2>5. Cleared(ses, told) /\ \A u \in Slots : told[u].st = rung[u].st
    <3>1. told = rung \/ Notices(rung, told)
      BY <1>4, <2>4
    <3> HIDE DEF told
    <3>2. CASE told = rung
      BY <2>3, <3>2
    <3>3. CASE Notices(rung, told)
      BY <2>3, <3>3 DEF Notices, Cleared
    <3> QED
      BY <3>1, <3>2, <3>3
  <2> HIDE DEF told
  <2>6. /\ ses' \in Sessions /\ \A u \in Slots \ {s} : ses'[u] = told[u]
        /\ ses'[s].st = "Free" /\ RingsOf(ses'[s].mb) = {}
    BY <1>2, <1>3, <2>5 DEF Cleared
  <2>7. \A u \in Slots \ {s} : told[u].st # "Ringing"
    <3>1. CASE how # "HungUp"
      BY <2>3, <2>5, <3>1
    <3>2. CASE s = ring.from
      BY <2>1, <2>5, <3>2 DEF Cleared, RingIn
    <3> QED
      BY <2>2, <3>1, <3>2
  <2>8. Settled(ses, ses')
    BY <1>1, <2>5, <2>6, <2>7 DEF Settled, Cleared
  <2>9. ring' = NoRing /\ owed' = owed - 1
    BY <1>2, <1>5 DEF Over
  <2> QED
    BY <1>1, <1>2, <1>5, <2>8, <2>9, SettledKeeps
<1>6. CASE ~(Live /\ s \in {ring.from, ring.to})
  <2>1. rung = ses
    BY <1>6 DEF RingClosed
  <2>2. Quiet(ses, told)
    <3>1. told = ses \/ Notices(ses, told)
      BY <1>1, <1>4, <2>1
    <3> HIDE DEF told
    <3>2. Quiet(ses, ses)
      BY <1>1 DEF Quiet, QuietAt
    <3> QED
      BY <1>1, <3>1, <3>2, NoticesQuiet
  <2> HIDE DEF told
  <2>3. told \in Sessions
    BY <2>2 DEF Quiet
  <2>4. /\ ses' \in Sessions /\ \A u \in Slots \ {s} : ses'[u] = told[u]
        /\ ses'[s].st = "Free" /\ RingsOf(ses'[s].mb) = {}
    BY <1>2, <1>3, <2>3
  <2>5. QuietAt(ses, ses', s)
    <3>1. RingsOf(ses[s].mb) = {}
      <4>1. MailIsTheRings(s)
        BY DEF RingInv, SlotInv
      <4> QED
        BY <1>6, <4>1 DEF MailIsTheRings, RingLive, RungHere
    <3> QED
      BY <1>6, <2>4, <3>1 DEF QuietAt
  <2>6. Quiet(ses, ses')
    <3>1. ASSUME NEW u \in Slots \ {s} PROVE QuietAt(ses, ses', u)
      <4>1. QuietAt(ses, told, u)
        BY <2>2 DEF Quiet
      <4> QED
        BY <2>4, <4>1 DEF QuietAt
    <3> QED
      BY <1>1, <2>4, <2>5, <3>1 DEF Quiet
  <2>7. UNCHANGED <<ring, seq, owed, used, gap>>
    BY <1>2, <1>6
  <2> QED
    BY <2>6, <2>7, QuietKeeps
<1> QED
  BY <1>5, <1>6

\* The line drops.
LEMMA HangUpKeeps ==
  ASSUME RingInv, NEW s \in Slots, HangUp(s)
  PROVE  RingInv'
<1>1. turn = s /\ ses[s].st # "Free" /\ CloseSession(s) /\ turn' = turn
  BY DEF HangUp, At, InUse
<1> QED
  BY <1>1, CloseSessionKeeps

\* The send-off is out, or still going.
LEMMA ServiceClosingKeeps ==
  ASSUME RingInv, NEW s \in Slots, ServiceClosing(s)
  PROVE  RingInv'
<1>1. /\ turn = s /\ ses[s].st # "Free" /\ turn' = turn + 1 /\ turn \in Slots
      /\ ses \in Sessions
  BY DEF ServiceClosing, NextTurn, RingInv, RingType
<1>2. CASE CloseSession(s)
  BY <1>1, <1>2, CloseSessionKeeps
<1>3. CASE UNCHANGED <<ses, ringVars, limits>>
  <2>1. Quiet(ses, ses') /\ UNCHANGED <<ring, seq, owed, used, gap>>
    BY <1>1, <1>3 DEF Quiet, QuietAt, ringVars, limits
  <2> QED
    BY <1>1, <2>1, QuietKeeps
<1> QED
  BY <1>2, <1>3 DEF ServiceClosing

-------------------------------------------------------------------------------
(* Step by step: the end of a pass                                         *)

\* A tick fewer, and never below none.
LEMMA TickedIs ==
  ASSUME NEW n \in Nat
  PROVE  Ticked(n) \in Nat
BY DEF Ticked

\* S and R are the sessions and the ring as serviceRing leaves them.
AfterRing(S, R) ==
  /\ S \in Sessions
  /\ R \in [from : 0..SysopSlot, to : 0..SysopSlot, shown : BOOLEAN, left : Nat]
  /\ R.from # None => R.from \in Slots /\ R.to \in Slots
  /\ \A u \in Slots :
       /\ S[u].st = "Ringing" => R.from = u
       /\ R.from # None /\ u \in {R.from, R.to} => S[u].st # "Free"
       /\ \A m \in RingsOf(S[u].mb) :
            m.kind = "Ring" /\ R.from # None /\ R.to = u /\ m.seq = seq
       /\ R.from # None /\ R.to = u /\ ~R.shown => RingsOf(S[u].mb) # {}
       /\ S[u].st = "RingAsk" /\ R.from # None /\ R.to = u => R.shown /\ S[u].sysop
       /\ S[u].st # "Free" =>
            ses[u].st # "Free" /\ S[u].rung = ses[u].rung /\ S[u].wait = ses[u].wait
       /\ RingsOf(S[u].mb) # {} => S[u].sysop

\* A ring that is over is; one that is not has a sysop who is there to be rung.
LEMMA RingServed ==
  ASSUME RingInv
  PROVE  LET over == Live /\ WhyOver # "not"
         IN  AfterRing(IF over THEN RingEnd(ses, WhyOver) ELSE ses,
                       IF over THEN NoRing ELSE ring)
<1> DEFINE over == Live /\ WhyOver # "not"
           E    == RingEnd(ses, WhyOver)
<1>1. /\ ses \in Sessions /\ (Live => ring.from \in Slots /\ ring.to \in Slots)
      /\ ring \in [from : 0..SysopSlot, to : 0..SysopSlot, shown : BOOLEAN, left : Nat]
  BY DEF RingInv, RingType
<1>2. CASE over
  <2>1. RingIn(ses) /\ ses[ring.from].st # "Free"
    BY <1>2, RingIsIn
  <2>2. /\ Cleared(ses, E)
        /\ WhyOver # "HungUp" => \A u \in Slots : E[u].st # "Ringing"
    BY <2>1, RingEndIs
  <2>3. WhyOver = "HungUp" => \A u \in Slots : ses[u].st # "Ringing"
    BY <2>1 DEF WhyOver, RingIn
  <2> HIDE DEF E
  <2>4. \A u \in Slots : E[u].st # "Ringing"
    BY <2>2, <2>3 DEF Cleared
  <2>5. NoRing \in [from : 0..SysopSlot, to : 0..SysopSlot, shown : BOOLEAN, left : Nat]
    BY RingAssumption DEF NoRing, None, SysopSlot
  <2>6. AfterRing(E, NoRing)
    BY <2>2, <2>4, <2>5 DEF AfterRing, Cleared, NoRing
  <2> QED
    BY <1>2, <2>6 DEF E
<1>3. CASE ~over
  <2>1. Live => ses[ring.to].sysop
    BY <1>3 DEF WhyOver, ThereToRing
  <2>2. ASSUME NEW u \in Slots
        PROVE  /\ ses[u].st = "Ringing" => ring.from = u
               /\ ring.from # None /\ u \in {ring.from, ring.to} => ses[u].st # "Free"
               /\ \A m \in RingsOf(ses[u].mb) :
                    m.kind = "Ring" /\ ring.from # None /\ ring.to = u /\ m.seq = seq
               /\ ring.from # None /\ ring.to = u /\ ~ring.shown => RingsOf(ses[u].mb) # {}
               /\ ses[u].st = "RingAsk" /\ ring.from # None /\ ring.to = u
                    => ring.shown /\ ses[u].sysop
               /\ RingsOf(ses[u].mb) # {} => ses[u].sysop
    <3>1. EndsAreOn(u) /\ MailIsTheRings(u) /\ QuestionIsShown(u)
      BY DEF RingInv, SlotInv
    <3> QED
      BY <2>1, <3>1
         DEF EndsAreOn, MailIsTheRings, QuestionIsShown, RingLive, RungHere, Live, InUse
  <2>3. AfterRing(ses, ring)
    BY <1>1, <2>2 DEF AfterRing, Live
  <2> QED
    BY <1>3, <2>3
<1> QED
  BY <1>2, <1>3

\* serviceRing, with the clock or without.
LEMMA ServiceRingKeeps ==
  ASSUME RingInv, NEW ticks \in BOOLEAN, ServiceRing(ticks)
  PROVE  RingInv'
<1> DEFINE over == Live /\ WhyOver # "not"
           S == IF over THEN RingEnd(ses, WhyOver) ELSE ses
           R == IF over THEN NoRing ELSE ring
<1>1. /\ seq \in Nat /\ used \in [Slots -> Nat] /\ gap \in [Slots -> Nat] /\ RingsAreSettled
  BY DEF RingInv, RingType
<1>2. /\ turn' = 1 /\ seq' = seq /\ used' = used
      /\ owed' = IF over THEN owed - 1 ELSE owed
      /\ IF ticks
         THEN /\ ses' = [u \in Slots |-> [S[u] EXCEPT !.wait = Ticked(@)]]
              /\ ring' = [R EXCEPT !.left = Ticked(@)]
              /\ gap' = [u \in Slots |-> Ticked(gap[u])]
         ELSE ses' = S /\ ring' = R /\ UNCHANGED gap
  BY DEF ServiceRing
<1>3. AfterRing(S, R)
  BY RingServed
<1>4. /\ over => Live /\ R.from = None
      /\ ~over => R.from = ring.from
  BY DEF NoRing
<1> HIDE DEF over, S, R
<1>5. /\ ring' \in [from : 0..SysopSlot, to : 0..SysopSlot, shown : BOOLEAN, left : Nat]
      /\ ring'.from = R.from /\ ring'.to = R.to /\ ring'.shown = R.shown
  <2>1. R \in [from : 0..SysopSlot, to : 0..SysopSlot, shown : BOOLEAN, left : Nat]
    BY <1>3 DEF AfterRing
  <2>2. Ticked(R.left) \in Nat
    BY <2>1, TickedIs
  <2>3. CASE ticks
    BY <1>2, <2>1, <2>2, <2>3
  <2>4. CASE ~ticks
    BY <1>2, <2>1, <2>4
  <2> QED
    BY <2>3, <2>4
<1>6. /\ ses' \in Sessions
      /\ \A u \in Slots :
           /\ ses'[u].st = S[u].st /\ ses'[u].sysop = S[u].sysop /\ ses'[u].mb = S[u].mb
           /\ ses'[u].rung = S[u].rung
           /\ ses'[u].wait = IF ticks THEN Ticked(S[u].wait) ELSE S[u].wait
  <2>1. S \in Sessions /\ \A u \in Slots : S[u] \in Session
    BY <1>3 DEF AfterRing, Sessions
  <2>2. CASE ticks
    <3>1. \A u \in Slots : ses'[u] = [S[u] EXCEPT !.wait = Ticked(S[u].wait)]
      BY <1>2, <2>2
    <3>2. ASSUME NEW u \in Slots
          PROVE  /\ ses'[u] \in Session
                 /\ ses'[u].st = S[u].st /\ ses'[u].sysop = S[u].sysop
                 /\ ses'[u].mb = S[u].mb /\ ses'[u].rung = S[u].rung
                 /\ ses'[u].wait = Ticked(S[u].wait)
      <4>1. Ticked(S[u].wait) \in Nat
        BY <2>1, TickedIs DEF Session
      <4> QED
        BY <2>1, <3>1, <4>1 DEF Session
    <3>3. ses' \in Sessions
      BY <1>2, <2>2, <3>2 DEF Sessions
    <3> QED
      BY <2>2, <3>2, <3>3
  <2>3. CASE ~ticks
    BY <1>2, <2>1, <2>3
  <2> QED
    BY <2>2, <2>3
<1>7. /\ gap' \in [Slots -> Nat]
      /\ \A u \in Slots : gap'[u] = IF ticks THEN Ticked(gap[u]) ELSE gap[u]
  BY <1>1, <1>2, TickedIs
<1>8. RingType'
  BY <1>1, <1>2, <1>5, <1>6, <1>7, RingAssumption DEF RingType, PassTail
<1>9. ASSUME NEW u \in Slots PROVE SlotInv(u)'
  <2>1. AllowanceIsOwn(u)
    BY DEF RingInv, SlotInv
  <2>2. EndsAreOn(u)' /\ QuestionIsShown(u)'
    BY <1>3, <1>5, <1>6 DEF AfterRing, EndsAreOn, QuestionIsShown, InUse, RungHere, Live
  <2>3. MailIsTheRings(u)'
    BY <1>2, <1>3, <1>5, <1>6, ZenonT(60) DEF AfterRing, MailIsTheRings, RingLive, RungHere, Live
  <2>4. AllowanceIsOwn(u)'
    BY <1>2, <1>3, <1>6, <1>7, <2>1 DEF AfterRing, AllowanceIsOwn, InUse
  <2>5. StepDownHoldsBack(u)'
    BY <1>3, <1>6 DEF AfterRing, StepDownHoldsBack
  <2> QED
    BY <2>2, <2>3, <2>4, <2>5 DEF SlotInv
<1>10. Live' => ring'.from \in Slots /\ ring'.to \in Slots
  BY <1>3, <1>5 DEF AfterRing, Live
<1>11. RingsAreSettled'
  BY <1>1, <1>2, <1>4, <1>5 DEF RingsAreSettled, Live
<1> QED
  BY <1>8, <1>9, <1>10, <1>11 DEF RingInv

-------------------------------------------------------------------------------
(* The theorems                                                            *)

\* Nobody is on the line and nothing rings.
LEMMA InitIsRingInv == Init => RingInv
<1> SUFFICES ASSUME Init PROVE RingInv
  OBVIOUS
<1>1. /\ ses = [s \in Slots |-> Free] /\ ring = NoRing /\ seq = 0 /\ turn = 1 /\ owed = 0
      /\ used = [s \in Slots |-> 0] /\ gap = [s \in Slots |-> 0]
  BY DEF Init
<1>2. Free \in Session /\ Free.st = "Free" /\ RingsOf(Free.mb) = {}
  BY FreeIs DEF Free
<1>3. ~Live
  BY <1>1 DEF Live, NoRing
<1>4. RingType
  <2>1. NoRing \in [from : 0..SysopSlot, to : 0..SysopSlot, shown : BOOLEAN, left : Nat]
    BY RingAssumption DEF NoRing, None, SysopSlot
  <2>2. 1 \in 1..PassTail
    BY RingAssumption DEF PassTail
  <2> QED
    BY <1>1, <1>2, <2>1, <2>2 DEF RingType, Sessions
<1>5. ASSUME NEW u \in Slots PROVE SlotInv(u)
  <2>1. ses[u].st = "Free" /\ RingsOf(ses[u].mb) = {}
    BY <1>1, <1>2
  <2> QED
    BY <1>3, <2>1 DEF SlotInv, EndsAreOn, MailIsTheRings, QuestionIsShown, AllowanceIsOwn,
       StepDownHoldsBack, RungHere, InUse
<1>6. RingsAreSettled
  BY <1>1, <1>3 DEF RingsAreSettled
<1> QED
  BY <1>3, <1>4, <1>5, <1>6 DEF RingInv

\* Every step keeps the invariant.
LEMMA NextKeepsRingInv == RingInv /\ [Next]_vars => RingInv'
<1> SUFFICES ASSUME RingInv, [Next]_vars PROVE RingInv'
  OBVIOUS
<1>1. ASSUME NEW s \in Slots, Connect(s) PROVE RingInv'
  BY <1>1, ConnectKeeps
<1>2. ASSUME NEW s \in Slots, LogOff(s) PROVE RingInv'
  BY <1>2, LogOffKeeps
<1>3. ASSUME NEW s \in Slots, Key(s) PROVE RingInv'
  <2>1. CASE HangUp(s)
    BY <2>1, HangUpKeeps
  <2>2. CASE Elevate(s)
    BY <2>2, ElevateKeeps
  <2>3. CASE Drop(s)
    BY <2>3, DropKeeps
  <2>4. CASE Presence(s)
    BY <2>4, PresenceKeeps
  <2>5. CASE Enter(s)
    BY <2>5, EnterKeeps
  <2>6. CASE Leave(s)
    BY <2>6, LeaveKeeps
  <2>7. ASSUME NEW t \in Slots, Send(s, t) PROVE RingInv'
    BY <2>7, SendKeeps
  <2>8. CASE AskWhy(s) \/ WhyNot(s) \/ AskLater(s)
    BY <2>8, AsksKeep
  <2>9. CASE RingStart(s)
    BY <2>9, RingStartKeeps
  <2>10. CASE RingingKey(s)
    BY <2>10, RingingKeyKeeps
  <2>11. CASE RingAnswer(s)
    BY <2>11, RingAnswerKeeps
  <2>12. CASE RingDecline(s)
    BY <2>12, RingDeclineKeeps
  <2>13. CASE RingAway(s)
    BY <2>13, RingAwayKeeps
  <2>14. CASE AskAgain(s)
    BY <2>14, AskAgainKeeps
  <2> QED
    BY <1>3, <2>1, <2>2, <2>3, <2>4, <2>5, <2>6, <2>7, <2>8, <2>9, <2>10, <2>11, <2>12,
       <2>13, <2>14 DEF Key
<1>4. ASSUME NEW s \in Slots, Service(s) PROVE RingInv'
  BY <1>4, ServiceKeeps
<1>5. ASSUME NEW s \in Slots, ServiceClosing(s) PROVE RingInv'
  BY <1>5, ServiceClosingKeeps
<1>6. ASSUME NEW ticks \in BOOLEAN, ServiceRing(ticks) PROVE RingInv'
  BY <1>6, ServiceRingKeeps
<1>7. CASE UNCHANGED vars
  <2>1. UNCHANGED <<ses, ring, seq, owed, used, gap, turn>>
    BY <1>7 DEF vars
  <2>2. Quiet(ses, ses')
    BY <2>1 DEF Quiet, QuietAt, RingInv, RingType
  <2> QED
    BY <2>1, <2>2, QuietKeeps
<1> QED
  BY <1>1, <1>2, <1>3, <1>4, <1>5, <1>6, <1>7 DEF Next

\* The inductive invariant holds of every run of the board, so each of its parts does.
THEOREM RingInvariant == Spec => []RingInv
<1>1. Init => RingInv
  BY InitIsRingInv
<1>2. RingInv /\ [Next]_vars => RingInv'
  BY NextKeepsRingInv
<1> QED
  BY <1>1, <1>2, PTL DEF Spec

\* Whoever waits on a ring is the caller of the one that is running, and a Ring in the
\* mail is that one's: whoever hung up, moved or hid, neither end is left behind.
THEOREM NothingIsLeft == Spec => []NothingLeftBehind
<1>1. RingInv => NothingLeftBehind
  <2> SUFFICES ASSUME RingInv, NEW s \in Slots
      PROVE  /\ ses[s].st = "Ringing" => ring.from = s
             /\ \A i \in DOMAIN ses[s].mb :
                  ses[s].mb[i].kind = "Ring" => RingLive(s, ses[s].mb[i])
    BY DEF NothingLeftBehind
  <2>1. EndsAreOn(s) /\ MailIsTheRings(s)
    BY DEF RingInv, SlotInv
  <2>2. ASSUME NEW i \in DOMAIN ses[s].mb, ses[s].mb[i].kind = "Ring"
        PROVE  RingLive(s, ses[s].mb[i])
    <3>1. ses[s].mb[i] \in RingsOf(ses[s].mb)
      BY <2>2, RingsIs
    <3> QED
      BY <2>1, <3>1 DEF MailIsTheRings
  <2> QED
    BY <2>1, <2>2 DEF EndsAreOn
<1> QED
  BY <1>1, RingInvariant, PTL

\* A ring not yet shown is waiting in its sysop's mailbox, however full that has been.
THEOREM NoticeIsDelivered == Spec => []RingIsDelivered
<1>1. RingInv => RingIsDelivered
  <2> SUFFICES ASSUME RingInv, Live, ~ring.shown PROVE Has(ses[ring.to].mb, {"Ring"})
    BY DEF RingIsDelivered
  <2>1. ring.to \in Slots
    BY DEF RingInv
  <2>2. MailIsTheRings(ring.to)
    BY <2>1 DEF RingInv, SlotInv
  <2> QED
    BY <2>2, HasRing DEF MailIsTheRings, RungHere
<1> QED
  BY <1>1, RingInvariant, PTL

\* A question on a screen while a ring runs for that screen is about that ring, and a
\* sysop's key answers it.
THEOREM QuestionIsAnswered == Spec => []QuestionIsItsRing
<1>1. RingInv => QuestionIsItsRing
  BY DEF RingInv, SlotInv, QuestionIsShown, QuestionIsItsRing
<1> QED
  BY <1>1, RingInvariant, PTL

\* A ring that began is answered or leaves a note, once.
THEOREM EveryRingIsSettled == Spec => []RingsAreSettled
<1>1. RingInv => RingsAreSettled
  BY DEF RingInv
<1> QED
  BY <1>1, RingInvariant, PTL

\* What a caller has rung and how long they must wait is filed under their own slot.
THEOREM AllowanceIsKept == Spec => []AllowanceIsTheCallers
<1>1. RingInv => AllowanceIsTheCallers
  BY DEF RingInv, SlotInv, AllowanceIsOwn, AllowanceIsTheCallers
<1> QED
  BY <1>1, RingInvariant, PTL

===============================================================================
