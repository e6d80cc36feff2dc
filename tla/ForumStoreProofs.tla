--------------------------- MODULE ForumStoreProofs ---------------------------
(* The forum's files implement Topic: whatever fails on the card and whenever *)
(* the power goes, no message is moved, changed or lost, for any number of    *)
(* callers, writes, faults and restarts (TopicSpec of ForumStore).  The       *)
(* header may be behind the records by one record, never ahead of them.  What *)
(* the callers are told is true and stays true, the place a caller left is    *)
(* kept, and at rest the figures the callers are shown are the header's and   *)
(* the header's are the files'.                                               *)
EXTENDS ForumStore, FiniteSetTheorems, WellFoundedInduction, TLAPS

Ats     == {"idle", "open", "reopen", "make", "count", "look",
            "body", "record", "flag", "head", "again", "ptr"}
Heads   == [is : {"none", "torn", "good"}, count : Nat, newest : Nat]
Recs    == [id : Nat, live : BOOLEAN]
Cards   == [head : Heads, rec : Seq(Recs), body : SUBSET Nat, ptr : [Users -> Nat]]
Ops     == [kind : {"none", "post", "remove", "ptr", "seed"}, ticket : Nat,
            slot : Slots \cup {0}, num : Nat, user : Users \cup {0}, mark : Nat,
            recount : BOOLEAN, res : {"io", "ok", "gone"}, stale : BOOLEAN,
            head : BOOLEAN, newest : Nat, total : Nat]
Works   == [at : Ats, op : Ops, h : Heads, nh : Heads, seeding : BOOLEAN]

Types ==
  /\ card \in Cards
  /\ queue \in Seq(Ops) /\ done \in Nat /\ done <= Len(queue)
  /\ work \in Works
  /\ work.at # "idle" => done < Len(queue)
  /\ figures \in [newest : Nat, total : Nat]
  /\ asked \in Nat /\ place \in [Users -> Nat]

\* The files: the header is behind the records by one at the most, what it does not
\* name is not taken down, and every record has its text.
CardInv ==
  /\ card.head.is = "none" => card.rec = <<>>
  /\ Named \in Nat /\ Named <= Len(card.rec) /\ Len(card.rec) <= Named + 1
  /\ \A n \in 1..Len(card.rec) :
       /\ card.rec[n].id \in card.body
       /\ n > Named => card.rec[n].live

\* What the writer knows of the files at each step of an op.
WorkInv ==
  /\ work.at \in {"look", "body", "record", "flag"} => card.head.is = "good" /\ work.h = card.head
  /\ work.at = "record" => work.op.ticket \in card.body
  /\ work.at = "flag" => work.op.num \in 1..Named /\ card.rec[work.op.num].live
  /\ work.at = "make" => card.head.is = "none"
  /\ work.at \in {"open", "make"} => work.h.newest = 0
  /\ work.at = "reopen" => card.head.is = "good"
  /\ work.at \in {"count", "head", "again"} => card.head.is # "none"
  /\ work.at = "head" => work.h.newest = Named
  /\ work.at = "again" => /\ card.head.is = "good" => card.head.newest \in {work.h.newest, work.nh.newest}
                          /\ Len(card.rec) <= work.h.newest + 1
  /\ work.at \in {"head", "again"} => /\ work.nh.is = "good"
                                      /\ work.nh.newest \in {work.h.newest, work.h.newest + 1}
                                      /\ work.nh.newest <= Len(card.rec)

Inv == Types /\ CardInv /\ WorkInv

-------------------------------------------------------------------------------
(* What a step can do to the messages                                      *)

\* Nothing, while the records in sight and their texts stay.
LEMMA SameMessages ==
  ASSUME Named' = Named,
         \A n \in 1..Named : /\ card'.rec[n] = card.rec[n]
                             /\ card.rec[n].id \in card.body
                             /\ card.rec[n].id \in card'.body
  PROVE  Messages' = Messages
<1>1. \A n \in 1..Named : Message(card', n) = Message(card, n)
  BY DEF Message
<1> QED
  BY <1>1 DEF Messages

\* The record after them comes into sight.
LEMMA OneMoreMessage ==
  ASSUME Named \in Nat, Named' = Named + 1,
         \A n \in 1..Named : /\ card'.rec[n] = card.rec[n]
                             /\ card.rec[n].id \in card.body
                             /\ card.rec[n].id \in card'.body,
         card'.rec[Named + 1].live, card'.rec[Named + 1].id \in card'.body
  PROVE  Abstract!Add
<1>1. \A n \in 1..Named : Message(card', n) = Message(card, n)
  BY DEF Message
<1>2. DOMAIN Messages = 1..Named /\ Len(Messages) = Named
  BY DEF Messages
<1>3. Len(Messages') = Named + 1
  BY DEF Messages
<1>4. \A n \in DOMAIN Messages : Messages'[n] = Messages[n]
  BY <1>1, <1>2 DEF Messages
<1>5. Messages'[Named + 1] = Message(card', Named + 1)
  BY DEF Messages
<1>6. Messages'[Named + 1].live /\ Messages'[Named + 1].text = "whole"
  BY <1>5 DEF Message
<1> QED
  BY <1>2, <1>3, <1>4, <1>6 DEF Abstract!Add

\* One in sight is taken down.
LEMMA OneTakenDown ==
  ASSUME NEW n \in 1..Named, Named \in Nat, Named' = Named, card \in Cards, Named <= Len(card.rec),
         card.rec[n].live, card' = [card EXCEPT !.rec[n].live = FALSE]
  PROVE  Abstract!TakeDown
<1>1. /\ card'.rec = [card.rec EXCEPT ![n].live = FALSE]
      /\ card'.body = card.body
      /\ card.rec \in Seq(Recs)
  BY DEF Cards
<1>2. DOMAIN Messages = 1..Named /\ Messages[n].live
  BY DEF Messages, Message
<1>3. \A m \in 1..Named : m # n => card'.rec[m] = card.rec[m]
  BY <1>1
<1>4. card'.rec[n].id = card.rec[n].id /\ card'.rec[n].live = FALSE
  BY <1>1 DEF Recs
<1>5. \A m \in 1..Named : Message(card', m) =
        IF m = n THEN [Message(card, n) EXCEPT !.live = FALSE] ELSE Message(card, m)
  BY <1>1, <1>3, <1>4 DEF Message
<1>6. Messages' = [Messages EXCEPT ![n].live = FALSE]
  BY <1>5 DEF Messages
<1> QED
  BY <1>2, <1>6 DEF Abstract!TakeDown

-------------------------------------------------------------------------------
(* Types                                                                   *)

\* The count of the live records is a number.
LEMMA LiveType == ASSUME card \in Cards, NEW n \in Nat PROVE Live(card, n) \in Nat
<1> DEFINE Alive == {i \in DOMAIN card.rec : i <= n /\ card.rec[i].live}
<1>1. card.rec \in Seq(Recs)
  BY DEF Cards
<1>2. DOMAIN card.rec = 1..Len(card.rec) /\ Len(card.rec) \in Nat
  BY <1>1
<1>3. IsFiniteSet(1..Len(card.rec))
  BY <1>2, FS_Interval
<1>4. Alive \subseteq 1..Len(card.rec)
  BY <1>2
<1>5. Cardinality(Alive) \in Nat
  BY <1>3, <1>4, FS_Subset, FS_CardinalityType
<1> QED
  BY <1>5 DEF Live

\* The writer with nothing in hand, and the op of no kind, have their types.
LEMMA IdleType == Idle \in Works /\ NoOp \in Ops
BY DEF Idle, Works, NoOp, Ops, NoHead, Heads, Ats

\* The forum starts with no file at all, which holds no message.
LEMMA TheInit == Init => Inv /\ Abstract!TInit
<1> SUFFICES ASSUME Init PROVE Inv /\ Abstract!TInit
  OBVIOUS
<1>1. card \in Cards
  BY DEF Init, Cards, Heads, NoHead
<1>2. queue \in Seq(Ops) /\ Len(queue) = 0
  BY DEF Init
<1>3. Named = 0 /\ Len(card.rec) = 0 /\ work.at = "idle" /\ card.head.is = "none"
  BY DEF Init, Named, NamedBy, Idle, NoHead
<1>4. Types
  BY <1>1, <1>2, <1>3, IdleType DEF Types, Init
<1>5. CardInv /\ WorkInv
  BY <1>3 DEF CardInv, WorkInv, Init
<1>6. Messages = <<>>
  BY <1>3 DEF Messages
<1> QED
  BY <1>4, <1>5, <1>6 DEF Inv, Abstract!TInit

\* An answer goes back into its slot.
LEMMA FinishTypes ==
  ASSUME Types, work.at # "idle", NEW op \in Ops, Finish(op)
  PROVE  /\ queue' \in Seq(Ops) /\ done' \in Nat /\ done' <= Len(queue')
         /\ work' = Idle /\ work'.at = "idle" /\ work' \in Works
BY IdleType DEF Finish, Types, Idle

\* An op that goes on keeps the types.
LEMMA GoOnTypes ==
  ASSUME Types, work.at # "idle", NEW w \in Works, GoOn(w)
  PROVE  /\ queue' \in Seq(Ops) /\ done' \in Nat /\ done' <= Len(queue')
         /\ work' = w /\ work' \in Works /\ (work'.at # "idle" => done' < Len(queue'))
BY DEF GoOn, Types, opVars

\* The loop's steps leave the files and the writer alone: what is left to show of them
\* is their types.
LEMMA LoopKeeps ==
  ASSUME Inv, UNCHANGED cardVars, Types'
  PROVE  Inv' /\ Messages' = Messages
<1>1. card' = card /\ work' = work
  BY DEF cardVars
<1>2. Named' = Named
  BY <1>1 DEF Named, NamedBy
<1>3. CardInv' /\ WorkInv'
  BY <1>1, <1>2 DEF Inv, CardInv, WorkInv
<1>4. Messages' = Messages
  BY <1>1, <1>2 DEF Messages
<1> QED
  BY <1>3, <1>4 DEF Inv

-------------------------------------------------------------------------------
(* The loop's steps                                                        *)

\* An op that is queued keeps the types.
LEMMA QueuedTypes ==
  ASSUME Types, NEW op \in Ops, Queued(op)
  PROVE  /\ queue' \in Seq(Ops) /\ done' = done /\ Len(queue') = Len(queue) + 1
         /\ done' \in Nat /\ done' <= Len(queue')
         /\ done < Len(queue) => done' < Len(queue')
BY DEF Queued, Types

\* A caller asks for a write.
LEMMA AskTypes ==
  ASSUME Types, NEW s \in Slots, NEW op \in Ops, Ask(s, op)
  PROVE  Types'
<1>1. asked' \in Nat
  BY DEF Ask, Types
<1>2. [op EXCEPT !.ticket = asked', !.slot = s] \in Ops
  BY <1>1 DEF Ops
<1>3. Queued([op EXCEPT !.ticket = asked', !.slot = s])
  BY DEF Ask
<1>4. UNCHANGED <<card, work, figures, place>>
  BY DEF Ask, LoopStep, cardVars
<1> QED
  BY <1>1, <1>2, <1>3, <1>4, QueuedTypes DEF Types

\* A caller leaves the forum.
LEMMA PtrFlushTypes ==
  ASSUME Types, NEW u \in Users, PtrFlush(u)
  PROVE  Types'
<1> DEFINE op == [NoOp EXCEPT !.kind = "ptr", !.user = u, !.mark = place'[u]]
<1>1. place' \in [Users -> Nat]
  BY DEF PtrFlush, Types
<1>2. op \in Ops
  BY <1>1, IdleType DEF Ops
<1>3. UNCHANGED <<card, work, figures, asked>>
  BY DEF PtrFlush, LoopStep, cardVars, askVars
<1>4. Queued(op) \/ UNCHANGED <<queue, done>>
  BY DEF PtrFlush, opVars
<1>5. CASE Queued(op)
  BY <1>1, <1>2, <1>3, <1>5, QueuedTypes DEF Types
<1>6. CASE UNCHANGED <<queue, done>>
  BY <1>1, <1>3, <1>6 DEF Types
<1> QED
  BY <1>4, <1>5, <1>6

\* The loop takes an answer.
LEMMA DeliverTypes == ASSUME Types, Deliver PROVE Types'
<1> DEFINE op == Head(queue)
           seed == [NoOp EXCEPT !.kind = "seed", !.recount = TRUE]
<1>1. op \in Ops /\ Tail(queue) \in Seq(Ops) /\ Len(Tail(queue)) = Len(queue) - 1
  BY DEF Deliver, Types
<1>2. seed \in Ops
  BY IdleType DEF Ops
<1>3. queue' = Tail(queue) \/ queue' = Append(Tail(queue), seed)
  BY DEF Deliver
<1>4. done' = done - 1 /\ done > 0 /\ UNCHANGED <<card, work, asked, place>>
  BY DEF Deliver, LoopStep, cardVars
<1>5. queue' \in Seq(Ops) /\ Len(queue') >= Len(queue) - 1
  <2>1. Len(queue) \in Nat
    BY DEF Types
  <2>2. /\ Append(Tail(queue), seed) \in Seq(Ops)
        /\ Len(Append(Tail(queue), seed)) = Len(Tail(queue)) + 1
    BY <1>1, <1>2
  <2> HIDE DEF seed
  <2> QED
    BY <1>1, <1>3, <2>1, <2>2
<1>6. done' \in Nat /\ done' <= Len(queue') /\ (work'.at # "idle" => done' < Len(queue'))
  BY <1>4, <1>5 DEF Types
<1>7. figures' \in [newest : Nat, total : Nat]
  BY <1>1 DEF Deliver, Types, Ops
<1> QED
  BY <1>4, <1>5, <1>6, <1>7 DEF Types

\* The forums start.
LEMMA StartTypes ==
  ASSUME Types, NEW n, Start(n), UNCHANGED <<card, work, done, asked, place>>
  PROVE  Types'
<1> DEFINE seed == [NoOp EXCEPT !.kind = "seed"]
<1>1. card.head.newest \in Nat /\ card.head.count \in Nat
  BY DEF Types, Cards, Heads
<1>2. figures' \in [newest : Nat, total : Nat]
  BY <1>1 DEF Start, StartReads, StartSeeds
<1>3. seed \in Ops
  BY IdleType DEF Ops
<1>4. queue' = queue \/ queue' = Append(queue, seed)
  BY DEF Start, StartReads, StartSeeds
<1>5. queue' \in Seq(Ops) /\ Len(queue') >= Len(queue)
  BY <1>3, <1>4 DEF Types
<1> QED
  BY <1>2, <1>5 DEF Types

\* The loop keeps the types, and leaves the card and the op in hand alone.
LEMMA LoopTypes == ASSUME Types, LoopNext PROVE Types' /\ UNCHANGED cardVars
<1>1. ASSUME NEW s \in Slots, Post(s)  PROVE Types' /\ UNCHANGED cardVars
  <2>1. [NoOp EXCEPT !.kind = "post"] \in Ops
    BY IdleType DEF Ops
  <2> QED
    BY <1>1, <2>1, AskTypes DEF Post, Ask, LoopStep
<1>2. ASSUME NEW s \in Slots, Remove(s)  PROVE Types' /\ UNCHANGED cardVars
  <2>1. PICK n \in 1..figures.newest : Ask(s, [NoOp EXCEPT !.kind = "remove", !.num = n])
    BY <1>2 DEF Remove
  <2>2. n \in Nat
    BY DEF Types
  <2>3. [NoOp EXCEPT !.kind = "remove", !.num = n] \in Ops
    BY <2>2, IdleType DEF Ops
  <2> QED
    BY <2>1, <2>3, AskTypes DEF Ask, LoopStep
<1>3. ASSUME NEW s \in Slots, GiveUp(s)  PROVE Types' /\ UNCHANGED cardVars
  BY <1>3 DEF GiveUp, LoopStep, cardVars, opVars, Types
<1>4. ASSUME NEW u \in Users, PtrFlush(u)  PROVE Types' /\ UNCHANGED cardVars
  BY <1>4, PtrFlushTypes DEF PtrFlush, LoopStep
<1>5. CASE Tick
  BY <1>5 DEF Tick, LoopStep, cardVars, opVars, askVars, Types
<1>6. CASE Deliver
  BY <1>6, DeliverTypes DEF Deliver, LoopStep
<1>7. CASE TickEnd
  BY <1>7 DEF TickEnd, LoopStep, cardVars, opVars, askVars, Types
<1>8. CASE Boot
  BY <1>8, StartTypes DEF Boot, cardVars, askVars
<1>9. CASE Save
  BY <1>9, StartTypes DEF Save, cardVars
<1> QED
  BY <1>1, <1>2, <1>3, <1>4, <1>5, <1>6, <1>7, <1>8, <1>9 DEF LoopNext

-------------------------------------------------------------------------------
(* A write, whole or interrupted                                           *)

\* A header moved on by one record at most, no record touched.
LEMMA HeaderMoves ==
  ASSUME Inv, card' = [card EXCEPT !.head = card'.head], card'.head \in Heads,
         card'.head.is # "none", Named' \in {Named, Named + 1}, Named' <= Len(card.rec)
  PROVE  card' \in Cards /\ CardInv' /\ (Messages' = Messages \/ Abstract!TNext)
<1>1. card \in Cards /\ CardInv /\ Named \in Nat /\ Len(card.rec) \in Nat
  BY DEF Inv, Types, CardInv, Cards
<1>2. card'.rec = card.rec /\ card'.body = card.body /\ card' \in Cards
  BY <1>1 DEF Cards
<1>3. CardInv'
  BY <1>1, <1>2 DEF CardInv
<1>4. \A n \in 1..Named : card'.rec[n] = card.rec[n] /\ card.rec[n].id \in card.body
                            /\ card.rec[n].id \in card'.body
  BY <1>1, <1>2 DEF CardInv
<1>5. CASE Named' = Named
  BY <1>2, <1>3, <1>4, <1>5, SameMessages
<1>6. CASE Named' = Named + 1
  <2>1. Named + 1 \in 1..Len(card.rec) /\ Named + 1 > Named
    BY <1>1, <1>6
  <2>2. card'.rec[Named + 1].live /\ card'.rec[Named + 1].id \in card'.body
    BY <1>1, <1>2, <2>1 DEF CardInv
  <2>3. Abstract!Add
    BY <1>1, <1>4, <1>6, <2>2, OneMoreMessage
  <2> QED
    BY <1>2, <1>3, <2>3 DEF Abstract!TNext
<1> QED
  BY <1>5, <1>6

\* The header's own write, with every outcome of it.
LEMMA HeaderLands ==
  ASSUME Inv, work.at \in {"head", "again"}, card' \in Interrupted,
         \/ work'.at # "again"
         \/ work.at = "head" /\ work'.at = "again" /\ work'.h = work.h
  PROVE  /\ card' \in Cards /\ CardInv' /\ (Messages' = Messages \/ Abstract!TNext)
         /\ card'.rec = card.rec /\ card'.head \in {card.head, work.nh, Torn}
         /\ card'.head.is # "none"
         /\ card' = Written => Named' = work.nh.newest
<1>1. /\ card \in Cards /\ card.head \in Heads /\ work.h \in Heads /\ work.nh \in Heads
      /\ Named \in Nat /\ Named <= Len(card.rec) /\ Len(card.rec) <= Named + 1
      /\ Len(card.rec) \in Nat
  BY DEF Inv, Types, CardInv, Cards, Works
<1>2. /\ card.head.is # "none" /\ work.nh.is = "good"
      /\ work.nh.newest \in {work.h.newest, work.h.newest + 1}
      /\ work.nh.newest <= Len(card.rec)
      /\ work.h.newest \in Nat /\ work.nh.newest \in Nat
  BY <1>1 DEF Inv, WorkInv, Heads
<1>3. Torn \in Heads /\ Torn.is = "torn"
  BY DEF Torn, Heads
<1>4. card' \in {card, [card EXCEPT !.head = work.nh], [card EXCEPT !.head = Torn]}
  BY DEF Interrupted, Written
<1>5. /\ card' = [card EXCEPT !.head = card'.head]
      /\ card'.head \in {card.head, work.nh, Torn} /\ card'.rec = card.rec
      /\ card'.head \in Heads /\ card'.head.is # "none"
  BY <1>1, <1>2, <1>3, <1>4 DEF Cards
<1>6. /\ work.at = "head" => work.h.newest = Named
      /\ work.at = "again" /\ card.head.is = "torn" => work.h.newest = Named
      /\ work.at = "again" /\ card.head.is = "good" =>
           Named = card.head.newest /\ Named \in {work.h.newest, work.nh.newest}
      /\ work.at = "again" => Len(card.rec) <= work.h.newest + 1
      /\ work.at = "head" /\ card.head.is = "torn" => Named = Len(card.rec)
      /\ work.at = "head" /\ card.head.is = "good" => Named = card.head.newest
  BY <1>2 DEF Inv, WorkInv, Named, NamedBy
<1>7. card.head.is \in {"torn", "good"}
  BY <1>1, <1>2 DEF Heads
<1>8. CASE card' = card /\ card' # Written
  <2>1. Named' \in {Named, Len(card.rec)}
    BY <1>6, <1>7, <1>8 DEF Named, NamedBy
  <2>2. Named' \in {Named, Named + 1} /\ Named' <= Len(card.rec)
    BY <1>1, <2>1
  <2> QED
    BY <1>5, <1>8, <2>2, HeaderMoves
<1>9. CASE card' = [card EXCEPT !.head = work.nh]
  <2>1. card'.head = work.nh
    BY <1>1, <1>9 DEF Cards
  <2>2. Named' = work.nh.newest
    BY <1>2, <2>1 DEF Named, NamedBy
  <2>3. Named' \in {Named, Named + 1}
    BY <1>1, <1>2, <1>6, <1>7, <2>2
  <2> QED
    BY <1>2, <1>5, <2>2, <2>3, HeaderMoves
<1>10. CASE card' = [card EXCEPT !.head = Torn]
  <2>1. card'.head = Torn
    BY <1>1, <1>10 DEF Cards
  <2>2. Named' \in {Named, Len(card.rec)}
    BY <1>3, <1>5, <1>6, <2>1 DEF Named, NamedBy
  <2>3. Named' \in {Named, Named + 1} /\ Named' <= Len(card.rec)
    BY <1>1, <2>2
  <2>4. card' # Written
    BY <1>2, <1>3, <2>1, <1>1 DEF Written, Cards
  <2> QED
    BY <1>5, <2>3, <2>4, HeaderMoves
<1>11. card' = Written => card' = [card EXCEPT !.head = work.nh]
  BY DEF Written
<1> QED
  BY <1>4, <1>8, <1>9, <1>10, <1>11

\* No record that is in sight touched, and its text kept.
LEMMA SightKept ==
  ASSUME Inv, Named' = Named,
         \A n \in 1..Named : card'.rec[n] = card.rec[n], card.body \subseteq card'.body
  PROVE  Messages' = Messages
<1>1. \A n \in 1..Named : n \in 1..Len(card.rec)
  BY DEF Inv, CardInv, Types, Cards
<1>2. \A n \in 1..Named : card.rec[n].id \in card.body
  BY <1>1 DEF Inv, CardInv
<1> QED
  BY <1>2, SameMessages

\* A new record behind those in sight: over the one that nothing names, or appended.
LEMMA RecordLands ==
  ASSUME Inv, work.at = "record", card' = Written, work'.at # "again"
  PROVE  /\ card' \in Cards /\ CardInv' /\ Messages' = Messages
         /\ Named' = Named /\ Len(card'.rec) = Named + 1
         /\ card'.rec[Named + 1].id = work.op.ticket
         /\ \A n \in 1..Named : card'.rec[n] = card.rec[n]
<1> DEFINE r == [id |-> work.op.ticket, live |-> TRUE]
<1>1. /\ card \in Cards /\ card.rec \in Seq(Recs) /\ card.head.is = "good"
      /\ work.h = card.head /\ work.op.ticket \in card.body
      /\ Named \in Nat /\ Named <= Len(card.rec) /\ Len(card.rec) <= Named + 1
      /\ \A n \in 1..Len(card.rec) : card.rec[n].id \in card.body
  BY DEF Inv, Types, CardInv, WorkInv, Cards
<1>2. work.h.newest = Named
  BY <1>1 DEF Named, NamedBy
<1>3. r \in Recs
  BY DEF Recs, Inv, Types, Works, Ops
<1>4. card' = [card EXCEPT !.rec = Recorded(card.rec, Named + 1, r)]
  BY <1>2 DEF Written
<1>5. /\ card'.rec = Recorded(card.rec, Named + 1, r)
      /\ card'.head = card.head /\ card'.body = card.body
  BY <1>1, <1>4 DEF Cards
<1>6. /\ card'.rec \in Seq(Recs) /\ Len(card'.rec) = Named + 1
      /\ card'.rec[Named + 1] = r
      /\ \A n \in 1..Named : card'.rec[n] = card.rec[n]
  <2>1. CASE Named + 1 <= Len(card.rec)
    <3>1. card'.rec = [card.rec EXCEPT ![Named + 1] = r]
      BY <1>5, <2>1 DEF Recorded
    <3> HIDE DEF r
    <3> QED
      BY <1>1, <1>3, <2>1, <3>1
  <2>2. CASE Named = Len(card.rec)
    <3>1. card'.rec = Append(card.rec, r)
      BY <1>1, <1>5, <2>2 DEF Recorded
    <3> HIDE DEF r
    <3> QED
      BY <1>1, <1>3, <2>2, <3>1
  <2> QED
    BY <1>1, <2>1, <2>2
<1>7. card' \in Cards
  BY <1>1, <1>4, <1>5, <1>6 DEF Cards
<1>8. Named' = Named
  BY <1>1, <1>5 DEF Named, NamedBy
<1>9. CardInv'
  <2>1. ASSUME NEW n \in 1..Named + 1
        PROVE  card'.rec[n].id \in card'.body /\ (n > Named => card'.rec[n].live)
    <3>1. CASE n = Named + 1
      BY <1>1, <1>5, <1>6, <3>1
    <3>2. CASE n # Named + 1
      <4>1. n \in 1..Named /\ n \in 1..Len(card.rec) /\ ~(n > Named)
        BY <1>1, <3>2
      <4>2. card'.rec[n] = card.rec[n]
        BY <1>6, <4>1
      <4>3. card.rec[n].id \in card.body
        BY <1>1, <4>1
      <4> QED
        BY <1>5, <4>1, <4>2, <4>3
    <3> QED
      BY <3>1, <3>2
  <2>2. 1..Len(card'.rec) = 1..Named + 1
    BY <1>6
  <2>3. /\ Named' \in Nat /\ Named' <= Len(card'.rec) /\ Len(card'.rec) <= Named' + 1
        /\ card'.head.is # "none"
    BY <1>1, <1>5, <1>6, <1>8
  <2> QED
    BY <1>8, <2>1, <2>2, <2>3 DEF CardInv
<1>10. Messages' = Messages
  BY <1>5, <1>6, <1>8, SightKept
<1> QED
  BY <1>6, <1>7, <1>8, <1>9, <1>10

\* The flag of a removal.
LEMMA FlagLands ==
  ASSUME Inv, work.at = "flag", card' = Written, work'.at # "again"
  PROVE  /\ card' \in Cards /\ CardInv' /\ Abstract!TNext /\ Named' = Named
         /\ ~card'.rec[work.op.num].live
<1> DEFINE n == work.op.num
<1>1. /\ card \in Cards /\ card.rec \in Seq(Recs) /\ card.head.is = "good"
      /\ Named \in Nat /\ Named <= Len(card.rec)
      /\ n \in 1..Named /\ card.rec[n].live
  BY DEF Inv, Types, CardInv, WorkInv, Cards
<1>2. card' = [card EXCEPT !.rec[n].live = FALSE]
  BY DEF Written
<1> HIDE DEF n
<1>3. /\ card'.rec = [card.rec EXCEPT ![n].live = FALSE]
      /\ card'.head = card.head /\ card'.body = card.body
  BY <1>1, <1>2 DEF Cards
<1>4. n \in 1..Len(card.rec) /\ card.rec[n] \in Recs
  BY <1>1
<1>5. [card.rec[n] EXCEPT !.live = FALSE] \in Recs
  BY <1>4 DEF Recs
<1>6. card'.rec = [card.rec EXCEPT ![n] = [card.rec[n] EXCEPT !.live = FALSE]]
  BY <1>3
<1>7. card'.rec \in Seq(Recs) /\ Len(card'.rec) = Len(card.rec)
  BY <1>1, <1>4, <1>5, <1>6
<1>8. card' \in Cards
  BY <1>1, <1>2, <1>3, <1>7 DEF Cards
<1>9. Named' = Named
  BY <1>1, <1>3 DEF Named, NamedBy
<1>10. /\ card'.rec[n].id = card.rec[n].id /\ ~card'.rec[n].live
       /\ \A m \in 1..Len(card.rec) : m # n => card'.rec[m] = card.rec[m]
  BY <1>1, <1>4, <1>6 DEF Recs
<1>11. CardInv'
  <2>1. ASSUME NEW m \in 1..Len(card.rec)
        PROVE  card'.rec[m].id \in card'.body /\ (m > Named => card'.rec[m].live)
    <3>1. CASE m = n
      BY <1>1, <1>3, <1>10, <3>1 DEF Inv, CardInv
    <3>2. CASE m # n
      BY <1>3, <1>10, <3>2 DEF Inv, CardInv
    <3> QED
      BY <3>1, <3>2
  <2>2. Len(card.rec) <= Named + 1
    BY DEF Inv, CardInv
  <2> QED
    BY <1>1, <1>3, <1>7, <1>9, <2>1, <2>2 DEF CardInv
<1>12. Abstract!TakeDown
  BY <1>1, <1>2, <1>9, OneTakenDown
<1> QED
  BY <1>8, <1>9, <1>10, <1>11, <1>12 DEF Abstract!TNext, n

\* Whatever the write, and whatever comes of it.
LEMMA DataLands ==
  ASSUME Inv, work.at \notin {"head", "again"}, card' \in Interrupted, work'.at # "again"
  PROVE  /\ card' \in Cards /\ CardInv' /\ (Messages' = Messages \/ Abstract!TNext)
         /\ Named' = Named
<1>1. card \in Cards /\ card.rec \in Seq(Recs) /\ CardInv /\ Named = NamedBy(card)
  BY DEF Inv, Types, Cards, Named
<1>2. Named' = NamedBy(card')
  BY DEF Named
<1>3. card' = card \/ card' = Written
  BY DEF Interrupted
<1>4. CASE card' = card
  <2>1. Named' = Named
    BY <1>1, <1>2, <1>4 DEF NamedBy
  <2> QED
    BY <1>1, <1>4, <2>1, SightKept DEF CardInv
<1>5. CASE card' = Written /\ work.at = "make"
  <2>1. card.rec = <<>> /\ Named = 0
    BY <1>1, <1>5 DEF Inv, CardInv, WorkInv, NamedBy
  <2>2. card' = [card EXCEPT !.head = Torn, !.rec = <<>>]
    BY <1>5 DEF Written
  <2>3. Torn \in Heads /\ <<>> \in Seq(Recs)
    BY DEF Torn, Heads
  <2>4. /\ card'.head = Torn /\ card'.rec = <<>> /\ card'.body = card.body
        /\ card'.ptr = card.ptr /\ card' = [head |-> Torn, rec |-> <<>>, body |-> card.body, ptr |-> card.ptr]
    BY <1>1, <2>2 DEF Cards
  <2>5. card' \in Cards
    BY <1>1, <2>3, <2>4 DEF Cards
  <2>6. Named' = 0
    BY <1>2, <2>4 DEF NamedBy, Torn
  <2>7. CardInv'
    BY <2>4, <2>6 DEF CardInv, Torn
  <2> QED
    BY <2>1, <2>4, <2>5, <2>6, <2>7, SightKept
<1>6. CASE card' = Written /\ work.at = "body"
  <2>1. card' = [card EXCEPT !.body = card.body \cup {work.op.ticket}]
    BY <1>6 DEF Written
  <2>2. work.op.ticket \in Nat
    BY DEF Inv, Types, Works, Ops
  <2>3. /\ card'.head = card.head /\ card'.rec = card.rec
        /\ card.body \subseteq card'.body /\ card' \in Cards
    BY <1>1, <2>1, <2>2 DEF Cards
  <2>4. Named' = Named
    BY <1>1, <1>2, <2>3 DEF NamedBy
  <2> QED
    BY <1>1, <2>3, <2>4, SightKept DEF CardInv
<1>7. CASE card' = Written /\ work.at = "record"
  BY <1>7, RecordLands
<1>8. CASE card' = Written /\ work.at = "flag"
  BY <1>8, FlagLands
<1>9. CASE card' = Written /\ work.at = "ptr"
  <2>1. card' = [card EXCEPT !.ptr[work.op.user] = work.op.mark]
    BY <1>9 DEF Written
  <2>2. work.op.mark \in Nat
    BY DEF Inv, Types, Works, Ops
  <2>3. /\ card'.head = card.head /\ card'.rec = card.rec /\ card'.body = card.body
        /\ card' \in Cards
    BY <1>1, <2>1, <2>2 DEF Cards
  <2>4. Named' = Named
    BY <1>1, <1>2, <2>3 DEF NamedBy
  <2> QED
    BY <1>1, <2>3, <2>4, SightKept DEF CardInv
<1>10. CASE card' = Written /\ work.at \notin {"make", "body", "record", "flag", "ptr"}
  <2>1. card' = card
    BY <1>10 DEF Written
  <2> QED
    BY <2>1, <1>4
<1> QED
  BY <1>3, <1>4, <1>5, <1>6, <1>7, <1>8, <1>9, <1>10

-------------------------------------------------------------------------------
(* The runner's steps                                                      *)

\* A step ends the op in hand: nothing of what the writer knew is needed any more.
LEMMA Ends ==
  ASSUME Inv, work.at # "idle", NEW op \in Ops, Finish(op), card' \in Cards, CardInv',
         UNCHANGED <<figures, asked, place>>
  PROVE  Inv'
<1>1. Types'
  BY FinishTypes DEF Inv, Types
<1>2. WorkInv'
  BY FinishTypes DEF Inv, WorkInv
<1> QED
  BY <1>1, <1>2 DEF Inv

\* A step goes on with the op in hand.
LEMMA GoesOn ==
  ASSUME Inv, work.at # "idle", NEW w \in Works, GoOn(w), card' \in Cards, CardInv', WorkInv',
         UNCHANGED <<figures, asked, place>>
  PROVE  Inv'
BY GoOnTypes DEF Inv, Types

\* No file is touched, and no header is being written again.
LEMMA CardStays ==
  ASSUME Inv, work.at # "again", work'.at # "again", card' = card
  PROVE  card' \in Cards /\ CardInv' /\ Messages' = Messages /\ Named' = Named
<1>1. Named' = Named
  BY DEF Named, NamedBy
<1> QED
  BY <1>1, SightKept DEF Inv, Types, CardInv

\* The figures of an op.
LEMMA FiguresType ==
  ASSUME NEW op \in Ops, NEW h \in Heads
  PROVE  Figures(op, h) \in Ops
BY DEF Figures, Ops, Heads

\* The writer takes an op.
LEMMA TakeKeeps == ASSUME Inv, Take PROVE Inv' /\ Messages' = Messages
<1> DEFINE op == queue[done + 1]
           w == [at |-> IF op.kind = "ptr" THEN "ptr" ELSE "open", op |-> op,
                 h |-> NoHead, nh |-> NoHead, seeding |-> FALSE]
<1>1. done + 1 \in 1..Len(queue) /\ queue \in Seq(Ops)
  BY DEF Take, Inv, Types
<1>2. op \in Ops
  BY <1>1
<1>3. NoHead \in Heads /\ NoHead.newest = 0
  BY DEF NoHead, Heads
<1>4. w \in Works /\ w.at \in {"ptr", "open"} /\ w.h.newest = 0
  BY <1>2, <1>3 DEF Works, Ats
<1>5. work' = w /\ UNCHANGED <<queue, done, card, figures, asked, place>>
  BY DEF Take, GoOn, RunnerStep, opVars, askVars
<1> HIDE DEF w
<1>6. /\ CardInv' /\ Messages' = Messages
  BY <1>4, <1>5, CardStays DEF Take
<1>7. Types'
  BY <1>4, <1>5 DEF Inv, Types, Take
<1>8. WorkInv'
  BY <1>4, <1>5 DEF WorkInv
<1> QED
  BY <1>6, <1>7, <1>8 DEF Inv

\* The job ends.
LEMMA EndJobKeeps == ASSUME Inv, EndJob PROVE Inv' /\ Messages' = Messages
<1>1. UNCHANGED cardVars /\ Types'
  BY DEF EndJob, cardVars, opVars, askVars, Inv, Types
<1> QED
  BY <1>1, LoopKeeps

\* A file does not open or a record does not read.
LEMMA ReadFailsKeeps == ASSUME Inv, ReadFails PROVE Inv' /\ Messages' = Messages
<1>1. work.at \notin {"idle", "again"} /\ work.op \in Ops
  BY DEF ReadFails, Reading, Inv, Types, Works
<1>2. Finish(work.op) /\ card' = card /\ UNCHANGED <<figures, asked, place>>
  BY DEF ReadFails, RunnerStep, askVars
<1>3. work'.at # "again"
  BY <1>1, <1>2, FinishTypes DEF Inv
<1> QED
  BY <1>1, <1>2, <1>3, CardStays, Ends

\* The live records are counted.
LEMMA CountKeeps == ASSUME Inv, Count PROVE Inv' /\ Messages' = Messages
<1> DEFINE w == [work EXCEPT !.at = "head", !.h = Good(card.head.count, Rebuilt),
                             !.nh = Good(Live(card, Rebuilt), Rebuilt)]
<1>1. /\ work.at = "count" /\ GoOn(w) /\ card' = card
      /\ UNCHANGED <<figures, asked, place>>
  BY DEF Count, RunnerStep, askVars
<1>2. card \in Cards /\ card.head \in Heads /\ card.head.is # "none" /\ work \in Works
  BY <1>1 DEF Inv, Types, WorkInv, Cards
<1>3. Rebuilt = Named
  BY <1>1, <1>2 DEF Rebuilt, Named, NamedBy
<1>4. Rebuilt \in Nat /\ Rebuilt <= Len(card.rec)
  BY <1>3 DEF Inv, CardInv
<1>5. Good(card.head.count, Rebuilt) \in Heads /\ Good(Live(card, Rebuilt), Rebuilt) \in Heads
  BY <1>2, <1>4, LiveType DEF Good, Heads
<1>6. w \in Works
  BY <1>2, <1>5 DEF Works, Ats
<1>7. /\ w.at = "head" /\ w.h.newest = Rebuilt /\ w.nh.newest = Rebuilt
      /\ w.nh.is = "good"
  BY <1>2 DEF Works, Good
<1>8. work' = w
  BY <1>1 DEF GoOn
<1> HIDE DEF w
<1>9. card' \in Cards /\ CardInv' /\ Messages' = Messages /\ Named' = Named
  BY <1>1, <1>7, <1>8, CardStays
<1>10. WorkInv'
  BY <1>1, <1>2, <1>3, <1>4, <1>7, <1>8, <1>9 DEF WorkInv
<1> QED
  BY <1>1, <1>6, <1>9, <1>10, GoesOn

\* The writer looks at the record to be removed.
LEMMA LookKeeps == ASSUME Inv, Look PROVE Inv' /\ Messages' = Messages
<1>1. /\ work.at = "look" /\ card' = card /\ UNCHANGED <<figures, asked, place>>
      /\ card.head.is = "good" /\ work.h = card.head
      /\ work \in Works /\ work.op \in Ops
  BY DEF Look, RunnerStep, askVars, Inv, Types, WorkInv, Works
<1>2. ASSUME NEW op \in Ops, Finish(op)
      PROVE  Inv' /\ Messages' = Messages
  <2>1. work'.at # "again"
    BY <1>1, <1>2, FinishTypes DEF Inv
  <2> QED
    BY <1>1, <1>2, <2>1, CardStays, Ends
<1>3. CASE GoOn([work EXCEPT !.at = "flag"]) /\ work.op.num \in 1..work.h.newest
           /\ card.rec[work.op.num].live
  <2>1. /\ [work EXCEPT !.at = "flag"] \in Works
        /\ work' = [work EXCEPT !.at = "flag"]
        /\ work'.at = "flag" /\ work'.op = work.op /\ work'.h = work.h
    BY <1>1, <1>3 DEF GoOn, Works, Ats
  <2>2. card' \in Cards /\ CardInv' /\ Messages' = Messages /\ Named' = Named
    BY <1>1, <2>1, CardStays
  <2>3. Named = work.h.newest
    BY <1>1 DEF Named, NamedBy
  <2>4. WorkInv'
    BY <1>1, <1>3, <2>1, <2>2, <2>3 DEF WorkInv
  <2> QED
    BY <1>1, <2>1, <2>2, <2>4, <1>3, GoesOn
<1>4. [work.op EXCEPT !.res = "gone"] \in Ops
  BY <1>1 DEF Ops
<1> QED
  BY <1>1, <1>2, <1>3, <1>4 DEF Look

\* The header is read, or not.
LEMMA ReadHeaderKeeps == ASSUME Inv, ReadHeader PROVE Inv' /\ Messages' = Messages
<1> DEFINE kind  == work.op.kind
           seed  == [work EXCEPT !.seeding = kind = "post"]
           known == [work EXCEPT !.h = card.head, !.op = Figures(work.op, card.head)]
<1>1. /\ work.at \in {"open", "reopen"} /\ card' = card /\ UNCHANGED <<figures, asked, place>>
      /\ card \in Cards /\ card.head \in Heads /\ work \in Works /\ work.op \in Ops
  BY DEF ReadHeader, RunnerStep, askVars, Inv, Types, Works, Cards
<1>2. known \in Works /\ known.op \in Ops /\ known.h = card.head
  BY <1>1, FiguresType DEF Works
<1>3. seed \in Works /\ seed.h = work.h
  BY <1>1 DEF Works
<1>4. ASSUME NEW op \in Ops, Finish(op)
      PROVE  Inv' /\ Messages' = Messages
  <2>1. work'.at # "again"
    BY <1>1, <1>4, FinishTypes DEF Inv
  <2> QED
    BY <1>1, <1>4, <2>1, CardStays, Ends
<1>5. ASSUME NEW w \in Works, NEW at \in {"make", "count", "body", "look"},
             GoOn([w EXCEPT !.at = at]),
             at = "make" => card.head.is = "none" /\ w.h = work.h,
             at = "count" => card.head.is # "none",
             at \in {"body", "look"} => card.head.is = "good" /\ w.h = card.head
      PROVE  Inv' /\ Messages' = Messages
  <2>1. /\ [w EXCEPT !.at = at] \in Works /\ work' = [w EXCEPT !.at = at]
        /\ work'.at = at /\ work'.h = w.h
    BY <1>5 DEF Works, Ats, GoOn
  <2>2. card' \in Cards /\ CardInv' /\ Messages' = Messages /\ Named' = Named
    BY <1>1, <2>1, CardStays
  <2>3. at = "make" => work.at = "open" /\ work.h.newest = 0
    BY <1>1, <1>5 DEF Inv, WorkInv
  <2>4. WorkInv'
    BY <1>1, <1>5, <2>1, <2>3 DEF WorkInv
  <2> QED
    BY <1>1, <1>5, <2>1, <2>2, <2>4, GoesOn
<1>6. CASE Finish([work.op EXCEPT !.stale = card.head.is = "torn"])
  <2>1. [work.op EXCEPT !.stale = card.head.is = "torn"] \in Ops
    BY <1>1 DEF Ops
  <2> QED
    BY <1>4, <1>6, <2>1
<1>7. CASE card.head.is = "none" /\ GoOn([seed EXCEPT !.at = "make"])
  BY <1>3, <1>5, <1>7
<1>8. CASE card.head.is = "torn" /\ GoOn([seed EXCEPT !.at = "count"])
  BY <1>3, <1>5, <1>8
<1>9. CASE card.head.is = "good" /\ GoOn([known EXCEPT !.at = "body"])
  BY <1>2, <1>5, <1>9
<1>10. CASE card.head.is = "good" /\ GoOn([known EXCEPT !.at = "look"])
  BY <1>2, <1>5, <1>10
<1>11. CASE card.head.is = "good" /\ GoOn([work EXCEPT !.at = "count"])
  BY <1>1, <1>5, <1>11
<1>12. CASE Finish([known.op EXCEPT !.res = "ok"])
  <2>1. [known.op EXCEPT !.res = "ok"] \in Ops
    BY <1>2 DEF Ops
  <2> QED
    BY <1>4, <1>12, <2>1
<1> QED
  BY <1>1, <1>6, <1>7, <1>8, <1>9, <1>10, <1>11, <1>12 DEF ReadHeader

\* Any step that leaves the writer with nothing in hand, whatever became of the write.
LEMMA WriteEnds ==
  ASSUME Inv, card' \in Interrupted, work'.at # "again"
  PROVE  card' \in Cards /\ CardInv' /\ (Messages' = Messages \/ Abstract!TNext)
BY HeaderLands, DataLands

\* A write fails.
LEMMA WriteFailsKeeps ==
  ASSUME Inv, WriteFails
  PROVE  Inv' /\ (Messages' = Messages \/ Abstract!TNext)
<1>1. /\ Writing /\ card' \in Interrupted /\ UNCHANGED <<figures, asked, place>>
      /\ work \in Works /\ work.op \in Ops /\ work.at # "idle"
      /\ work.nh \in Heads
  BY DEF WriteFails, Writing, RunnerStep, askVars, Inv, Types, Works
<1>2. ASSUME NEW op \in Ops, Finish(op)
      PROVE  Inv' /\ (Messages' = Messages \/ Abstract!TNext)
  <2>1. work'.at # "again"
    BY <1>1, <1>2, FinishTypes DEF Inv
  <2> QED
    BY <1>1, <1>2, <2>1, WriteEnds, Ends
<1>3. CASE work.at = "head" /\ GoOn([work EXCEPT !.at = "again"])
  <2>1. /\ [work EXCEPT !.at = "again"] \in Works /\ work' = [work EXCEPT !.at = "again"]
        /\ work'.at = "again" /\ work'.h = work.h /\ work'.nh = work.nh
    BY <1>1, <1>3 DEF GoOn, Works, Ats
  <2>2. /\ card' \in Cards /\ CardInv' /\ (Messages' = Messages \/ Abstract!TNext)
        /\ card'.rec = card.rec /\ card'.head \in {card.head, work.nh, Torn}
        /\ card'.head.is # "none"
    BY <1>1, <1>3, <2>1, HeaderLands
  <2>3. /\ work.h.newest = Named /\ card.head.is # "none" /\ Len(card.rec) <= Named + 1
        /\ work.nh.is = "good" /\ work.nh.newest <= Len(card.rec)
        /\ work.nh.newest \in {work.h.newest, work.h.newest + 1}
    BY <1>3 DEF Inv, CardInv, WorkInv
  <2>4. card.head.is = "good" => card.head.newest = work.h.newest
    BY <1>3, <2>3 DEF Named, NamedBy
  <2>5. card'.head.is = "good" => card'.head.newest \in {work.h.newest, work.nh.newest}
    BY <2>2, <2>4 DEF Torn
  <2>6. WorkInv'
    BY <2>1, <2>2, <2>3, <2>5 DEF WorkInv
  <2> QED
    BY <1>1, <1>3, <2>1, <2>2, <2>6, GoesOn
<1>4. Answered \in Ops
  BY <1>1, FiguresType DEF Answered, Ops
<1>5. Unheaded \in Ops /\ [work.op EXCEPT !.stale = TRUE] \in Ops
  <2>1. \A op \in Ops : [op EXCEPT !.stale = TRUE] \in Ops
    BY DEF Ops
  <2> QED
    BY <1>1, <1>4, <2>1 DEF Unheaded
<1> QED
  BY <1>1, <1>2, <1>3, <1>5 DEF WriteFails, Writing

\* The power goes.
LEMMA PowerCutKeeps ==
  ASSUME Inv, PowerCut
  PROVE  Inv' /\ (Messages' = Messages \/ Abstract!TNext)
<1>1. /\ card' \in Interrupted /\ queue' = <<>> /\ done' = 0 /\ work' = Idle
      /\ figures' = [newest |-> 0, total |-> 0] /\ UNCHANGED <<asked, place>>
  BY DEF PowerCut
<1>2. work'.at = "idle" /\ work' \in Works
  BY <1>1, IdleType DEF Idle
<1>3. card' \in Cards /\ CardInv' /\ (Messages' = Messages \/ Abstract!TNext)
  BY <1>1, <1>2, WriteEnds
<1>4. queue' \in Seq(Ops) /\ Len(queue') = 0
  BY <1>1
<1>5. Types'
  BY <1>1, <1>2, <1>3, <1>4 DEF Inv, Types
<1>6. WorkInv'
  BY <1>2 DEF WorkInv
<1> QED
  BY <1>3, <1>5, <1>6 DEF Inv

\* A write goes through.
LEMMA WriteKeeps ==
  ASSUME Inv, Write
  PROVE  Inv' /\ (Messages' = Messages \/ Abstract!TNext)
<1> DEFINE at == work.at
           h  == work.h
<1>1. /\ Writing /\ card' = Written /\ card' \in Interrupted
      /\ UNCHANGED <<figures, asked, place>> /\ at # "idle"
      /\ card \in Cards /\ card.head \in Heads /\ work \in Works /\ work.op \in Ops
      /\ h \in Heads /\ work.nh \in Heads /\ work.h.newest \in Nat /\ work.h.count \in Nat
  BY DEF Write, Writing, Interrupted, RunnerStep, askVars, Inv, Types, Works, Cards, Heads
<1>2. ASSUME NEW op \in Ops, Finish(op)
      PROVE  Inv' /\ (Messages' = Messages \/ Abstract!TNext)
  <2>1. work'.at # "again"
    BY <1>1, <1>2, FinishTypes DEF Inv
  <2> QED
    BY <1>1, <1>2, <2>1, WriteEnds, Ends
<1>3. CASE at = "make" /\ GoOn([work EXCEPT !.at = "head", !.nh = Good(0, 0)])
  <2>1. /\ [work EXCEPT !.at = "head", !.nh = Good(0, 0)] \in Works
        /\ work'.at = "head" /\ work'.h = work.h /\ work'.nh.is = "good" /\ work'.nh.newest = 0
    BY <1>1, <1>3 DEF GoOn, Works, Ats, Good, Heads
  <2>2. /\ card' \in Cards /\ CardInv' /\ (Messages' = Messages \/ Abstract!TNext)
        /\ Named' = Named
    BY <1>1, <1>3, <2>1, DataLands
  <2>3. card.head.is = "none" /\ work.h.newest = 0
    BY <1>3 DEF Inv, WorkInv
  <2>4. Named = 0
    BY <1>3, <2>3 DEF Named, NamedBy
  <2>5. card' = [card EXCEPT !.head = Torn, !.rec = <<>>]
    BY <1>1, <1>3 DEF Written
  <2>6. card'.head.is # "none" /\ Len(card'.rec) = 0
    BY <1>1, <2>5 DEF Cards, Torn
  <2>7. WorkInv'
    BY <2>1, <2>2, <2>3, <2>4, <2>6 DEF WorkInv
  <2> QED
    BY <1>1, <1>3, <2>1, <2>2, <2>7, GoesOn
<1>4. CASE at = "body" /\ GoOn([work EXCEPT !.at = "record"])
  <2>1. /\ [work EXCEPT !.at = "record"] \in Works
        /\ work'.at = "record" /\ work'.h = work.h /\ work'.op = work.op
    BY <1>1, <1>4 DEF GoOn, Works, Ats
  <2>2. /\ card' \in Cards /\ CardInv' /\ (Messages' = Messages \/ Abstract!TNext)
    BY <1>1, <1>4, <2>1, DataLands
  <2>3. card' = [card EXCEPT !.body = card.body \cup {work.op.ticket}]
    BY <1>1, <1>4 DEF Written
  <2>4. card'.head = card.head /\ work.op.ticket \in card'.body
    BY <1>1, <2>3 DEF Cards
  <2>5. WorkInv'
    BY <1>4, <2>1, <2>4 DEF Inv, WorkInv
  <2> QED
    BY <1>1, <1>4, <2>1, <2>2, <2>5, GoesOn
<1>5. CASE at = "record" /\ GoOn([work EXCEPT !.at = "head", !.nh = Good(h.count + 1, h.newest + 1)])
  <2> DEFINE nh == Good(h.count + 1, h.newest + 1)
  <2>1. nh \in Heads /\ nh.is = "good" /\ nh.newest = h.newest + 1
    BY <1>1 DEF Good, Heads
  <2>2. work' = [work EXCEPT !.at = "head", !.nh = nh]
    BY <1>5 DEF GoOn
  <2> HIDE DEF nh
  <2>3. work' \in Works /\ work'.at = "head" /\ work'.h = work.h /\ work'.nh = nh
    BY <1>1, <2>1, <2>2 DEF Works, Ats
  <2>4. /\ card' \in Cards /\ CardInv' /\ Messages' = Messages
        /\ Named' = Named /\ Len(card'.rec) = Named + 1
    BY <1>1, <1>5, <2>3, RecordLands
  <2>5. card.head.is = "good" /\ work.h = card.head
    BY <1>5 DEF Inv, WorkInv
  <2>6. work.h.newest = Named
    BY <1>5, <2>5 DEF Named, NamedBy
  <2>7. card'.head = card.head
    BY <1>1, <1>5 DEF Written, Cards
  <2>8. WorkInv'
    BY <1>1, <2>1, <2>3, <2>4, <2>5, <2>6, <2>7 DEF WorkInv
  <2>9. GoOn(work')
    BY <1>5 DEF GoOn
  <2> QED
    BY <1>1, <2>3, <2>4, <2>8, <2>9, GoesOn
<1>6. CASE /\ at = "flag"
           /\ GoOn([work EXCEPT !.at = "head",
                      !.nh = Good(IF h.count > 0 THEN h.count - 1 ELSE 0, h.newest)])
  <2> DEFINE nh == Good(IF h.count > 0 THEN h.count - 1 ELSE 0, h.newest)
  <2>1. nh \in Heads /\ nh.is = "good" /\ nh.newest = h.newest
    BY <1>1 DEF Good, Heads
  <2>2. work' = [work EXCEPT !.at = "head", !.nh = nh]
    BY <1>6 DEF GoOn
  <2> HIDE DEF nh
  <2>3. work' \in Works /\ work'.at = "head" /\ work'.h = work.h /\ work'.nh = nh
    BY <1>1, <2>1, <2>2 DEF Works, Ats
  <2>4. card' \in Cards /\ CardInv' /\ Abstract!TNext /\ Named' = Named
    BY <1>1, <1>6, <2>3, FlagLands
  <2>5. card.head.is = "good" /\ work.h = card.head
    BY <1>6 DEF Inv, WorkInv
  <2>6. work.h.newest = Named
    BY <1>6, <2>5 DEF Named, NamedBy
  <2>7. card' = [card EXCEPT !.rec[work.op.num].live = FALSE]
    BY <1>1, <1>6 DEF Written
  <2>8. card'.head = card.head
    BY <1>1, <2>7 DEF Cards
  <2>9. Named' <= Len(card'.rec)
    BY <2>4 DEF CardInv
  <2>10. WorkInv'
    BY <2>1, <2>3, <2>4, <2>5, <2>6, <2>8, <2>9 DEF WorkInv
  <2>11. GoOn(work')
    BY <1>6 DEF GoOn
  <2> QED
    BY <1>1, <2>3, <2>4, <2>10, <2>11, GoesOn
<1>7. CASE at \in {"head", "again"} /\ GoOn([work EXCEPT !.at = "reopen", !.seeding = FALSE])
  <2>1. /\ [work EXCEPT !.at = "reopen", !.seeding = FALSE] \in Works
        /\ work'.at = "reopen"
    BY <1>1, <1>7 DEF GoOn, Works, Ats
  <2>2. card' \in Cards /\ CardInv' /\ (Messages' = Messages \/ Abstract!TNext)
    BY <1>1, <1>7, <2>1, HeaderLands
  <2>3. card' = [card EXCEPT !.head = work.nh] /\ work.nh.is = "good"
    BY <1>1, <1>7 DEF Written, Inv, WorkInv
  <2>4. card'.head.is = "good"
    BY <1>1, <2>3 DEF Cards
  <2>5. WorkInv'
    BY <2>1, <2>4 DEF WorkInv
  <2> QED
    BY <1>1, <1>7, <2>1, <2>2, <2>5, GoesOn
<1>8. Answered \in Ops
  BY <1>1, FiguresType, ZenonT(60) DEF Answered, Ops
<1>9. [work.op EXCEPT !.res = "ok"] \in Ops
  BY <1>1 DEF Ops
<1>10. [Answered EXCEPT !.num = work.nh.newest] \in Ops
  <2>1. \A op \in Ops, n \in Nat : [op EXCEPT !.num = n] \in Ops
    BY DEF Ops
  <2>2. work.nh.newest \in Nat
    BY <1>1 DEF Heads
  <2> QED
    BY <1>8, <2>1, <2>2
<1>11. CASE at \in {"head", "again"} /\ Headed
  BY <1>2, <1>7, <1>8, <1>10, <1>11 DEF Headed
<1>12. CASE at = "ptr" /\ Finish([work.op EXCEPT !.res = "ok"])
  BY <1>2, <1>9, <1>12
<1> QED
  BY <1>1, <1>3, <1>4, <1>5, <1>6, <1>11, <1>12 DEF Write, Writing

-------------------------------------------------------------------------------
(* The theorems                                                            *)

\* Every step keeps the files in agreement and does to the messages what the forum promises.
LEMMA EveryStep ==
  ASSUME Inv, [Next]_vars
  PROVE  Inv' /\ (Messages' = Messages \/ Abstract!TNext)
<1>1. CASE LoopNext
  BY <1>1, LoopTypes, LoopKeeps DEF Inv
<1>2. CASE UNCHANGED vars
  <2>1. UNCHANGED cardVars /\ Types'
    BY <1>2 DEF vars, cardVars, Inv, Types
  <2> QED
    BY <2>1, LoopKeeps
<1>3. CASE RunNext
  BY <1>3, TakeKeeps, ReadHeaderKeeps, CountKeeps, LookKeeps, WriteKeeps DEF RunNext
<1> QED
  BY <1>1, <1>2, <1>3, EndJobKeeps, ReadFailsKeeps, WriteFailsKeeps, PowerCutKeeps DEF Next

\* At every step of the writer the header is behind the records by one at the most,
\* every record has its text, and what the writer has in hand agrees with the files.
THEOREM FilesAgree == Spec => []Inv
<1>1. Init => Inv
  BY TheInit
<1>2. Inv /\ [Next]_vars => Inv'
  BY EveryStep
<1> QED
  BY <1>1, <1>2, PTL DEF Spec

\* The forum keeps what it promises its callers, whatever fails on the card and
\* whenever the power goes.
THEOREM ForumKeepsItsMessages == Spec => TopicSpec
<1>1. Init => Abstract!TInit
  BY TheInit
<1>2. Inv /\ [Next]_vars => [Abstract!TNext]_Messages
  BY EveryStep
<1> QED
  BY <1>1, <1>2, FilesAgree, PTL DEF Spec, TopicSpec, Abstract!TSpec

-------------------------------------------------------------------------------
(* The op in hand                                                          *)

\* What of an op its writing does not change.
SameOp(op, q) == op.kind = q.kind /\ op.user = q.user /\ op.mark = q.mark /\ op.recount = q.recount

\* The op in hand is the first not yet written, and a pointer is written in one step.
QueueInv ==
  /\ \A i \in 1..Len(queue) : queue[i].kind # "none"
  /\ work.at # "idle" => /\ SameOp(work.op, queue[done + 1])
                         /\ work.at = "ptr" <=> work.op.kind = "ptr"

\* It is answered.
LEMMA EndsInOrder ==
  ASSUME Inv, QueueInv, work.at # "idle", NEW op, SameOp(op, work.op), Finish(op)
  PROVE  QueueInv'
<1>1. queue \in Seq(Ops) /\ done + 1 \in 1..Len(queue)
  BY DEF Inv, Types
<1>2. queue' = [queue EXCEPT ![done + 1] = op] /\ work'.at = "idle"
  BY DEF Finish, Idle
<1>3. op.kind = queue[done + 1].kind
  BY DEF QueueInv, SameOp
<1>4. \A i \in 1..Len(queue') : queue'[i].kind # "none"
  BY <1>1, <1>2, <1>3 DEF QueueInv
<1> QED
  BY <1>2, <1>4 DEF QueueInv

\* Its next step.
LEMMA GoesOnInOrder ==
  ASSUME QueueInv, work.at \notin {"idle", "ptr"}, queue' = queue, done' = done,
         SameOp(work'.op, work.op), work'.at # "ptr"
  PROVE  QueueInv'
BY DEF QueueInv, SameOp

\* The queue as the loop leaves it: the ops it had, moved up by the one delivered, and
\* perhaps one more.
LEMMA QueueMoves ==
  ASSUME Inv, QueueInv, UNCHANGED cardVars, NEW n \in {0, 1}, done' = done - n, done >= n,
         NEW op \in Ops, op.kind # "none",
         Len(queue') \in {Len(queue) - n, Len(queue) - n + 1},
         \A i \in 1..Len(queue') : queue'[i] = IF i + n <= Len(queue) THEN queue[i + n] ELSE op
  PROVE  QueueInv'
<1>1. queue \in Seq(Ops) /\ done \in Nat /\ Len(queue) \in Nat /\ card' = card /\ work' = work
      /\ (work.at # "idle" => done < Len(queue))
  BY DEF Inv, Types, cardVars
<1>2. \A i \in 1..Len(queue') : queue'[i].kind # "none"
  BY <1>1 DEF QueueInv
<1>3. work.at # "idle" => queue'[done' + 1] = queue[done + 1]
  BY <1>1
<1> QED
  BY <1>1, <1>2, <1>3 DEF QueueInv

\* An op goes in at the end, or none does.
LEMMA QueuedInOrder ==
  ASSUME Inv, QueueInv, UNCHANGED cardVars, done' = done, NEW op \in Ops, op.kind # "none",
         queue' = queue \/ queue' = Append(queue, op)
  PROVE  QueueInv'
<1>1. queue \in Seq(Ops) /\ done \in Nat /\ Len(queue) \in Nat
  BY DEF Inv, Types
<1>2. Len(queue') \in {Len(queue) - 0, Len(queue) - 0 + 1}
  BY <1>1
<1>3. \A i \in 1..Len(queue') : queue'[i] = IF i + 0 <= Len(queue) THEN queue[i + 0] ELSE op
  <2>1. CASE queue' = queue
    BY <1>1, <2>1
  <2>2. CASE queue' = Append(queue, op)
    BY <1>1, <2>2
  <2> QED
    BY <2>1, <2>2
<1>4. done' = done - 0 /\ done >= 0
  BY <1>1
<1> QED
  BY <1>2, <1>3, <1>4, QueueMoves

\* What opDeliver does to the queue.
LEMMA DeliverMoves ==
  ASSUME Inv, Deliver,
         NEW op, op = [NoOp EXCEPT !.kind = "seed", !.recount = TRUE]
  PROVE  /\ op \in Ops /\ op.kind = "seed"
         /\ done' = done - 1 /\ done >= 1
         /\ Len(queue') = IF queue[1].stale THEN Len(queue) ELSE Len(queue) - 1
         /\ \A i \in 1..Len(queue') : queue'[i] = IF i + 1 <= Len(queue) THEN queue[i + 1] ELSE op
         /\ Head(queue) = queue[1]
<1>1. queue \in Seq(Ops) /\ done \in Nat /\ Len(queue) \in Nat /\ done > 0 /\ done <= Len(queue)
      /\ done' = done - 1
  BY DEF Inv, Types, Deliver
<1>2. op \in Ops /\ op.kind = "seed"
  BY IdleType DEF Ops, NoOp
<1> DEFINE q == Tail(queue)
<1>3. q \in Seq(Ops) /\ Len(q) = Len(queue) - 1 /\ \A i \in 1..Len(q) : q[i] = queue[i + 1]
  BY <1>1
<1>4. Head(queue) = queue[1]
  BY <1>1
<1>5. queue' = IF queue[1].stale THEN Append(q, op) ELSE q
  BY <1>4 DEF Deliver
<1> HIDE DEF q
<1>6. CASE queue[1].stale
  <2>1. queue' = Append(q, op)
    BY <1>5, <1>6
  <2>2. Len(queue') = Len(queue)
    BY <1>1, <1>2, <1>3, <2>1
  <2>3. \A i \in 1..Len(queue') : queue'[i] = IF i + 1 <= Len(queue) THEN queue[i + 1] ELSE op
    BY <1>1, <1>2, <1>3, <2>1
  <2> QED
    BY <1>1, <1>2, <1>4, <1>6, <2>2, <2>3
<1>7. CASE ~queue[1].stale
  <2>1. Len(queue') = Len(queue) - 1
    BY <1>1, <1>3, <1>5, <1>7
  <2>2. \A i \in 1..Len(queue') : queue'[i] = IF i + 1 <= Len(queue) THEN queue[i + 1] ELSE op
    BY <1>1, <1>3, <1>5, <1>7
  <2> QED
    BY <1>1, <1>2, <1>4, <1>7, <2>1, <2>2
<1> QED
  BY <1>6, <1>7

\* Some caller leaves the forum.
SomeoneLeaves == \E u \in Users : PtrFlush(u)

\* What the loop's other steps do to it.
LEMMA LoopQueues ==
  ASSUME Inv, LoopNext, ~Deliver
  PROVE  /\ done' = done /\ UNCHANGED cardVars
         /\ \/ queue' = queue
            \/ \E op \in Ops : /\ op.kind # "none" /\ queue' = Append(queue, op)
                               /\ op.kind = "ptr" => SomeoneLeaves
<1> DEFINE Goal == /\ done' = done /\ UNCHANGED cardVars
                   /\ \/ queue' = queue
                      \/ \E op \in Ops : /\ op.kind # "none" /\ queue' = Append(queue, op)
                                         /\ op.kind = "ptr" => SomeoneLeaves
<1>a. ASSUME NEW s \in Slots, NEW op \in Ops, op.kind \notin {"none", "ptr"}, Ask(s, op) PROVE Goal
  <2> DEFINE o == [op EXCEPT !.ticket = asked', !.slot = s]
  <2>1. asked' \in Nat
    BY <1>a DEF Ask, Inv, Types
  <2>2. o \in Ops /\ o.kind \notin {"none", "ptr"}
    BY <1>a, <2>1 DEF Ops
  <2>3. queue' = Append(queue, o) /\ done' = done /\ UNCHANGED cardVars
    BY <1>a DEF Ask, Queued, LoopStep
  <2> HIDE DEF o
  <2> QED
    BY <2>2, <2>3
<1>1. ASSUME NEW s \in Slots, Post(s) PROVE Goal
  <2>1. [NoOp EXCEPT !.kind = "post"] \in Ops /\ [NoOp EXCEPT !.kind = "post"].kind = "post"
    BY IdleType DEF Ops, NoOp
  <2> QED
    BY <1>1, <1>a, <2>1 DEF Post
<1>2. ASSUME NEW s \in Slots, Remove(s) PROVE Goal
  <2>1. PICK n \in 1..figures.newest : Ask(s, [NoOp EXCEPT !.kind = "remove", !.num = n])
    BY <1>2 DEF Remove
  <2>2. n \in Nat
    BY DEF Inv, Types
  <2>3. [NoOp EXCEPT !.kind = "remove", !.num = n] \in Ops
        /\ [NoOp EXCEPT !.kind = "remove", !.num = n].kind = "remove"
    BY <2>2, IdleType DEF Ops, NoOp
  <2> QED
    BY <1>a, <2>1, <2>3
<1>3. ASSUME NEW s \in Slots, GiveUp(s) PROVE Goal
  BY <1>3 DEF GiveUp, LoopStep, opVars
<1>4. ASSUME NEW u \in Users, PtrFlush(u) PROVE Goal
  <2> DEFINE op == [NoOp EXCEPT !.kind = "ptr", !.user = u, !.mark = place'[u]]
  <2>1. place'[u] \in Nat
    BY <1>4 DEF PtrFlush, Inv, Types
  <2>2. op \in Ops /\ op.kind # "none"
    BY <2>1, IdleType DEF Ops, NoOp
  <2>3. (queue' = queue \/ queue' = Append(queue, op)) /\ done' = done /\ UNCHANGED cardVars
    BY <1>4 DEF PtrFlush, Queued, opVars, LoopStep
  <2>4. SomeoneLeaves
    BY <1>4 DEF SomeoneLeaves
  <2> HIDE DEF op
  <2> QED
    BY <2>2, <2>3, <2>4
<1>5. CASE Tick
  BY <1>5 DEF Tick, LoopStep, opVars
<1>6. CASE TickEnd
  BY <1>6 DEF TickEnd, LoopStep, opVars
<1>7. ASSUME NEW n, Start(n)
      PROVE  \/ queue' = queue
             \/ \E op \in Ops : op.kind \notin {"none", "ptr"} /\ queue' = Append(queue, op)
  <2> DEFINE seed == [NoOp EXCEPT !.kind = "seed"]
  <2>1. seed \in Ops /\ seed.kind = "seed"
    BY IdleType DEF Ops, NoOp
  <2>2. queue' = queue \/ queue' = Append(queue, seed)
    BY <1>7 DEF Start, StartReads, StartSeeds
  <2> HIDE DEF seed
  <2> QED
    BY <2>1, <2>2
<1>8. CASE Boot
  BY <1>7, <1>8 DEF Boot
<1>9. CASE Save
  BY <1>7, <1>9 DEF Save
<1> QED
  BY <1>1, <1>2, <1>3, <1>4, <1>5, <1>6, <1>8, <1>9 DEF LoopNext

\* How the runner leaves an op: with an answer, or at its next step.
LEMMA RunnerMoves ==
  ASSUME Inv, QueueInv, ReadHeader \/ Count \/ Look \/ Write \/ ReadFails \/ WriteFails
  PROVE  \/ \E op \in Ops : SameOp(op, work.op) /\ Finish(op)
         \/ /\ work.at # "ptr" /\ work'.at \notin {"ptr", "idle"} /\ SameOp(work'.op, work.op)
            /\ queue' = queue /\ done' = done /\ lost' = lost
<1> DEFINE Goal == \/ \E op \in Ops : SameOp(op, work.op) /\ Finish(op)
                   \/ /\ work.at # "ptr" /\ work'.at \notin {"ptr", "idle"}
                      /\ SameOp(work'.op, work.op) /\ queue' = queue /\ done' = done /\ lost' = lost
<1>1. work \in Works /\ work.op \in Ops /\ card.head \in Heads /\ work.nh \in Heads
      /\ work.h.newest \in Nat
  BY DEF Inv, Types, Works, Cards, Heads
<1> DEFINE kop == Figures(work.op, card.head)
           known == [work EXCEPT !.h = card.head, !.op = Figures(work.op, card.head)]
           seed  == [work EXCEPT !.seeding = work.op.kind = "post"]
<1>2. kop \in Ops /\ SameOp(kop, work.op) /\ SameOp(work.op, work.op)
  BY <1>1, FiguresType DEF Figures, SameOp, Ops
<1>3. known \in Works /\ known.op = kop /\ seed \in Works /\ seed.op = work.op
  BY <1>1, <1>2 DEF Works
<1>4. Answered \in Ops /\ SameOp(Answered, work.op)
  <2> DEFINE f == Figures(work.op, work.nh)
  <2>1. f \in Ops /\ SameOp(f, work.op)
    BY <1>1, FiguresType DEF Figures, SameOp, Ops
  <2> HIDE DEF f
  <2>2. Answered = [f EXCEPT !.res = "ok"]
    BY DEF Answered, f
  <2> QED
    BY <2>1, <2>2 DEF SameOp, Ops
<1>5. ASSUME NEW op \in Ops, SameOp(op, work.op)
      PROVE  /\ \A v \in {"io", "ok", "gone"} : [op EXCEPT !.res = v] \in Ops
                                                /\ SameOp([op EXCEPT !.res = v], work.op)
             /\ \A v \in BOOLEAN : [op EXCEPT !.stale = v] \in Ops
                                   /\ SameOp([op EXCEPT !.stale = v], work.op)
             /\ \A v \in Nat : [op EXCEPT !.num = v] \in Ops
                               /\ SameOp([op EXCEPT !.num = v], work.op)
  BY <1>5 DEF SameOp, Ops
<1> HIDE DEF Goal
<1>7. ASSUME NEW op \in Ops, SameOp(op, work.op), Finish(op) PROVE Goal
  BY <1>7 DEF Goal
<1>9. CASE ReadHeader
  <2>1. work.at # "ptr"
    BY <1>9 DEF ReadHeader
  <2>3. CASE Finish([work.op EXCEPT !.stale = card.head.is = "torn"])
    <3>1. PICK v \in BOOLEAN : v = (card.head.is = "torn")
      OBVIOUS
    <3>2. PICK q : q = [work.op EXCEPT !.stale = v]
      OBVIOUS
    <3>3. q \in Ops /\ SameOp(q, work.op)
      BY <1>1, <1>2, <3>2 DEF SameOp, Ops
    <3>4. Finish(q)
      BY <2>3, <3>1, <3>2
    <3> QED
      BY <1>7, <3>3, <3>4
  <2>4. CASE GoOn([seed EXCEPT !.at = "make"]) \/ GoOn([seed EXCEPT !.at = "count"])
    <3>1. work'.at \in {"make", "count"} /\ work'.op = seed.op /\ queue' = queue /\ done' = done /\ lost' = lost
      BY <1>3, <2>4 DEF GoOn, Works, opVars
    <3> QED
      BY <1>2, <1>3, <2>1, <3>1 DEF Goal
  <2>5. CASE GoOn([known EXCEPT !.at = "body"]) \/ GoOn([known EXCEPT !.at = "look"])
    <3> HIDE DEF known
    <3>1. work'.at \in {"body", "look"} /\ work'.op = known.op /\ queue' = queue /\ done' = done /\ lost' = lost
      BY <1>3, <2>5 DEF GoOn, Works, opVars
    <3> QED
      BY <1>2, <1>3, <2>1, <3>1 DEF Goal
  <2>6. CASE GoOn([work EXCEPT !.at = "count"])
    BY <1>1, <1>2, <2>1, <2>6 DEF GoOn, Works, opVars, Goal
  <2>7. CASE Finish([known.op EXCEPT !.res = "ok"])
    BY <1>2, <1>3, <1>5, <1>7, <2>7
  <2> QED
    BY <1>9, <2>3, <2>4, <2>5, <2>6, <2>7 DEF ReadHeader
<1>10. CASE Count
  BY <1>1, <1>2, <1>10 DEF Count, GoOn, Works, opVars, Goal
<1>11. CASE Look
  <2>1. work.at # "ptr"
    BY <1>11 DEF Look
  <2>2. CASE Finish(work.op)
    BY <1>1, <1>2, <1>7, <2>2
  <2>3. CASE GoOn([work EXCEPT !.at = "flag"])
    BY <1>1, <1>2, <2>1, <2>3 DEF GoOn, Works, opVars, Goal
  <2>4. CASE Finish([work.op EXCEPT !.res = "gone"])
    BY <1>1, <1>2, <1>5, <1>7, <2>4
  <2> QED
    BY <1>11, <2>2, <2>3, <2>4 DEF Look
<1>12. CASE ReadFails
  BY <1>1, <1>2, <1>7, <1>12 DEF ReadFails
<1>13. CASE WriteFails
  <2>1. CASE work.at = "head" /\ GoOn([work EXCEPT !.at = "again"])
    BY <1>1, <1>2, <2>1 DEF GoOn, Works, opVars, Goal
  <2>2. CASE Finish(work.op) \/ Finish([work.op EXCEPT !.stale = TRUE])
    BY <1>1, <1>2, <1>5, <1>7, <2>2
  <2>3. CASE Finish([Answered EXCEPT !.stale = TRUE])
    BY <1>4, <1>5, <1>7, <2>3
  <2> QED
    BY <1>13, <2>1, <2>2, <2>3 DEF WriteFails, Writing, Unheaded
<1>14. CASE Write
  <2>2. CASE work.at \in {"make", "record", "flag"}
    <3>1. work'.at = "head" /\ work'.op = work.op /\ queue' = queue /\ done' = done /\ lost' = lost
      BY <1>1, <1>14, <2>2 DEF Write, GoOn, Works, opVars
    <3> QED
      BY <1>2, <2>2, <3>1 DEF Goal
  <2>3. CASE work.at = "body"
    <3>1. work'.at = "record" /\ work'.op = work.op /\ queue' = queue /\ done' = done /\ lost' = lost
      BY <1>1, <1>14, <2>3 DEF Write, GoOn, Works, opVars
    <3> QED
      BY <1>2, <2>3, <3>1 DEF Goal
  <2>4. CASE work.at \in {"head", "again"} /\ GoOn([work EXCEPT !.at = "reopen", !.seeding = FALSE])
    BY <1>1, <1>2, <2>4 DEF GoOn, Works, opVars, Goal
  <2>5. CASE Finish(Answered) \/ Finish([Answered EXCEPT !.num = work.nh.newest])
    <3>1. work.nh.newest \in Nat
      BY <1>1 DEF Heads
    <3> QED
      BY <1>4, <1>5, <1>7, <2>5, <3>1
  <2>6. CASE Finish([work.op EXCEPT !.res = "ok"])
    BY <1>1, <1>2, <1>5, <1>7, <2>6
  <2> QED
    BY <1>14, <2>2, <2>3, <2>4, <2>5, <2>6 DEF Write, Writing, Headed
<1> QED
  BY <1>9, <1>10, <1>11, <1>12, <1>13, <1>14 DEF Goal

\* Every step keeps the op in hand the first not yet written.
LEMMA QueueStep == ASSUME Inv, QueueInv, [Next]_vars PROVE QueueInv'
<1>1. CASE Deliver
  <2>1. UNCHANGED cardVars
    BY <1>1 DEF Deliver, LoopStep
  <2>2. PICK op : op = [NoOp EXCEPT !.kind = "seed", !.recount = TRUE]
    OBVIOUS
  <2>3. Len(queue') \in {Len(queue) - 1, Len(queue) - 1 + 1}
    BY <1>1, <2>2, DeliverMoves DEF Inv, Types
  <2> QED
    BY <1>1, <2>1, <2>2, <2>3, DeliverMoves, QueueMoves
<1>2. CASE LoopNext /\ ~Deliver
  <2>1. CASE queue' = queue
    BY <1>2, <2>1, LoopQueues DEF QueueInv, cardVars
  <2>2. ASSUME NEW op \in Ops, op.kind # "none", queue' = Append(queue, op) PROVE QueueInv'
    BY <1>2, <2>2, LoopQueues, QueuedInOrder
  <2>3. queue' = queue \/ \E op \in Ops : op.kind # "none" /\ queue' = Append(queue, op)
    BY <1>2, LoopQueues
  <2> QED
    BY <2>1, <2>2, <2>3
<1>3. CASE Take
  <2>1. queue \in Seq(Ops) /\ done + 1 \in 1..Len(queue)
    BY <1>3 DEF Take, Inv, Types
  <2>2. /\ work'.at = IF queue[done + 1].kind = "ptr" THEN "ptr" ELSE "open"
        /\ work'.op = queue[done + 1] /\ queue' = queue /\ done' = done
    BY <1>3 DEF Take, GoOn, opVars
  <2> QED
    BY <2>1, <2>2 DEF QueueInv, SameOp
<1>4. CASE ReadHeader \/ Count \/ Look \/ Write \/ ReadFails \/ WriteFails
  <2>1. work.at # "idle"
    BY <1>4 DEF ReadHeader, Count, Look, Write, ReadFails, WriteFails, Reading, Writing
  <2>2. ASSUME NEW op \in Ops, SameOp(op, work.op), Finish(op) PROVE QueueInv'
    BY <2>1, <2>2, EndsInOrder
  <2>3. CASE /\ work.at # "ptr" /\ work'.at \notin {"ptr", "idle"} /\ SameOp(work'.op, work.op)
             /\ queue' = queue /\ done' = done /\ lost' = lost
    BY <2>1, <2>3, GoesOnInOrder
  <2> QED
    BY <1>4, <2>2, <2>3, RunnerMoves
<1>5. CASE EndJob
  BY <1>5 DEF EndJob, cardVars, opVars, QueueInv
<1>6. CASE PowerCut
  <2>1. Len(queue') = 0 /\ work'.at = "idle"
    BY <1>6 DEF PowerCut, Idle
  <2> QED
    BY <2>1 DEF QueueInv
<1>7. CASE UNCHANGED vars
  BY <1>7 DEF vars, QueueInv
<1> QED
  BY <1>1, <1>2, <1>3, <1>4, <1>5, <1>6, <1>7 DEF Next, RunNext

-------------------------------------------------------------------------------
(* What the callers are told                                               *)

\* Message n is the one of that ticket; message n is out of sight.
Is(n, ticket) == n \in 1..Named /\ card.rec[n].id = ticket
Down(n)       == n \in 1..Named /\ ~card.rec[n].live

\* What an op's answer says of the files is so.
OpIsTrue(op) ==
  /\ op.head => op.newest <= Named
  /\ op.kind = "post" /\ op.res = "ok" => Is(op.num, op.ticket)
  /\ (op.kind = "remove" /\ op.res = "ok") \/ op.res = "gone" => Down(op.num)

ToldIsTrue(a) ==
  /\ a.what = "post" => Is(a.num, a.ticket)
  /\ a.what \in {"remove", "gone"} => Down(a.num)

\* The op in hand has no answer yet; which kind of op can be at which step; and what the
\* record or the flag it has written will make true of it once the header is written.
HandInv ==
  /\ work.op.res = "io"
  /\ OpIsTrue(work.op)
  /\ work.at \in {"look", "flag"} => work.op.kind = "remove"
  /\ work.at \in {"open", "reopen", "body", "record"} => ~work.seeding
  /\ work.at \in {"body", "record"} => work.op.kind = "post"
  /\ work.at \in {"make", "count"} =>
       work.op.kind # "remove" /\ (work.op.kind = "post" => work.seeding)
  /\ work.at = "ptr" => work.op.kind = "ptr"
  /\ work.at \in {"head", "again"} /\ ~work.seeding =>
       /\ work.op.kind = "post" => /\ work.nh.newest \in 1..Len(card.rec)
                                   /\ card.rec[work.nh.newest].id = work.op.ticket
       /\ work.op.kind = "remove" => work.nh.newest = work.h.newest /\ Down(work.op.num)

AnswerInv ==
  /\ figures.newest <= Named
  /\ \A i \in 1..Len(queue) : OpIsTrue(queue[i]) /\ (i > done => queue[i].res = "io")
  /\ HandInv
  /\ \A a \in told : ToldIsTrue(a)

\* A step that the forum's promise allows.
Promised == Messages' = Messages \/ Abstract!TNext

\* What is so of a message stays so, and none goes out of sight of the header.
LEMMA StaysTrue ==
  ASSUME Named \in Nat, Named' \in Nat, Promised
  PROVE  /\ Named <= Named'
         /\ \A n, ticket : Is(n, ticket) => Is(n, ticket)'
         /\ \A n : Down(n) => Down(n)'
<1>1. /\ DOMAIN Messages = 1..Named /\ Len(Messages) = Named
      /\ \A n \in 1..Named : /\ Messages[n].id = card.rec[n].id
                             /\ Messages[n].live = card.rec[n].live
                             /\ Messages[n] = Message(card, n)
  BY DEF Messages, Message
<1>2. /\ DOMAIN Messages' = 1..Named' /\ Len(Messages') = Named'
      /\ \A n \in 1..Named' : /\ Messages'[n].id = card'.rec[n].id
                              /\ Messages'[n].live = card'.rec[n].live
  BY DEF Messages, Message
<1>3. /\ Named <= Named'
      /\ \A n \in 1..Named : /\ Messages'[n].id = Messages[n].id
                             /\ ~Messages[n].live => ~Messages'[n].live
  <2>1. CASE Messages' = Messages
    BY <1>1, <1>2, <2>1
  <2>2. CASE Abstract!Add
    BY <1>1, <1>2, <2>2 DEF Abstract!Add
  <2>3. CASE Abstract!TakeDown
    <3>1. PICK k \in 1..Named : Messages' = [Messages EXCEPT ![k].live = FALSE]
      BY <1>1, <2>3 DEF Abstract!TakeDown
    <3>2. Messages[k] = Message(card, k)
      BY <1>1
    <3>3. [Messages[k] EXCEPT !.live = FALSE].id = Messages[k].id
          /\ ~[Messages[k] EXCEPT !.live = FALSE].live
      BY <3>2 DEF Message
    <3>4. Messages' = [Messages EXCEPT ![k] = [Messages[k] EXCEPT !.live = FALSE]]
      BY <3>1
    <3>5. Named' = Named
      <4>1. DOMAIN Messages' = DOMAIN Messages
        BY <3>4
      <4>2. 1..Named' = 1..Named
        BY <1>1, <1>2, <4>1
      <4> QED
        BY <4>2
    <3> QED
      BY <1>1, <3>3, <3>4, <3>5
  <2> QED
    BY <2>1, <2>2, <2>3 DEF Promised, Abstract!TNext
<1> QED
  BY <1>1, <1>2, <1>3 DEF Is, Down

\* An answer that is true stays true.
LEMMA AnswerStays ==
  ASSUME Named \in Nat, Named' \in Nat, Promised, NEW op \in Ops, OpIsTrue(op)
  PROVE  OpIsTrue(op)'
<1>1. op.newest \in Nat
  BY DEF Ops
<1>2. Named <= Named'
  BY StaysTrue
<1>3. op.kind = "post" /\ op.res = "ok" => Is(op.num, op.ticket)'
  <2>1. Is(op.num, op.ticket) => Is(op.num, op.ticket)'
    BY StaysTrue
  <2> QED
    BY <2>1 DEF OpIsTrue
<1>4. (op.kind = "remove" /\ op.res = "ok") \/ op.res = "gone" => Down(op.num)'
  <2>1. Down(op.num) => Down(op.num)'
    BY StaysTrue
  <2> QED
    BY <2>1 DEF OpIsTrue
<1>5. op.head => op.newest <= Named'
  BY <1>1, <1>2 DEF OpIsTrue
<1> QED
  BY <1>3, <1>4, <1>5 DEF OpIsTrue

\* A caller who was told the truth still has been.
LEMMA ToldStays ==
  ASSUME Named \in Nat, Named' \in Nat, Promised, NEW a, ToldIsTrue(a)
  PROVE  ToldIsTrue(a)'
<1>1. Is(a.num, a.ticket) => Is(a.num, a.ticket)'
  BY StaysTrue
<1>2. Down(a.num) => Down(a.num)'
  BY StaysTrue
<1> QED
  BY <1>1, <1>2 DEF ToldIsTrue

\* An op that has no answer, and has not seen the header, says nothing.
LEMMA SaysNothing ==
  ASSUME NEW op, op.res = "io", op.head = FALSE
  PROVE  OpIsTrue(op)
BY DEF OpIsTrue

\* What a step of either side needs of the counts.
LEMMA NamedIsCount == Inv => Named \in Nat /\ figures.newest \in Nat /\ done \in Nat
BY DEF Inv, CardInv, Types

\* Nothing in hand says nothing.
LEMMA IdleIsTrue == Idle.op = NoOp /\ Idle.at = "idle" /\ OpIsTrue(NoOp) /\ NoOp.res = "io"
<1>1. NoOp.res = "io" /\ NoOp.head = FALSE
  BY DEF NoOp
<1> QED
  BY <1>1, SaysNothing DEF Idle

\* The step ends the op in hand with an answer that is true.
LEMMA EndsTrue ==
  ASSUME Inv, AnswerInv, Inv', Promised, work.at # "idle", NEW op \in Ops, Finish(op),
         OpIsTrue(op)', figures' = figures, told' = told
  PROVE  AnswerInv'
<1>1. Named \in Nat /\ Named' \in Nat /\ figures.newest \in Nat /\ done \in Nat
  BY DEF Inv, CardInv, Types
<1>2. figures'.newest <= Named'
  BY <1>1, StaysTrue DEF AnswerInv
<1>3. queue \in Seq(Ops) /\ done < Len(queue)
  BY DEF Inv, Types
<1>4. queue' = [queue EXCEPT ![done + 1] = op] /\ done' = done + 1 /\ work' = Idle
  BY DEF Finish
<1>5. ASSUME NEW i \in 1..Len(queue')
      PROVE  OpIsTrue(queue[i])' /\ (i > done' => queue'[i].res = "io")
  <2>1. CASE i = done + 1
    <3>1. queue'[i] = op
      BY <1>1, <1>3, <1>4, <2>1
    <3> QED
      BY <1>1, <1>4, <2>1, <3>1 DEF OpIsTrue
  <2>2. CASE i # done + 1
    <3>1. i \in 1..Len(queue) /\ queue'[i] = queue[i]
      BY <1>3, <1>4, <2>2
    <3>2. queue[i] \in Ops /\ OpIsTrue(queue[i]) /\ (i > done => queue[i].res = "io")
      BY <1>3, <3>1 DEF AnswerInv
    <3>3. PICK q : q = queue[i]
      OBVIOUS
    <3>4. OpIsTrue(q)'
      BY <1>1, <3>2, <3>3, AnswerStays
    <3> QED
      BY <1>1, <1>4, <3>1, <3>2, <3>3, <3>4 DEF OpIsTrue
  <2> QED
    BY <2>1, <2>2
<1>6. HandInv'
  <2>1. work'.at = "idle" /\ work'.op.res = "io" /\ work'.op.head = FALSE
    BY <1>4 DEF Idle, NoOp
  <2> QED
    BY <2>1 DEF HandInv, OpIsTrue
<1>7. \A a \in told : ToldIsTrue(a)'
  BY <1>1, ToldStays DEF AnswerInv
<1> QED
  BY <1>2, <1>5, <1>6, <1>7 DEF AnswerInv

\* The step goes on with it.
LEMMA GoesOnTrue ==
  ASSUME Inv, AnswerInv, Inv', Promised, queue' = queue, done' = done, HandInv',
         figures' = figures, told' = told
  PROVE  AnswerInv'
<1>1. Named \in Nat /\ Named' \in Nat /\ figures.newest \in Nat /\ queue \in Seq(Ops)
  BY DEF Inv, CardInv, Types
<1>2. figures'.newest <= Named'
  BY <1>1, StaysTrue DEF AnswerInv
<1>3. ASSUME NEW i \in 1..Len(queue)
      PROVE  OpIsTrue(queue[i])' /\ (i > done => queue[i].res = "io")
  <2>1. queue[i] \in Ops /\ OpIsTrue(queue[i]) /\ (i > done => queue[i].res = "io")
    BY <1>1 DEF AnswerInv
  <2>2. PICK q : q = queue[i]
    OBVIOUS
  <2>3. OpIsTrue(q)'
    BY <1>1, <2>1, <2>2, AnswerStays
  <2> QED
    BY <2>1, <2>2, <2>3 DEF OpIsTrue
<1>4. \A a \in told : ToldIsTrue(a)'
  BY <1>1, ToldStays DEF AnswerInv
<1> QED
  BY <1>2, <1>3, <1>4 DEF AnswerInv

\* The loop's step: the answers it takes off, those it leaves, and new ops that say nothing.
LEMMA LoopTrue ==
  ASSUME Inv, AnswerInv, UNCHANGED cardVars, done' \in Nat,
         \A i \in 1..Len(queue') :
           \/ queue'[i].res = "io" /\ queue'[i].head = FALSE
           \/ \E k \in 1..Len(queue) : queue'[i] = queue[k] /\ (i > done' => k > done),
         figures'.newest <= Named,
         \A a \in told' : ToldIsTrue(a)
  PROVE  AnswerInv'
<1>1. card' = card /\ work' = work
  BY DEF cardVars
<1>2. Named' = Named
  BY <1>1 DEF Named, NamedBy
<1>3. \A n, ticket : Is(n, ticket)' <=> Is(n, ticket)
  BY <1>1, <1>2 DEF Is
<1>4. \A n : Down(n)' <=> Down(n)
  BY <1>1, <1>2 DEF Down
<1>5. \A op : OpIsTrue(op) => OpIsTrue(op)'
  BY <1>2, <1>3, <1>4 DEF OpIsTrue
<1>6. \A a : ToldIsTrue(a) => ToldIsTrue(a)'
  BY <1>3, <1>4 DEF ToldIsTrue
<1>7. ASSUME NEW i \in 1..Len(queue')
      PROVE  OpIsTrue(queue[i])' /\ (i > done' => queue'[i].res = "io")
  <2>1. PICK q : q = queue'[i]
    OBVIOUS
  <2>2. OpIsTrue(q) /\ (i > done' => q.res = "io")
    <3>1. CASE q.res = "io" /\ q.head = FALSE
      BY <3>1, SaysNothing
    <3>2. ASSUME NEW k \in 1..Len(queue), q = queue[k], i > done' => k > done
          PROVE  OpIsTrue(q) /\ (i > done' => q.res = "io")
      BY <3>2 DEF AnswerInv
    <3> QED
      BY <2>1, <3>1, <3>2
  <2>3. OpIsTrue(q)'
    BY <1>5, <2>2
  <2> QED
    BY <2>1, <2>2, <2>3 DEF OpIsTrue
<1>8. HandInv'
  <2>1. PICK q : q = work.op
    OBVIOUS
  <2>2. OpIsTrue(q)'
    BY <1>5, <2>1 DEF AnswerInv, HandInv
  <2>3. OpIsTrue(work.op)'
    BY <1>1, <2>1, <2>2 DEF OpIsTrue
  <2>4. Down(work.op.num) => Down(work.op.num)'
    BY <1>1, <1>2 DEF Down
  <2> QED
    BY <1>1, <2>3, <2>4 DEF AnswerInv, HandInv
<1>9. figures'.newest <= Named'
  BY <1>2
<1> QED
  BY <1>6, <1>7, <1>8, <1>9 DEF AnswerInv

\* An op goes in at the end of the queue.
LEMMA QueuedTrue ==
  ASSUME Inv, AnswerInv, UNCHANGED cardVars, done' = done, NEW op \in Ops,
         op.res = "io", op.head = FALSE,
         queue' = queue \/ queue' = Append(queue, op),
         figures'.newest <= Named, told' = told
  PROVE  AnswerInv'
<1>1. queue \in Seq(Ops) /\ done \in Nat
  BY DEF Inv, Types
<1>2. \A i \in 1..Len(queue') :
        \/ queue'[i].res = "io" /\ queue'[i].head = FALSE
        \/ \E k \in 1..Len(queue) : queue'[i] = queue[k] /\ (i > done' => k > done)
  <2>1. CASE queue' = queue
    BY <2>1
  <2>2. CASE queue' = Append(queue, op)
    <3>1. Len(queue') = Len(queue) + 1 /\ Len(queue) \in Nat
          /\ \A i \in 1..Len(queue) : queue'[i] = queue[i]
      BY <1>1, <2>2
    <3>2. queue'[Len(queue) + 1] = op
      BY <1>1, <2>2
    <3> QED
      BY <3>1, <3>2
  <2> QED
    BY <2>1, <2>2
<1>3. \A a \in told' : ToldIsTrue(a)
  BY DEF AnswerInv
<1> QED
  BY <1>1, <1>2, <1>3, LoopTrue

\* No op's kind is an answer.
LEMMA SaidIs ==
  ASSUME NEW op \in Ops
  PROVE  /\ Said(op) = "post" => op.kind = "post" /\ op.res = "ok"
         /\ Said(op) \in {"remove", "gone"} =>
              (op.kind = "remove" /\ op.res = "ok") \/ op.res = "gone"
<1>1. op.kind \in {"none", "post", "remove", "ptr", "seed"} /\ op.res \in {"io", "ok", "gone"}
  BY DEF Ops
<1> QED
  BY <1>1 DEF Said

\* The loop takes an answer off the head: the figures and the caller get what is so.
LEMMA DeliverTrue == ASSUME Inv, AnswerInv, Deliver PROVE AnswerInv'
<1> DEFINE op == Head(queue)
           seed == [NoOp EXCEPT !.kind = "seed", !.recount = TRUE]
           q == Tail(queue)
<1>1. queue \in Seq(Ops) /\ done \in Nat /\ done > 0 /\ done' = done - 1 /\ done <= Len(queue)
      /\ Len(queue) \in Nat
  BY DEF Deliver, Inv, Types
<1>2. op = queue[1] /\ op \in Ops /\ OpIsTrue(op)
  BY <1>1 DEF AnswerInv
<1>3. q \in Seq(Ops) /\ Len(q) = Len(queue) - 1 /\ \A i \in 1..Len(q) : q[i] = queue[i + 1]
  BY <1>1
<1>4. seed \in Ops /\ seed.res = "io" /\ seed.head = FALSE
  BY IdleType DEF Ops, NoOp
<1>5. queue' = q \/ queue' = Append(q, seed)
  BY DEF Deliver
<1>6. figures' = IF ~op.head THEN figures
                 ELSE [newest |-> IF op.newest > figures.newest THEN op.newest ELSE figures.newest,
                       total |-> op.total]
  BY DEF Deliver
<1>7. figures'.newest <= Named
  BY <1>2, <1>6 DEF AnswerInv, OpIsTrue
<1>8. \A a \in told' : ToldIsTrue(a)
  <2>1. told' = told \cup {[ticket |-> wait[s], what |-> Said(op), num |-> op.num]
                             : s \in {s \in Slots : WaitsFor(s, op)}}
    BY DEF Deliver
  <2>2. ASSUME NEW s \in Slots, WaitsFor(s, op)
        PROVE  ToldIsTrue([ticket |-> wait[s], what |-> Said(op), num |-> op.num])
    <3>1. wait[s] = op.ticket
      BY <2>2 DEF WaitsFor
    <3>2. Said(op) = "post" => Is(op.num, op.ticket)
      BY <1>2, SaidIs DEF OpIsTrue
    <3>3. Said(op) \in {"remove", "gone"} => Down(op.num)
      BY <1>2, SaidIs DEF OpIsTrue
    <3> QED
      BY <3>1, <3>2, <3>3 DEF ToldIsTrue
  <2> QED
    BY <2>1, <2>2 DEF AnswerInv
<1>9. UNCHANGED cardVars
  BY DEF Deliver, LoopStep
<1> HIDE DEF op, seed, q
<1>10. ASSUME NEW i \in 1..Len(queue')
       PROVE  \/ queue'[i].res = "io" /\ queue'[i].head = FALSE
              \/ \E k \in 1..Len(queue) : queue'[i] = queue[k] /\ (i > done' => k > done)
  <2>1. CASE i \in 1..Len(q)
    <3>1. queue'[i] = q[i]
      BY <1>3, <1>4, <1>5, <2>1
    <3>2. i + 1 \in 1..Len(queue) /\ queue'[i] = queue[i + 1] /\ (i > done' => i + 1 > done)
      BY <1>1, <1>3, <2>1, <3>1
    <3> QED
      BY <3>2
  <2>2. CASE i \notin 1..Len(q)
    <3>1. queue' = Append(q, seed) /\ i = Len(q) + 1
      BY <1>3, <1>4, <1>5, <2>2
    <3>2. queue'[i] = seed
      BY <1>3, <1>4, <3>1
    <3> QED
      BY <1>4, <3>2
  <2> QED
    BY <2>1, <2>2
<1>11. done' \in Nat
  BY <1>1
<1> QED
  BY <1>7, <1>8, <1>9, <1>10, <1>11, LoopTrue

\* A look at the header, at boot or at a CONFIG save.
LEMMA StartTrue ==
  ASSUME Inv, AnswerInv, NEW n, Start(n), UNCHANGED <<card, work, done, told>>
  PROVE  AnswerInv'
<1> DEFINE seed == [NoOp EXCEPT !.kind = "seed"]
<1>1. seed \in Ops /\ seed.res = "io" /\ seed.head = FALSE
  BY IdleType DEF Ops, NoOp
<1>2. queue' = queue \/ queue' = Append(queue, seed)
  BY DEF Start, StartReads, StartSeeds
<1>3. figures'.newest <= Named
  <2>1. card.head.is = "good" => Named = card.head.newest
    BY DEF Named, NamedBy
  <2>2. Named \in Nat
    BY NamedIsCount
  <2> QED
    BY <2>1, <2>2 DEF Start, StartReads, StartSeeds
<1> HIDE DEF seed
<1> QED
  BY <1>1, <1>2, <1>3, QueuedTrue DEF cardVars

\* What the loop queues and hands out is so.
LEMMA LoopNextTrue == ASSUME Inv, AnswerInv, LoopNext PROVE AnswerInv'
<1>0. figures.newest <= Named
  BY DEF AnswerInv
<1>q. ASSUME UNCHANGED <<card, work, queue, done, told>>, figures' = figures PROVE AnswerInv'
  BY <1>0, <1>q, IdleType, QueuedTrue DEF cardVars, NoOp
<1>a. ASSUME NEW s \in Slots, NEW op \in Ops, op.res = "io", op.head = FALSE, Ask(s, op)
      PROVE  AnswerInv'
  <2> DEFINE o == [op EXCEPT !.ticket = asked', !.slot = s]
  <2>1. asked' \in Nat
    BY <1>a DEF Ask, Inv, Types
  <2>2. o \in Ops /\ o.res = "io" /\ o.head = FALSE
    BY <1>a, <2>1 DEF Ops
  <2>3. queue' = Append(queue, o) /\ done' = done
    BY <1>a DEF Ask, Queued
  <2>4. UNCHANGED cardVars /\ figures' = figures /\ told' = told
    BY <1>a DEF Ask, LoopStep
  <2>5. PICK q : q = o
    OBVIOUS
  <2> HIDE DEF o
  <2> QED
    BY <1>0, <2>2, <2>3, <2>4, <2>5, QueuedTrue
<1>1. ASSUME NEW s \in Slots, Post(s)  PROVE AnswerInv'
  <2>1. [NoOp EXCEPT !.kind = "post"] \in Ops
    BY IdleType DEF Ops
  <2>2. [NoOp EXCEPT !.kind = "post"].res = "io" /\ [NoOp EXCEPT !.kind = "post"].head = FALSE
    BY DEF NoOp
  <2> QED
    BY <1>1, <1>a, <2>1, <2>2 DEF Post
<1>2. ASSUME NEW s \in Slots, Remove(s)  PROVE AnswerInv'
  <2>1. PICK n \in 1..figures.newest : Ask(s, [NoOp EXCEPT !.kind = "remove", !.num = n])
    BY <1>2 DEF Remove
  <2>2. n \in Nat
    BY NamedIsCount
  <2>3. [NoOp EXCEPT !.kind = "remove", !.num = n] \in Ops
    BY <2>2, IdleType DEF Ops
  <2>4. [NoOp EXCEPT !.kind = "remove", !.num = n].res = "io"
        /\ [NoOp EXCEPT !.kind = "remove", !.num = n].head = FALSE
    BY DEF NoOp
  <2> QED
    BY <1>a, <2>1, <2>3, <2>4
<1>3. ASSUME NEW s \in Slots, GiveUp(s)  PROVE AnswerInv'
  BY <1>3, <1>q DEF GiveUp, LoopStep, cardVars, opVars
<1>4. ASSUME NEW u \in Users, PtrFlush(u)  PROVE AnswerInv'
  <2> DEFINE op == [NoOp EXCEPT !.kind = "ptr", !.user = u, !.mark = place'[u]]
  <2>1. place'[u] \in Nat
    BY <1>4 DEF PtrFlush, Inv, Types
  <2>2. op \in Ops /\ op.res = "io" /\ op.head = FALSE
    BY <2>1, IdleType DEF Ops, NoOp
  <2>3. (queue' = queue \/ queue' = Append(queue, op)) /\ done' = done
        /\ UNCHANGED cardVars /\ figures' = figures /\ told' = told
    BY <1>4 DEF PtrFlush, Queued, opVars, askVars, LoopStep
  <2>4. PICK q : q = op
    OBVIOUS
  <2> HIDE DEF op
  <2> QED
    BY <1>0, <2>2, <2>3, <2>4, QueuedTrue
<1>5. CASE Tick
  BY <1>5, <1>q DEF Tick, LoopStep, cardVars, opVars, askVars
<1>6. CASE Deliver
  BY <1>6, DeliverTrue
<1>7. CASE TickEnd
  BY <1>7, <1>q DEF TickEnd, LoopStep, cardVars, opVars, askVars
<1>8. CASE Boot
  BY <1>8, StartTrue DEF Boot, cardVars, askVars
<1>9. CASE Save
  BY <1>9, StartTrue DEF Save, cardVars
<1> QED
  BY <1>1, <1>2, <1>3, <1>4, <1>5, <1>6, <1>7, <1>8, <1>9 DEF LoopNext

\* The step ends the op in hand, and what it answers was so already.
LEMMA EndsAsBefore ==
  ASSUME Inv, AnswerInv, Inv', Promised, work.at # "idle", NEW op \in Ops, Finish(op),
         OpIsTrue(op), figures' = figures, told' = told
  PROVE  AnswerInv'
<1>1. Named \in Nat /\ Named' \in Nat
  BY DEF Inv, CardInv
<1>2. OpIsTrue(op)'
  BY <1>1, AnswerStays
<1> QED
  BY <1>2, EndsTrue

\* An op that has failed says what it has said so far.
LEMMA StaleIsTrue ==
  ASSUME Inv, AnswerInv, NEW stale \in BOOLEAN
  PROVE  /\ work.op \in Ops /\ OpIsTrue(work.op)
         /\ [work.op EXCEPT !.stale = stale] \in Ops /\ OpIsTrue([work.op EXCEPT !.stale = stale])
<1>1. work.op \in Ops /\ OpIsTrue(work.op)
  BY DEF Inv, Types, Works, AnswerInv, HandInv
<1> DEFINE q == [work.op EXCEPT !.stale = stale]
<1>2. q \in Ops /\ q.kind = work.op.kind /\ q.res = work.op.res /\ q.head = work.op.head
      /\ q.newest = work.op.newest /\ q.num = work.op.num /\ q.ticket = work.op.ticket
  BY <1>1 DEF Ops
<1> HIDE DEF q
<1>3. OpIsTrue(q)
  BY <1>1, <1>2 DEF OpIsTrue
<1> QED
  BY <1>1, <1>2, <1>3 DEF q

\* What an op has in hand, carried over a step that keeps the op itself.
LEMMA HandStays ==
  ASSUME Inv, AnswerInv, Inv', Promised, work'.op = work.op
  PROVE  work'.op.res = "io" /\ OpIsTrue(work.op)'
<1>1. Named \in Nat /\ Named' \in Nat /\ work.op \in Ops /\ OpIsTrue(work.op) /\ work.op.res = "io"
  BY DEF Inv, CardInv, Types, Works, AnswerInv, HandInv
<1>2. PICK q : q = work.op
  OBVIOUS
<1>3. OpIsTrue(q)'
  BY <1>1, <1>2, AnswerStays
<1> QED
  BY <1>1, <1>2, <1>3 DEF OpIsTrue

\* The writer takes an op that says nothing yet.
LEMMA TakeTrue == ASSUME Inv, AnswerInv, Inv', Promised, Take PROVE AnswerInv'
<1> DEFINE op == queue[done + 1]
<1>1. done + 1 \in 1..Len(queue) /\ done + 1 > done /\ queue \in Seq(Ops)
  BY DEF Take, Inv, Types
<1>2. op \in Ops /\ OpIsTrue(op) /\ op.res = "io"
  BY <1>1 DEF AnswerInv
<1>3. /\ work'.at = IF op.kind = "ptr" THEN "ptr" ELSE "open"
      /\ work'.op = op /\ work'.seeding = FALSE
      /\ UNCHANGED <<card, queue, done, figures, told>>
  BY DEF Take, GoOn, RunnerStep, opVars, askVars
<1> HIDE DEF op
<1>4. PICK q : q = op
  OBVIOUS
<1>5. OpIsTrue(q)'
  BY <1>2, <1>4, AnswerStays DEF Inv, CardInv
<1>6. HandInv'
  BY <1>2, <1>3, <1>4, <1>5 DEF HandInv, OpIsTrue
<1> QED
  BY <1>3, <1>6, GoesOnTrue

\* It reads the header, or fails to.
LEMMA ReadHeaderTrue == ASSUME Inv, AnswerInv, Inv', Promised, ReadHeader PROVE AnswerInv'
<1> DEFINE kind  == work.op.kind
           seed  == [work EXCEPT !.seeding = kind = "post"]
           known == [work EXCEPT !.h = card.head, !.op = Figures(work.op, card.head)]
           kop   == Figures(work.op, card.head)
<1>1. /\ work.at \in {"open", "reopen"} /\ card' = card
      /\ UNCHANGED <<figures, told>>
      /\ card \in Cards /\ card.head \in Heads /\ work \in Works /\ work.op \in Ops
      /\ Named \in Nat /\ work.at # "idle" /\ ~work.seeding
  BY DEF ReadHeader, RunnerStep, askVars, Inv, CardInv, Types, Works, Cards, AnswerInv, HandInv
<1>2. /\ kop \in Ops /\ kop.head /\ kop.newest = card.head.newest /\ kop.kind = kind
      /\ kop.res = "io" /\ kop.ticket = work.op.ticket /\ kop.num = work.op.num
  BY <1>1, FiguresType DEF Figures, Ops, AnswerInv, HandInv
<1>3. known \in Works /\ known.op = kop /\ known.seeding = work.seeding
  BY <1>1, <1>2 DEF Works
<1>4. seed \in Works /\ seed.op = work.op /\ seed.seeding = (kind = "post")
  BY <1>1 DEF Works
<1>5. card.head.is = "good" => Named = card.head.newest
  BY DEF Named, NamedBy
<1>6. card.head.is = "good" => OpIsTrue(kop)
  BY <1>1, <1>2, <1>5 DEF OpIsTrue
<1>7. ASSUME NEW w \in Works, NEW at \in {"make", "count"}, GoOn([w EXCEPT !.at = at]),
             w.op = work.op, kind # "remove", kind = "post" => w.seeding
      PROVE  AnswerInv'
  <2>1. work'.at = at /\ work'.op = work.op /\ work'.seeding = w.seeding
        /\ queue' = queue /\ done' = done
    BY <1>7 DEF GoOn, Works, opVars
  <2>2. HandInv'
    BY <1>7, <2>1, HandStays DEF HandInv, OpIsTrue
  <2> QED
    BY <1>1, <2>1, <2>2, GoesOnTrue
<1>8. ASSUME NEW at \in {"body", "look"}, GoOn([known EXCEPT !.at = at]), card.head.is = "good",
             at = "body" => kind = "post", at = "look" => kind = "remove"
      PROVE  AnswerInv'
  <2> HIDE DEF known, kop
  <2>1. work'.at = at /\ work'.op = kop /\ work'.seeding = work.seeding
        /\ queue' = queue /\ done' = done
    BY <1>3, <1>8 DEF GoOn, Works, opVars
  <2>2. PICK q : q = kop
    OBVIOUS
  <2>3. OpIsTrue(q)'
    BY <1>1, <1>2, <1>6, <1>8, <2>2, AnswerStays DEF Inv, CardInv
  <2>4. HandInv'
    BY <1>1, <1>2, <1>8, <2>1, <2>2, <2>3 DEF HandInv, OpIsTrue
  <2> QED
    BY <1>1, <2>1, <2>4, GoesOnTrue
<1>9. CASE Finish([work.op EXCEPT !.stale = card.head.is = "torn"])
  <2>1. PICK q : q = [work.op EXCEPT !.stale = card.head.is = "torn"]
    OBVIOUS
  <2>2. q \in Ops /\ OpIsTrue(q)
    <3>1. (card.head.is = "torn") \in BOOLEAN
      OBVIOUS
    <3> QED
      BY <2>1, <3>1, StaleIsTrue
  <2> QED
    BY <1>1, <1>9, <2>1, <2>2, EndsAsBefore
<1>10. CASE card.head.is = "none" /\ kind # "remove" /\ GoOn([seed EXCEPT !.at = "make"])
  BY <1>4, <1>7, <1>10
<1>11. CASE card.head.is = "torn" /\ kind # "remove" /\ GoOn([seed EXCEPT !.at = "count"])
  BY <1>4, <1>7, <1>11
<1>12. CASE card.head.is = "good" /\ kind = "post" /\ GoOn([known EXCEPT !.at = "body"])
  BY <1>8, <1>12
<1>13. CASE card.head.is = "good" /\ kind = "remove" /\ GoOn([known EXCEPT !.at = "look"])
  BY <1>8, <1>13
<1>14. CASE kind = "seed" /\ GoOn([work EXCEPT !.at = "count"])
  BY <1>1, <1>7, <1>14
<1>15. CASE card.head.is = "good" /\ kind = "seed" /\ Finish([known.op EXCEPT !.res = "ok"])
  <2> HIDE DEF known, kop
  <2>1. PICK q : q = [kop EXCEPT !.res = "ok"]
    OBVIOUS
  <2>2. q \in Ops /\ q.kind = "seed" /\ q.res = "ok" /\ q.head = kop.head /\ q.newest = kop.newest
    BY <1>2, <1>15, <2>1 DEF Ops
  <2>3. OpIsTrue(q)
    BY <1>2, <1>6, <1>15, <2>2 DEF OpIsTrue
  <2> QED
    BY <1>1, <1>3, <1>15, <2>1, <2>2, <2>3, EndsAsBefore
<1> QED
  BY <1>1, <1>9, <1>10, <1>11, <1>12, <1>13, <1>14, <1>15 DEF ReadHeader

\* It counts the live records.
LEMMA CountTrue == ASSUME Inv, AnswerInv, Inv', Promised, Count PROVE AnswerInv'
<1>1. /\ work.at = "count" /\ work \in Works
      /\ GoOn([work EXCEPT !.at = "head", !.h = Good(card.head.count, Rebuilt),
                           !.nh = Good(Live(card, Rebuilt), Rebuilt)])
      /\ card' = card /\ UNCHANGED <<figures, told>>
  BY DEF Count, RunnerStep, askVars, Inv, Types
<1>2. work'.at = "head" /\ work'.op = work.op /\ work'.seeding = work.seeding
      /\ queue' = queue /\ done' = done
  BY <1>1 DEF GoOn, Works, opVars
<1>3. work.op.kind # "remove" /\ (work.op.kind = "post" => work.seeding)
  BY <1>1 DEF AnswerInv, HandInv
<1>4. HandInv'
  BY <1>2, <1>3, HandStays DEF HandInv, OpIsTrue
<1> QED
  BY <1>1, <1>2, <1>4, GoesOnTrue

\* It looks at the record to be removed.
LEMMA LookTrue == ASSUME Inv, AnswerInv, Inv', Promised, Look PROVE AnswerInv'
<1>1. /\ work.at = "look" /\ card' = card /\ UNCHANGED <<figures, told>>
      /\ card.head.is = "good" /\ work.h = card.head /\ work.op.kind = "remove"
      /\ work \in Works /\ work.op \in Ops /\ OpIsTrue(work.op)
  BY DEF Look, RunnerStep, askVars, Inv, Types, WorkInv, Works, AnswerInv, HandInv
<1>2. Named = work.h.newest
  BY <1>1 DEF Named, NamedBy
<1>3. CASE Finish(work.op)
  <2>1. PICK q : q = work.op
    OBVIOUS
  <2> QED
    BY <1>1, <1>3, <2>1, EndsAsBefore
<1>4. CASE GoOn([work EXCEPT !.at = "flag"])
  <2>1. work'.at = "flag" /\ work'.op = work.op /\ work'.seeding = work.seeding
        /\ queue' = queue /\ done' = done
    BY <1>1, <1>4 DEF GoOn, Works, opVars
  <2>2. HandInv'
    BY <1>1, <2>1, HandStays DEF HandInv, OpIsTrue
  <2> QED
    BY <1>1, <2>1, <2>2, GoesOnTrue
<1>5. CASE work.op.num \in 1..work.h.newest /\ ~card.rec[work.op.num].live
           /\ Finish([work.op EXCEPT !.res = "gone"])
  <2>1. PICK q : q = [work.op EXCEPT !.res = "gone"]
    OBVIOUS
  <2>2. q \in Ops /\ q.kind = "remove" /\ q.num = work.op.num /\ q.head = work.op.head
        /\ q.newest = work.op.newest /\ q.res = "gone"
    BY <1>1, <2>1 DEF Ops
  <2>3. OpIsTrue(q)
    BY <1>1, <1>2, <1>5, <2>2 DEF OpIsTrue, Down
  <2> QED
    BY <1>1, <1>5, <2>1, <2>2, <2>3, EndsAsBefore
<1> QED
  BY <1>3, <1>4, <1>5 DEF Look

\* A file does not open or a record does not read.
LEMMA ReadFailsTrue == ASSUME Inv, AnswerInv, Inv', Promised, ReadFails PROVE AnswerInv'
<1>1. work.at # "idle" /\ Finish(work.op) /\ UNCHANGED <<figures, told>>
  BY DEF ReadFails, Reading, RunnerStep, askVars
<1>2. PICK q : q = work.op
  OBVIOUS
<1>3. q \in Ops /\ OpIsTrue(q)
  BY <1>2, StaleIsTrue
<1> QED
  BY <1>1, <1>2, <1>3, EndsAsBefore

\* The job ends.
LEMMA EndJobTrue == ASSUME Inv, AnswerInv, EndJob PROVE AnswerInv'
<1>1. UNCHANGED <<cardVars, queue, done, figures, told>>
  BY DEF EndJob, opVars, askVars
<1> QED
  BY <1>1, IdleType, QueuedTrue DEF NoOp, AnswerInv

\* The power goes, with every op that was waiting.
LEMMA PowerCutTrue == ASSUME Inv, AnswerInv, Inv', Promised, PowerCut PROVE AnswerInv'
<1>1. queue' = <<>> /\ done' = 0 /\ work' = Idle /\ told' = told
      /\ figures' = [newest |-> 0, total |-> 0]
  BY DEF PowerCut
<1>2. Named \in Nat /\ Named' \in Nat
  BY DEF Inv, CardInv
<1>3. HandInv'
  <2>1. work'.at = "idle" /\ work'.op.res = "io" /\ work'.op.head = FALSE
        /\ work'.op.kind = "none"
    BY <1>1 DEF Idle, NoOp
  <2> QED
    BY <2>1 DEF HandInv, OpIsTrue
<1>4. \A a \in told : ToldIsTrue(a)'
  BY <1>2, ToldStays DEF AnswerInv
<1>5. figures'.newest <= Named' /\ 1..Len(queue') = {}
  BY <1>1, <1>2
<1> QED
  BY <1>1, <1>3, <1>4, <1>5 DEF AnswerInv

\* The answer of an op whose header says how the files are now.
LEMMA AnsweredIs ==
  ASSUME Inv, AnswerInv
  PROVE  /\ Answered \in Ops /\ Answered.res = "ok" /\ Answered.kind = work.op.kind
         /\ Answered.head /\ Answered.newest = work.nh.newest
         /\ Answered.num = work.op.num /\ Answered.ticket = work.op.ticket
<1>1. work.op \in Ops /\ work.nh \in Heads
  BY DEF Inv, Types, Works
<1> DEFINE f == Figures(work.op, work.nh)
<1>2. f \in Ops /\ f.kind = work.op.kind /\ f.head /\ f.newest = work.nh.newest
      /\ f.num = work.op.num /\ f.ticket = work.op.ticket
  BY <1>1, FiguresType DEF Figures, Ops
<1> HIDE DEF f
<1>3. Answered = [f EXCEPT !.res = "ok"]
  BY DEF Answered, f
<1> QED
  BY <1>2, <1>3 DEF Ops

\* A write goes through: an op that ends here says what the files now hold.
LEMMA WriteTrue == ASSUME Inv, AnswerInv, Inv', Promised, Write PROVE AnswerInv'
<1> DEFINE at == work.at
           h  == work.h
           op == work.op
<1>1. /\ Writing /\ card' = Written /\ card' \in Interrupted
      /\ UNCHANGED <<figures, told>> /\ at # "idle"
      /\ card \in Cards /\ work \in Works /\ op \in Ops /\ work.nh \in Heads
      /\ h \in Heads /\ work.h.newest \in Nat /\ Named \in Nat /\ Named' \in Nat
  BY DEF Write, Writing, Interrupted, RunnerStep, askVars, Inv, CardInv, Types, Works, Cards, Heads
<1>2. CASE at = "make" /\ GoOn([work EXCEPT !.at = "head", !.nh = Good(0, 0)])
  <2>1. work'.at = "head" /\ work'.op = work.op /\ work'.seeding = work.seeding
        /\ queue' = queue /\ done' = done
    BY <1>1, <1>2 DEF GoOn, Works, opVars
  <2>2. op.kind # "remove" /\ (op.kind = "post" => work.seeding)
    BY <1>2 DEF AnswerInv, HandInv
  <2>3. HandInv'
    BY <2>1, <2>2, HandStays DEF HandInv, OpIsTrue
  <2> QED
    BY <1>1, <2>1, <2>3, GoesOnTrue
<1>3. CASE at = "body" /\ GoOn([work EXCEPT !.at = "record"])
  <2>1. work'.at = "record" /\ work'.op = work.op /\ work'.seeding = work.seeding
        /\ queue' = queue /\ done' = done
    BY <1>1, <1>3 DEF GoOn, Works, opVars
  <2>2. op.kind = "post" /\ ~work.seeding
    BY <1>3 DEF AnswerInv, HandInv
  <2>3. HandInv'
    BY <2>1, <2>2, HandStays DEF HandInv, OpIsTrue
  <2> QED
    BY <1>1, <2>1, <2>3, GoesOnTrue
<1>4. CASE at = "record" /\ GoOn([work EXCEPT !.at = "head", !.nh = Good(h.count + 1, h.newest + 1)])
  <2> DEFINE nh == Good(h.count + 1, h.newest + 1)
  <2>1. work' = [work EXCEPT !.at = "head", !.nh = nh] /\ nh.newest = h.newest + 1
    BY <1>4 DEF GoOn, Good
  <2> HIDE DEF nh
  <2>2. work'.at = "head" /\ work'.op = work.op /\ work'.seeding = work.seeding /\ work'.nh = nh
        /\ queue' = queue /\ done' = done
    BY <1>1, <1>4, <2>1 DEF GoOn, Works, opVars
  <2>3. op.kind = "post" /\ ~work.seeding /\ h.newest = Named
    BY <1>4 DEF AnswerInv, HandInv, Inv, WorkInv, Named, NamedBy
  <2>4. Len(card'.rec) = Named + 1 /\ card'.rec[Named + 1].id = op.ticket
    BY <1>1, <1>4, <2>2, RecordLands
  <2>5. Named + 1 \in 1..Len(card'.rec)
    BY <1>1, <2>4
  <2>6. HandInv'
    BY <2>1, <2>2, <2>3, <2>4, <2>5, HandStays DEF HandInv, OpIsTrue
  <2> QED
    BY <1>1, <2>2, <2>6, GoesOnTrue
<1>5. CASE /\ at = "flag"
           /\ GoOn([work EXCEPT !.at = "head",
                      !.nh = Good(IF h.count > 0 THEN h.count - 1 ELSE 0, h.newest)])
  <2> DEFINE nh == Good(IF h.count > 0 THEN h.count - 1 ELSE 0, h.newest)
  <2>1. work' = [work EXCEPT !.at = "head", !.nh = nh] /\ nh.newest = h.newest
    BY <1>5 DEF GoOn, Good
  <2> HIDE DEF nh
  <2>2. work'.at = "head" /\ work'.op = work.op /\ work'.seeding = work.seeding /\ work'.nh = nh
        /\ work'.h = work.h /\ queue' = queue /\ done' = done
    BY <1>1, <1>5, <2>1 DEF GoOn, Works, opVars
  <2>3. op.kind = "remove" /\ op.num \in 1..Named
    BY <1>5 DEF AnswerInv, HandInv, Inv, WorkInv
  <2>4. Named' = Named /\ ~card'.rec[op.num].live
    BY <1>1, <1>5, <2>2, FlagLands
  <2>5. Down(op.num)'
    BY <2>2, <2>3, <2>4 DEF Down
  <2>6. HandInv'
    BY <2>1, <2>2, <2>3, <2>5, HandStays DEF HandInv, OpIsTrue
  <2> QED
    BY <1>1, <2>2, <2>6, GoesOnTrue
<1>6. CASE at \in {"head", "again"} /\ work.seeding
           /\ GoOn([work EXCEPT !.at = "reopen", !.seeding = FALSE])
  <2>1. work'.at = "reopen" /\ work'.op = work.op /\ work'.seeding = FALSE
        /\ queue' = queue /\ done' = done
    BY <1>1, <1>6 DEF GoOn, Works, opVars
  <2>2. HandInv'
    BY <2>1, HandStays DEF HandInv, OpIsTrue
  <2> QED
    BY <1>1, <2>1, <2>2, GoesOnTrue
<1>7. CASE at \in {"head", "again"} /\ ~work.seeding
  <2> DEFINE post == [Answered EXCEPT !.num = work.nh.newest]
             ans  == IF op.kind = "post" THEN post ELSE Answered
  <2>1. Finish(ans)
    BY <1>1, <1>7 DEF Write, Headed
  <2>2. work'.at # "again"
    BY <1>1, <2>1 DEF Finish, Idle
  <2>3. Named' = work.nh.newest /\ card'.rec = card.rec
    BY <1>1, <1>7, <2>2, HeaderLands
  <2>4. work.nh.newest \in Nat
    BY <1>1 DEF Heads
  <2>5. /\ post \in Ops /\ post.res = "ok" /\ post.kind = op.kind /\ post.num = work.nh.newest
        /\ post.ticket = op.ticket /\ post.newest = work.nh.newest
    BY <2>4, AnsweredIs DEF Ops
  <2>6. PICK q : q = ans
    OBVIOUS
  <2> HIDE DEF post
  <2>7. q \in Ops /\ q.res = "ok" /\ q.kind = op.kind /\ q.newest = Named'
        /\ q.ticket = op.ticket /\ (q.kind = "post" => q.num = work.nh.newest)
        /\ (q.kind # "post" => q.num = op.num)
    BY <2>3, <2>5, <2>6, AnsweredIs
  <2>8. q.kind = "post" => Is(q.num, q.ticket)'
    <3>1. q.kind = "post" => work.nh.newest \in 1..Len(card.rec)
                              /\ card.rec[work.nh.newest].id = op.ticket
      BY <1>7, <2>7 DEF AnswerInv, HandInv
    <3>2. q.kind = "post" => work.nh.newest \in 1..Named'
      BY <2>3, <3>1, <2>4
    <3> QED
      BY <2>3, <2>7, <3>1, <3>2 DEF Is
  <2>9. q.kind = "remove" => Down(q.num)'
    <3>1. q.kind = "remove" => Down(q.num)
      BY <1>7, <2>7 DEF AnswerInv, HandInv
    <3> QED
      BY <1>1, <3>1, StaysTrue
  <2>10. OpIsTrue(q)'
    BY <1>1, <2>7, <2>8, <2>9 DEF OpIsTrue
  <2> HIDE DEF ans
  <2> QED
    BY <1>1, <2>1, <2>6, <2>7, <2>10, EndsTrue
<1>8. CASE at = "ptr" /\ Finish([op EXCEPT !.res = "ok"])
  <2>1. op.kind = "ptr" /\ OpIsTrue(op)
    BY <1>8 DEF AnswerInv, HandInv
  <2>2. PICK q : q = [op EXCEPT !.res = "ok"]
    OBVIOUS
  <2>3. q \in Ops /\ q.kind = "ptr" /\ q.res = "ok" /\ q.head = op.head /\ q.newest = op.newest
    BY <1>1, <2>1, <2>2 DEF Ops
  <2>4. OpIsTrue(q)
    BY <2>1, <2>3 DEF OpIsTrue
  <2> QED
    BY <1>1, <1>8, <2>2, <2>3, <2>4, EndsAsBefore
<1> QED
  BY <1>1, <1>2, <1>3, <1>4, <1>5, <1>6, <1>7, <1>8 DEF Write, Writing, Headed

\* What can be in hand.
LEMMA HandKind ==
  ASSUME Inv, QueueInv, work.at \notin {"idle", "ptr"}
  PROVE  work.op.kind \in {"post", "remove", "seed"}
<1>1. queue[done + 1].kind # "none"
  BY DEF Inv, Types, QueueInv
<1>2. work.op.kind \in {"none", "post", "remove", "ptr", "seed"}
  BY DEF Inv, Types, Works, Ops
<1> QED
  BY <1>1, <1>2 DEF QueueInv, SameOp

\* A write fails: what is answered all the same is only what the flag made so.
LEMMA WriteFailsTrue ==
  ASSUME Inv, QueueInv, AnswerInv, Inv', Promised, WriteFails
  PROVE  AnswerInv'
<1>1. /\ Writing /\ card' \in Interrupted /\ UNCHANGED <<figures, told>> /\ work.at # "idle"
      /\ work \in Works /\ work.op \in Ops /\ Named \in Nat /\ Named' \in Nat
  BY DEF WriteFails, Writing, RunnerStep, askVars, Inv, CardInv, Types, Works
<1>2. CASE work.at = "head" /\ GoOn([work EXCEPT !.at = "again"])
  <2>1. work'.at = "again" /\ work'.op = work.op /\ work'.seeding = work.seeding
        /\ work'.nh = work.nh /\ work'.h = work.h /\ queue' = queue /\ done' = done
    BY <1>1, <1>2 DEF GoOn, Works, opVars
  <2>2. card'.rec = card.rec
    BY <1>1, <1>2, <2>1, HeaderLands
  <2>3. Down(work.op.num) => Down(work.op.num)'
    <3>1. PICK n : n = work.op.num
      OBVIOUS
    <3>2. Down(n) => Down(n)'
      BY <1>1, StaysTrue
    <3> QED
      BY <2>1, <3>1, <3>2 DEF Down
  <2>4. HandInv'
    BY <1>2, <2>1, <2>2, <2>3, HandStays DEF AnswerInv, HandInv
  <2> QED
    BY <1>1, <2>1, <2>4, GoesOnTrue
<1>3. CASE Finish(work.op)
  <2>1. PICK q : q = work.op
    OBVIOUS
  <2>2. q \in Ops /\ OpIsTrue(q)
    BY <2>1, StaleIsTrue
  <2> QED
    BY <1>1, <1>3, <2>1, <2>2, EndsAsBefore
<1>4. CASE Finish([work.op EXCEPT !.stale = TRUE])
  <2>1. PICK q : q = [work.op EXCEPT !.stale = TRUE]
    OBVIOUS
  <2>2. q \in Ops /\ OpIsTrue(q)
    BY <2>1, StaleIsTrue
  <2> QED
    BY <1>1, <1>4, <2>1, <2>2, EndsAsBefore
<1>5. CASE /\ work.at = "again" /\ ~work.seeding /\ work.op.kind \notin {"seed", "post"}
           /\ Finish([Answered EXCEPT !.stale = TRUE])
  <2>1. PICK q : q = [Answered EXCEPT !.stale = TRUE]
    OBVIOUS
  <2>2. q \in Ops /\ q.kind = work.op.kind /\ q.newest = work.nh.newest /\ q.num = work.op.num
        /\ q.res = "ok"
    BY <2>1, AnsweredIs DEF Ops
  <2>3. CASE work.op.kind = "remove"
    <3>1. work.nh.newest = work.h.newest /\ Down(work.op.num)
      BY <1>5, <2>3 DEF AnswerInv, HandInv
    <3>2. card.head.is \in {"torn", "good"}
      BY <1>5 DEF Inv, WorkInv, Types, Cards, Heads
    <3>3. Named = work.h.newest
      BY <1>5, <3>1, <3>2 DEF Inv, WorkInv, Named, NamedBy
    <3>4. OpIsTrue(q)
      BY <1>1, <1>5, <2>2, <3>1, <3>3 DEF OpIsTrue
    <3> QED
      BY <1>1, <1>5, <2>1, <2>2, <3>4, EndsAsBefore
  <2>4. CASE work.op.kind # "remove"
    BY <1>5, <2>4, HandKind
  <2> QED
    BY <2>3, <2>4
<1> QED
  BY <1>1, <1>2, <1>3, <1>4, <1>5 DEF WriteFails, Writing, Unheaded

\* Every step keeps the answers true.
LEMMA AnswerStep == ASSUME Inv, QueueInv, AnswerInv, [Next]_vars PROVE AnswerInv'
<1>1. Inv' /\ Promised
  BY EveryStep DEF Promised
<1>2. CASE LoopNext
  BY <1>2, LoopNextTrue
<1>3. CASE RunNext
  BY <1>1, <1>3, TakeTrue, ReadHeaderTrue, CountTrue, LookTrue, WriteTrue DEF RunNext
<1>4. CASE UNCHANGED vars
  <2>1. UNCHANGED <<cardVars, queue, done, figures, told>>
    BY <1>4 DEF vars, cardVars
  <2> QED
    BY <2>1, IdleType, QueuedTrue DEF NoOp, AnswerInv
<1> QED
  BY <1>1, <1>2, <1>3, <1>4, EndJobTrue, ReadFailsTrue, WriteFailsTrue, PowerCutTrue DEF Next

\* There are none at the start.
LEMMA AnswerStart == Init => QueueInv /\ AnswerInv
<1> SUFFICES ASSUME Init PROVE QueueInv /\ AnswerInv
  OBVIOUS
<1>1. Len(queue) = 0 /\ work = Idle /\ told = {} /\ figures.newest = 0
  BY DEF Init
<1>2. Named = 0
  BY DEF Init, Named, NamedBy, Idle, NoHead
<1>3. HandInv
  BY <1>1, SaysNothing DEF HandInv, Idle, NoOp
<1>4. 1..Len(queue) = {} /\ work.at = "idle"
  BY <1>1 DEF Idle
<1> QED
  BY <1>1, <1>2, <1>3, <1>4 DEF AnswerInv, QueueInv

\* The answers are true at every step, and the queue is in order.
LEMMA AnswersHold == Spec => [](Inv /\ QueueInv /\ AnswerInv)
<1>1. Init => Inv /\ QueueInv /\ AnswerInv
  BY TheInit, AnswerStart
<1>2. (Inv /\ QueueInv /\ AnswerInv) /\ [Next]_vars => (Inv /\ QueueInv /\ AnswerInv)'
  BY EveryStep, QueueStep, AnswerStep
<1> QED
  BY <1>1, <1>2, PTL DEF Spec

\* What a caller is told of their own message is true when it is said and stays true,
\* whatever fails on the card afterwards and whenever the power goes, and no list goes past
\* the messages there are (opDeliver, walkFinish).
THEOREM AnswersAreTrue == Spec => []ShownIsThere
<1>1. Inv /\ AnswerInv => ShownIsThere
  <2> SUFFICES ASSUME Inv, AnswerInv PROVE ShownIsThere
    OBVIOUS
  <2>1. Named \in Nat /\ DOMAIN Messages = 1..Named /\ Len(Messages) = Named
        /\ \A n \in 1..Named : Messages[n].id = card.rec[n].id /\ Messages[n].live = card.rec[n].live
    BY NamedIsCount DEF Messages, Message
  <2> QED
    BY <2>1 DEF AnswerInv, ToldIsTrue, Is, Down, ShownIsThere
<1> QED
  BY <1>1, AnswersHold, PTL

-------------------------------------------------------------------------------
(* Where the callers left off                                              *)

\* The last of some places in a queue: of the final segments that begin in it, the least.
LEMMA LastOf ==
  ASSUME NEW n \in Nat, NEW S, S \subseteq 1..n, S # {}
  PROVE  \E x \in S : \A y \in S : x >= y
<1> DEFINE T == {x..n : x \in S}
<1>1. \A x \in S : x \in Nat /\ x <= n
  OBVIOUS
<1>2. T \subseteq FiniteSubsetsOf(Nat) /\ T # {}
  <2>1. \A x \in S : x..n \in SUBSET Nat /\ IsFiniteSet(x..n)
    BY <1>1, FS_Interval
  <2> QED
    BY <2>1 DEF FiniteSubsetsOf
<1> HIDE DEF T
<1>3. PICK A \in T : \A B \in T : <<B, A>> \notin StrictSubsetOrdering(Nat)
  BY <1>2, FS_StrictSubsetOrderingWellFounded, WFMin
<1> USE DEF T
<1>4. PICK x \in S : A = x..n
  OBVIOUS
<1>5. ASSUME NEW y \in S, y > x PROVE FALSE
  <2>1. y..n \in T /\ y..n \subseteq A /\ x \in A /\ x \notin y..n
    BY <1>1, <1>4, <1>5
  <2>2. y..n \in SUBSET Nat /\ A \in SUBSET Nat
    BY <1>1, <1>4
  <2>3. <<y..n, A>> \in StrictSubsetOrdering(Nat)
    BY <2>1, <2>2 DEF StrictSubsetOrdering
  <2> QED
    BY <2>1, <2>3, <1>3
<1>6. \A y \in S : x >= y
  BY <1>1, <1>5
<1> QED
  BY <1>6

\* The last pointer op in the queue has the caller's place, and the card has it when none
\* is still to be written.
LastHas(u)  == \A i \in PtrOps(u) : (\A k \in PtrOps(u) : i >= k) => queue[i].mark = place[u]
SavedHas(u) == (\A i \in PtrOps(u) : i <= done) => card.ptr[u] = place[u]
PlaceInv    == \A u \in Users \ lost : LastHas(u) /\ SavedHas(u)

\* At the start every account is at the place the card has.
LEMMA PlaceStart == Init => PlaceInv
<1> SUFFICES ASSUME Init PROVE PlaceInv
  OBVIOUS
<1>1. \A u : PtrOps(u) = {}
  BY DEF Init, PtrOps
<1>2. \A u \in Users : card.ptr[u] = place[u]
  BY DEF Init
<1> QED
  BY <1>1, <1>2 DEF PlaceInv, LastHas, SavedHas

\* The pointer ops stay as they were.
LEMMA PlaceStays ==
  ASSUME PlaceInv, done' = done, card'.ptr = card.ptr, place' = place, lost' = lost,
         \A u \in Users : PtrOps(u)' = PtrOps(u)
                          /\ \A i \in PtrOps(u) : queue'[i].mark = queue[i].mark
  PROVE  PlaceInv'
<1> SUFFICES ASSUME NEW u \in Users, u \notin lost' PROVE LastHas(u)' /\ SavedHas(u)'
  BY DEF PlaceInv
<1>1. LastHas(u) /\ SavedHas(u)
  BY DEF PlaceInv
<1> QED
  BY <1>1 DEF LastHas, SavedHas

\* One more op in the queue: whose place it is.
LEMMA OneMoreOp ==
  ASSUME Inv, NEW op \in Ops, queue' = Append(queue, op), NEW u
  PROVE  /\ PtrOps(u)' = IF op.kind = "ptr" /\ op.user = u THEN PtrOps(u) \cup {Len(queue) + 1}
                         ELSE PtrOps(u)
         /\ PtrOps(u) \subseteq 1..Len(queue)
         /\ \A i \in PtrOps(u) : queue'[i] = queue[i]
         /\ queue'[Len(queue) + 1] = op
<1>1. queue \in Seq(Ops) /\ Len(queue) \in Nat /\ DOMAIN queue = 1..Len(queue)
  BY DEF Inv, Types
<1>2. /\ DOMAIN queue' = 1..(Len(queue) + 1) /\ queue'[Len(queue) + 1] = op
      /\ \A i \in 1..Len(queue) : queue'[i] = queue[i]
  BY <1>1
<1> QED
  BY <1>1, <1>2 DEF PtrOps

\* A caller leaves the forum: their place is the last in the queue, or it was refused.
LEMMA PtrFlushPlace == ASSUME Inv, PlaceInv, NEW u \in Users, PtrFlush(u) PROVE PlaceInv'
<1> DEFINE op == [NoOp EXCEPT !.kind = "ptr", !.user = u, !.mark = place'[u]]
<1>1. place \in [Users -> Nat] /\ place' = [place EXCEPT ![u] = place[u] + 1]
  BY DEF PtrFlush, Inv, Types
<1>2. place'[u] \in Nat /\ \A v \in Users \ {u} : place'[v] = place[v]
  BY <1>1
<1>3. op \in Ops /\ op.kind = "ptr" /\ op.user = u /\ op.mark = place'[u]
  BY <1>2, IdleType DEF Ops, NoOp
<1>4. \/ queue' = Append(queue, op) /\ lost' = lost \ {u}
      \/ queue' = queue /\ lost' = lost \cup {u}
  BY DEF PtrFlush, Queued, opVars
<1>5. done' = done /\ card' = card /\ done <= Len(queue) /\ Len(queue) \in Nat /\ done \in Nat
  BY DEF PtrFlush, Queued, opVars, LoopStep, cardVars, Inv, Types
<1> HIDE DEF op
<1>6. ASSUME NEW v \in Users, v \notin lost', v # u PROVE LastHas(v)' /\ SavedHas(v)'
  <2>1. LastHas(v) /\ SavedHas(v)
    BY <1>4, <1>6 DEF PlaceInv
  <2>2. PtrOps(v)' = PtrOps(v) /\ \A i \in PtrOps(v) : queue'[i] = queue[i]
    <3>1. CASE queue' = queue
      BY <3>1 DEF PtrOps
    <3>2. CASE queue' = Append(queue, op)
      BY <1>3, <1>6, <3>2, OneMoreOp
    <3> QED
      BY <1>4, <3>1, <3>2
  <2> QED
    BY <1>2, <1>5, <1>6, <2>1, <2>2 DEF LastHas, SavedHas
<1>7. ASSUME u \notin lost' PROVE LastHas(u)' /\ SavedHas(u)'
  <2>1. queue' = Append(queue, op)
    BY <1>4, <1>7
  <2>2. /\ PtrOps(u)' = PtrOps(u) \cup {Len(queue) + 1} /\ PtrOps(u) \subseteq 1..Len(queue)
        /\ queue'[Len(queue) + 1] = op
    BY <1>3, <2>1, OneMoreOp
  <2>3. \A i \in PtrOps(u)' : (\A k \in PtrOps(u)' : i >= k) => i = Len(queue) + 1
    <3> SUFFICES ASSUME NEW i \in PtrOps(u)', i >= Len(queue) + 1 PROVE i = Len(queue) + 1
      BY <2>2
    <3> QED
      BY <1>5, <2>2
  <2>4. ~(\A i \in PtrOps(u)' : i <= done')
    BY <1>5, <2>2
  <2> QED
    BY <1>3, <2>2, <2>3, <2>4 DEF LastHas, SavedHas
<1> QED
  BY <1>6, <1>7 DEF PlaceInv

\* The loop takes an answer: every op a place nearer the head.
LEMMA DeliverPlace == ASSUME Inv, PlaceInv, Deliver PROVE PlaceInv'
<1>1. PICK op : op = [NoOp EXCEPT !.kind = "seed", !.recount = TRUE]
  OBVIOUS
<1>2. /\ op.kind = "seed" /\ done' = done - 1 /\ done >= 1
      /\ Len(queue') = IF queue[1].stale THEN Len(queue) ELSE Len(queue) - 1
      /\ \A i \in 1..Len(queue') : queue'[i] = IF i + 1 <= Len(queue) THEN queue[i + 1] ELSE op
  BY <1>1, DeliverMoves
<1>3. Len(queue) \in Nat /\ done \in Nat /\ done <= Len(queue) /\ Len(queue') \in Nat
      /\ Len(queue) - 1 <= Len(queue')
  BY <1>2, EveryStep DEF Inv, Types, Next, LoopNext
<1>d. DOMAIN queue = 1..Len(queue) /\ DOMAIN queue' = 1..Len(queue')
  BY EveryStep DEF Inv, Types, Next, LoopNext
<1>4. place' = place /\ lost' = lost /\ card' = card
  BY DEF Deliver, LoopStep, cardVars
<1> SUFFICES ASSUME NEW u \in Users, u \notin lost PROVE LastHas(u)' /\ SavedHas(u)'
  BY <1>4 DEF PlaceInv
<1>5. LastHas(u) /\ SavedHas(u)
  BY DEF PlaceInv
<1>6. ASSUME NEW i \in PtrOps(u)'
      PROVE  i \in Nat /\ i >= 1 /\ i + 1 \in PtrOps(u) /\ queue'[i] = queue[i + 1]
  <2>1. i \in 1..Len(queue') /\ queue'[i].kind = "ptr" /\ queue'[i].user = u
    BY <1>d DEF PtrOps
  <2>2. queue'[i] = IF i + 1 <= Len(queue) THEN queue[i + 1] ELSE op
    BY <1>2, <2>1
  <2>3. i + 1 <= Len(queue) /\ queue'[i] = queue[i + 1]
    BY <1>2, <2>1, <2>2
  <2>4. i \in Nat /\ i >= 1 /\ i + 1 \in 1..Len(queue)
    BY <1>3, <2>1, <2>3
  <2>5. i + 1 \in PtrOps(u)
    BY <1>d, <2>1, <2>3, <2>4 DEF PtrOps
  <2> QED
    BY <2>3, <2>4, <2>5
<1>7. ASSUME NEW k \in PtrOps(u)
      PROVE  k \in Nat /\ k >= 1 /\ (k # 1 => k - 1 \in PtrOps(u)')
  <2>1. k \in 1..Len(queue) /\ queue[k].kind = "ptr" /\ queue[k].user = u
    BY <1>d DEF PtrOps
  <2>2. k \in Nat /\ k >= 1
    BY <1>3, <2>1
  <2>3. CASE k # 1
    <3>1. PICK i \in Nat : k = i + 1
      BY <2>2
    <3>2. i \in 1..Len(queue') /\ i + 1 <= Len(queue) /\ i = k - 1
      BY <1>3, <2>1, <2>3, <3>1
    <3>3. queue'[i] = queue[i + 1]
      BY <1>2, <3>2
    <3>4. i \in PtrOps(u)'
      BY <1>d, <2>1, <3>1, <3>2, <3>3 DEF PtrOps
    <3> QED
      BY <2>2, <3>2, <3>4
  <2> QED
    BY <2>2, <2>3
<1>8. LastHas(u)'
  <2> SUFFICES ASSUME NEW i \in PtrOps(u)', \A k \in PtrOps(u)' : i >= k
               PROVE  queue'[i].mark = place[u]
    BY <1>4 DEF LastHas
  <2>1. i \in Nat /\ i >= 1 /\ i + 1 \in PtrOps(u) /\ queue'[i] = queue[i + 1]
    BY <1>6
  <2>2. ASSUME NEW k \in PtrOps(u) PROVE i + 1 >= k
    <3>1. CASE k = 1
      BY <2>1, <3>1
    <3>2. CASE k # 1
      <4>1. k \in Nat /\ k - 1 \in PtrOps(u)'
        BY <1>7, <3>2
      <4>2. i >= k - 1
        BY <4>1
      <4> QED
        BY <2>1, <4>1, <4>2
    <3> QED
      BY <3>1, <3>2
  <2>3. queue[i + 1].mark = place[u]
    BY <1>5, <2>1, <2>2 DEF LastHas
  <2> QED
    BY <2>1, <2>3
<1>9. SavedHas(u)'
  <2> SUFFICES ASSUME \A i \in PtrOps(u)' : i <= done - 1 PROVE card.ptr[u] = place[u]
    BY <1>2, <1>4 DEF SavedHas
  <2>1. ASSUME NEW k \in PtrOps(u) PROVE k <= done
    <3>1. CASE k = 1
      BY <1>2, <1>3, <3>1
    <3>2. CASE k # 1
      <4>1. k \in Nat /\ k - 1 \in PtrOps(u)'
        BY <1>7, <3>2
      <4>2. k - 1 <= done - 1
        BY <4>1
      <4> QED
        BY <1>3, <4>1, <4>2
    <3> QED
      BY <3>1, <3>2
  <2> QED
    BY <1>5, <2>1 DEF SavedHas
<1> QED
  BY <1>8, <1>9

\* What the card's operations make of the pointers that are saved: only the write of a
\* pointer changes one, its caller's, to the place it carries.
LEMMA CardPtr ==
  ASSUME Inv, card' \in Interrupted
  PROVE  /\ work.at # "ptr" => card'.ptr = card.ptr
         /\ \A u \in Users : work.op.user # u => card'.ptr[u] = card.ptr[u]
<1>1. card \in Cards /\ card.ptr \in [Users -> Nat]
  BY DEF Inv, Types, Cards
<1>2. card.ptr = card.ptr
  OBVIOUS
<1>3. [card EXCEPT !.head = Torn].ptr = card.ptr
  BY <1>1 DEF Cards
<1>4. CASE work.at # "ptr"
  <2>1. Written.ptr = card.ptr
    BY <1>1, <1>4 DEF Written, Cards
  <2> QED
    BY <1>3, <1>4, <2>1 DEF Interrupted
<1>5. CASE work.at = "ptr"
  <2>1. Written = [card EXCEPT !.ptr[work.op.user] = work.op.mark]
    BY <1>5 DEF Written
  <2>2. Written.ptr = [card.ptr EXCEPT ![work.op.user] = work.op.mark]
    BY <1>1, <2>1 DEF Cards
  <2>3. \A u \in Users : work.op.user # u => Written.ptr[u] = card.ptr[u]
    BY <1>1, <2>2
  <2>4. card' = card \/ card' = Written
    BY <1>5 DEF Interrupted
  <2> QED
    BY <1>5, <2>3, <2>4
<1> QED
  BY <1>4, <1>5

\* The runner leaves the pointers on the card alone, but for the op in hand.
LEMMA RunnerPtr ==
  ASSUME Inv, ReadHeader \/ Count \/ Look \/ Write \/ ReadFails \/ WriteFails
  PROVE  /\ card' \in Interrupted /\ place' = place
         /\ work.at = "ptr" => \/ WriteFails
                               \/ /\ Finish([work.op EXCEPT !.res = "ok"])
                                  /\ card' = [card EXCEPT !.ptr[work.op.user] = work.op.mark]
<1>1. ReadHeader \/ Count \/ Look \/ ReadFails => card' = card /\ work.at # "ptr"
  BY DEF ReadHeader, Count, Look, ReadFails, Reading
<1>2. Write => card' = Written
  BY DEF Write
<1>3. WriteFails => card' \in Interrupted
  BY DEF WriteFails
<1>4. place' = place
  BY DEF ReadHeader, Count, Look, Write, ReadFails, WriteFails, RunnerStep
<1>5. ASSUME work.at = "ptr", Write
      PROVE  /\ Finish([work.op EXCEPT !.res = "ok"])
             /\ card' = [card EXCEPT !.ptr[work.op.user] = work.op.mark]
  BY <1>5 DEF Write, Written
<1>6. card' \in Interrupted
  BY <1>1, <1>2, <1>3 DEF Interrupted
<1> QED
  BY <1>1, <1>4, <1>5, <1>6

\* An op is answered: what is still to be written is one less, and a caller whose pointer
\* it was has it saved, or has it lost.
LEMMA EndsInPlace ==
  ASSUME Inv, QueueInv, PlaceInv, work.at # "idle", NEW op, SameOp(op, work.op), Finish(op),
         card' \in Interrupted, place' = place,
         work.at = "ptr" /\ work.op.user \in Users =>
           op.res = "io" \/ card'.ptr[work.op.user] = work.op.mark
  PROVE  PlaceInv'
<1>1. queue \in Seq(Ops) /\ done \in Nat /\ done + 1 \in 1..Len(queue)
  BY DEF Inv, Types
<1>2. queue' = [queue EXCEPT ![done + 1] = op] /\ done' = done + 1
      /\ lost' = IF op.kind = "ptr" /\ op.res = "io" /\ op.mark = place[op.user]
                 THEN lost \cup {op.user} ELSE lost
  BY DEF Finish
<1>3. SameOp(op, queue[done + 1])
  BY DEF QueueInv, SameOp
<1>4. DOMAIN queue' = DOMAIN queue /\ queue'[done + 1] = op /\ DOMAIN queue = 1..Len(queue)
      /\ \A i \in DOMAIN queue : i # done + 1 => queue'[i] = queue[i]
  BY <1>1, <1>2
<1>5. \A u : PtrOps(u)' = PtrOps(u) /\ \A i \in PtrOps(u) : queue'[i].mark = queue[i].mark
  BY <1>1, <1>3, <1>4 DEF PtrOps, SameOp
<1> SUFFICES ASSUME NEW u \in Users, u \notin lost' PROVE LastHas(u)' /\ SavedHas(u)'
  BY DEF PlaceInv
<1>6. LastHas(u) /\ SavedHas(u)
  BY <1>2 DEF PlaceInv
<1>7. LastHas(u)'
  BY <1>5, <1>6 DEF LastHas
<1>8. ASSUME \A i \in PtrOps(u) : i <= done + 1 PROVE card'.ptr[u] = place[u]
  <2>1. \A i \in PtrOps(u) : i \in Nat
    BY <1>1, <1>4 DEF PtrOps
  <2>2. CASE done + 1 \notin PtrOps(u)
    <3>1. \A i \in PtrOps(u) : i <= done
      BY <1>1, <1>8, <2>1, <2>2
    <3>2. card.ptr[u] = place[u]
      BY <1>6, <3>1 DEF SavedHas
    <3>3. work.at = "ptr" => work.op.user # u
      BY <1>1, <1>4, <2>2 DEF PtrOps, QueueInv, SameOp
    <3> QED
      BY <3>2, <3>3, CardPtr
  <2>3. CASE done + 1 \in PtrOps(u)
    <3>1. queue[done + 1].kind = "ptr" /\ queue[done + 1].user = u
      BY <2>3 DEF PtrOps
    <3>2. queue[done + 1].mark = place[u]
      BY <1>6, <1>8, <2>3 DEF LastHas
    <3>3. op.kind = "ptr" /\ op.user = u /\ op.mark = place[u]
      BY <1>3, <3>1, <3>2 DEF SameOp
    <3>4. op.res # "io"
      BY <1>2, <3>3
    <3>5. work.at = "ptr" /\ work.op.user = u /\ work.op.mark = place[u]
      BY <3>3 DEF QueueInv, SameOp
    <3> QED
      BY <3>4, <3>5
  <2> QED
    BY <2>2, <2>3
<1>9. SavedHas(u)'
  BY <1>2, <1>5, <1>8 DEF SavedHas
<1> QED
  BY <1>7, <1>9

\* The loop's other steps: what they queue is no pointer.
LEMMA LoopPlace ==
  ASSUME Inv, PlaceInv, LoopNext, ~Deliver, ~SomeoneLeaves PROVE PlaceInv'
<1>1. place' = place /\ lost' = lost
  BY DEF LoopNext, SomeoneLeaves, Post, Remove, Ask, GiveUp, Tick, TickEnd, Boot, Save, Start,
         StartReads, StartSeeds
<1>2. done' = done /\ card' = card
  BY LoopQueues DEF cardVars
<1>3. \/ queue' = queue
      \/ \E op \in Ops : op.kind # "ptr" /\ queue' = Append(queue, op)
  BY LoopQueues
<1>4. ASSUME NEW op \in Ops, op.kind # "ptr", queue' = Append(queue, op), NEW u
      PROVE  PtrOps(u)' = PtrOps(u) /\ \A i \in PtrOps(u) : queue'[i] = queue[i]
  BY <1>4, OneMoreOp
<1>5. \A u : PtrOps(u)' = PtrOps(u) /\ \A i \in PtrOps(u) : queue'[i].mark = queue[i].mark
  BY <1>3, <1>4 DEF PtrOps
<1> QED
  BY <1>1, <1>2, <1>5, PlaceStays

\* Whoever loses a pointer op to the power cut is no longer promised their place, and
\* what everyone else has was on the card.
LEMMA PowerCutPlace == ASSUME Inv, QueueInv, PlaceInv, PowerCut PROVE PlaceInv'
<1>1. /\ Len(queue') = 0 /\ card' \in Interrupted /\ place' = place
      /\ lost \subseteq lost'
      /\ \A i \in DOMAIN queue : i > done /\ queue[i].kind = "ptr" => queue[i].user \in lost'
  BY DEF PowerCut
<1>2. queue \in Seq(Ops) /\ done \in Nat /\ DOMAIN queue = 1..Len(queue)
      /\ (work.at # "idle" => done + 1 \in 1..Len(queue))
  BY DEF Inv, Types
<1>3. queue' = <<>>
  BY DEF PowerCut
<1>4. \A u : PtrOps(u)' = {}
  BY <1>3 DEF PtrOps
<1> SUFFICES ASSUME NEW u \in Users, u \notin lost' PROVE LastHas(u)' /\ SavedHas(u)'
  BY DEF PlaceInv
<1>5. SavedHas(u)
  BY <1>1 DEF PlaceInv
<1>6. \A i \in PtrOps(u) : i <= done
  BY <1>1, <1>2 DEF PtrOps
<1>7. work.at = "ptr" => work.op.user # u
  BY <1>1, <1>2 DEF QueueInv, SameOp
<1>8. card'.ptr[u] = card.ptr[u]
  BY <1>1, <1>7, CardPtr
<1> QED
  BY <1>1, <1>4, <1>5, <1>6, <1>8 DEF LastHas, SavedHas

\* Every step keeps it.
LEMMA PlaceStep == ASSUME Inv, QueueInv, AnswerInv, PlaceInv, [Next]_vars PROVE PlaceInv'
<1>1. CASE Deliver
  BY <1>1, DeliverPlace
<1>2. CASE LoopNext /\ ~Deliver /\ ~SomeoneLeaves
  BY <1>2, LoopPlace
<1>3. CASE SomeoneLeaves
  BY <1>3, PtrFlushPlace DEF SomeoneLeaves
<1>4. CASE Take
  <2>1. /\ card' = card /\ queue' = queue /\ done' = done /\ lost' = lost /\ place' = place
    BY <1>4 DEF Take, GoOn, RunnerStep, opVars
  <2>2. \A u : PtrOps(u)' = PtrOps(u)
    BY <2>1 DEF PtrOps
  <2> QED
    BY <2>1, <2>2, PlaceStays
<1>5. CASE ReadHeader \/ Count \/ Look \/ Write \/ ReadFails \/ WriteFails
  <2>1. work.at # "idle"
    BY <1>5 DEF ReadHeader, Count, Look, Write, ReadFails, WriteFails, Reading, Writing
  <2>2. card' \in Interrupted /\ place' = place
    BY <1>5, RunnerPtr
  <2>3. CASE work.at = "ptr" /\ WriteFails
    <3>1. Finish(work.op) /\ SameOp(work.op, work.op) /\ work.op.res = "io"
      BY <2>3 DEF WriteFails, SameOp, AnswerInv, HandInv
    <3> QED
      BY <2>1, <2>2, <3>1, EndsInPlace
  <2>4. CASE work.at = "ptr" /\ ~WriteFails
    <3>1. PICK op : op = [work.op EXCEPT !.res = "ok"]
      OBVIOUS
    <3>2. Finish(op) /\ card' = [card EXCEPT !.ptr[work.op.user] = work.op.mark]
      BY <1>5, <2>4, <3>1, RunnerPtr
    <3>3. work.op \in Ops /\ queue \in Seq(Ops) /\ card \in Cards
      BY DEF Inv, Types, Works
    <3>4. SameOp(op, work.op)
      BY <3>1, <3>3 DEF SameOp, Ops
    <3>5. work.op.user \in Users => card'.ptr[work.op.user] = work.op.mark
      BY <3>2, <3>3 DEF Cards
    <3> QED
      BY <2>1, <2>2, <3>2, <3>4, <3>5, EndsInPlace
  <2>5. CASE work.at # "ptr"
    <3>1. ASSUME NEW op \in Ops, SameOp(op, work.op), Finish(op) PROVE PlaceInv'
      BY <2>1, <2>2, <2>5, <3>1, EndsInPlace
    <3>2. CASE queue' = queue /\ done' = done /\ lost' = lost
      <4>1. \A u : PtrOps(u)' = PtrOps(u)
        BY <3>2 DEF PtrOps
      <4> QED
        BY <2>2, <2>5, <3>2, <4>1, CardPtr, PlaceStays
    <3> QED
      BY <1>5, <3>1, <3>2, RunnerMoves
  <2> QED
    BY <2>3, <2>4, <2>5
<1>6. CASE EndJob
  <2>1. /\ card' = card /\ queue' = queue /\ done' = done /\ lost' = lost /\ place' = place
    BY <1>6 DEF EndJob, cardVars, opVars
  <2>2. \A u : PtrOps(u)' = PtrOps(u)
    BY <2>1 DEF PtrOps
  <2> QED
    BY <2>1, <2>2, PlaceStays
<1>7. CASE PowerCut
  BY <1>7, PowerCutPlace
<1>8. CASE UNCHANGED vars
  <2>1. \A u : PtrOps(u)' = PtrOps(u)
    BY <1>8 DEF PtrOps, vars
  <2> QED
    BY <1>8, <2>1, PlaceStays DEF vars
<1> QED
  BY <1>1, <1>2, <1>3, <1>4, <1>5, <1>6, <1>7, <1>8 DEF Next, RunNext

\* A caller who comes back finds the place they left, written or still in the queue,
\* unless it was refused or did not save (readPtr, queuedPtr, writePtr), for every queue
\* length and every number of accounts.
THEOREM PlacesAreKept == Spec => []PlaceIsKept
<1>1. Init => PlaceInv
  BY PlaceStart
<1>2. Inv /\ QueueInv /\ AnswerInv /\ PlaceInv /\ [Next]_vars => PlaceInv'
  BY PlaceStep
<1>3. Inv /\ PlaceInv => PlaceIsKept
  <2> SUFFICES ASSUME Inv, PlaceInv, NEW u \in Users, u \notin lost PROVE ReadPtr(u) = place[u]
    BY DEF PlaceIsKept
  <2>1. LastHas(u) /\ SavedHas(u)
    BY DEF PlaceInv
  <2>2. CASE PtrOps(u) = {}
    BY <2>1, <2>2 DEF ReadPtr, SavedHas
  <2>3. CASE PtrOps(u) # {}
    <3>1. PtrOps(u) \subseteq 1..Len(queue) /\ Len(queue) \in Nat
      BY DEF PtrOps, Inv, Types
    <3>2. \E x \in PtrOps(u) : \A y \in PtrOps(u) : x >= y
      BY <2>3, <3>1, LastOf
    <3>3. PICK x \in PtrOps(u) : /\ \A y \in PtrOps(u) : x >= y
                                /\ ReadPtr(u) = queue[x].mark
      BY <2>3, <3>2 DEF ReadPtr
    <3> QED
      BY <2>1, <3>3 DEF LastHas
  <2> QED
    BY <2>2, <2>3
<1> QED
  BY <1>1, <1>2, <1>3, AnswersHold, PTL DEF Spec

-------------------------------------------------------------------------------
(* The figures the callers are shown                                       *)

\* The ops not yet written that look at the header, and the answers on their way to the
\* loop: one of them may say that the header is wrong.
Waiting == {i \in 1..Len(queue) : i > done /\ queue[i].kind = "seed"}
Stale   == \E i \in 1..done : queue[i].stale
Owed    == Stale \/ Waiting # {}
Due     == Stale \/ \E i \in Waiting : queue[i].recount

\* A header counts the live records.
Right(h) == h.count = Live(card, h.newest)

\* An answer has the header's figures; the callers are shown them, or will be once the
\* last answer is delivered.
Tells(op, h) == op.newest = h.newest /\ op.total = h.count
Answers == {i \in 1..done : queue[i].head}
Fresh ==
  /\ Answers = {} => figures.newest = card.head.newest /\ figures.total = card.head.count
  /\ \A i \in Answers : (\A k \in Answers : i >= k) => Tells(queue[i], card.head)

\* A post or a removal that has changed the files and not yet their header.
Counting == /\ ~work.seeding
            /\ work.at = "again" \/ (work.at = "head" /\ work.op.kind = "remove")

\* But for that, the header on the card is right or will be recounted; one that does not
\* read will be looked at.
HeadInv ==
  /\ card.head.is = "good" /\ ~Counting => Right(card.head) \/ Due
  /\ card.head.is # "good" => Owed \/ loop = "boot" \/ (work.at = "again" /\ ~work.seeding)

\* So is the header the writer has in hand; a rebuilt one is right.
NextHeadInv ==
  /\ work.at \in {"head", "again"} => /\ Right(work.nh) \/ Due
                                      /\ work.seeding \/ work.op.kind = "seed" => Right(work.nh)
  /\ work.at \in {"make", "count", "head", "again"} /\ work.seeding => Owed

\* What the callers are shown is what the header says.
ShownInv == loop # "boot" /\ ~Owed /\ work.at # "again" => Fresh

\* What an op says of the header before its answer is what it has read of it.
ReadInv ==
  /\ \A i \in 1..Len(queue) : i > done => ~queue[i].head
  /\ work.at \in {"look", "body", "record", "flag"} =>
       work.op.head /\ Tells(work.op, card.head) /\ ~work.seeding
  /\ work.at \in {"open", "reopen", "make", "count", "ptr"} => ~work.op.head
  /\ work.at \in {"head", "again"} /\ work.seeding => ~work.op.head
  /\ loop = "boot" => queue = <<>>

FigInv == ReadInv /\ (missed \/ (HeadInv /\ NextHeadInv /\ ShownInv))

\* The live records among the first n.
LEMMA LiveIs ==
  ASSUME NEW c, c.rec \in Seq(Recs), NEW n \in Nat, n <= Len(c.rec)
  PROVE  /\ Live(c, n) = Cardinality({i \in 1..n : c.rec[i].live})
         /\ IsFiniteSet({i \in 1..n : c.rec[i].live}) /\ Live(c, n) \in Nat
<1>1. DOMAIN c.rec = 1..Len(c.rec) /\ Len(c.rec) \in Nat
  OBVIOUS
<1>2. {i \in DOMAIN c.rec : i <= n /\ c.rec[i].live} = {i \in 1..n : c.rec[i].live}
  BY <1>1
<1>3. IsFiniteSet({i \in 1..n : c.rec[i].live})
  <2>1. IsFiniteSet(1..n)
    BY FS_Interval
  <2> QED
    BY <2>1, FS_Subset
<1> QED
  BY <1>2, <1>3, FS_CardinalityType DEF Live

\* The same records, the same count.
LEMMA LiveSame ==
  ASSUME NEW c, NEW d, c.rec \in Seq(Recs), d.rec \in Seq(Recs), NEW n \in Nat,
         n <= Len(c.rec), n <= Len(d.rec), \A i \in 1..n : d.rec[i] = c.rec[i]
  PROVE  Live(d, n) = Live(c, n)
<1>1. {i \in 1..n : d.rec[i].live} = {i \in 1..n : c.rec[i].live}
  OBVIOUS
<1> QED
  BY <1>1, LiveIs

\* One more.
LEMMA LiveOneMore ==
  ASSUME NEW c, c.rec \in Seq(Recs), NEW n \in Nat, n + 1 <= Len(c.rec), c.rec[n + 1].live
  PROVE  Live(c, n + 1) = Live(c, n) + 1
<1> DEFINE S == {i \in 1..n : c.rec[i].live}
<1>1. n <= Len(c.rec) /\ n + 1 \in Nat /\ n + 1 \notin S
  OBVIOUS
<1>2. {i \in 1..(n + 1) : c.rec[i].live} = S \cup {n + 1}
  BY <1>1
<1>3. IsFiniteSet(S) /\ Live(c, n) = Cardinality(S)
  BY <1>1, LiveIs
<1>4. Live(c, n + 1) = Cardinality({i \in 1..(n + 1) : c.rec[i].live})
  BY <1>1, LiveIs
<1> HIDE DEF S
<1>5. Cardinality(S \cup {n + 1}) = Cardinality(S) + 1
  BY <1>1, <1>3, FS_AddElement
<1> QED
  BY <1>2, <1>3, <1>4, <1>5

\* One less.
LEMMA LiveOneLess ==
  ASSUME NEW c, NEW d, c.rec \in Seq(Recs), d.rec \in Seq(Recs), NEW n \in Nat, NEW k \in 1..n,
         n <= Len(c.rec), n <= Len(d.rec), \A i \in 1..n : i # k => d.rec[i] = c.rec[i],
         c.rec[k].live, ~d.rec[k].live
  PROVE  Live(c, n) = Live(d, n) + 1
<1> DEFINE S == {i \in 1..n : d.rec[i].live}
<1>1. k \notin S /\ {i \in 1..n : c.rec[i].live} = S \cup {k}
  OBVIOUS
<1>2. IsFiniteSet(S) /\ Live(d, n) = Cardinality(S)
  BY LiveIs
<1>3. Live(c, n) = Cardinality({i \in 1..n : c.rec[i].live})
  BY LiveIs
<1> HIDE DEF S
<1> QED
  BY <1>1, <1>2, <1>3, FS_AddElement, ZenonT(60)

\* What is owed while the queue stays as it was.
LEMMA SameDues ==
  ASSUME queue' = queue, done' = done
  PROVE  /\ Waiting' = Waiting /\ Answers' = Answers
         /\ Stale' <=> Stale
         /\ Owed' <=> Owed
         /\ Due' <=> Due
BY DEF Waiting, Answers, Stale, Owed, Due

\* What is owed once the op in hand is answered.
LEMMA EndDues ==
  ASSUME Inv, QueueInv, work.at # "idle", NEW op \in Ops, SameOp(op, work.op), Finish(op)
  PROVE  /\ Stale' <=> Stale \/ op.stale
         /\ op.kind # "seed" => (Due => Due') /\ (Owed => Owed')
         /\ op.kind = "seed" /\ ~op.recount => (Due => Due')
         /\ Answers' = IF op.head THEN Answers \cup {done + 1} ELSE Answers
         /\ \A i \in 1..done : queue'[i] = queue[i]
         /\ queue'[done + 1] = op /\ Len(queue') = Len(queue) /\ done' = done + 1
         /\ done \in Nat /\ done + 1 <= Len(queue)
<1>1. queue \in Seq(Ops) /\ done \in Nat /\ done + 1 \in 1..Len(queue) /\ Len(queue) \in Nat
  BY DEF Inv, Types
<1>2. queue' = [queue EXCEPT ![done + 1] = op] /\ done' = done + 1
  BY DEF Finish
<1>3. /\ Len(queue') = Len(queue) /\ queue'[done + 1] = op
      /\ \A i \in 1..Len(queue) : i # done + 1 => queue'[i] = queue[i]
  BY <1>1, <1>2
<1>4. op.kind = queue[done + 1].kind /\ op.recount = queue[done + 1].recount
  BY DEF QueueInv, SameOp
<1>5. \A i \in 1..done : queue'[i] = queue[i]
  BY <1>1, <1>3
<1>6. Stale' <=> Stale \/ op.stale
  <2>1. 1..done' = (1..done) \cup {done + 1}
    BY <1>1, <1>2
  <2> QED
    BY <1>3, <1>5, <2>1 DEF Stale
<1>7. \A i \in Waiting : i # done + 1 => i \in Waiting' /\ queue'[i].recount = queue[i].recount
  BY <1>1, <1>2, <1>3 DEF Waiting
<1>8. done + 1 \in Waiting => queue[done + 1].kind = "seed"
  BY DEF Waiting
<1>9. op.kind # "seed" => (Due => Due') /\ (Owed => Owed')
  BY <1>4, <1>6, <1>7, <1>8 DEF Due, Owed
<1>10. op.kind = "seed" /\ ~op.recount => (Due => Due')
  BY <1>4, <1>6, <1>7 DEF Due
<1>11. Answers' = IF op.head THEN Answers \cup {done + 1} ELSE Answers
  BY <1>1, <1>2, <1>3, <1>5 DEF Answers
<1> QED
  BY <1>1, <1>2, <1>3, <1>5, <1>6, <1>9, <1>10, <1>11

\* An answer that has the header's figures is the last; one that has none changes nothing.
LEMMA EndFresh ==
  ASSUME Inv, QueueInv, work.at # "idle", NEW op \in Ops, SameOp(op, work.op), Finish(op),
         figures' = figures,
         \/ op.head /\ Tells(op, card'.head)
         \/ ~op.head /\ Fresh /\ card'.head = card.head
  PROVE  Fresh'
<1>1. /\ Answers' = IF op.head THEN Answers \cup {done + 1} ELSE Answers
      /\ \A i \in 1..done : queue'[i] = queue[i]
      /\ queue'[done + 1] = op /\ done \in Nat
  BY EndDues
<1>2. Answers \subseteq 1..done
  BY DEF Answers
<1>3. CASE op.head /\ Tells(op, card'.head)
  <2>1. \A i \in Answers' : (\A k \in Answers' : i >= k) => i = done + 1
    BY <1>1, <1>2, <1>3
  <2> QED
    BY <1>1, <1>3, <2>1 DEF Fresh, Tells
<1>4. CASE ~op.head /\ Fresh /\ card'.head = card.head
  BY <1>1, <1>2, <1>4 DEF Fresh, Tells
<1> QED
  BY <1>3, <1>4

\* The op in hand is answered.
LEMMA EndsFig ==
  ASSUME Inv, QueueInv, FigInv, work.at # "idle", NEW op \in Ops, SameOp(op, work.op),
         Finish(op), figures' = figures, loop' = loop,
         ~missed' => /\ card'.head.is = "good" => Right(card.head)' \/ Due'
                     /\ card'.head.is # "good" => Owed'
                     /\ Owed' \/ Fresh'
  PROVE  FigInv'
<1>1. done' = done + 1 /\ Len(queue') = Len(queue) /\ done \in Nat /\ done + 1 <= Len(queue)
      /\ queue \in Seq(Ops) /\ Len(queue) \in Nat
  BY EndDues DEF Inv, Types
<1>2. queue' = [queue EXCEPT ![done + 1] = op]
  BY DEF Finish
<1>3. \A i \in 1..Len(queue) : i > done + 1 => queue'[i] = queue[i]
  BY <1>1, <1>2
<1>4. loop # "boot" /\ work'.at = "idle" /\ work'.seeding = FALSE
  <2>1. Len(<<>>) = 0
    OBVIOUS
  <2> QED
    BY <1>1, <2>1 DEF FigInv, ReadInv, Finish, Idle
<1>5. ReadInv'
  <2>1. \A i \in 1..Len(queue') : i > done' => ~queue'[i].head
    BY <1>1, <1>3 DEF FigInv, ReadInv
  <2> QED
    BY <1>4, <2>1 DEF ReadInv
<1>6. ASSUME ~missed' PROVE HeadInv' /\ NextHeadInv' /\ ShownInv'
  BY <1>4, <1>6 DEF HeadInv, NextHeadInv, ShownInv
<1> QED
  BY <1>5, <1>6 DEF FigInv

\* The writer goes on with it.
LEMMA GoesOnFig ==
  ASSUME FigInv, queue' = queue, done' = done, figures' = figures, loop' = loop,
         missed' = missed,
         work'.at \in {"look", "body", "record", "flag"} =>
           work'.op.head /\ Tells(work'.op, card'.head) /\ ~work'.seeding,
         work'.at \in {"open", "reopen", "make", "count", "ptr"} => ~work'.op.head,
         work'.at \in {"head", "again"} /\ work'.seeding => ~work'.op.head,
         ~missed => /\ HeadInv' /\ NextHeadInv'
                    /\ Owed \/ work'.at = "again"
                       \/ (work.at # "again" /\ card'.head = card.head)
  PROVE  FigInv'
<1>1. ReadInv'
  BY DEF FigInv, ReadInv
<1>2. ASSUME ~missed' PROVE ShownInv'
  <2>1. CASE Owed \/ work'.at = "again"
    BY <2>1, SameDues DEF ShownInv
  <2>2. CASE ~Owed /\ work.at # "again" /\ card'.head = card.head
    BY <1>2, <2>2, SameDues DEF FigInv, ShownInv, Fresh
  <2> QED
    BY <1>2, <2>1, <2>2
<1> QED
  BY <1>1, <1>2 DEF FigInv

\* The header on the card stays, right if it was.
LEMMA HeadStays ==
  ASSUME HeadInv, queue' = queue, done' = done, loop' = loop, card'.head = card.head,
         Right(card.head) => Right(card.head)', work.at # "again", ~Counting
  PROVE  HeadInv'
BY SameDues DEF HeadInv

\* The writer takes an op.
LEMMA TakeFig == ASSUME Inv, QueueInv, FigInv, Take PROVE FigInv'
<1>1. queue \in Seq(Ops) /\ done \in Nat /\ done + 1 \in 1..Len(queue) /\ done + 1 > done
  BY DEF Take, Inv, Types
<1>2. /\ work'.at \in {"ptr", "open"} /\ work'.op = queue[done + 1] /\ work'.seeding = FALSE
      /\ work.at = "idle"
      /\ queue' = queue /\ done' = done /\ figures' = figures /\ loop' = loop
      /\ missed' = missed /\ card' = card
  BY DEF Take, GoOn, opVars, RunnerStep
<1>3. ~queue[done + 1].head
  BY <1>1 DEF FigInv, ReadInv
<1>4. ~missed => HeadInv' /\ NextHeadInv'
  BY <1>2, HeadStays DEF FigInv, NextHeadInv, Counting, Right
<1> QED
  BY <1>2, <1>3, <1>4, GoesOnFig

\* The header is read.
LEMMA ReadHeaderFig == ASSUME Inv, QueueInv, AnswerInv, FigInv, ReadHeader PROVE FigInv'
<1>1. /\ work \in Works /\ work.op \in Ops /\ card.head \in Heads /\ work.at \in {"open", "reopen"}
      /\ card' = card /\ figures' = figures /\ loop' = loop
      /\ ~work.seeding /\ ~work.op.head
  BY DEF ReadHeader, RunnerStep, Inv, Types, Works, Cards, AnswerInv, HandInv, FigInv, ReadInv
<1>2. loop # "boot"
  <2>1. Len(queue) # 0 /\ Len(<<>>) = 0
    BY <1>1 DEF Inv, Types
  <2> QED
    BY <2>1 DEF FigInv, ReadInv
<1>3. ASSUME ~missed PROVE /\ card.head.is = "good" => Right(card.head) \/ Due
                           /\ card.head.is # "good" => Owed
                           /\ Owed \/ Fresh
  BY <1>1, <1>2, <1>3 DEF FigInv, HeadInv, ShownInv, Counting
<1> DEFINE known == [work EXCEPT !.h = card.head, !.op = Figures(work.op, card.head)]
           seed  == [work EXCEPT !.seeding = work.op.kind = "post"]
           kop   == Figures(work.op, card.head)
<1>4. kop \in Ops /\ SameOp(kop, work.op) /\ kop.head /\ Tells(kop, card.head)
  BY <1>1, FiguresType DEF Figures, SameOp, Ops, Tells
<1>5. known \in Works /\ known.op = kop /\ known.seeding = work.seeding
  BY <1>1, <1>4 DEF Works
<1>6. PICK b \in BOOLEAN : b = (work.op.kind = "post")
  OBVIOUS
<1>7. seed = [work EXCEPT !.seeding = b] /\ seed \in Works /\ seed.op = work.op
  BY <1>1, <1>6 DEF Works
<1> HIDE DEF known, seed, kop
<1>8. CASE /\ card.head.is # "good" /\ work.op.kind = "remove"
           /\ Finish([work.op EXCEPT !.stale = card.head.is = "torn"])
  <2>1. PICK v \in BOOLEAN : v = (card.head.is = "torn")
    OBVIOUS
  <2>2. PICK q : q = [work.op EXCEPT !.stale = v]
    OBVIOUS
  <2>3. q \in Ops /\ SameOp(q, work.op) /\ q.kind = "remove"
    BY <1>1, <1>8, <2>2 DEF SameOp, Ops
  <2>4. Finish(q)
    BY <1>8, <2>1, <2>2
  <2>5. ~missed' => Owed'
    <3>1. ~missed' => ~missed
      BY <2>4 DEF Finish
    <3> QED
      BY <1>1, <1>3, <1>8, <2>3, <2>4, <3>1, EndDues
  <2> QED
    BY <1>1, <1>8, <2>3, <2>4, <2>5, EndsFig
<1>9. CASE /\ card.head.is # "good"
           /\ GoOn([seed EXCEPT !.at = "make"]) \/ GoOn([seed EXCEPT !.at = "count"])
  <2>1. /\ work'.at \in {"make", "count"} /\ work'.op = work.op
        /\ queue' = queue /\ done' = done /\ missed' = missed
    BY <1>7, <1>9 DEF GoOn, Works, opVars
  <2>2. ~missed => HeadInv' /\ NextHeadInv'
    BY <1>1, <1>3, <1>9, <2>1, HeadStays, SameDues DEF FigInv, NextHeadInv, Counting, Right
  <2> QED
    BY <1>1, <1>3, <1>9, <2>1, <2>2, GoesOnFig
<1>10. CASE GoOn([known EXCEPT !.at = "body"]) \/ GoOn([known EXCEPT !.at = "look"])
  <2>1. /\ work'.at \in {"body", "look"} /\ work'.op = kop /\ work'.seeding = work.seeding
        /\ queue' = queue /\ done' = done /\ missed' = missed
    BY <1>5, <1>10 DEF GoOn, Works, opVars
  <2>2. ~missed => HeadInv' /\ NextHeadInv'
    BY <1>1, <2>1, HeadStays DEF FigInv, NextHeadInv, Counting, Right
  <2> QED
    BY <1>1, <1>4, <2>1, <2>2, GoesOnFig
<1>11. CASE GoOn([work EXCEPT !.at = "count"])
  <2>1. /\ work'.at = "count" /\ work'.op = work.op /\ work'.seeding = work.seeding
        /\ queue' = queue /\ done' = done /\ missed' = missed
    BY <1>1, <1>11 DEF GoOn, Works, opVars
  <2>2. ~missed => HeadInv' /\ NextHeadInv'
    BY <1>1, <2>1, HeadStays DEF FigInv, NextHeadInv, Counting, Right
  <2> QED
    BY <1>1, <2>1, <2>2, GoesOnFig
<1>12. CASE /\ card.head.is = "good" /\ work.op.kind = "seed" /\ ~work.op.recount
            /\ Finish([known.op EXCEPT !.res = "ok"])
  <2>1. PICK q : q = [kop EXCEPT !.res = "ok"]
    OBVIOUS
  <2>2. /\ q \in Ops /\ SameOp(q, work.op) /\ q.head /\ Tells(q, card.head) /\ q.kind = "seed"
        /\ ~q.recount
    BY <1>4, <1>12, <2>1 DEF SameOp, Ops, Tells
  <2>3. Finish(q)
    BY <1>5, <1>12, <2>1
  <2>4. ~missed' => ~missed
    BY <2>3 DEF Finish
  <2>5. ~missed' => Right(card.head)' \/ Due'
    BY <1>1, <1>3, <1>12, <2>2, <2>3, <2>4, EndDues DEF Right
  <2>6. Fresh'
    BY <1>1, <2>2, <2>3, EndFresh
  <2> QED
    BY <1>1, <1>12, <2>2, <2>3, <2>5, <2>6, EndsFig
<1> QED
  BY <1>8, <1>9, <1>10, <1>11, <1>12 DEF ReadHeader, known, seed, kop

\* The live records are counted.
LEMMA CountFig == ASSUME Inv, AnswerInv, FigInv, Count PROVE FigInv'
<1> DEFINE nh == Good(Live(card, Rebuilt), Rebuilt)
           h  == Good(card.head.count, Rebuilt)
<1>1. /\ work \in Works /\ work.at = "count"
      /\ card' = card /\ figures' = figures /\ loop' = loop
  BY DEF Count, RunnerStep, Inv, Types
<1>2. nh.count = Live(card, nh.newest)
  BY DEF Good
<1> HIDE DEF nh, h
<1>3. work' = [work EXCEPT !.at = "head", !.h = h, !.nh = nh]
  BY DEF Count, GoOn, h, nh
<1>4. /\ work'.at = "head" /\ work'.nh = nh /\ work'.op = work.op /\ work'.seeding = work.seeding
      /\ queue' = queue /\ done' = done /\ missed' = missed
  BY <1>1, <1>3 DEF Count, GoOn, opVars, Works
<1>5. ~missed => HeadInv' /\ NextHeadInv'
  BY <1>1, <1>2, <1>4, HeadStays, SameDues DEF FigInv, NextHeadInv, Counting, Right
<1> QED
  BY <1>1, <1>4, <1>5, GoesOnFig DEF FigInv, ReadInv

\* An op that has read the header is answered from what it has read.
LEMMA EndsReading ==
  ASSUME Inv, QueueInv, AnswerInv, FigInv, work.at # "idle",
         NEW op \in Ops, SameOp(op, work.op), Finish(op), figures' = figures, loop' = loop,
         op.head = work.op.head, op.newest = work.op.newest, op.total = work.op.total,
         op.res = "io" \/ op.kind # "seed",
         card'.head = card.head,
         card.head.is = "good" /\ Right(card.head) => Right(card.head)',
         work.at \notin {"head", "again", "idle"}
  PROVE  FigInv'
<1>1. ~missed' => op.kind # "seed" /\ ~missed
  BY DEF Finish
<1>2. loop # "boot"
  <2>1. Len(queue) # 0 /\ Len(<<>>) = 0
    BY DEF Inv, Types
  <2> QED
    BY <2>1 DEF FigInv, ReadInv
<1>3. ASSUME ~missed PROVE /\ card.head.is = "good" => Right(card.head) \/ Due
                           /\ card.head.is # "good" => Owed
                           /\ Owed \/ Fresh
  BY <1>2, <1>3 DEF FigInv, HeadInv, ShownInv, Counting
<1>4. ASSUME ~missed' PROVE Owed' \/ Fresh'
  <2>1. CASE work.at \in {"look", "body", "record", "flag"}
    <3>1. op.head /\ Tells(op, card'.head)
      BY <2>1 DEF FigInv, ReadInv, Tells
    <3> QED
      BY <3>1, EndFresh
  <2>2. CASE work.at \notin {"look", "body", "record", "flag"}
    <3>1. ~op.head
      <4>1. work.at \in {"open", "reopen", "make", "count", "ptr"}
        BY <2>2 DEF Inv, Types, Works, Ats
      <4> QED
        BY <4>1 DEF FigInv, ReadInv
    <3>2. CASE Owed
      BY <1>1, <1>4, <3>2, EndDues
    <3>3. CASE Fresh
      BY <3>1, <3>3, EndFresh
    <3> QED
      BY <1>1, <1>3, <1>4, <3>2, <3>3
  <2> QED
    BY <2>1, <2>2
<1>5. ASSUME ~missed'
      PROVE  /\ card'.head.is = "good" => Right(card.head)' \/ Due'
             /\ card'.head.is # "good" => Owed'
  BY <1>1, <1>3, <1>5, EndDues
<1> QED
  BY <1>4, <1>5, EndsFig

\* The writer looks at the record to be removed.
LEMMA LookFig == ASSUME Inv, QueueInv, AnswerInv, FigInv, Look PROVE FigInv'
<1>1. /\ work \in Works /\ work.op \in Ops /\ work.at = "look" /\ work.op.kind = "remove"
      /\ card' = card /\ figures' = figures /\ loop' = loop
  BY DEF Look, RunnerStep, Inv, Types, Works, AnswerInv, HandInv
<1>2. CASE Finish(work.op) \/ Finish([work.op EXCEPT !.res = "gone"])
  <2>1. PICK q : (q = work.op \/ q = [work.op EXCEPT !.res = "gone"]) /\ Finish(q)
    BY <1>2
  <2>2. /\ q \in Ops /\ SameOp(q, work.op) /\ q.head = work.op.head /\ q.newest = work.op.newest
        /\ q.total = work.op.total /\ q.kind = "remove"
    BY <1>1, <2>1 DEF SameOp, Ops
  <2>3. Right(card.head) => Right(card.head)'
    BY <1>1 DEF Right
  <2> QED
    BY <1>1, <2>1, <2>2, <2>3, EndsReading
<1>3. CASE GoOn([work EXCEPT !.at = "flag"])
  <2>1. /\ work'.at = "flag" /\ work'.op = work.op /\ work'.seeding = work.seeding
        /\ queue' = queue /\ done' = done /\ missed' = missed
    BY <1>1, <1>3 DEF GoOn, Works, opVars
  <2>2. ~missed => HeadInv' /\ NextHeadInv'
    BY <1>1, <2>1, HeadStays DEF FigInv, NextHeadInv, Counting, Right
  <2>3. work.op.head /\ Tells(work.op, card'.head) /\ ~work.seeding
    BY <1>1 DEF FigInv, ReadInv
  <2> QED
    BY <1>1, <2>1, <2>2, <2>3, GoesOnFig
<1> QED
  BY <1>2, <1>3 DEF Look

\* A file does not open or a record does not read.
LEMMA ReadFailsFig == ASSUME Inv, QueueInv, AnswerInv, FigInv, ReadFails PROVE FigInv'
<1>1. /\ work.op \in Ops /\ work.at \in {"open", "reopen", "count", "look"} /\ Finish(work.op)
      /\ card' = card /\ figures' = figures /\ loop' = loop /\ work.op.res = "io"
  BY DEF ReadFails, Reading, RunnerStep, Inv, Types, Works, AnswerInv, HandInv
<1>2. SameOp(work.op, work.op) /\ (Right(card.head) => Right(card.head)')
  BY <1>1 DEF SameOp, Right
<1>3. PICK q : q = work.op
  OBVIOUS
<1>4. /\ q \in Ops /\ Finish(q) /\ SameOp(q, work.op) /\ q.res = "io"
      /\ q.head = work.op.head /\ q.newest = work.op.newest /\ q.total = work.op.total
  BY <1>1, <1>2, <1>3
<1> QED
  BY <1>1, <1>2, <1>4, EndsReading

\* A write that is no header's leaves the header what it was, or torn where there was none,
\* and but for a flag the count of what it names.
LEMMA DataCounts ==
  ASSUME Inv, work.at \notin {"head", "again", "flag"}, card' \in Interrupted
  PROVE  /\ card'.head.is = "good" => card'.head = card.head
         /\ work.at # "make" => card'.head = card.head
         /\ card.head.is = "good" /\ Right(card.head) => Right(card.head)'
<1>1. /\ card \in Cards /\ card.rec \in Seq(Recs) /\ card.head \in Heads
      /\ Named \in Nat /\ Named <= Len(card.rec)
  BY DEF Inv, Types, CardInv, Cards
<1>2. card' = card \/ card' = Written
  BY DEF Interrupted
<1>3. CASE card' = card
  BY <1>3 DEF Right
<1>4. CASE card' = Written /\ work.at = "make"
  <2>1. card'.head = Torn /\ card.head.is = "none"
    BY <1>1, <1>4 DEF Written, Cards, Inv, WorkInv
  <2> QED
    BY <1>4, <2>1 DEF Torn
<1>5. CASE card' = Written /\ work.at \in {"body", "ptr", "idle", "open", "reopen", "count", "look"}
  <2>1. card'.head = card.head /\ card'.rec = card.rec
    BY <1>1, <1>5 DEF Written, Cards
  <2> QED
    BY <1>5, <2>1 DEF Right, Live
<1>6. CASE card' = Written /\ work.at = "record"
  <2>1. card.head.is = "good" /\ work.h = card.head /\ Named = card.head.newest
    BY <1>6 DEF Inv, WorkInv, Named, NamedBy
  <2>2. card'.head = card.head
    BY <1>1, <1>6 DEF Written, Cards
  <2>3. /\ card'.rec \in Seq(Recs) /\ Len(card'.rec) = Named + 1
        /\ \A n \in 1..Named : card'.rec[n] = card.rec[n]
    <3>1. [id |-> work.op.ticket, live |-> TRUE] \in Recs /\ Len(card.rec) <= Named + 1
      BY DEF Inv, Types, Works, Ops, Recs, CardInv
    <3>2. card'.rec = Recorded(card.rec, Named + 1, [id |-> work.op.ticket, live |-> TRUE])
      BY <1>1, <1>6, <2>1 DEF Written, Cards
    <3> QED
      BY <1>1, <3>1, <3>2 DEF Recorded
  <2>4. Live(card', Named) = Live(card, Named)
    <3>1. PICK c, d, n : c = card /\ d = card' /\ n = Named
      OBVIOUS
    <3>2. /\ c.rec \in Seq(Recs) /\ d.rec \in Seq(Recs) /\ n \in Nat /\ n <= Len(c.rec)
          /\ n <= Len(d.rec) /\ \A i \in 1..n : d.rec[i] = c.rec[i]
      BY <1>1, <2>3, <3>1
    <3> QED
      BY <3>1, <3>2, LiveSame
  <2> QED
    BY <1>6, <2>1, <2>2, <2>4 DEF Right
<1> QED
  BY <1>2, <1>3, <1>4, <1>5, <1>6 DEF Inv, Types, Works, Ats

\* What a record adds to the count.
LEMMA RecordCounts ==
  ASSUME Inv, work.at = "record", card' = Written
  PROVE  Right(card.head) => Live(card', card.head.newest + 1) = card.head.count + 1
<1>1. /\ card \in Cards /\ card.rec \in Seq(Recs) /\ card.head \in Heads
      /\ Named \in Nat /\ Named <= Len(card.rec) /\ Len(card.rec) <= Named + 1
      /\ card.head.is = "good" /\ work.h = card.head /\ Named = card.head.newest
  BY DEF Inv, Types, CardInv, Cards, WorkInv, Named, NamedBy
<1>2. [id |-> work.op.ticket, live |-> TRUE] \in Recs
  BY DEF Inv, Types, Works, Ops, Recs
<1>3. card'.rec = Recorded(card.rec, Named + 1, [id |-> work.op.ticket, live |-> TRUE])
  BY <1>1 DEF Written, Cards
<1>4. /\ card'.rec \in Seq(Recs) /\ Len(card'.rec) = Named + 1
      /\ \A n \in 1..Named : card'.rec[n] = card.rec[n]
      /\ card'.rec[Named + 1] = [id |-> work.op.ticket, live |-> TRUE]
  BY <1>1, <1>2, <1>3 DEF Recorded
<1>5. card'.rec[Named + 1].live
  BY <1>4
<1>6. Live(card', Named) = Live(card, Named)
  <2>1. PICK c, d, n : c = card /\ d = card' /\ n = Named
    OBVIOUS
  <2>2. /\ c.rec \in Seq(Recs) /\ d.rec \in Seq(Recs) /\ n \in Nat /\ n <= Len(c.rec)
        /\ n <= Len(d.rec) /\ \A i \in 1..n : d.rec[i] = c.rec[i]
    <3>1. /\ card.rec \in Seq(Recs) /\ Named \in Nat /\ Named <= Len(card.rec)
      BY <1>1
    <3>2. /\ card'.rec \in Seq(Recs) /\ Len(card'.rec) = Named + 1
          /\ \A j \in 1..Named : card'.rec[j] = card.rec[j]
      BY <1>4
    <3>3. Named <= Len(card'.rec)
      BY <3>1, <3>2
    <3> QED
      BY <2>1, <3>1, <3>2, <3>3
  <2> QED
    BY <2>1, <2>2, LiveSame
<1>7. Live(card', Named + 1) = Live(card', Named) + 1
  BY <1>1, <1>4, <1>5, LiveOneMore, SMTT(30)
<1> QED
  BY <1>1, <1>6, <1>7 DEF Right

\* What a flag takes off it.
LEMMA FlagCounts ==
  ASSUME Inv, work.at = "flag", card' = Written
  PROVE  /\ card'.head = card.head
         /\ Right(card.head) => /\ card.head.count > 0
                                /\ Live(card', card.head.newest) = card.head.count - 1
<1> DEFINE k == work.op.num
<1>1. /\ card \in Cards /\ card.rec \in Seq(Recs) /\ card.head \in Heads
      /\ Named \in Nat /\ Named <= Len(card.rec)
      /\ card.head.is = "good" /\ Named = card.head.newest
      /\ k \in 1..Named /\ card.rec[k].live
  BY DEF Inv, Types, CardInv, Cards, WorkInv, Named, NamedBy
<1>2. card' = [card EXCEPT !.rec[k].live = FALSE]
  BY DEF Written
<1> HIDE DEF k
<1>3. card'.head = card.head /\ card'.rec = [card.rec EXCEPT ![k].live = FALSE]
  BY <1>1, <1>2 DEF Cards
<1>4. k \in 1..Len(card.rec) /\ card.rec[k] \in Recs
  BY <1>1
<1>5. [card.rec[k] EXCEPT !.live = FALSE] \in Recs /\ ~[card.rec[k] EXCEPT !.live = FALSE].live
  BY <1>4 DEF Recs
<1>6. card'.rec = [card.rec EXCEPT ![k] = [card.rec[k] EXCEPT !.live = FALSE]]
  BY <1>3
<1>7. /\ card'.rec \in Seq(Recs) /\ Len(card'.rec) = Len(card.rec) /\ ~card'.rec[k].live
      /\ \A i \in 1..Named : i # k => card'.rec[i] = card.rec[i]
  BY <1>1, <1>4, <1>5, <1>6
<1>8. Live(card, Named) = Live(card', Named) + 1 /\ Live(card', Named) \in Nat
  <2>1. Live(card', Named) \in Nat
    BY <1>1, <1>7, LiveIs
  <2>2. Live(card, Named) = Live(card', Named) + 1
    BY <1>1, <1>7, LiveOneLess
  <2> QED
    BY <2>1, <2>2
<1>9. Right(card.head) => card.head.count = Live(card, Named)
  BY <1>1 DEF Right
<1>10. card.head.count \in Nat
  BY <1>1 DEF Heads
<1> QED
  BY <1>1, <1>3, <1>8, <1>9, <1>10

\* What the header's write leaves: no record touched, and the old header, the new one, or a
\* part of it.
LEMMA HeaderCounts ==
  ASSUME Inv, work.at \in {"head", "again"}, card' \in Interrupted
  PROVE  /\ card'.rec = card.rec
         /\ card'.head \in {card.head, work.nh, Torn}
         /\ \A h : Right(h) <=> h.count = Live(card', h.newest)
<1>1. card \in Cards
  BY DEF Inv, Types
<1>2. card'.rec = card.rec /\ card'.head \in {card.head, work.nh, Torn}
  BY <1>1 DEF Interrupted, Written, Cards
<1> QED
  BY <1>2 DEF Right, Live

\* While an op is in hand the loop is not booting.
LEMMA HandIsUp == ASSUME Inv, ReadInv, work.at # "idle" PROVE loop # "boot"
<1>1. Len(queue) # 0 /\ Len(<<>>) = 0
  BY DEF Inv, Types
<1> QED
  BY <1>1 DEF ReadInv

\* The header's write goes through, and the op is answered with what it says.
LEMMA EndsHeaded ==
  ASSUME Inv, QueueInv, FigInv, work.at \in {"head", "again"},
         NEW op \in Ops, SameOp(op, work.op), Finish(op), figures' = figures, loop' = loop,
         card' \in Interrupted, card'.head = work.nh, op.head, Tells(op, work.nh), op.res = "ok"
  PROVE  FigInv'
<1>1. work.nh.is = "good" /\ work.at # "idle"
  BY DEF Inv, WorkInv
<1>2. ~missed' => ~missed
  BY DEF Finish
<1>3. op.kind = work.op.kind
  BY DEF SameOp
<1>4. ASSUME ~missed' PROVE Right(card.head)' \/ Due'
  <2>1. Right(work.nh) \/ (op.kind # "seed" /\ Due)
    BY <1>2, <1>3, <1>4 DEF FigInv, NextHeadInv
  <2>2. Right(work.nh) => Right(card.head)'
    BY HeaderCounts DEF Right
  <2> QED
    BY <1>1, <2>1, <2>2, EndDues
<1>5. Fresh'
  BY <1>1, EndFresh
<1> QED
  BY <1>1, <1>4, <1>5, EndsFig

\* The header's write fails for the second time: the answer says so, or the header was being
\* rebuilt and what is on the card is the rebuilt one, or one that will be looked at.
LEMMA EndsUnheaded ==
  ASSUME Inv, QueueInv, FigInv, work.at = "again",
         NEW op \in Ops, SameOp(op, work.op), Finish(op), figures' = figures, loop' = loop,
         card' \in Interrupted,
         \/ op.stale
         \/ op.res = "io" /\ (work.seeding \/ op.kind = "seed")
  PROVE  FigInv'
<1>1. CASE op.stale
  <2>1. Stale'
    BY <1>1, EndDues
  <2> QED
    BY <2>1, EndsFig DEF Due, Owed
<1>2. CASE op.res = "io" /\ op.kind = "seed"
  <2>1. missed'
    BY <1>2 DEF Finish
  <2> QED
    BY <2>1, EndsFig
<1>3. CASE op.kind # "seed" /\ work.seeding
  <2>1. ~missed' => ~missed
    BY DEF Finish
  <2>2. ASSUME ~missed' PROVE Owed'
    <3>1. Owed
      BY <1>3, <2>1, <2>2 DEF FigInv, NextHeadInv
    <3> QED
      BY <1>3, <3>1, EndDues
  <2>3. ASSUME ~missed', card'.head.is = "good" PROVE Right(card.head)' \/ Due'
    <3>1. card'.head = card.head \/ card'.head = work.nh
      BY <2>3, HeaderCounts DEF Torn
    <3>2. Right(card.head) => (card'.head = card.head => Right(card.head)')
      BY HeaderCounts DEF Right
    <3>3. Right(work.nh) => (card'.head = work.nh => Right(card.head)')
      BY HeaderCounts DEF Right
    <3>4. Right(work.nh)
      BY <1>3, <2>1, <2>3 DEF FigInv, NextHeadInv
    <3>5. card.head.is = "good" => Right(card.head) \/ Due
      BY <1>3, <2>1, <2>3 DEF FigInv, HeadInv, Counting
    <3> QED
      BY <1>3, <2>3, <3>1, <3>2, <3>3, <3>4, <3>5, EndDues
  <2> QED
    BY <2>2, <2>3, EndsFig
<1> QED
  BY <1>1, <1>2, <1>3

\* A write fails.
LEMMA WriteFailsFig == ASSUME Inv, QueueInv, AnswerInv, FigInv, WriteFails PROVE FigInv'
<1>1. /\ Writing /\ card' \in Interrupted /\ figures' = figures /\ loop' = loop
      /\ work.at # "idle" /\ work \in Works /\ work.op \in Ops /\ work.op.res = "io"
  BY DEF WriteFails, Writing, RunnerStep, Inv, Types, Works, AnswerInv, HandInv
<1>2. CASE work.at = "head" /\ GoOn([work EXCEPT !.at = "again"])
  <2>1. work'.at = "again" /\ work'.op = work.op /\ work'.seeding = work.seeding
        /\ work'.nh = work.nh /\ queue' = queue /\ done' = done /\ missed' = missed
    BY <1>1, <1>2 DEF GoOn, Works, opVars
  <2>2. /\ card'.head \in {card.head, work.nh, Torn}
        /\ \A h : Right(h) <=> h.count = Live(card', h.newest)
    BY <1>1, <1>2, HeaderCounts
  <2>3. ASSUME ~missed PROVE HeadInv'
    <3>1. ASSUME card'.head.is = "good", work.seeding PROVE Right(card.head)' \/ Due'
      <4>1. Right(work.nh) /\ (card.head.is = "good" => Right(card.head) \/ Due)
        BY <1>2, <2>3, <3>1 DEF FigInv, NextHeadInv, HeadInv, Counting
      <4>2. card'.head = card.head \/ card'.head = work.nh
        BY <2>2, <3>1 DEF Torn
      <4>3. Right(work.nh) => (card'.head = work.nh => Right(card.head)')
        BY <2>2 DEF Right
      <4>4. Right(card.head) => (card'.head = card.head => Right(card.head)')
        BY <2>2 DEF Right
      <4> QED
        BY <2>1, <3>1, <4>1, <4>2, <4>3, <4>4, SameDues
    <3>2. work.seeding => Owed'
      BY <1>2, <2>1, <2>3, SameDues DEF FigInv, NextHeadInv
    <3> QED
      BY <2>1, <3>1, <3>2 DEF HeadInv, Counting
  <2>4. ASSUME ~missed PROVE NextHeadInv'
    <3>1. Right(work.nh)' <=> Right(work.nh)
      BY <2>1, <2>2 DEF Right
    <3> QED
      BY <1>2, <2>1, <2>4, <3>1, SameDues DEF FigInv, NextHeadInv
  <2>5. work'.seeding => ~work'.op.head
    BY <1>2, <2>1 DEF FigInv, ReadInv
  <2> QED
    BY <1>1, <2>1, <2>3, <2>4, <2>5, GoesOnFig
<1>3. CASE work.at = "again" /\ Finish(Unheaded)
  <2>1. CASE work.seeding \/ work.op.kind = "seed"
    <3>1. PICK q : q = work.op
      OBVIOUS
    <3>2. q \in Ops /\ SameOp(q, work.op) /\ Finish(q) /\ q.res = "io" /\ q.kind = work.op.kind
      BY <1>1, <1>3, <2>1, <3>1 DEF Unheaded, SameOp
    <3> QED
      BY <1>1, <1>3, <2>1, <3>2, EndsUnheaded
  <2>2. CASE ~work.seeding /\ work.op.kind # "seed"
    <3>1. Answered \in Ops /\ SameOp(Answered, work.op)
      BY AnsweredIs, <1>1, FiguresType DEF Answered, Figures, SameOp, Ops, Inv, Types, Works
    <3>2. PICK q : /\ q = [work.op EXCEPT !.stale = TRUE] \/ q = [Answered EXCEPT !.stale = TRUE]
                   /\ Finish(q)
      BY <1>3, <2>2 DEF Unheaded
    <3>3. q \in Ops /\ SameOp(q, work.op) /\ q.stale
      BY <1>1, <3>1, <3>2, ZenonT(60) DEF SameOp, Ops
    <3> QED
      BY <1>1, <1>3, <3>2, <3>3, EndsUnheaded
  <2> QED
    BY <2>1, <2>2
<1>4. CASE work.at = "flag" /\ Finish([work.op EXCEPT !.stale = TRUE])
  <2>1. PICK q : q = [work.op EXCEPT !.stale = TRUE]
    OBVIOUS
  <2>2. q \in Ops /\ SameOp(q, work.op) /\ q.stale /\ Finish(q)
    BY <1>1, <1>4, <2>1 DEF SameOp, Ops
  <2>3. Stale'
    BY <1>1, <2>2, EndDues
  <2> QED
    BY <1>1, <2>2, <2>3, EndsFig DEF Due, Owed
<1>5. CASE work.at \in {"body", "record", "ptr"} /\ Finish(work.op)
  <2>1. PICK q : q = work.op
    OBVIOUS
  <2>2. /\ q \in Ops /\ SameOp(q, work.op) /\ Finish(q) /\ q.res = "io"
        /\ q.head = work.op.head /\ q.newest = work.op.newest /\ q.total = work.op.total
    BY <1>1, <1>5, <2>1 DEF SameOp
  <2>3. card'.head = card.head /\ (card.head.is = "good" /\ Right(card.head) => Right(card.head)')
    BY <1>1, <1>5, DataCounts
  <2> QED
    BY <1>1, <1>5, <2>2, <2>3, EndsReading
<1>6. CASE work.at = "make" /\ Finish(work.op)
  <2>1. PICK q : q = work.op
    OBVIOUS
  <2>2. q \in Ops /\ SameOp(q, work.op) /\ Finish(q) /\ q.res = "io"
    BY <1>1, <1>6, <2>1 DEF SameOp
  <2>3. card.head.is = "none" /\ card'.head.is # "good"
    <3>1. card.head.is = "none"
      BY <1>6 DEF Inv, WorkInv
    <3> QED
      BY <1>1, <1>6, <3>1, DataCounts
  <2>4. ASSUME ~missed' PROVE Owed'
    <3>1. ~missed /\ q.kind # "seed"
      BY <2>2, <2>4 DEF Finish
    <3>2. Owed
      BY <1>6, <2>3, <3>1, HandIsUp DEF FigInv, HeadInv
    <3> QED
      BY <1>1, <2>2, <3>1, <3>2, EndDues
  <2> QED
    BY <1>1, <2>2, <2>3, <2>4, EndsFig
<1> QED
  BY <1>1, <1>2, <1>3, <1>4, <1>5, <1>6 DEF WriteFails, Writing

\* The answer of an op whose header is written has that header's figures.
LEMMA AnsweredTells ==
  ASSUME Inv, NEW q,
         q = Answered \/ q = [Answered EXCEPT !.num = work.nh.newest]
  PROVE  q \in Ops /\ SameOp(q, work.op) /\ q.head /\ Tells(q, work.nh) /\ q.res = "ok"
<1>1. work.op \in Ops /\ work.nh \in Heads /\ work.nh.newest \in Nat
  BY DEF Inv, Types, Works, Heads
<1> DEFINE f == Figures(work.op, work.nh)
<1>2. f \in Ops /\ SameOp(f, work.op) /\ f.head /\ Tells(f, work.nh)
  BY <1>1, FiguresType DEF Figures, SameOp, Ops, Tells
<1> HIDE DEF f
<1>3. Answered = [f EXCEPT !.res = "ok"]
  BY DEF Answered, f
<1>4. PICK a : a = Answered
  OBVIOUS
<1>5. a \in Ops /\ SameOp(a, work.op) /\ a.head /\ Tells(a, work.nh) /\ a.res = "ok"
  BY <1>2, <1>3, <1>4 DEF SameOp, Ops, Tells
<1>6. CASE q = a
  BY <1>5, <1>6
<1>7. CASE q = [a EXCEPT !.num = work.nh.newest]
  BY <1>1, <1>5, <1>7 DEF SameOp, Ops, Tells
<1> QED
  BY <1>4, <1>6, <1>7

\* A write goes through.
LEMMA WriteFig == ASSUME Inv, QueueInv, AnswerInv, FigInv, Write PROVE FigInv'
<1> DEFINE at == work.at
           h  == work.h
           op == work.op
<1>1. /\ Writing /\ card' = Written /\ card' \in Interrupted /\ figures' = figures
      /\ loop' = loop /\ at # "idle" /\ work \in Works /\ op \in Ops /\ card \in Cards
      /\ card.head \in Heads
  BY DEF Write, Writing, Interrupted, RunnerStep, Inv, Types, Works, Cards
<1>2. loop # "boot"
  BY <1>1, HandIsUp DEF FigInv
<1>3. CASE at = "make" /\ GoOn([work EXCEPT !.at = "head", !.nh = Good(0, 0)])
  <2>1. /\ work'.at = "head" /\ work'.op = work.op /\ work'.seeding = work.seeding
        /\ work'.nh = Good(0, 0) /\ queue' = queue /\ done' = done /\ missed' = missed
    BY <1>1, <1>3 DEF GoOn, Works, opVars
  <2>2. card.head.is = "none" /\ card'.head = Torn /\ card'.rec = <<>>
    BY <1>1, <1>3 DEF Written, Cards, Inv, WorkInv
  <2>3. Right(work.nh)'
    <3>1. \A i : i \notin DOMAIN card'.rec
      BY <2>2
    <3>2. {i \in DOMAIN card'.rec : i <= 0 /\ card'.rec[i].live} = {}
      BY <3>1
    <3>3. Live(card', 0) = Cardinality({})
      BY <3>2 DEF Live
    <3>4. Live(card', 0) = 0
      BY <3>3, FS_EmptySet
    <3> QED
      BY <2>1, <3>4 DEF Right, Good
  <2>4. ASSUME ~missed PROVE Owed /\ Owed'
    <3>1. Owed
      BY <1>2, <1>3, <2>2, <2>4 DEF FigInv, HeadInv
    <3> QED
      BY <2>1, <3>1, SameDues
  <2>5. ~missed => HeadInv' /\ NextHeadInv'
    BY <2>1, <2>2, <2>3, <2>4 DEF HeadInv, NextHeadInv, Torn
  <2>6. ~work'.op.head
    BY <1>3, <2>1 DEF FigInv, ReadInv
  <2> QED
    BY <1>1, <2>1, <2>4, <2>5, <2>6, GoesOnFig
<1>4. CASE at = "body" /\ GoOn([work EXCEPT !.at = "record"])
  <2>1. /\ work'.at = "record" /\ work'.op = work.op /\ work'.seeding = work.seeding
        /\ queue' = queue /\ done' = done /\ missed' = missed
    BY <1>1, <1>4 DEF GoOn, Works, opVars
  <2>2. card'.head = card.head /\ card'.rec = card.rec
    BY <1>1, <1>4 DEF Written, Cards
  <2>3. Right(card.head) => Right(card.head)'
    BY <2>2 DEF Right, Live
  <2>4. ~missed => HeadInv' /\ NextHeadInv'
    BY <1>1, <1>4, <2>1, <2>2, <2>3, HeadStays DEF FigInv, NextHeadInv, Counting
  <2>5. work.op.head /\ Tells(work.op, card.head) /\ ~work.seeding
    BY <1>4 DEF FigInv, ReadInv
  <2> QED
    BY <1>1, <1>4, <2>1, <2>2, <2>4, <2>5, GoesOnFig
<1>5. CASE at = "record" /\ GoOn([work EXCEPT !.at = "head", !.nh = Good(h.count + 1, h.newest + 1)])
  <2> DEFINE nh == Good(h.count + 1, h.newest + 1)
  <2>1. nh.count = h.count + 1 /\ nh.newest = h.newest + 1
    BY DEF Good
  <2> HIDE DEF nh
  <2>2. /\ work'.at = "head" /\ work'.op = work.op /\ work'.seeding = work.seeding
        /\ work'.nh = nh /\ queue' = queue /\ done' = done /\ missed' = missed
    BY <1>1, <1>5 DEF GoOn, Works, opVars, nh
  <2>3. h = card.head /\ card.head.is = "good" /\ op.kind = "post" /\ ~work.seeding /\ op.head
    BY <1>5 DEF Inv, WorkInv, AnswerInv, HandInv, FigInv, ReadInv
  <2>4. card'.head = card.head /\ (Right(card.head) => Right(card.head)')
    BY <1>1, <1>5, <2>3, DataCounts
  <2>5. Right(card.head) => Right(work.nh)'
    BY <1>1, <1>5, <2>1, <2>2, <2>3, RecordCounts DEF Right
  <2>6. ~missed => Right(card.head) \/ Due
    BY <1>5, <2>3 DEF FigInv, HeadInv, Counting
  <2>7. ~missed => HeadInv'
    BY <1>1, <1>5, <2>2, <2>3, <2>4, HeadStays DEF FigInv, Counting
  <2>8. ~missed => NextHeadInv'
    BY <2>2, <2>3, <2>5, <2>6, SameDues DEF NextHeadInv
  <2> QED
    BY <1>1, <1>5, <2>2, <2>3, <2>4, <2>7, <2>8, GoesOnFig
<1>6. CASE /\ at = "flag"
           /\ GoOn([work EXCEPT !.at = "head",
                      !.nh = Good(IF h.count > 0 THEN h.count - 1 ELSE 0, h.newest)])
  <2> DEFINE nh == Good(IF h.count > 0 THEN h.count - 1 ELSE 0, h.newest)
  <2>1. nh.count = (IF h.count > 0 THEN h.count - 1 ELSE 0) /\ nh.newest = h.newest
    BY DEF Good
  <2> HIDE DEF nh
  <2>2. /\ work'.at = "head" /\ work'.op = work.op /\ work'.seeding = work.seeding
        /\ work'.nh = nh /\ queue' = queue /\ done' = done /\ missed' = missed
    BY <1>1, <1>6 DEF GoOn, Works, opVars, nh
  <2>3. h = card.head /\ card.head.is = "good" /\ op.kind = "remove" /\ ~work.seeding
    BY <1>6 DEF Inv, WorkInv, AnswerInv, HandInv, FigInv, ReadInv
  <2>4. card'.head = card.head
        /\ (Right(card.head) => /\ card.head.count > 0
                                /\ Live(card', card.head.newest) = card.head.count - 1)
    BY <1>1, <1>6, FlagCounts
  <2>5. Right(card.head) => Right(work.nh)'
    BY <2>1, <2>2, <2>3, <2>4 DEF Right
  <2>6. ~missed => Right(card.head) \/ Due
    BY <1>6, <2>3 DEF FigInv, HeadInv, Counting
  <2>7. ~missed => HeadInv'
    BY <2>2, <2>3, <2>4 DEF HeadInv, Counting
  <2>8. ~missed => NextHeadInv'
    BY <2>2, <2>3, <2>5, <2>6, SameDues DEF NextHeadInv
  <2> QED
    BY <1>1, <1>6, <2>2, <2>3, <2>4, <2>7, <2>8, GoesOnFig
<1>7. ASSUME at \in {"head", "again"}
      PROVE  /\ card'.head = work.nh /\ card'.rec = card.rec /\ work.nh.is = "good"
             /\ (Right(work.nh) => Right(card.head)')
  <2>1. card'.head = work.nh /\ card'.rec = card.rec
    BY <1>1, <1>7 DEF Written, Cards
  <2>2. work.nh.is = "good"
    BY <1>7 DEF Inv, WorkInv
  <2> QED
    BY <2>1, <2>2 DEF Right, Live
<1>8. CASE at \in {"head", "again"} /\ work.seeding
           /\ GoOn([work EXCEPT !.at = "reopen", !.seeding = FALSE])
  <2>1. /\ work'.at = "reopen" /\ work'.op = work.op /\ work'.seeding = FALSE
        /\ queue' = queue /\ done' = done /\ missed' = missed
    BY <1>1, <1>8 DEF GoOn, Works, opVars
  <2>2. ~missed => Owed /\ Right(work.nh)
    BY <1>8 DEF FigInv, NextHeadInv
  <2>3. ~missed => HeadInv' /\ NextHeadInv'
    BY <1>7, <1>8, <2>1, <2>2 DEF HeadInv, NextHeadInv
  <2>4. ~work'.op.head
    BY <1>8, <2>1 DEF FigInv, ReadInv
  <2> QED
    BY <1>1, <2>1, <2>2, <2>3, <2>4, GoesOnFig
<1>9. CASE at \in {"head", "again"} /\ ~work.seeding
  <2>1. PICK q : /\ q = Answered \/ q = [Answered EXCEPT !.num = work.nh.newest]
                 /\ Finish(q)
    BY <1>9 DEF Write, Headed
  <2>2. q \in Ops /\ SameOp(q, work.op) /\ q.head /\ Tells(q, work.nh) /\ q.res = "ok"
    BY <2>1, AnsweredTells
  <2> QED
    BY <1>1, <1>7, <1>9, <2>1, <2>2, EndsHeaded
<1>10. CASE at = "ptr" /\ Finish([op EXCEPT !.res = "ok"])
  <2>1. PICK q : q = [op EXCEPT !.res = "ok"]
    OBVIOUS
  <2>2. op.kind = "ptr"
    BY <1>10 DEF AnswerInv, HandInv
  <2>3. /\ q \in Ops /\ SameOp(q, work.op) /\ Finish(q) /\ q.kind # "seed"
        /\ q.head = work.op.head /\ q.newest = work.op.newest /\ q.total = work.op.total
    BY <1>1, <1>10, <2>1, <2>2 DEF SameOp, Ops
  <2>4. card'.head = card.head /\ (card.head.is = "good" /\ Right(card.head) => Right(card.head)')
    BY <1>1, <1>10, DataCounts
  <2> QED
    BY <1>1, <1>10, <2>3, <2>4, EndsReading
<1> QED
  BY <1>1, <1>3, <1>4, <1>5, <1>6, <1>8, <1>9, <1>10 DEF Write, Writing, Headed

\* The power goes: the header is right, or it is known that it is not.
LEMMA PowerCutFig == ASSUME PowerCut PROVE FigInv'
<1>1. /\ Len(queue') = 0 /\ loop' = "boot" /\ work'.at = "idle" /\ queue' = <<>>
      /\ missed' \/ card'.head.is # "good" \/ card'.head.count = Live(card', card'.head.newest)
  BY DEF PowerCut, Idle
<1>2. ReadInv'
  BY <1>1 DEF ReadInv
<1>3. ASSUME ~missed' PROVE HeadInv' /\ NextHeadInv' /\ ShownInv'
  BY <1>1, <1>3 DEF HeadInv, NextHeadInv, ShownInv, Right
<1> QED
  BY <1>2, <1>3 DEF FigInv

\* The loop adds an op at the end, or none, and leaves the answers and the figures alone.
LEMMA QueuedFig ==
  ASSUME Inv, FigInv, UNCHANGED cardVars, done' = done, figures' = figures, missed' = missed,
         NEW op \in Ops, ~op.head, queue' = queue \/ queue' = Append(queue, op),
         loop # "boot", loop' # "boot"
  PROVE  FigInv'
<1>1. queue \in Seq(Ops) /\ Len(queue) \in Nat /\ done \in Nat /\ done <= Len(queue)
      /\ card' = card /\ work' = work
  BY DEF Inv, Types, cardVars
<1>2. /\ Len(queue) <= Len(queue') /\ Len(queue') \in Nat
      /\ \A i \in 1..Len(queue) : queue'[i] = queue[i]
      /\ \A i \in 1..Len(queue') : i > Len(queue) => queue'[i] = op
  BY <1>1
<1>3. /\ Waiting \subseteq Waiting' /\ \A i \in Waiting : queue'[i] = queue[i]
      /\ 1..done \subseteq 1..Len(queue)
  BY <1>1, <1>2 DEF Waiting
<1>4. (Stale' <=> Stale) /\ Answers' = Answers /\ \A i \in Answers : queue'[i] = queue[i]
  BY <1>1, <1>2, <1>3 DEF Stale, Answers
<1>5. (Owed => Owed') /\ (Due => Due')
  BY <1>3, <1>4 DEF Owed, Due
<1>6. ReadInv'
  <2>1. \A i \in 1..Len(queue') : i > done' => ~queue'[i].head
    BY <1>1, <1>2 DEF FigInv, ReadInv
  <2> QED
    BY <1>1, <2>1 DEF FigInv, ReadInv
<1>7. ASSUME ~missed PROVE HeadInv' /\ NextHeadInv' /\ ShownInv'
  <2>1. Fresh => Fresh'
    BY <1>1, <1>4 DEF Fresh, Tells
  <2>2. \A h : Right(h)' <=> Right(h)
    BY <1>1 DEF Right
  <2> QED
    BY <1>1, <1>5, <1>7, <2>1, <2>2 DEF FigInv, HeadInv, NextHeadInv, ShownInv, Counting, Right
<1> QED
  BY <1>6, <1>7 DEF FigInv

\* The loop takes an answer: the figures are the answer's, and a header that may be wrong is
\* to be recounted.
LEMMA DeliverFig == ASSUME Inv, AnswerInv, FigInv, Deliver PROVE FigInv'
<1>1. PICK op : op = [NoOp EXCEPT !.kind = "seed", !.recount = TRUE]
  OBVIOUS
<1>2. /\ op \in Ops /\ op.kind = "seed" /\ done' = done - 1 /\ done >= 1
      /\ Len(queue') = IF queue[1].stale THEN Len(queue) ELSE Len(queue) - 1
      /\ \A i \in 1..Len(queue') : queue'[i] = IF i + 1 <= Len(queue) THEN queue[i + 1] ELSE op
      /\ Head(queue) = queue[1]
  BY <1>1, DeliverMoves
<1>3. op.recount /\ ~op.head
  BY <1>1 DEF NoOp
<1>4. /\ queue \in Seq(Ops) /\ Len(queue) \in Nat /\ done \in Nat /\ done <= Len(queue)
      /\ Len(queue') \in Nat /\ Len(queue) - 1 <= Len(queue') /\ figures \in [newest : Nat, total : Nat]
  BY <1>2 DEF Inv, Types
<1>5. /\ card' = card /\ work' = work /\ missed' = missed /\ loop' = "tick"
      /\ figures' = IF ~queue[1].head THEN figures
                    ELSE [newest |-> IF queue[1].newest > figures.newest THEN queue[1].newest
                                     ELSE figures.newest,
                          total |-> queue[1].total]
  BY <1>2 DEF Deliver, LoopStep, cardVars
<1>6. \A i \in 1..Len(queue) : i > 1 => /\ i - 1 \in 1..Len(queue')
                                        /\ queue'[i - 1] = queue[i]
  <2> SUFFICES ASSUME NEW i \in 1..Len(queue), i > 1
               PROVE  i - 1 \in 1..Len(queue') /\ queue'[i - 1] = queue[i]
    OBVIOUS
  <2>1. PICK k \in Nat : i = k + 1
    BY <1>4
  <2>2. k \in 1..Len(queue') /\ k + 1 <= Len(queue) /\ i - 1 = k
    BY <1>4, <2>1
  <2>3. queue'[k] = queue[k + 1]
    BY <1>2, <2>2
  <2> QED
    BY <2>1, <2>2, <2>3
<1>7. ASSUME queue[1].stale PROVE Due' /\ Owed'
  <2>1. Len(queue') = Len(queue) /\ Len(queue) \in 1..Len(queue')
    BY <1>2, <1>4, <1>7
  <2>2. queue'[Len(queue)] = op
    BY <1>2, <1>4, <2>1
  <2>3. Len(queue) \in Waiting'
    BY <1>2, <1>4, <2>1, <2>2 DEF Waiting
  <2> QED
    BY <1>3, <2>2, <2>3 DEF Due, Owed
<1>8. ASSUME ~queue[1].stale, Stale PROVE Stale'
  <2>1. PICK i \in 1..done : queue[i].stale
    BY <1>8 DEF Stale
  <2>2. i > 1 /\ i \in 1..Len(queue)
    BY <1>4, <1>8, <2>1
  <2>3. i - 1 \in 1..done' /\ queue'[i - 1] = queue[i]
    BY <1>2, <1>4, <1>6, <2>1, <2>2
  <2> QED
    BY <2>1, <2>3 DEF Stale
<1>9. \A i \in Waiting : i - 1 \in Waiting' /\ queue'[i - 1] = queue[i]
  <2> SUFFICES ASSUME NEW i \in Waiting PROVE i - 1 \in Waiting' /\ queue'[i - 1] = queue[i]
    OBVIOUS
  <2>1. i \in 1..Len(queue) /\ i > done /\ queue[i].kind = "seed"
    BY DEF Waiting
  <2>2. i > 1
    BY <1>2, <1>4, <2>1
  <2>3. i - 1 \in 1..Len(queue') /\ queue'[i - 1] = queue[i]
    BY <1>6, <2>1, <2>2
  <2>4. i - 1 > done'
    BY <1>2, <1>4, <2>1
  <2> QED
    BY <2>1, <2>3, <2>4 DEF Waiting
<1>10. (Owed => Owed') /\ (Due => Due')
  BY <1>7, <1>8, <1>9 DEF Owed, Due
<1>11. ReadInv'
  <2>1. ASSUME NEW i \in 1..Len(queue'), i > done' PROVE ~queue'[i].head
    <3>1. queue'[i] = IF i + 1 <= Len(queue) THEN queue[i + 1] ELSE op
      BY <1>2
    <3>2. CASE i + 1 <= Len(queue)
      <4>1. i + 1 \in 1..Len(queue) /\ i + 1 > done
        BY <1>2, <1>4, <2>1, <3>2
      <4> QED
        BY <3>1, <3>2, <4>1 DEF FigInv, ReadInv
    <3>3. CASE ~(i + 1 <= Len(queue))
      BY <1>3, <3>1, <3>3
    <3> QED
      BY <3>2, <3>3
  <2> QED
    BY <1>5, <2>1 DEF FigInv, ReadInv
<1>12. ASSUME ~Owed', Fresh, work.at # "again", card.head.is = "good" PROVE Fresh'
  <2>1. ~queue[1].stale
    BY <1>7, <1>12
  <2>2. Answers \subseteq 1..done /\ Answers' \subseteq 1..done'
    BY DEF Answers
  <2>3. ASSUME NEW i \in Answers' PROVE i \in Nat /\ i >= 1 /\ i + 1 \in Answers /\ queue'[i] = queue[i + 1]
    <3>1. i \in 1..(done - 1) /\ queue'[i].head
      BY <1>2, <2>3 DEF Answers
    <3>2. i \in 1..Len(queue') /\ i + 1 <= Len(queue) /\ i + 1 \in 1..done
      BY <1>4, <3>1
    <3>3. queue'[i] = queue[i + 1]
      BY <1>2, <3>2
    <3> QED
      BY <3>1, <3>2, <3>3 DEF Answers
  <2>4. ASSUME NEW k \in Answers, k # 1 PROVE k \in Nat /\ k - 1 \in Answers'
    <3>1. k \in 1..done /\ queue[k].head /\ k > 1 /\ k \in 1..Len(queue)
      BY <1>4, <2>4 DEF Answers
    <3>2. queue'[k - 1] = queue[k] /\ k - 1 \in 1..done'
      BY <1>2, <1>4, <1>6, <3>1
    <3> QED
      BY <3>1, <3>2 DEF Answers
  <2>5. ASSUME NEW i \in Answers', \A k \in Answers' : i >= k PROVE Tells(queue'[i], card.head)
    <3>1. i \in Nat /\ i >= 1 /\ i + 1 \in Answers /\ queue'[i] = queue[i + 1]
      BY <2>3
    <3>2. ASSUME NEW k \in Answers PROVE i + 1 >= k
      <4>1. CASE k = 1
        BY <3>1, <4>1
      <4>2. CASE k # 1
        <5>1. k \in Nat /\ k - 1 \in Answers'
          BY <2>4, <4>2
        <5>2. i >= k - 1
          BY <2>5, <5>1
        <5> QED
          BY <3>1, <5>1, <5>2
      <4> QED
        BY <4>1, <4>2
    <3>3. Tells(queue[i + 1], card.head)
      BY <1>12, <3>1, <3>2 DEF Fresh
    <3> QED
      BY <3>1, <3>3
  <2>6. ASSUME Answers' = {}
        PROVE  figures'.newest = card.head.newest /\ figures'.total = card.head.count
    <3>1. CASE ~queue[1].head
      <4>1. 1 \notin Answers
        BY <3>1 DEF Answers
      <4>2. Answers = {}
        BY <2>4, <2>6, <4>1
      <4> QED
        BY <1>5, <1>12, <3>1, <4>2 DEF Fresh
    <3>2. CASE queue[1].head
      <4>1. 1 \in Answers
        BY <1>2, <1>4, <3>2 DEF Answers
      <4>2. \A k \in Answers : 1 >= k
        BY <2>4, <2>6
      <4>3. Tells(queue[1], card.head)
        BY <1>12, <4>1, <4>2 DEF Fresh
      <4>4. figures.newest <= card.head.newest
        BY <1>12 DEF AnswerInv, Named, NamedBy
      <4>5. card.head.newest \in Nat /\ figures.newest \in Nat
        BY DEF Inv, Types, Cards, Heads
      <4> QED
        BY <1>5, <3>2, <4>3, <4>4, <4>5 DEF Tells
    <3> QED
      BY <3>1, <3>2
  <2> QED
    BY <1>5, <2>5, <2>6 DEF Fresh
<1>13. loop # "boot"
  BY DEF Deliver
<1>14. ASSUME ~missed PROVE HeadInv' /\ NextHeadInv' /\ ShownInv'
  <2>1. HeadInv'
    BY <1>5, <1>10, <1>13, <1>14 DEF FigInv, HeadInv, Counting, Right
  <2>2. NextHeadInv'
    BY <1>5, <1>10, <1>14 DEF FigInv, NextHeadInv, Right
  <2>3. ShownInv'
    <3> SUFFICES ASSUME ~Owed', work.at # "again" PROVE Fresh'
      BY <1>5 DEF ShownInv
    <3>1. Fresh /\ card.head.is = "good"
      BY <1>10, <1>13, <1>14 DEF FigInv, ShownInv, HeadInv
    <3> QED
      BY <1>12, <3>1
  <2> QED
    BY <2>1, <2>2, <2>3
<1> QED
  BY <1>5, <1>11, <1>14 DEF FigInv

\* The forums start: the figures are the header's, or a seed is queued to look at it.
LEMMA StartFig ==
  ASSUME Inv, FigInv, UNCHANGED cardVars, done' = done, loop' = "out", NEW n, Start(n)
  PROVE  FigInv'
<1>1. /\ queue \in Seq(Ops) /\ Len(queue) \in Nat /\ done \in Nat /\ done <= Len(queue)
      /\ card' = card /\ work' = work
  BY DEF Inv, Types, cardVars
<1>2. \A h : Right(h)' <=> Right(h)
  BY <1>1 DEF Right
<1>3. CASE card.head.is = "good" /\ StartReads
  <2>1. /\ queue' = queue /\ missed' = missed
        /\ figures'.newest = card.head.newest /\ figures'.total = card.head.count
    BY <1>3 DEF StartReads
  <2>2. ReadInv'
    BY <1>1, <2>1 DEF FigInv, ReadInv
  <2>3. ASSUME ~missed PROVE HeadInv' /\ NextHeadInv'
    BY <1>1, <1>2, <1>3, <2>1, <2>3, SameDues DEF FigInv, HeadInv, NextHeadInv, Counting, Right
  <2>4. ASSUME ~missed PROVE ShownInv'
    <3> SUFFICES ASSUME ~Owed, work.at # "again" PROVE Fresh'
      BY <1>1, <2>1, SameDues DEF ShownInv
    <3>1. CASE loop = "boot"
      <4>1. Len(queue) = 0
        BY <3>1 DEF FigInv, ReadInv
      <4>2. Answers' = {}
        BY <1>1, <4>1 DEF Answers
      <4> QED
        BY <1>1, <2>1, <4>2 DEF Fresh
    <3>2. CASE loop # "boot"
      <4>1. Fresh
        BY <2>4, <3>2 DEF FigInv, ShownInv
      <4> QED
        BY <1>1, <2>1, <4>1, SameDues DEF Fresh
    <3> QED
      BY <3>1, <3>2
  <2> QED
    BY <2>1, <2>2, <2>3, <2>4 DEF FigInv
<1>4. CASE StartSeeds
  <2> DEFINE seed == [NoOp EXCEPT !.kind = "seed"]
  <2>1. seed.kind = "seed" /\ ~seed.head /\ seed \in Ops
    BY IdleType DEF NoOp, Ops
  <2>2. /\ missed => missed'
        /\ queue' = Append(queue, seed) \/ (queue' = queue /\ missed')
    BY <1>4 DEF StartSeeds
  <2> HIDE DEF seed
  <2>3. \A i \in 1..Len(queue') : queue'[i] = IF i <= Len(queue) THEN queue[i] ELSE seed
    BY <1>1, <2>1, <2>2
  <2>4. ReadInv'
    <3>1. \A i \in 1..Len(queue') : i > done' => ~queue'[i].head
      BY <1>1, <2>1, <2>3 DEF FigInv, ReadInv
    <3> QED
      BY <1>1, <3>1 DEF FigInv, ReadInv
  <2>5. ASSUME ~missed' PROVE HeadInv' /\ NextHeadInv' /\ ShownInv'
    <3>1. queue' = Append(queue, seed) /\ ~missed
      BY <2>2, <2>5
    <3>2. /\ Len(queue') = Len(queue) + 1 /\ queue'[Len(queue) + 1] = seed
          /\ \A i \in 1..Len(queue) : queue'[i] = queue[i]
      BY <1>1, <2>1, <3>1
    <3>3. Len(queue) + 1 \in Waiting'
      BY <1>1, <2>1, <3>2 DEF Waiting
    <3>4. Owed'
      BY <3>3 DEF Owed
    <3>5. Due => Due'
      <4>1. Stale => Stale'
        BY <1>1, <3>2 DEF Stale
      <4>2. \A i \in Waiting : i \in Waiting' /\ queue'[i] = queue[i]
        BY <1>1, <3>2 DEF Waiting
      <4> QED
        BY <4>1, <4>2 DEF Due
    <3> QED
      BY <1>1, <1>2, <3>1, <3>4, <3>5 DEF FigInv, HeadInv, NextHeadInv, ShownInv, Counting, Right
  <2> QED
    BY <2>4, <2>5 DEF FigInv
<1> QED
  BY <1>3, <1>4 DEF Start

\* The loop's steps.
LEMMA LoopFig == ASSUME Inv, AnswerInv, FigInv, LoopNext PROVE FigInv'
<1>1. CASE Deliver
  BY <1>1, DeliverFig
<1>2. CASE Boot
  BY <1>2, StartFig DEF Boot
<1>3. CASE Save
  BY <1>3, StartFig DEF Save
<1>4. ASSUME NEW s \in Slots, NEW op \in Ops, op.head = FALSE, Ask(s, op) PROVE FigInv'
  <2>1. PICK o : o = [op EXCEPT !.ticket = asked', !.slot = s]
    OBVIOUS
  <2>2. asked' \in Nat
    BY <1>4 DEF Ask, Inv, Types
  <2>3. o \in Ops /\ ~o.head
    BY <1>4, <2>1, <2>2 DEF Ops
  <2>4. /\ queue' = Append(queue, o) /\ done' = done /\ figures' = figures /\ missed' = missed
        /\ loop = "out" /\ loop' = "out" /\ UNCHANGED cardVars
    BY <1>4, <2>1 DEF Ask, Queued, LoopStep
  <2> QED
    BY <2>3, <2>4, QueuedFig
<1>5. ASSUME NEW s \in Slots, Post(s) PROVE FigInv'
  <2>1. [NoOp EXCEPT !.kind = "post"] \in Ops /\ [NoOp EXCEPT !.kind = "post"].head = FALSE
    BY IdleType DEF Ops, NoOp
  <2> QED
    BY <1>4, <1>5, <2>1 DEF Post
<1>6. ASSUME NEW s \in Slots, Remove(s) PROVE FigInv'
  <2>1. PICK n \in 1..figures.newest : Ask(s, [NoOp EXCEPT !.kind = "remove", !.num = n])
    BY <1>6 DEF Remove
  <2>2. n \in Nat
    BY DEF Inv, Types
  <2>3. [NoOp EXCEPT !.kind = "remove", !.num = n] \in Ops
        /\ [NoOp EXCEPT !.kind = "remove", !.num = n].head = FALSE
    BY <2>2, IdleType DEF Ops, NoOp
  <2> QED
    BY <1>4, <2>1, <2>3
<1>7. ASSUME NEW u \in Users, PtrFlush(u) PROVE FigInv'
  <2>1. PICK op : op = [NoOp EXCEPT !.kind = "ptr", !.user = u, !.mark = place'[u]]
    OBVIOUS
  <2>2. place'[u] \in Nat
    BY <1>7 DEF PtrFlush, Inv, Types
  <2>3. op \in Ops /\ ~op.head
    BY <2>1, <2>2, IdleType DEF Ops, NoOp
  <2>4. /\ queue' = queue \/ queue' = Append(queue, op)
        /\ done' = done /\ figures' = figures /\ missed' = missed
        /\ loop = "out" /\ loop' = "out" /\ UNCHANGED cardVars
    BY <1>7, <2>1 DEF PtrFlush, Queued, opVars, LoopStep
  <2> QED
    BY <2>3, <2>4, QueuedFig
<1>8. CASE Tick \/ TickEnd \/ \E s \in Slots : GiveUp(s)
  <2>1. /\ queue' = queue /\ done' = done /\ figures' = figures /\ missed' = missed
        /\ loop # "boot" /\ loop' # "boot" /\ UNCHANGED cardVars
    BY <1>8 DEF Tick, TickEnd, GiveUp, LoopStep, opVars
  <2>2. NoOp \in Ops /\ ~NoOp.head
    BY IdleType DEF NoOp
  <2> QED
    BY <2>1, <2>2, QueuedFig
<1> QED
  BY <1>1, <1>2, <1>3, <1>5, <1>6, <1>7, <1>8 DEF LoopNext

\* Every step keeps the figures right.
LEMMA FigStep == ASSUME Inv, QueueInv, AnswerInv, FigInv, [Next]_vars PROVE FigInv'
<1>1. CASE LoopNext
  BY <1>1, LoopFig
<1>2. CASE RunNext
  BY <1>2, TakeFig, ReadHeaderFig, CountFig, LookFig, WriteFig DEF RunNext
<1>3. CASE EndJob \/ UNCHANGED vars
  <2>1. /\ queue' = queue /\ done' = done /\ figures' = figures /\ missed' = missed
        /\ loop' = loop /\ card' = card /\ work' = work
    BY <1>3 DEF EndJob, vars, cardVars, opVars
  <2>2. \A h : Right(h)' <=> Right(h)
    BY <2>1 DEF Right
  <2>3. ReadInv'
    BY <2>1 DEF FigInv, ReadInv
  <2>4. ASSUME ~missed PROVE HeadInv' /\ NextHeadInv' /\ ShownInv'
    BY <2>1, <2>2, <2>4, SameDues
    DEF FigInv, HeadInv, NextHeadInv, ShownInv, Counting, Right, Fresh
  <2> QED
    BY <2>1, <2>3, <2>4 DEF FigInv
<1> QED
  BY <1>1, <1>2, <1>3, ReadFailsFig, WriteFailsFig, PowerCutFig DEF Next

\* There is no header and no message at the start.
LEMMA FigStart == Init => FigInv
<1> SUFFICES ASSUME Init PROVE FigInv
  OBVIOUS
<1>1. /\ Len(queue) = 0 /\ queue = <<>> /\ work.at = "idle" /\ loop = "boot"
      /\ card.head.is = "none"
  BY DEF Init, Idle, NoHead
<1> QED
  BY <1>1 DEF FigInv, ReadInv, HeadInv, NextHeadInv, ShownInv

\* At rest the header reads, counts its live messages and is what the callers are shown,
\* whichever write failed on the way, unless it is known that nobody will put it right
\* (opDeliver, runSeed, start).
THEOREM FiguresStayTrue == Spec => []FiguresAreTrue
<1>1. Init => FigInv
  BY FigStart
<1>2. Inv /\ QueueInv /\ AnswerInv /\ FigInv /\ [Next]_vars => FigInv'
  BY FigStep
<1>3. Inv /\ FigInv => FiguresAreTrue
  <2> SUFFICES ASSUME Inv, FigInv, queue = <<>>, loop = "out", ~missed
               PROVE  /\ card.head = Good(Live(card, Named), Named)
                      /\ figures = [newest |-> Named, total |-> card.head.count]
    BY DEF FiguresAreTrue
  <2>1. /\ Len(queue) = 0 /\ done = 0 /\ work.at = "idle"
        /\ card \in Cards /\ card.head \in Heads /\ figures \in [newest : Nat, total : Nat]
    BY DEF Inv, Types, Cards
  <2>2. Waiting = {} /\ ~Stale /\ Answers = {}
    BY <2>1 DEF Waiting, Stale, Answers
  <2>3. ~Owed /\ ~Due
    BY <2>2 DEF Owed, Due
  <2>4. card.head.is = "good" /\ Right(card.head) /\ Fresh
    BY <2>1, <2>3 DEF FigInv, HeadInv, ShownInv, Counting
  <2>5. Named = card.head.newest
    BY <2>1, <2>4 DEF Named, NamedBy
  <2>6. card.head = Good(card.head.count, card.head.newest)
    BY <2>1, <2>4 DEF Heads, Good
  <2>7. figures = [newest |-> figures.newest, total |-> figures.total]
    BY <2>1
  <2> QED
    BY <2>2, <2>4, <2>5, <2>6, <2>7 DEF Right, Fresh
<1> QED
  BY <1>1, <1>2, <1>3, AnswersHold, PTL DEF Spec
===============================================================================
