---------------------------- MODULE XmodemProofs ----------------------------
(* Proofs about Xmodem for every file, every size of block, every number of  *)
(* faults and every setting of the clocks: that an XMODEM sender never counts *)
(* an answer for a block the receiver has not stored, whatever the line       *)
(* loses, damages or delays; and, while no large block has been cut down,     *)
(* that the receiver stores the file in order and Done means all of it.       *)
EXTENDS Xmodem, FiniteSetTheorems, TLAPS

\* What the theorems are about: XMODEM, on a line that makes up no EOT.
Plain == ~job.ymodem /\ job.faults.eot = 0

\* Longer than a word is on its way to the sender and its answer back.
Trip == 2 * Latency + 1

-----------------------------------------------------------------------------
(* The inductive invariant                                                 *)

SenderSt  == {"Idle", "Running", "Done", "Failed"}
SenderPh  == {"Idle", "SendStart", "SendData", "SendAck", "SendEot", "SendEotAck"}
SenderCtl == {<<>>, <<"EOT">>, <<"CAN">>}
TxRec == [st : SenderSt, ph : SenderPh, crc : BOOLEAN, big : BOOLEAN, live : BOOLEAN,
          num : Nat, off : Nat, buf : Nat, len : Nat, retries : Nat, time : Nat,
          eotNak : BOOLEAN, selfNak : BOOLEAN, yEnd : BOOLEAN, ctl : SenderCtl]
ReceiverPh  == {"Idle", "RecvWait", "RecvBlk", "RecvPurge"}
ReceiverCtl == {<<>>, <<"ACK">>, <<"NAK">>, <<"C">>, <<"CAN">>}
RxRec == [st : SenderSt, ph : ReceiverPh, crc : BOOLEAN, started : BOOLEAN, num : Nat,
          eotSeen : BOOLEAN, yHdr : {FALSE}, yEnd : {FALSE}, yFile : {FALSE},
          got : Seq(Nat), retries : Nat, polls : Nat, time : Nat, ctl : ReceiverCtl]
Blocks == [kind : {"data"}, num : Nat, crc : BOOLEAN, from : Nat, len : Nat]
Signs  == [kind : {"EOT", "CAN"}]
OnFwd  == [m : Blocks \cup Signs, age : 0..Latency]
OnBack == [m : {"ACK", "NAK", "C", "CAN"}, age : 0..Latency]
Lefts  == [fwd : Nat, back : Nat, eot : Nat, trouble : Nat]

Types ==
  /\ job \in Jobs
  /\ tx \in TxRec /\ rx \in RxRec
  /\ fwd \in Seq(OnFwd) /\ back \in Seq(OnBack)
  /\ left \in Lefts /\ left.eot = 0

\* Where the copies of the block are on the line, and where words of S are.
DataAt(line)     == {i \in DOMAIN line : line[i].m.kind = "data"}
WordsAt(line, S) == {i \in DOMAIN line : line[i].m \in S}

\* The block still on its way, its answers, and the words that ask for it again:
\* the one the receiver is about to say at the end of a bad block included.
Asks   == {"NAK", "C"}
Asking == rx.ctl \in {<<"NAK">>, <<"C">>}
Owes   == rx.ph \in {"RecvBlk", "RecvPurge"}
One(p) == IF p THEN 1 ELSE 0
Copies == Cardinality(DataAt(fwd)) + One(tx.live)
Acks   == Cardinality(WordsAt(back, {"ACK"})) + One(rx.ctl = <<"ACK">>)
Naks   == Cardinality(WordsAt(back, Asks)) + One(Asking) + One(Owes)

\* The sender still has blocks to send; past its last it waits for EOT's answer.
Early == tx.st = "Idle" \/ tx.ph \in {"SendStart", "SendData", "SendAck"}

Phases ==
  /\ tx.st = "Running" <=> tx.ph # "Idle"
  /\ rx.st = "Running" <=> rx.ph # "Idle"
  /\ tx.ph = "SendData" => tx.live
  /\ tx.live => tx.ph = "SendData" \/ tx.st = "Failed"
  /\ rx.st = "Idle" => /\ back = <<>> /\ rx.ctl = <<>> /\ rx.num = 1
                       /\ DataAt(fwd) = {} /\ ~tx.live
                       /\ tx.ph \in {"Idle", "SendStart"}

\* The block in hand is in what has been read of the file.
InFile ==
  /\ tx.num < Mod /\ tx.buf <= job.size /\ tx.off <= tx.buf /\ tx.len \in 1..K
  /\ tx.big => job.big
  /\ DataAt(fwd) # {} \/ tx.live \/ tx.ph = "SendAck" => tx.off + tx.len <= tx.buf

\* Every block on the line is the one in hand.
CopiesOK ==
  \A i \in DataAt(fwd) :
    fwd[i].m.num = tx.num /\ fwd[i].m.from = tx.off /\ fwd[i].m.len = tx.len

\* No large block has been cut down.
Uncut == tx.big = job.big

\* The receiver waits for the block in hand, or has it and waits for the next.
Same  == rx.num = tx.num /\ tx.off <= Len(rx.got) /\ (Uncut => Len(rx.got) = tx.off)
Next1 == /\ rx.num = (tx.num + 1) % Mod
         /\ tx.off + tx.len <= Len(rx.got) /\ tx.off + tx.len <= tx.buf
         /\ Uncut => Len(rx.got) = tx.off + tx.len
PlaceOK == Same \/ Next1
Exact == Uncut => \A i \in DOMAIN rx.got : rx.got[i] = i

\* The end of the file is spoken of when the last block has been answered.
Ending == \/ \E i \in DOMAIN fwd : fwd[i].m.kind = "EOT"
          \/ tx.ctl = <<"EOT">> \/ tx.ph \in {"SendEot", "SendEotAck"} \/ rx.eotSeen
          \/ tx.st = "Done" \/ rx.st = "Done"
EndOK == Ending => tx.off = job.size /\ ~Early

\* One copy or its answer at a time, and beside it no word that asks for another,
\* but for one after the sender sent again off its own clock.
Within(c, a, n, s) == c + a <= 1 /\ c + a + n <= 1 + s
Budget == Within(Copies, Acks, Naks, One(tx.selfNak))
Unsent ==
  tx.ph \in {"Idle", "SendStart"} => Copies = 0 /\ Acks = 0 /\ ~tx.selfNak /\ Same

\* An answer means the block is stored, and nothing was asked for after it.
Answered ==
  /\ Acks # 0 => Next1 /\ ~Owes
  /\ \A i \in WordsAt(back, {"ACK"}) : ~Asking /\ \A j \in WordsAt(back, Asks) : j < i

\* The sender's clock does not run out while the block or an answer is under way.
TxClock ==
  tx.ph = "SendAck" =>
    /\ \A i \in DataAt(fwd) : tx.time + fwd[i].age >= BlockTime
    /\ \A i \in WordsAt(back, {"ACK"}) : tx.time + Latency + back[i].age >= BlockTime
    /\ rx.ctl = <<"ACK">> \/ Owes => tx.time + Latency >= BlockTime
    /\ Naks >= 2 =>
         \/ Owes
         \/ Asking /\ tx.time + Latency >= BlockTime
         \/ \E i \in WordsAt(back, Asks) : tx.time + Latency + back[i].age >= BlockTime

\* Nor the receiver's while a word of its own is, or the copy that answers it.
RxClock ==
  rx.ph = "RecvWait" =>
    /\ \A i \in DOMAIN back : rx.time + back[i].age >= Trip
    /\ rx.ctl # <<>> => rx.time >= Trip
    /\ ~tx.selfNak =>
       /\ tx.live => rx.time + Latency >= Trip
       /\ \A i \in DataAt(fwd) : rx.time + Latency + fwd[i].age >= Trip

Turns == Early => Budget /\ Unsent /\ Answered /\ TxClock /\ RxClock

XInv == /\ Types /\ Phases /\ InFile /\ CopiesOK /\ PlaceOK /\ Exact /\ EndOK
        /\ Turns

-----------------------------------------------------------------------------
(* Counting places on a line                                               *)

\* The numbers of places among the first n are finite in number.
LEMMA PlacesFinite ==
  ASSUME NEW n \in Nat, NEW P \in SUBSET (1..n)
  PROVE  IsFiniteSet(P) /\ Cardinality(P) \in Nat /\ (Cardinality(P) = 0 <=> P = {})
<1>1. IsFiniteSet(1..n)  BY FS_Interval
<1>2. IsFiniteSet(P)  BY <1>1, FS_Subset
<1> QED  BY <1>2, FS_CardinalityType, FS_EmptySet

\* When the first of the line leaves, the others move up.
LEMMA PlacesTail ==
  ASSUME NEW n \in Nat, n >= 1, NEW P \in SUBSET (1..n), NEW Q,
         \A i : i \in Q <=> i \in 1..(n - 1) /\ i + 1 \in P
  PROVE  Cardinality(Q) = Cardinality(P) - (IF 1 \in P THEN 1 ELSE 0)
<1> DEFINE R == P \ {1}
           f == [i \in Q |-> i + 1]
<1>1. IsFiniteSet(P) /\ Cardinality(P) \in Nat /\ IsFiniteSet(R)  BY PlacesFinite
<1>2. Q \in SUBSET (1..(n - 1)) /\ n - 1 \in Nat  OBVIOUS
<1>3. IsFiniteSet(Q)  BY <1>2, PlacesFinite
<1>4. f \in Bijection(Q, R)
  <2>1. \A i \in Q : i \in 1..(n - 1) /\ f[i] = i + 1 /\ f[i] \in R  OBVIOUS
  <2>2. f \in [Q -> R]  BY <2>1
  <2>3. \A i, j \in Q : f[i] = f[j] => i = j  BY <2>1
  <2>4. \A r \in R : \E i \in Q : f[i] = r
    <3> SUFFICES ASSUME NEW r \in R  PROVE  \E i \in Q : f[i] = r  OBVIOUS
    <3>1. r \in 1..n /\ r # 1  OBVIOUS
    <3>2. r - 1 \in Q  BY <3>1
    <3> QED  BY <3>1, <3>2, <2>1
  <2> HIDE DEF f, R
  <2>5. IsInjective(f)  BY <2>2, <2>3 DEF IsInjective
  <2>6. f \in Injection(Q, R)  BY <2>2, <2>5 DEF Injection
  <2>7. f \in Surjection(Q, R)  BY <2>2, <2>4 DEF Surjection
  <2> QED  BY <2>6, <2>7 DEF Bijection
<1> HIDE DEF f, R
<1>7. ExistsBijection(Q, R)  BY <1>4 DEF ExistsBijection
<1>5. Cardinality(Q) = Cardinality(R)  BY <1>3, <1>7, FS_Bijection
<1>6. Cardinality(R) = Cardinality(P) - (IF 1 \in P THEN 1 ELSE 0)  BY <1>1, FS_RemoveElement DEF R
<1> QED  BY <1>5, <1>6

\* The number of places of a kind on a line, S being any set of places of it.
LEMMA LineFacts ==
  ASSUME NEW A, NEW s \in Seq(A)
  PROVE  /\ Len(s) \in Nat /\ DOMAIN s = 1..Len(s)
         /\ \A i \in DOMAIN s : s[i] \in A
         /\ s # <<>> <=> Len(s) >= 1
         /\ s # <<>> => /\ Tail(s) \in Seq(A) /\ Len(Tail(s)) = Len(s) - 1 /\ Head(s) = s[1]
                        /\ \A i \in 1..(Len(s) - 1) : Tail(s)[i] = s[i + 1]
OBVIOUS

\* What is the case of the copies on the line when its first unit leaves.
LEMMA DataTail ==
  ASSUME NEW line \in Seq(OnFwd), line # <<>>
  PROVE  /\ Cardinality(DataAt(Tail(line))) =
              Cardinality(DataAt(line)) - (IF Head(line).m.kind = "data" THEN 1 ELSE 0)
         /\ \A i \in DataAt(Tail(line)) : i + 1 \in DataAt(line) /\ Tail(line)[i] = line[i + 1]
<1> DEFINE n == Len(line)
           P == DataAt(line)
           Q == DataAt(Tail(line))
<1> HIDE DEF n
<1>1. /\ n \in Nat /\ n >= 1 /\ DOMAIN line = 1..n /\ Head(line) = line[1]
      /\ DOMAIN Tail(line) = 1..(n - 1)
      /\ \A i \in 1..(n - 1) : Tail(line)[i] = line[i + 1]
  BY LineFacts DEF n
<1>2. P \in SUBSET (1..n)  BY <1>1 DEF DataAt
<1>3. \A i : i \in Q <=> i \in 1..(n - 1) /\ i + 1 \in P  BY <1>1 DEF DataAt
<1>4. 1 \in P <=> Head(line).m.kind = "data"  BY <1>1 DEF DataAt
<1>5. \A i \in Q : i + 1 \in P /\ Tail(line)[i] = line[i + 1]  BY <1>1, <1>3
<1> HIDE DEF P, Q
<1>6. Cardinality(Q) = Cardinality(P) - (IF 1 \in P THEN 1 ELSE 0)
  BY <1>1, <1>2, <1>3, PlacesTail
<1> QED  BY <1>4, <1>5, <1>6 DEF P, Q

\* The same of the words on the way to the sender.
LEMMA WordsTail ==
  ASSUME NEW line \in Seq(OnBack), line # <<>>, NEW S
  PROVE  /\ Cardinality(WordsAt(Tail(line), S)) =
              Cardinality(WordsAt(line, S)) - (IF Head(line).m \in S THEN 1 ELSE 0)
         /\ \A i \in WordsAt(Tail(line), S) :
              i + 1 \in WordsAt(line, S) /\ Tail(line)[i] = line[i + 1]
         /\ \A i \in WordsAt(line, S) : i = 1 \/ i - 1 \in WordsAt(Tail(line), S)
<1> DEFINE n == Len(line)
           P == WordsAt(line, S)
           Q == WordsAt(Tail(line), S)
<1> HIDE DEF n
<1>1. /\ n \in Nat /\ n >= 1 /\ DOMAIN line = 1..n /\ Head(line) = line[1]
      /\ DOMAIN Tail(line) = 1..(n - 1)
      /\ \A i \in 1..(n - 1) : Tail(line)[i] = line[i + 1]
  BY LineFacts DEF n
<1>2. P \in SUBSET (1..n)  BY <1>1 DEF WordsAt
<1>3. \A i : i \in Q <=> i \in 1..(n - 1) /\ i + 1 \in P  BY <1>1 DEF WordsAt
<1>4. 1 \in P <=> Head(line).m \in S  BY <1>1 DEF WordsAt
<1>5. \A i \in Q : i + 1 \in P /\ Tail(line)[i] = line[i + 1]  BY <1>1, <1>3
<1> HIDE DEF P, Q
<1>7. ASSUME NEW i \in P, i # 1  PROVE i - 1 \in Q
  <2>1. i \in 1..n  BY <1>2
  <2>2. i - 1 \in 1..(n - 1) /\ (i - 1) + 1 = i  BY <2>1, <1>7, <1>1
  <2> QED  BY <2>2, <1>3, <1>7
<1>6. Cardinality(Q) = Cardinality(P) - (IF 1 \in P THEN 1 ELSE 0)
  BY <1>1, <1>2, <1>3, PlacesTail
<1> QED  BY <1>4, <1>5, <1>6, <1>7 DEF P, Q

\* A unit put on the line stands last.
LEMMA DataAppend ==
  ASSUME NEW line \in Seq(OnFwd), NEW u \in OnFwd
  PROVE  /\ Cardinality(DataAt(Append(line, u))) =
              Cardinality(DataAt(line)) + (IF u.m.kind = "data" THEN 1 ELSE 0)
         /\ \A i \in DataAt(Append(line, u)) :
              \/ i \in DataAt(line) /\ Append(line, u)[i] = line[i]
              \/ u.m.kind = "data" /\ Append(line, u)[i] = u
<1> DEFINE n == Len(line)
           l == Append(line, u)
<1> HIDE DEF n, l
<1>1. /\ n \in Nat /\ DOMAIN line = 1..n /\ DOMAIN l = 1..(n + 1) /\ l[n + 1] = u
      /\ \A i \in 1..n : l[i] = line[i]
  BY DEF n, l
<1>2. DataAt(line) \in SUBSET (1..n) /\ n + 1 \notin DataAt(line)  BY <1>1 DEF DataAt
<1>3. DataAt(l) = IF u.m.kind = "data" THEN DataAt(line) \cup {n + 1} ELSE DataAt(line)
  BY <1>1 DEF DataAt
<1>4. IsFiniteSet(DataAt(line)) /\ Cardinality(DataAt(line)) \in Nat  BY <1>1, <1>2, PlacesFinite
<1>5. Cardinality(DataAt(l)) = Cardinality(DataAt(line)) + (IF u.m.kind = "data" THEN 1 ELSE 0)
  <2>1. Cardinality(DataAt(line) \cup {n + 1}) = Cardinality(DataAt(line)) + 1  BY <1>2, <1>4, FS_AddElement
  <2> QED  BY <1>3, <1>4, <2>1
<1>6. \A i \in DataAt(l) : \/ i \in DataAt(line) /\ l[i] = line[i]
                           \/ u.m.kind = "data" /\ l[i] = u
  BY <1>1, <1>2, <1>3
<1> QED  BY <1>5, <1>6 DEF l

\* A word put on the line stands last.
LEMMA WordsAppend ==
  ASSUME NEW line \in Seq(OnBack), NEW u \in OnBack, NEW S
  PROVE  /\ Cardinality(WordsAt(Append(line, u), S)) =
              Cardinality(WordsAt(line, S)) + (IF u.m \in S THEN 1 ELSE 0)
         /\ WordsAt(Append(line, u), S) =
              IF u.m \in S THEN WordsAt(line, S) \cup {Len(line) + 1} ELSE WordsAt(line, S)
         /\ WordsAt(line, S) \subseteq 1..Len(line)
         /\ \A i \in 1..Len(line) : Append(line, u)[i] = line[i]
         /\ Append(line, u)[Len(line) + 1] = u
<1> DEFINE n == Len(line)
           l == Append(line, u)
<1> HIDE DEF n, l
<1>1. /\ n \in Nat /\ DOMAIN line = 1..n /\ DOMAIN l = 1..(n + 1) /\ l[n + 1] = u
      /\ \A i \in 1..n : l[i] = line[i]
  BY DEF n, l
<1>2. WordsAt(line, S) \in SUBSET (1..n) /\ n + 1 \notin WordsAt(line, S)  BY <1>1 DEF WordsAt
<1>3. WordsAt(l, S) = IF u.m \in S THEN WordsAt(line, S) \cup {n + 1} ELSE WordsAt(line, S)
  BY <1>1 DEF WordsAt
<1>4. IsFiniteSet(WordsAt(line, S)) /\ Cardinality(WordsAt(line, S)) \in Nat
  BY <1>1, <1>2, PlacesFinite
<1>5. Cardinality(WordsAt(l, S)) = Cardinality(WordsAt(line, S)) + (IF u.m \in S THEN 1 ELSE 0)
  <2>1. Cardinality(WordsAt(line, S) \cup {n + 1}) = Cardinality(WordsAt(line, S)) + 1  BY <1>2, <1>4, FS_AddElement
  <2> QED  BY <1>3, <1>4, <2>1
<1> QED  BY <1>1, <1>2, <1>3, <1>5 DEF l, n

\* Time moves no place.
LEMMA OlderPlaces ==
  ASSUME NEW A, A = OnFwd \/ A = OnBack, NEW line \in Seq(A), OnTime(line)
  PROVE  /\ Older(line) \in Seq(A) /\ DOMAIN Older(line) = DOMAIN line
         /\ \A i \in DOMAIN line : Older(line)[i].m = line[i].m
                                   /\ Older(line)[i].age = line[i].age + 1
         /\ Older(line) = <<>> <=> line = <<>>
<1>1. /\ Len(line) \in Nat /\ DOMAIN line = 1..Len(line)
      /\ \A i \in 1..Len(line) : line[i] \in A /\ line[i].age < Latency
      /\ line = [i \in 1..Len(line) |-> line[i]]
  BY DEF OnTime
<1>2. ASSUME NEW u \in A, u.age < Latency
      PROVE  /\ [u EXCEPT !.age = @ + 1] \in A /\ [u EXCEPT !.age = @ + 1].m = u.m
             /\ [u EXCEPT !.age = @ + 1].age = u.age + 1
  <2>1. ASSUME NEW M, u \in [m : M, age : 0..Latency]
        PROVE  /\ [u EXCEPT !.age = @ + 1] \in [m : M, age : 0..Latency]
               /\ [u EXCEPT !.age = @ + 1].m = u.m
               /\ [u EXCEPT !.age = @ + 1].age = u.age + 1
    <3>1. u.age \in 0..Latency /\ Latency \in Nat  BY <2>1, XmodemAssumption
    <3>2. u.age + 1 \in 0..Latency  BY <3>1, <1>2
    <3> QED  BY <2>1, <3>2
  <2> QED  BY <2>1 DEF OnFwd, OnBack
<1>3. /\ DOMAIN Older(line) = 1..Len(line)
      /\ \A i \in 1..Len(line) : Older(line)[i] = [line[i] EXCEPT !.age = @ + 1]
      /\ Older(line) = [i \in 1..Len(line) |-> Older(line)[i]]
  BY <1>1 DEF Older
<1>4. \A i \in 1..Len(line) :
        Older(line)[i] \in A /\ Older(line)[i].m = line[i].m /\ Older(line)[i].age = line[i].age + 1
  BY <1>1, <1>2, <1>3
<1>5. Older(line) \in Seq(A)
  <2>1. Older(line) \in [1..Len(line) -> A]  BY <1>3, <1>4
  <2> QED  BY <1>1, <2>1
<1>6. Len(Older(line)) = Len(line)  BY <1>1, <1>3, <1>5, LineFacts
<1>7. Older(line) = <<>> <=> line = <<>>  BY <1>5, <1>6, LineFacts
<1> QED  BY <1>1, <1>3, <1>4, <1>5, <1>7

-----------------------------------------------------------------------------
(* What a step does to the sender                                          *)

SameBlock(t, u) ==
  u.num = t.num /\ u.off = t.off /\ u.len = t.len /\ u.buf = t.buf /\ u.big = t.big

Stopped(t, u) ==
  /\ SameBlock(t, u) /\ t.st = "Running" /\ u.ph = "Idle" /\ (u.live => t.live)
  /\ u.st = "Failed" \/ (u.st = "Done" /\ t.ph = "SendEotAck")
  /\ u.ctl \in {t.ctl, <<"CAN">>}

\* The next block is in hand, or the EOT.
Framed(u, num, off, big) ==
  /\ u.st = "Running" /\ u.num = num /\ u.off = off /\ u.big = big
  /\ off <= u.buf /\ u.buf <= job.size /\ u.len \in 1..K
  /\ \/ u.ph = "SendEot" /\ off = job.size /\ ~u.live
     \/ u.ph = "SendData" /\ u.live /\ off + u.len <= u.buf /\ u.ctl # <<"EOT">>

Stale(t, u) ==
  /\ SameBlock(t, u) /\ u.st = t.st /\ u.ph = t.ph /\ u.live = t.live /\ u.ctl = t.ctl
  /\ u.time = t.time /\ ~u.selfNak

\* The block once more, or the first small one of a large one.
Resent(t, u) ==
  /\ u.st = "Running" /\ u.ph = "SendData" /\ u.live /\ u.ctl = t.ctl
  /\ u.num = t.num /\ u.off = t.off /\ u.buf = t.buf
  /\ \/ u.len = t.len /\ u.big = t.big
     \/ u.len = 1 /\ t.big /\ ~u.big

EotPh == {"SendEot", "SendEotAck"}
EndTalk(t, u) ==
  /\ SameBlock(t, u) /\ t.ph \in EotPh /\ u.ph \in EotPh /\ u.st = "Running"
  /\ u.live = t.live /\ u.ctl \in {t.ctl, <<>>, <<"EOT">>}

\* frameNext puts a block of what is left of the file in hand, or the EOT after it.
LEMMA FrameNextFrames ==
  ASSUME NEW t \in TxRec, t.st = "Running", job.size \in Nat, t.off <= t.buf,
         t.buf <= job.size, t.len \in 1..K, ~t.live, t.ctl # <<"EOT">>
  PROVE  /\ FrameNext(t) \in TxRec /\ Framed(FrameNext(t), t.num, t.off, t.big)
         /\ FrameNext(t).selfNak = t.selfNak
<1> DEFINE end == IF t.off >= t.buf THEN SmallerOf(t.off + K, job.size) ELSE t.buf
           rem == end - t.off
           len == IF t.big /\ rem >= K THEN K ELSE 1
           e == Say([t EXCEPT !.buf = end, !.ph = "SendEot", !.time = 0, !.retries = 0], <<"EOT">>)
           d == [t EXCEPT !.buf = end, !.len = len, !.live = TRUE, !.ph = "SendData", !.time = 0]
<1>1. /\ end \in Nat /\ t.off <= end /\ end <= job.size /\ rem \in Nat
      /\ len \in Nat /\ len \in 1..K
      /\ rem = 0 => t.off = job.size
      /\ rem # 0 => t.off + len <= end
  BY XmodemAssumption DEF TxRec, SmallerOf
<1>2. FrameNext(t) = IF rem = 0 THEN e ELSE d  BY DEF FrameNext
<1> HIDE DEF end, rem, len
<1>3. /\ e \in TxRec /\ e.buf = end /\ e.ph = "SendEot" /\ e.num = t.num /\ e.off = t.off
      /\ e.big = t.big /\ e.st = t.st /\ e.len = t.len /\ e.live = t.live
      /\ e.selfNak = t.selfNak
  BY <1>1 DEF TxRec, Say, SenderPh, SenderCtl
<1>4. /\ d \in TxRec /\ d.buf = end /\ d.ph = "SendData" /\ d.num = t.num /\ d.off = t.off
      /\ d.big = t.big /\ d.st = t.st /\ d.len = len /\ d.live
      /\ d.selfNak = t.selfNak /\ d.ctl = t.ctl
  BY <1>1 DEF TxRec, SenderPh, SenderCtl
<1> HIDE DEF e, d
<1>5. CASE rem = 0  BY <1>1, <1>2, <1>3, <1>5 DEF Framed
<1>6. CASE rem # 0  BY <1>1, <1>2, <1>4, <1>6 DEF Framed
<1> QED  BY <1>5, <1>6

\* abortWith and the other ends.
LEMMA EndsStop ==
  ASSUME NEW t \in TxRec, t.st = "Running", NEW x \in TxRec, SameBlock(t, x), x.live = t.live,
         x.ctl = t.ctl
  PROVE  /\ AbortTx(x) \in TxRec /\ Stopped(t, AbortTx(x))
         /\ End(x, "Failed") \in TxRec /\ Stopped(t, End(x, "Failed"))
         /\ t.ph = "SendEotAck" => End(x, "Done") \in TxRec /\ Stopped(t, End(x, "Done"))
<1> DEFINE a == AbortTx(x)
           f == End(x, "Failed")
           d == End(x, "Done")
<1>1. /\ a \in TxRec /\ SameBlock(x, a) /\ a.ph = "Idle" /\ a.st = "Failed" /\ ~a.live
      /\ a.ctl = <<"CAN">>
  BY DEF AbortTx, End, Say, TxRec, SenderPh, SenderCtl, SenderSt, SameBlock
<1>2. /\ f \in TxRec /\ SameBlock(x, f) /\ f.ph = "Idle" /\ f.st = "Failed" /\ f.live = x.live
      /\ f.ctl = x.ctl
  BY DEF End, TxRec, SenderPh, SenderCtl, SenderSt, SameBlock
<1>3. /\ d \in TxRec /\ SameBlock(x, d) /\ d.ph = "Idle" /\ d.st = "Done" /\ d.live = x.live
      /\ d.ctl = x.ctl
  BY DEF End, TxRec, SenderPh, SenderCtl, SenderSt, SameBlock
<1> HIDE DEF a, f, d
<1>4. Stopped(t, a)  BY <1>1 DEF Stopped, SameBlock
<1>5. Stopped(t, f)  BY <1>2 DEF Stopped, SameBlock
<1>6. t.ph = "SendEotAck" => Stopped(t, d)  BY <1>3 DEF Stopped, SameBlock
<1> QED  BY <1>1, <1>2, <1>3, <1>4, <1>5, <1>6 DEF a, f, d

\* retransmit sends the block or the EOT again, or gives up.
LEMMA RetransmitSends ==
  ASSUME NEW t \in TxRec, t.st = "Running", t.ph \in {"SendAck", "SendEot", "SendEotAck"}
  PROVE  /\ Retransmit(t) \in TxRec
         /\ \/ Stopped(t, Retransmit(t))
            \/ /\ t.ph = "SendAck" /\ Resent(t, Retransmit(t))
               /\ Retransmit(t).selfNak = t.selfNak
            \/ EndTalk(t, Retransmit(t))
<1> DEFINE b == Bumped(t)
           cut == b.big /\ b.len = K /\ b.retries >= kFallbackErrors
           e == Say([b EXCEPT !.ph = "SendEot", !.time = 0], <<"EOT">>)
           big == b.big /\ ~cut
           len == IF cut THEN 1 ELSE b.len
           d == [b EXCEPT !.big = big, !.len = len,
                          !.live = TRUE, !.ph = "SendData", !.time = 0]
<1>1. /\ b \in TxRec /\ SameBlock(t, b) /\ b.st = t.st /\ b.ph = t.ph /\ b.live = t.live
      /\ b.ctl = t.ctl /\ b.selfNak = t.selfNak
  BY DEF Bumped, TxRec, SameBlock
<1>2. Retransmit(t) = IF Spent(t) THEN AbortTx(b) ELSE IF t.ph \in EotPh THEN e ELSE d
  BY DEF Retransmit, EotPh
<1> HIDE DEF b
<1>3. /\ e \in TxRec /\ SameBlock(b, e) /\ e.ph = "SendEot" /\ e.st = b.st /\ e.live = b.live
      /\ e.ctl = <<"EOT">>
  BY <1>1 DEF TxRec, Say, SameBlock, SenderPh, SenderCtl
<1>8. big \in BOOLEAN /\ len \in Nat /\ ((len = b.len /\ big = b.big) \/ (len = 1 /\ b.big /\ ~big))
  BY <1>1 DEF TxRec
<1> HIDE DEF cut, big, len
<1>4. /\ d \in TxRec /\ d.ph = "SendData" /\ d.st = b.st /\ d.live /\ d.ctl = b.ctl
      /\ d.num = b.num /\ d.off = b.off /\ d.buf = b.buf /\ d.selfNak = b.selfNak
      /\ d.len = len /\ d.big = big
  BY <1>1, <1>8 DEF TxRec, SenderPh
<1> HIDE DEF e, d
<1>5. CASE Spent(t)  BY <1>1, <1>2, <1>5, EndsStop
<1>6. CASE ~Spent(t) /\ t.ph \in EotPh
  BY <1>1, <1>2, <1>3, <1>6 DEF EndTalk, SameBlock, EotPh
<1>7. CASE ~Spent(t) /\ t.ph \notin EotPh
  <2>1. Retransmit(t) = d  BY <1>2, <1>7
  <2>2. t.ph = "SendAck"  BY <1>7 DEF EotPh
  <2> QED  BY <1>1, <1>4, <1>8, <2>1, <2>2 DEF Resent, SameBlock
<1> QED  BY <1>5, <1>6, <1>7

\* Block numbers go round without repeating the last.
LEMMA NumbersGoRound ==
  ASSUME NEW n \in Nat, n < Mod
  PROVE  /\ (n + 1) % Mod \in Nat /\ (n + 1) % Mod < Mod /\ (n + 1) % Mod # n
         /\ (((n + 1) % Mod) - 1) % Mod = n
<1>1. Mod \in Nat /\ Mod >= 3  BY XmodemAssumption
<1>2. CASE n + 1 < Mod
  <2>1. (n + 1) % Mod = n + 1  BY <1>1, <1>2
  <2>2. ((n + 1) - 1) % Mod = n  BY <1>1, <1>2
  <2> QED  BY <1>2, <2>1, <2>2
<1>3. CASE n + 1 = Mod
  <2>1. (n + 1) % Mod = 0  BY <1>1, <1>3
  <2>2. (0 - 1) % Mod = Mod - 1  BY <1>1
  <2> QED  BY <1>1, <1>3, <2>1, <2>2
<1> QED  BY <1>1, <1>2, <1>3

\* What the sender's engine may be when it is fed or its clock runs out.
SenderReady(t) ==
  /\ t.st = "Running" <=> t.ph # "Idle"
  /\ t.live => t.ph = "SendData" \/ t.st = "Failed"
  /\ t.num < Mod /\ t.off <= t.buf /\ t.buf <= job.size /\ t.len \in 1..K
  /\ t.ph = "SendAck" => t.off + t.len <= t.buf
  /\ t.ph \in {"SendStart", "SendAck"} => t.ctl # <<"EOT">>

\* Every answer the sender can make of a word.
LEMMA SenderHears ==
  ASSUME NEW t \in TxRec, SenderReady(t), NEW b \in {"ACK", "NAK", "C", "CAN"},
         ~job.ymodem, job.size \in Nat
  PROVE  /\ TxFed(t, b) \in TxRec
         /\ \/ TxFed(t, b) = t
            \/ Stopped(t, TxFed(t, b))
            \/ /\ b \in Asks /\ t.ph = "SendStart"
               /\ Framed(TxFed(t, b), t.num, t.off, t.big) /\ TxFed(t, b).selfNak = t.selfNak
            \/ /\ b = "ACK" /\ t.ph = "SendAck" /\ ~TxFed(t, b).selfNak
               /\ Framed(TxFed(t, b), (t.num + 1) % Mod, t.off + t.len, t.big)
            \/ b = "NAK" /\ t.ph = "SendAck" /\ t.selfNak /\ Stale(t, TxFed(t, b))
            \/ /\ b = "NAK" /\ t.ph = "SendAck" /\ ~t.selfNak /\ Resent(t, TxFed(t, b))
               /\ ~TxFed(t, b).selfNak
            \/ EndTalk(t, TxFed(t, b))
<1> DEFINE u == TxFed(t, b)
<1>1. CASE t.st # "Running"
  <2>0. t.ph = "Idle"  BY <1>1 DEF SenderReady
  <2>1. u = t  BY <1>1, <2>0 DEF TxFed, Running
  <2> QED  BY <2>1
<1>2. CASE t.st = "Running" /\ b = "CAN"
  <2>1. u = End(t, "Failed")  BY <1>2 DEF TxFed, Running
  <2>2. SameBlock(t, t)  BY DEF SameBlock
  <2> QED  BY <1>2, <2>1, <2>2, EndsStop
<1>3. CASE t.st = "Running" /\ t.ph = "SendStart" /\ b \in Asks
  <2> DEFINE s == [t EXCEPT !.crc = (b = "C")]
  <2>1. u = FrameNext(s)  BY <1>3 DEF TxFed, Running, Asks
  <2>2. /\ s \in TxRec /\ s.st = t.st /\ s.off = t.off /\ s.buf = t.buf /\ s.len = t.len
        /\ s.live = t.live /\ s.ctl = t.ctl /\ s.num = t.num /\ s.big = t.big
        /\ s.selfNak = t.selfNak
    BY DEF TxRec
  <2> HIDE DEF s
  <2>3. ~s.live  BY <1>3, <2>2 DEF SenderReady
  <2>4. s.ctl # <<"EOT">>  BY <1>3, <2>2 DEF SenderReady
  <2>5. s.off <= s.buf /\ s.buf <= job.size /\ s.len \in 1..K  BY <2>2 DEF SenderReady
  <2>6. u \in TxRec /\ Framed(u, s.num, s.off, s.big) /\ u.selfNak = s.selfNak
    BY <1>3, <2>1, <2>2, <2>3, <2>4, <2>5, FrameNextFrames
  <2> HIDE DEF u
  <2> QED  BY <1>3, <2>2, <2>6 DEF u
<1>4. CASE t.st = "Running" /\ t.ph = "SendAck" /\ b = "ACK"
  <2> DEFINE off == t.off + t.len
             num == (t.num + 1) % Mod
             s == [t EXCEPT !.selfNak = FALSE, !.off = off, !.num = num,
                            !.retries = 0, !.live = FALSE]
  <2>1. u = FrameNext(s)  BY <1>4 DEF TxFed, Running, Acked
  <2>2. off \in Nat /\ num \in Nat /\ off <= t.buf
    BY <1>4, NumbersGoRound DEF SenderReady, TxRec
  <2> HIDE DEF off, num
  <2>3. /\ s \in TxRec /\ s.st = t.st /\ s.off = off /\ s.buf = t.buf /\ s.len = t.len
        /\ ~s.live /\ s.ctl = t.ctl /\ s.num = num /\ s.big = t.big /\ s.selfNak = FALSE
    BY <2>2 DEF TxRec
  <2> HIDE DEF s
  <2>4. s.ctl # <<"EOT">>  BY <1>4, <2>3 DEF SenderReady
  <2>5. s.off <= s.buf /\ s.buf <= job.size /\ s.len \in 1..K  BY <2>2, <2>3 DEF SenderReady
  <2>6. u \in TxRec /\ Framed(u, s.num, s.off, s.big) /\ u.selfNak = s.selfNak
    BY <1>4, <2>1, <2>3, <2>4, <2>5, FrameNextFrames
  <2> HIDE DEF u
  <2>7. Framed(u, num, off, t.big) /\ ~u.selfNak  BY <2>3, <2>6
  <2> QED  BY <1>4, <2>6, <2>7 DEF off, num, u
<1>5. CASE t.st = "Running" /\ t.ph = "SendAck" /\ b = "NAK" /\ t.selfNak
  <2> DEFINE s == [t EXCEPT !.selfNak = FALSE]
  <2>1. u = s  BY <1>5 DEF TxFed, Running, Nakked
  <2>2. s \in TxRec /\ Stale(t, s)  BY DEF TxRec, Stale, SameBlock
  <2> QED  BY <1>5, <2>1, <2>2
<1>6. CASE t.st = "Running" /\ t.ph = "SendAck" /\ b = "NAK" /\ ~t.selfNak
  <2>1. u = Retransmit(t)  BY <1>6 DEF TxFed, Running, Nakked
  <2>2. ~EndTalk(t, u)  BY <1>6 DEF EndTalk, EotPh
  <2> QED  BY <1>6, <2>1, <2>2, RetransmitSends
<1>7. CASE t.st = "Running" /\ t.ph = "SendEotAck" /\ b = "ACK"
  <2>1. u = End(t, "Done")  BY <1>7 DEF TxFed, Running, EotAcked
  <2>2. SameBlock(t, t)  BY DEF SameBlock
  <2> QED  BY <1>7, <2>1, <2>2, EndsStop
<1>8. CASE t.st = "Running" /\ t.ph = "SendEotAck" /\ b = "NAK"
  <2>1. u = EotNakked(t)  BY <1>8 DEF TxFed, Running
  <2>2. CASE t.eotNak
    <3>1. u = Retransmit(t)  BY <2>1, <2>2 DEF EotNakked
    <3>2. ~Resent(t, u) \/ t.ph # "SendAck"  BY <1>8
    <3> QED  BY <1>8, <3>1, <3>2, RetransmitSends
  <2>3. CASE ~t.eotNak
    <3> DEFINE s == Say([t EXCEPT !.eotNak = TRUE, !.ph = "SendEot", !.time = 0], <<"EOT">>)
    <3>1. u = s  BY <2>1, <2>3 DEF EotNakked
    <3>2. /\ s \in TxRec /\ SameBlock(t, s) /\ s.ph = "SendEot" /\ s.st = t.st
          /\ s.live = t.live /\ s.ctl = <<"EOT">>
      BY DEF TxRec, SameBlock, Say, SenderPh, SenderCtl
    <3> HIDE DEF s
    <3>3. EndTalk(t, s)  BY <1>8, <3>2 DEF EndTalk, EotPh
    <3> QED  BY <3>1, <3>2, <3>3
  <2> QED  BY <2>2, <2>3
<1>9. CASE /\ t.st = "Running" /\ b # "CAN" /\ ~(t.ph = "SendStart" /\ b \in Asks)
           /\ ~(t.ph = "SendAck" /\ b \in {"ACK", "NAK"})
           /\ ~(t.ph = "SendEotAck" /\ b \in {"ACK", "NAK"})
  <2>1. t.ph \in SenderPh  BY DEF TxRec
  <2>2. u = t  BY <1>9, <2>1 DEF TxFed, Running, SenderPh, Asks
  <2> QED  BY <2>2
<1> HIDE DEF u
<1> QED  BY <1>1, <1>2, <1>3, <1>4, <1>5, <1>6, <1>7, <1>8, <1>9 DEF u

\* Every answer the sender can make of its clock.
LEMMA SenderTicks ==
  ASSUME tx \in TxRec, SenderReady(tx), ~job.ymodem, TxTick
  PROVE  /\ tx' \in TxRec /\ tx.st = "Running" /\ tx.time = 0
         /\ \/ Stopped(tx, tx')
            \/ tx.ph = "SendAck" /\ Resent(tx, tx') /\ tx'.selfNak
            \/ EndTalk(tx, tx')
<1>1. tx.st = "Running" /\ tx.time = 0 /\ tx.ph \in SenderPh /\ tx.ph \in TxTimed
  BY DEF TxTick, TxDue, Running, TxRec
<1>2. CASE tx.ph = "SendStart"
  <2>1. tx' = End(tx, "Failed")  BY <1>2 DEF TxTick
  <2>2. SameBlock(tx, tx)  BY DEF SameBlock
  <2> QED  BY <1>1, <2>1, <2>2, EndsStop
<1>3. CASE tx.ph = "SendEotAck"
  <2>1. tx' = Retransmit(tx)  BY <1>3 DEF TxTick
  <2> QED  BY <1>1, <1>3, <2>1, RetransmitSends
<1>4. CASE tx.ph = "SendAck"
  <2> DEFINE s == Retransmit(tx)
             v == [s EXCEPT !.selfNak = TRUE]
  <2>1. tx' = v  BY <1>4 DEF TxTick
  <2>2. s \in TxRec /\ (Stopped(tx, s) \/ Resent(tx, s))
    BY <1>1, <1>4, RetransmitSends DEF EndTalk, EotPh
  <2> HIDE DEF s
  <2>3. /\ v \in TxRec /\ SameBlock(s, v) /\ v.ph = s.ph /\ v.st = s.st /\ v.live = s.live
        /\ v.ctl = s.ctl /\ v.selfNak = TRUE
    BY <2>2 DEF TxRec, SameBlock
  <2> HIDE DEF v
  <2>4. Stopped(tx, s) => Stopped(tx, v)  BY <2>3 DEF Stopped, SameBlock
  <2>5. Resent(tx, s) => Resent(tx, v)  BY <2>2, <2>3 DEF Resent, SameBlock
  <2> QED  BY <1>1, <1>4, <2>1, <2>2, <2>3, <2>4, <2>5
<1> QED  BY <1>1, <1>2, <1>3, <1>4 DEF SenderPh, TxTimed

-----------------------------------------------------------------------------
(* What a step does to the receiver                                        *)

SameStore(r, s) == s.num = r.num /\ s.got = r.got /\ (s.eotSeen => r.eotSeen)

GaveUp(r, s) ==
  /\ SameStore(r, s) /\ r.st = "Running" /\ s.ph = "Idle"
  /\ \/ s.st = "Failed" /\ s.ctl \in {r.ctl, <<"CAN">>}
     \/ s.st = "Done" /\ r.eotSeen

\* A block is under way that will not pass its check.
Owing(r, s) ==
  /\ SameStore(r, s) /\ s.st = "Running" /\ s.ph \in {"RecvBlk", "RecvPurge"}
  /\ s.ctl = r.ctl /\ r.ph \in {"RecvWait", "RecvBlk"}

Answers(r, s) ==
  /\ s.st = "Running" /\ r.ph = "RecvWait" /\ s.ph = "RecvWait" /\ s.time = BlockTime
  /\ s.ctl = <<"ACK">> /\ ~s.eotSeen

Stores(r, s, p) ==
  /\ Answers(r, s) /\ p.num = r.num /\ s.num = (r.num + 1) % Mod
  /\ Len(s.got) = Len(r.got) + p.len
  /\ \A i \in 1..Len(r.got) : s.got[i] = r.got[i]
  /\ \A i \in 1..p.len : s.got[Len(r.got) + i] = p.from + i

Repeats(r, s, p) ==
  Answers(r, s) /\ p.num # r.num /\ s.num = r.num /\ s.got = r.got

\* Asked for again: a block, or the EOT.
Nags(r, s) ==
  /\ s.num = r.num /\ s.got = r.got /\ s.st = "Running" /\ s.ph = "RecvWait"
  /\ s.time >= Trip /\ s.ctl \in {<<"NAK">>, <<"C">>}

\* The next block number is a number.
LEMMA NumberTyped ==
  ASSUME NEW n \in Nat  PROVE (n + 1) % Mod \in Nat
BY XmodemAssumption

\* Both ends wait longer than a trip there and back.
LEMMA ClocksAreLong ==
  Trip \in Nat /\ Latency \in Nat /\ BlockTime \in Nat /\ PollTime \in Nat
  /\ BlockTime >= Trip /\ PollTime >= Trip /\ Trip > 2 * Latency
BY XmodemAssumption, LineAssumption DEF Trip

\* Whatever ends a transfer at the receiver stores nothing, and Done needs an EOT.
LEMMA ReceiverEnds ==
  ASSUME NEW r \in RxRec, r.st = "Running", NEW x \in RxRec, SameStore(r, x), x.ctl = r.ctl
  PROVE  /\ AbortRx(x) \in RxRec /\ GaveUp(r, AbortRx(x))
         /\ End(x, "Failed") \in RxRec /\ GaveUp(r, End(x, "Failed"))
         /\ r.eotSeen /\ ~job.ymodem => EndOfFile(x) \in RxRec /\ GaveUp(r, EndOfFile(x))
<1> DEFINE a == AbortRx(x)
           f == End(x, "Failed")
           d == End(Say(x, <<"ACK">>), "Done")
<1>1. /\ a \in RxRec /\ a.num = x.num /\ a.got = x.got /\ a.eotSeen = x.eotSeen
      /\ a.ph = "Idle" /\ a.st = "Failed" /\ a.ctl = <<"CAN">>
  BY DEF AbortRx, End, Say, RxRec, ReceiverPh, ReceiverCtl, SenderSt
<1>2. /\ f \in RxRec /\ f.num = x.num /\ f.got = x.got /\ f.eotSeen = x.eotSeen
      /\ f.ph = "Idle" /\ f.st = "Failed" /\ f.ctl = x.ctl
  BY DEF End, RxRec, ReceiverPh, ReceiverCtl, SenderSt
<1>3. /\ d \in RxRec /\ d.num = x.num /\ d.got = x.got /\ d.eotSeen = x.eotSeen
      /\ d.ph = "Idle" /\ d.st = "Done"
  BY DEF End, Say, RxRec, ReceiverPh, ReceiverCtl, SenderSt
<1> HIDE DEF a, f, d
<1>4. GaveUp(r, a)  BY <1>1 DEF GaveUp, SameStore
<1>5. GaveUp(r, f)  BY <1>2 DEF GaveUp, SameStore
<1>6. r.eotSeen => GaveUp(r, d)  BY <1>3 DEF GaveUp, SameStore
<1>7. ~job.ymodem => EndOfFile(x) = d  BY DEF EndOfFile, d
<1> QED  BY <1>1, <1>2, <1>3, <1>4, <1>5, <1>6, <1>7 DEF a, f

\* One sequence behind another.
LEMMA Joined ==
  ASSUME NEW a \in Seq(Nat), NEW b \in Seq(Nat)
  PROVE  /\ a \o b \in Seq(Nat) /\ Len(a \o b) = Len(a) + Len(b)
         /\ \A i \in 1..(Len(a) + Len(b)) :
              (a \o b)[i] = IF i <= Len(a) THEN a[i] ELSE b[i - Len(a)]
OBVIOUS

\* bumpError spends an error, and nothing else.
LEMMA BumpedReceiver ==
  ASSUME NEW r \in RxRec
  PROVE  LET b == Bumped(r)
         IN /\ b \in RxRec /\ b.num = r.num /\ b.got = r.got /\ b.eotSeen = r.eotSeen
            /\ b.ctl = r.ctl /\ b.st = r.st
<1> DEFINE n == r.retries + 1
           b == [r EXCEPT !.retries = n]
<1>1. n \in Nat  BY DEF RxRec
<1>2. Bumped(r) = b  BY DEF Bumped
<1> HIDE DEF n
<1>3. /\ b \in RxRec /\ b.num = r.num /\ b.got = r.got /\ b.eotSeen = r.eotSeen
      /\ b.ctl = r.ctl /\ b.st = r.st
  BY <1>1 DEF RxRec
<1> QED  BY <1>2, <1>3

\* A block that fails its check, or an error in a row too many.
LEMMA PurgeOwes ==
  ASSUME NEW r \in RxRec, r.st = "Running", r.ph \in {"RecvWait", "RecvBlk"},
         NEW x \in RxRec, SameStore(r, x), x.ctl = r.ctl, x.st = r.st
  PROVE  Purge(x) \in RxRec /\ (GaveUp(r, Purge(x)) \/ Owing(r, Purge(x)))
<1> DEFINE b == Bumped(x)
           w == Wait(b, "RecvPurge", 0)
<1>1. /\ b \in RxRec /\ b.num = x.num /\ b.got = x.got /\ b.eotSeen = x.eotSeen
      /\ b.ctl = x.ctl /\ b.st = x.st
  BY BumpedReceiver
<1> HIDE DEF b
<1>2. /\ w \in RxRec /\ w.num = b.num /\ w.got = b.got /\ w.eotSeen = b.eotSeen
      /\ w.ctl = b.ctl /\ w.st = b.st /\ w.ph = "RecvPurge"
  BY <1>1 DEF Wait, RxRec, ReceiverPh
<1> HIDE DEF w
<1>3. Purge(x) = IF Spent(x) THEN AbortRx(b) ELSE w  BY DEF Purge, b, w
<1>4. SameStore(r, b) /\ b.ctl = r.ctl  BY <1>1 DEF SameStore
<1>5. Owing(r, w)  BY <1>1, <1>2 DEF Owing, SameStore
<1> QED  BY <1>1, <1>2, <1>3, <1>4, <1>5, ReceiverEnds

\* Every answer the receiver can make of what comes in.
LEMMA ReceiverHears ==
  ASSUME NEW r \in RxRec, r.st = "Running" <=> r.ph # "Idle",
         NEW m \in Blocks \cup Signs, NEW fate, ~job.ymodem
  PROVE  /\ RxFed(r, m, fate) \in RxRec
         /\ \/ RxFed(r, m, fate) = r
            \/ GaveUp(r, RxFed(r, m, fate))
            \/ /\ m.kind = "data"
               /\ \/ Owing(r, RxFed(r, m, fate))
                  \/ Stores(r, RxFed(r, m, fate), m)
                  \/ Repeats(r, RxFed(r, m, fate), m)
            \/ m.kind = "EOT" /\ Nags(r, RxFed(r, m, fate))
<1> DEFINE u == RxFed(r, m, fate)
<1>1. m.kind \in {"data", "EOT", "CAN"}  BY DEF Blocks, Signs
<1>2. SameStore(r, r)  BY DEF SameStore
<1>3. CASE r.ph = "RecvWait" /\ m.kind = "data"
  <2> DEFINE s == [r EXCEPT !.started = TRUE, !.eotSeen = FALSE]
             o == Wait(s, "RecvBlk", 0)
             w == Written(s, m)
             a == Repeated(s)
  <2>1. r.st = "Running"  BY <1>3
  <2>2. m \in Blocks  BY <1>3 DEF Signs, Blocks
  <2>3. m.num \in Nat /\ m.from \in Nat /\ m.len \in Nat  BY <2>2 DEF Blocks
  <2>4. u = Block(r, m, fate)  BY <1>3 DEF RxFed, IsBlock
  <2>5. /\ s \in RxRec /\ s.num = r.num /\ s.got = r.got /\ s.eotSeen = FALSE
        /\ s.ctl = r.ctl /\ s.st = r.st /\ s.yHdr = FALSE /\ s.yFile = FALSE
    BY DEF RxRec
  <2>6. \/ u = o \/ u = Purge(s) \/ u = Placed(s, m, fate = "full")
    BY <2>4 DEF Block
  <2> HIDE DEF s, u
  <2>7. SameStore(r, s)  BY <2>5 DEF SameStore
  <2>8. CASE u = o
    <3>1. /\ o \in RxRec /\ o.num = s.num /\ o.got = s.got /\ o.eotSeen = s.eotSeen
          /\ o.ctl = s.ctl /\ o.st = s.st /\ o.ph = "RecvBlk"
      BY <2>5 DEF Wait, RxRec, ReceiverPh
    <3> HIDE DEF o
    <3>2. Owing(r, o)  BY <1>3, <2>1, <2>5, <3>1 DEF Owing, SameStore
    <3> QED  BY <1>3, <2>8, <3>1, <3>2 DEF u
  <2>9. CASE u = Purge(s)
    <3>1. u \in RxRec /\ (GaveUp(r, u) \/ Owing(r, u))
      BY <1>3, <2>1, <2>5, <2>7, <2>9, PurgeOwes
    <3> QED  BY <1>3, <3>1 DEF u
  <2>10. CASE u = Placed(s, m, fate = "full")
    <3>1. \/ u = AbortRx(s) \/ (m.num = s.num /\ u = w) \/ (m.num # s.num /\ u = a)
      BY <2>5, <2>10 DEF Placed
    <3>2. CASE u = AbortRx(s)
      BY <2>1, <2>5, <2>7, <3>2, ReceiverEnds DEF u
    <3>3. CASE m.num = s.num /\ u = w
      <4> DEFINE new == [i \in 1..m.len |-> m.from + i]
                 got == s.got \o new
                 num == (s.num + 1) % Mod
                 v == Wait(Say([s EXCEPT !.got = got, !.num = num, !.retries = 0], <<"ACK">>),
                           "RecvWait", BlockTime)
      <4>1. Take(s, m) = m.len  BY DEF Take
      <4>2. u = v
        <5> DEFINE stored(T) == Wait(Say([s EXCEPT !.got = @ \o [i \in 1..T |-> m.from + i],
                                              !.num = (@ + 1) % Mod, !.retries = 0],
                                    <<"ACK">>), "RecvWait", BlockTime)
        <5>1. Written(s, m) = stored(Take(s, m))  BY DEF Written
        <5>2. v = stored(m.len)  OBVIOUS
        <5> HIDE DEF stored, v
        <5> QED  BY <3>3, <4>1, <5>1, <5>2
      <4>3. num \in Nat
        <5>1. s.num \in Nat  BY <2>5 DEF RxRec
        <5> QED  BY <5>1, NumberTyped
      <4>4. /\ new \in Seq(Nat) /\ Len(new) = m.len
            /\ \A i \in 1..m.len : new[i] = m.from + i
        <5>1. \A i \in 1..m.len : m.from + i \in Nat  BY <2>3
        <5>2. new \in [1..m.len -> Nat]  BY <5>1
        <5>3. new \in Seq(Nat)  BY <2>3, <5>2
        <5> QED  BY <2>3, <5>3, LineFacts
      <4> HIDE DEF new
      <4>5. s.got \in Seq(Nat)  BY <2>5 DEF RxRec
      <4>6. /\ got \in Seq(Nat) /\ Len(got) = Len(s.got) + m.len
            /\ \A i \in 1..Len(s.got) : got[i] = s.got[i]
            /\ \A i \in 1..m.len : got[Len(s.got) + i] = m.from + i
        <5>1. got \in Seq(Nat) /\ Len(got) = Len(s.got) + m.len
          BY <4>4, <4>5, Joined
        <5>2. \A i \in 1..(Len(s.got) + Len(new)) :
                got[i] = IF i <= Len(s.got) THEN s.got[i] ELSE new[i - Len(s.got)]
          BY <4>4, <4>5, Joined
        <5>3. \A i \in 1..Len(s.got) : got[i] = s.got[i]  BY <2>3, <4>4, <4>5, <5>2
        <5>4. ASSUME NEW i \in 1..m.len  PROVE got[Len(s.got) + i] = m.from + i
          <6>1. Len(s.got) \in Nat /\ i \in Nat /\ i >= 1  BY <2>3, <4>5
          <6>2. Len(s.got) + i \in 1..(Len(s.got) + Len(new))  BY <2>3, <4>4, <6>1
          <6>3. ~(Len(s.got) + i <= Len(s.got)) /\ (Len(s.got) + i) - Len(s.got) = i  BY <6>1
          <6> QED  BY <4>4, <5>2, <6>2, <6>3
        <5> QED  BY <5>1, <5>3, <5>4
      <4> HIDE DEF got, num
      <4>7. /\ v \in RxRec /\ v.got = got /\ v.num = num /\ v.ctl = <<"ACK">>
            /\ v.st = s.st /\ v.ph = "RecvWait" /\ v.time = BlockTime /\ v.eotSeen = s.eotSeen
        BY <2>5, <4>3, <4>6, XmodemAssumption DEF Wait, Say, RxRec, ReceiverPh, ReceiverCtl
      <4> HIDE DEF v
      <4>8. Answers(r, v)  BY <1>3, <2>1, <2>5, <4>7 DEF Answers
      <4>9. Stores(r, v, m)  BY <2>5, <3>3, <4>6, <4>7, <4>8 DEF Stores, num
      <4> QED  BY <1>3, <4>2, <4>7, <4>9 DEF u
    <3>4. CASE m.num # s.num /\ u = a
      <4> DEFINE v == Wait(Say(s, <<"ACK">>), "RecvWait", BlockTime)
      <4>1. u = v  BY <3>4 DEF Repeated, HeaderAgain
      <4>2. /\ v \in RxRec /\ v.got = s.got /\ v.num = s.num /\ v.ctl = <<"ACK">>
            /\ v.st = s.st /\ v.ph = "RecvWait" /\ v.time = BlockTime /\ v.eotSeen = s.eotSeen
        BY <2>5, XmodemAssumption DEF Wait, Say, RxRec, ReceiverPh, ReceiverCtl
      <4> HIDE DEF v
      <4>3. Answers(r, v)  BY <1>3, <2>1, <2>5, <4>2 DEF Answers
      <4>4. Repeats(r, v, m)  BY <2>5, <3>4, <4>2, <4>3 DEF Repeats
      <4> QED  BY <1>3, <4>1, <4>2, <4>4 DEF u
    <3> QED  BY <3>1, <3>2, <3>3, <3>4
  <2> QED  BY <2>6, <2>8, <2>9, <2>10
<1>4. CASE r.ph = "RecvWait" /\ m.kind = "EOT"
  <2>1. u = Eot(r) /\ r.st = "Running"  BY <1>4 DEF RxFed, IsBlock
  <2>2. CASE r.eotSeen
    <3>1. u = EndOfFile(r)  BY <2>1, <2>2 DEF Eot
    <3> QED  BY <1>2, <2>1, <2>2, <3>1, ReceiverEnds
  <2>3. CASE ~r.eotSeen
    <3> DEFINE v == Wait(Say([r EXCEPT !.eotSeen = TRUE], <<"NAK">>), "RecvWait", BlockTime)
    <3>1. u = v  BY <2>1, <2>3 DEF Eot
    <3>2. /\ v \in RxRec /\ v.got = r.got /\ v.num = r.num /\ v.ctl = <<"NAK">>
          /\ v.st = r.st /\ v.ph = "RecvWait" /\ v.time = BlockTime
      BY XmodemAssumption DEF Wait, Say, RxRec, ReceiverPh, ReceiverCtl
    <3> HIDE DEF v
    <3>3. Nags(r, v)  BY <2>1, <3>2, ClocksAreLong DEF Nags
    <3> QED  BY <1>4, <3>1, <3>2, <3>3
  <2> QED  BY <2>2, <2>3
<1>5. CASE r.ph = "RecvWait" /\ m.kind = "CAN"
  <2>1. u = End(r, "Failed") /\ r.st = "Running"  BY <1>5 DEF RxFed, IsBlock
  <2> QED  BY <1>2, <2>1, ReceiverEnds
<1>6. CASE r.ph = "RecvBlk" /\ m.kind = "data"
  <2>1. u = Purge(r) /\ r.st = "Running"  BY <1>6 DEF RxFed, IsBlock
  <2> QED  BY <1>2, <1>6, <2>1, PurgeOwes
<1>7. CASE r.ph # "RecvWait" /\ ~(r.ph = "RecvBlk" /\ m.kind = "data")
  <2>1. u = r  BY <1>1, <1>7 DEF RxFed, IsBlock
  <2> QED  BY <2>1
<1> HIDE DEF u
<1> QED  BY <1>1, <1>3, <1>4, <1>5, <1>6, <1>7

\* Every answer the receiver can make of its clock.
LEMMA ReceiverTicks ==
  ASSUME rx \in RxRec, rx.st = "Running" <=> rx.ph # "Idle", ~job.ymodem, RxTick
  PROVE  /\ rx' \in RxRec
         /\ \/ GaveUp(rx, rx')
            \/ /\ Nags(rx, rx') /\ rx'.eotSeen = rx.eotSeen
               /\ Owes \/ (rx.ph = "RecvWait" /\ rx.time = 0)
<1>1. /\ rx.st = "Running" /\ rx.ph \in {"RecvWait", "RecvBlk", "RecvPurge"}
      /\ rx.ph = "RecvWait" => rx.time = 0
      /\ rx.yEnd = FALSE
  BY DEF RxTick, RxDue, Running, RxRec, ReceiverPh
<1>2. SameStore(rx, rx)  BY DEF SameStore
<1>3. ASSUME NEW x \in RxRec, x.num = rx.num, x.got = rx.got, x.st = "Running",
             x.eotSeen = rx.eotSeen, NEW c \in {<<"NAK">>, <<"C">>},
             NEW t \in {BlockTime, PollTime}
      PROVE  LET v == Wait(Say(x, c), "RecvWait", t)
             IN v \in RxRec /\ Nags(rx, v) /\ v.eotSeen = rx.eotSeen
  <2> DEFINE v == Wait(Say(x, c), "RecvWait", t)
  <2>1. /\ v \in RxRec /\ v.got = x.got /\ v.num = x.num /\ v.ctl = c
        /\ v.st = x.st /\ v.ph = "RecvWait" /\ v.time = t /\ v.eotSeen = x.eotSeen
    BY <1>3, XmodemAssumption DEF Wait, Say, RxRec, ReceiverPh, ReceiverCtl
  <2> HIDE DEF v
  <2>2. Nags(rx, v)  BY <1>3, <2>1, ClocksAreLong DEF Nags
  <2> QED  BY <1>3, <2>1, <2>2 DEF v
<1>4. ASSUME rx' = NakTimed(rx)
      PROVE  rx' \in RxRec /\ (GaveUp(rx, rx') \/ (Nags(rx, rx') /\ rx'.eotSeen = rx.eotSeen))
  <2> DEFINE b == Bumped(rx)
  <2>1. /\ b \in RxRec /\ b.num = rx.num /\ b.got = rx.got /\ b.eotSeen = rx.eotSeen
        /\ b.ctl = rx.ctl /\ b.st = rx.st
    BY BumpedReceiver
  <2>2. rx' = IF Spent(rx) THEN AbortRx(b) ELSE Wait(Say(b, <<"NAK">>), "RecvWait", BlockTime)
    BY <1>4 DEF NakTimed
  <2> HIDE DEF b
  <2>3. SameStore(rx, b)  BY <2>1 DEF SameStore
  <2> QED  BY <1>1, <1>3, <2>1, <2>2, <2>3, ReceiverEnds
<1>5. CASE rx.ph = "RecvPurge"
  <2>1. rx' = Wait(Say(rx, <<"NAK">>), "RecvWait", BlockTime)  BY <1>5 DEF RxTick
  <2> QED  BY <1>1, <1>3, <1>5, <2>1 DEF Owes
<1>6. CASE rx.ph = "RecvBlk"
  <2>1. rx' = NakTimed(rx)  BY <1>6 DEF RxTick
  <2> QED  BY <1>4, <1>6, <2>1 DEF Owes
<1>7. CASE rx.ph = "RecvWait"
  <2>1. rx' = Quiet(rx)  BY <1>7 DEF RxTick
  <2>2. \/ rx.eotSeen /\ rx' = EndOfFile(rx)
        \/ rx' = Poll(rx)
        \/ rx' = NakTimed(rx)
    BY <1>1, <2>1 DEF Quiet
  <2>3. CASE rx.eotSeen /\ rx' = EndOfFile(rx)
    BY <1>1, <1>2, <2>3, ReceiverEnds
  <2>4. CASE rx' = Poll(rx)
    <3> DEFINE c == rx.crc /\ ~(rx.polls >= kCrcPolls /\ ~job.ymodem)
               n == rx.polls + 1
               x == [rx EXCEPT !.crc = c, !.polls = n]
    <3>1. c \in BOOLEAN /\ n \in Nat  BY DEF RxRec
    <3>2. rx' = IF rx.polls >= kStartPolls THEN End(rx, "Failed")
                ELSE Wait(Say(x, IF c THEN <<"C">> ELSE <<"NAK">>), "RecvWait", PollTime)
      BY <2>4 DEF Poll
    <3> HIDE DEF c, n
    <3>3. /\ x \in RxRec /\ x.num = rx.num /\ x.got = rx.got /\ x.eotSeen = rx.eotSeen
          /\ x.st = rx.st
      BY <3>1 DEF RxRec
    <3> HIDE DEF x
    <3> QED  BY <1>1, <1>2, <1>3, <1>7, <3>2, <3>3, ReceiverEnds
  <2>5. CASE rx' = NakTimed(rx)  BY <1>1, <1>4, <1>7, <2>5
  <2> QED  BY <2>2, <2>3, <2>4, <2>5
<1> QED  BY <1>1, <1>5, <1>6, <1>7

-----------------------------------------------------------------------------
(* What the leaves below use of the types                                  *)

\* The fields of the sender, each with its type.
LEMMA SenderFields ==
  ASSUME NEW t \in TxRec
  PROVE  /\ t.num \in Nat /\ t.off \in Nat /\ t.len \in Nat /\ t.buf \in Nat /\ t.time \in Nat
         /\ t.big \in BOOLEAN /\ t.live \in BOOLEAN /\ t.selfNak \in BOOLEAN
         /\ t.ph \in SenderPh /\ t.st \in SenderSt /\ t.ctl \in SenderCtl
BY DEF TxRec

\* The fields of the receiver, each with its type.
LEMMA ReceiverFields ==
  ASSUME NEW r \in RxRec
  PROVE  /\ r.num \in Nat /\ r.time \in Nat /\ r.eotSeen \in BOOLEAN
         /\ r.got \in Seq(Nat) /\ Len(r.got) \in Nat /\ DOMAIN r.got = 1..Len(r.got)
         /\ r.ph \in ReceiverPh /\ r.st \in SenderSt /\ r.ctl \in ReceiverCtl
<1>1. /\ r.num \in Nat /\ r.time \in Nat /\ r.eotSeen \in BOOLEAN
      /\ r.got \in Seq(Nat)
      /\ r.ph \in ReceiverPh /\ r.st \in SenderSt /\ r.ctl \in ReceiverCtl
  BY DEF RxRec
<1> QED  BY <1>1, LineFacts

\* The units on the line to the receiver, and those left when the first has gone.
LEMMA FwdFields ==
  ASSUME NEW f \in Seq(OnFwd)
  PROVE  /\ \A i \in DOMAIN f : f[i].age \in 0..Latency /\ f[i].m \in Blocks \cup Signs
         /\ DataAt(f) \subseteq DOMAIN f
         /\ Cardinality(DataAt(f)) \in Nat /\ (Cardinality(DataAt(f)) = 0 <=> DataAt(f) = {})
         /\ f # <<>> => /\ Head(f).m \in Blocks \cup Signs /\ Head(f) = f[1]
                        /\ Tail(f) \in Seq(OnFwd) /\ 1 \in DOMAIN f
                        /\ \A i \in DOMAIN Tail(f) : i + 1 \in DOMAIN f /\ Tail(f)[i] = f[i + 1]
<1>1. /\ Len(f) \in Nat /\ DOMAIN f = 1..Len(f) /\ \A i \in DOMAIN f : f[i] \in OnFwd
  BY LineFacts
<1>2. DataAt(f) \in SUBSET (1..Len(f))  BY <1>1 DEF DataAt
<1>3. \A u \in OnFwd : u.age \in 0..Latency /\ u.m \in Blocks \cup Signs  BY DEF OnFwd
<1>4. f # <<>> => /\ Head(f) = f[1] /\ Tail(f) \in Seq(OnFwd) /\ 1 \in DOMAIN f
                  /\ \A i \in DOMAIN Tail(f) : i + 1 \in DOMAIN f /\ Tail(f)[i] = f[i + 1]
  BY LineFacts
<1> QED  BY <1>1, <1>2, <1>3, <1>4, PlacesFinite

\* The words on the line to the sender, and those left when the first has gone.
LEMMA BackFields ==
  ASSUME NEW b \in Seq(OnBack)
  PROVE  /\ \A i \in DOMAIN b : b[i].age \in 0..Latency /\ b[i].m \in {"ACK", "NAK", "C", "CAN"}
         /\ \A S : /\ WordsAt(b, S) \subseteq DOMAIN b
                   /\ Cardinality(WordsAt(b, S)) \in Nat
                   /\ Cardinality(WordsAt(b, S)) = 0 <=> WordsAt(b, S) = {}
         /\ DOMAIN b = 1..Len(b) /\ Len(b) \in Nat
         /\ b # <<>> => /\ Head(b).m \in {"ACK", "NAK", "C", "CAN"} /\ Head(b) = b[1]
                        /\ Tail(b) \in Seq(OnBack) /\ 1 \in DOMAIN b
                        /\ \A i \in DOMAIN Tail(b) : i + 1 \in DOMAIN b /\ Tail(b)[i] = b[i + 1]
<1>1. /\ Len(b) \in Nat /\ DOMAIN b = 1..Len(b) /\ \A i \in DOMAIN b : b[i] \in OnBack
  BY LineFacts
<1>2. \A S : WordsAt(b, S) \in SUBSET (1..Len(b))  BY <1>1 DEF WordsAt
<1>3. \A u \in OnBack : u.age \in 0..Latency /\ u.m \in {"ACK", "NAK", "C", "CAN"}  BY DEF OnBack
<1>4. b # <<>> => /\ Head(b) = b[1] /\ Tail(b) \in Seq(OnBack) /\ 1 \in DOMAIN b
                  /\ \A i \in DOMAIN Tail(b) : i + 1 \in DOMAIN b /\ Tail(b)[i] = b[i + 1]
  BY LineFacts
<1>5. \A S : /\ Cardinality(WordsAt(b, S)) \in Nat
             /\ Cardinality(WordsAt(b, S)) = 0 <=> WordsAt(b, S) = {}
  BY <1>1, <1>2, PlacesFinite
<1> QED  BY <1>1, <1>2, <1>3, <1>4, <1>5

\* The copies on a line are counted by a number, 0 when there are none.
LEMMA DataCount ==
  ASSUME NEW f \in Seq(OnFwd)
  PROVE  /\ Cardinality(DataAt(f)) \in Nat
         /\ Cardinality(DataAt(f)) = 0 <=> DataAt(f) = {}
BY FwdFields

\* The words of a kind are counted by a number, 0 when there are none.
LEMMA WordCount ==
  ASSUME NEW b \in Seq(OnBack), NEW S
  PROVE  /\ Cardinality(WordsAt(b, S)) \in Nat
         /\ Cardinality(WordsAt(b, S)) = 0 <=> WordsAt(b, S) = {}
BY BackFields

\* What One counts.
LEMMA Ones == \A p \in BOOLEAN : One(p) \in {0, 1} /\ (One(p) = 1 <=> p) /\ (One(p) = 0 <=> ~p)
BY DEF One

\* The types of the parts of the state.
LEMMA LineTypes ==
  ASSUME Types
  PROVE  /\ tx \in TxRec /\ rx \in RxRec /\ fwd \in Seq(OnFwd) /\ back \in Seq(OnBack)
         /\ job \in Jobs
BY DEF Types

\* The counts are numbers, and 0 means none anywhere.
LEMMA Counts ==
  ASSUME Types
  PROVE  /\ Copies \in Nat /\ Acks \in Nat /\ Naks \in Nat
         /\ Cardinality(DataAt(fwd)) \in Nat /\ Copies = Cardinality(DataAt(fwd)) + One(tx.live)
         /\ Copies = 0 => DataAt(fwd) = {} /\ ~tx.live
         /\ Acks = 0 => WordsAt(back, {"ACK"}) = {} /\ rx.ctl # <<"ACK">>
         /\ Naks = 0 => WordsAt(back, Asks) = {} /\ ~Asking /\ ~Owes
<1>1. tx.live \in BOOLEAN  BY LineTypes, SenderFields
<1>2. /\ Cardinality(DataAt(fwd)) \in Nat
      /\ Cardinality(DataAt(fwd)) = 0 <=> DataAt(fwd) = {}
  BY LineTypes, DataCount
<1>3. /\ Cardinality(WordsAt(back, {"ACK"})) \in Nat
      /\ Cardinality(WordsAt(back, {"ACK"})) = 0 <=> WordsAt(back, {"ACK"}) = {}
  BY LineTypes, WordCount
<1>4. /\ Cardinality(WordsAt(back, Asks)) \in Nat
      /\ Cardinality(WordsAt(back, Asks)) = 0 <=> WordsAt(back, Asks) = {}
  BY LineTypes, WordCount
<1>5. Copies \in Nat /\ (Copies = 0 => DataAt(fwd) = {} /\ ~tx.live)
  BY <1>1, <1>2, Ones DEF Copies
<1>6. Acks \in Nat /\ (Acks = 0 => WordsAt(back, {"ACK"}) = {} /\ rx.ctl # <<"ACK">>)
  BY <1>3 DEF Acks, One
<1>7. Naks \in Nat /\ (Naks = 0 => WordsAt(back, Asks) = {} /\ ~Asking /\ ~Owes)
  BY <1>4 DEF Naks, One
<1> QED  BY <1>2, <1>5, <1>6, <1>7 DEF Copies

\* What the budget says of its parts.
LEMMA WithinFacts ==
  ASSUME NEW c \in Nat, NEW a \in Nat, NEW n \in Nat, NEW s \in {0, 1}, Within(c, a, n, s)
  PROVE  /\ c <= 1 /\ a <= 1 /\ n <= 2 /\ n <= 1 + s
         /\ c # 0 => a = 0 /\ n <= s
         /\ a # 0 => c = 0 /\ n <= s
         /\ n > s => c = 0 /\ a = 0
         /\ n >= 1 /\ s = 0 => n = 1
BY DEF Within

\* Words that go leave room.
LEMMA WithinLess ==
  ASSUME NEW c \in Nat, NEW a \in Nat, NEW n \in Nat, NEW s \in {0, 1}, Within(c, a, n, s),
         NEW a2 \in Nat, NEW n2 \in Nat, a2 <= a, n2 <= n
  PROVE  Within(c, a2, n2, s)
BY DEF Within

\* A stale NAK dropped takes its allowance with it.
LEMMA WithinOneLess ==
  ASSUME NEW c \in Nat, NEW a \in Nat, NEW n \in Nat, NEW s \in {0, 1}, Within(c, a, n, s),
         NEW n2 \in Nat, n2 = n - 1
  PROVE  Within(c, a, n2, 0)
BY DEF Within

\* A block just taken in hand, with no more about than one stale word.
LEMMA WithinFresh ==
  ASSUME NEW n \in Nat, NEW s \in {0, 1}, n <= s
  PROVE  Within(1, 0, n, s)
BY DEF Within

\* The size of a large block.
LEMMA KTyped == K \in Nat /\ K >= 2 /\ Mod \in Nat /\ Mod >= 3
BY XmodemAssumption

\* The file's size is a number.
LEMMA SizeTyped == ASSUME NEW j \in Jobs  PROVE j.size \in Nat /\ j.big \in BOOLEAN
BY XmodemAssumption

\* A step that leaves the block in hand and what is stored as they are.
LEMMA PlaceKept ==
  ASSUME PlaceOK, Exact, job' = job, SameBlock(tx, tx'), rx'.num = rx.num, rx'.got = rx.got
  PROVE  PlaceOK' /\ Exact' /\ (Uncut' <=> Uncut) /\ (Next1 <=> Next1') /\ (Same <=> Same')
BY DEF PlaceOK, Exact, Uncut, Same, Next1, SameBlock

-----------------------------------------------------------------------------
(* Steps of the sender                                                     *)

Bystanders == job' = job /\ left' \in Lefts /\ left'.eot = 0

\* The sender stops.
LEMMA StoppedKeeps ==
  ASSUME XInv, Bystanders, tx' \in TxRec, Stopped(tx, tx'), rx' = rx, fwd' = fwd,
         back' = back \/ (back # <<>> /\ back' = Tail(back))
  PROVE  XInv'
<1> USE DEF XInv, Bystanders
<1>1. Types'  BY BackFields DEF Types
<1>2. SameBlock(tx, tx') /\ tx.st = "Running" /\ tx'.ph = "Idle" /\ (tx'.live => tx.live)
  BY DEF Stopped
<1>3. tx'.st \in {"Failed", "Done"} /\ (tx'.st = "Done" => tx.ph = "SendEotAck" /\ ~tx'.live)
  BY <1>2 DEF Stopped, Phases
<1>4. ~Early'  BY <1>2, <1>3 DEF Early
<1>5. Phases'  BY <1>2, <1>3 DEF Phases
<1>6. InFile'  BY <1>2 DEF InFile, SameBlock
<1>7. CopiesOK'  BY <1>2 DEF CopiesOK, SameBlock
<1>8. PlaceOK' /\ Exact'  BY <1>2, PlaceKept
<1>9. EndOK'
  <2>1. Ending' => Ending  BY <1>3 DEF Ending, Stopped
  <2> QED  BY <1>2, <1>4, <2>1 DEF EndOK, SameBlock
<1> QED  BY <1>1, <1>4, <1>5, <1>6, <1>7, <1>8, <1>9 DEF Turns

\* The end of the file is talked over.
LEMMA EndTalkKeeps ==
  ASSUME XInv, Bystanders, tx' \in TxRec, EndTalk(tx, tx'), rx' = rx, fwd' = fwd,
         back' = back \/ (back # <<>> /\ back' = Tail(back))
  PROVE  XInv'
<1> USE DEF XInv, Bystanders
<1>1. Types'  BY BackFields DEF Types
<1>2. /\ SameBlock(tx, tx') /\ tx.ph \in EotPh /\ tx'.ph \in EotPh /\ tx'.st = "Running"
      /\ tx'.live = tx.live /\ tx.st = "Running"
  BY DEF EndTalk, Phases, EotPh
<1>3. ~tx.live /\ ~tx'.live  BY <1>2 DEF Phases, EotPh
<1>4. ~Early' /\ Ending  BY <1>2 DEF Early, Ending, EotPh
<1>5. Phases'  BY <1>2, <1>3 DEF Phases, EotPh
<1>6. InFile'  BY <1>2, <1>3 DEF InFile, SameBlock, EotPh
<1>7. CopiesOK'  BY <1>2 DEF CopiesOK, SameBlock
<1>8. PlaceOK' /\ Exact'  BY <1>2, PlaceKept
<1>9. EndOK'  BY <1>2, <1>4 DEF EndOK, SameBlock
<1> QED  BY <1>1, <1>4, <1>5, <1>6, <1>7, <1>8, <1>9 DEF Turns

\* What becomes of the words when the first of them is heard or lost.
LEMMA WordGone ==
  ASSUME Types, rx' = rx, back # <<>>, back' = Tail(back)
  PROVE  /\ Acks' = Acks - One(Head(back).m = "ACK") /\ Naks' = Naks - One(Head(back).m \in Asks)
         /\ Acks \in Nat /\ Naks \in Nat /\ Acks' \in Nat /\ Naks' \in Nat
         /\ (Asking' <=> Asking) /\ (Owes' <=> Owes)
         /\ \A i \in DOMAIN back' : i + 1 \in DOMAIN back /\ back'[i] = back[i + 1]
         /\ \A S : \A i \in WordsAt(back', S) :
              i + 1 \in WordsAt(back, S) /\ back'[i] = back[i + 1]
         /\ \A i \in WordsAt(back, Asks) :
              \/ i = 1 /\ Head(back).m \in Asks
              \/ i - 1 \in WordsAt(back', Asks) /\ back'[i - 1] = back[i]
<1>1. back \in Seq(OnBack)  BY DEF Types
<1>2. \A S : Cardinality(WordsAt(back', S)) =
               Cardinality(WordsAt(back, S)) - (IF Head(back).m \in S THEN 1 ELSE 0)
  BY <1>1, WordsTail
<1>3. \A S : /\ Cardinality(WordsAt(back', S)) \in Nat
             /\ Cardinality(WordsAt(back, S)) \in Nat
  BY <1>1, BackFields
<1>4. (Asking' <=> Asking) /\ (Owes' <=> Owes)  BY DEF Asking, Owes
<1>5. Acks' = Acks - One(Head(back).m = "ACK") /\ Acks \in Nat /\ Acks' \in Nat
  <2>1. Head(back).m \in {"ACK"} <=> Head(back).m = "ACK"  OBVIOUS
  <2> QED  BY <1>2, <1>3, <2>1 DEF Acks, One
<1>6. Naks' = Naks - One(Head(back).m \in Asks) /\ Naks \in Nat /\ Naks' \in Nat
  BY <1>2, <1>3, <1>4 DEF Naks, One
<1>7. \A i \in DOMAIN back' : i + 1 \in DOMAIN back /\ back'[i] = back[i + 1]
  BY <1>1, BackFields
<1>8. \A S : \A i \in WordsAt(back', S) :
        i + 1 \in WordsAt(back, S) /\ back'[i] = back[i + 1]
  BY <1>1, WordsTail
<1>9. ASSUME NEW i \in WordsAt(back, Asks)
      PROVE  \/ i = 1 /\ Head(back).m \in Asks
             \/ i - 1 \in WordsAt(back', Asks) /\ back'[i - 1] = back[i]
  <2>1. i = 1 \/ i - 1 \in WordsAt(back', Asks)  BY <1>1, WordsTail
  <2>2. i \in Nat /\ back[i].m \in Asks /\ Head(back) = back[1]
    BY <1>1, BackFields DEF WordsAt
  <2>3. i - 1 \in WordsAt(back', Asks) => back'[i - 1] = back[i]
    <3>1. i - 1 \in WordsAt(back', Asks) => back'[i - 1] = back[(i - 1) + 1]  BY <1>8, <2>2
    <3>2. (i - 1) + 1 = i  BY <2>2
    <3> QED  BY <3>1, <3>2
  <2> QED  BY <2>1, <2>2, <2>3
<1> QED  BY <1>4, <1>5, <1>6, <1>7, <1>8, <1>9

\* The numbers alone.
LEMMA WordGoneCounts ==
  ASSUME Types, rx' = rx, back # <<>>, back' = Tail(back)
  PROVE  /\ Acks' = IF Head(back).m = "ACK" THEN Acks - 1 ELSE Acks
         /\ Naks' = IF Head(back).m \in Asks THEN Naks - 1 ELSE Naks
         /\ Acks' <= Acks /\ Naks' <= Naks
         /\ Acks \in Nat /\ Naks \in Nat /\ Acks' \in Nat /\ Naks' \in Nat
<1>1. /\ Acks' = Acks - One(Head(back).m = "ACK") /\ Naks' = Naks - One(Head(back).m \in Asks)
      /\ Acks \in Nat /\ Naks \in Nat /\ Acks' \in Nat /\ Naks' \in Nat
  BY WordGone
<1> QED  BY <1>1 DEF One

\* The places alone.
LEMMA WordGonePlaces ==
  ASSUME Types, rx' = rx, back # <<>>, back' = Tail(back)
  PROVE  /\ \A i \in DOMAIN back' : i + 1 \in DOMAIN back /\ back'[i] = back[i + 1]
         /\ \A i \in WordsAt(back', {"ACK"}) :
              i \in Nat /\ i + 1 \in WordsAt(back, {"ACK"}) /\ back'[i] = back[i + 1]
         /\ \A i \in WordsAt(back', Asks) : i \in Nat /\ i + 1 \in WordsAt(back, Asks)
<1>1. back' \in Seq(OnBack)  BY LineTypes, BackFields
<1>2. \A S : WordsAt(back', S) \subseteq Nat
  <2>1. DOMAIN back' \subseteq Nat  BY <1>1, BackFields
  <2> QED  BY <2>1 DEF WordsAt
<1> QED  BY <1>2, WordGone

\* An answer means what it did when a word has gone.
LEMMA AnsweredKept ==
  ASSUME Types, Answered, rx' = rx, back # <<>>, back' = Tail(back), Next1 => Next1'
  PROVE  Answered'
<1>1. Acks' # 0 => Acks # 0  BY WordGoneCounts
<1>2. Owes' <=> Owes  BY DEF Owes
<1>3. Asking' <=> Asking  BY DEF Asking
<1>4. Acks' # 0 => Next1' /\ ~Owes'  BY <1>1, <1>2 DEF Answered
<1>5. ASSUME NEW i \in WordsAt(back', {"ACK"})
      PROVE  ~Asking' /\ \A j \in WordsAt(back', Asks) : j < i
  <2>1. i \in Nat /\ i + 1 \in WordsAt(back, {"ACK"})  BY WordGonePlaces
  <2>2. ~Asking /\ \A j \in WordsAt(back, Asks) : j < i + 1  BY <2>1 DEF Answered
  <2>3. \A j \in WordsAt(back', Asks) : j \in Nat /\ j + 1 < i + 1  BY <2>2, WordGonePlaces
  <2> QED  BY <1>3, <2>1, <2>2, <2>3
<1> QED  BY <1>4, <1>5 DEF Answered

\* A word heard was on its way less long than the receiver waits.
LEMMA HeardInTime ==
  ASSUME Types, RxClock, rx.ph = "RecvWait", rx' = rx, back # <<>>, back' = Tail(back)
  PROVE  /\ \A i \in DOMAIN back' : rx.time + back'[i].age >= Trip
         /\ rx.ctl # <<>> => rx.time >= Trip
         /\ rx.time + Latency >= Trip
<1>1. \A i \in DOMAIN back : rx.time + back[i].age >= Trip  BY DEF RxClock
<1>2. rx.ctl # <<>> => rx.time >= Trip  BY DEF RxClock
<1>3. 1 \in DOMAIN back /\ back[1].age \in 0..Latency /\ rx.time \in Nat
  BY BackFields, ReceiverFields DEF Types
<1>4. rx.time + Latency >= Trip  BY <1>1, <1>3, ClocksAreLong
<1> QED  BY <1>1, <1>2, <1>4, WordGone

\* With a block in hand and no other about, and no word asking for another.
LEMMA FreshTurns ==
  ASSUME tx'.ph = "SendData", tx'.live, tx'.selfNak \in BOOLEAN,
         fwd' \in Seq(OnFwd), back' \in Seq(OnBack), DataAt(fwd') = {},
         Acks' = 0, Naks' \in Nat, Naks' <= One(tx'.selfNak),
         rx'.ph = "RecvWait" => /\ \A i \in DOMAIN back' : rx'.time + back'[i].age >= Trip
                                /\ rx'.ctl # <<>> => rx'.time >= Trip
                                /\ ~tx'.selfNak => rx'.time + Latency >= Trip
  PROVE  Turns'
<1>1. Copies' = 1
  <2>1. Cardinality(DataAt(fwd')) = 0  BY DataCount
  <2> QED  BY <2>1 DEF Copies, One
<1>2. Budget'
  <2>1. One(tx'.selfNak) \in {0, 1}  BY Ones
  <2>2. Within(1, 0, Naks', One(tx'.selfNak))  BY <2>1, WithinFresh
  <2> QED  BY <1>1, <2>2 DEF Budget
<1>3. WordsAt(back', {"ACK"}) = {}
  <2>1. /\ Cardinality(WordsAt(back', {"ACK"})) \in Nat
        /\ Cardinality(WordsAt(back', {"ACK"})) = 0 <=> WordsAt(back', {"ACK"}) = {}
    BY WordCount
  <2> QED  BY <2>1 DEF Acks, One
<1>7. Unsent'  BY DEF Unsent
<1>4. Answered'  BY <1>3 DEF Answered
<1>5. TxClock'  BY DEF TxClock
<1>6. RxClock'  BY DEF RxClock
<1> QED  BY <1>2, <1>4, <1>5, <1>6, <1>7 DEF Turns

\* A word is lost, or heard and not waited for.
LEMMA WordLostKeeps ==
  ASSUME XInv, Bystanders, tx' = tx, rx' = rx, fwd' = fwd, back # <<>>, back' = Tail(back)
  PROVE  XInv'
<1> USE DEF XInv, Bystanders
<1>1. Types'  BY BackFields DEF Types
<1>2. Phases'  BY DEF Phases
<1>3. InFile' /\ CopiesOK'  BY DEF InFile, CopiesOK
<1>4. PlaceOK' /\ Exact' /\ (Next1 => Next1') /\ (Same => Same')  BY PlaceKept DEF SameBlock
<1>5. EndOK'  BY DEF EndOK, Ending, Early
<1>6. ASSUME Early  PROVE Budget' /\ Unsent' /\ Answered' /\ TxClock' /\ RxClock'
  <2>1. Budget /\ Unsent /\ Answered /\ TxClock /\ RxClock  BY <1>6 DEF Turns
  <2>2. Copies' = Copies /\ Copies \in Nat  BY Counts DEF Copies
  <2>3. One(tx.selfNak) \in {0, 1} /\ One(tx'.selfNak) = One(tx.selfNak)
    BY LineTypes, SenderFields, Ones
  <2>8. /\ Acks' <= Acks /\ Naks' <= Naks
        /\ Acks \in Nat /\ Naks \in Nat /\ Acks' \in Nat /\ Naks' \in Nat
    BY WordGoneCounts
  <2>4. Budget'
    <3>1. Within(Copies, Acks, Naks, One(tx.selfNak))  BY <2>1 DEF Budget
    <3>2. Within(Copies, Acks', Naks', One(tx.selfNak))
      BY <2>2, <2>3, <2>8, <3>1, WithinLess
    <3> QED  BY <2>2, <2>3, <3>2 DEF Budget
  <2>9. Unsent'  BY <1>4, <2>1, <2>2, <2>8 DEF Unsent
  <2>5. Answered'  BY <1>4, <2>1, AnsweredKept
  <2>7. TxClock'
    <3>1. Naks' >= 2 => Naks >= 2 /\ Head(back).m \notin Asks
      <4>1. Within(Copies, Acks, Naks, One(tx.selfNak))  BY <2>1 DEF Budget
      <4>2. Naks <= 2  BY <2>2, <2>3, <2>8, <4>1, WithinFacts
      <4> QED  BY <2>8, <4>2, WordGoneCounts
    <3>2. Owes' <=> Owes  BY DEF Owes
    <3>3. Asking' <=> Asking  BY DEF Asking
    <3>4. ASSUME Naks' >= 2, tx.ph = "SendAck"
          PROVE  \/ Owes'
                 \/ Asking' /\ tx'.time + Latency >= BlockTime
                 \/ \E i \in WordsAt(back', Asks) : tx'.time + Latency + back'[i].age >= BlockTime
      <4>1. \/ Owes
            \/ Asking /\ tx.time + Latency >= BlockTime
            \/ \E i \in WordsAt(back, Asks) : tx.time + Latency + back[i].age >= BlockTime
        BY <2>1, <3>1, <3>4 DEF TxClock
      <4>2. ASSUME NEW i \in WordsAt(back, Asks), tx.time + Latency + back[i].age >= BlockTime
            PROVE  \E k \in WordsAt(back', Asks) : tx'.time + Latency + back'[k].age >= BlockTime
        <5>1. i - 1 \in WordsAt(back', Asks) /\ back'[i - 1] = back[i]
          BY <3>1, <3>4, WordGone
        <5> QED  BY <4>2, <5>1
      <4> QED  BY <3>2, <3>3, <4>1, <4>2
    <3>5. /\ \A i \in DataAt(fwd') : tx'.ph = "SendAck" => tx'.time + fwd'[i].age >= BlockTime
          /\ tx.ph = "SendAck" /\ (rx'.ctl = <<"ACK">> \/ Owes') => tx'.time + Latency >= BlockTime
      BY <2>1, <3>2 DEF TxClock
    <3>6. ASSUME tx.ph = "SendAck", NEW i \in WordsAt(back', {"ACK"})
          PROVE  tx'.time + Latency + back'[i].age >= BlockTime
      BY <2>1, <3>6, WordGonePlaces DEF TxClock
    <3> QED  BY <3>4, <3>5, <3>6 DEF TxClock
  <2>6. RxClock'  BY <2>1, WordGone DEF RxClock
  <2> QED  BY <2>4, <2>5, <2>6, <2>7, <2>9
<1> QED  BY <1>1, <1>2, <1>3, <1>4, <1>5, <1>6 DEF Turns, Early

\* A NAK for a block already sent again is let go by.
LEMMA StaleKeeps ==
  ASSUME XInv, Bystanders, tx' \in TxRec, Stale(tx, tx'), tx.ph = "SendAck", rx' = rx,
         fwd' = fwd, back # <<>>, back' = Tail(back), Head(back).m = "NAK"
  PROVE  XInv'
<1> USE DEF XInv, Bystanders
<1>1. Types'  BY BackFields DEF Types
<1>2. /\ SameBlock(tx, tx') /\ tx'.st = tx.st /\ tx'.ph = tx.ph /\ tx'.live = tx.live
      /\ tx'.ctl = tx.ctl /\ tx'.time = tx.time /\ ~tx'.selfNak
  BY DEF Stale
<1>3. Early /\ Early'  BY <1>2 DEF Early
<1>4. Phases'  BY <1>2 DEF Phases
<1>5. InFile' /\ CopiesOK'  BY <1>2 DEF InFile, CopiesOK, SameBlock
<1>6. PlaceOK' /\ Exact' /\ (Next1 => Next1')  BY <1>2, PlaceKept
<1>7. EndOK'
  <2>1. Ending' => Ending  BY <1>2 DEF Ending
  <2> QED  BY <1>3, <2>1 DEF EndOK
<1>8. Budget /\ Answered /\ TxClock /\ RxClock  BY <1>3 DEF Turns
<1>9. Copies' = Copies /\ Copies \in Nat  BY <1>2, Counts DEF Copies
<1>10. Head(back).m \in Asks  BY DEF Asks
<1>11. /\ Naks' = Naks - 1 /\ Acks' = Acks /\ Acks \in Nat /\ Naks \in Nat /\ Naks' \in Nat
       /\ One(tx.selfNak) \in {0, 1} /\ One(tx'.selfNak) = 0
  BY <1>2, <1>10, WordGoneCounts, LineTypes, SenderFields, Ones
<1>16. Budget'
  <2>1. Within(Copies, Acks, Naks, One(tx.selfNak))  BY <1>8 DEF Budget
  <2>2. Within(Copies, Acks, Naks', 0)  BY <1>9, <1>11, <2>1, WithinOneLess
  <2> QED  BY <1>2, <1>9, <1>11, <2>2 DEF Budget
<1>12. Answered'  BY <1>6, <1>8, AnsweredKept
<1>17. Unsent'  BY <1>2 DEF Unsent
<1>13. Naks' <= 1  BY <1>9, <1>11, <1>16, WithinFacts DEF Budget
<1>14. TxClock'
  <2>1. ~(Naks' >= 2)  BY <1>11, <1>13
  <2>2. Owes' <=> Owes  BY DEF Owes
  <2> QED  BY <1>2, <1>8, <2>1, <2>2, WordGonePlaces DEF TxClock
<1>15. RxClock'
  <2> SUFFICES ASSUME rx.ph = "RecvWait"
               PROVE  /\ \A i \in DOMAIN back' : rx.time + back'[i].age >= Trip
                      /\ rx.ctl # <<>> => rx.time >= Trip
                      /\ tx.live => rx.time + Latency >= Trip
                      /\ \A i \in DataAt(fwd) : rx.time + Latency + fwd[i].age >= Trip
    BY <1>2 DEF RxClock
  <2>1. /\ \A i \in DOMAIN back' : rx.time + back'[i].age >= Trip
        /\ rx.ctl # <<>> => rx.time >= Trip
        /\ rx.time + Latency >= Trip
    BY <1>8, HeardInTime
  <2>2. rx.time \in Nat  BY LineTypes, ReceiverFields
  <2>3. \A i \in DataAt(fwd) : fwd[i].age \in Nat  BY LineTypes, FwdFields, ClocksAreLong
  <2>4. \A i \in DataAt(fwd) : rx.time + Latency + fwd[i].age >= Trip
    BY <2>1, <2>2, <2>3, ClocksAreLong
  <2> QED  BY <2>1, <2>4
<1> QED  BY <1>1, <1>4, <1>5, <1>6, <1>7, <1>8, <1>16, <1>17, <1>12, <1>14, <1>15 DEF Turns

\* The block is in hand once more: what is not about whose turn it is.
LEMMA ResentPlace ==
  ASSUME XInv, Bystanders, tx' \in TxRec, Resent(tx, tx'), tx.ph = "SendAck", rx' = rx,
         fwd' = fwd, DataAt(fwd) = {}, back' = back \/ (back # <<>> /\ back' = Tail(back))
  PROVE  /\ Types' /\ Phases' /\ InFile' /\ CopiesOK' /\ PlaceOK' /\ Exact' /\ EndOK'
         /\ tx'.ph = "SendData" /\ tx'.live
<1> USE DEF XInv, Bystanders
<1>1. Types'  BY BackFields DEF Types
<1>2. /\ tx'.st = "Running" /\ tx'.ph = "SendData" /\ tx'.live /\ tx'.ctl = tx.ctl
      /\ tx'.num = tx.num /\ tx'.off = tx.off /\ tx'.buf = tx.buf
      /\ \/ tx'.len = tx.len /\ tx'.big = tx.big
         \/ tx'.len = 1 /\ tx.big /\ ~tx'.big
  BY DEF Resent
<1>3. /\ tx.len \in 1..K /\ tx.off + tx.len <= tx.buf /\ (tx.big => job.big) /\ tx.num < Mod
      /\ tx.buf <= job.size /\ tx.off <= tx.buf
  BY DEF InFile
<1>4. tx'.len \in 1..tx.len /\ (Uncut' => Uncut /\ tx'.len = tx.len)
  <2>1. job.big \in BOOLEAN /\ tx'.big \in BOOLEAN /\ tx.len \in Nat /\ tx.len >= 1
    BY <1>3, LineTypes, SizeTyped, SenderFields
  <2>2. CASE tx'.len = tx.len /\ tx'.big = tx.big  BY <2>1, <2>2 DEF Uncut
  <2>3. CASE tx'.len = 1 /\ tx.big /\ ~tx'.big
    <3>1. job.big = TRUE /\ tx'.big = FALSE /\ job' = job  BY <1>3, <2>1, <2>3
    <3>2. ~Uncut'  BY <3>1 DEF Uncut
    <3> QED  BY <2>1, <2>3, <3>2
  <2> QED  BY <1>2, <2>2, <2>3
<1>5. tx.off \in Nat /\ tx.len \in Nat /\ tx.buf \in Nat /\ Len(rx.got) \in Nat
  BY SenderFields, ReceiverFields DEF Types
<1>6. rx.st # "Idle"  BY DEF Phases
<1>7. Phases'  BY <1>2, <1>6 DEF Phases
<1>8. InFile'
  <2>1. tx'.len \in 1..K /\ tx.off + tx'.len <= tx.buf
    BY <1>3, <1>4, <1>5, KTyped
  <2>2. tx'.big => job.big  BY <1>2, <1>3, SenderFields DEF Types
  <2> QED  BY <1>2, <1>3, <2>1, <2>2 DEF InFile
<1>9. CopiesOK'  BY DEF CopiesOK
<1>10. PlaceOK'
  <2>1. CASE Same  BY <1>2, <1>4, <2>1 DEF PlaceOK, Same
  <2>2. CASE Next1
    <3>1. /\ rx'.num = (tx'.num + 1) % Mod
          /\ tx'.off + tx'.len <= Len(rx'.got) /\ tx'.off + tx'.len <= tx'.buf
      BY <1>2, <1>4, <1>5, <2>2 DEF Next1
    <3>2. Uncut' => Len(rx'.got) = tx'.off + tx'.len  BY <1>2, <1>4, <2>2 DEF Next1
    <3> QED  BY <3>1, <3>2 DEF PlaceOK, Next1
  <2> QED  BY <2>1, <2>2 DEF PlaceOK
<1>11. Exact'  BY <1>4 DEF Exact
<1>12. EndOK'
  <2>1. Ending' => Ending  BY <1>2 DEF Ending
  <2>2. Early  BY DEF Early
  <2> QED  BY <2>1, <2>2 DEF EndOK
<1> QED  BY <1>1, <1>2, <1>7, <1>8, <1>9, <1>10, <1>11, <1>12

\* The block is sent again for a NAK.
LEMMA NakkedKeeps ==
  ASSUME XInv, Bystanders, tx' \in TxRec, Resent(tx, tx'), tx.ph = "SendAck",
         ~tx.selfNak, ~tx'.selfNak, rx' = rx, fwd' = fwd,
         back # <<>>, back' = Tail(back), Head(back).m = "NAK"
  PROVE  XInv'
<1> USE DEF XInv
<1>1. Budget /\ RxClock  BY DEF Turns, Early
<1>2. Copies \in Nat /\ (Copies = 0 => DataAt(fwd) = {})  BY Counts
<1>3. Head(back).m \in Asks  BY DEF Asks
<1>4. DataAt(fwd) = {} /\ Naks' = 0 /\ Acks' = 0
  <2>1. /\ Naks' = Naks - 1 /\ Acks' = Acks /\ Acks \in Nat /\ Naks \in Nat /\ Naks' \in Nat
    BY <1>3, WordGoneCounts
  <2>2. One(tx.selfNak) = 0  BY DEF One
  <2>3. Within(Copies, Acks, Naks, 0)  BY <1>1, <2>2 DEF Budget
  <2>4. Copies = 0 /\ Acks = 0 /\ Naks = 1  BY <1>2, <2>1, <2>3, WithinFacts
  <2> QED  BY <1>2, <2>1, <2>4
<1>5. /\ Types' /\ Phases' /\ InFile' /\ CopiesOK' /\ PlaceOK' /\ Exact' /\ EndOK'
      /\ tx'.ph = "SendData" /\ tx'.live
  BY <1>4, ResentPlace
<1>6. tx'.selfNak \in BOOLEAN /\ fwd' \in Seq(OnFwd) /\ back' \in Seq(OnBack) /\ DataAt(fwd') = {}
  BY <1>4, <1>5, SenderFields DEF Types
<1>7. rx'.ph = "RecvWait" => /\ \A i \in DOMAIN back' : rx'.time + back'[i].age >= Trip
                             /\ rx'.ctl # <<>> => rx'.time >= Trip
                             /\ ~tx'.selfNak => rx'.time + Latency >= Trip
  BY <1>1, HeardInTime
<1>8. Naks' \in Nat /\ Naks' <= One(tx'.selfNak)  BY <1>4, <1>6 DEF One
<1>9. Turns'  BY <1>4, <1>5, <1>6, <1>7, <1>8, FreshTurns
<1> QED  BY <1>5, <1>9

\* The block is sent again because no answer came: none can have been under way.
LEMMA TimedKeeps ==
  ASSUME XInv, Bystanders, tx' \in TxRec, Resent(tx, tx'), tx.ph = "SendAck", tx.time = 0,
         tx'.selfNak, rx' = rx, fwd' = fwd, back' = back
  PROVE  XInv'
<1> USE DEF XInv
<1>1. TxClock /\ RxClock  BY DEF Turns, Early
<1>2. BlockTime > 2 * Latency /\ Latency \in Nat /\ BlockTime \in Nat  BY ClocksAreLong, LineAssumption
<1>3. DataAt(fwd) = {}
  <2> SUFFICES ASSUME NEW i \in DataAt(fwd)  PROVE FALSE  OBVIOUS
  <2>1. fwd[i].age >= BlockTime
    <3>1. tx.time + fwd[i].age >= BlockTime  BY <1>1 DEF TxClock
    <3>2. fwd[i].age \in 0..Latency  BY LineTypes, FwdFields
    <3> QED  BY <1>2, <3>1, <3>2
  <2>2. fwd[i].age \in 0..Latency  BY LineTypes, FwdFields
  <2> QED  BY <1>2, <2>1, <2>2
<1>4. \A i \in DOMAIN back : ~(tx.time + Latency + back[i].age >= BlockTime)
  <2> SUFFICES ASSUME NEW i \in DOMAIN back  PROVE ~(tx.time + Latency + back[i].age >= BlockTime)
    OBVIOUS
  <2>1. back[i].age \in 0..Latency  BY LineTypes, BackFields
  <2> QED  BY <1>2, <2>1
<1>5. ~(tx.time + Latency >= BlockTime)  BY <1>2
<1>6. \A S : WordsAt(back, S) \subseteq DOMAIN back  BY LineTypes, BackFields
<1>7. WordsAt(back, {"ACK"}) = {}  BY <1>1, <1>4, <1>6 DEF TxClock
<1>8. rx.ctl # <<"ACK">> /\ ~Owes  BY <1>1, <1>5 DEF TxClock
<1>9. ~(Naks >= 2)  BY <1>1, <1>4, <1>5, <1>6, <1>8 DEF TxClock
<1>10. Acks = 0
  <2>1. Cardinality(WordsAt(back, {"ACK"})) = 0  BY <1>7, LineTypes, WordCount
  <2> QED  BY <1>8, <2>1 DEF Acks, One
<1>11. /\ Types' /\ Phases' /\ InFile' /\ CopiesOK' /\ PlaceOK' /\ Exact' /\ EndOK'
       /\ tx'.ph = "SendData" /\ tx'.live
  BY <1>3, ResentPlace
<1>12. Acks' = Acks /\ Naks' = Naks  BY DEF Acks, Naks, Asking, Owes
<1>13. Naks \in Nat /\ Naks <= 1  BY <1>9, Counts
<1>14. One(tx'.selfNak) = 1  BY DEF One
<1>15. tx'.selfNak \in BOOLEAN /\ fwd' \in Seq(OnFwd) /\ back' \in Seq(OnBack) /\ DataAt(fwd') = {}
  BY <1>3, LineTypes, SenderFields
<1>16. rx'.ph = "RecvWait" => /\ \A i \in DOMAIN back' : rx'.time + back'[i].age >= Trip
                              /\ rx'.ctl # <<>> => rx'.time >= Trip
                              /\ ~tx'.selfNak => rx'.time + Latency >= Trip
  BY <1>1 DEF RxClock
<1>17. Turns'  BY <1>10, <1>11, <1>12, <1>13, <1>14, <1>15, <1>16, FreshTurns
<1> QED  BY <1>11, <1>17

\* The next block is in hand, or the EOT.
LEMMA FramedKeeps ==
  ASSUME XInv, Bystanders, tx' \in TxRec, NEW num \in Nat, NEW off \in Nat,
         Framed(tx', num, off, tx.big), ~tx'.selfNak, tx.ph \in {"SendStart", "SendAck"},
         rx' = rx, fwd' = fwd, back # <<>>, back' = Tail(back),
         num < Mod, rx.num = num, off <= Len(rx.got), Uncut => Len(rx.got) = off,
         Copies = 0, Acks' = 0, Naks' = 0
  PROVE  XInv'
<1> USE DEF XInv, Bystanders
<1>1. Types'  BY BackFields DEF Types
<1>2. Early /\ RxClock /\ ~Ending  BY DEF Early, Turns, EndOK
<1>3. DataAt(fwd) = {}  BY Counts
<1>4. /\ tx'.st = "Running" /\ tx'.num = num /\ tx'.off = off /\ tx'.big = tx.big
      /\ off <= tx'.buf /\ tx'.buf <= job.size /\ tx'.len \in 1..K
      /\ \/ tx'.ph = "SendEot" /\ off = job.size /\ ~tx'.live
         \/ tx'.ph = "SendData" /\ tx'.live /\ off + tx'.len <= tx'.buf /\ tx'.ctl # <<"EOT">>
  BY DEF Framed
<1>5. rx.st # "Idle"  BY DEF Phases
<1>6. Phases'  BY <1>4, <1>5 DEF Phases
<1>7. InFile'  BY <1>3, <1>4 DEF InFile
<1>8. CopiesOK'  BY <1>3 DEF CopiesOK
<1>9. Uncut' <=> Uncut  BY <1>4 DEF Uncut
<1>10. PlaceOK' /\ Exact'  BY <1>4, <1>9 DEF PlaceOK, Same, Exact
<1>11. EndOK'
  <2>1. CASE tx'.ph = "SendEot" /\ off = job.size  BY <1>4, <2>1 DEF EndOK, Early
  <2>2. CASE tx'.ph = "SendData" /\ tx'.ctl # <<"EOT">>
    <3>1. ~Ending'  BY <1>2, <1>4, <2>2 DEF Ending
    <3> QED  BY <3>1 DEF EndOK
  <2> QED  BY <1>4, <2>1, <2>2
<1>12. Turns'
  <2>1. CASE tx'.ph = "SendEot"
    <3>1. ~Early'  BY <1>4, <2>1 DEF Early
    <3> QED  BY <3>1 DEF Turns
  <2>2. CASE tx'.ph = "SendData" /\ tx'.live
    <3>1. /\ tx'.selfNak \in BOOLEAN /\ fwd' \in Seq(OnFwd) /\ back' \in Seq(OnBack)
          /\ DataAt(fwd') = {}
      BY <1>1, <1>3, SenderFields DEF Types
    <3>2. rx'.ph = "RecvWait" => /\ \A i \in DOMAIN back' : rx'.time + back'[i].age >= Trip
                                 /\ rx'.ctl # <<>> => rx'.time >= Trip
                                 /\ ~tx'.selfNak => rx'.time + Latency >= Trip
      BY <1>2, HeardInTime
    <3>3. Naks' \in Nat /\ Naks' <= One(tx'.selfNak)  BY DEF One
    <3> QED  BY <2>2, <3>1, <3>2, <3>3, FreshTurns
  <2> QED  BY <1>4, <2>1, <2>2
<1> QED  BY <1>1, <1>6, <1>7, <1>8, <1>10, <1>11, <1>12

\* The first block, for the receiver's word that it is there.
LEMMA StartedKeeps ==
  ASSUME XInv, Bystanders, tx' \in TxRec, Framed(tx', tx.num, tx.off, tx.big),
         tx'.selfNak = tx.selfNak, tx.ph = "SendStart", Head(back).m \in Asks,
         rx' = rx, fwd' = fwd, back # <<>>, back' = Tail(back)
  PROVE  XInv'
<1> USE DEF XInv
<1>1. Budget /\ Unsent  BY DEF Turns, Early
<1>2. Copies = 0 /\ Acks = 0 /\ ~tx.selfNak /\ Same  BY <1>1 DEF Unsent
<1>3. /\ Naks' = Naks - 1 /\ Acks' <= Acks /\ Acks' \in Nat /\ Naks \in Nat /\ Naks' \in Nat
  BY WordGoneCounts
<1>4. Within(Copies, Acks, Naks, 0)  BY <1>1, <1>2 DEF Budget, One
<1>5. Naks = 1
  <2>1. Naks >= 1  BY <1>3
  <2> QED  BY <1>2, <1>3, <1>4, <2>1, WithinFacts
<1>6. Acks' = 0 /\ Naks' = 0  BY <1>2, <1>3, <1>5
<1>7. tx.num \in Nat /\ tx.off \in Nat /\ tx.num < Mod  BY LineTypes, SenderFields DEF InFile
<1>8. rx.num = tx.num /\ tx.off <= Len(rx.got) /\ (Uncut => Len(rx.got) = tx.off)
  BY <1>2 DEF Same
<1> QED  BY <1>2, <1>6, <1>7, <1>8, FramedKeeps

\* The next block, for an answer to the one in hand: it was stored, and is counted once.
LEMMA AckedKeeps ==
  ASSUME XInv, Bystanders, tx' \in TxRec, ~tx'.selfNak,
         Framed(tx', (tx.num + 1) % Mod, tx.off + tx.len, tx.big),
         tx.ph = "SendAck", Head(back).m = "ACK",
         rx' = rx, fwd' = fwd, back # <<>>, back' = Tail(back)
  PROVE  XInv'
<1> USE DEF XInv
<1>1. Budget /\ Answered  BY DEF Turns, Early
<1>2. /\ Head(back).m \notin Asks /\ Naks' = Naks
      /\ Acks' = Acks - 1 /\ Acks \in Nat /\ Acks' \in Nat /\ Naks \in Nat
  BY WordGoneCounts DEF Asks
<1>3. Acks # 0  BY <1>2
<1>4. Copies \in Nat /\ One(tx.selfNak) \in {0, 1}
  BY LineTypes, Counts, SenderFields, Ones
<1>5. Copies = 0 /\ Acks <= 1  BY <1>1, <1>2, <1>3, <1>4, WithinFacts DEF Budget
<1>6. 1 \in WordsAt(back, {"ACK"}) /\ \A j \in WordsAt(back, Asks) : j \in Nat /\ j >= 1
  BY LineTypes, BackFields DEF WordsAt
<1>7. WordsAt(back, Asks) = {} /\ ~Asking  BY <1>1, <1>6 DEF Answered
<1>8. Next1 /\ ~Owes  BY <1>1, <1>3 DEF Answered
<1>9. Naks = 0
  <2>1. Cardinality(WordsAt(back, Asks)) = 0  BY <1>7, LineTypes, WordCount
  <2> QED  BY <1>7, <1>8, <2>1 DEF Naks, One
<1>10. Acks' = 0 /\ Naks' = 0  BY <1>2, <1>5, <1>9
<1>13. /\ tx.num \in Nat /\ tx.num < Mod /\ tx.off \in Nat /\ tx.len \in Nat
  BY LineTypes, SenderFields DEF InFile
<1>11. (tx.num + 1) % Mod \in Nat /\ (tx.num + 1) % Mod < Mod
  BY <1>13, NumbersGoRound
<1>14. tx.off + tx.len \in Nat  BY <1>13
<1>12. /\ rx.num = (tx.num + 1) % Mod /\ tx.off + tx.len <= Len(rx.got)
       /\ Uncut => Len(rx.got) = tx.off + tx.len
  BY <1>8 DEF Next1
<1> HIDE DEF XInv
<1> QED  BY <1>5, <1>10, <1>11, <1>12, <1>14, FramedKeeps

-----------------------------------------------------------------------------
(* A unit is put on a line                                                 *)

\* A sequence of one.
LEMMA OneLong == ASSUME NEW q, NEW e, q = [i \in 1..1 |-> q[i]], q[1] = e  PROVE q = <<e>>
OBVIOUS

\* What pull puts last on a line, unless the line is dead.
LEMMA SentPuts ==
  ASSUME NEW A, NEW line \in Seq(A), NEW x, NEW u \in A, u = [m |-> x, age |-> 0]
  PROVE  Sent(line, <<x>>) \in {line, Append(line, u)}
<1> DEFINE q == [i \in DOMAIN <<x>> |-> [m |-> <<x>>[i], age |-> 0]]
<1>1. DOMAIN <<x>> = 1..1 /\ <<x>>[1] = x  OBVIOUS
<1>2. q = [i \in 1..1 |-> q[i]] /\ q[1] = u  BY <1>1
<1>3. Sent(line, <<x>>) = IF dead THEN line ELSE line \o q  BY DEF Sent
<1> HIDE DEF q
<1>4. q = <<u>>  BY <1>2, OneLong
<1>5. line \o <<u>> = Append(line, u)  OBVIOUS
<1> QED  BY <1>3, <1>4, <1>5

\* A control byte, as a unit of the line to the receiver.
LEMMA ControlUnit ==
  ASSUME NEW x
  PROVE  [i \in DOMAIN <<x>> |-> [kind |-> <<x>>[i]]] = <<[kind |-> x]>>
<1> DEFINE q == [i \in DOMAIN <<x>> |-> [kind |-> <<x>>[i]]]
<1>1. DOMAIN <<x>> = 1..1 /\ <<x>>[1] = x  OBVIOUS
<1>2. q = [i \in 1..1 |-> q[i]] /\ q[1] = [kind |-> x]  BY <1>1
<1> HIDE DEF q
<1> QED  BY <1>2, OneLong DEF q

\* Fewer copies leave room.
LEMMA WithinFewer ==
  ASSUME NEW c \in Nat, NEW a \in Nat, NEW n \in Nat, NEW s \in {0, 1}, Within(c, a, n, s),
         NEW c2 \in Nat, NEW a2 \in Nat, NEW n2 \in Nat, c2 <= c, a2 <= a, n2 <= n
  PROVE  Within(c2, a2, n2, s)
BY DEF Within

\* Nothing about whose turn it is changes while the line to the receiver gains a
\* word that is no block, or nothing.
LEMMA TurnsKept ==
  ASSUME Types, Types', Turns, rx' = rx, back' = back, SameBlock(tx, tx'), job' = job,
         Early' => /\ Early /\ tx'.live = tx.live /\ tx'.selfNak = tx.selfNak
                   /\ tx'.ph = "SendAck" => tx.ph = "SendAck" /\ tx'.time = tx.time
                   /\ tx'.ph \in {"Idle", "SendStart"} => tx.ph \in {"Idle", "SendStart"},
         DataAt(fwd') = DataAt(fwd), \A i \in DataAt(fwd) : fwd'[i] = fwd[i]
  PROVE  Turns'
<1> SUFFICES ASSUME Early'  PROVE Budget' /\ Unsent' /\ Answered' /\ TxClock' /\ RxClock'
  BY DEF Turns
<1>1. Budget /\ Unsent /\ Answered /\ TxClock /\ RxClock  BY DEF Turns
<1>2. Copies' = Copies /\ Acks' = Acks /\ Naks' = Naks /\ (Asking' <=> Asking) /\ (Owes' <=> Owes)
  BY DEF Copies, Acks, Naks, Asking, Owes
<1>3. Same => Same'  BY DEF Same, SameBlock, Uncut
<1>4. Next1 => Next1'  BY DEF Next1, SameBlock, Uncut
<1>5. Budget'  BY <1>1, <1>2 DEF Budget
<1>6. Unsent'  BY <1>1, <1>2, <1>3 DEF Unsent
<1>7. Answered'  BY <1>1, <1>2, <1>4 DEF Answered
<1>8. TxClock'  BY <1>1, <1>2 DEF TxClock
<1>9. RxClock'  BY <1>1 DEF RxClock
<1> QED  BY <1>5, <1>6, <1>7, <1>8, <1>9

\* The sender begins.
LEMMA BeginSendKeeps ==
  ASSUME XInv, Bystanders, BeginSend
  PROVE  XInv'
<1> USE DEF XInv, Bystanders
<1>1. /\ tx.st = "Idle" /\ rx' = rx /\ fwd' = fwd /\ back' = back
      /\ tx' = Wait([tx EXCEPT !.st = "Running"], "SendStart", SenderWait)
  BY DEF BeginSend
<1>2. /\ tx' \in TxRec /\ SameBlock(tx, tx') /\ tx'.live = tx.live /\ tx'.selfNak = tx.selfNak
      /\ tx'.ctl = tx.ctl /\ tx'.st = "Running" /\ tx'.ph = "SendStart"
  BY <1>1, LineTypes, XmodemAssumption DEF TxRec, Wait, SameBlock, SenderSt, SenderPh
<1>3. tx.ph = "Idle" /\ ~tx.live /\ Early  BY <1>1 DEF Phases, Early
<1>4. Types'  BY <1>1, <1>2 DEF Types
<1>5. Phases'  BY <1>1, <1>2, <1>3 DEF Phases
<1>6. InFile'  BY <1>1, <1>2, <1>3 DEF InFile, SameBlock
<1>7. CopiesOK'  BY <1>1, <1>2 DEF CopiesOK, SameBlock
<1>8. PlaceOK' /\ Exact'  BY <1>1, <1>2, PlaceKept
<1>9. EndOK'
  <2>1. ~Ending  BY <1>3 DEF EndOK
  <2>2. ~Ending'  BY <1>1, <1>2, <2>1 DEF Ending
  <2> QED  BY <2>2 DEF EndOK
<1>10. Turns'  BY <1>1, <1>2, <1>3, <1>4, TurnsKept
<1> QED  BY <1>4, <1>5, <1>6, <1>7, <1>8, <1>9, <1>10

\* A control byte leaves the sender.
LEMMA ControlKeeps ==
  ASSUME XInv, Bystanders, TxPullCtl
  PROVE  XInv'
<1> USE DEF XInv, Bystanders
<1>1. PICK x \in {"EOT", "CAN"} : tx.ctl = <<x>>
  BY LineTypes, SenderFields DEF TxPullCtl, SenderCtl
<1> DEFINE u == [m |-> [kind |-> x], age |-> 0]
           t == Say(tx, <<>>)
           w == Wait(t, "SendEotAck", BlockTime)
<1>2. u \in OnFwd /\ u.m.kind = x  BY ClocksAreLong DEF OnFwd, Signs
<1>3. fwd \in Seq(OnFwd) /\ fwd' \in {fwd, Append(fwd, u)}
  <2>1. fwd' = Sent(fwd, <<[kind |-> x]>>)  BY <1>1, ControlUnit DEF TxPullCtl
  <2> QED  BY <1>2, <2>1, LineTypes, SentPuts
<1>4. /\ t \in TxRec /\ SameBlock(tx, t) /\ t.live = tx.live /\ t.selfNak = tx.selfNak
      /\ t.ctl = <<>> /\ t.st = tx.st /\ t.ph = tx.ph /\ t.time = tx.time
  BY LineTypes DEF TxRec, Say, SameBlock, SenderCtl
<1>5. tx' = (IF t.ph = "SendEot" /\ ~t.live THEN w ELSE t) /\ rx' = rx /\ back' = back
  BY DEF TxPullCtl
<1> HIDE DEF t
<1>6. /\ w \in TxRec /\ SameBlock(tx, w) /\ w.live = tx.live /\ w.ctl = <<>> /\ w.st = tx.st
      /\ w.ph = "SendEotAck"
  BY <1>4, XmodemAssumption DEF TxRec, Wait, SameBlock, SenderPh
<1> HIDE DEF w, u
<1>7. /\ tx' \in TxRec /\ SameBlock(tx, tx') /\ tx'.live = tx.live /\ tx'.ctl = <<>>
      /\ tx'.st = tx.st
      /\ \/ tx'.ph = tx.ph /\ tx'.selfNak = tx.selfNak /\ tx'.time = tx.time
         \/ tx.ph = "SendEot" /\ tx'.ph = "SendEotAck"
  BY <1>4, <1>5, <1>6
<1>8. /\ fwd' \in Seq(OnFwd) /\ DataAt(fwd') = DataAt(fwd) /\ \A i \in DataAt(fwd) : fwd'[i] = fwd[i]
      /\ \A i \in DOMAIN fwd' : (i \in DOMAIN fwd /\ fwd'[i] = fwd[i]) \/ fwd'[i].m.kind = x
  <2>1. CASE fwd' = fwd  BY <1>3, <2>1
  <2>2. CASE fwd' = Append(fwd, u)
    <3>1. /\ Len(fwd) \in Nat /\ DOMAIN fwd = 1..Len(fwd) /\ DOMAIN fwd' = 1..(Len(fwd) + 1)
          /\ fwd'[Len(fwd) + 1] = u /\ \A i \in 1..Len(fwd) : fwd'[i] = fwd[i]
          /\ fwd' \in Seq(OnFwd)
      BY <1>2, <1>3, <2>2
    <3> QED  BY <1>2, <3>1 DEF DataAt
  <2> QED  BY <1>3, <2>1, <2>2
<1>9. Types'  BY <1>5, <1>7, <1>8 DEF Types
<1>10. Early' => Early /\ tx'.ph = tx.ph /\ tx'.selfNak = tx.selfNak /\ tx'.time = tx.time
  <2>1. tx.ph = "SendEot" /\ tx'.ph = "SendEotAck" => ~Early'  BY <1>7 DEF Early, Phases
  <2> QED  BY <1>7, <2>1 DEF Early
<1>11. Phases'  BY <1>5, <1>7, <1>8 DEF Phases
<1>12. InFile'  BY <1>7, <1>8 DEF InFile, SameBlock
<1>13. CopiesOK'  BY <1>7, <1>8 DEF CopiesOK, SameBlock
<1>14. PlaceOK' /\ Exact'  BY <1>5, <1>7, PlaceKept
<1>15. EndOK'
  <2>1. Ending' => Ending
    <3>1. (\E i \in DOMAIN fwd' : fwd'[i].m.kind = "EOT") => Ending  BY <1>1, <1>8 DEF Ending
    <3>2. tx'.ph \in {"SendEot", "SendEotAck"} => Ending  BY <1>7 DEF Ending
    <3>3. <<>> # <<"EOT">>  OBVIOUS
    <3>4. tx'.ctl # <<"EOT">> /\ tx'.st = tx.st /\ rx' = rx  BY <1>5, <1>7, <3>3
    <3>5. rx.eotSeen \/ tx.st = "Done" \/ rx.st = "Done" => Ending  BY DEF Ending
    <3> HIDE DEF XInv
    <3> QED  BY <3>1, <3>2, <3>4, <3>5 DEF Ending
  <2> QED  BY <1>7, <1>10, <2>1 DEF EndOK, SameBlock
<1>16. Turns'  BY <1>5, <1>7, <1>8, <1>9, <1>10, TurnsKept
<1> QED  BY <1>9, <1>11, <1>12, <1>13, <1>14, <1>15, <1>16

\* The block leaves the sender: whether it is on the line or lost in a dead one.
LEMMA BlockKeeps ==
  ASSUME XInv, Bystanders, TxPullBlock, ~job.ymodem
  PROVE  XInv'
<1> USE DEF XInv, Bystanders
<1> DEFINE p == Packet(tx)
           u == [m |-> p, age |-> 0]
           t == [tx EXCEPT !.live = FALSE]
           w == Wait(t, "SendAck", BlockTime)
<1>1. tx.live /\ tx.ctl = <<>> /\ rx' = rx /\ back' = back /\ fwd' = Sent(fwd, <<p>>)
  BY DEF TxPullBlock
<1>2. tx.ph = "SendData" \/ (tx.st = "Failed" /\ tx.ph = "Idle")  BY <1>1 DEF Phases
<1>3. tx.ph # "SendY0" /\ p = [kind |-> "data", num |-> tx.num, crc |-> tx.crc, from |-> tx.off,
                               len |-> tx.len]
  BY <1>2 DEF Packet
<1>4. tx.num \in Nat /\ tx.crc \in BOOLEAN /\ tx.off \in Nat /\ tx.len \in Nat  BY LineTypes DEF TxRec
<1> HIDE DEF p
<1>5. p \in Blocks /\ p.kind = "data" /\ p.num = tx.num /\ p.from = tx.off /\ p.len = tx.len
  BY <1>3, <1>4 DEF Blocks
<1>6. u \in OnFwd /\ u.m = p /\ u.age = 0  BY <1>5, ClocksAreLong DEF OnFwd
<1>7. fwd \in Seq(OnFwd) /\ fwd' \in {fwd, Append(fwd, u)}
  BY <1>1, <1>6, LineTypes, SentPuts
<1> HIDE DEF u
<1>8. /\ t \in TxRec /\ SameBlock(tx, t) /\ ~t.live /\ t.selfNak = tx.selfNak
      /\ t.ctl = tx.ctl /\ t.st = tx.st /\ t.ph = tx.ph
  BY LineTypes DEF TxRec, SameBlock
<1>9. tx' = IF tx.ph = "SendData" THEN w ELSE t  BY <1>2, <1>8 DEF TxPullBlock
<1> HIDE DEF t
<1>10. /\ w \in TxRec /\ SameBlock(tx, w) /\ ~w.live /\ w.selfNak = tx.selfNak
       /\ w.ctl = tx.ctl /\ w.st = tx.st /\ w.ph = "SendAck" /\ w.time = BlockTime
  BY <1>8, XmodemAssumption DEF TxRec, Wait, SameBlock, SenderPh
<1> HIDE DEF w
<1>11. /\ tx' \in TxRec /\ SameBlock(tx, tx') /\ ~tx'.live /\ tx'.selfNak = tx.selfNak
       /\ tx'.ctl = tx.ctl /\ tx'.st = tx.st
       /\ \/ tx.ph = "SendData" /\ tx'.ph = "SendAck" /\ tx'.time = BlockTime
          \/ tx.ph = "Idle" /\ tx.st = "Failed" /\ tx'.ph = "Idle"
  BY <1>2, <1>8, <1>9, <1>10
<1>12. /\ fwd' \in Seq(OnFwd)
       /\ Cardinality(DataAt(fwd')) <= Cardinality(DataAt(fwd)) + 1
       /\ \A i \in DataAt(fwd') : \/ i \in DataAt(fwd) /\ fwd'[i] = fwd[i]
                                  \/ fwd'[i] = u
       /\ \A i \in DOMAIN fwd' : (i \in DOMAIN fwd /\ fwd'[i] = fwd[i]) \/ fwd'[i].m.kind = "data"
  <2>1. Cardinality(DataAt(fwd)) \in Nat  BY <1>7, DataCount
  <2>2. CASE fwd' = fwd  BY <1>7, <2>1, <2>2 DEF DataAt
  <2>3. CASE fwd' = Append(fwd, u)
    <3>1. /\ Len(fwd) \in Nat /\ DOMAIN fwd = 1..Len(fwd) /\ DOMAIN fwd' = 1..(Len(fwd) + 1)
          /\ fwd'[Len(fwd) + 1] = u /\ \A i \in 1..Len(fwd) : fwd'[i] = fwd[i]
          /\ fwd' \in Seq(OnFwd)
      BY <1>6, <1>7, <2>3
    <3>2. Cardinality(DataAt(fwd')) = Cardinality(DataAt(fwd)) + 1
      BY <1>5, <1>6, <1>7, <2>3, DataAppend
    <3> QED  BY <1>5, <1>6, <2>1, <3>1, <3>2 DEF DataAt
  <2> QED  BY <1>7, <2>2, <2>3
<1>13. Types'  BY <1>1, <1>11, <1>12 DEF Types
<1>14. Phases'  BY <1>1, <1>11 DEF Phases
<1>15. InFile'
  <2>1. tx.off + tx.len <= tx.buf  BY <1>1 DEF InFile
  <2> QED  BY <1>11, <2>1 DEF InFile, SameBlock
<1>16. CopiesOK'  BY <1>5, <1>6, <1>11, <1>12 DEF CopiesOK, SameBlock
<1>17. PlaceOK' /\ Exact'  BY <1>1, <1>11, PlaceKept
<1>18. Early' => Early /\ tx.ph = "SendData" /\ tx'.ph = "SendAck" /\ tx'.time = BlockTime
  BY <1>11 DEF Early
<1>19. EndOK'
  <2>1. Ending' => Ending  BY <1>1, <1>11, <1>12 DEF Ending
  <2>2. CASE Early  BY <2>1, <2>2 DEF EndOK
  <2>3. CASE ~Early  BY <1>11, <1>18, <2>1, <2>3 DEF EndOK, SameBlock
  <2> QED  BY <2>2, <2>3
<1>20. ASSUME Early'  PROVE Budget' /\ Unsent' /\ Answered' /\ TxClock' /\ RxClock'
  <2>1. Budget /\ RxClock  BY <1>18, <1>20 DEF Turns
  <2>2. /\ Copies \in Nat /\ Acks \in Nat /\ Naks \in Nat /\ Cardinality(DataAt(fwd)) \in Nat
        /\ Copies = Cardinality(DataAt(fwd)) + One(tx.live)
    BY Counts
  <2>3. One(tx.live) = 1 /\ One(tx'.live) = 0 /\ One(tx.selfNak) \in {0, 1}
    BY <1>1, <1>11, LineTypes, SenderFields, Ones
  <2>4. Copies # 0  BY <2>2, <2>3
  <2>5. Copies <= 1 /\ Acks = 0 /\ Naks <= One(tx.selfNak)
    BY <2>1, <2>2, <2>3, <2>4, WithinFacts DEF Budget
  <2>6. Cardinality(DataAt(fwd)) = 0 /\ Copies = 1  BY <2>2, <2>3, <2>5
  <2>7. DataAt(fwd) = {}  BY <1>7, <2>6, DataCount
  <2>8. Copies' \in Nat /\ Copies' <= 1
    <3>1. Cardinality(DataAt(fwd')) \in Nat  BY <1>12, DataCount
    <3>2. Copies' = Cardinality(DataAt(fwd')) + One(tx'.live)  BY DEF Copies
    <3> QED  BY <1>12, <2>3, <2>6, <3>1, <3>2
  <2>9. Acks' = 0 /\ Naks' = Naks /\ (Asking' <=> Asking) /\ (Owes' <=> Owes)
    BY <1>1, <2>5 DEF Acks, Naks, Asking, Owes
  <2>10. Budget'
    <3>1. Within(Copies, Acks, Naks, One(tx.selfNak))  BY <2>1 DEF Budget
    <3>2. Within(Copies', 0, Naks, One(tx.selfNak))
      BY <2>2, <2>3, <2>5, <2>6, <2>8, <3>1, WithinFewer
    <3> QED  BY <1>11, <2>9, <3>2 DEF Budget
  <2>11. WordsAt(back, {"ACK"}) = {} /\ rx.ctl # <<"ACK">>  BY <2>5, Counts
  <2>12. Unsent'  BY <1>18, <1>20 DEF Unsent
  <2>13. Answered'  BY <1>1, <2>9, <2>11 DEF Answered
  <2>14. BlockTime \in Nat /\ Latency \in Nat /\ Trip \in Nat  BY ClocksAreLong
  <2>15. TxClock'
    <3>1. \A i \in DataAt(fwd') : tx'.time + fwd'[i].age >= BlockTime
      BY <1>6, <1>12, <1>18, <1>20, <2>7, <2>14
    <3>2. tx'.time + Latency >= BlockTime  BY <1>18, <1>20, <2>14
    <3>3. ~(Naks' >= 2)  BY <2>2, <2>3, <2>5, <2>9
    <3> QED  BY <1>1, <2>11, <3>1, <3>2, <3>3 DEF TxClock
  <2>16. RxClock'
    <3> SUFFICES ASSUME rx.ph = "RecvWait"
                 PROVE  /\ \A i \in DOMAIN back : rx.time + back[i].age >= Trip
                        /\ rx.ctl # <<>> => rx.time >= Trip
                        /\ ~tx'.selfNak =>
                           /\ tx'.live => rx.time + Latency >= Trip
                           /\ \A i \in DataAt(fwd') : rx.time + Latency + fwd'[i].age >= Trip
      BY <1>1 DEF RxClock
    <3>1. ASSUME ~tx'.selfNak, NEW i \in DataAt(fwd')
          PROVE  rx.time + Latency + fwd'[i].age >= Trip
      <4>1. rx.time + Latency >= Trip  BY <1>1, <1>11, <2>1, <3>1 DEF RxClock
      <4>2. fwd'[i].age = 0  BY <1>6, <1>12, <2>7, <3>1
      <4>3. rx.time \in Nat  BY LineTypes, ReceiverFields
      <4> QED  BY <2>14, <4>1, <4>2, <4>3
    <3> QED  BY <1>11, <2>1, <3>1 DEF RxClock
  <2> QED  BY <2>10, <2>12, <2>13, <2>15, <2>16
<1>21. Turns'  BY <1>20 DEF Turns
<1> QED  BY <1>13, <1>14, <1>15, <1>16, <1>17, <1>19, <1>21

-----------------------------------------------------------------------------
(* Steps of the receiver                                                   *)

\* The line to the receiver is as it was, or its first unit has gone.
Taken == fwd' = fwd \/ (fwd # <<>> /\ fwd' = Tail(fwd))

\* What is left on the line was there.
LEMMA TakenFacts ==
  ASSUME Types, tx' = tx, Taken
  PROVE  /\ fwd' \in Seq(OnFwd) /\ Copies' <= Copies /\ Copies' \in Nat /\ Copies \in Nat
         /\ Cardinality(DataAt(fwd')) <= Cardinality(DataAt(fwd))
         /\ \A i \in DataAt(fwd') : \E j \in DataAt(fwd) : fwd'[i] = fwd[j]
         /\ \A i \in DOMAIN fwd' : \E j \in DOMAIN fwd : fwd'[i] = fwd[j]
         /\ DataAt(fwd') # {} => DataAt(fwd) # {}
<1>1. fwd \in Seq(OnFwd) /\ tx.live \in BOOLEAN  BY LineTypes, SenderFields
<1>2. Cardinality(DataAt(fwd)) \in Nat  BY <1>1, DataCount
<1>3. CASE fwd' = fwd  BY <1>1, <1>2, <1>3, Ones DEF Copies, DataAt
<1>4. CASE fwd # <<>> /\ fwd' = Tail(fwd)
  <2>1. fwd' \in Seq(OnFwd) /\ \A i \in DOMAIN fwd' : \E j \in DOMAIN fwd : fwd'[i] = fwd[j]
    BY <1>1, <1>4, FwdFields
  <2>2. \A i \in DataAt(fwd') : \E j \in DataAt(fwd) : fwd'[i] = fwd[j]  BY <1>1, <1>4, DataTail
  <2>3. /\ Cardinality(DataAt(fwd')) \in Nat
        /\ Cardinality(DataAt(fwd')) <= Cardinality(DataAt(fwd))
    <3>1. Cardinality(DataAt(fwd')) =
            Cardinality(DataAt(fwd)) - (IF Head(fwd).m.kind = "data" THEN 1 ELSE 0)
      BY <1>1, <1>4, DataTail
    <3>2. Cardinality(DataAt(fwd')) \in Nat  BY <2>1, DataCount
    <3> QED  BY <1>2, <3>1, <3>2
  <2>4. DataAt(fwd') # {} => DataAt(fwd) # {}  BY <2>2
  <2>5. One(tx'.live) \in {0, 1} /\ One(tx'.live) = One(tx.live)  BY <1>1, Ones
  <2>6. Copies' <= Copies /\ Copies' \in Nat /\ Copies \in Nat
    <3>1. Copies' = Cardinality(DataAt(fwd')) + One(tx'.live)  BY DEF Copies
    <3>2. Copies = Cardinality(DataAt(fwd)) + One(tx.live)  BY DEF Copies
    <3> QED  BY <1>2, <2>3, <2>5, <3>1, <3>2
  <2> QED  BY <2>1, <2>2, <2>3, <2>4, <2>6
<1> QED  BY <1>3, <1>4 DEF Taken

\* A copy heard was the one in hand, the only one about, and in time.
LEMMA CopyHeard ==
  ASSUME XInv, tx' = tx, fwd # <<>>, fwd' = Tail(fwd), Head(fwd).m.kind = "data"
  PROVE  /\ Head(fwd).m \in Blocks
         /\ Head(fwd).m.num = tx.num /\ Head(fwd).m.from = tx.off /\ Head(fwd).m.len = tx.len
         /\ tx.off + tx.len <= tx.buf
         /\ Early => /\ Copies = 1 /\ Copies' = 0 /\ Acks = 0 /\ Naks \in Nat
                     /\ Naks <= One(tx.selfNak) /\ DataAt(fwd') = {}
                     /\ WordsAt(back, {"ACK"}) = {} /\ rx.ctl # <<"ACK">>
                     /\ tx.ph = "SendAck" => tx.time + Latency >= BlockTime
                     /\ tx.ph \notin {"Idle", "SendStart"}
<1> USE DEF XInv
<1>1. fwd \in Seq(OnFwd) /\ fwd' \in Seq(OnFwd) /\ Head(fwd) = fwd[1] /\ 1 \in DOMAIN fwd
      /\ Head(fwd).m \in Blocks \cup Signs
  BY LineTypes, FwdFields
<1>2. 1 \in DataAt(fwd)  BY <1>1 DEF DataAt
<1>3. Head(fwd).m \in Blocks
  <2>1. \A m \in Signs : m.kind # "data"  BY DEF Signs
  <2> QED  BY <1>1, <2>1
<1>4. /\ Head(fwd).m.num = tx.num /\ Head(fwd).m.from = tx.off /\ Head(fwd).m.len = tx.len
  BY <1>1, <1>2 DEF CopiesOK
<1>5. tx.off + tx.len <= tx.buf  BY <1>2 DEF InFile
<1>6. ASSUME Early
      PROVE  /\ Copies = 1 /\ Copies' = 0 /\ Acks = 0 /\ Naks \in Nat
             /\ Naks <= One(tx.selfNak) /\ DataAt(fwd') = {}
             /\ WordsAt(back, {"ACK"}) = {} /\ rx.ctl # <<"ACK">>
             /\ tx.ph = "SendAck" => tx.time + Latency >= BlockTime
             /\ tx.ph \notin {"Idle", "SendStart"}
  <2>1. Budget /\ Unsent /\ TxClock  BY <1>6 DEF Turns
  <2>2. /\ Copies \in Nat /\ Acks \in Nat /\ Naks \in Nat /\ Cardinality(DataAt(fwd)) \in Nat
        /\ Copies = Cardinality(DataAt(fwd)) + One(tx.live)
    BY Counts
  <2>3. One(tx.live) \in {0, 1} /\ One(tx.selfNak) \in {0, 1}
    BY LineTypes, SenderFields, Ones
  <2>4. Cardinality(DataAt(fwd)) # 0  BY <1>1, <1>2, DataCount
  <2>5. Copies # 0  BY <2>2, <2>3, <2>4
  <2>6. Copies <= 1 /\ Acks = 0 /\ Naks <= One(tx.selfNak)
    BY <2>1, <2>2, <2>3, <2>5, WithinFacts DEF Budget
  <2>7. Cardinality(DataAt(fwd)) = 1 /\ One(tx.live) = 0 /\ Copies = 1
    BY <2>2, <2>3, <2>4, <2>6
  <2>8. Cardinality(DataAt(fwd')) = Cardinality(DataAt(fwd)) - 1  BY <1>1, DataTail
  <2>9. Cardinality(DataAt(fwd')) = 0  BY <2>7, <2>8
  <2>10. DataAt(fwd') = {}  BY <1>1, <2>9, DataCount
  <2>11. Copies' = 0
    <3>1. Copies' = Cardinality(DataAt(fwd')) + One(tx'.live)  BY DEF Copies
    <3> QED  BY <2>7, <2>9, <3>1
  <2>12. WordsAt(back, {"ACK"}) = {} /\ rx.ctl # <<"ACK">>  BY <2>6, Counts
  <2>13. tx.ph = "SendAck" => tx.time + Latency >= BlockTime
    <3>1. tx.ph = "SendAck" => tx.time + fwd[1].age >= BlockTime  BY <1>2, <2>1 DEF TxClock
    <3>2. fwd[1].age \in 0..Latency /\ tx.time \in Nat
      BY <1>1, LineTypes, FwdFields, SenderFields
    <3> QED  BY <3>1, <3>2, ClocksAreLong
  <2>14. tx.ph \notin {"Idle", "SendStart"}  BY <2>1, <2>5 DEF Unsent
  <2> QED  BY <2>2, <2>6, <2>7, <2>10, <2>11, <2>12, <2>13, <2>14
<1> QED  BY <1>3, <1>4, <1>5, <1>6

\* What is not about whose turn it is, when the receiver stores nothing.
LEMMA UnstoredPlace ==
  ASSUME XInv, Bystanders, tx' = tx, back' = back, Taken, rx' \in RxRec,
         rx'.num = rx.num, rx'.got = rx.got, rx'.st # "Idle",
         rx'.st = "Running" <=> rx'.ph # "Idle",
         rx'.eotSeen \/ rx'.st = "Done" => Ending
  PROVE  /\ Types' /\ Phases' /\ InFile' /\ CopiesOK' /\ PlaceOK' /\ Exact' /\ EndOK'
         /\ (Same <=> Same') /\ (Next1 <=> Next1') /\ (Early <=> Early')
<1> USE DEF XInv, Bystanders
<1>1. /\ fwd' \in Seq(OnFwd)
      /\ DataAt(fwd') # {} => DataAt(fwd) # {}
      /\ \A i \in DataAt(fwd') : \E j \in DataAt(fwd) : fwd'[i] = fwd[j]
      /\ \A i \in DOMAIN fwd' : \E j \in DOMAIN fwd : fwd'[i] = fwd[j]
  BY TakenFacts
<1>2. SameBlock(tx, tx')  BY DEF SameBlock
<1>3. Types'  BY <1>1 DEF Types
<1>4. Phases'  BY DEF Phases
<1>5. InFile'  BY <1>1 DEF InFile
<1>6. CopiesOK'  BY <1>1 DEF CopiesOK
<1>7. PlaceOK' /\ Exact' /\ (Same <=> Same') /\ (Next1 <=> Next1')  BY <1>2, PlaceKept
<1>8. Early <=> Early'  BY DEF Early
<1>9. EndOK'
  <2>1. (\E i \in DOMAIN fwd' : fwd'[i].m.kind = "EOT") => Ending  BY <1>1 DEF Ending
  <2>2. tx'.ctl = <<"EOT">> \/ tx'.ph \in {"SendEot", "SendEotAck"} \/ tx'.st = "Done" => Ending
    BY DEF Ending
  <2>3. Ending' => Ending  BY <2>1, <2>2 DEF Ending
  <2> QED  BY <1>8, <2>3 DEF EndOK
<1> QED  BY <1>3, <1>4, <1>5, <1>6, <1>7, <1>8, <1>9

\* A unit on its way to the receiver is lost, or not waited for.
LEMMA UnitLostKeeps ==
  ASSUME XInv, Bystanders, tx' = tx, rx' = rx, back' = back, fwd # <<>>, fwd' = Tail(fwd)
  PROVE  XInv'
<1> USE DEF XInv
<1>1. /\ fwd' \in Seq(OnFwd) /\ Copies' <= Copies /\ Copies' \in Nat /\ Copies \in Nat
      /\ \A i \in DataAt(fwd') : \E j \in DataAt(fwd) : fwd'[i] = fwd[j]
  BY TakenFacts DEF Taken
<1>2. ASSUME rx.st # "Idle"  PROVE XInv'
  <2>1. /\ Types' /\ Phases' /\ InFile' /\ CopiesOK' /\ PlaceOK' /\ Exact' /\ EndOK'
        /\ (Same <=> Same') /\ (Next1 <=> Next1') /\ (Early <=> Early')
    <3>1. rx.eotSeen \/ rx.st = "Done" => Ending  BY DEF Ending
    <3>2. rx' \in RxRec /\ (rx'.st = "Running" <=> rx'.ph # "Idle")  BY LineTypes DEF Phases
    <3> QED  BY <1>2, <3>1, <3>2, UnstoredPlace DEF Taken
  <2>2. CASE ~Early  BY <2>1, <2>2 DEF Turns
  <2>3. CASE Early
    <3>1. Budget /\ Unsent /\ Answered /\ TxClock /\ RxClock  BY <2>3 DEF Turns
    <3>2. Acks' = Acks /\ Naks' = Naks /\ (Asking' <=> Asking) /\ (Owes' <=> Owes)
      BY DEF Acks, Naks, Asking, Owes
    <3>3. Acks \in Nat /\ Naks \in Nat /\ One(tx.selfNak) \in {0, 1}
      BY Counts, LineTypes, SenderFields, Ones
    <3>4. Budget'
      <4>1. Within(Copies, Acks, Naks, One(tx.selfNak))  BY <3>1 DEF Budget
      <4>2. Acks <= Acks /\ Naks <= Naks  BY <3>3
      <4> HIDE DEF XInv
      <4>3. Within(Copies', Acks, Naks, One(tx.selfNak))
        BY <1>1, <3>3, <4>1, <4>2, WithinFewer
      <4> QED  BY <3>2, <4>3 DEF Budget
    <3>5. Unsent'  BY <1>1, <2>1, <3>1, <3>2 DEF Unsent
    <3>6. Answered'  BY <2>1, <3>1, <3>2 DEF Answered
    <3>7. TxClock'  BY <1>1, <3>1, <3>2 DEF TxClock
    <3>8. RxClock'  BY <1>1, <3>1 DEF RxClock
    <3> QED  BY <2>1, <3>4, <3>5, <3>6, <3>7, <3>8 DEF Turns
  <2> QED  BY <2>2, <2>3
<1>3. ASSUME rx.st = "Idle"  PROVE XInv'
  <2>1. DataAt(fwd) = {} /\ DataAt(fwd') = {}  BY <1>1, <1>3 DEF Phases
  <2>2. Types'  BY <1>1 DEF Types, Bystanders
  <2>3. Phases'  BY <2>1 DEF Phases
  <2>4. InFile'  BY <2>1 DEF InFile, Bystanders
  <2>5. CopiesOK'  BY <2>1 DEF CopiesOK
  <2>6. PlaceOK' /\ Exact'  BY PlaceKept DEF SameBlock, Bystanders
  <2>7. EndOK'
    <3>1. \A i \in DOMAIN fwd' : \E j \in DOMAIN fwd : fwd'[i] = fwd[j]
      BY TakenFacts DEF Taken
    <3>2. Ending' => Ending  BY <3>1 DEF Ending
    <3> QED  BY <3>2 DEF EndOK, Early, Bystanders
  <2>8. Turns'
    <3>1. \A i \in DataAt(fwd) : fwd'[i] = fwd[i]  BY <2>1
    <3> QED  BY <2>1, <2>2, <3>1, TurnsKept DEF SameBlock, Bystanders, Early
  <2> QED  BY <2>2, <2>3, <2>4, <2>5, <2>6, <2>7, <2>8
<1> QED  BY <1>2, <1>3

\* The receiver stops.
LEMMA GaveUpKeeps ==
  ASSUME XInv, Bystanders, tx' = tx, back' = back, Taken, rx' \in RxRec, GaveUp(rx, rx')
  PROVE  XInv'
<1> USE DEF XInv
<1>1. /\ fwd' \in Seq(OnFwd) /\ Copies' <= Copies /\ Copies' \in Nat /\ Copies \in Nat
      /\ \A i \in DataAt(fwd') : \E j \in DataAt(fwd) : fwd'[i] = fwd[j]
  BY TakenFacts
<1>2. /\ rx'.num = rx.num /\ rx'.got = rx.got /\ rx'.ph = "Idle" /\ (rx'.eotSeen => rx.eotSeen)
      /\ \/ rx'.st = "Failed" /\ rx'.ctl \in {rx.ctl, <<"CAN">>}
         \/ rx'.st = "Done" /\ rx.eotSeen
  BY DEF GaveUp, SameStore
<1>3. /\ Types' /\ Phases' /\ InFile' /\ CopiesOK' /\ PlaceOK' /\ Exact' /\ EndOK'
      /\ (Same <=> Same') /\ (Next1 <=> Next1') /\ (Early <=> Early')
  <2>1. rx.eotSeen => Ending  BY DEF Ending
  <2>2. rx'.st # "Idle" /\ rx'.st # "Running"  BY <1>2
  <2> QED  BY <1>2, <2>1, <2>2, UnstoredPlace
<1>4. CASE ~Early  BY <1>3, <1>4 DEF Turns
<1>5. CASE Early
  <2>1. Budget /\ Unsent /\ Answered /\ TxClock  BY <1>5 DEF Turns
  <2>2. ~rx.eotSeen  BY <1>5 DEF EndOK, Ending
  <2>3. rx'.ctl \in {rx.ctl, <<"CAN">>} /\ ~Owes'  BY <1>2, <2>2 DEF Owes
  <2>4. (Asking' => Asking) /\ (rx'.ctl = <<"ACK">> => rx.ctl = <<"ACK">>)
    BY <2>3 DEF Asking
  <2> DEFINE B == Cardinality(WordsAt(back, Asks))
             A == Cardinality(WordsAt(back, {"ACK"}))
  <2>5. A \in Nat /\ B \in Nat  BY LineTypes, WordCount
  <2>6. Acks = A + One(rx.ctl = <<"ACK">>) /\ Acks' = A + One(rx'.ctl = <<"ACK">>)
    BY DEF Acks
  <2>7. Naks = B + One(Asking) + One(Owes) /\ Naks' = B + One(Asking')
    BY <2>3, <2>5 DEF Naks, One
  <2> HIDE DEF A, B
  <2>8. Acks' \in Nat /\ Acks' <= Acks /\ Acks \in Nat  BY <2>4, <2>5, <2>6 DEF One
  <2>9. Naks' \in Nat /\ Naks' <= Naks /\ Naks \in Nat  BY <2>4, <2>5, <2>7 DEF One
  <2>10. One(tx.selfNak) \in {0, 1}  BY LineTypes, SenderFields, Ones
  <2>11. Within(Copies, Acks, Naks, One(tx.selfNak))  BY <2>1 DEF Budget
  <2> HIDE DEF XInv
  <2>12. Budget'
    <3>1. Within(Copies', Acks', Naks', One(tx.selfNak))
      BY <1>1, <2>8, <2>9, <2>10, <2>11, WithinFewer
    <3> QED  BY <3>1 DEF Budget
  <2>13. Unsent'  BY <1>1, <1>3, <2>1, <2>8 DEF Unsent
  <2>14. Answered'  BY <1>3, <2>1, <2>3, <2>4, <2>8 DEF Answered
  <2>15. Naks <= 2  BY <1>1, <2>8, <2>9, <2>10, <2>11, WithinFacts
  <2>16. Naks' >= 2 => Naks >= 2 /\ ~Owes /\ (Asking <=> Asking')
    <3>1. CASE Owes  BY <2>4, <2>5, <2>7, <2>15, <3>1 DEF One
    <3>2. CASE ~Owes  BY <2>4, <2>5, <2>7, <2>15, <3>2 DEF One
    <3> QED  BY <3>1, <3>2
  <2>17. TxClock'
    <3> SUFFICES ASSUME tx.ph = "SendAck"
                 PROVE  /\ \A i \in DataAt(fwd') : tx.time + fwd'[i].age >= BlockTime
                        /\ \A i \in WordsAt(back, {"ACK"}) : tx.time + Latency + back[i].age >= BlockTime
                        /\ rx'.ctl = <<"ACK">> \/ Owes' => tx.time + Latency >= BlockTime
                        /\ Naks' >= 2 =>
                             \/ Owes'
                             \/ Asking' /\ tx.time + Latency >= BlockTime
                             \/ \E i \in WordsAt(back, Asks) :
                                  tx.time + Latency + back[i].age >= BlockTime
      BY DEF TxClock
    <3>1. Naks' >= 2 =>
             \/ Asking' /\ tx.time + Latency >= BlockTime
             \/ \E i \in WordsAt(back, Asks) : tx.time + Latency + back[i].age >= BlockTime
      BY <2>1, <2>16 DEF TxClock
    <3> QED  BY <1>1, <2>1, <2>3, <2>4, <3>1 DEF TxClock
  <2>18. RxClock'  BY <1>2 DEF RxClock
  <2> QED  BY <1>3, <2>12, <2>13, <2>14, <2>17, <2>18 DEF Turns, XInv
<1> QED  BY <1>4, <1>5

\* A block is under way that will not pass its check: the copy is gone, and the
\* word that asks for another is owed.
LEMMA OwingKeeps ==
  ASSUME XInv, Bystanders, tx' = tx, back' = back, rx' \in RxRec, Owing(rx, rx'),
         fwd # <<>>, fwd' = Tail(fwd), Head(fwd).m.kind = "data"
  PROVE  XInv'
<1> USE DEF XInv
<1>1. /\ rx'.num = rx.num /\ rx'.got = rx.got /\ (rx'.eotSeen => rx.eotSeen)
      /\ rx'.st = "Running" /\ rx'.ph \in {"RecvBlk", "RecvPurge"} /\ rx'.ctl = rx.ctl
      /\ rx.ph \in {"RecvWait", "RecvBlk"}
  BY DEF Owing, SameStore
<1>2. /\ Types' /\ Phases' /\ InFile' /\ CopiesOK' /\ PlaceOK' /\ Exact' /\ EndOK'
      /\ (Same <=> Same') /\ (Next1 <=> Next1') /\ (Early <=> Early')
  <2>1. rx.eotSeen => Ending  BY DEF Ending
  <2> QED  BY <1>1, <2>1, UnstoredPlace DEF Taken
<1>3. CASE ~Early  BY <1>2, <1>3 DEF Turns
<1>4. CASE Early
  <2>1. /\ Copies' = 0 /\ Acks = 0 /\ Naks \in Nat
        /\ Naks <= One(tx.selfNak) /\ DataAt(fwd') = {}
        /\ WordsAt(back, {"ACK"}) = {} /\ rx.ctl # <<"ACK">>
        /\ tx.ph = "SendAck" => tx.time + Latency >= BlockTime
        /\ tx.ph \notin {"Idle", "SendStart"}
    BY <1>4, CopyHeard
  <2>2. Owes' /\ (Asking' <=> Asking) /\ Acks' = 0  BY <1>1, <2>1 DEF Owes, Asking, Acks
  <2>3. Naks' \in Nat /\ Naks' <= Naks + 1
    <3> DEFINE B == Cardinality(WordsAt(back, Asks))
    <3>1. B \in Nat  BY LineTypes, WordCount
    <3>2. Naks = B + One(Asking) + One(Owes) /\ Naks' = B + One(Asking) + 1
      BY <2>2 DEF Naks, One
    <3> HIDE DEF B
    <3> QED  BY <3>1, <3>2 DEF One
  <2>4. Budget'
    <3>1. One(tx.selfNak) \in {0, 1}  BY LineTypes, SenderFields, Ones
    <3>2. Within(0, 0, Naks', One(tx.selfNak))  BY <2>1, <2>3, <3>1 DEF Within
    <3> QED  BY <2>1, <2>2, <3>2 DEF Budget
  <2>5. Unsent'  BY <2>1 DEF Unsent
  <2>6. Answered'  BY <2>1, <2>2 DEF Answered
  <2>7. TxClock'  BY <2>1, <2>2 DEF TxClock
  <2>8. RxClock'  BY <1>1 DEF RxClock
  <2> QED  BY <1>2, <2>4, <2>5, <2>6, <2>7, <2>8 DEF Turns
<1> QED  BY <1>3, <1>4

\* The receiver answers: it has the block in hand, and asks for no other.
LEMMA AnswerTurns ==
  ASSUME XInv, tx' = tx, back' = back, Answers(rx, rx'), Next1',
         fwd # <<>>, fwd' = Tail(fwd), Head(fwd).m.kind = "data"
  PROVE  Turns'
<1> USE DEF XInv
<1> SUFFICES ASSUME Early'  PROVE Budget' /\ Unsent' /\ Answered' /\ TxClock' /\ RxClock'
  BY DEF Turns
<1>1. Early  BY DEF Early
<1>2. /\ Copies' = 0 /\ Acks = 0 /\ Naks \in Nat
      /\ Naks <= One(tx.selfNak) /\ DataAt(fwd') = {}
      /\ WordsAt(back, {"ACK"}) = {} /\ rx.ctl # <<"ACK">>
      /\ tx.ph = "SendAck" => tx.time + Latency >= BlockTime
      /\ tx.ph \notin {"Idle", "SendStart"}
  BY <1>1, CopyHeard
<1>3. rx'.ph = "RecvWait" /\ rx'.time = BlockTime /\ rx'.ctl = <<"ACK">>  BY DEF Answers
<1>4. ~Owes' /\ ~Asking'  BY <1>3 DEF Owes, Asking
<1>5. Acks' = 1
  <2>1. Cardinality(WordsAt(back, {"ACK"})) = 0  BY <1>2, LineTypes, WordCount
  <2> QED  BY <1>3, <2>1 DEF Acks, One
<1>6. Naks' \in Nat /\ Naks' <= Naks
  <2> DEFINE B == Cardinality(WordsAt(back, Asks))
  <2>1. B \in Nat  BY LineTypes, WordCount
  <2>2. Naks = B + One(Asking) + One(Owes) /\ Naks' = B
    BY <1>4, <2>1 DEF Naks, One
  <2> HIDE DEF B
  <2> QED  BY <2>1, <2>2 DEF One
<1>7. One(tx.selfNak) \in {0, 1}  BY LineTypes, SenderFields, Ones
<1>8. Budget'
  <2>1. Within(0, 1, Naks', One(tx.selfNak))  BY <1>2, <1>6, <1>7 DEF Within
  <2> QED  BY <1>2, <1>5, <2>1 DEF Budget
<1>9. Unsent'  BY <1>2 DEF Unsent
<1>10. Answered'  BY <1>2, <1>4 DEF Answered
<1>11. TxClock'
  <2>1. ~(Naks' >= 2)  BY <1>2, <1>6, <1>7
  <2> QED  BY <1>2, <2>1 DEF TxClock
<1>12. RxClock'
  <2>1. \A i \in DOMAIN back : back[i].age \in 0..Latency  BY LineTypes, BackFields
  <2>2. \A i \in DOMAIN back : rx'.time + back[i].age >= Trip  BY <1>3, <2>1, ClocksAreLong
  <2>3. rx'.time >= Trip /\ rx'.time + Latency >= Trip  BY <1>3, ClocksAreLong
  <2> QED  BY <1>2, <2>2, <2>3 DEF RxClock
<1> QED  BY <1>8, <1>9, <1>10, <1>11, <1>12

\* The block waited for is stored, in its place.
LEMMA StoresKeeps ==
  ASSUME XInv, Bystanders, tx' = tx, back' = back, rx' \in RxRec,
         fwd # <<>>, fwd' = Tail(fwd), Head(fwd).m.kind = "data", Stores(rx, rx', Head(fwd).m)
  PROVE  XInv'
<1> USE DEF XInv
<1>1. /\ Head(fwd).m.num = tx.num /\ Head(fwd).m.from = tx.off /\ Head(fwd).m.len = tx.len
      /\ tx.off + tx.len <= tx.buf
  BY CopyHeard
<1>2. /\ rx.num = tx.num /\ rx'.num = (rx.num + 1) % Mod
      /\ Len(rx'.got) = Len(rx.got) + tx.len
      /\ \A i \in 1..Len(rx.got) : rx'.got[i] = rx.got[i]
      /\ \A i \in 1..tx.len : rx'.got[Len(rx.got) + i] = tx.off + i
      /\ rx'.st = "Running" /\ rx'.ph = "RecvWait" /\ ~rx'.eotSeen
      /\ Answers(rx, rx')
  BY <1>1 DEF Stores, Answers
<1>3. /\ tx.num \in Nat /\ tx.off \in Nat /\ tx.len \in Nat /\ Len(rx.got) \in Nat
      /\ tx.num < Mod /\ DOMAIN rx.got = 1..Len(rx.got) /\ DOMAIN rx'.got = 1..Len(rx'.got)
  BY LineTypes, SenderFields, ReceiverFields DEF InFile
<1>4. Same
  <2>1. (tx.num + 1) % Mod # tx.num  BY <1>3, NumbersGoRound
  <2>2. ~Next1  BY <1>2, <2>1 DEF Next1
  <2> QED  BY <2>2 DEF PlaceOK
<1>5. tx.off <= Len(rx.got) /\ (Uncut => Len(rx.got) = tx.off)  BY <1>4 DEF Same
<1>6. Uncut' <=> Uncut  BY DEF Uncut, Bystanders
<1>7. Next1'
  <2>1. tx.off + tx.len <= Len(rx'.got)  BY <1>2, <1>3, <1>5
  <2>2. Uncut => Len(rx'.got) = tx.off + tx.len  BY <1>2, <1>3, <1>5
  <2> QED  BY <1>1, <1>2, <1>6, <2>1, <2>2 DEF Next1
<1>8. Exact'
  <2> SUFFICES ASSUME Uncut, NEW i \in DOMAIN rx'.got  PROVE rx'.got[i] = i
    BY <1>6 DEF Exact
  <2>1. i \in 1..(Len(rx.got) + tx.len) /\ Len(rx.got) = tx.off  BY <1>2, <1>3, <1>5
  <2>2. CASE i <= Len(rx.got)
    <3>1. i \in 1..Len(rx.got)  BY <1>3, <2>1, <2>2
    <3>2. rx.got[i] = i  BY <1>3, <3>1 DEF Exact
    <3> QED  BY <1>2, <3>1, <3>2
  <2>3. CASE ~(i <= Len(rx.got))
    <3>1. i - Len(rx.got) \in 1..tx.len /\ Len(rx.got) + (i - Len(rx.got)) = i
          /\ tx.off + (i - Len(rx.got)) = i
      BY <1>3, <2>1, <2>3
    <3>2. rx'.got[Len(rx.got) + (i - Len(rx.got))] = tx.off + (i - Len(rx.got))
      BY <1>2, <3>1
    <3> QED  BY <3>1, <3>2
  <2> QED  BY <2>2, <2>3
<1>9. Taken /\ Bystanders  BY DEF Taken
<1>10. /\ fwd' \in Seq(OnFwd)
       /\ DataAt(fwd') # {} => DataAt(fwd) # {}
       /\ \A i \in DataAt(fwd') : \E j \in DataAt(fwd) : fwd'[i] = fwd[j]
       /\ \A i \in DOMAIN fwd' : \E j \in DOMAIN fwd : fwd'[i] = fwd[j]
  BY <1>9, TakenFacts
<1>11. Types'  BY <1>10 DEF Types, Bystanders
<1>12. Phases'  BY <1>2 DEF Phases
<1>13. InFile'  BY <1>10 DEF InFile, Bystanders
<1>14. CopiesOK'  BY <1>10 DEF CopiesOK
<1>15. PlaceOK'  BY <1>7 DEF PlaceOK
<1>16. EndOK'
  <2>1. (\E i \in DOMAIN fwd' : fwd'[i].m.kind = "EOT") => Ending  BY <1>10 DEF Ending
  <2>2. Ending' => Ending  BY <1>2, <2>1 DEF Ending
  <2> QED  BY <2>2 DEF EndOK, Early, Bystanders
<1>17. Turns'  BY <1>2, <1>7, AnswerTurns
<1> QED  BY <1>8, <1>11, <1>12, <1>13, <1>14, <1>15, <1>16, <1>17

\* The block stored already is answered again.
LEMMA RepeatsKeeps ==
  ASSUME XInv, Bystanders, tx' = tx, back' = back, rx' \in RxRec,
         fwd # <<>>, fwd' = Tail(fwd), Head(fwd).m.kind = "data", Repeats(rx, rx', Head(fwd).m)
  PROVE  XInv'
<1> USE DEF XInv
<1>1. Head(fwd).m.num = tx.num  BY CopyHeard
<1>2. /\ rx.num # tx.num /\ rx'.num = rx.num /\ rx'.got = rx.got /\ Answers(rx, rx')
      /\ rx'.st = "Running" /\ rx'.ph = "RecvWait" /\ ~rx'.eotSeen
  BY <1>1 DEF Repeats, Answers
<1>3. Next1  BY <1>2 DEF PlaceOK, Same
<1>4. /\ Types' /\ Phases' /\ InFile' /\ CopiesOK' /\ PlaceOK' /\ Exact' /\ EndOK'
      /\ (Next1 <=> Next1')
  BY <1>2, UnstoredPlace DEF Taken
<1>5. Turns'  BY <1>2, <1>3, <1>4, AnswerTurns
<1> QED  BY <1>4, <1>5

\* An EOT is asked for again: nothing is left to send.
LEMMA EotNaggedKeeps ==
  ASSUME XInv, Bystanders, tx' = tx, back' = back, rx' \in RxRec,
         fwd # <<>>, fwd' = Tail(fwd), Head(fwd).m.kind = "EOT", Nags(rx, rx')
  PROVE  XInv'
<1> USE DEF XInv
<1>1. Ending
  <2>1. Head(fwd) = fwd[1] /\ 1 \in DOMAIN fwd  BY LineTypes, FwdFields
  <2> QED  BY <2>1 DEF Ending
<1>2. /\ Types' /\ Phases' /\ InFile' /\ CopiesOK' /\ PlaceOK' /\ Exact' /\ EndOK'
      /\ (Early <=> Early')
  <2>1. rx'.num = rx.num /\ rx'.got = rx.got /\ rx'.st = "Running" /\ rx'.ph = "RecvWait"
    BY DEF Nags
  <2> QED  BY <1>1, <2>1, UnstoredPlace DEF Taken
<1>3. ~Early'  BY <1>1, <1>2 DEF EndOK
<1> QED  BY <1>2, <1>3 DEF Turns

\* What is not about whose turn it is, when the receiver asks again off its clock.
LEMMA NagPlace ==
  ASSUME XInv, Bystanders, tx' = tx, back' = back, fwd' = fwd, rx' \in RxRec,
         Nags(rx, rx'), rx'.eotSeen = rx.eotSeen
  PROVE  /\ Types' /\ Phases' /\ InFile' /\ CopiesOK' /\ PlaceOK' /\ Exact' /\ EndOK'
         /\ (Same <=> Same') /\ (Next1 <=> Next1') /\ (Early <=> Early')
         /\ rx'.ph = "RecvWait" /\ rx'.time >= Trip /\ rx'.ctl # <<"ACK">> /\ Asking' /\ ~Owes'
         /\ Copies' = Copies
<1>1. /\ rx'.num = rx.num /\ rx'.got = rx.got /\ rx'.st = "Running" /\ rx'.ph = "RecvWait"
      /\ rx'.time >= Trip /\ rx'.ctl \in {<<"NAK">>, <<"C">>}
  BY DEF Nags
<1>2. rx.eotSeen => Ending  BY DEF Ending
<1>3. rx'.ctl # <<"ACK">> /\ Asking' /\ ~Owes' /\ Copies' = Copies
  BY <1>1 DEF Asking, Owes, Copies
<1>4. /\ Types' /\ Phases' /\ InFile' /\ CopiesOK' /\ PlaceOK' /\ Exact' /\ EndOK'
      /\ (Same <=> Same') /\ (Next1 <=> Next1') /\ (Early <=> Early')
  BY <1>1, <1>2, UnstoredPlace DEF Taken
<1> QED  BY <1>1, <1>3, <1>4

\* The word owed for a bad block is said.
LEMMA NagOwedKeeps ==
  ASSUME XInv, Bystanders, tx' = tx, back' = back, fwd' = fwd, rx' \in RxRec,
         Nags(rx, rx'), rx'.eotSeen = rx.eotSeen, Owes
  PROVE  XInv'
<1> USE DEF XInv
<1>1. /\ Types' /\ Phases' /\ InFile' /\ CopiesOK' /\ PlaceOK' /\ Exact' /\ EndOK'
      /\ (Same <=> Same') /\ (Next1 <=> Next1') /\ (Early <=> Early')
      /\ rx'.ph = "RecvWait" /\ rx'.time >= Trip /\ rx'.ctl # <<"ACK">> /\ Asking' /\ ~Owes'
      /\ Copies' = Copies
  BY NagPlace
<1>2. CASE ~Early  BY <1>1, <1>2 DEF Turns
<1>3. CASE Early
  <2>1. Budget /\ Unsent /\ Answered /\ TxClock  BY <1>3 DEF Turns
  <2>2. Copies \in Nat /\ Acks \in Nat /\ Naks \in Nat /\ One(tx.selfNak) \in {0, 1}
    BY Counts, LineTypes, SenderFields, Ones
  <2>3. Acks = 0  BY <2>1 DEF Answered
  <2>4. WordsAt(back, {"ACK"}) = {}  BY <2>3, Counts
  <2>5. Acks' = 0
    <3>1. Cardinality(WordsAt(back, {"ACK"})) = 0  BY <2>4, LineTypes, WordCount
    <3> QED  BY <1>1, <3>1 DEF Acks, One
  <2>6. Naks' \in Nat /\ Naks' <= Naks
    <3> DEFINE B == Cardinality(WordsAt(back, Asks))
    <3>1. B \in Nat  BY LineTypes, WordCount
    <3>2. Naks = B + One(Asking) + 1 /\ Naks' = B + 1  BY <1>1, <3>1 DEF Naks, One
    <3> HIDE DEF B
    <3> QED  BY <3>1, <3>2 DEF One
  <2>7. Budget'
    <3>1. Within(Copies, Acks, Naks, One(tx.selfNak))  BY <2>1 DEF Budget
    <3> HIDE DEF XInv
    <3>2. Within(Copies, 0, Naks', One(tx.selfNak))  BY <2>2, <2>3, <2>6, <3>1, WithinLess
    <3> QED  BY <1>1, <2>5, <3>2 DEF Budget
  <2>8. Unsent'  BY <1>1, <2>1, <2>5 DEF Unsent
  <2>9. Answered'  BY <2>4, <2>5 DEF Answered
  <2>10. TxClock'  BY <1>1, <2>1, <2>4 DEF TxClock
  <2>11. RxClock'
    <3>1. \A i \in DOMAIN back : back[i].age \in 0..Latency  BY LineTypes, BackFields
    <3>2. \A i \in DataAt(fwd) : fwd[i].age \in 0..Latency  BY LineTypes, FwdFields
    <3>3. rx'.time \in Nat  BY ReceiverFields
    <3>4. \A i \in DOMAIN back : rx'.time + back[i].age >= Trip
      BY <1>1, <3>1, <3>3, ClocksAreLong
    <3>5. \A i \in DataAt(fwd) : rx'.time + Latency + fwd[i].age >= Trip
      BY <1>1, <3>2, <3>3, ClocksAreLong
    <3>6. rx'.time + Latency >= Trip  BY <1>1, <3>3, ClocksAreLong
    <3> QED  BY <1>1, <3>4, <3>5, <3>6 DEF RxClock
  <2> QED  BY <1>1, <2>7, <2>8, <2>9, <2>10, <2>11 DEF Turns
<1> QED  BY <1>2, <1>3

\* The receiver asks again after silence: then nothing of its own was under way,
\* and no copy either, but for one the sender sent again off its own clock.
LEMMA NagTimedKeeps ==
  ASSUME XInv, Bystanders, tx' = tx, back' = back, fwd' = fwd, rx' \in RxRec,
         Nags(rx, rx'), rx'.eotSeen = rx.eotSeen, rx.ph = "RecvWait", rx.time = 0
  PROVE  XInv'
<1> USE DEF XInv
<1>1. /\ Types' /\ Phases' /\ InFile' /\ CopiesOK' /\ PlaceOK' /\ Exact' /\ EndOK'
      /\ (Same <=> Same') /\ (Next1 <=> Next1') /\ (Early <=> Early')
      /\ rx'.ph = "RecvWait" /\ rx'.time >= Trip /\ rx'.ctl # <<"ACK">> /\ Asking' /\ ~Owes'
      /\ Copies' = Copies
  BY NagPlace
<1>2. CASE ~Early  BY <1>1, <1>2 DEF Turns
<1>3. CASE Early
  <2>1. Budget /\ Unsent /\ Answered /\ TxClock /\ RxClock  BY <1>3 DEF Turns
  <2>2. Copies \in Nat /\ Acks \in Nat /\ Naks \in Nat /\ tx.selfNak \in BOOLEAN
    BY Counts, LineTypes, SenderFields
  <2>3. DOMAIN back = {}
    <3> SUFFICES ASSUME NEW i \in DOMAIN back  PROVE FALSE  OBVIOUS
    <3>1. back[i].age \in 0..Latency  BY LineTypes, BackFields
    <3>2. rx.time + back[i].age >= Trip  BY <2>1 DEF RxClock
    <3> QED  BY <3>1, <3>2, ClocksAreLong
  <2>4. \A S : WordsAt(back, S) = {} /\ Cardinality(WordsAt(back, S)) = 0
    <3>1. \A S : WordsAt(back, S) = {}  BY <2>3 DEF WordsAt
    <3> QED  BY <3>1, LineTypes, WordCount
  <2>5. ~tx.selfNak => Copies = 0
    <3> SUFFICES ASSUME ~tx.selfNak  PROVE Copies = 0  OBVIOUS
    <3>1. ~tx.live
      <4>1. tx.live => rx.time + Latency >= Trip  BY <2>1 DEF RxClock
      <4> QED  BY <4>1, ClocksAreLong
    <3>2. DataAt(fwd) = {}
      <4> SUFFICES ASSUME NEW i \in DataAt(fwd)  PROVE FALSE  OBVIOUS
      <4>1. fwd[i].age \in 0..Latency  BY LineTypes, FwdFields
      <4>2. rx.time + Latency + fwd[i].age >= Trip  BY <2>1 DEF RxClock
      <4> QED  BY <4>1, <4>2, ClocksAreLong
    <3>3. Cardinality(DataAt(fwd)) = 0  BY <3>2, LineTypes, DataCount
    <3> QED  BY <3>1, <3>3 DEF Copies, One
  <2>6. Acks' = 0 /\ Naks' = 1
    <3>1. Cardinality(WordsAt(back, {"ACK"})) = 0 /\ Cardinality(WordsAt(back, Asks)) = 0
      BY <2>4
    <3>2. One(Asking') = 1 /\ One(Owes') = 0 /\ One(rx'.ctl = <<"ACK">>) = 0
      BY <1>1 DEF One
    <3> QED  BY <3>1, <3>2 DEF Acks, Naks
  <2>7. Budget'
    <3>1. One(tx.selfNak) \in {0, 1}  BY <2>2, Ones
    <3>2. Within(Copies, Acks, Naks, One(tx.selfNak))  BY <2>1 DEF Budget
    <3> HIDE DEF XInv
    <3>3. Copies <= 1  BY <2>2, <3>1, <3>2, WithinFacts
    <3>4. Copies <= One(tx.selfNak)  BY <2>2, <2>5, <3>3 DEF One
    <3>5. Within(Copies, 0, 1, One(tx.selfNak))  BY <2>2, <3>1, <3>3, <3>4 DEF Within
    <3> QED  BY <1>1, <2>6, <3>5 DEF Budget
  <2>8. Unsent'  BY <1>1, <2>1, <2>6 DEF Unsent
  <2>9. Answered'  BY <2>4, <2>6 DEF Answered
  <2>10. TxClock'
    <3>1. ~(Naks' >= 2)  BY <2>6
    <3> QED  BY <1>1, <2>1, <2>4, <3>1 DEF TxClock
  <2>11. RxClock'
    <3>1. \A i \in DataAt(fwd) : fwd[i].age \in 0..Latency  BY LineTypes, FwdFields
    <3>2. rx'.time \in Nat  BY ReceiverFields
    <3>3. \A i \in DataAt(fwd) : rx'.time + Latency + fwd[i].age >= Trip
      BY <1>1, <3>1, <3>2, ClocksAreLong
    <3>4. rx'.time + Latency >= Trip  BY <1>1, <3>2, ClocksAreLong
    <3> QED  BY <1>1, <2>3, <3>3, <3>4 DEF RxClock
  <2> QED  BY <1>1, <2>7, <2>8, <2>9, <2>10, <2>11 DEF Turns
<1> QED  BY <1>2, <1>3

\* The receiver begins: nothing was on the line before it did.
LEMMA BeginRecvKeeps ==
  ASSUME XInv, Bystanders, BeginRecv, ~job.ymodem
  PROVE  XInv'
<1> USE DEF XInv
<1>1. /\ rx.st = "Idle" /\ tx' = tx /\ fwd' = fwd /\ back' = back
      /\ rx' = Wait([rx EXCEPT !.st = "Running", !.yHdr = FALSE, !.num = 1], "RecvWait", 0)
  <2>1. job.ymodem = FALSE  BY LineTypes, XmodemAssumption
  <2> QED  BY <2>1 DEF BeginRecv
<1>2. /\ back = <<>> /\ rx.ctl = <<>> /\ rx.num = 1 /\ DataAt(fwd) = {} /\ ~tx.live
      /\ tx.ph \in {"Idle", "SendStart"}
  BY <1>1 DEF Phases
<1>3. /\ rx' \in RxRec /\ rx'.num = rx.num /\ rx'.got = rx.got /\ rx'.ctl = <<>>
      /\ rx'.eotSeen = rx.eotSeen /\ rx'.st = "Running" /\ rx'.ph = "RecvWait"
  BY <1>1, <1>2, LineTypes DEF RxRec, Wait, SenderSt, ReceiverPh, ReceiverCtl
<1>4. /\ Types' /\ Phases' /\ InFile' /\ CopiesOK' /\ PlaceOK' /\ Exact' /\ EndOK'
      /\ (Same <=> Same') /\ (Next1 <=> Next1') /\ (Early <=> Early')
  <2>1. rx.eotSeen => Ending  BY DEF Ending
  <2> QED  BY <1>1, <1>3, <2>1, UnstoredPlace DEF Taken
<1>5. CASE ~Early  BY <1>4, <1>5 DEF Turns
<1>6. CASE Early
  <2>1. Budget /\ Unsent /\ Answered  BY <1>6 DEF Turns
  <2>2. ~Owes /\ ~Owes' /\ (Asking' <=> Asking)
    <3>1. rx.ph = "Idle"  BY <1>1, LineTypes, ReceiverFields DEF Phases, ReceiverPh
    <3> QED  BY <1>2, <1>3, <3>1 DEF Owes, Asking
  <2>3. Copies' = Copies /\ Acks' = Acks /\ Naks' = Naks
    <3>1. One(Asking') = One(Asking) /\ One(Owes') = One(Owes)  BY <2>2 DEF One
    <3>2. Copies' = Copies  BY <1>1 DEF Copies
    <3>3. Acks' = Acks  BY <1>1, <1>2, <1>3 DEF Acks
    <3>4. Naks' = Naks  BY <1>1, <3>1 DEF Naks
    <3> QED  BY <3>2, <3>3, <3>4
  <2>4. Budget'  BY <1>1, <2>1, <2>3 DEF Budget
  <2>5. Unsent'  BY <1>1, <1>4, <2>1, <2>3 DEF Unsent
  <2>6. Answered'  BY <1>1, <1>4, <2>1, <2>2, <2>3 DEF Answered
  <2>7. TxClock'  BY <1>1, <1>2 DEF TxClock
  <2>8. RxClock'
    <3>1. DOMAIN back' = {}  BY <1>1, <1>2
    <3> QED  BY <1>1, <1>2, <1>3, <3>1 DEF RxClock
  <2> QED  BY <1>4, <2>4, <2>5, <2>6, <2>7, <2>8 DEF Turns
<1> QED  BY <1>5, <1>6

\* A word leaves the receiver: it is on the line, or lost in a dead one.
LEMMA WordKeeps ==
  ASSUME XInv, Bystanders, RxPull
  PROVE  XInv'
<1> USE DEF XInv
<1>1. PICK x \in {"ACK", "NAK", "C", "CAN"} : rx.ctl = <<x>>
  BY LineTypes, ReceiverFields DEF RxPull, ReceiverCtl
<1> DEFINE u == [m |-> x, age |-> 0]
<1>2. u \in OnBack /\ u.m = x /\ u.age = 0  BY ClocksAreLong DEF OnBack
<1>3. /\ back \in Seq(OnBack) /\ back' \in {back, Append(back, u)} /\ rx' = Say(rx, <<>>)
      /\ tx' = tx /\ fwd' = fwd
  <2>1. back' = Sent(back, <<x>>)  BY <1>1 DEF RxPull
  <2> QED  BY <1>2, <2>1, LineTypes, SentPuts DEF RxPull
<1> HIDE DEF u
<1>4. /\ rx' \in RxRec /\ rx'.num = rx.num /\ rx'.got = rx.got /\ rx'.ctl = <<>>
      /\ rx'.eotSeen = rx.eotSeen /\ rx'.st = rx.st /\ rx'.ph = rx.ph /\ rx'.time = rx.time
  BY <1>3, LineTypes DEF RxRec, Say, ReceiverCtl
<1>5. rx.st # "Idle" /\ rx.ctl # <<>>  BY <1>1 DEF Phases
<1>6. /\ back' \in Seq(OnBack)
      /\ \A i \in DOMAIN back : i \in DOMAIN back' /\ back'[i] = back[i] /\ i <= Len(back)
      /\ \A i \in DOMAIN back' : \/ i \in DOMAIN back /\ back'[i] = back[i]
                                 \/ i = Len(back) + 1 /\ back'[i] = u
      /\ Len(back) \in Nat /\ DOMAIN back = 1..Len(back)
  <2>1. Len(back) \in Nat /\ DOMAIN back = 1..Len(back)  BY <1>3
  <2>2. CASE back' = back  BY <1>3, <2>1, <2>2
  <2>3. CASE back' = Append(back, u)
    <3>1. /\ DOMAIN back' = 1..(Len(back) + 1)
          /\ back'[Len(back) + 1] = u /\ \A i \in 1..Len(back) : back'[i] = back[i]
          /\ back' \in Seq(OnBack)
      BY <1>2, <1>3, <2>3
    <3> QED  BY <2>1, <3>1
  <2> QED  BY <1>3, <2>2, <2>3
<1>7. SameBlock(tx, tx') /\ job' = job  BY <1>3 DEF SameBlock, Bystanders
<1>8. Types'  BY <1>3, <1>4, <1>6 DEF Types, Bystanders
<1>9. Phases'  BY <1>3, <1>4, <1>5 DEF Phases
<1>10. InFile'  BY <1>3, <1>7 DEF InFile
<1>11. CopiesOK'  BY <1>3 DEF CopiesOK
<1>12. PlaceOK' /\ Exact' /\ (Same <=> Same') /\ (Next1 <=> Next1')  BY <1>4, <1>7, PlaceKept
<1>13. Early <=> Early'  BY <1>3 DEF Early
<1>14. EndOK'
  <2>1. Ending' <=> Ending  BY <1>3, <1>4 DEF Ending
  <2> QED  BY <1>3, <1>7, <1>13, <2>1 DEF EndOK
<1>15. CASE ~Early  BY <1>8, <1>9, <1>10, <1>11, <1>12, <1>13, <1>14, <1>15 DEF Turns
<1>16. CASE Early
  <2>1. Budget /\ Unsent /\ Answered /\ TxClock /\ RxClock  BY <1>16 DEF Turns
  <2>2. /\ Copies \in Nat /\ Acks \in Nat /\ Naks \in Nat /\ One(tx.selfNak) \in {0, 1}
        /\ Copies' = Copies
    <3>1. Copies' = Copies  BY <1>3 DEF Copies
    <3> QED  BY <3>1, Counts, LineTypes, SenderFields, Ones
  <2>3. (Owes' <=> Owes) /\ ~Asking' /\ rx'.ctl # <<"ACK">> /\ (Asking <=> x \in Asks)
        /\ (rx.ctl = <<"ACK">> <=> x = "ACK")
    <3>1. \A y : <<>> # <<y>>  OBVIOUS
    <3>2. <<x>> = <<"ACK">> <=> x = "ACK"  OBVIOUS
    <3>3. <<x>> \in {<<"NAK">>, <<"C">>} <=> x \in Asks  BY DEF Asks
    <3>4. (Owes' <=> Owes) /\ ~Asking' /\ rx'.ctl # <<"ACK">>
      BY <1>4, <3>1 DEF Owes, Asking
    <3> QED  BY <1>1, <3>2, <3>3, <3>4 DEF Asking
  <2>4. ASSUME NEW S
        PROVE  /\ Cardinality(WordsAt(back, S)) \in Nat /\ Cardinality(WordsAt(back', S)) \in Nat
               /\ Cardinality(WordsAt(back', S)) <=
                    Cardinality(WordsAt(back, S)) + (IF x \in S THEN 1 ELSE 0)
               /\ back' = back => Cardinality(WordsAt(back', S)) = Cardinality(WordsAt(back, S))
               /\ \A i \in WordsAt(back', S) :
                    \/ i \in WordsAt(back, S) /\ back'[i] = back[i] /\ i <= Len(back)
                    \/ i = Len(back) + 1 /\ back'[i] = u /\ x \in S
               /\ \A i \in WordsAt(back, S) : i \in WordsAt(back', S) /\ back'[i] = back[i]
    <3>1. /\ Cardinality(WordsAt(back, S)) \in Nat /\ Cardinality(WordsAt(back', S)) \in Nat
      BY <1>3, <1>6, WordCount
    <3>2. back' = Append(back, u) =>
            Cardinality(WordsAt(back', S)) =
              Cardinality(WordsAt(back, S)) + (IF x \in S THEN 1 ELSE 0)
      BY <1>2, <1>3, WordsAppend
    <3>3. Cardinality(WordsAt(back', S)) <=
            Cardinality(WordsAt(back, S)) + (IF x \in S THEN 1 ELSE 0)
      BY <1>3, <3>1, <3>2
    <3>4. /\ \A i \in WordsAt(back', S) :
               \/ i \in WordsAt(back, S) /\ back'[i] = back[i] /\ i <= Len(back)
               \/ i = Len(back) + 1 /\ back'[i] = u /\ x \in S
          /\ \A i \in WordsAt(back, S) : i \in WordsAt(back', S) /\ back'[i] = back[i]
      BY <1>2, <1>6 DEF WordsAt
    <3> QED  BY <3>1, <3>3, <3>4
  <2>5. Acks' \in Nat /\ Acks' <= Acks
    <3> DEFINE B == Cardinality(WordsAt(back, {"ACK"}))
               C == Cardinality(WordsAt(back', {"ACK"}))
    <3>1. B \in Nat /\ C \in Nat /\ C <= B + (IF x = "ACK" THEN 1 ELSE 0)
      <4>1. x \in {"ACK"} <=> x = "ACK"  OBVIOUS
      <4> QED  BY <2>4, <4>1
    <3>2. Acks = B + One(rx.ctl = <<"ACK">>) /\ Acks' = C + One(rx'.ctl = <<"ACK">>)
      BY DEF Acks
    <3> HIDE DEF B, C
    <3> QED  BY <2>3, <3>1, <3>2 DEF One
  <2>6. Naks' \in Nat /\ Naks' <= Naks /\ (back' = back /\ Asking => Naks' = Naks - 1)
    <3> DEFINE B == Cardinality(WordsAt(back, Asks))
               C == Cardinality(WordsAt(back', Asks))
    <3>1. /\ B \in Nat /\ C \in Nat /\ C <= B + (IF x \in Asks THEN 1 ELSE 0)
          /\ back' = back => C = B
      BY <2>4
    <3>2. Naks = B + One(Asking) + One(Owes) /\ Naks' = C + One(Asking') + One(Owes')
      BY DEF Naks
    <3> HIDE DEF B, C
    <3> QED  BY <2>3, <3>1, <3>2 DEF One
  <2>7. Within(Copies, Acks, Naks, One(tx.selfNak))  BY <2>1 DEF Budget
  <2> HIDE DEF XInv
  <2>8. Budget'
    <3>1. Within(Copies, Acks', Naks', One(tx.selfNak))
      BY <2>2, <2>5, <2>6, <2>7, WithinLess
    <3> QED  BY <1>3, <2>2, <3>1 DEF Budget
  <2>9. Unsent'  BY <1>3, <1>12, <2>1, <2>2, <2>5 DEF Unsent
  <2>10. Answered'
    <3>1. Acks' # 0 => Next1' /\ ~Owes'  BY <1>12, <2>1, <2>2, <2>3, <2>5 DEF Answered
    <3>2. ASSUME NEW i \in WordsAt(back', {"ACK"}), NEW j \in WordsAt(back', Asks)  PROVE j < i
      <4>1. CASE i \in WordsAt(back, {"ACK"})
        <5>1. ~Asking /\ \A k \in WordsAt(back, Asks) : k < i  BY <2>1, <4>1 DEF Answered
        <5>2. j \in WordsAt(back, Asks)  BY <2>3, <2>4, <5>1
        <5> QED  BY <5>1, <5>2
      <4>2. CASE i = Len(back) + 1 /\ x = "ACK"
        <5>1. x \notin Asks  BY <4>2 DEF Asks
        <5>2. j \in WordsAt(back, Asks) /\ j <= Len(back)  BY <2>4, <5>1
        <5>3. j \in Nat
          <6>1. j \in DOMAIN back  BY <5>2 DEF WordsAt
          <6> QED  BY <1>6, <6>1
        <5> QED  BY <1>6, <4>2, <5>2, <5>3
      <4>3. x \in {"ACK"} <=> x = "ACK"  OBVIOUS
      <4> QED  BY <2>4, <4>1, <4>2, <4>3
    <3> QED  BY <2>3, <3>1, <3>2 DEF Answered
  <2>11. Latency \in Nat /\ Trip \in Nat /\ tx.time \in Nat /\ rx.time \in Nat
    BY <1>8, LineTypes, ClocksAreLong, SenderFields, ReceiverFields DEF XInv
  <2>12. TxClock'
    <3> SUFFICES ASSUME tx.ph = "SendAck"
                 PROVE  /\ \A i \in DataAt(fwd) : tx.time + fwd[i].age >= BlockTime
                        /\ \A i \in WordsAt(back', {"ACK"}) : tx.time + Latency + back'[i].age >= BlockTime
                        /\ Owes => tx.time + Latency >= BlockTime
                        /\ Naks' >= 2 =>
                             \/ Owes
                             \/ \E i \in WordsAt(back', Asks) :
                                  tx.time + Latency + back'[i].age >= BlockTime
      BY <1>3, <2>3 DEF TxClock
    <3>1. /\ \A i \in DataAt(fwd) : tx.time + fwd[i].age >= BlockTime
          /\ \A i \in WordsAt(back, {"ACK"}) : tx.time + Latency + back[i].age >= BlockTime
          /\ rx.ctl = <<"ACK">> \/ Owes => tx.time + Latency >= BlockTime
          /\ Naks >= 2 =>
               \/ Owes
               \/ Asking /\ tx.time + Latency >= BlockTime
               \/ \E i \in WordsAt(back, Asks) : tx.time + Latency + back[i].age >= BlockTime
      BY <2>1 DEF TxClock
    <3>2. tx.time + Latency + u.age = tx.time + Latency  BY <1>2, <2>11
    <3>3. ASSUME NEW i \in WordsAt(back', {"ACK"})
          PROVE  tx.time + Latency + back'[i].age >= BlockTime
      <4>1. CASE i \in WordsAt(back, {"ACK"}) /\ back'[i] = back[i]  BY <3>1, <4>1
      <4>2. CASE x \in {"ACK"} /\ back'[i] = u
        <5>1. tx.time + Latency >= BlockTime  BY <2>3, <3>1, <4>2
        <5> QED  BY <3>2, <4>2, <5>1
      <4> QED  BY <2>4, <4>1, <4>2
    <3>4. ASSUME Naks' >= 2, ~Owes
          PROVE  \E i \in WordsAt(back', Asks) : tx.time + Latency + back'[i].age >= BlockTime
      <4>1. Naks >= 2  BY <2>2, <2>6, <3>4
      <4>2. CASE Asking /\ tx.time + Latency >= BlockTime
        <5>1. Naks <= 2  BY <2>2, <2>7, WithinFacts
        <5>2. back' # back  BY <2>2, <2>6, <3>4, <4>2, <5>1
        <5>3. back' = Append(back, u)  BY <1>3, <5>2
        <5>4. Len(back) + 1 \in WordsAt(back', Asks) /\ back'[Len(back) + 1] = u
          <6>1. DOMAIN back' = 1..(Len(back) + 1) /\ back'[Len(back) + 1] = u
            BY <1>2, <1>3, <5>3
          <6>2. u.m \in Asks  BY <1>2, <2>3, <4>2
          <6> QED  BY <1>6, <6>1, <6>2 DEF WordsAt
        <5> QED  BY <3>2, <4>2, <5>4
      <4>3. CASE \E i \in WordsAt(back, Asks) : tx.time + Latency + back[i].age >= BlockTime
        BY <2>4, <4>3
      <4> QED  BY <3>1, <3>4, <4>1, <4>2, <4>3
    <3> QED  BY <3>1, <3>3, <3>4
  <2>13. RxClock'
    <3> SUFFICES ASSUME rx.ph = "RecvWait"
                 PROVE  \A i \in DOMAIN back' : rx.time + back'[i].age >= Trip
      BY <1>3, <1>4, <2>1 DEF RxClock
    <3>1. (\A i \in DOMAIN back : rx.time + back[i].age >= Trip) /\ rx.time >= Trip
      BY <1>5, <2>1 DEF RxClock
    <3>2. rx.time + u.age >= Trip  BY <1>2, <2>11, <3>1
    <3> QED  BY <1>6, <3>1, <3>2
  <2> QED  BY <1>8, <1>9, <1>10, <1>11, <1>12, <1>14, <2>8, <2>9, <2>10, <2>12, <2>13
           DEF Turns, XInv
<1> QED  BY <1>15, <1>16

-----------------------------------------------------------------------------
(* Steps of the line and of time                                           *)

\* Time passes: what is on the line gains in age what the clocks lose.
LEMMA TickKeeps ==
  ASSUME XInv, Bystanders, Tick
  PROVE  XInv'
<1> USE DEF XInv
<1>1. /\ ~TxDue /\ ~RxDue /\ tx.ctl = <<>> /\ ~tx.live /\ rx.ctl = <<>>
      /\ OnTime(fwd) /\ OnTime(back) /\ fwd' = Older(fwd) /\ back' = Older(back)
      /\ tx' = Sooner(tx) /\ rx' = Sooner(rx)
  BY DEF Tick
<1>2. /\ fwd' \in Seq(OnFwd) /\ DOMAIN fwd' = DOMAIN fwd
      /\ \A i \in DOMAIN fwd : fwd'[i].m = fwd[i].m /\ fwd'[i].age = fwd[i].age + 1
  BY <1>1, LineTypes, OlderPlaces
<1>3. /\ back' \in Seq(OnBack) /\ DOMAIN back' = DOMAIN back
      /\ \A i \in DOMAIN back : back'[i].m = back[i].m /\ back'[i].age = back[i].age + 1
      /\ back' = <<>> <=> back = <<>>
  BY <1>1, LineTypes, OlderPlaces
<1>4. DataAt(fwd') = DataAt(fwd) /\ \A S : WordsAt(back', S) = WordsAt(back, S)
  BY <1>2, <1>3 DEF DataAt, WordsAt
<1>5. \A i \in DataAt(fwd) : i \in DOMAIN fwd  BY DEF DataAt
<1>6. \A S : \A i \in WordsAt(back, S) : i \in DOMAIN back  BY DEF WordsAt
<1> DEFINE n == IF tx.time > 0 THEN tx.time - 1 ELSE 0
           k == IF rx.time > 0 THEN rx.time - 1 ELSE 0
<1>7. tx.time \in Nat /\ rx.time \in Nat /\ n \in Nat /\ k \in Nat
  BY LineTypes, SenderFields, ReceiverFields
<1>8. tx' = [tx EXCEPT !.time = n] /\ rx' = [rx EXCEPT !.time = k]  BY <1>1 DEF Sooner
<1>9. (tx.time > 0 => n = tx.time - 1) /\ (rx.time > 0 => k = rx.time - 1)  BY <1>7
<1> HIDE DEF n, k
<1>10. /\ tx' \in TxRec /\ SameBlock(tx, tx') /\ tx'.st = tx.st /\ tx'.ph = tx.ph
       /\ tx'.live = tx.live /\ tx'.ctl = tx.ctl /\ tx'.selfNak = tx.selfNak /\ tx'.time = n
  BY <1>7, <1>8, LineTypes DEF TxRec, SameBlock
<1>11. /\ rx' \in RxRec /\ rx'.st = rx.st /\ rx'.ph = rx.ph /\ rx'.num = rx.num
       /\ rx'.got = rx.got /\ rx'.ctl = rx.ctl /\ rx'.eotSeen = rx.eotSeen /\ rx'.time = k
  BY <1>7, <1>8, LineTypes DEF RxRec
<1>12. tx.ph = "SendAck" => tx'.time = tx.time - 1
  <2>1. tx.ph = "SendAck" => tx.time # 0  BY <1>1 DEF TxDue, TxTimed, Running, Phases
  <2> QED  BY <1>7, <1>9, <1>10, <2>1
<1>13. (rx.ph = "RecvWait" => rx'.time = rx.time - 1) /\ ~Owes
  <2>1. ~Owes /\ (rx.ph = "RecvWait" => rx.time # 0)
    BY <1>1 DEF RxDue, Running, Phases, Owes
  <2> QED  BY <1>7, <1>9, <1>11, <2>1
<1>14. Types'  BY <1>2, <1>3, <1>10, <1>11 DEF Types, Bystanders
<1>15. Phases'  BY <1>3, <1>4, <1>10, <1>11 DEF Phases
<1>16. InFile'  BY <1>4, <1>10 DEF InFile, SameBlock, Bystanders
<1>17. CopiesOK'  BY <1>2, <1>4, <1>5, <1>10 DEF CopiesOK, SameBlock
<1>18. PlaceOK' /\ Exact' /\ (Same <=> Same') /\ (Next1 <=> Next1')
  BY <1>10, <1>11, PlaceKept DEF Bystanders
<1>19. Early <=> Early'  BY <1>10 DEF Early
<1>20. EndOK'
  <2>1. (\E i \in DOMAIN fwd' : fwd'[i].m.kind = "EOT") => Ending  BY <1>2 DEF Ending
  <2>2. Ending' => Ending
    <3> HIDE DEF XInv
    <3> QED  BY <1>10, <1>11, <2>1 DEF Ending
  <2> QED  BY <1>10, <1>19, <2>2 DEF EndOK, SameBlock, Bystanders
<1>21. CASE ~Early  BY <1>14, <1>15, <1>16, <1>17, <1>18, <1>19, <1>20, <1>21 DEF Turns
<1>22. CASE Early
  <2>1. Budget /\ Unsent /\ Answered /\ TxClock /\ RxClock  BY <1>22 DEF Turns
  <2>2. (Asking' <=> Asking) /\ ~Asking /\ ~Owes'  BY <1>1, <1>11, <1>13 DEF Asking, Owes
  <2>3. Copies' = Copies /\ Acks' = Acks /\ Naks' = Naks
    <3>1. One(Asking') = One(Asking) /\ One(Owes') = One(Owes)  BY <1>13, <2>2 DEF One
    <3>2. Copies' = Copies  BY <1>4, <1>10 DEF Copies
    <3>3. Acks' = Acks  BY <1>4, <1>11 DEF Acks
    <3>4. Naks' = Naks  BY <1>4, <3>1 DEF Naks
    <3> QED  BY <3>2, <3>3, <3>4
  <2>4. Budget'  BY <1>10, <2>1, <2>3 DEF Budget
  <2>5. Unsent'  BY <1>10, <1>18, <2>1, <2>3 DEF Unsent
  <2>6. Answered'  BY <1>4, <1>18, <2>1, <2>2, <2>3 DEF Answered
  <2>7. \A i \in DataAt(fwd) : fwd[i].age \in Nat  BY LineTypes, FwdFields, ClocksAreLong
  <2>8. \A i \in DOMAIN back : back[i].age \in Nat  BY LineTypes, BackFields, ClocksAreLong
  <2>9. rx.ctl # <<"ACK">> /\ rx'.ctl = <<>> /\ rx'.ctl # <<"ACK">> /\ ~tx'.live
    BY <1>1, <1>10, <1>11
  <2>10. TxClock'
    <3> SUFFICES ASSUME tx.ph = "SendAck"
                 PROVE  /\ \A i \in DataAt(fwd) : tx'.time + fwd'[i].age >= BlockTime
                        /\ \A i \in WordsAt(back, {"ACK"}) :
                             tx'.time + Latency + back'[i].age >= BlockTime
                        /\ Naks >= 2 =>
                             \E i \in WordsAt(back, Asks) :
                                tx'.time + Latency + back'[i].age >= BlockTime
      BY <1>4, <1>10, <2>2, <2>3, <2>9 DEF TxClock
    <3>1. tx'.time = tx.time - 1  BY <1>12
    <3>2. ASSUME NEW i \in DataAt(fwd)  PROVE tx'.time + fwd'[i].age >= BlockTime
      <4>1. tx.time + fwd[i].age >= BlockTime  BY <2>1 DEF TxClock
      <4>2. fwd'[i].age = fwd[i].age + 1 /\ fwd[i].age \in Nat  BY <1>2, <1>5, <2>7
      <4> QED  BY <1>7, <3>1, <4>1, <4>2, ClocksAreLong
    <3>3. ASSUME NEW i \in DOMAIN back, tx.time + Latency + back[i].age >= BlockTime
          PROVE  tx'.time + Latency + back'[i].age >= BlockTime
      <4>1. back'[i].age = back[i].age + 1 /\ back[i].age \in Nat  BY <1>3, <2>8
      <4> QED  BY <1>7, <3>1, <3>3, <4>1, ClocksAreLong
    <3>4. \A i \in WordsAt(back, {"ACK"}) : tx'.time + Latency + back'[i].age >= BlockTime
      BY <1>6, <2>1, <3>3 DEF TxClock
    <3>5. Naks >= 2 => \E i \in WordsAt(back, Asks) :
                         tx'.time + Latency + back'[i].age >= BlockTime
      <4>1. Naks >= 2 => \E i \in WordsAt(back, Asks) :
                           tx.time + Latency + back[i].age >= BlockTime
        BY <1>13, <2>1, <2>2 DEF TxClock
      <4> QED  BY <1>6, <3>3, <4>1
    <3> QED  BY <3>2, <3>4, <3>5
  <2>11. RxClock'
    <3> SUFFICES ASSUME rx.ph = "RecvWait"
                 PROVE  /\ \A i \in DOMAIN back : rx'.time + back'[i].age >= Trip
                        /\ ~tx.selfNak =>
                             \A i \in DataAt(fwd) : rx'.time + Latency + fwd'[i].age >= Trip
      BY <1>3, <1>4, <1>10, <1>11, <2>9 DEF RxClock
    <3>1. rx'.time = rx.time - 1  BY <1>13
    <3>2. ASSUME NEW i \in DOMAIN back  PROVE rx'.time + back'[i].age >= Trip
      <4>1. rx.time + back[i].age >= Trip  BY <2>1 DEF RxClock
      <4>2. back'[i].age = back[i].age + 1 /\ back[i].age \in Nat  BY <1>3, <2>8
      <4> QED  BY <1>7, <3>1, <4>1, <4>2, ClocksAreLong
    <3>3. ASSUME ~tx.selfNak, NEW i \in DataAt(fwd)
          PROVE  rx'.time + Latency + fwd'[i].age >= Trip
      <4>1. rx.time + Latency + fwd[i].age >= Trip  BY <2>1, <3>3 DEF RxClock
      <4>2. fwd'[i].age = fwd[i].age + 1 /\ fwd[i].age \in Nat  BY <1>2, <1>5, <2>7
      <4> QED  BY <1>7, <3>1, <4>1, <4>2, ClocksAreLong
    <3> QED  BY <3>2, <3>3
  <2> QED  BY <1>14, <1>15, <1>16, <1>17, <1>18, <1>20, <2>4, <2>5, <2>6, <2>10, <2>11
           DEF Turns
<1> QED  BY <1>21, <1>22

\* The line goes dead: what was on it is gone.
LEMMA LineDiesKeeps ==
  ASSUME XInv, Bystanders, LineDies
  PROVE  XInv'
<1> USE DEF XInv
<1>1. tx' = tx /\ rx' = rx /\ fwd' = <<>> /\ back' = <<>>  BY DEF LineDies
<1>2. /\ fwd' \in Seq(OnFwd) /\ back' \in Seq(OnBack) /\ DOMAIN fwd' = {} /\ DOMAIN back' = {}
  BY <1>1
<1>3. DataAt(fwd') = {} /\ \A S : WordsAt(back', S) = {}  BY <1>2 DEF DataAt, WordsAt
<1>4. SameBlock(tx, tx')  BY <1>1 DEF SameBlock
<1>5. Types'  BY <1>1, <1>2 DEF Types, Bystanders
<1>6. Phases'  BY <1>1, <1>3 DEF Phases
<1>7. InFile'  BY <1>1, <1>3 DEF InFile, Bystanders
<1>8. CopiesOK'  BY <1>3 DEF CopiesOK
<1>9. PlaceOK' /\ Exact' /\ (Same <=> Same') /\ (Next1 <=> Next1')
  BY <1>1, <1>4, PlaceKept DEF Bystanders
<1>10. Early <=> Early'  BY <1>1 DEF Early
<1>11. EndOK'
  <2>1. Ending' => Ending  BY <1>1, <1>2 DEF Ending
  <2> QED  BY <1>1, <1>10, <2>1 DEF EndOK, Bystanders
<1>12. CASE ~Early  BY <1>5, <1>6, <1>7, <1>8, <1>9, <1>10, <1>11, <1>12 DEF Turns
<1>13. CASE Early
  <2>1. Budget /\ Unsent /\ Answered /\ TxClock /\ RxClock  BY <1>13 DEF Turns
  <2>2. (Asking' <=> Asking) /\ (Owes' <=> Owes)  BY <1>1 DEF Asking, Owes
  <2> DEFINE D == Cardinality(DataAt(fwd))
             A == Cardinality(WordsAt(back, {"ACK"}))
             B == Cardinality(WordsAt(back, Asks))
             l == One(tx.live)
             a == One(rx.ctl = <<"ACK">>)
             q == One(Asking)
             o == One(Owes)
  <2>3. D \in Nat /\ A \in Nat /\ B \in Nat /\ {l, a, q, o} \subseteq Nat
    <3>1. D \in Nat /\ A \in Nat /\ B \in Nat  BY LineTypes, DataCount, WordCount
    <3>2. {l, a, q, o} \subseteq Nat  BY DEF One
    <3> QED  BY <3>1, <3>2
  <2>4. Copies = D + l /\ Acks = A + a /\ Naks = B + q + o  BY DEF Copies, Acks, Naks
  <2>5. Copies' = l /\ Acks' = a /\ Naks' = q + o
    <3>1. Cardinality({}) = 0  BY FS_EmptySet
    <3>2. l \in Nat /\ a \in Nat /\ q \in Nat /\ o \in Nat  BY <2>3
    <3>3. One(Asking') = q /\ One(Owes') = o  BY <2>2 DEF One
    <3>4. Copies' = 0 + l  BY <1>1, <1>3, <3>1 DEF Copies
    <3>5. Acks' = 0 + a  BY <1>1, <1>3, <3>1 DEF Acks
    <3>6. Naks' = 0 + q + o  BY <1>3, <3>1, <3>3 DEF Naks
    <3> HIDE DEF D, A, B, l, a, q, o
    <3> QED  BY <3>2, <3>4, <3>5, <3>6
  <2>6. q + o >= 2 => Owes  BY DEF One
  <2>7. One(tx.selfNak) \in {0, 1}  BY LineTypes, SenderFields, Ones
  <2>8. Within(Copies, Acks, Naks, One(tx.selfNak))  BY <2>1 DEF Budget
  <2> HIDE DEF D, A, B, l, a, q, o, XInv
  <2>9. /\ Copies \in Nat /\ Acks \in Nat /\ Naks \in Nat
        /\ Copies' \in Nat /\ Acks' \in Nat /\ Naks' \in Nat
        /\ Copies' <= Copies /\ Acks' <= Acks /\ Naks' <= Naks
    BY <2>3, <2>4, <2>5
  <2>10. Budget'
    <3>1. Within(Copies', Acks', Naks', One(tx.selfNak))  BY <2>7, <2>8, <2>9, WithinFewer
    <3> QED  BY <1>1, <3>1 DEF Budget
  <2>11. Unsent'  BY <1>1, <1>9, <2>1, <2>9 DEF Unsent
  <2>12. Answered'  BY <1>3, <1>9, <2>1, <2>2, <2>9 DEF Answered
  <2>13. TxClock'
    <3>1. Naks' >= 2 => Owes'  BY <2>2, <2>5, <2>6
    <3> QED  BY <1>1, <1>3, <2>1, <2>2, <3>1 DEF TxClock
  <2>14. RxClock'  BY <1>1, <1>2, <1>3, <2>1 DEF RxClock
  <2> QED  BY <1>5, <1>6, <1>7, <1>8, <1>9, <1>11, <2>10, <2>11, <2>12, <2>13, <2>14
           DEF Turns, XInv
<1> QED  BY <1>12, <1>13

-----------------------------------------------------------------------------
(* The invariant                                                           *)

\* The sender's engine is as its answers need it.
LEMMA InvReady ==
  ASSUME XInv  PROVE SenderReady(tx)
<1>1. tx.ph \in {"SendStart", "SendAck"} => tx.ctl # <<"EOT">>
  BY DEF XInv, EndOK, Ending, Early
<1> QED  BY <1>1 DEF XInv, Phases, InFile, SenderReady

\* A word reaches the sender.
LEMMA HeardKeeps ==
  ASSUME XInv, Bystanders, ~job.ymodem, ToTx
  PROVE  XInv'
<1> DEFINE b == Head(back).m
<1>1. /\ back # <<>> /\ back' = Tail(back) /\ rx' = rx /\ fwd' = fwd /\ tx' = TxFed(tx, b)
  BY DEF ToTx
<1>2. tx \in TxRec /\ SenderReady(tx) /\ job.size \in Nat /\ tx.num \in Nat /\ tx.off \in Nat
      /\ tx.len \in Nat
  BY InvReady, LineTypes, SizeTyped, SenderFields DEF XInv
<1>3. b \in {"ACK", "NAK", "C", "CAN"}  BY <1>1, LineTypes, BackFields DEF XInv
<1> HIDE DEF b
<1>4. /\ tx' \in TxRec
      /\ \/ tx' = tx
         \/ Stopped(tx, tx')
         \/ /\ b \in Asks /\ tx.ph = "SendStart"
            /\ Framed(tx', tx.num, tx.off, tx.big) /\ tx'.selfNak = tx.selfNak
         \/ /\ b = "ACK" /\ tx.ph = "SendAck" /\ ~tx'.selfNak
            /\ Framed(tx', (tx.num + 1) % Mod, tx.off + tx.len, tx.big)
         \/ b = "NAK" /\ tx.ph = "SendAck" /\ tx.selfNak /\ Stale(tx, tx')
         \/ /\ b = "NAK" /\ tx.ph = "SendAck" /\ ~tx.selfNak /\ Resent(tx, tx')
            /\ ~tx'.selfNak
         \/ EndTalk(tx, tx')
  BY <1>1, <1>2, <1>3, SenderHears
<1>5. CASE tx' = tx  BY <1>1, <1>5, WordLostKeeps
<1>6. CASE Stopped(tx, tx')  BY <1>1, <1>4, <1>6, StoppedKeeps
<1>7. CASE /\ b \in Asks /\ tx.ph = "SendStart"
           /\ Framed(tx', tx.num, tx.off, tx.big) /\ tx'.selfNak = tx.selfNak
  BY <1>1, <1>4, <1>7, StartedKeeps DEF b
<1>8. CASE /\ b = "ACK" /\ tx.ph = "SendAck" /\ ~tx'.selfNak
           /\ Framed(tx', (tx.num + 1) % Mod, tx.off + tx.len, tx.big)
  BY <1>1, <1>4, <1>8, AckedKeeps DEF b
<1>9. CASE b = "NAK" /\ tx.ph = "SendAck" /\ tx.selfNak /\ Stale(tx, tx')
  BY <1>1, <1>4, <1>9, StaleKeeps DEF b
<1>10. CASE /\ b = "NAK" /\ tx.ph = "SendAck" /\ ~tx.selfNak /\ Resent(tx, tx')
            /\ ~tx'.selfNak
  BY <1>1, <1>4, <1>10, NakkedKeeps DEF b
<1>11. CASE EndTalk(tx, tx')  BY <1>1, <1>4, <1>11, EndTalkKeeps
<1> QED  BY <1>4, <1>5, <1>6, <1>7, <1>8, <1>9, <1>10, <1>11

\* A unit reaches the receiver, whole, damaged, cut short or with no room for it.
LEMMA FedKeeps ==
  ASSUME XInv, Bystanders, ~job.ymodem, NEW fate, fwd # <<>>, fwd' = Tail(fwd),
         rx' = RxFed(rx, Head(fwd).m, fate), tx' = tx, back' = back
  PROVE  XInv'
<1> DEFINE m == Head(fwd).m
<1>1. m \in Blocks \cup Signs  BY LineTypes, FwdFields DEF XInv
<1>2. rx \in RxRec /\ (rx.st = "Running" <=> rx.ph # "Idle")
  BY LineTypes DEF XInv, Phases
<1> HIDE DEF m
<1>3. /\ rx' \in RxRec
      /\ \/ rx' = rx
         \/ GaveUp(rx, rx')
         \/ m.kind = "data" /\ (Owing(rx, rx') \/ Stores(rx, rx', m) \/ Repeats(rx, rx', m))
         \/ m.kind = "EOT" /\ Nags(rx, rx')
  <2>1. rx' = RxFed(rx, m, fate)  BY DEF m
  <2> QED  BY <1>1, <1>2, <2>1, ReceiverHears
<1>4. Taken  BY DEF Taken
<1>5. CASE rx' = rx  BY <1>5, UnitLostKeeps
<1>6. CASE GaveUp(rx, rx')  BY <1>3, <1>4, <1>6, GaveUpKeeps
<1>7. CASE m.kind = "data" /\ Owing(rx, rx')  BY <1>3, <1>7, OwingKeeps DEF m
<1>8. CASE m.kind = "data" /\ Stores(rx, rx', m)  BY <1>3, <1>8, StoresKeeps DEF m
<1>9. CASE m.kind = "data" /\ Repeats(rx, rx', m)  BY <1>3, <1>9, RepeatsKeeps DEF m
<1>10. CASE m.kind = "EOT" /\ Nags(rx, rx')  BY <1>3, <1>10, EotNaggedKeeps DEF m
<1> QED  BY <1>3, <1>5, <1>6, <1>7, <1>8, <1>9, <1>10

\* The sender's clock runs out.
LEMMA SenderTimedKeeps ==
  ASSUME XInv, Bystanders, ~job.ymodem, TxTick
  PROVE  XInv'
<1>1. rx' = rx /\ fwd' = fwd /\ back' = back  BY DEF TxTick
<1>2. /\ tx' \in TxRec /\ tx.time = 0
      /\ \/ Stopped(tx, tx')
         \/ tx.ph = "SendAck" /\ Resent(tx, tx') /\ tx'.selfNak
         \/ EndTalk(tx, tx')
  BY InvReady, LineTypes, SenderTicks DEF XInv
<1>3. CASE Stopped(tx, tx')  BY <1>1, <1>2, <1>3, StoppedKeeps
<1>4. CASE tx.ph = "SendAck" /\ Resent(tx, tx') /\ tx'.selfNak
  BY <1>1, <1>2, <1>4, TimedKeeps
<1>5. CASE EndTalk(tx, tx')  BY <1>1, <1>2, <1>5, EndTalkKeeps
<1> QED  BY <1>2, <1>3, <1>4, <1>5

\* The receiver's clock runs out, or a pause ends.
LEMMA ReceiverTimedKeeps ==
  ASSUME XInv, Bystanders, ~job.ymodem, RxTick
  PROVE  XInv'
<1>1. tx' = tx /\ fwd' = fwd /\ back' = back /\ Taken  BY DEF RxTick, Taken
<1>2. /\ rx' \in RxRec
      /\ \/ GaveUp(rx, rx')
         \/ /\ Nags(rx, rx') /\ rx'.eotSeen = rx.eotSeen
            /\ Owes \/ (rx.ph = "RecvWait" /\ rx.time = 0)
  BY LineTypes, ReceiverTicks DEF XInv, Phases
<1>3. CASE GaveUp(rx, rx')  BY <1>1, <1>2, <1>3, GaveUpKeeps
<1>4. CASE Nags(rx, rx') /\ rx'.eotSeen = rx.eotSeen /\ Owes
  BY <1>1, <1>2, <1>4, NagOwedKeeps
<1>5. CASE Nags(rx, rx') /\ rx'.eotSeen = rx.eotSeen /\ rx.ph = "RecvWait" /\ rx.time = 0
  BY <1>1, <1>2, <1>5, NagTimedKeeps
<1> QED  BY <1>2, <1>3, <1>4, <1>5

\* Either end is cancelled from outside.
LEMMA CancelKeeps ==
  ASSUME XInv, Bystanders, Cancel
  PROVE  XInv'
<1>1. tx \in TxRec /\ rx \in RxRec  BY LineTypes DEF XInv
<1>2. fwd' = fwd /\ back' = back /\ Taken  BY DEF Cancel, Taken
<1>3. CASE tx.st = "Running" /\ tx' = AbortTx(tx) /\ rx' = rx
  <2>1. SameBlock(tx, tx)  BY DEF SameBlock
  <2>2. tx' \in TxRec /\ Stopped(tx, tx')  BY <1>1, <1>3, <2>1, EndsStop
  <2> QED  BY <1>2, <1>3, <2>2, StoppedKeeps
<1>4. CASE rx.st = "Running" /\ rx' = AbortRx(rx) /\ tx' = tx
  <2>1. SameStore(rx, rx)  BY DEF SameStore
  <2>2. rx' \in RxRec /\ GaveUp(rx, rx')  BY <1>1, <1>4, <2>1, ReceiverEnds
  <2> QED  BY <1>2, <1>4, <2>2, GaveUpKeeps
<1> QED  BY <1>3, <1>4 DEF Cancel, Running

\* Nothing happens.
LEMMA StutterKeeps ==
  ASSUME XInv, UNCHANGED vars
  PROVE  XInv'
<1>1. job' = job /\ tx' = tx /\ rx' = rx /\ fwd' = fwd /\ back' = back /\ left' = left
  BY DEF vars
<1>2. Types'  BY <1>1 DEF XInv, Types
<1>3. Phases'  BY <1>1 DEF XInv, Phases
<1>4. InFile'  BY <1>1 DEF XInv, InFile
<1>5. CopiesOK'  BY <1>1 DEF XInv, CopiesOK
<1>6. SameBlock(tx, tx')  BY <1>1 DEF SameBlock
<1>7. PlaceOK' /\ Exact'  BY <1>1, <1>6, PlaceKept DEF XInv
<1>8. EndOK'
  <2>1. Ending' <=> Ending  BY <1>1 DEF Ending
  <2> QED  BY <1>1, <2>1 DEF XInv, EndOK, Early
<1>9. Turns'
  <2>1. Early' => Early  BY <1>1 DEF Early
  <2> QED  BY <1>1, <1>2, <1>6, <2>1, TurnsKept DEF XInv
<1> QED  BY <1>2, <1>3, <1>4, <1>5, <1>7, <1>8, <1>9 DEF XInv

IInv == Plain => XInv

\* As the transfer begins, nothing is on the line and both wait for the first block.
LEMMA InvInit ==
  ASSUME Init, Plain
  PROVE  XInv
<1> DEFINE c == job.crc \/ job.ymodem
<1>1. /\ job \in Jobs /\ job.size \in Nat /\ job.big \in BOOLEAN /\ left = job.faults
      /\ left \in Lefts /\ left.eot = 0 /\ c \in BOOLEAN
  BY XmodemAssumption DEF Init, Plain, Lefts
<1>2. /\ tx = [st |-> "Idle", ph |-> "Idle", crc |-> FALSE, big |-> job.big, live |-> FALSE,
               num |-> 1, off |-> 0, buf |-> 0, len |-> 1, retries |-> 0, time |-> 0,
               eotNak |-> FALSE, selfNak |-> FALSE, yEnd |-> FALSE, ctl |-> <<>>]
      /\ rx = [st |-> "Idle", ph |-> "Idle", crc |-> c, started |-> FALSE,
               num |-> 1, eotSeen |-> FALSE, yHdr |-> FALSE, yEnd |-> FALSE, yFile |-> FALSE,
               got |-> <<>>, retries |-> 0, polls |-> 0, time |-> 0, ctl |-> <<>>]
      /\ fwd = <<>> /\ back = <<>>
  BY DEF Init
<1> HIDE DEF c
<1>3. /\ tx \in TxRec /\ tx.st = "Idle" /\ tx.ph = "Idle" /\ tx.live = FALSE /\ tx.num = 1
      /\ tx.off = 0 /\ tx.buf = 0 /\ tx.len = 1 /\ tx.ctl = <<>> /\ tx.selfNak = FALSE
      /\ tx.big = job.big
  BY <1>1, <1>2 DEF TxRec, SenderSt, SenderPh, SenderCtl
<1>4. /\ rx \in RxRec /\ rx.st = "Idle" /\ rx.ph = "Idle" /\ rx.num = 1 /\ rx.eotSeen = FALSE
      /\ rx.got = <<>> /\ rx.ctl = <<>>
  BY <1>1, <1>2 DEF RxRec, SenderSt, ReceiverPh, ReceiverCtl
<1>5. fwd \in Seq(OnFwd) /\ back \in Seq(OnBack) /\ DOMAIN fwd = {} /\ DOMAIN back = {}
  BY <1>2
<1>6. DataAt(fwd) = {} /\ \A S : WordsAt(back, S) = {}  BY <1>5 DEF DataAt, WordsAt
<1>7. Types  BY <1>1, <1>3, <1>4, <1>5 DEF Types
<1>8. Phases  BY <1>2, <1>3, <1>4, <1>6 DEF Phases
<1>9. InFile  BY <1>1, <1>3, <1>6, KTyped DEF InFile
<1>10. CopiesOK  BY <1>6 DEF CopiesOK
<1>11. Same  BY <1>3, <1>4 DEF Same
<1>12. PlaceOK /\ Exact
  <2>1. DOMAIN rx.got = {}  BY <1>4
  <2> QED  BY <1>11, <2>1 DEF PlaceOK, Exact
<1>13. EndOK
  <2>1. ~Ending  BY <1>3, <1>4, <1>5 DEF Ending
  <2> QED  BY <2>1 DEF EndOK
<1>14. ~Asking /\ ~Owes /\ rx.ctl # <<"ACK">>  BY <1>4 DEF Asking, Owes
<1>15. Copies = 0 /\ Acks = 0 /\ Naks = 0
  <2>1. Cardinality({}) = 0  BY FS_EmptySet
  <2>2. One(tx.live) = 0 /\ One(rx.ctl = <<"ACK">>) = 0 /\ One(Asking) = 0 /\ One(Owes) = 0
    BY <1>3, <1>14 DEF One
  <2>3. Copies = 0  BY <1>6, <2>1, <2>2 DEF Copies
  <2>4. Acks = 0  BY <1>6, <2>1, <2>2 DEF Acks
  <2>5. Naks = 0  BY <1>6, <2>1, <2>2 DEF Naks
  <2> QED  BY <2>3, <2>4, <2>5
<1>16. Turns
  <2>1. Budget
    <3>1. One(tx.selfNak) \in {0, 1}  BY <1>3, SenderFields, Ones
    <3>2. Within(0, 0, 0, One(tx.selfNak))  BY <3>1 DEF Within
    <3> QED  BY <1>15, <3>2 DEF Budget
  <2>2. Unsent  BY <1>3, <1>11, <1>15 DEF Unsent
  <2>3. Answered  BY <1>6, <1>15 DEF Answered
  <2>4. TxClock  BY <1>3 DEF TxClock
  <2>5. RxClock  BY <1>4 DEF RxClock
  <2> QED  BY <2>1, <2>2, <2>3, <2>4, <2>5 DEF Turns
<1> QED  BY <1>7, <1>8, <1>9, <1>10, <1>12, <1>13, <1>16 DEF XInv

\* Every step keeps the invariant.
LEMMA InvNext ==
  ASSUME Plain, XInv, Next
  PROVE  XInv'
<1>1. ~job.ymodem /\ left \in Lefts /\ left.eot = 0  BY DEF Plain, XInv, Types
<1>2. left' = left /\ job' = job => Bystanders  BY <1>1 DEF Bystanders
<1>3. CASE BeginSend
  <2>1. Bystanders  BY <1>2, <1>3 DEF BeginSend
  <2> QED  BY <1>3, <2>1, BeginSendKeeps
<1>4. CASE BeginRecv
  <2>1. Bystanders  BY <1>2, <1>4 DEF BeginRecv
  <2> QED  BY <1>1, <1>4, <2>1, BeginRecvKeeps
<1>5. CASE TxTick
  <2>1. Bystanders  BY <1>2, <1>5 DEF TxTick
  <2> QED  BY <1>1, <1>5, <2>1, SenderTimedKeeps
<1>6. CASE TxPullCtl
  <2>1. Bystanders  BY <1>2, <1>6 DEF TxPullCtl
  <2> QED  BY <1>6, <2>1, ControlKeeps
<1>7. CASE TxPullBlock
  <2>1. Bystanders  BY <1>2, <1>7 DEF TxPullBlock
  <2> QED  BY <1>1, <1>7, <2>1, BlockKeeps
<1>8. CASE RxTick
  <2>1. Bystanders  BY <1>2, <1>8 DEF RxTick
  <2> QED  BY <1>1, <1>8, <2>1, ReceiverTimedKeeps
<1>9. CASE RxPull
  <2>1. Bystanders  BY <1>2, <1>9 DEF RxPull
  <2> QED  BY <1>9, <2>1, WordKeeps
<1>10. CASE ToTx
  <2>1. Bystanders  BY <1>2, <1>10 DEF ToTx
  <2> QED  BY <1>1, <1>10, <2>1, HeardKeeps
<1>11. CASE ToRx
  <2>1. Bystanders  BY <1>2, <1>11 DEF ToRx
  <2> QED  BY <1>1, <1>11, <2>1, FedKeeps DEF ToRx
<1>12. CASE Tick
  <2>1. Bystanders  BY <1>2, <1>12 DEF Tick
  <2> QED  BY <1>12, <2>1, TickKeeps
<1>13. CASE Spoiled
  <2>1. left' = [left EXCEPT !.fwd = left.fwd - 1] /\ left.fwd > 0 /\ job' = job
    BY <1>13 DEF Spoiled
  <2>2. Bystanders  BY <1>1, <2>1 DEF Bystanders, Lefts
  <2>3. /\ fwd # <<>> /\ fwd' = Tail(fwd) /\ tx' = tx /\ back' = back
        /\ rx' = rx \/ \E fate \in {"hit", "cut"} : rx' = RxFed(rx, Head(fwd).m, fate)
    BY <1>13 DEF Spoiled
  <2>4. CASE rx' = rx  BY <2>2, <2>3, <2>4, UnitLostKeeps
  <2>5. CASE \E fate \in {"hit", "cut"} : rx' = RxFed(rx, Head(fwd).m, fate)
    <3>1. PICK fate \in {"hit", "cut"} : rx' = RxFed(rx, Head(fwd).m, fate)  BY <2>5
    <3> QED  BY <1>1, <2>2, <2>3, <3>1, FedKeeps
  <2> QED  BY <2>3, <2>4, <2>5
<1>14. CASE AnswerLost
  <2>1. left' = [left EXCEPT !.back = left.back - 1] /\ left.back > 0 /\ job' = job
    BY <1>14 DEF AnswerLost
  <2>2. Bystanders  BY <1>1, <2>1 DEF Bystanders, Lefts
  <2> QED  BY <1>14, <2>2, WordLostKeeps DEF AnswerLost
<1>15. CASE StrayEot  BY <1>1, <1>15 DEF StrayEot
<1>16. CASE Trouble
  <2>1. left' = [left EXCEPT !.trouble = left.trouble - 1] /\ left.trouble > 0 /\ job' = job
    BY <1>16 DEF Trouble
  <2>2. Bystanders  BY <1>1, <2>1 DEF Bystanders, Lefts
  <2>3. CASE NoRoom  BY <1>1, <2>2, <2>3, FedKeeps DEF NoRoom
  <2>4. CASE Cancel  BY <2>2, <2>4, CancelKeeps
  <2>5. CASE LineDies  BY <2>2, <2>5, LineDiesKeeps
  <2> QED  BY <1>16, <2>3, <2>4, <2>5 DEF Trouble
<1> QED  BY <1>3, <1>4, <1>5, <1>6, <1>7, <1>8, <1>9, <1>10, <1>11, <1>12, <1>13, <1>14,
            <1>15, <1>16 DEF Next, Pass

\* The transfer, once begun, is the same to its end.
LEMMA SamePlain ==
  ASSUME [Next]_vars
  PROVE  Plain' <=> Plain
<1>1. job' = job
  <2>1. CASE Pass
    BY <2>1 DEF Pass, TxTick, TxPullCtl, TxPullBlock, RxTick, RxPull, ToTx, ToRx, Tick
  <2>2. CASE Spoiled \/ AnswerLost \/ StrayEot \/ Trouble \/ BeginSend \/ BeginRecv
    BY <2>2 DEF Spoiled, AnswerLost, StrayEot, Trouble, BeginSend, BeginRecv
  <2> QED  BY <2>1, <2>2 DEF Next, vars
<1> QED  BY <1>1 DEF Plain

\* What holds of every transfer by XMODEM on a line that makes up no EOT: the
\* block in hand, its copies, its answers and the clocks, as XInv says.
THEOREM XmodemInvariant == Spec => []IInv
<1>1. Init => IInv  BY InvInit DEF IInv
<1>2. IInv /\ [Next]_vars => IInv'
  <2> SUFFICES ASSUME IInv, [Next]_vars, Plain'  PROVE XInv'  BY DEF IInv
  <2>1. Plain /\ XInv  BY SamePlain DEF IInv
  <2>2. CASE Next  BY <2>1, <2>2, InvNext
  <2>3. CASE UNCHANGED vars  BY <2>1, <2>3, StutterKeeps
  <2> QED  BY <2>2, <2>3
<1> QED  BY <1>1, <1>2, PTL DEF Spec

\* No answer is counted for a block the receiver has not stored, in any transfer by
\* XMODEM: however often a block or a word is lost, damaged or late, a stale NAK
\* earns no third copy whose second ACK would put the sender one ahead (the comments
\* of feedByte, SendAck).
THEOREM SenderNeverAhead == Spec => [](~job.ymodem => NeverAhead)
<1>1. IInv => (~job.ymodem => NeverAhead)
  <2> SUFFICES ASSUME XInv  PROVE tx.off <= Len(rx.got)  BY DEF IInv, Plain, NeverAhead
  <2>1. tx.off \in Nat /\ tx.len \in Nat /\ Len(rx.got) \in Nat
    BY LineTypes, SenderFields, ReceiverFields DEF XInv
  <2>2. CASE Same  BY <2>2 DEF Same
  <2>3. CASE Next1
    <3>1. tx.off + tx.len <= Len(rx.got)  BY <2>3 DEF Next1
    <3> QED  BY <2>1, <3>1
  <2> QED  BY <2>2, <2>3 DEF XInv, PlaceOK
<1> QED  BY <1>1, XmodemInvariant, PTL

\* What the place of the block in hand says of what is stored.
LEMMA StoredSoFar ==
  ASSUME XInv, Uncut
  PROVE  /\ WrittenIsAPrefix /\ DoneIsWhole
<1>1. /\ tx.off \in Nat /\ tx.len \in Nat /\ tx.buf \in Nat /\ Len(rx.got) \in Nat
      /\ job.size \in Nat
  BY LineTypes, SenderFields, ReceiverFields, SizeTyped DEF XInv
<1>2. tx.len >= 1 /\ tx.off <= tx.buf /\ tx.buf <= job.size  BY <1>1 DEF XInv, InFile
<1>3. \/ Len(rx.got) = tx.off
      \/ Len(rx.got) = tx.off + tx.len /\ tx.off + tx.len <= tx.buf
  BY DEF XInv, PlaceOK, Same, Next1
<1>4. Len(rx.got) <= job.size  BY <1>1, <1>2, <1>3
<1>5. \A i \in DOMAIN rx.got : rx.got[i] = i  BY DEF XInv, Exact
<1>6. ASSUME "Done" \in {tx.st, rx.st}  PROVE Len(rx.got) = job.size
  <2>1. tx.off = job.size  BY <1>6 DEF XInv, EndOK, Ending
  <2> QED  BY <1>1, <1>2, <1>3, <2>1
<1> QED  BY <1>4, <1>5, <1>6 DEF WrittenIsAPrefix, DoneIsWhole

\* While no large block has been cut down, what is stored is the beginning of the
\* file, each part once and in its place.
THEOREM StoredInOrder == Spec => [](Plain /\ Uncut => WrittenIsAPrefix)
<1>1. IInv => (Plain /\ Uncut => WrittenIsAPrefix)  BY StoredSoFar DEF IInv
<1> QED  BY <1>1, XmodemInvariant, PTL

\* While no large block has been cut down, neither end says Done of less than the file.
THEOREM DoneMeansWhole == Spec => [](Plain /\ Uncut => DoneIsWhole)
<1>1. IInv => (Plain /\ Uncut => DoneIsWhole)  BY StoredSoFar DEF IInv
<1> QED  BY <1>1, XmodemInvariant, PTL

\* Small blocks are never cut down: a transfer by XMODEM in blocks of 128 stores the
\* file in order, and Done means all of it.
THEOREM SmallBlocksWhole ==
  Spec => [](Plain /\ ~job.big => WrittenIsAPrefix /\ DoneIsWhole)
<1>1. IInv => (Plain /\ ~job.big => WrittenIsAPrefix /\ DoneIsWhole)
  <2> SUFFICES ASSUME XInv, ~job.big  PROVE WrittenIsAPrefix /\ DoneIsWhole  BY DEF IInv
  <2>1. tx.big \in BOOLEAN /\ job.big \in BOOLEAN
    BY LineTypes, SenderFields, SizeTyped DEF XInv
  <2>2. Uncut  BY <2>1 DEF XInv, InFile, Uncut
  <2> QED  BY <2>2, StoredSoFar
<1> QED  BY <1>1, XmodemInvariant, PTL
=============================================================================
