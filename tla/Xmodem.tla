------------------------------- MODULE Xmodem -------------------------------
(* The XMODEM and YMODEM engine (core/xmodem.cpp, xmodem.h): one engine      *)
(* sending a file, another receiving it, and a line between them that        *)
(* delays, damages, cuts short and loses what it carries.  A block is one    *)
(* unit on the line, a control byte is another, and the data is counted in   *)
(* small blocks (128 bytes): the file is the units 1..size.                  *)
EXTENDS Integers, Sequences, FiniteSets

CONSTANTS
  Jobs,             \* the transfers to start, each with what may befall it
  K,                \* small blocks in a large one (1024 / 128)
  Mod,              \* block numbers are counted modulo this (256)
  kMaxErrors,       \* consecutive errors, then give up
  kFallbackErrors,  \* failures of a large block before it is sent as small ones
  kCrcPolls,        \* start polls before falling back to the checksum
  kStartPolls,      \* start polls before giving up
  BlockTime,        \* kBlockTimeoutMs, in ticks
  PollTime,         \* kStartPollMs
  SenderWait,       \* kSenderWaitMs
  Latency           \* the longest a unit is on the line, waiting to leave included

ASSUME XmodemAssumption ==
  /\ Jobs \subseteq [ymodem : BOOLEAN, big : BOOLEAN, size : Nat, crc : BOOLEAN,
                      faults : [fwd : Nat, back : Nat, eot : Nat, trouble : Nat]]
  /\ K \in Nat /\ K >= 2 /\ Mod \in Nat /\ Mod >= 3
  /\ {kMaxErrors, kFallbackErrors, kCrcPolls, kStartPolls} \subseteq Nat
  /\ {BlockTime, PollTime, SenderWait, Latency} \subseteq Nat

\* There and back is sooner than either end asks or sends again.
ASSUME LineAssumption == 2 * Latency < BlockTime /\ 2 * Latency < PollTime

VARIABLES
  job,    \* the transfer, fixed when it starts
  tx,     \* the sending engine
  rx,     \* the receiving engine
  fwd,    \* the line to the receiver: [m : what is on it, age : ticks it has been there]
  back,   \* the line to the sender
  left,   \* the faults still to come
  dead    \* the line has gone dead

vars == <<job, tx, rx, fwd, back, left, dead>>

SmallerOf(a, b) == IF a <= b THEN a ELSE b
Running(e) == e.st = "Running"

Init ==
  /\ job \in Jobs
  /\ left = job.faults
  /\ tx = [st |-> "Idle", ph |-> "Idle", crc |-> FALSE, big |-> job.big, live |-> FALSE,
           num |-> 1, off |-> 0, buf |-> 0, len |-> 1, retries |-> 0, time |-> 0,
           eotNak |-> FALSE, selfNak |-> FALSE, yEnd |-> FALSE, ctl |-> <<>>]
  /\ rx = [st |-> "Idle", ph |-> "Idle", crc |-> job.crc \/ job.ymodem, started |-> FALSE,
           num |-> 1, eotSeen |-> FALSE, yHdr |-> FALSE, yEnd |-> FALSE, yFile |-> FALSE,
           got |-> <<>>, retries |-> 0, polls |-> 0, time |-> 0, ctl |-> <<>>]
  /\ fwd = <<>> /\ back = <<>> /\ dead = FALSE

-----------------------------------------------------------------------------
(* Both engines                                                            *)

\* queueCtl and queuePair: what was not yet pulled is dropped for the newest word.
Say(e, q) == [e EXCEPT !.ctl = q]
Wait(e, ph, t) == [e EXCEPT !.ph = ph, !.time = t]
End(e, st) == [e EXCEPT !.st = st, !.ph = "Idle", !.time = 0]

\* abortWith: the run of CANs, and failed.
AbortTx(t) == End(Say([t EXCEPT !.live = FALSE], <<"CAN">>), "Failed")
AbortRx(r) == End(Say(r, <<"CAN">>), "Failed")

BumpedNot(e) == e

\* bumpError: one more error in a row, if there is one left.
Bumped(e) == [e EXCEPT !.retries = @ + 1]
Spent(e)  == Bumped(e).retries > kMaxErrors

-----------------------------------------------------------------------------
(* The sender                                                              *)

BeginSend ==
  /\ tx.st = "Idle"
  /\ tx' = Wait([tx EXCEPT !.st = "Running"], "SendStart", SenderWait)
  /\ UNCHANGED <<job, rx, fwd, back, left, dead>>

\* frameNext, and refill when the buffer is used up: the next block or the EOT.
FrameNext(t) ==
  LET end == IF t.off >= t.buf THEN SmallerOf(t.off + K, job.size) ELSE t.buf
      rem == end - t.off
  IN IF rem = 0
     THEN Say([t EXCEPT !.buf = end, !.ph = "SendEot", !.time = 0, !.retries = 0], <<"EOT">>)
     ELSE [t EXCEPT !.buf = end, !.len = IF t.big /\ rem >= K THEN K ELSE 1,
                    !.live = TRUE, !.ph = "SendData", !.time = 0]

\* startY0: the header of the file, or the empty one that ends the batch.
StartY0(t, end) ==
  [t EXCEPT !.num = 0, !.len = 1, !.yEnd = end, !.buf = t.off,
            !.live = TRUE, !.ph = "SendY0", !.time = 0]

\* The block in hand, as it stands on the line.
Packet(t) ==
  [kind |-> IF t.ph # "SendY0" THEN "data" ELSE IF t.yEnd THEN "end" ELSE "name",
   num |-> t.num, crc |-> t.crc, from |-> t.off, len |-> t.len]

\* retransmit: a NAK, or no answer.  A large block that keeps failing is cut down.
Retransmit(t) ==
  LET b == Bumped(t)
  IN IF Spent(t) THEN AbortTx(b)
     ELSE IF t.ph \in {"SendY0", "SendY0Ack", "SendY0Crc"} THEN StartY0(b, b.yEnd)
     ELSE IF t.ph \in {"SendEot", "SendEotAck"}
       THEN Say([b EXCEPT !.ph = "SendEot", !.time = 0], <<"EOT">>)
     ELSE LET cut == b.big /\ b.len = K /\ b.retries >= kFallbackErrors
          IN [b EXCEPT !.big = @ /\ ~cut, !.len = IF cut THEN 1 ELSE @,
                       !.live = TRUE, !.ph = "SendData", !.time = 0]


NakkedAtOnce(t) == Retransmit(t)

\* A NAK for a block already sent again off our own clock is stale, once.
Nakked(t) == IF t.selfNak THEN [t EXCEPT !.selfNak = FALSE] ELSE Retransmit(t)

\* An answer to the block in hand: the next one.
Acked(t) ==
  FrameNext([t EXCEPT !.selfNak = FALSE, !.off = @ + t.len, !.num = (@ + 1) % Mod,
                      !.retries = 0, !.live = FALSE])

Y0Acked(t) ==
  LET a == [t EXCEPT !.selfNak = FALSE, !.retries = 0, !.live = FALSE]
  IN IF t.yEnd THEN End(a, "Done")
     ELSE Wait([a EXCEPT !.num = 1], "SendY0Crc", BlockTime)

EotAcked(t) ==
  IF job.ymodem THEN Wait([t EXCEPT !.retries = 0], "SendYEndWait", BlockTime)
  ELSE End(t, "Done")

EotNakked(t) ==
  IF t.eotNak THEN Retransmit(t)
  ELSE Say([t EXCEPT !.eotNak = TRUE, !.ph = "SendEot", !.time = 0], <<"EOT">>)

\* feedByte, sending.  Whatever a phase does not wait for is not heard.
TxFed(t, b) ==
  CASE ~Running(t) -> t
    [] Running(t) /\ b = "CAN" -> End(t, "Failed")
    [] t.ph = "SendStart" /\ b \in {"NAK", "C"} ->
         LET s == [t EXCEPT !.crc = (b = "C")]
         IN IF job.ymodem THEN StartY0(s, FALSE) ELSE FrameNext(s)
    [] t.ph = "SendAck" /\ b = "ACK" -> Acked(t)
    [] t.ph \in {"SendAck", "SendY0Ack"} /\ b = "NAK" -> Nakked(t)
    [] t.ph = "SendY0Ack" /\ b = "ACK" -> Y0Acked(t)
    [] t.ph = "SendY0Crc" /\ b \in {"NAK", "C"} -> FrameNext([t EXCEPT !.retries = 0])
    [] t.ph = "SendYEndWait" /\ b \in {"NAK", "C"} -> StartY0([t EXCEPT !.retries = 0], TRUE)
    [] t.ph = "SendEotAck" /\ b = "ACK" -> EotAcked(t)
    [] t.ph = "SendEotAck" /\ b = "NAK" -> EotNakked(t)
    [] OTHER -> t

TxTimed == {"SendStart", "SendAck", "SendY0Ack", "SendEotAck", "SendY0Crc", "SendYEndWait"}
TxDue == Running(tx) /\ tx.ph \in TxTimed /\ tx.time = 0

\* tick, sending.
TxTick ==
  /\ TxDue
  /\ tx' = CASE tx.ph = "SendStart" -> End(tx, "Failed")
             [] tx.ph \in {"SendAck", "SendY0Ack"} -> [Retransmit(tx) EXCEPT !.selfNak = TRUE]
             [] tx.ph \in {"SendEotAck", "SendY0Crc"} -> Retransmit(tx)
             [] tx.ph = "SendYEndWait" -> End(tx, "Done")
  /\ UNCHANGED <<job, rx, fwd, back, left, dead>>

\* Put q on a line, unless it has gone dead.
Sent(line, q) == IF dead THEN line ELSE line \o [i \in DOMAIN q |-> [m |-> q[i], age |-> 0]]

\* pull, sending: the control bytes,
TxPullCtl ==
  /\ tx.ctl # <<>>
  /\ fwd' = Sent(fwd, [i \in DOMAIN tx.ctl |-> [kind |-> tx.ctl[i]]])
  /\ tx' = LET t == Say(tx, <<>>)
           IN IF t.ph = "SendEot" /\ ~t.live THEN Wait(t, "SendEotAck", BlockTime) ELSE t
  /\ UNCHANGED <<job, rx, back, left, dead>>

\* then the block.  The clock of the answer starts when the last byte has left.
TxPullBlock ==
  /\ tx.ctl = <<>> /\ tx.live
  /\ fwd' = Sent(fwd, <<Packet(tx)>>)
  /\ tx' = LET t == [tx EXCEPT !.live = FALSE]
           IN CASE t.ph = "SendData" -> Wait(t, "SendAck", BlockTime)
                [] t.ph = "SendY0"   -> Wait(t, "SendY0Ack", BlockTime)
                [] OTHER -> t
  /\ UNCHANGED <<job, rx, back, left, dead>>

-----------------------------------------------------------------------------
(* The receiver.  RecvBlk stands for the four phases inside a block.       *)

\* beginRecv, beginRecvY: the first start character goes out at once.
BeginRecv ==
  /\ rx.st = "Idle"
  /\ rx' = Wait([rx EXCEPT !.st = "Running", !.yHdr = job.ymodem,
                           !.num = IF job.ymodem THEN 0 ELSE 1], "RecvWait", 0)
  /\ UNCHANGED <<job, tx, fwd, back, left, dead>>

\* enterPurge: a block that fails its check is let go by, then NAKed.
Purge(r) == IF Spent(r) THEN AbortRx(Bumped(r)) ELSE Wait(Bumped(r), "RecvPurge", 0)

\* recvHeader, on yHdr and not on the number: numbers wrap.
RecvHeader(r, p, full) ==
  LET h == [r EXCEPT !.yHdr = FALSE]
  IN IF p.kind = "end" THEN End(Say(h, <<"ACK">>), "Done")
     ELSE IF r.yEnd THEN End(Say(h, <<"CAN">>), "Done")
     ELSE IF p.kind = "data" \/ full THEN AbortRx(h)
     ELSE Wait(Say([h EXCEPT !.yFile = TRUE, !.num = 1, !.retries = 0,
                             !.started = FALSE, !.polls = 1], <<"ACK", "C">>),
               "RecvWait", PollTime)

\* endOfFile: done, or under YMODEM the closing header is asked for.
EndOfFile(r) ==
  IF ~job.ymodem \/ ~r.yFile THEN End(Say(r, <<"ACK">>), "Done")
  ELSE Wait(Say([r EXCEPT !.yHdr = TRUE, !.yEnd = TRUE, !.yFile = FALSE, !.num = 0,
                          !.started = FALSE, !.polls = 1, !.eotSeen = FALSE, !.retries = 0],
                <<"ACK", "C">>), "RecvWait", PollTime)

\* A block in its turn is written, up to the length the header gave.
Take(r, p) ==
  IF job.ymodem /\ job.size > 0 THEN SmallerOf(p.len, job.size - Len(r.got)) ELSE p.len
Written(r, p) ==
  Wait(Say([r EXCEPT !.got = @ \o [i \in 1..Take(r, p) |-> p.from + i],
                     !.num = (@ + 1) % Mod, !.retries = 0], <<"ACK">>),
       "RecvWait", BlockTime)

\* The block we have already: answered again, with the C where it is the header.
HeaderAgain(r) == job.ymodem /\ r.yFile /\ r.num = 1 /\ r.got = <<>>
Repeated(r) ==
  Wait(Say(r, IF HeaderAgain(r) THEN <<"ACK", "C">> ELSE <<"ACK">>), "RecvWait", BlockTime)

PlacedAgain(r, p, full) ==
  IF r.yHdr /\ p.num = r.num THEN RecvHeader(r, p, full) ELSE Written(r, p)
PlacedByNumber(r, p, full) ==
  IF p.num = r.num THEN IF job.ymodem /\ p.num = 0 THEN RecvHeader(r, p, full) ELSE Written(r, p)
  ELSE IF p.num = (r.num - 1) % Mod THEN Repeated(r) ELSE AbortRx(r)

\* blockDone, the check passed.
Placed(r, p, full) ==
  IF p.num = r.num
    THEN IF r.yHdr THEN RecvHeader(r, p, full)
         ELSE IF full /\ Take(r, p) > 0 THEN AbortRx(r) ELSE Written(r, p)
  ELSE IF p.num = (r.num - 1) % Mod THEN Repeated(r)
  ELSE AbortRx(r)

\* A block begins.  One whose check is not ours is a byte too short or too long.
Block(r, p, fate) ==
  LET s == [r EXCEPT !.started = TRUE, !.eotSeen = FALSE]
  IN IF fate = "cut" \/ (r.crc /\ ~p.crc) THEN Wait(s, "RecvBlk", 0)
     ELSE IF fate = "hit" \/ (p.crc /\ ~r.crc) THEN Purge(s)
     ELSE Placed(s, p, fate = "full")

EotAtOnce(r) == EndOfFile(r)

\* An EOT: the first is NAKed, the second believed.
Eot(r) ==
  IF r.eotSeen THEN EndOfFile(r)
  ELSE Wait(Say([r EXCEPT !.eotSeen = TRUE], <<"NAK">>), "RecvWait", BlockTime)

IsBlock(m) == m.kind \in {"data", "name", "end"}

\* feedByte, receiving.
RxFed(r, m, fate) ==
  CASE r.ph = "RecvWait" /\ IsBlock(m) -> Block(r, m, fate)
    [] r.ph = "RecvWait" /\ m.kind = "EOT" -> Eot(r)
    [] r.ph = "RecvWait" /\ m.kind = "CAN" -> End(r, "Failed")
    [] r.ph = "RecvBlk" /\ IsBlock(m) -> Purge(r)
    [] OTHER -> r

\* Silence in RecvWait.
Poll(r) ==
  IF r.polls >= kStartPolls THEN End(r, "Failed")
  ELSE LET c == r.crc /\ ~(r.polls >= kCrcPolls /\ ~job.ymodem)
       IN Wait(Say([r EXCEPT !.crc = c, !.polls = @ + 1],
                   IF c THEN <<"C">> ELSE <<"NAK">>), "RecvWait", PollTime)
NakTimed(r) ==
  IF Spent(r) THEN AbortRx(Bumped(r))
  ELSE Wait(Say(Bumped(r), <<"NAK">>), "RecvWait", BlockTime)
Quiet(r) ==
  IF r.yEnd /\ r.polls >= kCrcPolls THEN End(r, "Done")
  ELSE IF r.eotSeen /\ (r.started \/ r.yFile) THEN EndOfFile(r)
  ELSE IF ~r.started THEN Poll(r)
  ELSE NakTimed(r)

RxDue == Running(rx) /\ (rx.ph \in {"RecvBlk", "RecvPurge"} \/ rx.time = 0)

\* tick, receiving.  The pauses inside and after a bad block are under a tick.
RxTick ==
  /\ RxDue
  /\ rx' = CASE rx.ph = "RecvWait"  -> Quiet(rx)
             [] rx.ph = "RecvBlk"   -> NakTimed(rx)
             [] rx.ph = "RecvPurge" -> Wait(Say(rx, <<"NAK">>), "RecvWait", BlockTime)
  /\ UNCHANGED <<job, tx, fwd, back, left, dead>>

RxPull ==
  /\ rx.ctl # <<>>
  /\ back' = Sent(back, rx.ctl)
  /\ rx' = Say(rx, <<>>)
  /\ UNCHANGED <<job, tx, fwd, left, dead>>

-----------------------------------------------------------------------------
(* The line                                                                *)

ToTx ==
  /\ back # <<>>
  /\ tx' = TxFed(tx, Head(back).m)
  /\ back' = Tail(back)
  /\ UNCHANGED <<job, rx, fwd, left, dead>>

ToRx ==
  /\ fwd # <<>>
  /\ rx' = RxFed(rx, Head(fwd).m, "whole")
  /\ fwd' = Tail(fwd)
  /\ UNCHANGED <<job, tx, back, left, dead>>

\* A unit is lost, or a block arrives damaged or cut short.
Spoiled ==
  /\ fwd # <<>> /\ left.fwd > 0
  /\ \/ rx' = rx
     \/ IsBlock(Head(fwd).m) /\ \E fate \in {"hit", "cut"} : rx' = RxFed(rx, Head(fwd).m, fate)
  /\ fwd' = Tail(fwd)
  /\ left' = [left EXCEPT !.fwd = @ - 1]
  /\ UNCHANGED <<job, tx, back, dead>>

AnswerLost ==
  /\ back # <<>> /\ left.back > 0
  /\ back' = Tail(back)
  /\ left' = [left EXCEPT !.back = @ - 1]
  /\ UNCHANGED <<job, tx, rx, fwd, dead>>

\* A line hit between two blocks that reads as an EOT.
StrayEot ==
  /\ Running(rx) /\ left.eot > 0
  /\ rx' = RxFed(rx, [kind |-> "EOT"], "whole")
  /\ left' = [left EXCEPT !.eot = @ - 1]
  /\ UNCHANGED <<job, tx, fwd, back, dead>>

\* What ends a transfer from outside: no room for the file, a cancel, a dead line.
NoRoom ==
  /\ fwd # <<>> /\ IsBlock(Head(fwd).m)
  /\ rx' = RxFed(rx, Head(fwd).m, "full")
  /\ fwd' = Tail(fwd)
  /\ UNCHANGED <<tx, back, dead>>
Cancel ==
  /\ \/ Running(tx) /\ tx' = AbortTx(tx) /\ rx' = rx
     \/ Running(rx) /\ rx' = AbortRx(rx) /\ tx' = tx
  /\ UNCHANGED <<fwd, back, dead>>
LineDies ==
  /\ ~dead /\ dead' = TRUE
  /\ fwd' = <<>> /\ back' = <<>>
  /\ UNCHANGED <<tx, rx>>
Trouble ==
  /\ left.trouble > 0
  /\ left' = [left EXCEPT !.trouble = @ - 1]
  /\ NoRoom \/ Cancel \/ LineDies
  /\ UNCHANGED job

\* Time.  An owner's pass takes none at this scale, and no unit is late.
Older(line) == [i \in DOMAIN line |-> [line[i] EXCEPT !.age = @ + 1]]
OnTime(line) == \A i \in DOMAIN line : line[i].age < Latency
Sooner(e) == [e EXCEPT !.time = IF @ > 0 THEN @ - 1 ELSE 0]
Tick ==
  /\ ~TxDue /\ ~RxDue
  /\ tx.ctl = <<>> /\ ~tx.live /\ rx.ctl = <<>>
  /\ OnTime(fwd) /\ OnTime(back)
  /\ fwd' = Older(fwd) /\ back' = Older(back)
  /\ tx' = Sooner(tx) /\ rx' = Sooner(rx)
  /\ UNCHANGED <<job, left, dead>>

\* A pass of an owner's loop (feed, tick, pull), a delivery, or time.
Pass == TxTick \/ TxPullCtl \/ TxPullBlock \/ RxTick \/ RxPull \/ ToTx \/ ToRx \/ Tick

Next ==
  \/ BeginSend \/ BeginRecv
  \/ Pass
  \/ Spoiled \/ AnswerLost \/ StrayEot \/ Trouble

Spec == Init /\ [][Next]_vars
FairSpec == Spec /\ WF_vars(Pass)

-----------------------------------------------------------------------------
(* Properties                                                              *)

\* What the receiver has stored is the beginning of the file, each part once and
\* in its place, whatever was lost, damaged or repeated on the way: blockDone
\* answers a repeated block without storing it.  It fails once a stored block is cut
\* down (Retransmit), and holds as long as none has been.
WrittenIsAPrefix ==
  Len(rx.got) <= job.size /\ \A i \in DOMAIN rx.got : rx.got[i] = i

\* Where the sender may leave a block behind for good.  Each is against a comment of
\* the code.  A stray EOT with anything else beside it: the receiver NAKs it, and when
\* what follows is lost takes the silence for the end ("A line-hit EOT does not reach
\* here", in tick), or it is followed by a second.  Two answers lost of a YMODEM header:
\* SendY0Crc sends it again off its own clock with no selfNak, and the second ACK is
\* read as block 1's ("That NAK is answered by the one we have just sent", in tick).
\* A large block cut down after its ACK was lost (see WrittenIsAPrefix).
StrayEotAmongOthers ==
  job.faults.eot > 0 /\ job.faults.eot + job.faults.fwd + job.faults.back + job.faults.trouble > 1
HeaderTwiceUnheard == job.ymodem /\ job.faults.back > 1
CutDownUnheard     == tx.big # job.big /\ job.faults.back > 0

\* Neither end says Done of a file that was not stored to its last block: neither an end
\* of file believed too soon, nor one stray EOT, nor an answer taken for another's, ends a
\* short transfer well (endOfFile, SendEotAck) - but for the three cases above.
DoneIsWhole ==
  "Done" \in {tx.st, rx.st} /\ ~StrayEotAmongOthers /\ ~HeaderTwiceUnheard /\ ~CutDownUnheard
    => Len(rx.got) = job.size

\* No answer is counted for a block the receiver has not stored.  A stale NAK answered by
\* a third copy earns a second ACK, and the sender is one ahead for the rest of the file
\* (the comments in feedByte, SendAck).  A stray EOT does just that, and so do two lost
\* answers to a YMODEM header: both are excepted.
NeverAhead == job.faults.eot = 0 /\ ~HeaderTwiceUnheard => tx.off <= Len(rx.got)

\* Every transfer that began comes to an end at both ends, the line dead or not:
\* tick runs out of polls, of retries or of patience in every phase.
TransferEnds == (Running(tx) ~> ~Running(tx)) /\ (Running(rx) ~> ~Running(rx))

\* The file arrives when the damage is within the retries, a fault costing two errors at
\* most, and nobody gives up: once a block has been heard and both ends check blocks the
\* same way.  A YMODEM header twice unheard is excepted here as well.
WithinRetries == job.faults.fwd + job.faults.back <= kMaxErrors \div 2
UnderWay      == rx.started /\ tx.crc = rx.crc
FileArrives ==
  UnderWay /\ WithinRetries /\ ~HeaderTwiceUnheard /\ job.faults.eot = 0 /\ job.faults.trouble = 0
    ~> rx.st = "Done"
=============================================================================
