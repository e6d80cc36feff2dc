------------------------------ MODULE BoardLink ------------------------------
(* The link between a board and a satellite (core/link.cpp): the host end and *)
(* one peer end, already paired, over a radio that loses, repeats, delays and *)
(* reorders frames, with restarts of either end.  The peer finds the host,    *)
(* agrees a session key with it by HELLO and HELLO_ACK and keeps it alive     *)
(* with PING and PONG; above that, sessions carry reliable messages.  The     *)
(* replay window is what lets a sealed frame be received once only here.      *)
EXTENDS Naturals, Sequences, FiniteSets, Functions

CONSTANTS
  Jobs,          \* which end opens sessions, how many a boot, the messages on each,
                 \* and what may befall them
  MaxBoots,      \* boots of each end
  kStreamWin, kTries, kPingMisses, kHelloMisses, kSessions, kTombs

Host == "host"
Peer == "peer"
Ends == {Host, Peer}
Far(e) == IF e = Host THEN Peer ELSE Host

ASSUME BoardLinkAssumption ==
  /\ Jobs \subseteq [opener : Ends, opens : Nat, msgs : Nat,
                      faults : [radio : Nat, late : Nat, restart : Nat, trouble : Nat]]
  /\ {MaxBoots, kTombs} \subseteq Nat \ {0}
  /\ {kStreamWin, kTries, kPingMisses, kHelloMisses, kSessions} \subseteq Nat

VARIABLES
  job,      \* who opens sessions and how many, fixed
  boot,     \* each end's boot epoch
  epoch,    \* the far end's epoch as each end knows it, 0 before the first
  key,      \* the session key of each end: <<np, nh>>
  up,       \* the far end is up, as each end sees it
  pend,     \* host: the HELLO answered and not proved yet
  state,    \* peer: PS_SCAN, PS_HELLO, PS_WAITUP, PS_UP
  np,       \* peer: the nonce of its HELLO
  ackUsed,  \* peer: the HELLO_ACK for np is taken
  hello,    \* peer: its HELLO has gone (helloAt # 0)
  ping,     \* peer: the first PING under the key has gone (pingAt # 0)
  miss,     \* peer: pingMiss
  nonce,    \* the nonces drawn so far
  next,     \* the opener's nextSess_
  opened,   \* sessions opened this boot
  snd,      \* the opener's sessions
  rcv,      \* the other end's side of them
  tombs,    \* each end's tombstones
  air,      \* the frames on their way to each end
  left,     \* the faults still to come
  used,     \* history: the keys each end has put in use
  reused,   \* history: an end started its packet numbers again under one key
  got,      \* history: what the owner was given of each session
  forgot    \* history: the sessions whose receiving end lost what it knew of them
            \* with no restart, and what had been given of each by then

keyVars  == <<key, epoch, up, pend, used, reused>>
peerVars == <<state, np, ackUsed, hello, ping, miss>>
sessVars == <<next, opened, snd, rcv, tombs, got>>
linkVars == <<job, boot, nonce, left, air, keyVars, peerVars, sessVars>>
vars == <<linkVars, forgot>>

O == job.opener      \* the end that opens the sessions and sends on them
A == Far(O)
Ids == 1 .. job.opens  \* the ids nextSess_ counts round: from 1 or 0x8001 in the code
NoKey  == <<0, 0>>
NoPend == [np |-> 0, nh |-> 0, epoch |-> 0]
None   == <<>>                    \* no sessions, no tombstones
With(t, id, r) == [i \in DOMAIN t \cup {id} |-> IF i = id THEN r ELSE t[i]]
Without(t, id) == Restrict(t, DOMAIN t \ {id})

Init ==
  /\ job \in Jobs
  /\ boot = [e \in Ends |-> 1] /\ epoch = [e \in Ends |-> 0]
  /\ key = [e \in Ends |-> NoKey] /\ up = [e \in Ends |-> FALSE]
  /\ pend = NoPend /\ state = "SCAN" /\ np = 0 /\ ackUsed = FALSE
  /\ hello = FALSE /\ ping = FALSE /\ miss = 0 /\ nonce = 0
  /\ next \in Ids /\ opened = 0
  /\ snd = None /\ rcv = None /\ tombs = [e \in Ends |-> None]
  /\ air = [e \in Ends |-> <<>>] /\ left = job.faults
  /\ used = [e \in Ends |-> {}] /\ reused = FALSE
  /\ got = [i \in (1..MaxBoots) \X (1..job.opens) |-> <<>>] /\ forgot = {}

-----------------------------------------------------------------------------
(* Frames and timers                                                       *)

Clear(f) == f.t \in {"HELLO", "HELLO_ACK"}
Put(e, fs) == air' = [air EXCEPT ![Far(e)] = @ \o fs]
Took(e, fs) == air' = [air EXCEPT ![e] = Tail(@), ![Far(e)] = @ \o fs]
Seals(e) == key[e] # NoKey

Hello(n) == [t |-> "HELLO", np |-> n, epoch |-> boot[Peer]]
HelloAck(n, m) == [t |-> "HELLO_ACK", np |-> n, nh |-> m, epoch |-> boot[Host]]
Beat(t, k) == [t |-> t, key |-> k]
Data(id, seq) == [t |-> "DATA", key |-> key[O], id |-> id, seq |-> seq, by |-> boot[O]]
Ack(k, id, cum, win) == [t |-> "ACK", key |-> k, id |-> id, cum |-> cum, win |-> win]
Reset(k, id) == [t |-> "RESET", key |-> k, id |-> id]
Told(e, id) == IF Seals(e) THEN <<Reset(key[e], id)>> ELSE <<>>

\* A timer is longer than the air and the far end need to answer: it runs out
\* when nothing is on its way or goes at once, or it is a fault that the answer was too late.
AtOnce == \/ state = "HELLO" /\ ~hello
          \/ state = "WAITUP" /\ ~ping
          \/ Seals(A) /\ \E id \in DOMAIN rcv : rcv[id].ackDue
          \/ Seals(O) /\ up[O] /\ \E id \in DOMAIN snd : snd[id].sent < snd[id].txSeq
Quiet == ~AtOnce /\ \A e \in Ends : air[e] = <<>>
Spend(k) == left[k] > 0 /\ left' = [left EXCEPT ![k] = @ - 1]
Due == IF Quiet THEN UNCHANGED left ELSE Spend("late")

-----------------------------------------------------------------------------
(* The key                                                                 *)

\* An end puts a key in use: its packet numbers and replay window start again.
Install(e, k) ==
  /\ key' = [key EXCEPT ![e] = k]
  /\ used' = [used EXCEPT ![e] = @ \cup {k}]
  /\ reused' = (reused \/ k \in used[e])

HearHello ==
  /\ air[Host] # <<>> /\ Head(air[Host]).t = "HELLO"
  /\ LET f == Head(air[Host])
         fresh == pend = NoPend \/ pend.np # f.np
         nh == IF fresh THEN nonce + 1 ELSE pend.nh
     IN /\ nonce' = IF fresh THEN nh ELSE nonce
        /\ pend' = [np |-> f.np, nh |-> nh, epoch |-> f.epoch]
        /\ Took(Host, <<HelloAck(f.np, nh)>>)
  /\ UNCHANGED <<job, boot, left, key, epoch, up, used, reused, peerVars, sessVars>>

\* farRestarted: what an end had with a far end that has restarted is gone.
Rebooted(e) == /\ snd' = IF e = O THEN None ELSE snd
               /\ rcv' = IF e = A THEN None ELSE rcv
               /\ tombs' = [tombs EXCEPT ![e] = None]

TakesEveryAck(f) == state \in {"HELLO", "WAITUP"} /\ f.np = np

TakesAck(f) == state \in {"HELLO", "WAITUP"} /\ f.np = np /\ ~ackUsed

HearHelloAck ==
  /\ air[Peer] # <<>> /\ Head(air[Peer]).t = "HELLO_ACK"
  /\ Took(Peer, <<>>)
  /\ LET f == Head(air[Peer]) IN
     IF TakesAck(f)
     THEN /\ ackUsed' = TRUE
          /\ Install(Peer, <<np, f.nh>>)
          /\ IF epoch[Peer] \notin {0, f.epoch} THEN Rebooted(Peer) ELSE UNCHANGED <<snd, rcv, tombs>>
          /\ epoch' = [epoch EXCEPT ![Peer] = f.epoch]
          /\ state' = "WAITUP" /\ ping' = FALSE
     ELSE UNCHANGED <<key, used, reused, epoch, ackUsed, state, ping, snd, rcv, tombs>>
  /\ UNCHANGED <<job, boot, left, nonce, up, pend, np, hello, miss, next, opened, got>>

\* openFrame: under the key in use, or under the one a HELLO left pending.
Proves(e, f) == e = Host /\ pend # NoPend /\ f.key = <<pend.np, pend.nh>>
Opens(e, f) == ~Clear(f) /\ (f.key = key[e] \/ Proves(e, f))
Moves(e, f) == f.key # key[e]
FarIsNew(e, f) == Moves(e, f) /\ epoch[e] \notin {0, pend.epoch}

\* onFrame, what every sealed frame does before its own handler: the key it
\* proves replaces the old one, and the far end is up.
Heard(e, f) ==
  /\ Opens(e, f)
  /\ IF Moves(e, f)
     THEN /\ Install(e, f.key) /\ pend' = NoPend
          /\ epoch' = [epoch EXCEPT ![e] = pend.epoch]
     ELSE UNCHANGED <<key, used, reused, pend, epoch>>
  /\ up' = [up EXCEPT ![e] = @ \/ e = Host \/ f.t = "PONG"]
  /\ miss' = IF e = Peer /\ (state = "UP" \/ f.t = "PONG") THEN 0 ELSE miss
  /\ UNCHANGED <<job, boot, nonce, np, ackUsed, ping, next, opened>>

\* The tables as the frame's own handler finds them.
Sending(e, f) == IF e # O THEN snd ELSE IF FarIsNew(e, f) THEN None
                 ELSE [id \in DOMAIN snd |-> [snd[id] EXCEPT !.heard = TRUE]]
TakingStill(e, f) == rcv
BuriedStill(e, f) == tombs

Taking(e, f) == IF e = A /\ FarIsNew(e, f) THEN None ELSE rcv
Buried(e, f) == IF FarIsNew(e, f) THEN [tombs EXCEPT ![e] = None] ELSE tombs

HearPing ==
  /\ air[Host] # <<>> /\ LET f == Head(air[Host]) IN
     /\ f.t = "PING" /\ Heard(Host, f)
     /\ snd' = Sending(Host, f) /\ rcv' = Taking(Host, f) /\ tombs' = Buried(Host, f)
     /\ Took(Host, <<Beat("PONG", f.key)>>)
  /\ UNCHANGED <<left, state, hello, got>>

HearPong ==
  /\ air[Peer] # <<>> /\ LET f == Head(air[Peer]) IN
     /\ f.t = "PONG" /\ Heard(Peer, f)
     /\ snd' = Sending(Peer, f)
     /\ Took(Peer, <<>>)
  /\ state' = "UP"
  /\ UNCHANGED <<left, hello, rcv, tombs, got>>

\* A sealed frame that opens under no key here.
HearNothing(e) ==
  /\ air[e] # <<>> /\ ~Clear(Head(air[e])) /\ ~Opens(e, Head(air[e]))
  /\ Took(e, <<>>)
  /\ UNCHANGED <<job, boot, nonce, left, keyVars, peerVars, sessVars>>

-----------------------------------------------------------------------------
(* The peer's timers, and the host's                                       *)

\* BEACON: a DISCOVER was answered, and the host is greeted.
FindHost ==
  /\ state = "SCAN"
  /\ state' = "HELLO" /\ hello' = FALSE /\ miss' = 0
  /\ UNCHANGED <<job, boot, nonce, left, air, keyVars, np, ackUsed, ping, sessVars>>

SendHello(m) ==
  /\ nonce' = nonce + 1 /\ np' = nonce' /\ ackUsed' = FALSE
  /\ state' = "HELLO" /\ hello' = TRUE /\ miss' = m
  /\ key' = [key EXCEPT ![Peer] = NoKey]
  /\ Put(Peer, <<Hello(np')>>)
  /\ UNCHANGED <<up, ping>>

HostLostStays ==
  /\ miss' = 0
  /\ UNCHANGED <<state, hello, nonce, np, ackUsed, ping, key, air>>

\* hostLost with no other board up: look for the host again.
HostLost ==
  /\ state' = "SCAN" /\ hello' = FALSE /\ miss' = 0
  /\ UNCHANGED <<nonce, np, ackUsed, ping, key, air>>

HelloTimer ==
  /\ state \in {"HELLO", "WAITUP"}
  /\ \/ ~hello /\ SendHello(miss) /\ UNCHANGED left
     \/ hello /\ Due /\ miss < kHelloMisses /\ SendHello(miss + 1)
     \/ hello /\ Due /\ miss >= kHelloMisses /\ HostLost /\ UNCHANGED up
  /\ UNCHANGED <<job, boot, epoch, pend, used, reused, sessVars>>

SendPing == /\ Put(Peer, <<Beat("PING", key[Peer])>>)
            /\ UNCHANGED <<nonce, state, np, ackUsed, hello, key, up>>

PingTimer ==
  /\ \/ state = "WAITUP" /\ ~ping /\ SendPing /\ ping' = TRUE /\ UNCHANGED <<miss, left>>
     \/ state = "WAITUP" /\ ping /\ Due /\ SendPing /\ UNCHANGED <<ping, miss>>
     \/ state = "UP" /\ Due /\ miss < kPingMisses /\ SendPing /\ miss' = miss + 1 /\ UNCHANGED ping
     \/ state = "UP" /\ Due /\ miss >= kPingMisses /\ HostLost /\ up' = [up EXCEPT ![Peer] = FALSE]
  /\ UNCHANGED <<job, boot, epoch, pend, used, reused, sessVars>>

\* Nothing from the peer for kHostQuietMs: a peer that is up pings sooner.
HostQuiet ==
  /\ up[Host]
  /\ IF Quiet /\ state # "UP" THEN UNCHANGED left ELSE Spend("late")
  /\ up' = [up EXCEPT ![Host] = FALSE]
  /\ UNCHANGED <<job, boot, nonce, air, key, epoch, pend, used, reused, peerVars, sessVars>>

\* Packet numbers near the wrap: the peer greets anew, or the host asks it to.
Rekey ==
  /\ Spend("trouble")
  /\ \/ /\ state = "UP" /\ state' = "HELLO" /\ hello' = FALSE /\ UNCHANGED air
     \/ /\ Seals(Host) /\ pend = NoPend /\ Put(Host, <<Reset(key[Host], 0)>>)
        /\ UNCHANGED <<state, hello>>
  /\ UNCHANGED <<job, boot, nonce, keyVars, np, ackUsed, ping, miss, sessVars>>

-----------------------------------------------------------------------------
(* Sessions, at the end that opens them                                    *)

NewSnd == [txSeq |-> 0, txAcked |-> 0, sent |-> 0, tries |-> 1, heard |-> FALSE,
           blocked |-> FALSE, closing |-> FALSE]
After(id) == IF id + 1 \in Ids THEN id + 1 ELSE CHOOSE i \in Ids : \A j \in Ids : i <= j

\* openSession: the next id no session here has.
Open ==
  /\ opened < job.opens /\ next \notin DOMAIN snd
  /\ Cardinality(DOMAIN snd) < kSessions
  /\ snd' = With(snd, next, NewSnd)
  /\ next' = After(next) /\ opened' = opened + 1
  /\ UNCHANGED <<job, boot, nonce, left, air, keyVars, peerVars, rcv, tombs, got>>

\* send: one more message, if fewer than a window wait to be acknowledged; with
\* the last one its owner may say closeAfter.
Send(id, last) ==
  /\ id \in DOMAIN snd /\ ~snd[id].closing
  /\ snd[id].txSeq < job.msgs /\ snd[id].txSeq - snd[id].txAcked < kStreamWin
  /\ snd' = [snd EXCEPT ![id].txSeq = @ + 1, ![id].closing = last]
  /\ UNCHANGED <<job, boot, nonce, left, air, keyVars, peerVars, next, opened, rcv, tombs, got>>

\* transmitOne, a message's first time.
Transmit(id) ==
  /\ id \in DOMAIN snd /\ up[O] /\ Seals(O)
  /\ LET s == snd[id] IN
     /\ s.sent < s.txSeq /\ s.sent < s.txAcked + kStreamWin
     /\ snd' = [snd EXCEPT ![id].sent = @ + 1,
                           ![id].heard = @ /\ s.sent # s.txAcked]
     /\ Put(O, <<Data(id, s.sent)>>)
  /\ UNCHANGED <<job, boot, nonce, left, keyVars, peerVars, next, opened, rcv, tombs, got>>

CountedUnheard(s, seq) == seq = s.txAcked /\ ~s.heard /\ ~s.blocked

\* countTry: only the oldest message counts its tries, and only once the far end
\* has been heard since the last one.
Counted(s, seq) == seq = s.txAcked /\ s.heard /\ ~s.blocked

\* transmitOne, when a message's timer has run out.
Retransmit(id, seq) ==
  /\ id \in DOMAIN snd /\ up[O] /\ Seals(O) /\ Due
  /\ LET s == snd[id]
         counted == Counted(s, seq)
     IN /\ seq \in s.txAcked .. s.sent - 1
        /\ IF counted /\ s.tries >= kTries
           THEN snd' = Without(snd, id) /\ Put(O, Told(O, id))
           ELSE /\ snd' = [snd EXCEPT ![id].tries = IF counted THEN @ + 1 ELSE @,
                                      ![id].heard = @ /\ seq # s.txAcked]
                /\ Put(O, <<Data(id, seq)>>)
  /\ UNCHANGED <<job, boot, nonce, keyVars, peerVars, next, opened, rcv, tombs, got>>

\* onAck: everything below cum is taken; a window of 0 means wait, not retry.
Acked(s, cum, win) ==
  [s EXCEPT !.txAcked = IF s.txAcked < cum THEN cum ELSE @,
            !.tries   = IF s.txAcked < cum THEN 1 ELSE @,
            !.blocked = IF s.txAcked <= cum THEN win = 0 /\ cum < s.txSeq ELSE @]

HearAck ==
  /\ air[O] # <<>> /\ LET f == Head(air[O])
                          s == Sending(O, f) IN
     /\ f.t = "ACK" /\ Heard(O, f)
     /\ snd' = IF f.id \in DOMAIN s THEN [s EXCEPT ![f.id] = Acked(@, f.cum, f.win)] ELSE s
     /\ tombs' = Buried(O, f)
     /\ Took(O, <<>>)
  /\ UNCHANGED <<left, state, hello, rcv, got>>

\* RESET: the session goes, and its owner is told; session 0 is the link.
HearReset(e) ==
  /\ air[e] # <<>> /\ LET f == Head(air[e]) IN
     /\ f.t = "RESET" /\ Heard(e, f)
     /\ snd' = IF e = O THEN Without(Sending(e, f), f.id) ELSE snd
     /\ rcv' = IF e = A THEN Without(Taking(e, f), f.id) ELSE rcv
     /\ tombs' = Buried(e, f)
     /\ Took(e, <<>>)
     /\ IF e = Peer /\ f.id = 0 /\ state = "UP"
        THEN state' = "HELLO" /\ hello' = FALSE
        ELSE UNCHANGED <<state, hello>>
  /\ UNCHANGED <<left, got>>

-----------------------------------------------------------------------------
(* Sessions, at the other end                                              *)

NewRcv == [rxExpect |-> 0, ackDue |-> FALSE, refusing |-> FALSE, closing |-> FALSE]

\* A duplicate, or one from ahead of a gap: say where this end is.
OutOfOrder(r) == [r EXCEPT !.ackDue = TRUE]
Accepted(r, last) == [r EXCEPT !.rxExpect = @ + 1, !.refusing = FALSE, !.ackDue = TRUE,
                               !.closing = @ \/ last]
Refused(r)    == [r EXCEPT !.refusing = TRUE, !.ackDue = TRUE]

\* onFamily on a session this end does not know: what it says, and whether
\* the message opens one.
Answer(f, r, t) ==
  CASE f.id \in DOMAIN t -> IF f.seq < t[f.id].expect
                            THEN <<Ack(f.key, f.id, t[f.id].expect, kStreamWin)>>
                            ELSE <<Reset(f.key, f.id)>>
    [] f.id \notin DOMAIN t /\ f.seq \in 1 .. kStreamWin - 1 -> <<>>
    [] OTHER -> <<Reset(f.key, f.id)>>
OpensAnew(f, r, t) == f.seq = 0 /\ Cardinality(DOMAIN r) < kSessions

OpensOne(f, r, t) == f.id \notin DOMAIN t /\ f.seq = 0 /\ Cardinality(DOMAIN r) < kSessions

\* The session's own part: in its turn a message goes to the owner, who may
\* say closeAfter with it, or that it has no room, or close the session inside
\* the call: then the message is acknowledged if it was taken and nothing is kept.
Deliver(f, r, s) ==
  \/ /\ f.seq = s.rxExpect
     /\ \/ \E last \in BOOLEAN : rcv' = With(r, f.id, Accepted(s, last)) /\ Took(A, <<>>)
                                 /\ UNCHANGED left
        \/ /\ Spend("trouble") /\ rcv' = Without(r, f.id)
           /\ Took(A, <<Ack(f.key, f.id, f.seq + 1, kStreamWin)>>)
     /\ got' = [got EXCEPT ![<<f.by, f.id>>] = Append(@, f.seq)]
  \/ /\ f.seq = s.rxExpect /\ Spend("trouble")
     /\ rcv' \in {With(r, f.id, Refused(s)), Without(r, f.id)}
     /\ Took(A, <<>>) /\ UNCHANGED got
  \/ /\ f.seq # s.rxExpect
     /\ rcv' = [r EXCEPT ![f.id] = OutOfOrder(s)]
     /\ Took(A, <<>>) /\ UNCHANGED <<left, got>>

HearData ==
  /\ air[A] # <<>> /\ LET f == Head(air[A])
                          r == Taking(A, f)
                          t == Buried(A, f)[A] IN
     /\ f.t = "DATA" /\ Heard(A, f)
     /\ IF f.id \in DOMAIN r \/ OpensOne(f, r, t)
        THEN Deliver(f, r, IF f.id \in DOMAIN r THEN r[f.id] ELSE NewRcv)
        ELSE /\ rcv' = r /\ Took(A, Answer(f, r, t)) /\ UNCHANGED <<left, got>>
     /\ tombs' = Buried(A, f)
  /\ UNCHANGED <<snd, state, hello>>

\* transmitOne, an acknowledgement that is due (kAckDelayMs at most).
SendAck(id) ==
  /\ id \in DOMAIN rcv /\ rcv[id].ackDue /\ Seals(A)
  /\ rcv' = [rcv EXCEPT ![id].ackDue = FALSE]
  /\ Put(A, <<Ack(key[A], id, rcv[id].rxExpect, IF rcv[id].refusing THEN 0 ELSE kStreamWin)>>)
  /\ UNCHANGED <<job, boot, nonce, left, keyVars, peerVars, next, opened, snd, tombs, got>>

-----------------------------------------------------------------------------
(* The end of a session                                                    *)

\* bury: with all kTombs in use the oldest makes way.
Oldest(t) == CHOOSE id \in DOMAIN t : t[id].older \cap DOMAIN t = {}
MakeWay(t) == IF Cardinality(DOMAIN t) < kTombs THEN t ELSE Without(t, Oldest(t))
Bury(e, id, expect) ==
  tombs' = [tombs EXCEPT ![e] = With(MakeWay(@), id,
              [expect |-> expect, told |-> FALSE, older |-> DOMAIN MakeWay(@)])]

\* timers: nothing in flight and no acknowledgement owed, so it goes.
DropClosed(id) ==
  /\ \/ /\ id \in DOMAIN snd /\ snd[id].closing /\ snd[id].txAcked = snd[id].txSeq
        /\ Bury(O, id, 0) /\ snd' = Without(snd, id) /\ UNCHANGED rcv
     \/ /\ id \in DOMAIN rcv /\ rcv[id].closing /\ ~rcv[id].ackDue
        /\ Bury(A, id, rcv[id].rxExpect) /\ rcv' = Without(rcv, id) /\ UNCHANGED snd
  /\ UNCHANGED <<job, boot, nonce, left, air, keyVars, peerVars, next, opened, got>>

\* kTombTellMs later the far end is told, once.
TellClosed(e, id) ==
  /\ id \in DOMAIN tombs[e] /\ ~tombs[e][id].told /\ Due
  /\ tombs' = [tombs EXCEPT ![e][id].told = TRUE]
  /\ Put(e, Told(e, id))
  /\ UNCHANGED <<job, boot, nonce, keyVars, peerVars, next, opened, snd, rcv, got>>

\* closeSession and resetSession, by either owner outside an event: no tombstone.
CloseOutright(id) ==
  /\ Spend("trouble")
  /\ \E e \in Ends :
     /\ \/ e = O /\ id \in DOMAIN snd /\ snd' = Without(snd, id) /\ UNCHANGED rcv
        \/ e = A /\ id \in DOMAIN rcv /\ rcv' = Without(rcv, id) /\ UNCHANGED snd
     /\ UNCHANGED air \/ Put(e, Told(e, id))
  /\ UNCHANGED <<job, boot, nonce, keyVars, peerVars, next, opened, tombs, got>>

\* A wait of kTombMs (30 s) or more: no message of the session is on the air any
\* more, and a sender that is up has had its answer; one in an outage has not.
Silent(id) ==
  /\ \A i \in 1..Len(air[A]) : ~(air[A][i].t = "DATA" /\ air[A][i].id = id)
  /\ up[O] /\ id \in DOMAIN snd => snd[id].txAcked = snd[id].txSeq

TombGoes(e, id) ==
  /\ id \in DOMAIN tombs[e] /\ tombs[e][id].told /\ (e = A => Silent(id))
  /\ tombs' = [tombs EXCEPT ![e] = Without(@, id)]
  /\ UNCHANGED <<job, boot, nonce, left, air, keyVars, peerVars, next, opened, snd, rcv, got>>

\* hostTimers: a session the peer opened and went quiet on (kSessIdleMs).
IdleOut(id) ==
  /\ A = Host /\ id \in DOMAIN rcv /\ ~rcv[id].closing /\ Silent(id)
  /\ rcv' = Without(rcv, id)
  /\ UNCHANGED <<job, boot, nonce, left, air, keyVars, peerVars, next, opened, snd, tombs, got>>

\* hostTimers: a peer gone for a minute takes its sessions with it.
PeerGone ==
  /\ ~up[Host] /\ epoch[Host] # 0 /\ Quiet
  /\ IF O = Host
     THEN snd # None /\ snd' = None /\ UNCHANGED rcv
     ELSE /\ rcv # None /\ \A id \in DOMAIN rcv : Silent(id)
          /\ rcv' = None /\ UNCHANGED snd
  /\ UNCHANGED <<job, boot, nonce, left, air, keyVars, peerVars, next, opened, tombs, got>>

-----------------------------------------------------------------------------
(* What befalls a frame or an end                                          *)

Lose(e) == /\ Spend("radio") /\ air[e] # <<>> /\ air' = [air EXCEPT ![e] = Tail(@)]
           /\ UNCHANGED <<job, boot, nonce, keyVars, peerVars, sessVars>>

Delay(e) == /\ Spend("radio") /\ Len(air[e]) > 1
            /\ air' = [air EXCEPT ![e] = Append(Tail(@), Head(@))]
            /\ UNCHANGED <<job, boot, nonce, keyVars, peerVars, sessVars>>

\* A repeat of a sealed frame is dropped by the replay window.
Repeat(e) == /\ Spend("radio") /\ air[e] # <<>> /\ Clear(Head(air[e]))
             /\ air' = [air EXCEPT ![e] = Append(@, Head(@))]
             /\ UNCHANGED <<job, boot, nonce, keyVars, peerVars, sessVars>>

Restart(e) ==
  /\ Spend("restart") /\ boot[e] < MaxBoots /\ boot' = [boot EXCEPT ![e] = @ + 1]
  /\ key' = [key EXCEPT ![e] = NoKey] /\ epoch' = [epoch EXCEPT ![e] = 0]
  /\ up' = [up EXCEPT ![e] = FALSE]
  /\ IF e = Host
     THEN pend' = NoPend /\ UNCHANGED peerVars
     ELSE /\ state' = "SCAN" /\ np' = 0 /\ ackUsed' = FALSE
          /\ hello' = FALSE /\ ping' = FALSE /\ miss' = 0 /\ UNCHANGED pend
  /\ Rebooted(e)
  /\ IF e = O THEN next' \in Ids /\ opened' = 0 ELSE UNCHANGED <<next, opened>>
  /\ UNCHANGED <<job, nonce, air, used, reused, got>>

-----------------------------------------------------------------------------
Hears(e) == \/ e = Host /\ (HearHello \/ HearPing)
            \/ e = Peer /\ (HearHelloAck \/ HearPong)
            \/ e = A /\ HearData
            \/ e = O /\ HearAck
            \/ HearReset(e)
            \/ HearNothing(e)

Session(id) == \/ \E last \in BOOLEAN : Send(id, last)
               \/ Transmit(id) \/ SendAck(id)
               \/ \E seq \in 0..job.msgs : Retransmit(id, seq)
               \/ CloseOutright(id) \/ IdleOut(id)
               \/ \E e \in Ends : TellClosed(e, id) \/ TombGoes(e, id)

Step == \/ FindHost \/ HelloTimer \/ PingTimer \/ HostQuiet \/ Rekey \/ PeerGone
        \/ Open \/ \E id \in Ids : Session(id)
        \/ \E e \in Ends : Hears(e) \/ Lose(e) \/ Delay(e) \/ Repeat(e) \/ Restart(e)

\* The history: of the sessions S and of one given a message now, those the
\* receiving end knows nothing of any more, though it knows the same far end.
Recalls == {<<epoch[A], id>> : id \in DOMAIN rcv \cup DOMAIN tombs[A]}
Forgets(S) ==
  forgot' = forgot \cup {<<i, Len(got'[i])>> :
    i \in {i \in S \cup {j \in DOMAIN got : got'[j] # got[j]} :
             i[1] = epoch'[A] /\ i \notin Recalls'}}

\* A session that ends with closeAfter is no cause to forget it; a tombstone
\* that makes way for another is.
Next == \/ Step /\ Forgets(Recalls)
        \/ \E id \in Ids : DropClosed(id) /\ Forgets(Recalls \ {<<epoch[A], id>>})

Spec == Init /\ [][Next]_vars

\* Each end polls its radio and its timers; a timer that keeps running out is
\* served, though a heartbeat may be on the air between.  Nothing is owed to an
\* owner's wish, to a fault or to what only tidies up.
Fairness ==
  /\ \A e \in Ends : WF_linkVars(Hears(e))
  /\ WF_linkVars(FindHost)
  /\ SF_linkVars(HelloTimer /\ left' = left) /\ SF_linkVars(PingTimer /\ left' = left)
  /\ WF_linkVars(\E id \in Ids : Transmit(id) \/ SendAck(id))
  /\ SF_linkVars(Quiet /\ \E id \in DOMAIN snd : Retransmit(id, snd[id].txAcked))
FairSpec == Spec /\ Fairness

-----------------------------------------------------------------------------
(* Properties                                                              *)

\* Whatever is lost, repeated, late or restarted, the owner of a session is given
\* its messages in order, none missing before another.  LINK.md:408 and 432-435
\* add that none comes twice; the code keeps that only as long as the receiving
\* end knows the session or its tombstone.  It is given anew from the first message
\* only when that was lost in between: the session closed outright, reset by
\* the far end or dropped as idle with no tombstone, or its tombstone gone.
InOrderOnce ==
  \A i \in DOMAIN got : \A n \in DOMAIN got[i] :
    \/ got[i][n] = (IF n = 1 THEN 0 ELSE got[i][n - 1] + 1)
    \/ got[i][n] = 0 /\ <<i, n - 1>> \in forgot

\* The first n messages of a session were given to its owner.
GivenUpTo(g, i, n) == \A m \in 0 .. n - 1 : \E k \in DOMAIN g[i] : g[i][k] = m

\* A message the sender counts as acknowledged was given to the other owner,
\* in this boot's session and not in an older one under the same id.
AckedIsTaken == \A id \in DOMAIN snd : GivenUpTo(got, <<boot[O], id>>, snd[id].txAcked)

\* No end ever starts its packet numbers again under a key it had in use: a
\* repeated HELLO or HELLO_ACK cannot bring an old key back.
KeysAreFresh == ~reused

\* When the peer counts the link as up, the host seals under the same key or has
\* restarted; and under one key each end knows the other's present boot.
EndsAgree ==
  /\ state = "UP" => key[Host] \in {NoKey, key[Peer]}
  /\ Seals(Host) /\ key[Host] = key[Peer] => \A e \in Ends : epoch[e] = boot[Far(e)]

\* And then what the receiving end counts as taken was given in this boot's
\* session: none is left over from before a restart to take its messages for repeats.
UpAgrees ==
  /\ EndsAgree
  /\ Seals(Host) /\ key[Host] = key[Peer] =>
       \A id \in DOMAIN rcv : GivenUpTo(got, <<boot[O], id>>, rcv[id].rxExpect)

\* The link comes up again and stays up once nothing more befalls it.
LinkComesUp == <>[](state = "UP" /\ up[Host] /\ key[Host] = key[Peer])

\* No message waits for ever: it is acknowledged or its session is ended.
MessagesSettle ==
  \A id \in 1..2 : []<>(id \in DOMAIN snd => snd[id].txAcked = snd[id].txSeq)
=============================================================================
