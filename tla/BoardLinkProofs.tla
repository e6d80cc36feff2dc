--------------------------- MODULE BoardLinkProofs ---------------------------
(* Theorems about the board link, for any number of boots, sessions, messages *)
(* and faults.                                                                *)
(*                                                                            *)
(* No end starts its packet numbers again under a key it had in use           *)
(* (KeysAreFresh).  The peer's keys differ in the nonce it greeted with,      *)
(* which has one answer; the host's in the nonce of its answer, which leaves  *)
(* the pending HELLO once it is in use.                                       *)
(*                                                                            *)
(* What the sender counts as acknowledged was given in this boot of it        *)
(* (AckedIsTaken), and two ends under one key know each other's boots         *)
(* (EndsAgree).  A message names no boot: its key does, since each of the     *)
(* key's nonces was drawn in one boot of one end.                             *)
EXTENDS BoardLink, SequenceTheorems, TLAPS

\* The nonce of a greeting was drawn: it is not the 0 a peer starts with.
Drawn(S) == \A f \in S : Clear(f) => f.np \in Nat \ {0}
AirOK(a) == \E S : a \in [Ends -> Seq(S)] /\ Drawn(S)

PeerKeys == \A k \in used[Peer] : k[1] \in 1..nonce /\ (k[1] = np => ackUsed)
HostKeys == /\ \A k \in used[Host] : k[2] \in 1..nonce
            /\ pend # NoPend => pend.nh \in 1..nonce /\ \A k \in used[Host] : k[2] # pend.nh

KeyInv ==
  /\ job.opener \in Ends
  /\ AirOK(air)
  /\ nonce \in Nat /\ np \in 0..nonce
  /\ used = [e \in Ends |-> used[e]]
  /\ PeerKeys /\ HostKeys
  /\ ~reused

-----------------------------------------------------------------------------
(* Frames                                                                  *)

\* Frames of two drawn sets are of their union, which is drawn.
LEMMA JoinDrawn ==
  ASSUME NEW S, NEW T, Drawn(S), Drawn(T)
  PROVE  Drawn(S \cup T)
BY DEF Drawn

\* A sequence of frames is one of more frames.
LEMMA SeqGrows ==
  ASSUME NEW S, NEW T, NEW s \in Seq(S)
  PROVE  s \in Seq(S \cup T)
OBVIOUS

\* An end sends frames whose nonces are drawn.
LEMMA PutOK ==
  ASSUME AirOK(air), NEW e \in Ends, NEW T, Drawn(T), NEW fs \in Seq(T), Put(e, fs)
  PROVE  AirOK(air')
<1>1. PICK S : air \in [Ends -> Seq(S)] /\ Drawn(S)  BY DEF AirOK
<1>2. Far(e) \in Ends  BY DEF Far, Ends
<1>3. \A d \in Ends : air[d] \in Seq(S \cup T)  BY <1>1, SeqGrows
<1>4. fs \in Seq(S \cup T)  BY SeqGrows
<1>5. air[Far(e)] \o fs \in Seq(S \cup T)  BY <1>2, <1>3, <1>4
<1>6. air' \in [Ends -> Seq(S \cup T)]  BY <1>1, <1>3, <1>5 DEF Put
<1>7. Drawn(S \cup T)  BY <1>1, JoinDrawn
<1> QED BY <1>6, <1>7 DEF AirOK

\* An end hears its first frame and answers with such frames.
LEMMA TookOK ==
  ASSUME AirOK(air), NEW e \in Ends, air[e] # <<>>, NEW T, Drawn(T), NEW fs \in Seq(T), Took(e, fs)
  PROVE  AirOK(air')
<1>1. PICK S : air \in [Ends -> Seq(S)] /\ Drawn(S)  BY DEF AirOK
<1>2. Far(e) \in Ends  BY DEF Far, Ends
<1>3. \A d \in Ends : air[d] \in Seq(S \cup T)  BY <1>1, SeqGrows
<1>4. fs \in Seq(S \cup T)  BY SeqGrows
<1>5. Tail(air[e]) \in Seq(S \cup T)  BY <1>3, HeadTailProperties
<1>6. air[Far(e)] \o fs \in Seq(S \cup T)  BY <1>2, <1>3, <1>4
<1>7. Far(e) # e  BY DEF Far, Ends, Host, Peer
<1>8. air' \in [Ends -> Seq(S \cup T)]  BY <1>1, <1>3, <1>5, <1>6, <1>7 DEF Took
<1>9. Drawn(S \cup T)  BY <1>1, JoinDrawn
<1> QED BY <1>8, <1>9 DEF AirOK

\* The first frame on the air to an end is of the drawn ones.
LEMMA HeadDrawn ==
  ASSUME AirOK(air), NEW e \in Ends, air[e] # <<>>, Clear(Head(air[e]))
  PROVE  Head(air[e]).np \in Nat \ {0}
<1>1. PICK S : air \in [Ends -> Seq(S)] /\ Drawn(S)  BY DEF AirOK
<1>2. Head(air[e]) \in S  BY <1>1, HeadTailProperties
<1> QED BY <1>1, <1>2 DEF Drawn

\* Nothing, or one sealed frame.
LEMMA SealedDrawn ==
  /\ Drawn({}) /\ <<>> \in Seq({})
  /\ \A f : ~Clear(f) => Drawn({f}) /\ <<f>> \in Seq({f})
BY DEF Drawn

-----------------------------------------------------------------------------
(* One lemma for each way a step touches what the invariant is about       *)

\* A step that leaves it all alone.
LEMMA Aside ==
  ASSUME KeyInv, UNCHANGED <<job, air, nonce, np, ackUsed, pend, used, reused>>
  PROVE  KeyInv'
BY DEF KeyInv, PeerKeys, HostKeys, NoPend

\* A step that touches nothing of it but the frames on their way.
LEMMA AirOnly ==
  ASSUME KeyInv, AirOK(air'), UNCHANGED <<job, nonce, np, ackUsed, pend, used, reused>>
  PROVE  KeyInv'
BY DEF KeyInv, PeerKeys, HostKeys, NoPend

\* An end that sends nothing or one sealed frame.
LEMMA Sends ==
  ASSUME KeyInv, NEW e \in Ends, NEW f, ~Clear(f), Put(e, <<f>>) \/ Put(e, <<>>),
         UNCHANGED <<job, nonce, np, ackUsed, pend, used, reused>>
  PROVE  KeyInv'
<1>1. CASE Put(e, <<f>>)
  <2>1. Drawn({f}) /\ <<f>> \in Seq({f})  BY SealedDrawn
  <2>2. AirOK(air')  BY <1>1, <2>1, PutOK DEF KeyInv
  <2> QED BY <2>2, AirOnly
<1>2. CASE Put(e, <<>>)
  <2>1. AirOK(air')  BY <1>2, SealedDrawn, PutOK DEF KeyInv
  <2> QED BY <2>1, AirOnly
<1> QED BY <1>1, <1>2

\* What an end says to a frame it hears: nothing or one sealed frame.
Short(fs) == fs = <<>> \/ \E f : ~Clear(f) /\ fs = <<f>>

\* So does hearing one: nothing goes on the air that was not drawn.
LEMMA Hearing ==
  ASSUME AirOK(air), NEW e \in Ends, air[e] # <<>>, NEW fs, Short(fs), Took(e, fs)
  PROVE  AirOK(air')
<1>1. CASE fs = <<>>
  BY <1>1, SealedDrawn, TookOK
<1>2. ASSUME NEW f, ~Clear(f), fs = <<f>>  PROVE AirOK(air')
  <2>1. Drawn({f}) /\ <<f>> \in Seq({f})  BY <1>2, SealedDrawn
  <2> QED BY <1>2, <2>1, TookOK
<1> QED BY <1>1, <1>2 DEF Short

\* What a heard sealed frame does to the keys: the host may take the pending one.
LEMMA HeardKeys ==
  ASSUME KeyInv, NEW e \in Ends, NEW f, Heard(e, f), AirOK(air')
  PROVE  KeyInv'
<1> USE DEF KeyInv
<1>1. UNCHANGED <<job, nonce, np, ackUsed>>  BY DEF Heard
<1>2. CASE Moves(e, f)
  <2>1. e = Host /\ pend # NoPend /\ f.key = <<pend.np, pend.nh>>
    BY <1>2 DEF Heard, Opens, Moves, Proves
  <2>2. Install(Host, f.key) /\ pend' = NoPend  BY <1>2, <2>1 DEF Heard
  <2>3. f.key[2] = pend.nh  BY <2>1
  <2>4. f.key \notin used[Host]  BY <2>1, <2>3 DEF HostKeys
  <2>5. ~reused'  BY <2>2, <2>4 DEF Install
  <2>6. used'[Host] = used[Host] \cup {f.key} /\ used'[Peer] = used[Peer]
        /\ used' = [d \in Ends |-> used'[d]]
    BY <2>2 DEF Install, Ends, Host, Peer
  <2>7. HostKeys'  BY <1>1, <2>1, <2>2, <2>3, <2>6 DEF HostKeys
  <2>8. PeerKeys'  BY <1>1, <2>6 DEF PeerKeys
  <2> QED BY <1>1, <2>5, <2>6, <2>7, <2>8
<1>3. CASE ~Moves(e, f)
  <2>1. UNCHANGED <<used, reused, pend>>  BY <1>3 DEF Heard
  <2> QED BY <1>1, <2>1, AirOnly
<1> QED BY <1>2, <1>3

-----------------------------------------------------------------------------
(* The greeting                                                            *)

\* The host's answer: a new nonce unless it has answered this HELLO and the
\* answer is not in use yet.
LEMMA HelloStep ==
  ASSUME KeyInv, HearHello
  PROVE  KeyInv'
<1> DEFINE f == Head(air[Host])
           fresh == pend = NoPend \/ pend.np # f.np
           nh == IF fresh THEN nonce + 1 ELSE pend.nh
           answer == HelloAck(f.np, nh)
<1> USE DEF KeyInv
<1>1. /\ air[Host] # <<>> /\ f.t = "HELLO"
      /\ nonce' = IF fresh THEN nh ELSE nonce
      /\ pend' = [np |-> f.np, nh |-> nh, epoch |-> f.epoch]
      /\ Took(Host, <<answer>>)
      /\ UNCHANGED <<job, used, reused, np, ackUsed>>
  BY DEF HearHello, peerVars
<1>2. f.np \in Nat \ {0}  BY <1>1, HeadDrawn DEF Clear, Ends
<1>3. Drawn({answer}) /\ <<answer>> \in Seq({answer})
  BY <1>2 DEF Drawn, HelloAck
<1>4. AirOK(air')  BY <1>1, <1>3, TookOK DEF Ends
<1>5. nonce' \in Nat /\ nonce <= nonce' /\ nh \in 1..nonce' /\ pend'.nh = nh
  <2>1. CASE fresh  BY <1>1, <2>1
  <2>2. CASE ~fresh  BY <1>1, <2>2 DEF HostKeys
  <2> QED BY <2>1, <2>2
<1>6. \A k \in used[Host] : k[2] # nh
  <2>1. CASE fresh  BY <2>1 DEF HostKeys
  <2>2. CASE ~fresh  BY <2>2 DEF HostKeys
  <2> QED BY <2>1, <2>2
<1>7. HostKeys'
  <2>1. used' = used  BY <1>1
  <2>2. \A k \in used[Host] : k[2] \in 1..nonce'  BY <1>5 DEF HostKeys
  <2>3. pend'.nh \in 1..nonce' /\ \A k \in used[Host] : k[2] # pend'.nh  BY <1>5, <1>6
  <2> QED BY <2>1, <2>2, <2>3 DEF HostKeys
<1>8. PeerKeys'  BY <1>1, <1>5 DEF PeerKeys
<1> HIDE DEF nh
<1> QED BY <1>1, <1>4, <1>5, <1>7, <1>8

\* The peer's key: one for each HELLO, the answer to it taken once.
LEMMA HelloAckStep ==
  ASSUME KeyInv, HearHelloAck
  PROVE  KeyInv'
<1> DEFINE f == Head(air[Peer])
<1> USE DEF KeyInv
<1>1. /\ air[Peer] # <<>> /\ f.t = "HELLO_ACK" /\ Took(Peer, <<>>)
      /\ UNCHANGED <<job, nonce, pend, np>>
  BY DEF HearHelloAck
<1>2. f.np \in Nat \ {0}  BY <1>1, HeadDrawn DEF Clear, Ends
<1>3. AirOK(air')  BY <1>1, Hearing DEF Short, Ends
<1>4. CASE TakesAck(f)
  <2> DEFINE k == <<np, f.nh>>
  <2>1. ackUsed' = TRUE /\ Install(Peer, k)  BY <1>4 DEF HearHelloAck
  <2>2. f.np = np /\ ~ackUsed  BY <1>4 DEF TakesAck
  <2>3. k \notin used[Peer]
    <3>1. \A j \in used[Peer] : j[1] # np  BY <2>2 DEF PeerKeys
    <3> QED BY <3>1
  <2>4. ~reused'  BY <2>1, <2>3 DEF Install
  <2>5. used'[Peer] = used[Peer] \cup {k} /\ used'[Host] = used[Host]
        /\ used' = [d \in Ends |-> used'[d]]
    BY <2>1 DEF Install, Ends, Host, Peer
  <2>6. PeerKeys'  BY <1>1, <1>2, <2>1, <2>2, <2>5 DEF PeerKeys
  <2>7. HostKeys'  BY <1>1, <2>5 DEF HostKeys, NoPend
  <2> QED BY <1>1, <1>3, <2>4, <2>5, <2>6, <2>7
<1>5. CASE ~TakesAck(f)
  <2>1. UNCHANGED <<used, reused, ackUsed>>  BY <1>5 DEF HearHelloAck
  <2> QED BY <1>1, <1>3, <2>1, AirOnly
<1> QED BY <1>4, <1>5

\* A new HELLO has a nonce no key of the peer has.
LEMMA SendHelloStep ==
  ASSUME KeyInv, NEW m, SendHello(m), UNCHANGED <<job, pend, used, reused>>
  PROVE  KeyInv'
<1> DEFINE h == Hello(np')
<1> USE DEF KeyInv
<1>1. nonce' = nonce + 1 /\ np' = nonce' /\ ackUsed' = FALSE /\ Put(Peer, <<h>>)
  BY DEF SendHello
<1>2. Drawn({h}) /\ <<h>> \in Seq({h})  BY <1>1 DEF Drawn, Hello
<1>3. AirOK(air')  BY <1>1, <1>2, PutOK DEF Ends
<1>4. PeerKeys'  BY <1>1 DEF PeerKeys
<1>5. HostKeys'  BY <1>1 DEF HostKeys, NoPend
<1> QED BY <1>1, <1>3, <1>4, <1>5

-----------------------------------------------------------------------------
(* The rest of the steps                                                   *)

\* The end that opens and the one that accepts are the two ends.
LEMMA EndsOfTheJob ==
  ASSUME KeyInv
  PROVE  O \in Ends /\ A \in Ends
BY DEF KeyInv, O, A, Far, Ends

\* Every frame but the greeting's is sealed.
LEMMA SealedFrames ==
  /\ \A k, id, cum, win : ~Clear(Ack(k, id, cum, win))
  /\ \A k, id : ~Clear(Reset(k, id))
  /\ \A id, seq : ~Clear(Data(id, seq))
  /\ \A k : ~Clear(Beat("PING", k)) /\ ~Clear(Beat("PONG", k))
BY DEF Clear, Ack, Reset, Data, Beat

\* What the far end is told of a session that goes: a RESET, if there is a key for it.
LEMMA ToldIsShort ==
  ASSUME NEW e, NEW id
  PROVE  Told(e, id) = <<>> \/ Told(e, id) = <<Reset(key[e], id)>>
BY DEF Told

\* The radio's faults take no frame out of the drawn ones.
LEMMA RadioStep ==
  ASSUME KeyInv, NEW e \in Ends, Lose(e) \/ Delay(e) \/ Repeat(e)
  PROVE  KeyInv'
<1>1. PICK S : air \in [Ends -> Seq(S)] /\ Drawn(S)  BY DEF KeyInv, AirOK
<1>2. air[e] # <<>> => Head(air[e]) \in S /\ Tail(air[e]) \in Seq(S)
  BY <1>1, HeadTailProperties
<1>3. air' \in [Ends -> Seq(S)]
  <2>1. CASE Lose(e)  BY <1>1, <1>2, <2>1 DEF Lose
  <2>2. CASE Delay(e)
    <3>1. air[e] # <<>>  BY <1>1, <2>2 DEF Delay
    <3>2. Append(Tail(air[e]), Head(air[e])) \in Seq(S)  BY <1>2, <3>1
    <3> QED BY <1>1, <2>2, <3>2 DEF Delay
  <2>3. CASE Repeat(e)
    <3>1. Append(air[e], Head(air[e])) \in Seq(S)  BY <1>1, <1>2, <2>3 DEF Repeat
    <3> QED BY <1>1, <2>3, <3>1 DEF Repeat
  <2> QED BY <2>1, <2>2, <2>3
<1>4. AirOK(air')  BY <1>1, <1>3 DEF AirOK
<1>5. UNCHANGED <<job, nonce, np, ackUsed, pend, used, reused>>
  BY DEF Lose, Delay, Repeat, keyVars, peerVars
<1> QED BY <1>4, <1>5, AirOnly

\* A frame heard, answered by nothing or by one sealed frame.
LEMMA HearsStep ==
  ASSUME KeyInv, NEW e \in Ends, Hears(e)
  PROVE  KeyInv'
<1> USE DEF KeyInv
<1>1. CASE HearHello  BY <1>1, HelloStep
<1>2. CASE HearHelloAck  BY <1>2, HelloAckStep
<1>3. CASE HearPing
  <2> DEFINE f == Head(air[Host])
  <2>1. air[Host] # <<>> /\ Heard(Host, f) /\ Took(Host, <<Beat("PONG", f.key)>>)
    BY <1>3 DEF HearPing
  <2>2. AirOK(air')  BY <2>1, SealedFrames, Hearing DEF Short, Ends
  <2> QED BY <2>1, <2>2, HeardKeys DEF Ends
<1>4. CASE HearPong
  <2>1. air[Peer] # <<>> /\ Heard(Peer, Head(air[Peer])) /\ Took(Peer, <<>>)
    BY <1>4 DEF HearPong
  <2>2. AirOK(air')  BY <2>1, Hearing DEF Short, Ends
  <2> QED BY <2>1, <2>2, HeardKeys DEF Ends
<1>5. CASE HearData
  <2> DEFINE f == Head(air[A])
             r == Taking(A, f)
             t == Buried(A, f)[A]
             closed == <<Ack(f.key, f.id, f.seq + 1, kStreamWin)>>
  <2>1. air[A] # <<>> /\ Heard(A, f)  BY <1>5 DEF HearData
  <2>2. Took(A, <<>>) \/ Took(A, closed) \/ Took(A, Answer(f, r, t))
    BY <1>5 DEF HearData, Deliver
  <2>3. Short(<<>>) /\ Short(closed) /\ Short(Answer(f, r, t))
    BY SealedFrames DEF Short, Answer
  <2>4. AirOK(air')  BY <2>1, <2>2, <2>3, EndsOfTheJob, Hearing
  <2> QED BY <2>1, <2>4, EndsOfTheJob, HeardKeys
<1>6. CASE HearAck
  <2>1. air[O] # <<>> /\ Heard(O, Head(air[O])) /\ Took(O, <<>>)  BY <1>6 DEF HearAck
  <2>2. AirOK(air')  BY <2>1, EndsOfTheJob, Hearing DEF Short
  <2> QED BY <2>1, <2>2, EndsOfTheJob, HeardKeys
<1>7. CASE HearReset(e)
  <2>1. air[e] # <<>> /\ Heard(e, Head(air[e])) /\ Took(e, <<>>)  BY <1>7 DEF HearReset
  <2>2. AirOK(air')  BY <2>1, Hearing DEF Short
  <2> QED BY <2>1, <2>2, HeardKeys
<1>8. CASE HearNothing(e)
  <2>1. air[e] # <<>> /\ Took(e, <<>>)
        /\ UNCHANGED <<job, nonce, np, ackUsed, pend, used, reused>>
    BY <1>8 DEF HearNothing, keyVars, peerVars
  <2>2. AirOK(air')  BY <2>1, Hearing DEF Short
  <2> QED BY <2>1, <2>2, AirOnly
<1> QED BY <1>1, <1>2, <1>3, <1>4, <1>5, <1>6, <1>7, <1>8 DEF Hears

\* A restarted peer has no nonce, and no key has the nonce 0.
LEMMA RestartStep ==
  ASSUME KeyInv, NEW e \in Ends, Restart(e)
  PROVE  KeyInv'
<1> USE DEF KeyInv
<1>1. UNCHANGED <<job, nonce, air, used, reused>>  BY DEF Restart
<1>2. CASE e = Host
  <2>1. pend' = NoPend /\ UNCHANGED <<np, ackUsed>>  BY <1>2 DEF Restart, peerVars
  <2> QED BY <1>1, <2>1 DEF PeerKeys, HostKeys
<1>3. CASE e = Peer
  <2>1. np' = 0 /\ ackUsed' = FALSE /\ UNCHANGED pend  BY <1>3 DEF Restart, Host, Peer
  <2>2. PeerKeys'  BY <1>1, <2>1 DEF PeerKeys
  <2>3. HostKeys'  BY <1>1, <2>1 DEF HostKeys, NoPend
  <2> QED BY <1>1, <2>1, <2>2, <2>3
<1> QED BY <1>2, <1>3 DEF Ends

\* The timers of the two ends.
LEMMA TimerStep ==
  ASSUME KeyInv, HelloTimer \/ PingTimer \/ HostQuiet \/ Rekey \/ PeerGone \/ FindHost
  PROVE  KeyInv'
<1>1. CASE HelloTimer
  <2>1. UNCHANGED <<job, pend, used, reused>>  BY <1>1 DEF HelloTimer
  <2>2. ASSUME NEW m, SendHello(m)  PROVE KeyInv'  BY <2>1, <2>2, SendHelloStep
  <2>3. CASE HostLost  BY <2>1, <2>3, Aside DEF HostLost
  <2> QED BY <1>1, <2>2, <2>3 DEF HelloTimer
<1>2. CASE PingTimer
  <2>1. UNCHANGED <<job, pend, used, reused>>  BY <1>2 DEF PingTimer
  <2>2. CASE SendPing  BY <2>1, <2>2, SealedFrames, Sends DEF SendPing, Ends
  <2>3. CASE HostLost  BY <2>1, <2>3, Aside DEF HostLost
  <2> QED BY <1>2, <2>2, <2>3 DEF PingTimer
<1>3. CASE HostQuiet  BY <1>3, Aside DEF HostQuiet, peerVars
<1>4. CASE Rekey
  <2>1. UNCHANGED <<job, nonce, np, ackUsed, pend, used, reused>>  BY <1>4 DEF Rekey, keyVars
  <2>2. CASE UNCHANGED air  BY <2>1, <2>2, Aside
  <2>3. CASE Put(Host, <<Reset(key[Host], 0)>>)  BY <2>1, <2>3, SealedFrames, Sends DEF Ends
  <2> QED BY <1>4, <2>2, <2>3 DEF Rekey
<1>5. CASE PeerGone  BY <1>5, Aside DEF PeerGone, keyVars, peerVars
<1>6. CASE FindHost  BY <1>6, Aside DEF FindHost, keyVars
<1> QED BY <1>1, <1>2, <1>3, <1>4, <1>5, <1>6

\* What a session does at either end.
LEMMA SessionStep ==
  ASSUME KeyInv, NEW id, Session(id) \/ Open
  PROVE  KeyInv'
<1> USE DEF keyVars, peerVars
<1>1. CASE Open  BY <1>1, Aside DEF Open
<1>2. ASSUME NEW last, Send(id, last)  PROVE KeyInv'  BY <1>2, Aside DEF Send
<1>3. CASE Transmit(id)
  <2>1. Put(O, <<Data(id, snd[id].sent)>>)
        /\ UNCHANGED <<job, nonce, np, ackUsed, pend, used, reused>>
    BY <1>3 DEF Transmit
  <2> QED BY <2>1, EndsOfTheJob, SealedFrames, Sends
<1>4. CASE SendAck(id)
  <2>1. \E win : Put(A, <<Ack(key[A], id, rcv[id].rxExpect, win)>>)
    BY <1>4 DEF SendAck
  <2>2. UNCHANGED <<job, nonce, np, ackUsed, pend, used, reused>>  BY <1>4 DEF SendAck
  <2> QED BY <2>1, <2>2, EndsOfTheJob, SealedFrames, Sends
<1>5. ASSUME NEW seq, Retransmit(id, seq)  PROVE KeyInv'
  <2>1. Put(O, Told(O, id)) \/ Put(O, <<Data(id, seq)>>)  BY <1>5 DEF Retransmit
  <2>2. UNCHANGED <<job, nonce, np, ackUsed, pend, used, reused>>  BY <1>5 DEF Retransmit
  <2>3. CASE Put(O, Told(O, id))
    BY <2>2, <2>3, EndsOfTheJob, ToldIsShort, SealedFrames, Sends
  <2>4. CASE Put(O, <<Data(id, seq)>>)  BY <2>2, <2>4, EndsOfTheJob, SealedFrames, Sends
  <2> QED BY <2>1, <2>3, <2>4
<1>6. CASE CloseOutright(id)
  <2>1. UNCHANGED <<job, nonce, np, ackUsed, pend, used, reused>>  BY <1>6 DEF CloseOutright
  <2>2. UNCHANGED air \/ \E e \in Ends : Put(e, Told(e, id))  BY <1>6 DEF CloseOutright
  <2>3. CASE UNCHANGED air  BY <2>1, <2>3, Aside
  <2>4. ASSUME NEW e \in Ends, Put(e, Told(e, id))  PROVE KeyInv'
    BY <2>1, <2>4, ToldIsShort, SealedFrames, Sends
  <2> QED BY <2>2, <2>3, <2>4
<1>7. CASE IdleOut(id)  BY <1>7, Aside DEF IdleOut
<1>8. ASSUME NEW e \in Ends, TellClosed(e, id)  PROVE KeyInv'
  <2>1. Put(e, Told(e, id)) /\ UNCHANGED <<job, nonce, np, ackUsed, pend, used, reused>>
    BY <1>8 DEF TellClosed
  <2> QED BY <2>1, ToldIsShort, SealedFrames, Sends
<1>9. ASSUME NEW e \in Ends, TombGoes(e, id)  PROVE KeyInv'  BY <1>9, Aside DEF TombGoes
<1> QED BY <1>1, <1>2, <1>3, <1>4, <1>5, <1>6, <1>7, <1>8, <1>9 DEF Session

\* No nonce is drawn, and no key in use, when it all begins.
LEMMA KeysInit ==
  ASSUME Init
  PROVE  KeyInv
<1>1. job.opener \in Ends  BY BoardLinkAssumption DEF Init
<1>2. air \in [Ends -> Seq({})] /\ Drawn({})  BY DEF Init, Drawn
<1>3. AirOK(air)  BY <1>2 DEF AirOK
<1>4. used = [e \in Ends |-> {}]  BY DEF Init
<1>5. used[Peer] = {} /\ used[Host] = {}  BY <1>4 DEF Ends
<1>6. nonce = 0 /\ np = 0 /\ pend = NoPend /\ ~reused  BY DEF Init
<1>7. PeerKeys /\ HostKeys  BY <1>5, <1>6 DEF PeerKeys, HostKeys
<1> QED BY <1>1, <1>3, <1>4, <1>6, <1>7 DEF KeyInv

\* Every step keeps what keeps the keys apart.
LEMMA KeysStep ==
  ASSUME KeyInv, [Next]_vars
  PROVE  KeyInv'
<1>1. CASE UNCHANGED vars  BY <1>1, Aside DEF vars, linkVars, keyVars, peerVars
<1>2. CASE FindHost \/ HelloTimer \/ PingTimer \/ HostQuiet \/ Rekey \/ PeerGone
  BY <1>2, TimerStep
<1>3. CASE Open  BY <1>3, SessionStep
<1>4. ASSUME NEW id \in Ids, Session(id)  PROVE KeyInv'  BY <1>4, SessionStep
<1>5. ASSUME NEW e \in Ends, Hears(e)  PROVE KeyInv'  BY <1>5, HearsStep
<1>6. ASSUME NEW e \in Ends, Lose(e) \/ Delay(e) \/ Repeat(e)  PROVE KeyInv'
  BY <1>6, RadioStep
<1>7. ASSUME NEW e \in Ends, Restart(e)  PROVE KeyInv'  BY <1>7, RestartStep
<1>8. ASSUME NEW id \in Ids, DropClosed(id)  PROVE KeyInv'
  BY <1>8, Aside DEF DropClosed, keyVars, peerVars
<1> QED BY <1>1, <1>2, <1>3, <1>4, <1>5, <1>6, <1>7, <1>8 DEF Next, Step

-----------------------------------------------------------------------------
(* The theorems                                                            *)

\* What keeps the keys apart holds in every reachable state: the frames of the
\* greeting, the nonces drawn and the keys put in use.
THEOREM KeysInvariant == Spec => []KeyInv
<1>1. Init => KeyInv  BY KeysInit
<1>2. KeyInv /\ [Next]_vars => KeyInv'  BY KeysStep
<1> QED BY <1>1, <1>2, PTL DEF Spec

\* No end starts its packet numbers again under a key it had in use.
THEOREM NoKeyComesBack == Spec => []KeysAreFresh
<1>1. KeyInv => KeysAreFresh  BY DEF KeyInv, KeysAreFresh
<1> QED BY <1>1, KeysInvariant, PTL

(***************************************************************************)
(* What an acknowledgement says.  A message the sender counts as taken was *)
(* given to the other owner in this boot of the sender (AckedIsTaken), and *)
(* ends with one key know each other's boots (EndsAgree).  The messages    *)
(* themselves name no boot: what ties them to one is the key they are      *)
(* sealed under, whose two nonces were each drawn in one boot.             *)
(***************************************************************************)

\* The frames on their way to an end, and to both.
OnAir(e) == Range(air[e])
Frames == OnAir(Host) \cup OnAir(Peer)

Nonces == 1..nonce
Boots == 1..MaxBoots
Pending == <<pend.np, pend.nh>>

\* The ends: every key is one the peer has put in use, its own begins with the
\* nonce it greeted with, and a peer that waits for the host or is up has one.
EndsOK ==
  /\ boot \in [Ends -> Boots] /\ epoch \in [Ends -> 0..MaxBoots]
  /\ key \in [Ends -> {NoKey} \cup used[Peer]] /\ used[Peer] \subseteq Nonces \X Nonces
  /\ pend = NoPend \/ pend \in [np : Nonces, nh : Nonces, epoch : Boots]
  /\ Seals(Peer) => key[Peer][1] = np
  /\ state \in {"WAITUP", "UP"} => Seals(Peer)

\* The frames: those of the greeting carry nonces that were drawn, a sealed one
\* a key the peer has put in use.
Made(f) == /\ f.t = "HELLO" => f.np \in Nonces
           /\ f.t = "HELLO_ACK" => f.np \in Nonces /\ f.nh \in Nonces
           /\ ~Clear(f) => f.key \in used[Peer]
FramesOK == \A f \in Frames : Made(f)

\* When the peer has put the key of the pending HELLO in use, it has no other, and
\* no answer to its last HELLO is on its way that it would still take.
PendingIsLast ==
  pend # NoPend /\ Pending \in used[Peer] =>
    /\ key[Peer] \in {NoKey, Pending}
    /\ \A f \in OnAir(Peer) : f.t = "HELLO_ACK" /\ f.np = np => ackUsed

\* A host that has answered a PING under the peer's key has put no other in use since.
Answered == state = "UP" \/ \E f \in OnAir(Peer) : f.t = "PONG" /\ f.key = key[Peer]
HostStays == Seals(Peer) /\ Answered => key[Host] \in {NoKey, key[Peer]}

\* Every nonce was drawn in one boot, w[n] for nonce n, and whoever has an epoch with
\* a nonce has that boot.
Tells(w, f) == /\ f.t = "HELLO" => f.epoch = w[f.np]
               /\ f.t = "HELLO_ACK" => f.epoch = w[f.nh]
BootsAgree(w) ==
  /\ np # 0 => w[np] = boot[Peer]
  /\ Seals(Peer) => w[key[Peer][2]] = epoch[Peer]
  /\ Seals(Host) => w[key[Host][1]] = epoch[Host] /\ w[key[Host][2]] = boot[Host]
  /\ pend # NoPend => w[pend.np] = pend.epoch /\ w[pend.nh] = boot[Host]
  /\ \A f \in Frames : Tells(w, f)

EndInv(w) == /\ EndsOK /\ FramesOK /\ PendingIsLast /\ HostStays
             /\ w \in [Nonces -> Boots] /\ BootsAgree(w)

-----------------------------------------------------------------------------
(* What a step puts on the air                                             *)

\* A step of an end that takes nothing to it but what was on its way, and to the
\* other end only the frames N with it.
Carries(e, N) == /\ OnAir(e)' \subseteq OnAir(e)
                 /\ OnAir(Far(e))' \subseteq OnAir(Far(e)) \cup N

\* The two ends are each other's far end.
LEMMA TwoEnds ==
  /\ Host \in Ends /\ Peer \in Ends /\ Host # Peer
  /\ Far(Host) = Peer /\ Far(Peer) = Host
  /\ \A e \in Ends : Far(e) \in Ends /\ Far(e) # e /\ Far(Far(e)) = e
BY DEF Ends, Host, Peer, Far

\* One frame at the end of a sequence adds that frame.
LEMMA OneMore ==
  ASSUME NEW S, NEW s \in Seq(S), NEW f
  PROVE  /\ Range(s \o <<f>>) \subseteq Range(s) \cup {f}
         /\ Range(s \o <<>>) \subseteq Range(s)
<1>1. s \in Seq(S \cup {f})  BY SeqGrows
<1> QED BY <1>1 DEF Range

\* What is behind the first frame was on its way, and so was the first.
LEMMA OneLess ==
  ASSUME NEW S, NEW s \in Seq(S), s # <<>>
  PROVE  Range(Tail(s)) \subseteq Range(s) /\ Head(s) \in Range(s)
BY DEF Range

\* A set of frames that an end sends: none, or one.
LEMMA PutCarries ==
  ASSUME AirOK(air), NEW e \in Ends, NEW f
  PROVE  /\ Put(e, <<f>>) => Carries(e, {f})
         /\ Put(e, <<>>) => Carries(e, {})
<1>1. PICK S : air \in [Ends -> Seq(S)]  BY DEF AirOK
<1>2. Far(e) \in Ends /\ Far(e) # e  BY TwoEnds
<1>3. air[Far(e)] \in Seq(S)  BY <1>1, <1>2
<1>4. Range(air[Far(e)] \o <<f>>) \subseteq Range(air[Far(e)]) \cup {f}
      /\ Range(air[Far(e)] \o <<>>) \subseteq Range(air[Far(e)])
  BY <1>3, OneMore
<1> QED BY <1>1, <1>2, <1>4 DEF Put, Carries, OnAir

\* And one that hears a frame and answers with none or one.
LEMMA TookCarries ==
  ASSUME AirOK(air), NEW e \in Ends, air[e] # <<>>, NEW f
  PROVE  /\ Took(e, <<f>>) => Carries(e, {f})
         /\ Took(e, <<>>) => Carries(e, {})
         /\ Head(air[e]) \in OnAir(e)
<1>1. PICK S : air \in [Ends -> Seq(S)]  BY DEF AirOK
<1>2. Far(e) \in Ends /\ Far(e) # e  BY TwoEnds
<1>3. air[Far(e)] \in Seq(S) /\ air[e] \in Seq(S)  BY <1>1, <1>2
<1>4. Range(air[Far(e)] \o <<f>>) \subseteq Range(air[Far(e)]) \cup {f}
      /\ Range(air[Far(e)] \o <<>>) \subseteq Range(air[Far(e)])
  BY <1>3, OneMore
<1>5. Range(Tail(air[e])) \subseteq Range(air[e]) /\ Head(air[e]) \in Range(air[e])
  BY <1>3, OneLess
<1> QED BY <1>1, <1>2, <1>4, <1>5 DEF Took, Carries, OnAir

\* The radio brings nothing that was not on its way.
LEMMA RadioCarries ==
  ASSUME AirOK(air), NEW e \in Ends, Lose(e) \/ Delay(e) \/ Repeat(e)
  PROVE  Carries(e, {})
<1>1. PICK S : air \in [Ends -> Seq(S)]  BY DEF AirOK
<1>2. Far(e) \in Ends /\ Far(e) # e  BY TwoEnds
<1>3. air[e] \in Seq(S)  BY <1>1
<1>4. air[e] # <<>> => Range(Tail(air[e])) \subseteq Range(air[e]) /\ Head(air[e]) \in Range(air[e])
  BY <1>3, OneLess
<1>5. CASE Lose(e)  BY <1>1, <1>2, <1>4, <1>5 DEF Lose, Carries, OnAir
<1>6. CASE Delay(e)
  <2>1. air[e] # <<>> /\ air' = [air EXCEPT ![e] = Append(Tail(@), Head(@))]
    BY <1>3, <1>6 DEF Delay
  <2>2. Tail(air[e]) \in Seq(S) /\ Append(Tail(air[e]), Head(air[e])) = Tail(air[e]) \o <<Head(air[e])>>
    BY <1>3, <2>1
  <2>3. Range(Tail(air[e]) \o <<Head(air[e])>>) \subseteq Range(Tail(air[e])) \cup {Head(air[e])}
    BY <2>2, OneMore
  <2>4. air'[e] = Tail(air[e]) \o <<Head(air[e])>>  BY <1>1, <2>1, <2>2
  <2>5. Range(air'[e]) \subseteq Range(air[e])  BY <1>4, <2>1, <2>3, <2>4
  <2> QED BY <1>1, <1>2, <2>1, <2>5 DEF Carries, OnAir
<1>7. CASE Repeat(e)
  <2>1. air[e] # <<>> /\ air' = [air EXCEPT ![e] = Append(@, Head(@))]
    BY <1>7 DEF Repeat
  <2>2. Append(air[e], Head(air[e])) = air[e] \o <<Head(air[e])>>
    BY <1>3, <2>1
  <2>3. Range(air[e] \o <<Head(air[e])>>) \subseteq Range(air[e]) \cup {Head(air[e])}
    BY <1>3, OneMore
  <2>4. Range(air'[e]) \subseteq Range(air[e])  BY <1>1, <1>4, <2>1, <2>2, <2>3
  <2> QED BY <1>1, <1>2, <2>1, <2>4 DEF Carries, OnAir
<1> QED BY <1>5, <1>6, <1>7

\* Whatever a step of an end carries, it is what was on its way and N.
LEMMA CarriesFrames ==
  ASSUME NEW e \in Ends, NEW N, Carries(e, N)
  PROVE  Frames' \subseteq Frames \cup N
BY TwoEnds DEF Carries, Frames, Ends

-----------------------------------------------------------------------------
(* The ends, step by step                                                  *)

EndVars == <<boot, epoch, key, pend, used, np, ackUsed, nonce>>

\* A step that leaves the ends as they are and carries sealed frames under the key
\* of the end that sends them.
LEMMA EndsAside ==
  ASSUME NEW w, EndInv(w), UNCHANGED EndVars, state' = state \/ state' \notin {"WAITUP", "UP"},
         NEW e \in Ends, NEW N, Carries(e, N),
         \A f \in N : ~Clear(f) /\ f.t # "PONG" /\ Seals(e) /\ f.key = key[e]
  PROVE  EndInv(w)'
<1> USE DEF EndInv, EndVars
<1>1. Frames' \subseteq Frames \cup N  BY CarriesFrames
<1>2. EndsOK'  BY DEF EndsOK, Seals, Nonces, Boots
<1>3. \A f \in N : Made(f)  BY DEF Made, EndsOK, Seals, Clear
<1>4. FramesOK'
  <2>1. \A f : Made(f)' <=> Made(f)  BY DEF Made, Nonces
  <2> QED BY <1>1, <1>3, <2>1 DEF FramesOK
<1>5. OnAir(Peer)' \subseteq OnAir(Peer) \cup N  BY TwoEnds DEF Carries, Ends
<1>6. PendingIsLast'
  <2>1. \A f \in N : f.t # "HELLO_ACK"  BY DEF Clear
  <2> QED BY <1>5, <2>1 DEF PendingIsLast, Pending
<1>7. HostStays'  BY <1>5 DEF HostStays, Answered, Seals
<1>8. BootsAgree(w)'
  <2>1. \A f \in N : Tells(w, f)  BY DEF Tells, Clear
  <2>2. \A f \in Frames' : Tells(w, f)  BY <1>1, <2>1 DEF BootsAgree
  <2> QED BY <2>2 DEF BootsAgree, Tells, Seals
<1> QED BY <1>2, <1>4, <1>6, <1>7, <1>8 DEF Nonces, Boots

\* A step in which an end hears a sealed frame: the host may put the pending key in
\* use, which the peer has then put in use before.
LEMMA EndsHear ==
  ASSUME NEW w, EndInv(w), NEW e \in Ends, NEW f \in OnAir(e), ~Clear(f), Heard(e, f),
         NEW N, Carries(e, N),
         \A g \in N : ~Clear(g) /\ g.key = f.key /\ (g.t = "PONG" => e = Host),
         \/ state' = state
         \/ state' = "UP" /\ e = Peer /\ f.t = "PONG"
         \/ state' = "HELLO"
  PROVE  EndInv(w)'
<1> USE DEF EndInv
<1>1. Frames' \subseteq Frames \cup N  BY CarriesFrames
<1>2. f \in Frames  BY DEF Frames, Ends
<1>3. f.key \in used[Peer] /\ f.key # NoKey
  BY <1>2 DEF FramesOK, Made, EndsOK, NoKey, Nonces
<1>4. UNCHANGED <<boot, nonce, np, ackUsed>>  BY DEF Heard
<1>5. \A g \in N : Made(g)  BY <1>3 DEF Made, Clear
<1>6. OnAir(Peer)' \subseteq OnAir(Peer) \cup N  BY TwoEnds DEF Carries, Ends
<1>7. \A g \in N : Tells(w, g)  BY DEF Tells, Clear
<1>8. CASE ~Moves(e, f)
  <2>1. UNCHANGED <<key, used, pend, epoch>> /\ f.key = key[e]  BY <1>8 DEF Heard, Moves
  <2>2. Seals(e)  BY <1>3, <2>1 DEF Seals
  <2>3. EndsOK'  BY <1>4, <2>1, <2>2 DEF EndsOK, Seals, Nonces, Boots
  <2>4. FramesOK'
    <3>1. \A g : Made(g)' <=> Made(g)  BY <1>4, <2>1 DEF Made, Nonces
    <3> QED BY <1>1, <1>5, <3>1 DEF FramesOK
  <2>5. PendingIsLast'
    <3>1. \A g \in N : g.t # "HELLO_ACK"  BY DEF Clear
    <3> QED BY <1>4, <1>6, <2>1, <3>1 DEF PendingIsLast, Pending
  <2>6. HostStays'
    <3>1. SUFFICES ASSUME Seals(Peer)', Answered'
                   PROVE  key'[Host] \in {NoKey, key'[Peer]}
      BY DEF HostStays
    <3>2. CASE Answered  BY <2>1, <3>1, <3>2 DEF HostStays, Seals
    <3>3. CASE state' = "UP" /\ state' # state
      <4>1. e = Peer /\ f.t = "PONG"  BY <3>3
      <4> QED BY <2>1, <3>1, <4>1 DEF HostStays, Answered, Seals
    <3>4. ASSUME NEW g \in N, g.t = "PONG", g.key = key'[Peer]
          PROVE  key'[Host] \in {NoKey, key'[Peer]}
      BY <2>1, <3>4
    <3>5. CASE state' = "UP" /\ state' = state  BY <3>2, <3>5 DEF Answered
    <3>6. ASSUME NEW g \in OnAir(Peer)', g.t = "PONG", g.key = key'[Peer]
          PROVE  key'[Host] \in {NoKey, key'[Peer]}
      <4>1. CASE g \in N  BY <3>4, <3>6, <4>1
      <4>2. CASE g \in OnAir(Peer)  BY <2>1, <3>2, <3>6, <4>2 DEF Answered
      <4> QED BY <1>6, <4>1, <4>2
    <3> QED BY <3>1, <3>3, <3>5, <3>6 DEF Answered
  <2>7. BootsAgree(w)'
    <3>1. \A g \in Frames' : Tells(w, g)  BY <1>1, <1>7 DEF BootsAgree
    <3> QED BY <1>4, <2>1, <3>1 DEF BootsAgree, Tells, Seals
  <2> QED BY <1>4, <2>3, <2>4, <2>5, <2>6, <2>7 DEF Nonces, Boots
<1>9. CASE Moves(e, f)
  <2>1. e = Host /\ pend # NoPend /\ f.key = Pending
    BY <1>9 DEF Heard, Opens, Moves, Proves, Pending
  <2>2. /\ key' = [key EXCEPT ![Host] = f.key] /\ pend' = NoPend
        /\ used' = [used EXCEPT ![Host] = @ \cup {f.key}]
        /\ epoch' = [epoch EXCEPT ![Host] = pend.epoch]
    BY <1>9, <2>1 DEF Heard, Install
  <2>3. key'[Host] = Pending /\ key'[Peer] = key[Peer] /\ used'[Peer] = used[Peer]
        /\ epoch'[Host] = pend.epoch /\ epoch'[Peer] = epoch[Peer]
    <3>1. key \in [Ends -> {NoKey} \cup used[Peer]] /\ epoch \in [Ends -> 0..MaxBoots]
      BY DEF EndsOK
    <3>2. used'[Peer] = used[Peer]  BY <2>2, TwoEnds
    <3> QED BY <2>1, <2>2, <3>1, <3>2, TwoEnds
  <2>4. Pending \in used[Peer] /\ pend \in [np : Nonces, nh : Nonces, epoch : Boots]
    BY <1>3, <2>1 DEF EndsOK
  <2>5. state' = state \/ state' = "HELLO"  BY <2>1, TwoEnds
  <2>6. EndsOK'
    <3>1. key' \in [Ends -> {NoKey} \cup used[Peer]]  BY <1>3, <2>2 DEF EndsOK
    <3>2. epoch' \in [Ends -> 0..MaxBoots]
      <4>1. pend.epoch \in 0..MaxBoots  BY <2>4 DEF Boots
      <4> QED BY <2>2, <4>1 DEF EndsOK
    <3>3. Seals(Peer)' <=> Seals(Peer)  BY <2>3 DEF Seals
    <3> QED BY <1>4, <2>2, <2>3, <2>5, <3>1, <3>2, <3>3 DEF EndsOK, Nonces, Boots
  <2>7. FramesOK'
    <3>1. \A g : Made(g)' <=> Made(g)  BY <1>4, <2>3 DEF Made, Nonces
    <3> QED BY <1>1, <1>5, <3>1 DEF FramesOK
  <2>8. PendingIsLast'  BY <2>2 DEF PendingIsLast
  <2>9. HostStays'  BY <2>1, <2>3, <2>4 DEF HostStays, PendingIsLast, Seals
  <2>10. BootsAgree(w)'
    <3>1. \A g \in Frames' : Tells(w, g)  BY <1>1, <1>7 DEF BootsAgree
    <3>2. w[key'[Host][1]] = epoch'[Host] /\ w[key'[Host][2]] = boot'[Host]
      BY <1>4, <2>1, <2>3 DEF BootsAgree, Pending
    <3>3. Seals(Peer)' => w[key'[Peer][2]] = epoch'[Peer]
      BY <2>3 DEF BootsAgree, Seals
    <3> QED BY <1>4, <2>2, <3>1, <3>2, <3>3 DEF BootsAgree, Tells
  <2> QED BY <1>4, <2>6, <2>7, <2>8, <2>9, <2>10 DEF Nonces, Boots
<1> QED BY <1>8, <1>9

-----------------------------------------------------------------------------
(* The greeting                                                            *)

\* The boots of the nonces when one more has been drawn in boot b.
Drew(w, b) == [n \in 1..nonce + 1 |-> IF n \in Nonces THEN w[n] ELSE b]

\* It is a map like w, agrees with it, and knows the new nonce.
LEMMA DrewOne ==
  ASSUME nonce \in Nat, NEW w \in [Nonces -> Boots], NEW b \in Boots
  PROVE  /\ Drew(w, b) \in [1..nonce + 1 -> Boots]
         /\ \A n \in Nonces : Drew(w, b)[n] = w[n] /\ n \in 1..nonce + 1
         /\ Drew(w, b)[nonce + 1] = b /\ nonce + 1 \notin Nonces
BY DEF Drew, Nonces

\* A map that agrees with w on the nonces drawn says the same of every frame made.
LEMMA TellsTheSame ==
  ASSUME NEW w, NEW v, \A n \in Nonces : v[n] = w[n], NEW f, Made(f), Tells(w, f)
  PROVE  Tells(v, f)
BY DEF Tells, Made

\* The host's answer to a HELLO, with the map it leaves.
LEMMA EndsGreeted ==
  ASSUME KeyInv, NEW w, EndInv(w), HearHello
  PROVE  \E v : EndInv(v)' /\ \A n \in Nonces : v[n] = w[n]
<1> DEFINE f == Head(air[Host])
           fresh == pend = NoPend \/ pend.np # f.np
           nh == IF fresh THEN nonce + 1 ELSE pend.nh
<1> USE DEF EndInv
<1>2. /\ air[Host] # <<>> /\ f.t = "HELLO"
      /\ nonce' = IF fresh THEN nonce + 1 ELSE nonce
      /\ pend' = [np |-> f.np, nh |-> nh, epoch |-> f.epoch]
      /\ Took(Host, <<HelloAck(f.np, nh)>>)
      /\ UNCHANGED <<boot, epoch, key, used, np, ackUsed, state>>
  BY DEF HearHello, peerVars
<1>1. PICK answer : answer = HelloAck(f.np, nh)  OBVIOUS
<1>3. Carries(Host, {answer}) /\ f \in OnAir(Host)
  BY <1>1, <1>2, TookCarries, TwoEnds DEF KeyInv
<1>4. f \in Frames  BY <1>3 DEF Frames
<1>5. f.np \in Nonces  BY <1>2, <1>4 DEF FramesOK, Made
<1>6. f.epoch = w[f.np]  BY <1>2, <1>4 DEF BootsAgree, Tells
<1>7. nonce \in Nat /\ boot[Host] \in Boots  BY TwoEnds DEF KeyInv, EndsOK
<1>8. \E v : /\ v \in [1..nonce' -> Boots] /\ \A n \in Nonces : v[n] = w[n] /\ n \in 1..nonce'
             /\ v[nh] = boot[Host] /\ nh \in 1..nonce'
  <2>1. CASE fresh
    <3>1. nonce' = nonce + 1 /\ nh = nonce + 1  BY <1>2, <2>1
    <3>2. nonce + 1 \in 1..nonce + 1  BY <1>7
    <3> HIDE DEF nh
    <3> QED BY <1>7, <3>1, <3>2, DrewOne
  <2>2. CASE ~fresh
    <3>1. nonce' = nonce /\ nh = pend.nh  BY <1>2, <2>2
    <3>2. pend # NoPend  BY <2>2
    <3>3. pend.nh \in Nonces /\ w[pend.nh] = boot[Host]  BY <3>2 DEF EndsOK, BootsAgree
    <3> HIDE DEF nh
    <3> QED BY <3>1, <3>3 DEF Nonces
  <2> QED BY <2>1, <2>2
<1>9. Frames' \subseteq Frames \cup {answer}  BY <1>3, CarriesFrames, TwoEnds
<1>10. answer.t = "HELLO_ACK" /\ answer.np = f.np /\ answer.nh = nh /\ answer.epoch = boot[Host]
  BY <1>1 DEF HelloAck
<1> HIDE DEF nh
<1>11. PICK v : /\ v \in [1..nonce' -> Boots] /\ \A n \in Nonces : v[n] = w[n]
                /\ v[nh] = boot[Host] /\ nh \in 1..nonce'
  BY <1>8
<1>12. Nonces \subseteq 1..nonce'  BY <1>8
<1>13. EndsOK'
  <2>1. pend' \in [np : 1..nonce', nh : 1..nonce', epoch : Boots]
    <3>1. f.epoch \in Boots  BY <1>5, <1>6
    <3> QED BY <1>2, <1>5, <1>11, <1>12, <3>1
  <2>2. used'[Peer] \subseteq (1..nonce') \X (1..nonce')
    BY <1>2, <1>12 DEF EndsOK
  <2>3. Seals(Peer)' <=> Seals(Peer)  BY <1>2 DEF Seals
  <2> QED BY <1>2, <2>1, <2>2, <2>3 DEF EndsOK, Nonces, Boots
<1>14. FramesOK'
  <2>1. \A g : Made(g) => Made(g)'  BY <1>2, <1>12 DEF Made, Nonces
  <2>2. Made(answer)'  BY <1>5, <1>11, <1>12, <1>10 DEF Made, Clear, Nonces
  <2> QED BY <1>9, <2>1, <2>2 DEF FramesOK
<1>15. PendingIsLast'
  <2>1. SUFFICES ASSUME Pending' \in used'[Peer]
                 PROVE  /\ key'[Peer] \in {NoKey, Pending'}
                        /\ \A g \in OnAir(Peer)' : g.t = "HELLO_ACK" /\ g.np = np => ackUsed
    BY <1>2 DEF PendingIsLast
  <2>2. Pending' = <<f.np, nh>>  BY <1>2 DEF Pending
  <2>3. ~fresh
    <3>1. SUFFICES ASSUME fresh PROVE FALSE  OBVIOUS
    <3>2. nh = nonce + 1  BY <3>1 DEF nh
    <3>3. <<f.np, nh>> \in Nonces \X Nonces  BY <1>2, <2>1, <2>2 DEF EndsOK
    <3> QED BY <1>7, <3>2, <3>3 DEF Nonces
  <2>4. pend # NoPend /\ Pending = Pending'  BY <2>2, <2>3 DEF nh, Pending
  <2>5. key[Peer] \in {NoKey, Pending} /\ \A g \in OnAir(Peer) : g.t = "HELLO_ACK" /\ g.np = np => ackUsed
    BY <1>2, <2>1, <2>4 DEF PendingIsLast
  <2>6. answer.np = np => ackUsed
    <3>1. Pending[1] = f.np /\ Pending \in used[Peer]  BY <1>2, <2>1, <2>2, <2>4
    <3> QED BY <1>10, <3>1 DEF KeyInv, PeerKeys
  <2>7. OnAir(Peer)' \subseteq OnAir(Peer) \cup {answer}  BY <1>3, TwoEnds DEF Carries
  <2> QED BY <1>2, <2>4, <2>5, <2>6, <2>7
<1>16. HostStays'
  <2>1. OnAir(Peer)' \subseteq OnAir(Peer) \cup {answer}  BY <1>3, TwoEnds DEF Carries
  <2>2. Answered' => Answered  BY <1>2, <1>10, <2>1 DEF Answered
  <2> QED BY <1>2, <2>2 DEF HostStays, Seals
<1>17. BootsAgree(v)'
  <2>1. \A g \in Frames' : Tells(v, g)
    <3>1. \A g \in Frames : Tells(v, g)  BY <1>11, TellsTheSame DEF FramesOK, BootsAgree
    <3>2. Tells(v, answer)  BY <1>11, <1>10 DEF Tells
    <3> QED BY <1>9, <3>1, <3>2
  <2>2. np # 0 => v[np] = boot[Peer]
    <3>1. np # 0 => np \in Nonces  BY DEF KeyInv, Nonces
    <3> QED BY <1>11, <3>1 DEF BootsAgree
  <2>3. Seals(Peer) => v[key[Peer][2]] = epoch[Peer]
    <3>1. Seals(Peer) => key[Peer][2] \in Nonces  BY TwoEnds DEF EndsOK, Seals
    <3> QED BY <1>11, <3>1 DEF BootsAgree
  <2>4. Seals(Host) => v[key[Host][1]] = epoch[Host] /\ v[key[Host][2]] = boot[Host]
    <3>1. Seals(Host) => key[Host][1] \in Nonces /\ key[Host][2] \in Nonces
      BY TwoEnds DEF EndsOK, Seals
    <3> QED BY <1>11, <3>1 DEF BootsAgree
  <2>5. v[pend'.np] = pend'.epoch /\ v[pend'.nh] = boot[Host]
    BY <1>2, <1>5, <1>6, <1>11
  <2> QED BY <1>2, <2>1, <2>2, <2>3, <2>4, <2>5 DEF BootsAgree, Seals, Tells
<1>18. (v \in [Nonces -> Boots])'  BY <1>11 DEF Nonces, Boots
<1> QED BY <1>11, <1>13, <1>14, <1>15, <1>16, <1>17, <1>18

\* The peer takes the answer to its HELLO: a key it has not had.
LEMMA EndsKeyed ==
  ASSUME KeyInv, NEW w, EndInv(w), HearHelloAck
  PROVE  EndInv(w)'
<1> USE DEF EndInv
<1>1. PICK f : f = Head(air[Peer])  OBVIOUS
<1>2. /\ air[Peer] # <<>> /\ f.t = "HELLO_ACK" /\ Took(Peer, <<>>)
      /\ UNCHANGED <<boot, nonce, pend, np>>
  BY <1>1 DEF HearHelloAck
<1>3. Carries(Peer, {}) /\ f \in OnAir(Peer)  BY <1>1, <1>2, TookCarries, TwoEnds DEF KeyInv
<1>4. f \in Frames /\ Frames' \subseteq Frames  BY <1>3, CarriesFrames, TwoEnds DEF Frames
<1>5. OnAir(Peer)' \subseteq OnAir(Peer)  BY <1>3 DEF Carries
<1>6. f.np \in Nonces /\ f.nh \in Nonces /\ f.epoch = w[f.nh]
  BY <1>2, <1>4 DEF FramesOK, Made, BootsAgree, Tells
<1>7. \A g \in Frames' : Tells(w, g)  BY <1>4 DEF BootsAgree
<1>8. CASE TakesAck(f)
  <2>1. PICK k : k = <<np, f.nh>>  OBVIOUS
  <2>2. /\ ackUsed' = TRUE /\ state' = "WAITUP" /\ Install(Peer, k)
        /\ epoch' = [epoch EXCEPT ![Peer] = f.epoch]
    BY <1>1, <1>8, <2>1 DEF HearHelloAck
  <2>3. f.np = np /\ ~ackUsed  BY <1>8 DEF TakesAck
  <2>4. k \in Nonces \X Nonces /\ k[1] = np /\ k[2] = f.nh  BY <1>6, <2>1, <2>3
  <2>5. k \notin used[Peer]  BY <2>3, <2>4 DEF KeyInv, PeerKeys
  <2>6. used'[Peer] = used[Peer] \cup {k}
    <3>1. used = [e \in Ends |-> used[e]]  BY DEF KeyInv
    <3> QED BY <2>2, <3>1, TwoEnds DEF Install
  <2>7. key'[Peer] = k /\ key'[Host] = key[Host] /\ epoch'[Peer] = f.epoch /\ epoch'[Host] = epoch[Host]
        /\ key' \in [Ends -> {NoKey} \cup used'[Peer]] /\ epoch' \in [Ends -> 0..MaxBoots]
    <3>1. key' = [key EXCEPT ![Peer] = k]  BY <2>2 DEF Install
    <3>2. key \in [Ends -> {NoKey} \cup used[Peer]] /\ epoch \in [Ends -> 0..MaxBoots]
      BY DEF EndsOK
    <3>3. w[f.nh] \in Boots  BY <1>6
    <3>4. f.epoch \in 0..MaxBoots  BY <1>6, <3>3 DEF Boots
    <3> QED BY <2>2, <2>6, <3>1, <3>2, <3>4, TwoEnds
  <2>8. EndsOK'
    <3>1. Seals(Peer)'  BY <2>4, <2>7 DEF Seals, NoKey, Nonces
    <3> QED BY <1>2, <2>2, <2>4, <2>6, <2>7, <3>1 DEF EndsOK, Nonces, Boots
  <2>9. FramesOK'
    <3>1. \A g : Made(g) => Made(g)'  BY <1>2, <2>6 DEF Made, Nonces
    <3> QED BY <1>4, <3>1 DEF FramesOK
  <2>10. PendingIsLast'
    <3>1. Pending' = Pending  BY <1>2 DEF Pending
    <3>2. pend # NoPend => Pending \notin used[Peer]
      BY <1>2, <1>3, <2>3 DEF PendingIsLast
    <3> QED BY <1>2, <2>2, <2>6, <2>7, <3>1, <3>2 DEF PendingIsLast
  <2>11. HostStays'
    <3>1. \A g \in OnAir(Peer) : g.t = "PONG" => g.key # k
      <4>1. OnAir(Peer) \subseteq Frames  BY DEF Frames
      <4>2. \A g \in Frames : g.t = "PONG" => g.key \in used[Peer]
        BY DEF FramesOK, Made, Clear
      <4> QED BY <2>5, <4>1, <4>2
    <3>2. ~Answered'  BY <1>5, <2>2, <2>7, <3>1 DEF Answered
    <3> QED BY <3>2 DEF HostStays
  <2>12. BootsAgree(w)'
    <3>1. w[key'[Peer][2]] = epoch'[Peer]  BY <1>6, <2>4, <2>7
    <3>2. Seals(Host)' <=> Seals(Host)  BY <2>7 DEF Seals
    <3> QED BY <1>2, <1>7, <2>7, <3>1, <3>2 DEF BootsAgree, Tells
  <2> QED BY <1>2, <2>8, <2>9, <2>10, <2>11, <2>12 DEF Nonces, Boots
<1>9. CASE ~TakesAck(f)
  <2>1. UNCHANGED EndVars /\ state' = state
    BY <1>1, <1>2, <1>9 DEF HearHelloAck, EndVars
  <2> QED BY <1>3, <2>1, EndsAside, TwoEnds
<1> QED BY <1>8, <1>9

\* A new HELLO: the peer has no key until it is answered, and nothing on its way
\* answers it.
LEMMA EndsGreet ==
  ASSUME KeyInv, NEW w, EndInv(w), NEW m, SendHello(m), UNCHANGED <<boot, epoch, pend, used>>
  PROVE  \E v : EndInv(v)' /\ \A n \in Nonces : v[n] = w[n]
<1> USE DEF EndInv
<1>1. PICK h : h = Hello(nonce + 1)  OBVIOUS
<1>2. /\ nonce' = nonce + 1 /\ np' = nonce + 1 /\ ackUsed' = FALSE /\ state' = "HELLO"
      /\ key' = [key EXCEPT ![Peer] = NoKey] /\ Put(Peer, <<h>>)
  BY <1>1 DEF SendHello
<1>3. Carries(Peer, {h})  BY <1>2, PutCarries, TwoEnds DEF KeyInv
<1>4. h.t = "HELLO" /\ h.np = nonce + 1 /\ h.epoch = boot[Peer]  BY <1>1 DEF Hello
<1>5. nonce \in Nat /\ boot[Peer] \in Boots  BY TwoEnds DEF KeyInv, EndsOK
<1>6. PICK v : /\ v \in [1..nonce + 1 -> Boots] /\ v[nonce + 1] = boot[Peer]
               /\ \A n \in Nonces : v[n] = w[n] /\ n \in 1..nonce + 1
               /\ nonce + 1 \notin Nonces
  BY <1>5, DrewOne
<1>7. Frames' \subseteq Frames \cup {h} /\ OnAir(Peer)' \subseteq OnAir(Peer)
  BY <1>3, CarriesFrames, TwoEnds DEF Carries
<1>8. key'[Peer] = NoKey /\ key'[Host] = key[Host] /\ key' \in [Ends -> {NoKey} \cup used[Peer]]
  BY <1>2, TwoEnds DEF EndsOK
<1>9. nonce + 1 \in 1..nonce + 1  BY <1>5
<1>10. EndsOK'
  <2>1. used[Peer] \subseteq (1..nonce + 1) \X (1..nonce + 1)  BY <1>6 DEF EndsOK
  <2>2. pend = NoPend \/ pend \in [np : 1..nonce + 1, nh : 1..nonce + 1, epoch : Boots]
    BY <1>6 DEF EndsOK
  <2> QED BY <1>2, <1>8, <2>1, <2>2 DEF EndsOK, Seals, Nonces, Boots
<1>11. FramesOK'
  <2>1. \A g : Made(g) => Made(g)'  BY <1>2, <1>6 DEF Made, Nonces
  <2>2. Made(h)'  BY <1>2, <1>4, <1>9 DEF Made, Clear, Nonces
  <2> QED BY <1>7, <2>1, <2>2 DEF FramesOK
<1>12. PendingIsLast'
  <2>1. \A g \in OnAir(Peer) : g.t = "HELLO_ACK" => g.np # nonce + 1
    BY <1>6 DEF FramesOK, Made, Frames
  <2> QED BY <1>2, <1>7, <1>8, <2>1 DEF PendingIsLast
<1>13. HostStays'  BY <1>8 DEF HostStays, Seals
<1>14. BootsAgree(v)'
  <2>1. \A g \in Frames' : Tells(v, g)
    <3>1. \A g \in Frames : Tells(v, g)  BY <1>6, TellsTheSame DEF FramesOK, BootsAgree
    <3>2. Tells(v, h)  BY <1>4, <1>6 DEF Tells
    <3> QED BY <1>7, <3>1, <3>2
  <2>2. Seals(Host) => v[key[Host][1]] = epoch[Host] /\ v[key[Host][2]] = boot[Host]
    <3>1. Seals(Host) => key[Host][1] \in Nonces /\ key[Host][2] \in Nonces
      BY TwoEnds DEF EndsOK, Seals
    <3> QED BY <1>6, <3>1 DEF BootsAgree
  <2>3. pend # NoPend => v[pend.np] = pend.epoch /\ v[pend.nh] = boot[Host]
    <3>1. pend # NoPend => pend.np \in Nonces /\ pend.nh \in Nonces  BY DEF EndsOK
    <3> QED BY <1>6, <3>1 DEF BootsAgree
  <2>4. Seals(Host)' <=> Seals(Host)  BY <1>8 DEF Seals
  <2> QED BY <1>2, <1>6, <1>8, <2>1, <2>2, <2>3, <2>4 DEF BootsAgree, Seals, Tells
<1>15. (v \in [Nonces -> Boots])'  BY <1>2, <1>6 DEF Nonces, Boots
<1> QED BY <1>6, <1>10, <1>11, <1>12, <1>13, <1>14, <1>15

\* An end that restarts forgets its key, and the host the HELLO it had answered.
LEMMA EndsRestart ==
  ASSUME KeyInv, NEW w, EndInv(w), NEW e \in Ends, Restart(e)
  PROVE  EndInv(w)'
<1> USE DEF EndInv
<1>1. /\ boot' = [boot EXCEPT ![e] = @ + 1] /\ boot[e] < MaxBoots
      /\ key' = [key EXCEPT ![e] = NoKey] /\ epoch' = [epoch EXCEPT ![e] = 0]
      /\ UNCHANGED <<nonce, air, used>>
  BY DEF Restart
<1>2. boot' \in [Ends -> Boots] /\ epoch' \in [Ends -> 0..MaxBoots]
      /\ key' \in [Ends -> {NoKey} \cup used[Peer]]
  <2>1. MaxBoots \in Nat \ {0}  BY BoardLinkAssumption
  <2>2. boot[e] + 1 \in Boots  BY <1>1, <2>1 DEF EndsOK, Boots
  <2>3. 0 \in 0..MaxBoots  BY <2>1
  <2> QED BY <1>1, <2>2, <2>3 DEF EndsOK
<1>3. \A d \in Ends \ {e} : boot'[d] = boot[d] /\ key'[d] = key[d] /\ epoch'[d] = epoch[d]
  BY <1>1 DEF EndsOK
<1>4. key'[e] = NoKey  BY <1>1 DEF EndsOK
<1>5. Frames' = Frames /\ OnAir(Peer)' = OnAir(Peer)  BY <1>1 DEF Frames, OnAir
<1>6. FramesOK'
  <2>1. \A g : Made(g) => Made(g)'  BY <1>1 DEF Made, Nonces
  <2> QED BY <1>5, <2>1 DEF FramesOK
<1>7. \A g \in Frames' : Tells(w, g)  BY <1>5 DEF BootsAgree
<1>8. CASE e = Host
  <2>1. pend' = NoPend /\ UNCHANGED <<np, ackUsed, state>>
    BY <1>8 DEF Restart, peerVars
  <2>2. key'[Peer] = key[Peer] /\ epoch'[Peer] = epoch[Peer] /\ boot'[Peer] = boot[Peer] /\ key'[Host] = NoKey
    BY <1>3, <1>4, <1>8, TwoEnds
  <2>3. EndsOK'  BY <1>1, <1>2, <2>1, <2>2 DEF EndsOK, Seals, Nonces, Boots
  <2>4. PendingIsLast'  BY <2>1 DEF PendingIsLast
  <2>5. HostStays'  BY <2>2 DEF HostStays
  <2>6. BootsAgree(w)'  BY <1>7, <2>1, <2>2 DEF BootsAgree, Seals, Tells
  <2> QED BY <1>1, <1>6, <2>3, <2>4, <2>5, <2>6 DEF Nonces, Boots
<1>9. CASE e = Peer
  <2>1. state' = "SCAN" /\ np' = 0 /\ ackUsed' = FALSE /\ UNCHANGED pend
    BY <1>9, TwoEnds DEF Restart
  <2>2. key'[Host] = key[Host] /\ epoch'[Host] = epoch[Host] /\ boot'[Host] = boot[Host] /\ key'[Peer] = NoKey
    BY <1>3, <1>4, <1>9, TwoEnds
  <2>3. EndsOK'  BY <1>1, <1>2, <2>1, <2>2 DEF EndsOK, Seals, Nonces, Boots
  <2>4. PendingIsLast'
    <3>1. \A g \in OnAir(Peer) : g.t = "HELLO_ACK" => g.np # 0
      BY DEF FramesOK, Made, Frames, Nonces
    <3> QED BY <1>5, <2>1, <2>2, <3>1 DEF PendingIsLast
  <2>5. HostStays'  BY <2>2 DEF HostStays, Seals
  <2>6. BootsAgree(w)'  BY <1>7, <2>1, <2>2 DEF BootsAgree, Seals, Tells
  <2> QED BY <1>1, <1>6, <2>3, <2>4, <2>5, <2>6 DEF Nonces, Boots
<1> QED BY <1>8, <1>9 DEF Ends

-----------------------------------------------------------------------------
(* The sessions                                                            *)

\* The opener's nonce in a key.
OpenersNonce(k) == IF O = Peer THEN k[1] ELSE k[2]

SndRec == [txSeq : Nat, txAcked : Nat, sent : Nat, tries : Nat, heard : BOOLEAN,
           blocked : BOOLEAN, closing : BOOLEAN]
RcvRec == [rxExpect : Nat, ackDue : BOOLEAN, refusing : BOOLEAN, closing : BOOLEAN]
TombRec == [expect : Nat, told : BOOLEAN, older : SUBSET Nat]
IsTable(t, S) == DOMAIN t \subseteq Ids /\ t \in [DOMAIN t -> S]

TablesOK ==
  /\ job.opener \in Ends /\ job.opens \in Nat /\ next \in Ids
  /\ got \in [Boots \X Ids -> Seq(Nat)]
  /\ IsTable(snd, SndRec) /\ IsTable(rcv, RcvRec)
  /\ tombs = [e \in Ends |-> tombs[e]] /\ \A e \in Ends : IsTable(tombs[e], TombRec)

\* What each end counts as taken of a session was given to the other's owner, in
\* the boot of the opener that the end means.
SndTaken == \A id \in DOMAIN snd : GivenUpTo(got, <<boot[O], id>>, snd[id].txAcked)
RcvTaken == \A id \in DOMAIN rcv :
  epoch[A] # 0 /\ GivenUpTo(got, <<epoch[A], id>>, rcv[id].rxExpect)
TombTaken == \A id \in DOMAIN tombs[A] :
  epoch[A] # 0 /\ GivenUpTo(got, <<epoch[A], id>>, tombs[A][id].expect)

\* A message is of the boot that drew the opener's nonce of its key, and an
\* acknowledgement says no more than was taken of that boot's session.
Said(w, f) ==
  /\ f.t = "DATA" => f.id \in Ids /\ f.seq \in Nat /\ f.by = w[OpenersNonce(f.key)]
  /\ f.t = "ACK" => /\ f.id \in Ids /\ f.cum \in Nat
                    /\ GivenUpTo(got, <<w[OpenersNonce(f.key)], f.id>>, f.cum)

SessInv(w) == TablesOK /\ SndTaken /\ RcvTaken /\ TombTaken /\ \A f \in Frames : Said(w, f)

-----------------------------------------------------------------------------
(* Tables                                                                  *)

\* An empty table is a table of anything.
LEMMA NoEntries ==
  ASSUME NEW S
  PROVE  IsTable(None, S) /\ DOMAIN None = {}
BY DEF IsTable, None

\* An entry put in a table, in the place of the one there was.
LEMMA PutEntry ==
  ASSUME NEW S, NEW t, IsTable(t, S), NEW id \in Ids, NEW r \in S
  PROVE  /\ IsTable(With(t, id, r), S) /\ DOMAIN With(t, id, r) = DOMAIN t \cup {id}
         /\ With(t, id, r)[id] = r
         /\ \A j \in DOMAIN t : j # id => With(t, id, r)[j] = t[j]
BY DEF IsTable, With

\* An entry that changes.
LEMMA ChangeEntry ==
  ASSUME NEW S, NEW t, IsTable(t, S), NEW id \in DOMAIN t, NEW r \in S,
         NEW u, u = [t EXCEPT ![id] = r]
  PROVE  /\ IsTable(u, S) /\ DOMAIN u = DOMAIN t /\ u[id] = r
         /\ \A j \in DOMAIN t : j # id => u[j] = t[j]
BY DEF IsTable

\* An entry that goes.
LEMMA DropEntry ==
  ASSUME NEW S, NEW t, IsTable(t, S), NEW id
  PROVE  /\ IsTable(Without(t, id), S) /\ DOMAIN Without(t, id) = DOMAIN t \ {id}
         /\ \A j \in DOMAIN t \ {id} : Without(t, id)[j] = t[j]
BY DEF IsTable, Without, Restrict

-----------------------------------------------------------------------------
(* The sessions, step by step                                              *)

\* What was given stays given.
Grows == \A b \in Boots, id \in Ids, n \in Nat :
  GivenUpTo(got, <<b, id>>, n) => GivenUpTo(got', <<b, id>>, n)

\* Of no messages, all were given.
LEMMA NothingYet ==
  ASSUME NEW g, NEW i
  PROVE  GivenUpTo(g, i, 0)
BY DEF GivenUpTo

\* A message more leaves what was given as it was.
LEMMA GivenStays ==
  ASSUME NEW g, NEW h, NEW i, g[i] \in Seq(Nat), NEW m \in Nat, h[i] = Append(g[i], m),
         NEW n, GivenUpTo(g, i, n)
  PROVE  GivenUpTo(h, i, n)
<1>1. \A k \in DOMAIN g[i] : k \in DOMAIN h[i] /\ h[i][k] = g[i][k]  OBVIOUS
<1> QED BY <1>1 DEF GivenUpTo

\* In its turn, it is one more that was given.
LEMMA TakenInTurn ==
  ASSUME NEW g, NEW h, NEW i, g[i] \in Seq(Nat), NEW m \in Nat, h[i] = Append(g[i], m),
         GivenUpTo(g, i, m), NEW n, n = m + 1
  PROVE  GivenUpTo(h, i, n)
<1>1. GivenUpTo(h, i, m)  BY GivenStays
<1>2. Len(g[i]) + 1 \in DOMAIN h[i]  OBVIOUS
<1>6. h[i][Len(g[i]) + 1] = m  OBVIOUS
<1>3. SUFFICES ASSUME NEW j \in 0 .. n - 1  PROVE \E k \in DOMAIN h[i] : h[i][k] = j
  BY Zenon DEF GivenUpTo
<1>4. CASE j = m  BY <1>2, <1>4, <1>6
<1>5. CASE j # m
  <2>1. j \in 0 .. m - 1  BY <1>3, <1>5
  <2> QED BY <1>1, <2>1 DEF GivenUpTo
<1> QED BY <1>4, <1>5

\* The job is fixed, and with it the ends, the ids and which nonce is the opener's.
LEMMA SameJob ==
  ASSUME job' = job
  PROVE  O' = O /\ A' = A /\ Ids' = Ids /\ \A k : OpenersNonce(k)' = OpenersNonce(k)
BY DEF O, A, Ids, OpenersNonce

\* And so it does when nothing is given.
LEMMA SameGot ==
  ASSUME got' = got
  PROVE  Grows
BY DEF Grows

\* What the frames on the air say stays true as more is given and drawn, if what is
\* sent with this step is true.
LEMMA SaidStays ==
  ASSUME NEW w, EndInv(w), SessInv(w), job' = job, Grows, TablesOK',
         NEW v, \A n \in Nonces : v[n] = w[n],
         NEW e \in Ends, NEW N, Carries(e, N), \A f \in N : Said(v, f)'
  PROVE  \A f \in Frames' : Said(v, f)'
<1>1. SUFFICES ASSUME NEW f \in Frames  PROVE Said(v, f)'  BY CarriesFrames
<1>2. Said(w, f) /\ Made(f)  BY DEF SessInv, EndInv, FramesOK
<1>3. /\ OpenersNonce(f.key)' = OpenersNonce(f.key) /\ Ids' = Ids  BY SameJob
<1>4. CASE f.t \in {"DATA", "ACK"}
  <2>1. f.key \in Nonces \X Nonces  BY <1>2, <1>4 DEF Made, Clear, EndInv, EndsOK
  <2>2. OpenersNonce(f.key) \in Nonces  BY <2>1 DEF OpenersNonce
  <2>3. v[OpenersNonce(f.key)] = w[OpenersNonce(f.key)] /\ w[OpenersNonce(f.key)] \in Boots
    BY <2>2 DEF EndInv
  <2>4. CASE f.t = "DATA"  BY <1>2, <1>3, <2>3, <2>4 DEF Said
  <2>5. CASE f.t = "ACK"
    <3>1. f.id \in Ids /\ f.cum \in Nat /\ GivenUpTo(got, <<w[OpenersNonce(f.key)], f.id>>, f.cum)
      BY <1>2, <2>5 DEF Said
    <3>4. GivenUpTo(got', <<w[OpenersNonce(f.key)], f.id>>, f.cum)
      BY <2>3, <3>1 DEF Grows
    <3> QED BY <1>3, <2>3, <2>5, <3>1, <3>4 DEF Said
  <2> QED BY <1>4, <2>4, <2>5
<1>5. CASE f.t \notin {"DATA", "ACK"}  BY <1>5 DEF Said
<1> QED BY <1>4, <1>5

\* A step that leaves the sessions and the boots they mean as they are.
LEMMA SessionsAside ==
  ASSUME NEW w, EndInv(w), SessInv(w), UNCHANGED <<job, next, got, snd, rcv, tombs>>,
         boot'[O] = boot[O], epoch'[A] = epoch[A],
         NEW v, \A n \in Nonces : v[n] = w[n],
         NEW e \in Ends, NEW N, Carries(e, N), \A f \in N : f.t \notin {"DATA", "ACK"}
  PROVE  SessInv(v)'
<1>1. O' = O /\ A' = A /\ Ids' = Ids  BY SameJob
<1>2. TablesOK'  BY <1>1 DEF SessInv, TablesOK, IsTable, Boots
<1>3. SndTaken' /\ RcvTaken' /\ TombTaken'
  BY <1>1 DEF SessInv, SndTaken, RcvTaken, TombTaken
<1>4. \A f \in N : Said(v, f)'  BY DEF Said
<1>5. \A f \in Frames' : Said(v, f)'  BY <1>2, <1>4, SameGot, SaidStays DEF SessInv
<1> QED BY <1>2, <1>3, <1>5 DEF SessInv

\* Under the key an end has now, the opener's nonce is of the boot that end means.
LEMMA KeyMeans ==
  ASSUME KeyInv, NEW w, EndInv(w), NEW k, k # NoKey
  PROVE  /\ key[O] = k => w[OpenersNonce(k)] = boot[O]
         /\ key[A] = k => w[OpenersNonce(k)] = epoch[A]
<1>1. O \in Ends  BY EndsOfTheJob
<1>2. CASE O = Peer
  BY <1>2, TwoEnds DEF A, EndInv, BootsAgree, Seals, OpenersNonce, KeyInv, EndsOK, Nonces
<1>3. CASE O = Host
  BY <1>3, TwoEnds DEF A, EndInv, BootsAgree, Seals, OpenersNonce
<1> QED BY <1>1, <1>2, <1>3 DEF Ends

\* And after a step.
LEMMA KeyMeansThen ==
  ASSUME KeyInv, KeyInv', job' = job, NEW w, EndInv(w)', NEW k, k # NoKey
  PROVE  /\ key'[O] = k => w[OpenersNonce(k)] = boot'[O]
         /\ key'[A] = k => w[OpenersNonce(k)] = epoch'[A]
<1>1. O \in Ends  BY EndsOfTheJob
<1>2. O' = O /\ A' = A /\ OpenersNonce(k)' = OpenersNonce(k)  BY SameJob
<1>3. CASE O = Peer
  <2>1. A = Host  BY <1>3, TwoEnds DEF A
  <2>2. key'[Peer] = k => w[k[1]] = boot'[Peer]
    BY TwoEnds DEF EndInv, BootsAgree, Seals, KeyInv, EndsOK, Nonces
  <2>3. key'[Host] = k => w[k[1]] = epoch'[Host]
    BY DEF EndInv, BootsAgree, Seals
  <2> QED BY <1>3, <2>1, <2>2, <2>3 DEF OpenersNonce
<1>4. CASE O = Host
  <2>1. A = Peer  BY <1>4, TwoEnds DEF A
  <2>2. key'[Peer] = k => w[k[2]] = epoch'[Peer]
    BY DEF EndInv, BootsAgree, Seals
  <2>3. key'[Host] = k => w[k[2]] = boot'[Host]
    BY DEF EndInv, BootsAgree, Seals
  <2> QED BY <1>4, <2>1, <2>2, <2>3, TwoEnds DEF OpenersNonce
<1> QED BY <1>1, <1>3, <1>4 DEF Ends

\* An end that has heard a frame has its key.
LEMMA HasItsKey ==
  ASSUME NEW w, EndInv(w), NEW e \in Ends, NEW f \in OnAir(e), ~Clear(f), Heard(e, f)
  PROVE  key'[e] = f.key /\ f.key # NoKey /\ UNCHANGED <<job, boot, next>>
<1>1. f.key # NoKey
  BY DEF EndInv, FramesOK, Made, Frames, EndsOK, NoKey, Nonces, Ends
<1>2. key'[e] = f.key
  BY DEF Heard, Install, Moves, EndInv, EndsOK
<1> QED BY <1>1, <1>2 DEF Heard

\* The tables an end finds once it has heard a frame: they are as true of the boot it
\* means now, for what it had from another boot is gone.
LEMMA HeardTables ==
  ASSUME KeyInv, NEW w, EndInv(w), SessInv(w), NEW e \in Ends, NEW f, Heard(e, f)
  PROVE  /\ IsTable(Sending(e, f), SndRec)
         /\ \A id \in DOMAIN Sending(e, f) : GivenUpTo(got, <<boot[O], id>>, Sending(e, f)[id].txAcked)
         /\ IsTable(Taking(e, f), RcvRec)
         /\ \A id \in DOMAIN Taking(e, f) :
              epoch'[A] # 0 /\ GivenUpTo(got, <<epoch'[A], id>>, Taking(e, f)[id].rxExpect)
         /\ Buried(e, f) = [d \in Ends |-> Buried(e, f)[d]]
         /\ \A d \in Ends : IsTable(Buried(e, f)[d], TombRec)
         /\ \A id \in DOMAIN Buried(e, f)[A] :
              epoch'[A] # 0 /\ GivenUpTo(got, <<epoch'[A], id>>, Buried(e, f)[A][id].expect)
<1> USE DEF SessInv, TablesOK, SndTaken, RcvTaken, TombTaken
<1>1. O \in Ends /\ A \in Ends /\ A # O  BY EndsOfTheJob, TwoEnds DEF A
<1>2. epoch \in [Ends -> 0..MaxBoots]  BY DEF EndInv, EndsOK
<1>3. /\ IsTable(Sending(e, f), SndRec)
      /\ \A id \in DOMAIN Sending(e, f) : GivenUpTo(got, <<boot[O], id>>, Sending(e, f)[id].txAcked)
  <2>1. CASE e # O  BY <2>1 DEF Sending
  <2>2. CASE e = O /\ FarIsNew(e, f)  BY <2>2, NoEntries DEF Sending
  <2>3. CASE e = O /\ ~FarIsNew(e, f)
    <3> DEFINE Marked(r) == [r EXCEPT !.heard = TRUE]
    <3>1. Sending(e, f) = [id \in DOMAIN snd |-> Marked(snd[id])]
      BY <2>3 DEF Sending
    <3>2. \A id \in DOMAIN snd : snd[id] \in SndRec  BY DEF IsTable
    <3>3. ASSUME NEW r \in SndRec
          PROVE  Marked(r) \in SndRec /\ Marked(r).txAcked = r.txAcked
      BY DEF SndRec
    <3> HIDE DEF Marked
    <3> QED BY <3>1, <3>2, <3>3 DEF IsTable
  <2> QED BY <2>1, <2>2, <2>3
<1>4. CASE FarIsNew(e, f) /\ e = A
  <2>1. Taking(e, f) = None /\ Buried(e, f) = [tombs EXCEPT ![e] = None]
    BY <1>4 DEF Taking, Buried
  <2>2. Buried(e, f)[A] = None /\ \A d \in Ends : IsTable(Buried(e, f)[d], TombRec)
    BY <1>1, <1>4, <2>1, NoEntries
  <2> QED BY <1>1, <1>3, <2>1, <2>2, NoEntries
<1>5. CASE ~FarIsNew(e, f) /\ e = A
  <2>1. Taking(e, f) = rcv /\ Buried(e, f) = tombs  BY <1>5 DEF Taking, Buried
  <2>2. epoch[A] = 0 \/ epoch'[A] = epoch[A]
    <3>1. CASE Moves(e, f)
      <4>1. epoch' = [epoch EXCEPT ![e] = pend.epoch] /\ epoch[e] \in {0, pend.epoch}
        BY <1>5, <3>1 DEF Heard, FarIsNew
      <4> QED BY <1>2, <1>5, <4>1
    <3>2. CASE ~Moves(e, f)  BY <3>2 DEF Heard
    <3> QED BY <3>1, <3>2
  <2> QED BY <1>1, <1>3, <2>1, <2>2
<1>6. CASE e # A
  <2>1. Taking(e, f) = rcv /\ epoch'[A] = epoch[A]
    BY <1>1, <1>2, <1>6 DEF Taking, Heard
  <2>2. Buried(e, f) = [tombs EXCEPT ![e] = None] \/ Buried(e, f) = tombs  BY DEF Buried
  <2>3. Buried(e, f)[A] = tombs[A] /\ \A d \in Ends : IsTable(Buried(e, f)[d], TombRec)
    BY <1>1, <1>6, <2>2, NoEntries
  <2> QED BY <1>1, <1>3, <2>1, <2>2, <2>3
<1> QED BY <1>4, <1>5, <1>6

\* The host hears a PING.
LEMMA PingKeeps ==
  ASSUME KeyInv, KeyInv', NEW w, EndInv(w), SessInv(w), HearPing
  PROVE  EndInv(w)' /\ SessInv(w)'
<1>1. PICK f : f = Head(air[Host])  OBVIOUS
<1>2. /\ air[Host] # <<>> /\ f.t = "PING" /\ Heard(Host, f)
      /\ snd' = Sending(Host, f) /\ rcv' = Taking(Host, f) /\ tombs' = Buried(Host, f)
      /\ Took(Host, <<Beat("PONG", f.key)>>) /\ UNCHANGED <<state, got>>
  BY <1>1 DEF HearPing
<1>3. PICK g : g = Beat("PONG", f.key)  OBVIOUS
<1>4. g.t = "PONG" /\ g.key = f.key  BY <1>3 DEF Beat
<1>5. Carries(Host, {g}) /\ f \in OnAir(Host)
  BY <1>1, <1>2, <1>3, TookCarries, TwoEnds DEF KeyInv
<1>6. ~Clear(f) /\ ~Clear(g)  BY <1>2, <1>4 DEF Clear
<1>7. EndInv(w)'  BY <1>2, <1>4, <1>5, <1>6, EndsHear, TwoEnds
<1>8. UNCHANGED <<job, boot, next>>  BY <1>2, <1>5, <1>6, HasItsKey, TwoEnds
<1>9. O' = O /\ A' = A /\ Ids' = Ids  BY <1>8, SameJob
<1>10. TablesOK' /\ SndTaken' /\ RcvTaken' /\ TombTaken'
  BY <1>2, <1>8, <1>9, HeardTables, TwoEnds
     DEF TablesOK, IsTable, SndTaken, RcvTaken, TombTaken, SessInv, Boots
<1>11. \A h \in Frames' : Said(w, h)'
  <2>1. Said(w, g)'  BY <1>4 DEF Said
  <2>2. Grows  BY <1>2, SameGot
  <2> QED BY <1>5, <1>8, <1>10, <2>1, <2>2, SaidStays, TwoEnds
<1> QED BY <1>7, <1>10, <1>11 DEF SessInv

\* The peer hears a PONG.
LEMMA PongKeeps ==
  ASSUME KeyInv, KeyInv', NEW w, EndInv(w), SessInv(w), HearPong
  PROVE  EndInv(w)' /\ SessInv(w)'
<1>1. PICK f : f = Head(air[Peer])  OBVIOUS
<1>2. /\ air[Peer] # <<>> /\ f.t = "PONG" /\ Heard(Peer, f) /\ state' = "UP"
      /\ snd' = Sending(Peer, f) /\ Took(Peer, <<>>) /\ UNCHANGED <<rcv, tombs, got>>
  BY <1>1 DEF HearPong
<1>3. Carries(Peer, {}) /\ f \in OnAir(Peer)
  BY <1>1, <1>2, TookCarries, TwoEnds DEF KeyInv
<1>4. ~Clear(f)  BY <1>2 DEF Clear
<1>5. EndInv(w)'  BY <1>2, <1>3, <1>4, EndsHear, TwoEnds
<1>6. UNCHANGED <<job, boot, next>>  BY <1>2, <1>3, <1>4, HasItsKey, TwoEnds
<1>7. O' = O /\ A' = A /\ Ids' = Ids  BY <1>6, SameJob
<1>8. epoch' = epoch  BY <1>2, TwoEnds DEF Heard, Opens, Moves, Proves
<1>9. TablesOK' /\ SndTaken' /\ RcvTaken' /\ TombTaken'
  BY <1>2, <1>6, <1>7, <1>8, HeardTables, TwoEnds
     DEF TablesOK, IsTable, SndTaken, RcvTaken, TombTaken, SessInv, Boots
<1>10. \A h \in Frames' : Said(w, h)'
  <2>1. Grows  BY <1>2, SameGot
  <2> QED BY <1>3, <1>6, <1>9, <2>1, SaidStays, TwoEnds
<1> QED BY <1>5, <1>9, <1>10 DEF SessInv

\* RESET: the session goes.
LEMMA ResetKeeps ==
  ASSUME KeyInv, KeyInv', NEW w, EndInv(w), SessInv(w), NEW e \in Ends, HearReset(e)
  PROVE  EndInv(w)' /\ SessInv(w)'
<1>1. PICK f : f = Head(air[e])  OBVIOUS
<1>2. /\ air[e] # <<>> /\ f.t = "RESET" /\ Heard(e, f)
      /\ snd' = IF e = O THEN Without(Sending(e, f), f.id) ELSE snd
      /\ rcv' = IF e = A THEN Without(Taking(e, f), f.id) ELSE rcv
      /\ tombs' = Buried(e, f)
      /\ Took(e, <<>>) /\ UNCHANGED got /\ (state' = state \/ state' = "HELLO")
  BY <1>1 DEF HearReset
<1>3. Carries(e, {}) /\ f \in OnAir(e)
  BY <1>1, <1>2, TookCarries, TwoEnds DEF KeyInv
<1>4. ~Clear(f)  BY <1>2 DEF Clear
<1>5. EndInv(w)'  BY <1>2, <1>3, <1>4, EndsHear, TwoEnds
<1>6. UNCHANGED <<job, boot, next>>  BY <1>2, <1>3, <1>4, HasItsKey, TwoEnds
<1>7. O' = O /\ A' = A /\ Ids' = Ids  BY <1>6, SameJob
<1>8. (e # O => snd = Sending(e, f)) /\ (e # A => rcv = Taking(e, f))
  BY DEF Sending, Taking
<1>9. IsTable(snd', SndRec) /\ SndTaken'
  <2>1. snd' = Without(Sending(e, f), f.id) \/ snd' = Sending(e, f)  BY <1>2, <1>8
  <2>2. /\ IsTable(Sending(e, f), SndRec)
        /\ \A id \in DOMAIN Sending(e, f) : GivenUpTo(got, <<boot[O], id>>, Sending(e, f)[id].txAcked)
    BY <1>2, HeardTables
  <2>3. IsTable(snd', SndRec) /\ \A id \in DOMAIN snd' : id \in DOMAIN Sending(e, f) /\ snd'[id] = Sending(e, f)[id]
    <3>1. CASE snd' = Without(Sending(e, f), f.id)
      <4>1. PICK s : s = Sending(e, f)  OBVIOUS
      <4>2. IsTable(s, SndRec) /\ snd' = Without(s, f.id)  BY <2>2, <3>1, <4>1
      <4>3. IsTable(snd', SndRec)  BY <4>2, DropEntry
      <4>4. DOMAIN snd' = DOMAIN s \ {f.id}  BY <4>2, DropEntry
      <4>5. \A j \in DOMAIN s \ {f.id} : snd'[j] = s[j]
        BY <4>2 DEF Without, Restrict
      <4> QED BY <4>1, <4>3, <4>4, <4>5
    <3>2. CASE snd' = Sending(e, f)  BY <2>2, <3>2
    <3> QED BY <2>1, <3>1, <3>2
  <2> QED BY <1>2, <1>6, <1>7, <2>2, <2>3 DEF SndTaken
<1>10. IsTable(rcv', RcvRec) /\ RcvTaken'
  <2>1. rcv' = Without(Taking(e, f), f.id) \/ rcv' = Taking(e, f)  BY <1>2, <1>8
  <2>2. /\ IsTable(Taking(e, f), RcvRec)
        /\ \A id \in DOMAIN Taking(e, f) :
             epoch'[A] # 0 /\ GivenUpTo(got, <<epoch'[A], id>>, Taking(e, f)[id].rxExpect)
    BY <1>2, HeardTables
  <2>3. IsTable(rcv', RcvRec) /\ \A id \in DOMAIN rcv' : id \in DOMAIN Taking(e, f) /\ rcv'[id] = Taking(e, f)[id]
    <3>1. CASE rcv' = Without(Taking(e, f), f.id)
      <4>1. PICK s : s = Taking(e, f)  OBVIOUS
      <4>2. IsTable(s, RcvRec) /\ rcv' = Without(s, f.id)  BY <2>2, <3>1, <4>1
      <4>3. IsTable(rcv', RcvRec)  BY <4>2, DropEntry
      <4>4. DOMAIN rcv' = DOMAIN s \ {f.id}  BY <4>2, DropEntry
      <4>5. \A j \in DOMAIN s \ {f.id} : rcv'[j] = s[j]
        BY <4>2 DEF Without, Restrict
      <4> QED BY <4>1, <4>3, <4>4, <4>5
    <3>2. CASE rcv' = Taking(e, f)  BY <2>2, <3>2
    <3> QED BY <2>1, <3>1, <3>2
  <2> QED BY <1>2, <1>7, <2>2, <2>3 DEF RcvTaken
<1>11. TombTaken' /\ tombs' = [d \in Ends |-> tombs'[d]] /\ \A d \in Ends : IsTable(tombs'[d], TombRec)
  BY <1>2, <1>7, HeardTables DEF TombTaken
<1>12. TablesOK'
  BY <1>2, <1>6, <1>7, <1>9, <1>10, <1>11 DEF TablesOK, SessInv, IsTable, Boots
<1>13. \A h \in Frames' : Said(w, h)'
  <2>1. Grows  BY <1>2, SameGot
  <2> QED BY <1>3, <1>6, <1>12, <2>1, SaidStays
<1> QED BY <1>5, <1>9, <1>10, <1>11, <1>12, <1>13 DEF SessInv

\* ACK: the opener counts as taken what the other end has taken of this boot's session.
LEMMA AckKeeps ==
  ASSUME KeyInv, KeyInv', NEW w, EndInv(w), SessInv(w), HearAck
  PROVE  EndInv(w)' /\ SessInv(w)'
<1>0. O \in Ends /\ A \in Ends /\ A # O  BY EndsOfTheJob, TwoEnds DEF A
<1>1. PICK f : f = Head(air[O])  OBVIOUS
<1>2. PICK s : s = Sending(O, f)  OBVIOUS
<1>3. /\ air[O] # <<>> /\ f.t = "ACK" /\ Heard(O, f)
      /\ snd' = IF f.id \in DOMAIN s THEN [s EXCEPT ![f.id] = Acked(@, f.cum, f.win)] ELSE s
      /\ tombs' = Buried(O, f) /\ Took(O, <<>>) /\ UNCHANGED <<state, rcv, got>>
  BY <1>1, <1>2 DEF HearAck
<1>4. Carries(O, {}) /\ f \in OnAir(O)
  BY <1>0, <1>1, <1>3, TookCarries DEF KeyInv
<1>5. ~Clear(f)  BY <1>3 DEF Clear
<1>6. EndInv(w)'  BY <1>0, <1>3, <1>4, <1>5, EndsHear
<1>7. UNCHANGED <<job, boot, next>> /\ key'[O] = f.key /\ f.key # NoKey
  BY <1>0, <1>3, <1>4, <1>5, HasItsKey
<1>8. O' = O /\ A' = A /\ Ids' = Ids  BY <1>7, SameJob
<1>9. f.id \in Ids /\ f.cum \in Nat /\ GivenUpTo(got, <<boot[O], f.id>>, f.cum)
  <2>1. Said(w, f)  BY <1>0, <1>4 DEF SessInv, Frames, Ends
  <2>2. w[OpenersNonce(f.key)] = boot[O]  BY <1>6, <1>7, KeyMeansThen
  <2> QED BY <1>3, <2>1, <2>2 DEF Said
<1>10. IsTable(s, SndRec) /\ \A id \in DOMAIN s : GivenUpTo(got, <<boot[O], id>>, s[id].txAcked)
  BY <1>0, <1>2, <1>3, HeardTables
<1>11. IsTable(snd', SndRec) /\ \A id \in DOMAIN snd' : GivenUpTo(got, <<boot[O], id>>, snd'[id].txAcked)
  <2>1. CASE f.id \in DOMAIN s
    <3>1. PICK r : r = Acked(s[f.id], f.cum, f.win)  OBVIOUS
    <3>2. s[f.id] \in SndRec  BY <1>10, <2>1 DEF IsTable
    <3>3. r \in SndRec /\ r.txAcked \in {s[f.id].txAcked, f.cum}
      BY <1>9, <3>1, <3>2 DEF Acked, SndRec
    <3>4. snd' = [s EXCEPT ![f.id] = r]  BY <1>3, <2>1, <3>1
    <3>5. /\ IsTable(snd', SndRec) /\ DOMAIN snd' = DOMAIN s /\ snd'[f.id] = r
          /\ \A j \in DOMAIN s : j # f.id => snd'[j] = s[j]
      BY <1>10, <2>1, <3>3, <3>4, ChangeEntry
    <3> QED BY <1>9, <1>10, <2>1, <3>3, <3>5
  <2>2. CASE f.id \notin DOMAIN s  BY <1>3, <1>10, <2>2
  <2> QED BY <2>1, <2>2
<1>12. SndTaken'  BY <1>3, <1>7, <1>8, <1>11 DEF SndTaken
<1>13. epoch'[A] = epoch[A]  BY <1>0, <1>3 DEF Heard, EndInv, EndsOK
<1>14. RcvTaken'  BY <1>3, <1>8, <1>13 DEF RcvTaken, SessInv
<1>15. TombTaken' /\ tombs' = [d \in Ends |-> tombs'[d]] /\ \A d \in Ends : IsTable(tombs'[d], TombRec)
  BY <1>0, <1>3, <1>8, HeardTables DEF TombTaken
<1>16. TablesOK'
  BY <1>3, <1>7, <1>8, <1>11, <1>15 DEF TablesOK, SessInv, IsTable, Boots
<1>17. \A h \in Frames' : Said(w, h)'
  <2>1. Grows  BY <1>3, SameGot
  <2> QED BY <1>0, <1>4, <1>7, <1>16, <2>1, SaidStays
<1> QED BY <1>6, <1>12, <1>14, <1>15, <1>16, <1>17 DEF SessInv

\* A session that has accepted a message, closing or not, expects the next.
LEMMA AcceptedIs ==
  ASSUME NEW s \in RcvRec, NEW last \in BOOLEAN, NEW q, q = Accepted(s, last)
  PROVE  q \in RcvRec /\ q.rxExpect = s.rxExpect + 1
<1>1. /\ q.closing \in BOOLEAN /\ q.rxExpect = s.rxExpect + 1
      /\ q.ackDue = TRUE /\ q.refusing = FALSE
  BY DEF Accepted, RcvRec
<1>2. q = [x \in DOMAIN s |-> q[x]]  BY DEF Accepted
<1>3. DOMAIN s = {"rxExpect", "ackDue", "refusing", "closing"}  BY DEF RcvRec
<1>4. q = [rxExpect |-> q.rxExpect, ackDue |-> q.ackDue, refusing |-> q.refusing,
           closing |-> q.closing]
  BY <1>2, <1>3
<1>5. q.rxExpect \in Nat  BY <1>1 DEF RcvRec
<1>6. q.ackDue \in BOOLEAN /\ q.refusing \in BOOLEAN  BY <1>1
<1> QED BY <1>1, <1>4, <1>5, <1>6 DEF RcvRec

\* A message heard: in its turn its owner is given it, and one more is taken of the
\* session in the boot that its key means.
LEMMA DataKeeps ==
  ASSUME KeyInv, KeyInv', NEW w, EndInv(w), SessInv(w), HearData
  PROVE  EndInv(w)' /\ SessInv(w)'
<1>0. O \in Ends /\ A \in Ends /\ A # O  BY EndsOfTheJob, TwoEnds DEF A
<1>1. PICK f : f = Head(air[A])  OBVIOUS
<1>2. PICK r : r = Taking(A, f)  OBVIOUS
<1>3. PICK t : t = Buried(A, f)[A]  OBVIOUS
<1>4. /\ air[A] # <<>> /\ f.t = "DATA" /\ Heard(A, f)
      /\ tombs' = Buried(A, f) /\ UNCHANGED <<snd, state>>
  BY <1>1, <1>2, <1>3 DEF HearData
<1>13. PICK s : s = IF f.id \in DOMAIN r THEN r[f.id] ELSE NewRcv  OBVIOUS
<1> DEFINE Gives == /\ f.seq = s.rxExpect
                    /\ got' = [got EXCEPT ![<<f.by, f.id>>] = Append(@, f.seq)]
           Closed == <<Ack(f.key, f.id, f.seq + 1, kStreamWin)>>
<1>5. \/ /\ Gives /\ Took(A, <<>>)
         /\ \E last \in BOOLEAN : rcv' = With(r, f.id, Accepted(s, last))
      \/ Gives /\ Took(A, Closed) /\ rcv' = Without(r, f.id)
      \/ /\ got' = got /\ Took(A, <<>>)
         /\ rcv' \in {With(r, f.id, Refused(s)), Without(r, f.id), [r EXCEPT ![f.id] = OutOfOrder(s)]}
      \/ rcv' = r /\ Took(A, Answer(f, r, t)) /\ got' = got
  BY <1>1, <1>2, <1>3, <1>13 DEF HearData, Deliver
<1>6. f \in OnAir(A) /\ f \in Frames /\ ~Clear(f)
  BY <1>0, <1>1, <1>4, TookCarries DEF KeyInv, Frames, Ends, Clear
<1>7. /\ UNCHANGED <<job, boot, next>> /\ key'[A] = f.key /\ f.key # NoKey
  BY <1>0, <1>4, <1>6, HasItsKey
<1>8. O' = O /\ A' = A /\ Ids' = Ids  BY <1>7, SameJob
<1>9. PICK N : /\ Carries(A, N) /\ \A g \in N : ~Clear(g) /\ g.key = f.key /\ g.t \in {"ACK", "RESET"}
               /\ \A g \in N : g.t = "ACK" =>
                    /\ g.id = f.id
                    /\ (f.id \in DOMAIN t /\ g.cum = t[f.id].expect) \/ (Gives /\ g.cum = f.seq + 1)
  <2>1. CASE Took(A, <<>>)
    <3>1. Carries(A, {})  BY <1>0, <1>4, <2>1, TookCarries DEF KeyInv
    <3> QED BY <3>1
  <2>2. CASE Took(A, Answer(f, r, t))
    <3>1. \/ Answer(f, r, t) = <<>>
          \/ Answer(f, r, t) = <<Reset(f.key, f.id)>>
          \/ f.id \in DOMAIN t /\ Answer(f, r, t) = <<Ack(f.key, f.id, t[f.id].expect, kStreamWin)>>
      BY DEF Answer
    <3>2. CASE Answer(f, r, t) = <<>>  BY <2>1, <2>2, <3>2
    <3>3. CASE Answer(f, r, t) = <<Reset(f.key, f.id)>>
      <4>1. PICK g : g = Reset(f.key, f.id)  OBVIOUS
      <4>2. Carries(A, {g})  BY <1>0, <1>4, <2>2, <3>3, <4>1, TookCarries DEF KeyInv
      <4>3. ~Clear(g) /\ g.key = f.key /\ g.t = "RESET"  BY <4>1 DEF Reset, Clear
      <4> QED BY <4>2, <4>3
    <3>4. CASE f.id \in DOMAIN t /\ Answer(f, r, t) = <<Ack(f.key, f.id, t[f.id].expect, kStreamWin)>>
      <4>1. PICK g : g = Ack(f.key, f.id, t[f.id].expect, kStreamWin)  OBVIOUS
      <4>2. Carries(A, {g})  BY <1>0, <1>4, <2>2, <3>4, <4>1, TookCarries DEF KeyInv
      <4>3. ~Clear(g) /\ g.key = f.key /\ g.t = "ACK" /\ g.id = f.id /\ g.cum = t[f.id].expect
        BY <4>1 DEF Ack, Clear
      <4> QED BY <3>4, <4>2, <4>3
    <3> QED BY <3>1, <3>2, <3>3, <3>4
  <2>3. CASE Gives /\ Took(A, Closed)
    <3>1. PICK g : g = Ack(f.key, f.id, f.seq + 1, kStreamWin)  OBVIOUS
    <3>2. Carries(A, {g})  BY <1>0, <1>4, <2>3, <3>1, TookCarries DEF KeyInv
    <3>3. ~Clear(g) /\ g.key = f.key /\ g.t = "ACK" /\ g.id = f.id /\ g.cum = f.seq + 1
      BY <3>1 DEF Ack, Clear
    <3> QED BY <2>3, <3>2, <3>3
  <2> QED BY <1>5, <2>1, <2>2, <2>3
<1>10. EndInv(w)'  BY <1>0, <1>4, <1>6, <1>9, EndsHear
<1>11. /\ f.id \in Ids /\ f.seq \in Nat /\ f.by = epoch'[A] /\ epoch'[A] \in Boots /\ epoch'[A] # 0
       /\ w[OpenersNonce(f.key)] = epoch'[A]
  <2>1. Said(w, f)  BY <1>6 DEF SessInv
  <2>2. w[OpenersNonce(f.key)] = epoch'[A]  BY <1>7, <1>10, KeyMeansThen
  <2>3. f.key \in Nonces \X Nonces  BY <1>6 DEF EndInv, FramesOK, Made, EndsOK
  <2>4. w[OpenersNonce(f.key)] \in Boots  BY <2>3 DEF OpenersNonce, EndInv
  <2> QED BY <1>4, <2>1, <2>2, <2>4 DEF Said, Boots
<1> DEFINE b == epoch'[A]
<1>12. /\ IsTable(r, RcvRec) /\ \A id \in DOMAIN r : GivenUpTo(got, <<b, id>>, r[id].rxExpect)
       /\ IsTable(t, TombRec) /\ \A id \in DOMAIN t : GivenUpTo(got, <<b, id>>, t[id].expect)
       /\ tombs' = [d \in Ends |-> tombs'[d]] /\ \A d \in Ends : IsTable(tombs'[d], TombRec)
       /\ tombs'[A] = t
  BY <1>0, <1>2, <1>3, <1>4, HeardTables
<1>14. got \in [Boots \X Ids -> Seq(Nat)] /\ got[<<b, f.id>>] \in Seq(Nat)
  BY <1>11 DEF SessInv, TablesOK
<1>15. s \in RcvRec /\ GivenUpTo(got, <<b, f.id>>, s.rxExpect)
  <2>1. CASE f.id \in DOMAIN r  BY <1>12, <1>13, <2>1 DEF IsTable
  <2>2. CASE f.id \notin DOMAIN r
    <3>1. s = NewRcv  BY <1>13, <2>2
    <3>2. s \in RcvRec /\ s.rxExpect = 0  BY <3>1 DEF NewRcv, RcvRec
    <3> QED BY <3>2, NothingYet
  <2> QED BY <2>1, <2>2
<1>22. ASSUME Gives
      PROVE  /\ got' \in [Boots \X Ids -> Seq(Nat)] /\ Grows
             /\ GivenUpTo(got', <<b, f.id>>, s.rxExpect + 1)
  <2>1. Append(got[<<b, f.id>>], f.seq) \in Seq(Nat)  BY <1>11, <1>14
  <2>2. /\ got' \in [Boots \X Ids -> Seq(Nat)]
        /\ got'[<<b, f.id>>] = Append(got[<<b, f.id>>], f.seq)
        /\ \A c \in Boots, id \in Ids : <<c, id>> # <<b, f.id>> => got'[<<c, id>>] = got[<<c, id>>]
    BY <1>11, <1>14, <1>22, <2>1
  <2>5. PICK i : i = <<b, f.id>>  OBVIOUS
  <2>6. f.seq \in Nat /\ got[i] \in Seq(Nat) /\ got'[i] = Append(got[i], f.seq)
    BY <1>11, <1>14, <2>2, <2>5
  <2>7. ASSUME NEW n \in Nat, GivenUpTo(got, i, n)  PROVE GivenUpTo(got', i, n)
    BY <2>6, <2>7, GivenStays
  <2>3. ASSUME NEW c \in Boots, NEW id \in Ids, NEW n \in Nat, GivenUpTo(got, <<c, id>>, n)
        PROVE  GivenUpTo(got', <<c, id>>, n)
    <3>1. CASE <<c, id>> = i  BY <2>3, <2>7, <3>1
    <3>2. CASE <<c, id>> # i  BY <2>2, <2>3, <2>5, <3>2 DEF GivenUpTo
    <3> QED BY <3>1, <3>2
  <2>4. GivenUpTo(got', <<b, f.id>>, s.rxExpect + 1)
    <3>1. s.rxExpect \in Nat /\ f.seq = s.rxExpect  BY <1>15, <1>22 DEF RcvRec
    <3>2. PICK m : m = f.seq  OBVIOUS
    <3>3. m \in Nat /\ got'[i] = Append(got[i], m) /\ GivenUpTo(got, i, m)
      BY <1>15, <2>5, <2>6, <3>1, <3>2
    <3>4. PICK n : n = m + 1  OBVIOUS
    <3>5. GivenUpTo(got', i, n)  BY <2>6, <3>3, <3>4, TakenInTurn
    <3> QED BY <2>5, <3>1, <3>2, <3>4, <3>5
  <2> QED BY <2>2, <2>3, <2>4 DEF Grows
<1> DEFINE Given == /\ got' \in [Boots \X Ids -> Seq(Nat)] /\ Grows
                    /\ IsTable(rcv', RcvRec)
                    /\ \A id \in DOMAIN rcv' : GivenUpTo(got', <<b, id>>, rcv'[id].rxExpect)
<1>16. Given
  <2>1. CASE rcv' = r /\ got' = got
    <3>1. Grows  BY <2>1, SameGot
    <3> QED BY <1>12, <1>14, <2>1, <3>1
  <2>7. ASSUME Grows, NEW id \in DOMAIN r  PROVE GivenUpTo(got', <<b, id>>, r[id].rxExpect)
    <3>1. id \in Ids /\ r[id].rxExpect \in Nat /\ b \in Boots
      BY <1>11, <1>12, <2>7 DEF IsTable, RcvRec
    <3> QED BY <1>12, <2>7, <3>1 DEF Grows
  <2>2. ASSUME NEW last \in BOOLEAN, Gives, rcv' = With(r, f.id, Accepted(s, last))
        PROVE  Given
    <3>1. PICK q : q = Accepted(s, last)  OBVIOUS
    <3>2. q \in RcvRec /\ q.rxExpect = s.rxExpect + 1
      BY <1>15, <3>1, AcceptedIs
    <3>3. /\ IsTable(rcv', RcvRec) /\ DOMAIN rcv' = DOMAIN r \cup {f.id} /\ rcv'[f.id] = q
          /\ \A j \in DOMAIN r : j # f.id => rcv'[j] = r[j]
      <4>1. rcv' = With(r, f.id, q)  BY <2>2, <3>1
      <4>2. IsTable(rcv', RcvRec)  BY <1>11, <1>12, <3>2, <4>1, PutEntry
      <4> QED BY <4>1, <4>2 DEF With
    <3>4. /\ got' \in [Boots \X Ids -> Seq(Nat)] /\ Grows
          /\ GivenUpTo(got', <<b, f.id>>, s.rxExpect + 1)
      BY <1>22, <2>2
    <3>5. \A id \in DOMAIN rcv' : GivenUpTo(got', <<b, id>>, rcv'[id].rxExpect)
      <4>1. ASSUME NEW id \in DOMAIN r, id # f.id  PROVE GivenUpTo(got', <<b, id>>, rcv'[id].rxExpect)
        BY <2>7, <3>3, <3>4, <4>1
      <4>2. GivenUpTo(got', <<b, f.id>>, rcv'[f.id].rxExpect)  BY <3>2, <3>3, <3>4
      <4> QED BY <3>3, <4>1, <4>2
    <3> QED BY <3>3, <3>4, <3>5
  <2>5. ASSUME rcv' = Without(r, f.id), got' = got \/ Gives  PROVE Given
    <3>3. IsTable(r, RcvRec) /\ rcv' = Without(r, f.id)  BY <1>12, <2>5
    <3>1. /\ IsTable(rcv', RcvRec) /\ DOMAIN rcv' \subseteq DOMAIN r
          /\ \A j \in DOMAIN rcv' : rcv'[j] = r[j]
      <4>1. IsTable(rcv', RcvRec)  BY <3>3, DropEntry
      <4>2. DOMAIN rcv' \subseteq DOMAIN r /\ \A j \in DOMAIN rcv' : rcv'[j] = r[j]
        BY <3>3 DEF Without, Restrict
      <4> QED BY <4>1, <4>2
    <3>2. got' \in [Boots \X Ids -> Seq(Nat)] /\ Grows
      <4>1. CASE got' = got  BY <1>14, <4>1, SameGot
      <4>2. CASE Gives  BY <1>22, <4>2
      <4> QED BY <2>5, <4>1, <4>2
    <3> QED BY <2>7, <3>1, <3>2
  <2>3. ASSUME rcv' = With(r, f.id, Refused(s)), got' = got  PROVE Given
    <3>1. PICK q : q = Refused(s)  OBVIOUS
    <3>2. q \in RcvRec /\ q.rxExpect = s.rxExpect
      BY <1>15, <3>1 DEF Refused, RcvRec
    <3>3. /\ IsTable(rcv', RcvRec) /\ DOMAIN rcv' = DOMAIN r \cup {f.id} /\ rcv'[f.id] = q
          /\ \A j \in DOMAIN r : j # f.id => rcv'[j] = r[j]
      <4>1. rcv' = With(r, f.id, q)  BY <2>3, <3>1
      <4>2. IsTable(rcv', RcvRec)  BY <1>11, <1>12, <3>2, <4>1, PutEntry
      <4> QED BY <4>1, <4>2 DEF With
    <3>4. Grows  BY <2>3, SameGot
    <3> QED BY <1>12, <1>14, <1>15, <2>3, <3>2, <3>3, <3>4
  <2>4. ASSUME rcv' = [r EXCEPT ![f.id] = OutOfOrder(s)], got' = got  PROVE Given
    <3>1. Grows  BY <2>4, SameGot
    <3>2. CASE f.id \in DOMAIN r
      <4>1. PICK q : q = OutOfOrder(s)  OBVIOUS
      <4>2. q \in RcvRec /\ q.rxExpect = s.rxExpect
        BY <1>15, <4>1 DEF OutOfOrder, RcvRec
      <4>3. /\ IsTable(rcv', RcvRec) /\ DOMAIN rcv' = DOMAIN r /\ rcv'[f.id] = q
            /\ \A j \in DOMAIN r : j # f.id => rcv'[j] = r[j]
        BY <1>12, <2>4, <3>2, <4>1, <4>2, ChangeEntry
      <4> QED BY <1>12, <1>14, <1>15, <2>4, <3>1, <3>2, <4>2, <4>3
    <3>3. CASE f.id \notin DOMAIN r
      <4>1. rcv' = r  BY <1>12, <2>4, <3>3 DEF IsTable
      <4> QED BY <1>12, <1>14, <2>4, <3>1, <4>1
    <3> QED BY <3>2, <3>3
  <2> QED BY <1>5, <2>1, <2>2, <2>3, <2>4, <2>5
<1>17. TablesOK'
  BY <1>4, <1>7, <1>8, <1>12, <1>16 DEF TablesOK, SessInv, IsTable, Boots
<1>18. SndTaken'
  <2>1. SUFFICES ASSUME NEW id \in DOMAIN snd
                 PROVE  GivenUpTo(got', <<boot[O], id>>, snd[id].txAcked)
    BY <1>4, <1>7, <1>8 DEF SndTaken
  <2>2. id \in Ids /\ boot[O] \in Boots /\ snd[id] \in SndRec
    BY <1>0 DEF EndInv, EndsOK, SessInv, TablesOK, IsTable
  <2>3. GivenUpTo(got, <<boot[O], id>>, snd[id].txAcked) /\ snd[id].txAcked \in Nat
    BY <2>2 DEF SessInv, SndTaken, SndRec
  <2> QED BY <1>16, <2>2, <2>3 DEF Grows
<1>19. RcvTaken'  BY <1>8, <1>11, <1>16 DEF RcvTaken
<1>20. TombTaken'
  <2>1. SUFFICES ASSUME NEW id \in DOMAIN t  PROVE GivenUpTo(got', <<b, id>>, t[id].expect)
    BY <1>8, <1>11, <1>12 DEF TombTaken
  <2>2. id \in Ids /\ t[id].expect \in Nat  BY <1>12 DEF IsTable, TombRec
  <2> QED BY <1>11, <1>12, <1>16, <2>2 DEF Grows
<1>21. \A h \in Frames' : Said(w, h)'
  <2>1. ASSUME NEW g \in N  PROVE Said(w, g)'
    <3>1. CASE g.t = "RESET"  BY <3>1 DEF Said
    <3>2. CASE g.t = "ACK"
      <4>1. g.id = f.id /\ g.key = f.key  BY <1>9, <3>2
      <4>3. g.cum \in Nat /\ GivenUpTo(got', <<b, f.id>>, g.cum)
        <5>1. CASE f.id \in DOMAIN t /\ g.cum = t[f.id].expect
          BY <1>4, <1>8, <1>12, <1>20, <5>1 DEF TombTaken, IsTable, TombRec
        <5>2. CASE Gives /\ g.cum = f.seq + 1
          BY <1>11, <1>22, <5>2
        <5> QED BY <1>9, <3>2, <5>1, <5>2
      <4>4. w[OpenersNonce(g.key)'] = b  BY <1>7, <1>11, <4>1, SameJob
      <4> QED BY <1>8, <1>11, <3>2, <4>1, <4>3, <4>4 DEF Said
    <3> QED BY <1>9, <3>1, <3>2
  <2> QED BY <1>0, <1>7, <1>9, <1>16, <1>17, <2>1, SaidStays
<1> QED BY <1>10, <1>17, <1>18, <1>19, <1>20, <1>21 DEF SessInv

-----------------------------------------------------------------------------
(* What a session does of itself                                           *)

\* A step of a session that is no hearing: the ends are as they were, nothing is
\* given, and what is sent is under the key of the end that sends it.
LEMMA SessionKeeps ==
  ASSUME KeyInv, NEW w, EndInv(w), SessInv(w),
         UNCHANGED <<job, boot, epoch, key, pend, used, np, ackUsed, nonce, state, got>>,
         next' \in Ids, IsTable(snd', SndRec), IsTable(rcv', RcvRec),
         tombs' = [d \in Ends |-> tombs'[d]], \A d \in Ends : IsTable(tombs'[d], TombRec),
         \A id \in DOMAIN snd' : GivenUpTo(got, <<boot[O], id>>, snd'[id].txAcked),
         \A id \in DOMAIN rcv' : epoch[A] # 0 /\ GivenUpTo(got, <<epoch[A], id>>, rcv'[id].rxExpect),
         \A id \in DOMAIN tombs'[A] :
           epoch[A] # 0 /\ GivenUpTo(got, <<epoch[A], id>>, tombs'[A][id].expect),
         NEW e \in Ends, NEW N, Carries(e, N),
         \A f \in N : ~Clear(f) /\ f.t # "PONG" /\ Seals(e) /\ f.key = key[e] /\ Said(w, f)
  PROVE  EndInv(w)' /\ SessInv(w)'
<1>1. EndInv(w)'  BY EndsAside DEF EndVars
<1>2. O' = O /\ A' = A /\ Ids' = Ids /\ \A k : OpenersNonce(k)' = OpenersNonce(k)  BY SameJob
<1>3. TablesOK'  BY <1>2 DEF TablesOK, SessInv, IsTable, Boots
<1>4. SndTaken' /\ RcvTaken' /\ TombTaken'  BY <1>2 DEF SndTaken, RcvTaken, TombTaken
<1>5. \A f \in N : Said(w, f)'  BY <1>2 DEF Said
<1>6. \A f \in Frames' : Said(w, f)'  BY <1>3, <1>5, SameGot, SaidStays DEF SessInv
<1> QED BY <1>1, <1>3, <1>4, <1>6 DEF SessInv

\* Nothing moves on the air.
LEMMA StillAir ==
  ASSUME air' = air, NEW e
  PROVE  Carries(e, {})
BY DEF Carries, OnAir

\* The tables as they are meet what SessionKeeps asks of them.
LEMMA TablesNow ==
  ASSUME NEW w, SessInv(w)
  PROVE  /\ next \in Ids /\ IsTable(snd, SndRec) /\ IsTable(rcv, RcvRec)
         /\ tombs = [d \in Ends |-> tombs[d]] /\ \A d \in Ends : IsTable(tombs[d], TombRec)
         /\ \A id \in DOMAIN snd : GivenUpTo(got, <<boot[O], id>>, snd[id].txAcked)
         /\ \A id \in DOMAIN rcv : epoch[A] # 0 /\ GivenUpTo(got, <<epoch[A], id>>, rcv[id].rxExpect)
         /\ \A id \in DOMAIN tombs[A] :
              epoch[A] # 0 /\ GivenUpTo(got, <<epoch[A], id>>, tombs[A][id].expect)
BY DEF SessInv, TablesOK, SndTaken, RcvTaken, TombTaken

\* A new session has nothing acknowledged.
LEMMA OpenKeeps ==
  ASSUME KeyInv, NEW w, EndInv(w), SessInv(w), Open
  PROVE  EndInv(w)' /\ SessInv(w)'
<1>1. /\ snd' = With(snd, next, NewSnd) /\ next' = After(next) /\ next \notin DOMAIN snd
      /\ UNCHANGED <<job, boot, nonce, state, air, got, rcv, tombs, epoch, key, pend, used, np, ackUsed>>
  BY DEF Open, keyVars, peerVars
<1>2. PICK r : r = NewSnd  OBVIOUS
<1>3. r \in SndRec /\ r.txAcked = 0  BY <1>2 DEF NewSnd, SndRec
<1>4. next \in Ids /\ job.opens \in Nat  BY DEF SessInv, TablesOK
<1>5. After(next) \in Ids
  <2>1. 1 \in Ids /\ \A j \in Ids : 1 <= j  BY <1>4 DEF Ids
  <2> QED BY <2>1 DEF After
<1>6. IsTable(snd', SndRec)  BY <1>1, <1>2, <1>3, <1>4, TablesNow, PutEntry
<1>7. ASSUME NEW id \in DOMAIN snd'  PROVE GivenUpTo(got, <<boot[O], id>>, snd'[id].txAcked)
  <2>1. CASE id \in DOMAIN snd /\ id # next
    <3>1. snd'[id] = snd[id]  BY <1>1, <2>1 DEF With
    <3> QED BY <2>1, <3>1, TablesNow
  <2>2. CASE id = next
    <3>1. snd'[id] = r  BY <1>1, <1>2, <2>2 DEF With
    <3> QED BY <1>3, <3>1, NothingYet
  <2> QED BY <1>1, <2>1, <2>2 DEF With
<1>8. Carries(Host, {})  BY <1>1, StillAir
<1> QED BY <1>1, <1>5, <1>6, <1>7, <1>8, TablesNow, SessionKeeps, TwoEnds

\* An opener's entry that changes, but not in what it says is acknowledged.
LEMMA SndChanges ==
  ASSUME NEW w, SessInv(w), NEW id \in DOMAIN snd, NEW r \in SndRec,
         r.txAcked = snd[id].txAcked, snd' = [snd EXCEPT ![id] = r]
  PROVE  /\ IsTable(snd', SndRec)
         /\ \A j \in DOMAIN snd' : GivenUpTo(got, <<boot[O], j>>, snd'[j].txAcked)
<1>1. IsTable(snd, SndRec)  BY TablesNow
<1>2. /\ IsTable(snd', SndRec) /\ DOMAIN snd' = DOMAIN snd /\ snd'[id] = r
      /\ \A j \in DOMAIN snd : j # id => snd'[j] = snd[j]
  BY <1>1, ChangeEntry
<1>3. \A j \in DOMAIN snd : GivenUpTo(got, <<boot[O], j>>, snd[j].txAcked)  BY TablesNow
<1> QED BY <1>2, <1>3

\* A step of the opener's on its own sessions, with at most one frame sent.
LEMMA SendKeeps ==
  ASSUME KeyInv, NEW w, EndInv(w), SessInv(w),
         IsTable(snd', SndRec), \A j \in DOMAIN snd' : GivenUpTo(got, <<boot[O], j>>, snd'[j].txAcked),
         UNCHANGED <<job, boot, epoch, key, pend, used, np, ackUsed, nonce, state, got, next, rcv, tombs>>,
         \/ air' = air
         \/ \E f : /\ Put(O, <<f>>) /\ ~Clear(f) /\ f.t # "PONG"
                   /\ Seals(O) /\ f.key = key[O] /\ Said(w, f)
  PROVE  EndInv(w)' /\ SessInv(w)'
<1>1. O \in Ends  BY EndsOfTheJob
<1>2. PICK N : /\ Carries(O, N)
               /\ \A f \in N : ~Clear(f) /\ f.t # "PONG" /\ Seals(O) /\ f.key = key[O] /\ Said(w, f)
  <2>1. CASE air' = air
    <3>1. Carries(O, {})  BY <2>1, StillAir
    <3> QED BY <3>1
  <2>2. ASSUME NEW f, Put(O, <<f>>), ~Clear(f) /\ f.t # "PONG" /\ Seals(O) /\ f.key = key[O] /\ Said(w, f)
        PROVE  \E N : /\ Carries(O, N)
                      /\ \A g \in N : ~Clear(g) /\ g.t # "PONG" /\ Seals(O) /\ g.key = key[O] /\ Said(w, g)
    <3>1. Carries(O, {f})  BY <1>1, <2>2, PutCarries DEF KeyInv
    <3> QED BY <2>2, <3>1
  <2> QED BY <2>1, <2>2
<1>3. next \in Ids /\ IsTable(rcv, RcvRec) /\ tombs = [d \in Ends |-> tombs[d]]
      /\ \A d \in Ends : IsTable(tombs[d], TombRec)
  BY TablesNow
<1>4. /\ \A id \in DOMAIN rcv : epoch[A] # 0 /\ GivenUpTo(got, <<epoch[A], id>>, rcv[id].rxExpect)
      /\ \A id \in DOMAIN tombs[A] :
           epoch[A] # 0 /\ GivenUpTo(got, <<epoch[A], id>>, tombs[A][id].expect)
  BY TablesNow
<1> QED BY <1>1, <1>2, <1>3, <1>4, SessionKeeps

\* An entry of the opener's is one field by field.
LEMMA SndByField ==
  ASSUME NEW s \in SndRec, NEW q, q = [x \in DOMAIN s |-> q[x]],
         q.txSeq \in Nat, q.txAcked \in Nat, q.sent \in Nat, q.tries \in Nat,
         q.heard \in BOOLEAN, q.blocked \in BOOLEAN, q.closing \in BOOLEAN
  PROVE  q \in SndRec
<1>1. DOMAIN s = {"txSeq", "txAcked", "sent", "tries", "heard", "blocked", "closing"}
  BY DEF SndRec
<1>2. q = [txSeq |-> q.txSeq, txAcked |-> q.txAcked, sent |-> q.sent, tries |-> q.tries,
           heard |-> q.heard, blocked |-> q.blocked, closing |-> q.closing]
  BY <1>1
<1> QED BY <1>2 DEF SndRec

\* The owner gives a message to be sent.
LEMMA SendStep ==
  ASSUME KeyInv, NEW w, EndInv(w), SessInv(w), NEW id \in Ids, NEW last \in BOOLEAN, Send(id, last)
  PROVE  EndInv(w)' /\ SessInv(w)'
<1>1. /\ id \in DOMAIN snd
      /\ snd' = [snd EXCEPT ![id].txSeq = @ + 1, ![id].closing = last]
      /\ UNCHANGED <<job, boot, epoch, key, pend, used, np, ackUsed, nonce, state, got, next, rcv, tombs, air>>
  BY DEF Send, keyVars, peerVars
<1>2. PICK s : s = snd[id]  OBVIOUS
<1>3. s \in SndRec  BY <1>1, <1>2, TablesNow DEF IsTable
<1>4. PICK r : r = [s EXCEPT !.txSeq = @ + 1, !.closing = last]  OBVIOUS
<1>5. r \in SndRec /\ r.txAcked = s.txAcked
  <2>1. /\ r.txSeq = s.txSeq + 1 /\ r.txAcked = s.txAcked /\ r.sent = s.sent /\ r.tries = s.tries
        /\ r.heard = s.heard /\ r.blocked = s.blocked /\ r.closing = last
    BY <1>3, <1>4 DEF SndRec
  <2>2. r = [x \in DOMAIN s |-> r[x]]  BY <1>4
  <2>3. /\ s.txSeq \in Nat /\ s.txAcked \in Nat /\ s.sent \in Nat /\ s.tries \in Nat
        /\ s.heard \in BOOLEAN /\ s.blocked \in BOOLEAN
    BY <1>3 DEF SndRec
  <2> QED BY <1>3, <2>1, <2>2, <2>3, SndByField
<1>6. snd' = [snd EXCEPT ![id] = r] /\ r.txAcked = snd[id].txAcked  BY <1>1, <1>2, <1>4, <1>5
<1>7. IsTable(snd', SndRec) /\ \A j \in DOMAIN snd' : GivenUpTo(got, <<boot[O], j>>, snd'[j].txAcked)
  <2>1. id \in DOMAIN snd  BY <1>1
  <2> QED BY <1>5, <1>6, <2>1, SndChanges
<1>8. UNCHANGED <<job, boot, epoch, key, pend, used, np, ackUsed, nonce, state, got, next, rcv, tombs, air>>
  BY <1>1
<1> QED BY <1>7, <1>8, SendKeeps

\* What a message on the air says: it is of the boot the opener's key means.
LEMMA DataSaid ==
  ASSUME KeyInv, NEW w, EndInv(w), Seals(O), NEW id \in Ids, NEW seq \in Nat,
         NEW f, f = Data(id, seq)
  PROVE  ~Clear(f) /\ f.t = "DATA" /\ f.key = key[O] /\ Said(w, f)
BY KeyMeans DEF Data, Clear, Said, Seals

\* A message goes for the first time.
LEMMA TransmitStep ==
  ASSUME KeyInv, NEW w, EndInv(w), SessInv(w), NEW id \in Ids, Transmit(id)
  PROVE  EndInv(w)' /\ SessInv(w)'
<1>1. PICK s : s = snd[id]  OBVIOUS
<1>2. /\ id \in DOMAIN snd /\ Seals(O)
      /\ snd' = [snd EXCEPT ![id].sent = @ + 1, ![id].heard = @ /\ s.sent # s.txAcked]
      /\ Put(O, <<Data(id, s.sent)>>)
      /\ UNCHANGED <<job, boot, epoch, key, pend, used, np, ackUsed, nonce, state, got, next, rcv, tombs>>
  BY <1>1 DEF Transmit, keyVars, peerVars
<1>3. s \in SndRec  BY <1>1, <1>2, TablesNow DEF IsTable
<1>4. PICK r : r = [s EXCEPT !.sent = @ + 1, !.heard = @ /\ s.sent # s.txAcked]  OBVIOUS
<1>5. r \in SndRec /\ r.txAcked = s.txAcked
  <2>1. /\ r.txSeq = s.txSeq /\ r.txAcked = s.txAcked /\ r.sent = s.sent + 1 /\ r.tries = s.tries
        /\ r.blocked = s.blocked /\ r.closing = s.closing /\ r.heard \in BOOLEAN
    BY <1>3, <1>4 DEF SndRec
  <2>2. r = [x \in DOMAIN s |-> r[x]]  BY <1>4
  <2>3. /\ s.txSeq \in Nat /\ s.txAcked \in Nat /\ s.sent \in Nat /\ s.tries \in Nat
        /\ s.blocked \in BOOLEAN /\ s.closing \in BOOLEAN
    BY <1>3 DEF SndRec
  <2> QED BY <1>3, <2>1, <2>2, <2>3, SndByField
<1>6. snd' = [snd EXCEPT ![id] = r] /\ r.txAcked = snd[id].txAcked  BY <1>1, <1>2, <1>4, <1>5
<1>7. PICK f : f = Data(id, s.sent)  OBVIOUS
<1>8. s.sent \in Nat  BY <1>3 DEF SndRec
<1>9. ~Clear(f) /\ f.t = "DATA" /\ f.key = key[O] /\ Said(w, f)  BY <1>2, <1>7, <1>8, DataSaid
<1>10. IsTable(snd', SndRec) /\ \A j \in DOMAIN snd' : GivenUpTo(got, <<boot[O], j>>, snd'[j].txAcked)
  <2>1. id \in DOMAIN snd  BY <1>2
  <2> QED BY <1>5, <1>6, <2>1, SndChanges
<1>11. Put(O, <<f>>) /\ Seals(O) /\ f.t # "PONG"  BY <1>2, <1>7, <1>9
<1>12. UNCHANGED <<job, boot, epoch, key, pend, used, np, ackUsed, nonce, state, got, next, rcv, tombs>>
  BY <1>2
<1> QED BY <1>9, <1>10, <1>11, <1>12, SendKeeps

\* A message goes again, or its session is given up.
LEMMA RetransmitStep ==
  ASSUME KeyInv, NEW w, EndInv(w), SessInv(w), NEW id \in Ids, NEW seq \in Nat, Retransmit(id, seq)
  PROVE  EndInv(w)' /\ SessInv(w)'
<1>1. PICK s : s = snd[id]  OBVIOUS
<1>2. /\ id \in DOMAIN snd /\ Seals(O)
      /\ UNCHANGED <<job, boot, epoch, key, pend, used, np, ackUsed, nonce, state, got, next, rcv, tombs>>
  BY DEF Retransmit, keyVars, peerVars
<1>3. \/ snd' = Without(snd, id) /\ Put(O, Told(O, id))
      \/ /\ snd' = [snd EXCEPT ![id].tries = IF Counted(s, seq) THEN @ + 1 ELSE @,
                               ![id].heard = @ /\ seq # s.txAcked]
         /\ Put(O, <<Data(id, seq)>>)
  BY <1>1 DEF Retransmit
<1>4. s \in SndRec  BY <1>1, <1>2, TablesNow DEF IsTable
<1>5. CASE snd' = Without(snd, id) /\ Put(O, Told(O, id))
  <2>1. IsTable(snd', SndRec)  BY <1>5, TablesNow, DropEntry
  <2>2. \A j \in DOMAIN snd' : j \in DOMAIN snd /\ snd'[j] = snd[j]
    BY <1>5 DEF Without, Restrict
  <2>3. PICK f : f = Reset(key[O], id)  OBVIOUS
  <2>4. Carries(O, {f})
    BY <1>2, <1>5, <2>3, EndsOfTheJob, PutCarries DEF Told, KeyInv
  <2>5. ~Clear(f) /\ f.t = "RESET" /\ f.key = key[O]  BY <2>3 DEF Reset, Clear
  <2>6. Said(w, f)  BY <2>5 DEF Said
  <2>7. \A j \in DOMAIN snd' : GivenUpTo(got, <<boot[O], j>>, snd'[j].txAcked)
    BY <2>2, TablesNow
  <2> QED BY <1>2, <2>1, <2>4, <2>5, <2>6, <2>7, TablesNow, EndsOfTheJob, SessionKeeps
<1>6. CASE /\ snd' = [snd EXCEPT ![id].tries = IF Counted(s, seq) THEN @ + 1 ELSE @,
                                 ![id].heard = @ /\ seq # s.txAcked]
           /\ Put(O, <<Data(id, seq)>>)
  <2>1. PICK r : r = [s EXCEPT !.tries = IF Counted(s, seq) THEN @ + 1 ELSE @,
                               !.heard = @ /\ seq # s.txAcked]
    OBVIOUS
  <2>2. /\ s.txSeq \in Nat /\ s.txAcked \in Nat /\ s.sent \in Nat /\ s.tries \in Nat
        /\ s.blocked \in BOOLEAN /\ s.closing \in BOOLEAN
    BY <1>4 DEF SndRec
  <2>3. /\ r.txSeq = s.txSeq /\ r.txAcked = s.txAcked /\ r.sent = s.sent
        /\ r.tries \in {s.tries, s.tries + 1}
        /\ r.blocked = s.blocked /\ r.closing = s.closing /\ r.heard \in BOOLEAN
    BY <1>4, <2>1 DEF SndRec
  <2>4. r = [x \in DOMAIN s |-> r[x]]  BY <2>1
  <2>5. r.tries \in Nat  BY <2>2, <2>3
  <2>6. r \in SndRec  BY <1>4, <2>2, <2>3, <2>4, <2>5, SndByField
  <2>7. snd' = [snd EXCEPT ![id] = r] /\ r.txAcked = snd[id].txAcked
    BY <1>1, <1>2, <1>6, <2>1, <2>3
  <2>8. PICK f : f = Data(id, seq)  OBVIOUS
  <2>9. ~Clear(f) /\ f.t = "DATA" /\ f.key = key[O] /\ Said(w, f)  BY <1>2, <2>8, DataSaid
  <2>10. IsTable(snd', SndRec) /\ \A j \in DOMAIN snd' : GivenUpTo(got, <<boot[O], j>>, snd'[j].txAcked)
    <3>1. id \in DOMAIN snd  BY <1>2
    <3> QED BY <2>6, <2>7, <3>1, SndChanges
  <2>11. Put(O, <<f>>) /\ f.t # "PONG"  BY <1>6, <2>8, <2>9
  <2> QED BY <1>2, <2>9, <2>10, <2>11, SendKeeps
<1> QED BY <1>3, <1>5, <1>6

\* What the other end says it has taken is what was given in the boot it means.
LEMMA SendAckStep ==
  ASSUME KeyInv, NEW w, EndInv(w), SessInv(w), NEW id \in Ids, SendAck(id)
  PROVE  EndInv(w)' /\ SessInv(w)'
<1>1. /\ id \in DOMAIN rcv /\ Seals(A)
      /\ rcv' = [rcv EXCEPT ![id].ackDue = FALSE]
      /\ Put(A, <<Ack(key[A], id, rcv[id].rxExpect, IF rcv[id].refusing THEN 0 ELSE kStreamWin)>>)
      /\ UNCHANGED <<job, boot, epoch, key, pend, used, np, ackUsed, nonce, state, got, next, snd, tombs>>
  BY DEF SendAck, keyVars, peerVars
<1>2. rcv[id] \in RcvRec  BY <1>1, TablesNow DEF IsTable
<1>3. PICK r : r = [rcv[id] EXCEPT !.ackDue = FALSE]  OBVIOUS
<1>4. r \in RcvRec /\ r.rxExpect = rcv[id].rxExpect  BY <1>2, <1>3 DEF RcvRec
<1>5. rcv' = [rcv EXCEPT ![id] = r]  BY <1>1, <1>3
<1>6. /\ IsTable(rcv', RcvRec) /\ DOMAIN rcv' = DOMAIN rcv /\ rcv'[id] = r
      /\ \A j \in DOMAIN rcv : j # id => rcv'[j] = rcv[j]
  <2>1. IsTable(rcv, RcvRec)  BY TablesNow
  <2>2. id \in DOMAIN rcv  BY <1>1
  <2> QED BY <1>4, <1>5, <2>1, <2>2, ChangeEntry
<1>7. \A j \in DOMAIN rcv' : epoch[A] # 0 /\ GivenUpTo(got, <<epoch[A], j>>, rcv'[j].rxExpect)
  BY <1>1, <1>4, <1>6, TablesNow
<1>8. PICK f : f = Ack(key[A], id, rcv[id].rxExpect, IF rcv[id].refusing THEN 0 ELSE kStreamWin)
  OBVIOUS
<1>9. /\ ~Clear(f) /\ f.t = "ACK" /\ f.key = key[A] /\ f.id = id /\ f.cum = rcv[id].rxExpect
  BY <1>8 DEF Ack, Clear
<1>10. Said(w, f)
  <2>1. w[OpenersNonce(f.key)] = epoch[A]  BY <1>1, <1>9, KeyMeans DEF Seals
  <2>2. f.cum \in Nat  BY <1>2, <1>9 DEF RcvRec
  <2> QED BY <1>1, <1>9, <2>1, <2>2, TablesNow DEF Said
<1>11. Carries(A, {f})  BY <1>1, <1>8, EndsOfTheJob, PutCarries DEF KeyInv
<1>12. \A g \in {f} : ~Clear(g) /\ g.t # "PONG" /\ Seals(A) /\ g.key = key[A] /\ Said(w, g)
  BY <1>1, <1>9, <1>10
<1>13. UNCHANGED <<job, boot, epoch, key, pend, used, np, ackUsed, nonce, state, got, next, snd, tombs>>
  BY <1>1
<1>14. A \in Ends /\ IsTable(rcv', RcvRec)  BY <1>6, EndsOfTheJob
<1>15. /\ next \in Ids /\ IsTable(snd, SndRec) /\ tombs = [d \in Ends |-> tombs[d]]
       /\ \A d \in Ends : IsTable(tombs[d], TombRec)
       /\ \A j \in DOMAIN snd : GivenUpTo(got, <<boot[O], j>>, snd[j].txAcked)
       /\ \A j \in DOMAIN tombs[A] :
            epoch[A] # 0 /\ GivenUpTo(got, <<epoch[A], j>>, tombs[A][j].expect)
  BY TablesNow
<1> QED BY <1>7, <1>11, <1>12, <1>13, <1>14, <1>15, SessionKeeps

\* The tombstones once the oldest has made way for one more.
LEMMA WayMade ==
  ASSUME NEW t, IsTable(t, TombRec), NEW id \in Ids, NEW n \in Nat
  PROVE  /\ IsTable(MakeWay(t), TombRec)
         /\ \A j \in DOMAIN MakeWay(t) : j \in DOMAIN t /\ MakeWay(t)[j] = t[j]
         /\ [expect |-> n, told |-> FALSE, older |-> DOMAIN MakeWay(t)] \in TombRec
<1>1. IsTable(MakeWay(t), TombRec) /\ \A j \in DOMAIN MakeWay(t) : j \in DOMAIN t /\ MakeWay(t)[j] = t[j]
  <2>1. CASE MakeWay(t) = t  BY <2>1
  <2>2. CASE MakeWay(t) = Without(t, Oldest(t))
    <3>1. IsTable(Without(t, Oldest(t)), TombRec)  BY DropEntry
    <3>2. \A j \in DOMAIN MakeWay(t) : j \in DOMAIN t /\ MakeWay(t)[j] = t[j]
      BY <2>2 DEF Without, Restrict
    <3> QED BY <2>2, <3>1, <3>2
  <2> QED BY <2>1, <2>2 DEF MakeWay
<1>2. DOMAIN MakeWay(t) \in SUBSET Nat  BY <1>1 DEF IsTable, Ids
<1> QED BY <1>1, <1>2 DEF TombRec

\* A session that is closing goes, and leaves a tombstone that says what was taken of it.
LEMMA DropStep ==
  ASSUME KeyInv, NEW w, EndInv(w), SessInv(w), NEW id \in Ids, DropClosed(id)
  PROVE  EndInv(w)' /\ SessInv(w)'
<1>1. UNCHANGED <<job, boot, epoch, key, pend, used, np, ackUsed, nonce, state, got, next, air>>
  BY DEF DropClosed, keyVars, peerVars
<1>2. O \in Ends /\ A \in Ends /\ A # O  BY EndsOfTheJob, TwoEnds DEF A
<1>3. Carries(A, {})  BY <1>1, StillAir
<1>4. /\ next \in Ids /\ IsTable(snd, SndRec) /\ IsTable(rcv, RcvRec)
      /\ tombs = [d \in Ends |-> tombs[d]] /\ \A d \in Ends : IsTable(tombs[d], TombRec)
      /\ \A j \in DOMAIN snd : GivenUpTo(got, <<boot[O], j>>, snd[j].txAcked)
      /\ \A j \in DOMAIN rcv : epoch[A] # 0 /\ GivenUpTo(got, <<epoch[A], j>>, rcv[j].rxExpect)
  BY TablesNow
<1>5. \A j \in DOMAIN tombs[A] : epoch[A] # 0 /\ GivenUpTo(got, <<epoch[A], j>>, tombs[A][j].expect)
  BY TablesNow
<1>6. CASE id \in DOMAIN snd /\ Bury(O, id, 0) /\ snd' = Without(snd, id) /\ UNCHANGED rcv
  <2>1. PICK g : g = MakeWay(tombs[O])  OBVIOUS
  <2>2. PICK r : r = [expect |-> 0, told |-> FALSE, older |-> DOMAIN g]  OBVIOUS
  <2>3. IsTable(g, TombRec) /\ r \in TombRec  BY <1>2, <1>4, <2>1, <2>2, WayMade
  <2>9. IsTable(With(g, id, r), TombRec)  BY <2>3, PutEntry
  <2>4. tombs' = [tombs EXCEPT ![O] = With(g, id, r)]  BY <1>6, <2>1, <2>2 DEF Bury
  <2>5. tombs'[A] = tombs[A] /\ tombs' = [d \in Ends |-> tombs'[d]]
        /\ \A d \in Ends : IsTable(tombs'[d], TombRec)
    BY <1>2, <1>4, <2>4, <2>9
  <2>6. IsTable(snd', SndRec)  BY <1>4, <1>6, DropEntry
  <2>7. \A j \in DOMAIN snd' : j \in DOMAIN snd /\ snd'[j] = snd[j]
    BY <1>6 DEF Without, Restrict
  <2>8. \A j \in DOMAIN snd' : GivenUpTo(got, <<boot[O], j>>, snd'[j].txAcked)  BY <1>4, <2>7
  <2> QED BY <1>1, <1>2, <1>3, <1>4, <1>5, <1>6, <2>5, <2>6, <2>8, SessionKeeps
<1>7. CASE /\ id \in DOMAIN rcv /\ Bury(A, id, rcv[id].rxExpect)
           /\ rcv' = Without(rcv, id) /\ UNCHANGED snd
  <2>1. PICK g : g = MakeWay(tombs[A])  OBVIOUS
  <2>2. rcv[id] \in RcvRec  BY <1>4, <1>7 DEF IsTable
  <2>3. rcv[id].rxExpect \in Nat  BY <2>2 DEF RcvRec
  <2>14. PICK r : r = [expect |-> rcv[id].rxExpect, told |-> FALSE, older |-> DOMAIN g]  OBVIOUS
  <2>4. /\ r \in TombRec /\ r.expect = rcv[id].rxExpect /\ IsTable(g, TombRec)
        /\ \A j \in DOMAIN g : j \in DOMAIN tombs[A] /\ g[j] = tombs[A][j]
    BY <1>2, <1>4, <2>1, <2>3, <2>14, WayMade
  <2>5. PICK t : t = With(g, id, r)  OBVIOUS
  <2>6. /\ IsTable(t, TombRec) /\ DOMAIN t = DOMAIN g \cup {id} /\ t[id] = r
        /\ \A j \in DOMAIN g : j # id => t[j] = tombs[A][j]
    <3>2. IsTable(t, TombRec)  BY <2>4, <2>5, PutEntry
    <3> QED BY <2>4, <2>5, <3>2 DEF With
  <2>7. tombs' = [tombs EXCEPT ![A] = t]  BY <1>7, <2>1, <2>5, <2>14 DEF Bury
  <2>8. tombs'[A] = t /\ tombs' = [d \in Ends |-> tombs'[d]]
        /\ \A d \in Ends : IsTable(tombs'[d], TombRec)
    BY <1>2, <1>4, <2>6, <2>7
  <2>9. \A j \in DOMAIN t : epoch[A] # 0 /\ GivenUpTo(got, <<epoch[A], j>>, t[j].expect)
    BY <1>4, <1>5, <1>7, <2>4, <2>6
  <2>10. IsTable(rcv', RcvRec)  BY <1>4, <1>7, DropEntry
  <2>11. \A j \in DOMAIN rcv' : j \in DOMAIN rcv /\ rcv'[j] = rcv[j]
    BY <1>7 DEF Without, Restrict
  <2>12. \A j \in DOMAIN rcv' : epoch[A] # 0 /\ GivenUpTo(got, <<epoch[A], j>>, rcv'[j].rxExpect)
    BY <1>4, <2>11
  <2>13. \A j \in DOMAIN tombs'[A] : epoch[A] # 0 /\ GivenUpTo(got, <<epoch[A], j>>, tombs'[A][j].expect)
    BY <2>8, <2>9
  <2> QED BY <1>1, <1>2, <1>3, <1>4, <1>7, <2>8, <2>10, <2>12, <2>13, SessionKeeps
<1> QED BY <1>6, <1>7 DEF DropClosed

\* A step that changes an end's tombstones, but no entry in what it says was taken.
LEMMA TombsKeep ==
  ASSUME KeyInv, NEW w, EndInv(w), SessInv(w), NEW e \in Ends, IsTable(tombs'[e], TombRec),
         tombs' = [tombs EXCEPT ![e] = tombs'[e]],
         \A j \in DOMAIN tombs'[e] : j \in DOMAIN tombs[e] /\ tombs'[e][j].expect = tombs[e][j].expect,
         UNCHANGED <<job, boot, epoch, key, pend, used, np, ackUsed, nonce, state, got, next, snd, rcv>>,
         NEW N, Carries(e, N),
         \A f \in N : f.t = "RESET" /\ Seals(e) /\ f.key = key[e]
  PROVE  EndInv(w)' /\ SessInv(w)'
<1>1. A \in Ends  BY EndsOfTheJob
<1>2. /\ next \in Ids /\ IsTable(snd, SndRec) /\ IsTable(rcv, RcvRec)
      /\ tombs = [d \in Ends |-> tombs[d]] /\ \A d \in Ends : IsTable(tombs[d], TombRec)
      /\ \A j \in DOMAIN snd : GivenUpTo(got, <<boot[O], j>>, snd[j].txAcked)
      /\ \A j \in DOMAIN rcv : epoch[A] # 0 /\ GivenUpTo(got, <<epoch[A], j>>, rcv[j].rxExpect)
  BY TablesNow
<1>3. \A j \in DOMAIN tombs[A] : epoch[A] # 0 /\ GivenUpTo(got, <<epoch[A], j>>, tombs[A][j].expect)
  BY TablesNow
<1>4. tombs' = [d \in Ends |-> tombs'[d]] /\ \A d \in Ends : IsTable(tombs'[d], TombRec)
  BY <1>2
<1>5. \A j \in DOMAIN tombs'[A] : epoch[A] # 0 /\ GivenUpTo(got, <<epoch[A], j>>, tombs'[A][j].expect)
  <2>1. CASE A = e
    BY <1>3, <2>1
  <2>2. CASE A # e
    <3>1. tombs'[A] = tombs[A]  BY <1>1, <1>2, <2>2
    <3> QED BY <1>3, <3>1
  <2> QED BY <2>1, <2>2
<1>6. \A f \in N : ~Clear(f) /\ f.t # "PONG" /\ Seals(e) /\ f.key = key[e] /\ Said(w, f)
  BY DEF Clear, Said
<1> QED BY <1>2, <1>4, <1>5, <1>6, SessionKeeps

\* The other end is told of a session that is closed here.
LEMMA TellStep ==
  ASSUME KeyInv, NEW w, EndInv(w), SessInv(w), NEW e \in Ends, NEW id \in Ids, TellClosed(e, id)
  PROVE  EndInv(w)' /\ SessInv(w)'
<1>1. /\ id \in DOMAIN tombs[e] /\ Put(e, Told(e, id))
      /\ tombs' = [tombs EXCEPT ![e][id].told = TRUE]
  BY DEF TellClosed
<1>2. UNCHANGED <<job, boot, epoch, key, pend, used, np, ackUsed, nonce, state, got, next, snd, rcv>>
  BY DEF TellClosed, keyVars, peerVars
<1>3. IsTable(tombs[e], TombRec) /\ tombs = [d \in Ends |-> tombs[d]]  BY TablesNow
<1>4. PICK r : r = [tombs[e][id] EXCEPT !.told = TRUE]  OBVIOUS
<1>5. tombs[e][id] \in TombRec  BY <1>1, <1>3 DEF IsTable
<1>6. r \in TombRec /\ r.expect = tombs[e][id].expect  BY <1>4, <1>5 DEF TombRec
<1>7. PICK t : t = [tombs[e] EXCEPT ![id] = r]  OBVIOUS
<1>8. tombs' = [tombs EXCEPT ![e] = t]  BY <1>1, <1>4, <1>7
<1>9. /\ IsTable(t, TombRec) /\ DOMAIN t = DOMAIN tombs[e] /\ t[id] = r
      /\ \A j \in DOMAIN tombs[e] : j # id => t[j] = tombs[e][j]
  BY <1>1, <1>3, <1>6, <1>7, ChangeEntry
<1>10. tombs'[e] = t /\ tombs' = [tombs EXCEPT ![e] = tombs'[e]]  BY <1>3, <1>8
<1>13. IsTable(tombs'[e], TombRec)  BY <1>9, <1>10
<1>14. \A j \in DOMAIN tombs'[e] : j \in DOMAIN tombs[e] /\ tombs'[e][j].expect = tombs[e][j].expect
  BY <1>6, <1>9, <1>10
<1>11. CASE Seals(e)
  <2>1. PICK f : f = Reset(key[e], id)  OBVIOUS
  <2>2. Put(e, <<f>>)  BY <1>1, <1>11, <2>1 DEF Told
  <2>3. Carries(e, {f})  BY <2>2, PutCarries DEF KeyInv
  <2>4. \A g \in {f} : g.t = "RESET" /\ Seals(e) /\ g.key = key[e]  BY <1>11, <2>1 DEF Reset
  <2> QED BY <1>2, <1>10, <1>13, <1>14, <2>3, <2>4, TombsKeep
<1>12. CASE ~Seals(e)
  <2>1. Put(e, <<>>)  BY <1>1, <1>12 DEF Told
  <2>2. Carries(e, {})  BY <2>1, PutCarries DEF KeyInv
  <2> QED BY <1>2, <1>10, <1>13, <1>14, <2>2, TombsKeep
<1> QED BY <1>11, <1>12

\* A tombstone goes.
LEMMA TombGoesStep ==
  ASSUME KeyInv, NEW w, EndInv(w), SessInv(w), NEW e \in Ends, NEW id \in Ids, TombGoes(e, id)
  PROVE  EndInv(w)' /\ SessInv(w)'
<1>1. tombs' = [tombs EXCEPT ![e] = Without(@, id)] /\ air' = air
  BY DEF TombGoes
<1>2. UNCHANGED <<job, boot, epoch, key, pend, used, np, ackUsed, nonce, state, got, next, snd, rcv>>
  BY DEF TombGoes, keyVars, peerVars
<1>3. IsTable(tombs[e], TombRec) /\ tombs = [d \in Ends |-> tombs[d]]  BY TablesNow
<1>4. PICK t : t = Without(tombs[e], id)  OBVIOUS
<1>5. IsTable(t, TombRec)  BY <1>3, <1>4, DropEntry
<1>6. \A j \in DOMAIN t : j \in DOMAIN tombs[e] /\ t[j].expect = tombs[e][j].expect
  BY <1>4 DEF Without, Restrict
<1>7. tombs' = [tombs EXCEPT ![e] = t]  BY <1>1, <1>4
<1>8. Carries(e, {})  BY <1>1, StillAir
<1>9. tombs'[e] = t /\ tombs' = [tombs EXCEPT ![e] = tombs'[e]]  BY <1>3, <1>7
<1>10. IsTable(tombs'[e], TombRec)  BY <1>5, <1>9
<1>11. \A j \in DOMAIN tombs'[e] : j \in DOMAIN tombs[e] /\ tombs'[e][j].expect = tombs[e][j].expect
  BY <1>6, <1>9
<1> QED BY <1>2, <1>8, <1>9, <1>10, <1>11, TombsKeep

\* Sessions that an end drops, with a word to the other end or without.
LEMMA LessKeeps ==
  ASSUME KeyInv, NEW w, EndInv(w), SessInv(w),
         IsTable(snd', SndRec), \A j \in DOMAIN snd' : j \in DOMAIN snd /\ snd'[j] = snd[j],
         IsTable(rcv', RcvRec), \A j \in DOMAIN rcv' : j \in DOMAIN rcv /\ rcv'[j] = rcv[j],
         UNCHANGED <<job, boot, epoch, key, pend, used, np, ackUsed, nonce, state, got, next, tombs>>,
         NEW e \in Ends, NEW N, Carries(e, N),
         \A f \in N : f.t = "RESET" /\ Seals(e) /\ f.key = key[e]
  PROVE  EndInv(w)' /\ SessInv(w)'
<1>1. \A f \in N : ~Clear(f) /\ f.t # "PONG" /\ Said(w, f)  BY DEF Clear, Said
<1>2. /\ next \in Ids /\ tombs = [d \in Ends |-> tombs[d]] /\ \A d \in Ends : IsTable(tombs[d], TombRec)
      /\ \A j \in DOMAIN snd : GivenUpTo(got, <<boot[O], j>>, snd[j].txAcked)
      /\ \A j \in DOMAIN rcv : epoch[A] # 0 /\ GivenUpTo(got, <<epoch[A], j>>, rcv[j].rxExpect)
      /\ \A j \in DOMAIN tombs[A] : epoch[A] # 0 /\ GivenUpTo(got, <<epoch[A], j>>, tombs[A][j].expect)
  BY TablesNow
<1>3. /\ \A j \in DOMAIN snd' : GivenUpTo(got, <<boot[O], j>>, snd'[j].txAcked)
      /\ \A j \in DOMAIN rcv' : epoch[A] # 0 /\ GivenUpTo(got, <<epoch[A], j>>, rcv'[j].rxExpect)
  BY <1>2
<1> QED BY <1>1, <1>2, <1>3, SessionKeeps

\* closeSession and resetSession: a session goes and leaves nothing.
LEMMA CloseStep ==
  ASSUME KeyInv, NEW w, EndInv(w), SessInv(w), NEW id \in Ids, CloseOutright(id)
  PROVE  EndInv(w)' /\ SessInv(w)'
<1>1. UNCHANGED <<job, boot, epoch, key, pend, used, np, ackUsed, nonce, state, got, next, tombs>>
  BY DEF CloseOutright, keyVars, peerVars
<1>2. PICK e \in Ends :
        /\ snd' \in {snd, Without(snd, id)} /\ rcv' \in {rcv, Without(rcv, id)}
        /\ UNCHANGED air \/ Put(e, Told(e, id))
  BY DEF CloseOutright
<1>3. IsTable(snd, SndRec) /\ IsTable(rcv, RcvRec)  BY TablesNow
<1>4. /\ IsTable(snd', SndRec) /\ \A j \in DOMAIN snd' : j \in DOMAIN snd /\ snd'[j] = snd[j]
      /\ IsTable(rcv', RcvRec) /\ \A j \in DOMAIN rcv' : j \in DOMAIN rcv /\ rcv'[j] = rcv[j]
  <2>1. /\ IsTable(Without(snd, id), SndRec)
        /\ \A j \in DOMAIN Without(snd, id) : j \in DOMAIN snd /\ Without(snd, id)[j] = snd[j]
    <3>1. IsTable(Without(snd, id), SndRec)  BY <1>3, DropEntry
    <3> QED BY <3>1 DEF Without, Restrict
  <2>2. /\ IsTable(Without(rcv, id), RcvRec)
        /\ \A j \in DOMAIN Without(rcv, id) : j \in DOMAIN rcv /\ Without(rcv, id)[j] = rcv[j]
    <3>1. IsTable(Without(rcv, id), RcvRec)  BY <1>3, DropEntry
    <3> QED BY <3>1 DEF Without, Restrict
  <2> QED BY <1>2, <1>3, <2>1, <2>2
<1>5. PICK N : Carries(e, N) /\ \A f \in N : f.t = "RESET" /\ Seals(e) /\ f.key = key[e]
  <2>1. CASE UNCHANGED air
    <3>1. Carries(e, {})  BY <2>1, StillAir
    <3> QED BY <3>1
  <2>2. CASE Put(e, Told(e, id)) /\ Seals(e)
    <3>1. PICK f : f = Reset(key[e], id)  OBVIOUS
    <3>2. Put(e, <<f>>)  BY <2>2, <3>1 DEF Told
    <3>3. Carries(e, {f})  BY <3>2, PutCarries DEF KeyInv
    <3>4. f.t = "RESET" /\ f.key = key[e]  BY <3>1 DEF Reset
    <3> QED BY <2>2, <3>3, <3>4
  <2>3. CASE Put(e, Told(e, id)) /\ ~Seals(e)
    <3>1. Put(e, <<>>)  BY <2>3 DEF Told
    <3>2. Carries(e, {})  BY <3>1, PutCarries DEF KeyInv
    <3> QED BY <3>2
  <2> QED BY <1>2, <2>1, <2>2, <2>3
<1> QED BY <1>1, <1>4, <1>5, LessKeeps

\* A session nothing came for, and the sessions of a peer that is gone.
LEMMA IdleSteps ==
  ASSUME KeyInv, NEW w, EndInv(w), SessInv(w), PeerGone \/ \E id \in Ids : IdleOut(id)
  PROVE  EndInv(w)' /\ SessInv(w)'
<1>1. UNCHANGED <<job, boot, epoch, key, pend, used, np, ackUsed, nonce, state, got, next, tombs, air>>
  BY DEF PeerGone, IdleOut, keyVars, peerVars
<1>5. Carries(Host, {})  BY <1>1, StillAir
<1>2. IsTable(snd, SndRec) /\ IsTable(rcv, RcvRec)  BY TablesNow
<1>3. CASE PeerGone
  <2>1. (snd' = None \/ snd' = snd) /\ (rcv' = None \/ rcv' = rcv)  BY <1>3 DEF PeerGone
  <2>2. /\ IsTable(snd', SndRec) /\ \A j \in DOMAIN snd' : j \in DOMAIN snd /\ snd'[j] = snd[j]
        /\ IsTable(rcv', RcvRec) /\ \A j \in DOMAIN rcv' : j \in DOMAIN rcv /\ rcv'[j] = rcv[j]
    BY <1>2, <2>1, NoEntries
  <2> QED BY <1>1, <1>5, <2>2, LessKeeps, TwoEnds
<1>4. ASSUME NEW id \in Ids, IdleOut(id)  PROVE EndInv(w)' /\ SessInv(w)'
  <2>1. rcv' = Without(rcv, id) /\ snd' = snd  BY <1>4 DEF IdleOut
  <2>2. IsTable(rcv', RcvRec)  BY <1>2, <2>1, DropEntry
  <2>3. \A j \in DOMAIN rcv' : j \in DOMAIN rcv /\ rcv'[j] = rcv[j]
    BY <2>1 DEF Without, Restrict
  <2> QED BY <1>1, <1>2, <1>5, <2>1, <2>2, <2>3, LessKeeps, TwoEnds
<1> QED BY <1>3, <1>4

-----------------------------------------------------------------------------
(* The ends' own steps                                                     *)

\* A step at which an end may drop all it had, and the boots it means move on only
\* where it has nothing left of the old one.
LEMMA SessionsStand ==
  ASSUME NEW w, EndInv(w), SessInv(w), UNCHANGED <<job, got>>, next' \in Ids,
         snd' = None \/ (snd' = snd /\ boot'[O] = boot[O]),
         rcv' = None \/ (rcv' = rcv /\ epoch[A] \in {0, epoch'[A]}),
         tombs' = [d \in Ends |-> tombs'[d]],
         tombs'[O] \in {None, tombs[O]},
         tombs'[A] = None \/ (tombs'[A] = tombs[A] /\ epoch[A] \in {0, epoch'[A]}),
         NEW e \in Ends, NEW N, Carries(e, N), \A f \in N : f.t \notin {"DATA", "ACK"},
         NEW v, \A n \in Nonces : v[n] = w[n]
  PROVE  SessInv(v)'
<1>1. O' = O /\ A' = A /\ Ids' = Ids  BY SameJob
<1>2. O \in Ends /\ \A d \in Ends : d = O \/ d = A  BY DEF SessInv, TablesOK, O, A, Far, Ends
<1>3. \A d \in Ends : IsTable(tombs'[d], TombRec)  BY <1>2, NoEntries DEF SessInv, TablesOK
<1>4. IsTable(snd', SndRec) /\ IsTable(rcv', RcvRec)  BY NoEntries DEF SessInv, TablesOK
<1>5. TablesOK'  BY <1>1, <1>3, <1>4 DEF SessInv, TablesOK, IsTable, Boots
<1>6. SndTaken'  BY <1>1, NoEntries DEF SessInv, SndTaken
<1>7. RcvTaken'  BY <1>1, NoEntries DEF SessInv, RcvTaken
<1>8. TombTaken'  BY <1>1, NoEntries DEF SessInv, TombTaken
<1>9. \A f \in N : Said(v, f)'  BY DEF Said
<1>10. \A f \in Frames' : Said(v, f)'  BY <1>5, <1>9, SameGot, SaidStays DEF SessInv
<1> QED BY <1>5, <1>6, <1>7, <1>8, <1>10 DEF SessInv


\* HELLO: the host answers, and nothing of a session is in it.
LEMMA HelloKeeps ==
  ASSUME KeyInv, NEW w, EndInv(w), SessInv(w), HearHello
  PROVE  \E v : EndInv(v)' /\ SessInv(v)'
<1>1. PICK v : EndInv(v)' /\ \A n \in Nonces : v[n] = w[n]  BY EndsGreeted
<1>2. PICK f : f.t = "HELLO_ACK" /\ Took(Host, <<f>>)  BY DEF HearHello, HelloAck
<1>3. air[Host] # <<>> /\ UNCHANGED <<job, boot, epoch, next, got, snd, rcv, tombs>>
  BY DEF HearHello, sessVars
<1>4. Carries(Host, {f})  BY <1>2, <1>3, TookCarries, TwoEnds DEF KeyInv
<1>5. \A g \in {f} : g.t \notin {"DATA", "ACK"}  BY <1>2
<1>6. SessInv(v)'  BY <1>1, <1>3, <1>4, <1>5, SessionsAside, TwoEnds
<1> QED BY <1>1, <1>6

\* HELLO_ACK: what the peer had from another boot of the host is gone.
LEMMA HelloAckKeeps ==
  ASSUME KeyInv, NEW w, EndInv(w), SessInv(w), HearHelloAck
  PROVE  EndInv(w)' /\ SessInv(w)'
<1>0. O \in Ends /\ A \in Ends /\ A # O  BY EndsOfTheJob, TwoEnds DEF A
<1>1. EndInv(w)'  BY EndsKeyed
<1>2. PICK f : f = Head(air[Peer])  OBVIOUS
<1>3. /\ air[Peer] # <<>> /\ Took(Peer, <<>>) /\ UNCHANGED <<job, boot, next, got>>
  BY DEF HearHelloAck
<1>4. Carries(Peer, {})  BY <1>3, TookCarries, TwoEnds DEF KeyInv
<1>5. CASE TakesAck(f)
  <2>1. /\ epoch' = [epoch EXCEPT ![Peer] = f.epoch]
        /\ IF epoch[Peer] \notin {0, f.epoch} THEN Rebooted(Peer) ELSE UNCHANGED <<snd, rcv, tombs>>
    BY <1>2, <1>5 DEF HearHelloAck
  <2>2. epoch'[Peer] = f.epoch /\ epoch'[Host] = epoch[Host]
    BY <2>1, TwoEnds DEF EndInv, EndsOK
  <2>3. next \in Ids /\ tombs = [d \in Ends |-> tombs[d]]  BY TablesNow
  <2>4. CASE epoch[Peer] \notin {0, f.epoch}
    <3>1. /\ snd' = (IF Peer = O THEN None ELSE snd) /\ rcv' = (IF Peer = A THEN None ELSE rcv)
          /\ tombs' = [tombs EXCEPT ![Peer] = None]
      BY <2>1, <2>4 DEF Rebooted
    <3>2. tombs' = [d \in Ends |-> tombs'[d]] /\ tombs'[Peer] = None /\ tombs'[Host] = tombs[Host]
      BY <2>3, <3>1, TwoEnds
    <3>3. CASE O = Peer
      <4>1. A = Host  BY <3>3, TwoEnds DEF A
      <4>2. epoch[A] \in {0, epoch'[A]} /\ tombs'[A] = tombs[A] /\ tombs'[O] \in {None, tombs[O]}
        BY <2>2, <3>2, <3>3, <4>1
      <4>3. snd' = None /\ rcv' = rcv  BY <1>0, <3>1, <3>3
      <4>4. SessInv(w)'  BY <1>3, <1>4, <2>3, <3>2, <4>2, <4>3, SessionsStand, TwoEnds
      <4> QED BY <1>1, <4>4
    <3>4. CASE O = Host
      <4>1. A = Peer  BY <3>4, TwoEnds DEF A
      <4>2. tombs'[A] = None /\ tombs'[O] \in {None, tombs[O]}  BY <3>2, <3>4, <4>1
      <4>3. snd' = snd /\ rcv' = None /\ boot'[O] = boot[O]  BY <1>0, <1>3, <3>1, <4>1
      <4>4. SessInv(w)'  BY <1>3, <1>4, <2>3, <3>2, <4>2, <4>3, SessionsStand, TwoEnds
      <4> QED BY <1>1, <4>4
    <3> QED BY <1>0, <3>3, <3>4 DEF Ends
  <2>5. CASE epoch[Peer] \in {0, f.epoch}
    <3>1. UNCHANGED <<snd, rcv, tombs>>  BY <2>1, <2>5
    <3>2. epoch[A] \in {0, epoch'[A]}  BY <1>0, <2>2, <2>5 DEF Ends
    <3>3. tombs' = [d \in Ends |-> tombs'[d]]  BY <2>3, <3>1
    <3>4. snd' = snd /\ rcv' = rcv /\ boot'[O] = boot[O] /\ tombs'[A] = tombs[A] /\ tombs'[O] \in {None, tombs[O]}
      BY <1>3, <3>1
    <3>5. SessInv(w)'  BY <1>3, <1>4, <2>3, <3>2, <3>3, <3>4, SessionsStand, TwoEnds
    <3> QED BY <1>1, <3>5
  <2> QED BY <2>4, <2>5
<1>6. CASE ~TakesAck(f)
  <2>1. UNCHANGED <<epoch, snd, rcv, tombs>>  BY <1>2, <1>6 DEF HearHelloAck
  <2>2. SessInv(w)'  BY <1>3, <1>4, <2>1, SessionsAside, TwoEnds
  <2> QED BY <1>1, <2>2
<1> QED BY <1>5, <1>6

\* An end that restarts has no session, and what it had is in no table.
LEMMA RestartKeeps ==
  ASSUME KeyInv, NEW w, EndInv(w), SessInv(w), NEW e \in Ends, Restart(e)
  PROVE  EndInv(w)' /\ SessInv(w)'
<1>0. O \in Ends /\ A \in Ends /\ A # O /\ \A d \in Ends : d = O \/ d = A
  BY EndsOfTheJob, TwoEnds DEF A, Ends, Far
<1>1. EndInv(w)'  BY EndsRestart
<1>2. /\ boot' = [boot EXCEPT ![e] = @ + 1] /\ epoch' = [epoch EXCEPT ![e] = 0]
      /\ snd' = (IF e = O THEN None ELSE snd) /\ rcv' = (IF e = A THEN None ELSE rcv)
      /\ tombs' = [tombs EXCEPT ![e] = None] /\ UNCHANGED <<job, air, got>>
      /\ (next' \in Ids \/ next' = next)
  BY DEF Restart, Rebooted
<1>3. next \in Ids /\ tombs = [d \in Ends |-> tombs[d]]  BY TablesNow
<1>4. tombs' = [d \in Ends |-> tombs'[d]] /\ tombs'[e] = None /\ \A d \in Ends \ {e} : tombs'[d] = tombs[d]
  BY <1>2, <1>3
<1>5. \A d \in Ends \ {e} : boot'[d] = boot[d] /\ epoch'[d] = epoch[d]
  BY <1>2 DEF EndInv, EndsOK
<1>6. snd' = None \/ (snd' = snd /\ boot'[O] = boot[O])  BY <1>0, <1>2, <1>5
<1>7. rcv' = None \/ (rcv' = rcv /\ epoch[A] \in {0, epoch'[A]})  BY <1>0, <1>2, <1>5
<1>8. tombs'[O] \in {None, tombs[O]}  BY <1>0, <1>4
<1>9. tombs'[A] = None \/ (tombs'[A] = tombs[A] /\ epoch[A] \in {0, epoch'[A]})
  BY <1>0, <1>4, <1>5
<1>10. next' \in Ids /\ UNCHANGED <<job, got>> /\ Carries(Host, {})  BY <1>2, <1>3, StillAir
<1>11. tombs' = [d \in Ends |-> tombs'[d]]  BY <1>4
<1>12. SessInv(w)'  BY <1>6, <1>7, <1>8, <1>9, <1>10, <1>11, SessionsStand, TwoEnds
<1> QED BY <1>1, <1>12

\* What the ends do between themselves: a step that leaves the keys, the greeting and
\* the sessions as they are.
LEMMA AsideKeeps ==
  ASSUME KeyInv, NEW w, EndInv(w), SessInv(w), UNCHANGED EndVars, UNCHANGED <<job, sessVars>>,
         state' = state \/ state' \notin {"WAITUP", "UP"},
         NEW e \in Ends, NEW N, Carries(e, N),
         \A f \in N : f.t \in {"PING", "RESET"} /\ Seals(e) /\ f.key = key[e]
  PROVE  EndInv(w)' /\ SessInv(w)'
<1>1. \A f \in N : ~Clear(f) /\ f.t # "PONG" /\ f.t \notin {"DATA", "ACK"}  BY DEF Clear
<1>2. EndInv(w)'  BY <1>1, EndsAside
<1>3. UNCHANGED <<job, next, got, snd, rcv, tombs, boot, epoch>>  BY DEF sessVars, EndVars
<1>4. SessInv(w)'  BY <1>1, <1>3, SessionsAside
<1> QED BY <1>2, <1>4

\* A frame that opens under no key, and what the radio does.
LEMMA AirKeeps ==
  ASSUME KeyInv, NEW w, EndInv(w), SessInv(w), NEW e \in Ends,
         HearNothing(e) \/ Lose(e) \/ Delay(e) \/ Repeat(e)
  PROVE  EndInv(w)' /\ SessInv(w)'
<1>1. UNCHANGED EndVars /\ UNCHANGED <<job, sessVars>> /\ state' = state
  BY DEF HearNothing, Lose, Delay, Repeat, keyVars, peerVars, EndVars
<1>2. CASE HearNothing(e)
  <2>1. air[e] # <<>> /\ Took(e, <<>>)  BY <1>2 DEF HearNothing
  <2>2. Carries(e, {})  BY <2>1, TookCarries DEF KeyInv
  <2> QED BY <1>1, <2>2, AsideKeeps
<1>3. CASE Lose(e) \/ Delay(e) \/ Repeat(e)
  <2>1. Carries(e, {})  BY <1>3, RadioCarries DEF KeyInv
  <2> QED BY <1>1, <2>1, AsideKeeps
<1> QED BY <1>2, <1>3

\* A HELLO, by the greeting's timer.
LEMMA GreetKeeps ==
  ASSUME KeyInv, NEW w, EndInv(w), SessInv(w), HelloTimer
  PROVE  \E v : EndInv(v)' /\ SessInv(v)'
<1>1. UNCHANGED <<job, boot, epoch, pend, used, next, got, snd, rcv, tombs>>
  BY DEF HelloTimer, sessVars
<1>2. ASSUME NEW m, SendHello(m)  PROVE \E v : EndInv(v)' /\ SessInv(v)'
  <2>1. PICK v : EndInv(v)' /\ \A n \in Nonces : v[n] = w[n]  BY <1>1, <1>2, EndsGreet
  <2>2. PICK f : f.t = "HELLO" /\ Put(Peer, <<f>>)  BY <1>2 DEF SendHello, Hello
  <2>3. Carries(Peer, {f})  BY <2>2, PutCarries, TwoEnds DEF KeyInv
  <2>4. \A g \in {f} : g.t \notin {"DATA", "ACK"}  BY <2>2
  <2>5. SessInv(v)'  BY <1>1, <2>1, <2>3, <2>4, SessionsAside, TwoEnds
  <2> QED BY <2>1, <2>5
<1>3. CASE HostLost
  <2>1. UNCHANGED EndVars /\ state' = "SCAN" /\ air' = air  BY <1>1, <1>3 DEF HostLost, EndVars
  <2>2. Carries(Host, {})  BY <2>1, StillAir
  <2>3. EndInv(w)' /\ SessInv(w)'
    BY <1>1, <2>1, <2>2, AsideKeeps, TwoEnds DEF HelloTimer
  <2> QED BY <2>3
<1> QED BY <1>2, <1>3 DEF HelloTimer

\* The other timers.
LEMMA TimersKeep ==
  ASSUME KeyInv, NEW w, EndInv(w), SessInv(w), FindHost \/ PingTimer \/ HostQuiet \/ Rekey
  PROVE  EndInv(w)' /\ SessInv(w)'
<1>1. CASE FindHost
  <2>1. UNCHANGED EndVars /\ UNCHANGED <<job, sessVars>> /\ state' = "HELLO" /\ air' = air
    BY <1>1 DEF FindHost, keyVars, EndVars
  <2>2. Carries(Host, {})  BY <2>1, StillAir
  <2> QED BY <2>1, <2>2, AsideKeeps, TwoEnds
<1>2. CASE PingTimer
  <2>1. UNCHANGED <<job, sessVars, boot, epoch, pend, used>>  BY <1>2 DEF PingTimer
  <2>2. CASE SendPing
    <3>1. PICK f : f = Beat("PING", key[Peer])  OBVIOUS
    <3>2. UNCHANGED EndVars /\ state' = state /\ Put(Peer, <<f>>)
      BY <2>1, <2>2, <3>1 DEF SendPing, EndVars
    <3>3. Seals(Peer)
      <4>2. state \in {"WAITUP", "UP"}  BY <1>2 DEF PingTimer
      <4> QED BY <4>2 DEF EndInv, EndsOK
    <3>4. Carries(Peer, {f})  BY <3>2, PutCarries, TwoEnds DEF KeyInv
    <3>5. \A g \in {f} : g.t \in {"PING", "RESET"} /\ Seals(Peer) /\ g.key = key[Peer]
      BY <3>1, <3>3 DEF Beat
    <3> QED BY <2>1, <3>2, <3>4, <3>5, AsideKeeps, TwoEnds
  <2>3. CASE HostLost
    <3>1. UNCHANGED EndVars /\ state' = "SCAN" /\ air' = air  BY <2>1, <2>3 DEF HostLost, EndVars
    <3>2. Carries(Host, {})  BY <3>1, StillAir
    <3> QED BY <2>1, <3>1, <3>2, AsideKeeps, TwoEnds
  <2> QED BY <1>2, <2>2, <2>3 DEF PingTimer
<1>3. CASE HostQuiet
  <2>1. UNCHANGED EndVars /\ UNCHANGED <<job, sessVars>> /\ state' = state /\ air' = air
    BY <1>3 DEF HostQuiet, peerVars, EndVars
  <2>2. Carries(Host, {})  BY <2>1, StillAir
  <2> QED BY <2>1, <2>2, AsideKeeps, TwoEnds
<1>4. CASE Rekey
  <2>1. UNCHANGED EndVars /\ UNCHANGED <<job, sessVars>> /\ (state' = state \/ state' = "HELLO")
    BY <1>4 DEF Rekey, keyVars, EndVars
  <2>2. CASE air' = air
    <3>1. Carries(Host, {})  BY <2>2, StillAir
    <3> QED BY <2>1, <3>1, AsideKeeps, TwoEnds
  <2>3. CASE Seals(Host) /\ Put(Host, <<Reset(key[Host], 0)>>)
    <3>1. PICK f : f = Reset(key[Host], 0)  OBVIOUS
    <3>2. Carries(Host, {f})  BY <2>3, <3>1, PutCarries, TwoEnds DEF KeyInv
    <3>3. \A g \in {f} : g.t \in {"PING", "RESET"} /\ Seals(Host) /\ g.key = key[Host]
      BY <2>3, <3>1 DEF Reset
    <3> QED BY <2>1, <3>2, <3>3, AsideKeeps, TwoEnds
  <2> QED BY <1>4, <2>2, <2>3 DEF Rekey
<1> QED BY <1>1, <1>2, <1>3, <1>4

-----------------------------------------------------------------------------
(* Every step                                                              *)

\* Whatever an end hears.
LEMMA HearsKeep ==
  ASSUME KeyInv, KeyInv', NEW w, EndInv(w), SessInv(w), NEW e \in Ends, Hears(e)
  PROVE  \E v : EndInv(v)' /\ SessInv(v)'
<1>1. CASE HearHello  BY <1>1, HelloKeeps
<1>2. CASE HearHelloAck  BY <1>2, HelloAckKeeps
<1>3. CASE HearPing  BY <1>3, PingKeeps
<1>4. CASE HearPong  BY <1>4, PongKeeps
<1>5. CASE HearData  BY <1>5, DataKeeps
<1>6. CASE HearAck  BY <1>6, AckKeeps
<1>7. CASE HearReset(e)  BY <1>7, ResetKeeps
<1>8. CASE HearNothing(e)  BY <1>8, AirKeeps
<1> QED BY <1>1, <1>2, <1>3, <1>4, <1>5, <1>6, <1>7, <1>8 DEF Hears

\* Whatever a session does of itself.
LEMMA SessionsKeep ==
  ASSUME KeyInv, NEW w, EndInv(w), SessInv(w), NEW id \in Ids, Session(id)
  PROVE  EndInv(w)' /\ SessInv(w)'
<1>1. ASSUME NEW last \in BOOLEAN, Send(id, last)  PROVE EndInv(w)' /\ SessInv(w)'
  BY <1>1, SendStep
<1>2. CASE Transmit(id)  BY <1>2, TransmitStep
<1>3. CASE SendAck(id)  BY <1>3, SendAckStep
<1>4. ASSUME NEW seq \in 0..job.msgs, Retransmit(id, seq)  PROVE EndInv(w)' /\ SessInv(w)'
  <2>1. seq \in Nat  OBVIOUS
  <2> QED BY <1>4, <2>1, RetransmitStep
<1>5. CASE CloseOutright(id)  BY <1>5, CloseStep
<1>6. CASE IdleOut(id)  BY <1>6, IdleSteps
<1>7. ASSUME NEW e \in Ends, TellClosed(e, id)  PROVE EndInv(w)' /\ SessInv(w)'
  BY <1>7, TellStep
<1>8. ASSUME NEW e \in Ends, TombGoes(e, id)  PROVE EndInv(w)' /\ SessInv(w)'
  BY <1>8, TombGoesStep
<1> QED BY <1>1, <1>2, <1>3, <1>4, <1>5, <1>6, <1>7, <1>8 DEF Session

\* The ends and the sessions agree, for some map of the nonces to the boots they were drawn in.
AgreeInv == KeyInv /\ \E w : EndInv(w) /\ SessInv(w)

\* A step keeps it, if not always the map.
LEMMA AgreeStep ==
  ASSUME AgreeInv, [Next]_vars
  PROVE  AgreeInv'
<1>1. KeyInv /\ KeyInv'  BY KeysStep DEF AgreeInv
<1>2. PICK w : EndInv(w) /\ SessInv(w)  BY DEF AgreeInv
<1>3. SUFFICES \E v : EndInv(v)' /\ SessInv(v)'  BY <1>1 DEF AgreeInv
<1>4. CASE UNCHANGED vars
  <2>1. UNCHANGED EndVars /\ UNCHANGED <<job, sessVars>> /\ state' = state /\ air' = air
    BY <1>4 DEF vars, linkVars, keyVars, peerVars, EndVars
  <2>2. Carries(Host, {})  BY <2>1, StillAir
  <2> QED BY <1>1, <1>2, <2>1, <2>2, AsideKeeps, TwoEnds
<1>5. CASE FindHost \/ PingTimer \/ HostQuiet \/ Rekey  BY <1>1, <1>2, <1>5, TimersKeep
<1>6. CASE HelloTimer  BY <1>1, <1>2, <1>6, GreetKeeps
<1>7. CASE PeerGone  BY <1>1, <1>2, <1>7, IdleSteps
<1>8. CASE Open  BY <1>1, <1>2, <1>8, OpenKeeps
<1>9. ASSUME NEW id \in Ids, Session(id)  PROVE \E v : EndInv(v)' /\ SessInv(v)'
  BY <1>1, <1>2, <1>9, SessionsKeep
<1>10. ASSUME NEW e \in Ends, Hears(e)  PROVE \E v : EndInv(v)' /\ SessInv(v)'
  BY <1>1, <1>2, <1>10, HearsKeep
<1>11. ASSUME NEW e \in Ends, Lose(e) \/ Delay(e) \/ Repeat(e)  PROVE \E v : EndInv(v)' /\ SessInv(v)'
  BY <1>1, <1>2, <1>11, AirKeeps
<1>12. ASSUME NEW e \in Ends, Restart(e)  PROVE \E v : EndInv(v)' /\ SessInv(v)'
  BY <1>1, <1>2, <1>12, RestartKeeps
<1>13. ASSUME NEW id \in Ids, DropClosed(id)  PROVE \E v : EndInv(v)' /\ SessInv(v)'
  BY <1>1, <1>2, <1>13, DropStep
<1> QED BY <1>4, <1>5, <1>6, <1>7, <1>8, <1>9, <1>10, <1>11, <1>12, <1>13 DEF Next, Step

\* No nonce drawn, no key, no session: the empty map will do.
LEMMA AgreeInit ==
  ASSUME Init
  PROVE  AgreeInv
<1>1. KeyInv  BY KeysInit
<1>2. /\ job.opener \in Ends /\ job.opens \in Nat /\ MaxBoots \in Nat \ {0}
  BY BoardLinkAssumption DEF Init
<1>3. nonce = 0 /\ Nonces = {}  BY DEF Init, Nonces
<1>4. Frames = {} /\ OnAir(Peer) = {}
  <2>1. air[Host] = <<>> /\ air[Peer] = <<>>  BY TwoEnds DEF Init
  <2> QED BY <2>1 DEF Frames, OnAir, Range
<1>5. key[Host] = NoKey /\ key[Peer] = NoKey /\ key \in [Ends -> {NoKey} \cup used[Peer]]
      /\ used[Peer] = {}
  BY TwoEnds DEF Init
<1>6. pend = NoPend /\ state = "SCAN" /\ np = 0  BY DEF Init
<1>7. boot \in [Ends -> Boots] /\ epoch \in [Ends -> 0..MaxBoots]  BY <1>2 DEF Init, Boots
<1>8. EndsOK  BY <1>5, <1>6, <1>7 DEF EndsOK, Seals
<1>9. FramesOK  BY <1>4 DEF FramesOK
<1>10. PendingIsLast /\ HostStays  BY <1>5, <1>6 DEF PendingIsLast, HostStays, Seals
<1>11. PICK w : w = [n \in {} |-> 1]  OBVIOUS
<1>12. w \in [Nonces -> Boots]  BY <1>3, <1>11
<1>13. BootsAgree(w)  BY <1>4, <1>5, <1>6 DEF BootsAgree, Seals
<1>14. snd = None /\ rcv = None /\ tombs = [e \in Ends |-> None] /\ next \in Ids
  BY DEF Init
<1>15. got \in [Boots \X Ids -> Seq(Nat)]  BY DEF Init, Boots, Ids
<1>16. TablesOK  BY <1>2, <1>14, <1>15, NoEntries DEF TablesOK
<1>17. SndTaken /\ RcvTaken /\ TombTaken
  BY <1>14, NoEntries, EndsOfTheJob, <1>1 DEF SndTaken, RcvTaken, TombTaken
<1>18. EndInv(w)  BY <1>8, <1>9, <1>10, <1>12, <1>13 DEF EndInv
<1>19. SessInv(w)  BY <1>4, <1>16, <1>17 DEF SessInv
<1> QED BY <1>1, <1>18, <1>19 DEF AgreeInv

-----------------------------------------------------------------------------
(* Their theorems                                                          *)

\* The ends, the frames between them and the sessions agree in every reachable state.
THEOREM AgreeInvariant == Spec => []AgreeInv
<1>1. Init => AgreeInv  BY AgreeInit
<1>2. AgreeInv /\ [Next]_vars => AgreeInv'  BY AgreeStep
<1> QED BY <1>1, <1>2, PTL DEF Spec

\* A message the sender counts as acknowledged was given to the other owner in this
\* boot of the sender, whatever was lost, late, repeated or restarted.
THEOREM AcksAreTrue == Spec => []AckedIsTaken
<1>1. AgreeInv => AckedIsTaken
  BY DEF AgreeInv, SessInv, SndTaken, AckedIsTaken
<1> QED BY <1>1, AgreeInvariant, PTL

\* A peer that counts the link as up has the host's key or a host that has none, and
\* under one key each end knows the other's present boot.
THEOREM TheEndsAgree == Spec => []EndsAgree
<1>1. AgreeInv => EndsAgree
  <2> SUFFICES ASSUME AgreeInv  PROVE EndsAgree  OBVIOUS
  <2>1. PICK w : EndInv(w)  BY DEF AgreeInv
  <2>2. state = "UP" => key[Host] \in {NoKey, key[Peer]}
    BY <2>1 DEF EndInv, EndsOK, HostStays, Answered
  <2>3. ASSUME Seals(Host), key[Host] = key[Peer], NEW e \in Ends  PROVE epoch[e] = boot[Far(e)]
    <3>1. Seals(Peer) /\ key[Peer][1] = np  BY <2>1, <2>3 DEF Seals, EndInv, EndsOK
    <3>2. np # 0
      <4>1. key[Peer] \in Nonces \X Nonces
        BY <2>1, <3>1, TwoEnds DEF EndInv, EndsOK, Seals
      <4> QED BY <3>1, <4>1 DEF Nonces
    <3>3. epoch[Host] = boot[Peer]  BY <2>1, <2>3, <3>1, <3>2 DEF EndInv, BootsAgree
    <3>4. epoch[Peer] = boot[Host]  BY <2>1, <2>3, <3>1 DEF EndInv, BootsAgree
    <3> QED BY <3>3, <3>4, TwoEnds DEF Ends
  <2> QED BY <2>2, <2>3 DEF EndsAgree
<1> QED BY <1>1, AgreeInvariant, PTL

\* And what the receiving end then counts as taken was given in this boot of the
\* sender: no session of an older boot is left over.
THEOREM NoSessionLeftOver == Spec => []UpAgrees
<1>1. AgreeInv /\ EndsAgree => UpAgrees
  <2> SUFFICES ASSUME AgreeInv, EndsAgree, Seals(Host), key[Host] = key[Peer],
                      NEW id \in DOMAIN rcv
               PROVE  GivenUpTo(got, <<boot[O], id>>, rcv[id].rxExpect)
    BY DEF UpAgrees
  <2>1. A \in Ends /\ Far(A) = O  BY TwoEnds, EndsOfTheJob DEF AgreeInv, A, Far, Ends
  <2>2. epoch[A] = boot[O]  BY <2>1 DEF EndsAgree
  <2>3. GivenUpTo(got, <<epoch[A], id>>, rcv[id].rxExpect)
    BY DEF AgreeInv, SessInv, RcvTaken
  <2> QED BY <2>2, <2>3
<1> QED BY <1>1, AgreeInvariant, TheEndsAgree, PTL
=============================================================================
