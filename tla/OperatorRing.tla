------------------------------ MODULE OperatorRing ------------------------------
(***************************************************************************)
(* OPERATOR, the caller's ring for the sysop (src/core/bbs_ring.cpp,       *)
(* ring.h), over the sessions it runs through (bbs.cpp): one ring at a     *)
(* time on the board, from one session slot to another.  Callers open,     *)
(* close and move between slots while it rings, and a pass of the BBS loop *)
(* gives each slot its turn before it looks at the ring itself.            *)
(*                                                                         *)
(* A call is followed from its login.  A session's screens are reduced to  *)
(* what a ring asks of them; HIDE, LURK and DND to whether the session is  *)
(* there to be rung; the busy line, which cannot ring, is left out.        *)
(***************************************************************************)
EXTENDS Naturals, Sequences, FiniteSets, Mailbox

CONSTANTS
  Nodes,       \* caller nodes; the sysop node comes after them in a pass
  kPerCall,    \* rings a call may make
  kRing,       \* ticks a ring rings: kRingMs
  kGap,        \* ticks between two rings of a caller: kGapMs
  MaxSeq,      \* ring_.seq wraps from here to 1
  Local,       \* the nodes whose callers are on the board's own network
  Places       \* where a session goes from the prompt, of AllPlaces

\* The chat room, another plugin that can lift its input line, a form, a
\* refreshing list, and everything no ring can reach.
AllPlaces == {"room", "other", "Form", "Watch", "Snoop"}

ASSUME RingAssumption ==
  /\ BusDepth > 1 /\ Local \subseteq 1..Nodes /\ Places \subseteq AllPlaces
  /\ Nodes \in Nat \ {0} /\ kPerCall \in Nat \ {0}
  /\ kRing \in Nat \ {0} /\ kGap \in Nat /\ MaxSeq \in Nat \ {0}

VARIABLES
  ses,         \* the session slots: the static pool nodes_ and sysop_
  ring,        \* ring_: from, to, shown and the ticks left
  seq,         \* ring_.seq
  used, gap,   \* ringLimits_: rings this call, and ticks until the next may go
  turn,        \* whose turn it is in the pass: a slot's, or the ring's own
  owed         \* ghost: rings begun and neither answered nor left as a note

vars == <<ses, ring, seq, used, gap, turn, owed>>

Slots     == 1..(Nodes + 1)
SysopSlot == Nodes + 1
PassTail  == Nodes + 2          \* the end of a pass, where serviceRing runs
None      == 0                  \* 0xFF

NoRing == [from |-> None, to |-> None, shown |-> FALSE, left |-> 0]
Live   == ring.from # None

\* A slot nobody is on.  What the last call left in the other fields is
\* reset by openSession before anything reads it.
Free == [st |-> "Free", owner |-> "none", sysop |-> FALSE, here |-> TRUE,
         out |-> FALSE, mb |-> <<>>, rung |-> 0, wait |-> 0]

InUse(S, s) == S[s].st # "Free"

Init ==
  /\ ses = [s \in Slots |-> Free]
  /\ ring = NoRing
  /\ seq = 0
  /\ used = [s \in Slots |-> 0]
  /\ gap = [s \in Slots |-> 0]
  /\ turn = 1
  /\ owed = 0

-------------------------------------------------------------------------------
(* Sessions, as the ring's functions change them.  S is ses, changed so far *)

\* Something is printed: the session's output queue (its timeline) fills.  It
\* is followed only where it holds something back, a Ring that is waiting or a
\* key at the question; anywhere else deliveries come as late as they like.
Printed(S, s) == [S EXCEPT ![s].out = S[s].st = "RingAsk" \/ Has(S[s].mb, {"Ring"})]

\* A screen of its own for the session.
Screen(S, s, st) == Printed([S EXCEPT ![s].st = st], s)

Post(S, s, m) == [S EXCEPT ![s].mb = Pushed(@, m)]

\* noticeAll, to the sessions whose mail can be in a ring's way.
NoticeAll(S, about) ==
  [s \in Slots |->
     IF s # about /\ InUse(S, s) /\ S[s].sysop
     THEN [S[s] EXCEPT !.mb = Pushed(@, [kind |-> "Notice"])] ELSE S[s]]

\* ringBack: to the plugin that owns the session, or to the prompt.
RingBack(S, s) ==
  Screen(S, s, IF S[s].owner = "none" THEN "Shell" ELSE "Plugin")

\* converse: into the chat room.
EnterPlugin(S, s, p) == Screen([S EXCEPT ![s].owner = p], s, "Plugin")
Converse(S, s) == EnterPlugin(S, s, "room")

\* ringAsk: the question.
Ask(S, s) == Screen(S, s, "RingAsk")

\* ringTarget: a sysop session that is there and can be asked now, the sysop
\* node first; failing that one that can be asked soon.
ThereToRing(S, s) == InUse(S, s) /\ S[s].sysop /\ S[s].here
AskNow  == {"Shell", "Plugin", "Form"}
AskSoon == {"Watch"}
Targets(S) ==
  LET now  == {s \in Slots : ThereToRing(S, s) /\ S[s].st \in AskNow}
      soon == {s \in Slots : ThereToRing(S, s) /\ S[s].st \in AskSoon}
  IN  IF now # {} THEN now ELSE soon
RingTarget(S) ==
  IF SysopSlot \in Targets(S) THEN SysopSlot ELSE Min(Targets(S))

-------------------------------------------------------------------------------
(* The end of a ring                                                       *)

\* ringClear: no Ring stays in the sysop's mailbox.
RingClear(S) == [S EXCEPT ![ring.to].mb = AllTaken(@, {"Ring"})]

CallerLeft == {"NoAnswer", "Stopped", "HungUp"}

\* Mutant of RingEnd: a caller whose sysop has gone is not told.
RingEndUntold(S, how) ==
  IF how # "Gone" /\ S[ring.from].st = "Ringing" THEN RingBack(RingClear(S), ring.from)
  ELSE RingClear(S)

\* ringEnd: the caller is told unless they hung up; the sysop is told when
\* the caller went away, on the question if it is up and by mail if not.
RingEnd(S, how) ==
  LET c == ring.from
      d == ring.to
      cleared == RingClear(S)
      told == IF cleared[c].st = "Ringing" /\ how # "HungUp"
              THEN RingBack(cleared, c) ELSE cleared
  IN  IF how \notin CallerLeft \/ ~InUse(told, d) THEN told
      ELSE IF told[d].st = "RingAsk" THEN RingBack(told, d)
      ELSE Post(told, d, [kind |-> "Notice"])

\* ringClosed: a slot is closing; its caller hung up, or its sysop has gone.
RingClosed(S, s) ==
  CASE s = ring.from -> RingEnd(S, "HungUp")
    [] s = ring.to   -> RingEnd(S, "Gone")
    [] OTHER         -> S

\* The ring is over without an answer: ringLeave has left mail or a note.
Over == ring' = NoRing /\ owed' = owed - 1

-------------------------------------------------------------------------------
(* A call: it begins, moves to another slot, and ends                      *)

At(s) == turn = s /\ InUse(ses, s)

ringVars == <<ring, seq, owed>>
limits   == <<used, gap>>

\* Mutant of Connect: the slot's allowance is not forgotten.
ConnectInherits(s) ==
  /\ turn = s /\ ~InUse(ses, s) /\ s # SysopSlot
  /\ ses' = [NoticeAll(ses, s) EXCEPT ![s] = [Free EXCEPT !.st = "Shell"]]
  /\ UNCHANGED <<limits, ringVars, turn>>

\* openSession: a fresh allowance of rings, whoever was on the slot before.
Connect(s) ==
  /\ turn = s /\ ~InUse(ses, s) /\ s # SysopSlot
  /\ ses' = [NoticeAll(ses, s) EXCEPT ![s] = [Free EXCEPT !.st = "Shell"]]
  /\ used' = [used EXCEPT ![s] = 0]
  /\ gap' = [gap EXCEPT ![s] = 0]
  /\ UNCHANGED <<ringVars, turn>>

\* closeSession: the ring is ended first, while the slot still says who it was.
CloseSession(s) ==
  LET rung == IF Live THEN RingClosed(ses, s) ELSE ses
      told == IF s # SysopSlot /\ ses[s].here THEN NoticeAll(rung, s) ELSE rung
  IN  /\ ses' = [told EXCEPT ![s] = Free]
      /\ IF Live /\ s \in {ring.from, ring.to} THEN Over ELSE UNCHANGED <<ring, owed>>
      /\ UNCHANGED <<seq, limits>>

\* The line drops: readSession.
HangUp(s) == At(s) /\ CloseSession(s) /\ UNCHANGED turn

\* BYE, a time limit, SYSOP from afar while the sysop node is taken, KICK, SHUTDOWN: the send-off, at any point of a pass.
LogOff(s) ==
  /\ InUse(ses, s) /\ ses[s].st # "Closing"
  /\ ses' = [ses EXCEPT ![s].st = "Closing"]
  /\ UNCHANGED <<ringVars, limits, turn>>

\* moveSession: the session and what is filed under its slot number.
MoveSession(s, t, S) ==
  /\ ses' = [S EXCEPT ![t] = S[s], ![s] = Free]
  /\ ring' = [ring EXCEPT !.from = IF @ = s THEN t ELSE @, !.to = IF @ = s THEN t ELSE @]
  /\ used' = [used EXCEPT ![t] = used[s], ![s] = 0]
  /\ gap' = [gap EXCEPT ![t] = gap[s], ![s] = 0]

\* elevate: onto the sysop node when it is free; a local caller becomes a
\* second sysop in place when it is not, and may have had DND on before.
Elevate(s) ==
  /\ At(s) /\ ses[s].st = "Shell" /\ ~ses[s].sysop
  /\ \/ /\ ~InUse(ses, SysopSlot)
        /\ MoveSession(s, SysopSlot,
             Printed([ses EXCEPT ![s].sysop = TRUE, ![s].here = TRUE], s))
     \/ /\ InUse(ses, SysopSlot) /\ s \in Local
        /\ \E h \in BOOLEAN :
             ses' = Printed([ses EXCEPT ![s].sysop = TRUE, ![s].here = h], s)
        /\ UNCHANGED <<ring, limits>>
  /\ UNCHANGED <<seq, owed, turn>>

\* cmdDrop: back to a caller, in place or on the first free node.
Drop(s) ==
  LET dropped == [Printed(ses, s) EXCEPT ![s].sysop = FALSE, ![s].here = TRUE]
      free == {n \in Slots \ {SysopSlot} : ~InUse(ses, n)}
  IN  /\ At(s) /\ ses[s].st = "Shell" /\ ses[s].sysop
      /\ \/ s # SysopSlot /\ ses' = dropped /\ UNCHANGED <<ring, limits>>
         \/ s = SysopSlot /\ free # {} /\ MoveSession(s, Min(free), dropped)
      /\ UNCHANGED <<seq, owed, turn>>

\* SHOW, HIDE, LURK, DND.
Presence(s) ==
  /\ At(s) /\ ses[s].st = "Shell" /\ ses[s].sysop
  /\ ses' = Printed([ses EXCEPT ![s].here = ~@], s)
  /\ UNCHANGED <<ringVars, limits, turn>>

\* From the prompt to somewhere else, and back.  Callers go to the chat room
\* only: nowhere else they can be rings or is rung.
Enter(s) ==
  /\ At(s) /\ ses[s].st = "Shell"
  /\ \E p \in Places :
       /\ p = "room" \/ ses[s].sysop
       /\ ses' = IF p \in {"room", "other"} THEN EnterPlugin(ses, s, p) ELSE Screen(ses, s, p)
  /\ UNCHANGED <<ringVars, limits, turn>>

Leave(s) ==
  /\ At(s) /\ ses[s].st \in {"Plugin", "Form", "Watch", "Snoop"}
  /\ ses' = Screen([ses EXCEPT ![s].owner = "none"], s, "Shell")
  /\ UNCHANGED <<ringVars, limits, turn>>

\* PAGE, a broadcast, mail: to a sysop who could be rung.
Send(s, t) ==
  /\ At(s) /\ ses[s].st = "Shell" /\ t # s
  /\ InUse(ses, t) /\ ses[t].sysop
  /\ ses' = Post(Printed(ses, s), t, [kind |-> "Notice"])
  /\ UNCHANGED <<ringVars, limits, turn>>

-------------------------------------------------------------------------------
(* The caller rings                                                        *)

\* Mutant of MayRing: the board-wide rule is left out.
MayRingAnyway(s) == used[s] < kPerCall /\ (used[s] > 0 => gap[s] = 0)

\* Limiter::check.
MayRing(s) == used[s] < kPerCall /\ (used[s] > 0 => gap[s] = 0) /\ ~Live

AtRinger(s) ==
  /\ At(s) /\ ~ses[s].sysop
  /\ \/ ses[s].st = "Shell"
     \/ ses[s].st = "Plugin" /\ ses[s].owner = "room"

\* cmdOperator with no reason: the core takes the session to ask for one.
AskWhy(s) ==
  /\ AtRinger(s) /\ MayRing(s)
  /\ ses' = Screen(ses, s, "RingWhy")
  /\ UNCHANGED <<ringVars, limits, turn>>

\* ringWhyKey: nothing typed, or somebody else has started ringing meanwhile.
WhyNot(s) ==
  /\ At(s) /\ ses[s].st = "RingWhy"
  /\ ses' = RingBack(ses, s)
  /\ UNCHANGED <<ringVars, limits, turn>>

\* ringStart, from cmdOperator with a reason or from ringWhyKey: spent first,
\* then rung, or left as a note at once when there is nobody to ask.
RingStart(s) ==
  LET spent == [ses EXCEPT ![s].rung = @ + 1, ![s].wait = kGap]
      next  == IF seq = MaxSeq THEN 1 ELSE seq + 1
      d     == RingTarget(ses)
  IN  /\ \/ AtRinger(s)
         \/ At(s) /\ ses[s].st = "RingWhy"
      /\ MayRing(s)
      /\ used' = [used EXCEPT ![s] = @ + 1]
      /\ gap' = [gap EXCEPT ![s] = kGap]
      /\ \/ /\ Targets(ses) = {}
            /\ ses' = IF ses[s].st = "RingWhy" THEN RingBack(spent, s) ELSE Printed(spent, s)
            /\ UNCHANGED ringVars
         \/ /\ Targets(ses) # {}
            /\ seq' = next
            /\ ring' = [from |-> s, to |-> d, shown |-> FALSE, left |-> kRing]
            /\ owed' = owed + 1
            /\ ses' = Screen(Post(spent, d, [kind |-> "Ring", seq |-> next]), s, "Ringing")
      /\ UNCHANGED turn

\* ringingKey: any key stops it, once the first half second (less than a
\* tick) is over.
RingingKey(s) ==
  /\ At(s) /\ ses[s].st = "Ringing" /\ ring.from = s
  /\ ring.left < kRing
  /\ ses' = RingEnd(ses, "Stopped")
  /\ Over
  /\ UNCHANGED <<seq, limits, turn>>

-------------------------------------------------------------------------------
(* The sysop answers                                                       *)

RungHere(s) == Live /\ ring.to = s

\* A key at the question counts once the question is on the screen.
AtQuestion(s) == At(s) /\ ses[s].st = "RingAsk" /\ ~ses[s].out
InRoom(s)     == At(s) /\ ses[s].st = "Plugin" /\ ses[s].owner = "room" /\ ses[s].sysop

\* ringAnswer: both into the room, the caller first.
RingAnswer(s) ==
  /\ \/ AtQuestion(s)
     \/ InRoom(s)
  /\ RungHere(s) /\ ses[ring.from].st = "Ringing"
  /\ ses' = Converse(Converse(RingClear(ses), ring.from), s)
  /\ ring' = NoRing
  /\ owed' = owed - 1
  /\ UNCHANGED <<seq, limits, turn>>

\* ringAskKey: Q and every other key; A when the caller is no longer there or
\* the chat room is not running; any key once the ring is over.
AskLater(s) ==
  /\ AtQuestion(s)
  /\ ses' = RingBack(ses, s)
  /\ UNCHANGED <<ringVars, limits, turn>>

\* D at the question, /o- in the room.
RingDecline(s) ==
  /\ RungHere(s)
  /\ \/ AtQuestion(s) /\ ses' = RingBack(RingEnd(ses, "Declined"), s)
     \/ InRoom(s) /\ ses' = Printed(RingEnd(ses, "Declined"), s)
  /\ Over
  /\ UNCHANGED <<seq, limits, turn>>

\* X at the question: DND.
RingAway(s) ==
  /\ AtQuestion(s) /\ RungHere(s)
  /\ ses' = RingBack(RingEnd([ses EXCEPT ![s].here = FALSE], "Away"), s)
  /\ Over
  /\ UNCHANGED <<seq, limits, turn>>

\* cmdOperator, a sysop's bare O: the question again.
AskAgain(s) ==
  /\ At(s) /\ ses[s].st = "Shell" /\ ses[s].sysop /\ RungHere(s)
  /\ ses' = Ask(ses, s)
  /\ ring' = [ring EXCEPT !.shown = TRUE]
  /\ UNCHANGED <<seq, owed, limits, turn>>

-------------------------------------------------------------------------------
(* A slot's turn ends: serviceSession                                      *)

\* ringLive.
RingLive(s, m) == m.kind = "Ring" /\ RungHere(s) /\ m.seq = seq

\* flush: what was printed goes out now, or in a later pass.
Flush(S, s) == ses' \in {S, [S EXCEPT ![s].out = FALSE]}

Shows(s, k) == \E i \in 1..k : RingLive(s, ses[s].mb[i])

\* Mutant of DeliverIdle: not held back while something is still being printed.
DeliverIdleBusy(s) ==
  /\ ses[s].st \in {"Shell", "Plugin"} /\ ses[s].mb # <<>> /\ ses[s].owner # "room"
  /\ Flush(IF Shows(s, 1) THEN Ask([ses EXCEPT ![s].mb = Tail(@)], s)
           ELSE [ses EXCEPT ![s].mb = Tail(@)], s)
  /\ ring' = [ring EXCEPT !.shown = @ \/ Shows(s, 1)]

\* deliverShell, deliverPlugin: as many messages as the output has room for.
\* A live Ring is the last of them: the question goes up and the rest wait.
\* In the room it is two lines and no question.
DeliverIdle(s) ==
  /\ ses[s].st \in {"Shell", "Plugin"} /\ ~ses[s].out
  /\ \E k \in DOMAIN ses[s].mb :
       LET rest == Printed([ses EXCEPT ![s].mb = SubSeq(@, k + 1, Len(@))], s)
       IN  /\ ses[s].owner # "room" => ~Shows(s, k - 1)
           /\ Flush(IF Shows(s, k) /\ ses[s].owner # "room" THEN Ask(rest, s) ELSE rest, s)
           /\ ring' = [ring EXCEPT !.shown = @ \/ Shows(s, k)]

\* deliverUrgent: the Rings, from among the rest, as a line on the form.
DeliverForm(s) ==
  /\ ses[s].st = "Form" /\ Has(ses[s].mb, {"Ring"})
  /\ Flush(Printed([ses EXCEPT ![s].mb = AllTaken(@, {"Ring"})], s), s)
  /\ ring' = [ring EXCEPT !.shown = @ \/ Shows(s, Len(ses[s].mb))]

\* stopWatch: a Ring stops a refreshing list.
DeliverWatch(s) ==
  /\ ses[s].st = "Watch" /\ Has(ses[s].mb, {"Ring"})
  /\ Flush(Screen(ses, s, "Shell"), s)
  /\ UNCHANGED ring

\* Nothing to deliver, or nowhere to put it yet: a screen is playing, a plugin
\* says not now, the output is full.
DeliverNothing(s) == ses[s].st # "Closing" /\ Flush(ses, s) /\ UNCHANGED ring

NextTurn == turn' = turn + 1

\* serviceSession.
Service(s) ==
  /\ turn = s
  /\ DeliverIdle(s) \/ DeliverForm(s) \/ DeliverWatch(s) \/ DeliverNothing(s)
  /\ NextTurn
  /\ UNCHANGED <<seq, owed, limits>>

\* serviceSession, Closing: the send-off is still going out, or the slot closes.
ServiceClosing(s) ==
  /\ turn = s /\ ses[s].st = "Closing"
  /\ CloseSession(s) \/ UNCHANGED <<ses, ringVars, limits>>
  /\ NextTurn

Ticked(n) == IF n > 0 THEN n - 1 ELSE 0

WhyOverPatient ==                                                             \* mutant
  IF ses[ring.from].st # "Ringing" THEN "HungUp"
  ELSE IF ~ThereToRing(ses, ring.to) \/ ses[ring.to].st = "Closing" THEN "Gone" ELSE "not"

\* serviceRing, and the clock before the next pass.  The caller hears the same
\* for a sysop who went, hid or set DND.
WhyOver ==
  IF ses[ring.from].st # "Ringing" THEN "HungUp"
  ELSE IF ~ThereToRing(ses, ring.to) \/ ses[ring.to].st = "Closing" THEN "Gone"
  ELSE IF ring.left = 0 THEN "NoAnswer" ELSE "not"

ServiceRing(ticks) ==
  LET over == Live /\ WhyOver # "not"
      S == IF over THEN RingEnd(ses, WhyOver) ELSE ses
      R == IF over THEN NoRing ELSE ring
  IN  /\ turn = PassTail
      /\ turn' = 1
      /\ owed' = IF over THEN owed - 1 ELSE owed
      /\ IF ticks
         THEN /\ ses' = [s \in Slots |-> [S[s] EXCEPT !.wait = Ticked(@)]]
              /\ ring' = [R EXCEPT !.left = Ticked(@)]
              /\ gap' = [s \in Slots |-> Ticked(gap[s])]
         ELSE ses' = S /\ ring' = R /\ UNCHANGED gap
      /\ UNCHANGED <<seq, used>>

Key(s) ==
  \/ HangUp(s) \/ Elevate(s) \/ Drop(s) \/ Presence(s) \/ Enter(s) \/ Leave(s)
  \/ \E t \in Slots : Send(s, t)
  \/ AskWhy(s) \/ WhyNot(s) \/ RingStart(s) \/ RingingKey(s)
  \/ RingAnswer(s) \/ AskLater(s) \/ RingDecline(s) \/ RingAway(s) \/ AskAgain(s)

Next ==
  \/ \E s \in Slots :
       Connect(s) \/ LogOff(s) \/ Key(s) \/ Service(s) \/ ServiceClosing(s)
  \/ \E ticks \in BOOLEAN : ServiceRing(ticks)

Spec == Init /\ [][Next]_vars

\* The loop goes round, and the clock with it.
FairSpec ==
  /\ Spec
  /\ \A s \in Slots : WF_vars(Service(s) \/ ServiceClosing(s))
  /\ WF_vars(\E ticks \in BOOLEAN : ServiceRing(ticks))
  /\ SF_vars(ServiceRing(TRUE))

-------------------------------------------------------------------------------
(* Properties                                                              *)

\* "A second ring on top of the first is exactly what the board-wide rule is
\* there to stop" (ringWhyKey): every caller who is waiting on a ring is the
\* one ring_ names, and a ring still waiting in a mailbox is a live one
\* (ringClear); whoever hangs up, moves or hides, neither end of a ring is
\* left behind when it is over.
NothingLeftBehind ==
  \A s \in Slots :
    /\ ses[s].st = "Ringing" => ring.from = s
    /\ \A i \in DOMAIN ses[s].mb :
         ses[s].mb[i].kind = "Ring" => RingLive(s, ses[s].mb[i])

\* Until it has been shown, the ring's notice is in its sysop's mailbox,
\* whatever else was posted there (Mailbox::push) and wherever the sysop moved.
RingIsDelivered == Live /\ ~ring.shown => Has(ses[ring.to].mb, {"Ring"})

\* A key at the question answers the ring the question is about, and only a
\* sysop's key does: a question left up after its ring is over (HIDE and then
\* O, typed ahead) is never taken for the next ring's.
QuestionIsItsRing ==
  \A s \in Slots : ses[s].st = "RingAsk" /\ RungHere(s) => ring.shown /\ ses[s].sysop

\* Every ring that began is answered, or leaves mail or a note, once.
RingsAreSettled == owed = IF Live THEN 1 ELSE 0

\* The allowance is the caller's: it follows them from slot to slot, and
\* nobody has the last caller's.
AllowanceIsTheCallers ==
  \A s \in Slots : InUse(ses, s) =>
    /\ ses[s].rung <= kPerCall
    /\ used[s] = ses[s].rung
    /\ used[s] > 0 => gap[s] = ses[s].wait

\* Nobody rings for ever.
RingingEnds == \A s \in Slots : (ses[s].st = "Ringing") ~> (ses[s].st # "Ringing")
===============================================================================
