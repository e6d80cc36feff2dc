----------------------------- MODULE BulkWindow -----------------------------
(* The receive window of a bulk message (core/link.cpp, BulkRx).  Fragments   *)
(* are put in it by whoever has the radio's frames, the loop or the runner    *)
(* (onFragment, under the engine's lock); the runner takes them out in order  *)
(* and hands them to the owner's sink (pumpBulk, without the lock); the loop  *)
(* cancels a message whose session has gone (dropSess) and hands a finished   *)
(* or cancelled one back (bulkEndCheck).  The two threads share the state,    *)
(* the count taken and the bits of what is there, each an atomic.             *)
EXTENDS Naturals, Sequences

CONSTANTS
  Msgs,     \* the bulk messages, each on a session of its own
  Frags,    \* fragments in a message
  Win,      \* slots in the window (bulkWin_)
  Places    \* the threads that may take the radio's fragments

ASSUME BulkWindowAssumption ==
  Frags \in Nat \ {0, 1} /\ Win \in Nat \ {0} /\ Places \subseteq {"loop", "runner"}

VARIABLES
  place,     \* which thread takes fragments, fixed
  sound,     \* the messages whose CRC will check, fixed
  st,        \* BulkRx::st
  msg,       \* BulkRx's peer, sess and seq: the message that has the window
  consumed,  \* fragments the runner has taken
  have,      \* the slots with a fragment to take
  slot,      \* what is in each slot: <<message, fragment>>
  live,      \* the sessions that have not gone
  taken,     \* the messages acknowledged whole (rxExpect has passed them)
  rx,        \* onFragment: where it is, its fragment and the pair it read
  pumping,   \* pumping_
  pump,      \* pumpBulk: where it is, the fragment it takes, what the sink said
  loop,      \* the loop: where it is and the state it read
  given,     \* history: what the sink was given of each message
  whole,     \* history: the messages the sink was told are whole (bulkFinish)
  ended      \* history: how each message ended for its owner (bulkEnd)

window == <<st, msg, consumed, have, slot>>
fixed  == <<place, sound>>
told   == <<given, whole, ended>>
vars   == <<fixed, window, live, taken, rx, pumping, pump, loop, told>>

Slots == 0 .. Win - 1
SlotOf(f) == f % Win
NoMsg == "none"
Idle == "idle"

\* The locals of a call that is not running.
NoRx == [at |-> Idle, frag |-> 0, consumed |-> 0, have |-> {}]
NoPump == [at |-> Idle, frag |-> 0, ok |-> TRUE]
NoLook == [at |-> Idle, saw |-> "FREE", of |-> NoMsg]

Init ==
  /\ place \in Places /\ sound \in SUBSET Msgs
  /\ st = "FREE" /\ msg = NoMsg /\ consumed = 0 /\ have = {}
  /\ slot = [s \in Slots |-> <<NoMsg, 0>>]
  /\ live = Msgs /\ taken = {}
  /\ rx = NoRx /\ pumping = FALSE /\ pump = NoPump /\ loop = NoLook
  /\ given = [m \in Msgs |-> <<>>] /\ whole = {} /\ ended = [m \in Msgs |-> "no"]

\* The lock, or being the one thread, keeps these apart.
LoopFree == loop.at = Idle /\ rx.at = Idle
TakerFree == LoopFree /\ (place = "runner" => pump.at = Idle)

-----------------------------------------------------------------------------
(* onFragment                                                              *)

Rx(at) == rx' = [rx EXCEPT !.at = at]
RxDone == rx' = NoRx

\* The window's owner: taken by the first fragment to come, whichever it is.
Arrive(m, f) ==
  /\ TakerFree /\ m \in live /\ m \notin taken
  /\ \/ /\ st = "FREE"
        /\ st' = "RECV" /\ msg' = m /\ consumed' = 0 /\ have' = {}
     \/ st \in {"RECV", "BEGUN"} /\ msg = m /\ UNCHANGED <<st, msg, consumed, have>>
  /\ rx' = [rx EXCEPT !.at = "consumed", !.frag = f]
  /\ UNCHANGED <<fixed, slot, live, taken, pumping, pump, loop, told>>

ReadConsumed ==
  /\ rx.at = "consumed"
  /\ rx' = [rx EXCEPT !.at = "have", !.consumed = consumed]
  /\ UNCHANGED <<fixed, window, live, taken, pumping, pump, loop, told>>

ReadHave ==
  /\ rx.at = "have"
  /\ rx' = [rx EXCEPT !.at = "again", !.have = have]
  /\ UNCHANGED <<fixed, window, live, taken, pumping, pump, loop, told>>

PairAsRead == TRUE

\* The pair is one only if nothing was taken while have was read.
PairIsOne == consumed = rx.consumed

\* Taken already, past the window, or there: nothing to keep.
Unwanted == \/ rx.frag < rx.consumed \/ rx.frag >= rx.consumed + Win
            \/ SlotOf(rx.frag) \in rx.have

Decide ==
  /\ rx.at = "again"
  /\ \/ ~PairIsOne /\ Rx("consumed") /\ UNCHANGED <<st, live>>
     \/ PairIsOne /\ Unwanted /\ RxDone /\ UNCHANGED <<st, live>>
     \/ PairIsOne /\ ~Unwanted /\ Rx("copy") /\ UNCHANGED <<st, live>>
     \/ /\ PairIsOne /\ ~Unwanted /\ rx.frag = 0 /\ RxDone   \* bulkBegin says no
        /\ IF place = "runner" THEN st' = "REFUSED" /\ UNCHANGED live
           ELSE st' = "FREE" /\ live' = live \ {msg}
  /\ UNCHANGED <<fixed, msg, consumed, have, slot, taken, pumping, pump, loop, told>>

Copy ==
  /\ rx.at = "copy" /\ Rx("mark")
  /\ slot' = [slot EXCEPT ![SlotOf(rx.frag)] = <<msg, rx.frag>>]
  /\ UNCHANGED <<fixed, st, msg, consumed, have, live, taken, pumping, pump, loop, told>>

Mark ==
  /\ rx.at = "mark" /\ IF rx.frag = 0 THEN Rx("begin") ELSE RxDone
  /\ have' = have \cup {SlotOf(rx.frag)}
  /\ UNCHANGED <<fixed, st, msg, consumed, slot, live, taken, pumping, pump, loop, told>>

Begin ==
  /\ rx.at = "begin" /\ RxDone
  /\ st' = "BEGUN"
  /\ UNCHANGED <<fixed, msg, consumed, have, slot, live, taken, pumping, pump, loop, told>>

-----------------------------------------------------------------------------
(* pumpBulk, on the runner                                                 *)

Pump(at) == pump' = [pump EXCEPT !.at = at]

PumpStart ==
  /\ pump.at = Idle /\ (place = "runner" => rx.at = Idle)
  /\ pumping' = TRUE /\ Pump("state")
  /\ UNCHANGED <<fixed, window, live, taken, rx, loop, told>>

PumpState ==
  /\ pump.at = "state" /\ Pump(IF st = "BEGUN" THEN "next" ELSE "out")
  /\ UNCHANGED <<fixed, window, live, taken, rx, pumping, loop, told>>

PumpNext ==
  /\ pump.at = "next"
  /\ pump' = [pump EXCEPT !.at = IF consumed < Frags THEN "bit" ELSE "out", !.frag = consumed]
  /\ UNCHANGED <<fixed, window, live, taken, rx, pumping, loop, told>>

PumpBit ==
  /\ pump.at = "bit" /\ Pump(IF SlotOf(pump.frag) \in have THEN "give" ELSE "out")
  /\ UNCHANGED <<fixed, window, live, taken, rx, pumping, loop, told>>

\* bulkData: the sink writes it to the card, or cannot.
Give ==
  /\ pump.at = "give"
  /\ given' = [given EXCEPT ![msg] = Append(@, slot[SlotOf(pump.frag)])]
  /\ \E ok \in BOOLEAN : pump' = [pump EXCEPT !.at = "took", !.ok = ok]
  /\ UNCHANGED <<fixed, window, live, taken, rx, pumping, loop, whole, ended>>

\* consumed first, then the slot's bit.
CountTaken ==
  /\ pump.at = "took" /\ Pump("clear")
  /\ consumed' = pump.frag + 1
  /\ UNCHANGED <<fixed, st, msg, have, slot, live, taken, rx, pumping, loop, told>>

AfterClear == IF ~pump.ok THEN "abort" ELSE IF pump.frag + 1 = Frags THEN "finishing"
              ELSE "state"

ClearBit ==
  /\ pump.at = "clear" /\ Pump(AfterClear)
  /\ have' = have \ {SlotOf(pump.frag)}
  /\ UNCHANGED <<fixed, st, msg, consumed, slot, live, taken, rx, pumping, loop, told>>

\* The runner moves the state only from what it expects: the loop may have
\* cancelled the message meanwhile.
Swap(from, to) == st' = IF st = from THEN to ELSE st

PumpAbort ==
  /\ pump.at = "abort" /\ Swap("BEGUN", "ABORT") /\ Pump("out")
  /\ UNCHANGED <<fixed, msg, consumed, have, slot, live, taken, rx, pumping, loop, told>>

PumpFinishing ==
  /\ pump.at = "finishing" /\ Swap("BEGUN", "FINISHING")
  /\ Pump(IF st = "BEGUN" THEN "finish" ELSE "out")
  /\ UNCHANGED <<fixed, msg, consumed, have, slot, live, taken, rx, pumping, loop, told>>

Whole(m) == m \in sound /\ given[m] = [i \in 1..Frags |-> <<m, i - 1>>]

\* bulkFinish, still on the runner: a picture is moved to its place here.
PumpFinish ==
  /\ pump.at = "finish" /\ Pump("verdict")
  /\ whole' = IF Whole(msg) THEN whole \cup {msg} ELSE whole
  /\ UNCHANGED <<fixed, window, live, taken, rx, pumping, loop, given, ended>>

PumpVerdict ==
  /\ pump.at = "verdict" /\ Swap("FINISHING", IF Whole(msg) THEN "OK" ELSE "BAD") /\ Pump("out")
  /\ UNCHANGED <<fixed, msg, consumed, have, slot, live, taken, rx, pumping, loop, told>>

PumpOut ==
  /\ pump.at = "out" /\ pumping' = FALSE /\ pump' = NoPump
  /\ UNCHANGED <<fixed, window, live, taken, rx, loop, told>>

-----------------------------------------------------------------------------
(* The loop                                                                *)

LoopDone == loop' = NoLook

\* dropSess: the session has gone, by RESET, closing, retries or a restart.
DropSess(m) ==
  /\ LoopFree /\ m \in live /\ live' = live \ {m}
  /\ IF msg # m \/ st = "FREE"
     THEN UNCHANGED <<st, loop>>
     ELSE IF st \in {"RECV", "REFUSED"}
     THEN st' = "FREE" /\ UNCHANGED loop
     ELSE loop' = [at |-> "cancel", saw |-> st, of |-> m] /\ UNCHANGED st
  /\ UNCHANGED <<fixed, msg, consumed, have, slot, taken, rx, pumping, pump, told>>

\* compare_exchange_weak to BX_CANCEL, until it takes or there is no need.
Cancel ==
  /\ loop.at = "cancel"
  /\ IF loop.saw \in {"FREE", "CANCEL"} THEN LoopDone /\ UNCHANGED st
     ELSE IF st = loop.saw THEN st' = "CANCEL" /\ LoopDone
     ELSE loop' = [loop EXCEPT !.saw = st] /\ UNCHANGED st
  /\ UNCHANGED <<fixed, msg, consumed, have, slot, live, taken, rx, pumping, pump, told>>

OverExceptAbort(s) == s \in {"CANCEL", "OK", "BAD"}

\* The states a message is handed back from.
Over(s) == s \in {"CANCEL", "OK", "BAD", "ABORT"}

\* bulkEndCheck, with what pumpRx could not say from the runner.
EndCheck ==
  /\ LoopFree
  /\ \/ /\ st = "REFUSED" /\ st' = "FREE" /\ live' = live \ {msg} /\ UNCHANGED loop
     \/ /\ Over(st) /\ loop' = [at |-> "pumping", saw |-> st, of |-> msg]
        /\ UNCHANGED <<st, live>>
  /\ UNCHANGED <<fixed, msg, consumed, have, slot, taken, rx, pumping, pump, told>>

PumpAnywhere == TRUE

\* The runner is out of the message.
PumpIsOut == ~pumping

PumpCheck ==
  /\ loop.at = "pumping"
  /\ IF PumpIsOut THEN loop' = [loop EXCEPT !.at = "end"] ELSE LoopDone
  /\ UNCHANGED <<fixed, window, live, taken, rx, pumping, pump, told>>

\* The window is free, the owner told, and the session moved on or ended.
HandBack ==
  /\ loop.at = "end" /\ LoopDone
  /\ st' = "FREE"
  /\ ended' = [ended EXCEPT ![loop.of] = IF loop.saw = "OK" THEN "ok" ELSE "failed"]
  /\ taken' = IF loop.saw = "OK" /\ loop.of \in live THEN taken \cup {loop.of} ELSE taken
  /\ live' = IF loop.saw = "OK" THEN live ELSE live \ {loop.of}
  /\ UNCHANGED <<fixed, msg, consumed, have, slot, rx, pumping, pump, given, whole>>

-----------------------------------------------------------------------------
OnFragment == ReadConsumed \/ ReadHave \/ Decide \/ Copy \/ Mark \/ Begin
PumpBulk == \/ PumpStart \/ PumpState \/ PumpNext \/ PumpBit \/ Give \/ CountTaken \/ ClearBit
            \/ PumpAbort \/ PumpFinishing \/ PumpFinish \/ PumpVerdict \/ PumpOut
Loop == Cancel \/ EndCheck \/ PumpCheck \/ HandBack

Next == \/ \E m \in Msgs, f \in 0 .. Frags - 1 : Arrive(m, f)
        \/ \E m \in Msgs : DropSess(m)
        \/ OnFragment \/ PumpBulk \/ Loop

\* Both threads run.  pumpBulk leaves at once when the state is not its own and
\* rests till it is called again, and the loop looks every tick, so its look falls
\* in such a rest sooner or later.  Nothing makes a fragment come.
Fairness == /\ WF_vars(OnFragment) /\ WF_vars(PumpBulk) /\ WF_vars(Loop)
            /\ SF_vars(EndCheck /\ PumpIsOut) /\ SF_vars(PumpCheck /\ PumpIsOut)

Spec == Init /\ [][Next]_vars
FairSpec == Spec /\ Fairness

-----------------------------------------------------------------------------
(* Properties                                                              *)

TypeOK ==
  /\ st \in {"FREE", "RECV", "BEGUN", "FINISHING", "OK", "BAD", "ABORT", "CANCEL", "REFUSED"}
  /\ consumed \in 0..Frags /\ have \subseteq Slots
  /\ live \subseteq Msgs /\ taken \subseteq Msgs /\ whole \subseteq Msgs
  /\ rx.at \in {Idle, "consumed", "have", "again", "copy", "mark", "begin"}

\* LINK.md:476: the sink is given a message's fragments in order, each once and
\* each its own, whatever repeats come while the runner moves the window on.
TakenInOrder == \A m \in Msgs : \A i \in DOMAIN given[m] : given[m][i] = <<m, i - 1>>

EndStands(m) ==
  /\ ended[m] # "no" => /\ ended'[m] = ended[m] /\ given'[m] = given[m]
                        /\ (m \in whole') = (m \in whole)
  /\ ended[m] = "no" /\ ended'[m] = "ok" => Whole(m) /\ m \in whole

\* bulkEnd is the last word on a message: it is said once, nothing more goes to
\* the sink after it, and a yes means the sink had all of it and was told so.
EndIsTheLastWord == [][\A m \in Msgs : EndStands(m)]_vars

\* A window that has left the way to a whole message, or whose session has gone,
\* is free again for another message.
WindowComesBack == (st \notin {"FREE", "RECV", "BEGUN"} \/ (st # "FREE" /\ msg \notin live)) ~> st = "FREE"
=============================================================================
