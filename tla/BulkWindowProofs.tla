-------------------------- MODULE BulkWindowProofs --------------------------
(* What the sink of a bulk message is given, and what its owner is told, for  *)
(* any number of messages and fragments and any window: TakenInOrder and      *)
(* EndIsTheLastWord of BulkWindow.  The threads are kept apart by what each   *)
(* can find the state in while the other is inside the message.              *)
EXTENDS BulkWindow, Integers, TLAPS

States == {"FREE", "RECV", "BEGUN", "FINISHING", "OK", "BAD", "ABORT", "CANCEL", "REFUSED"}
RxAts  == {Idle, "consumed", "have", "again", "copy", "mark", "begin"}
Resting == {Idle, "state", "out"}       \* pumpBulk is outside the message
PumpAts == Resting \cup {"next", "bit", "give", "took", "clear", "abort",
                         "finishing", "finish", "verdict"}
LoopAts == {Idle, "cancel", "pumping", "end"}
Fragments == (Msgs \cup {NoMsg}) \X Nat

RxType    == [at : RxAts, frag : 0..Frags-1, consumed : 0..Frags, have : SUBSET Slots]
PumpType  == [at : PumpAts, frag : 0..Frags, ok : BOOLEAN]
LoopType  == [at : LoopAts, saw : States, of : Msgs \cup {NoMsg}]
SlotsType == [Slots -> Fragments]
GivenType == [Msgs -> Seq(Fragments)]
EndedType == [Msgs -> {"no", "ok", "failed"}]

Types ==
  /\ st \in States /\ msg \in Msgs \cup {NoMsg} /\ consumed \in 0..Frags
  /\ have \subseteq Slots /\ slot \in SlotsType
  /\ live \subseteq Msgs /\ taken \subseteq Msgs /\ whole \subseteq Msgs
  /\ rx \in RxType /\ pump \in PumpType /\ loop \in LoopType
  /\ pumping \in BOOLEAN /\ (pumping <=> pump.at # Idle)
  /\ given \in GivenType /\ ended \in EndedType

\* The one who puts fragments in: what it has read is still so where it counts.
RxInv ==
  /\ rx.at # Idle => /\ loop.at = Idle
                     /\ st \in {"RECV", "BEGUN", "FINISHING", "OK", "BAD", "ABORT"}
  /\ rx.at \in {"have", "again"} => rx.consumed <= consumed
  /\ rx.at = "again" => have \subseteq rx.have
  /\ rx.at \in {"copy", "mark"} => /\ consumed <= rx.frag /\ rx.frag < consumed + Win
                                   /\ SlotOf(rx.frag) \notin have
                                   /\ rx.frag = 0 => st = "RECV"
  /\ rx.at = "mark" => slot[SlotOf(rx.frag)] = <<msg, rx.frag>>
  /\ rx.at = "begin" => st = "RECV" /\ rx.frag = 0 /\ SlotOf(0) \in have

\* Where the runner can be in each state, and what it is doing there.
PumpInv ==
  /\ st \in {"FREE", "RECV", "REFUSED", "OK", "BAD", "ABORT"} => pump.at \in Resting
  /\ st = "FINISHING" <=> (pump.at \in {"finish", "verdict"} /\ st # "CANCEL")
  /\ pump.at \in {"bit", "give", "took"} => pump.frag = consumed /\ consumed < Frags
  /\ pump.at \in {"clear", "abort", "finishing", "finish", "verdict"} => pump.frag + 1 = consumed
  /\ pump.at \in {"finishing", "finish", "verdict"} => consumed = Frags
  /\ pump.at \in {"give", "took", "clear"} => SlotOf(pump.frag) \in have
  /\ pump.at = "verdict" /\ Whole(msg) => msg \in whole

\* What is in the window.
Cleared(s) == pump.at = "clear" /\ s = SlotOf(pump.frag)
Holds == \A s \in have, f \in Nat :
           consumed <= f /\ f < consumed + Win /\ SlotOf(f) = s /\ ~Cleared(s)
             => slot[s] = <<msg, f>>
WindowInv ==
  /\ st # "FREE" => Holds
  /\ st = "RECV" => consumed = 0
  /\ st \in {"BEGUN", "FINISHING", "OK", "BAD", "ABORT",
      "CANCEL"} /\ consumed = 0 => SlotOf(0) \in have

\* Whose window it is, and what its owner and its sink have had.
OwnerInv ==
  /\ st # "FREE" => /\ msg \in Msgs /\ msg \notin taken /\ ended[msg] = "no"
                    /\ Len(given[msg]) = IF pump.at = "took" THEN consumed + 1 ELSE consumed
  /\ \A m \in Msgs : m \in live /\ m \notin taken /\ (st # "FREE" => m # msg)
                       => given[m] = <<>> /\ ended[m] = "no"
  /\ st = "OK" => Whole(msg) /\ msg \in whole

\* The loop acts on the state it read.
LoopInv ==
  /\ loop.at = "cancel" => st \notin {"FREE", "RECV", "REFUSED"}
  /\ loop.at \in {"pumping", "end"} => st = loop.saw /\ Over(st) /\ msg = loop.of
  /\ loop.at = "end" => pump.at \in Resting

WinInv == Types /\ RxInv /\ PumpInv /\ WindowInv /\ OwnerInv /\ LoopInv /\ TakenInOrder

-----------------------------------------------------------------------------
(* Slots                                                                   *)

\* A multiple more is a whole window more.
LEMMA Multiples ==
  ASSUME NEW w \in Nat \ {0}, NEW p \in Nat, NEW q \in Nat, p > q
  PROVE  w * p >= w * q + w
<1>1. p - q - 1 \in Nat  OBVIOUS
<1>2. w * (p - q - 1) \in Nat  BY <1>1
<1>3. w * (p - q - 1) = w * p - w * q - w  BY <1>1
<1> QED BY <1>2, <1>3

\* Two fragments less than a window apart have the same slot only if they are one.
LEMMA SameSlot ==
  ASSUME NEW f \in Nat, NEW g \in Nat, SlotOf(f) = SlotOf(g), f < g + Win, g < f + Win
  PROVE  f = g
<1> USE BulkWindowAssumption DEF SlotOf
<1>1. /\ f = Win * (f \div Win) + (f % Win) /\ g = Win * (g \div Win) + (g % Win)
      /\ f \div Win \in Nat /\ g \div Win \in Nat /\ f % Win \in Nat
  OBVIOUS
<1> DEFINE p == f \div Win
           q == g \div Win
<1>2. CASE p > q
  <2>1. Win * p >= Win * q + Win  BY <1>1, <1>2, Multiples
  <2> QED BY <1>1, <2>1
<1>3. CASE q > p
  <2>1. Win * q >= Win * p + Win  BY <1>1, <1>3, Multiples
  <2> QED BY <1>1, <2>1
<1>4. CASE p = q  BY <1>1, <1>4
<1> QED BY <1>1, <1>2, <1>3, <1>4

\* A window further on is the same slot.
LEMMA NextSlot ==
  ASSUME NEW f \in Nat
  PROVE  SlotOf(f + Win) = SlotOf(f)
<1> USE BulkWindowAssumption DEF SlotOf
<1> DEFINE p == (f + Win) \div Win
           q == f \div Win
<1>1. f + Win = Win * p + ((f + Win) % Win) /\ p \in Nat /\ (f + Win) % Win \in 0 .. Win - 1
  OBVIOUS
<1>2. f = Win * q + (f % Win) /\ q \in Nat /\ f % Win \in 0 .. Win - 1
  OBVIOUS
<1>3. Win * p \in Nat /\ Win * q \in Nat  BY <1>1, <1>2
<1>4. CASE p > q + 1
  <2>1. Win * p >= Win * (q + 1) + Win  BY <1>1, <1>2, <1>4, Multiples
  <2>2. Win * (q + 1) = Win * q + Win  BY <1>2
  <2> QED BY <1>1, <1>2, <1>3, <2>1, <2>2
<1>5. CASE q >= p
  <2>1. Win * q >= Win * p  BY <1>1, <1>2, <1>5, Multiples
  <2> QED BY <1>1, <1>2, <1>3, <2>1
<1>6. CASE p = q + 1
  <2>1. Win * p = Win * q + Win  BY <1>2, <1>6
  <2> QED BY <1>1, <1>2, <1>3, <2>1
<1> QED BY <1>1, <1>2, <1>4, <1>5, <1>6

\* A fragment has a slot of the window.
LEMMA SlotType ==
  ASSUME NEW f \in Nat
  PROVE  SlotOf(f) \in Slots
BY BulkWindowAssumption DEF SlotOf, Slots

-----------------------------------------------------------------------------
(* onFragment's steps                                                      *)
\* A free window is emptied for the first fragment to come.
LEMMA ArriveStep ==
  ASSUME WinInv, NEW m \in Msgs, NEW f \in 0..Frags-1, Arrive(m, f)
  PROVE  WinInv'
<1> USE BulkWindowAssumption DEF WinInv, Arrive, TakerFree, LoopFree, Types, Resting, Idle,
    fixed, window, told, Slots
<1>1. Types'
  <2>1. rx' \in RxType  BY DEF RxType, RxAts
  <2> QED BY <2>1, SlotType DEF States
<1>2. RxInv'  BY DEF RxInv
<1>3. PumpInv'  BY DEF PumpInv
<1>4. WindowInv'  BY DEF WindowInv, Holds, Cleared
<1>5. OwnerInv'  BY DEF PumpInv, OwnerInv
<1>6. LoopInv'  BY DEF LoopInv
<1>7. TakenInOrder'  BY DEF TakenInOrder
<1> QED BY <1>1, <1>2, <1>3, <1>4, <1>5, <1>6, <1>7

\* What is read of consumed is a lower bound from then on.
LEMMA ReadConsumedStep ==
  ASSUME WinInv, ReadConsumed
  PROVE  WinInv'
<1> USE BulkWindowAssumption DEF WinInv, ReadConsumed, Types, Resting, Idle, fixed, window, told,
    Slots
<1>1. Types'
  <2>1. rx' \in RxType  BY DEF RxType, RxAts
  <2> QED BY <2>1, SlotType DEF States
<1>2. RxInv'  BY DEF RxInv
<1>3. PumpInv'  BY DEF PumpInv, Whole
<1>4. WindowInv'  BY DEF WindowInv, Holds, Cleared
<1>5. OwnerInv'  BY DEF OwnerInv, Whole
<1>6. LoopInv'  BY DEF LoopInv
<1>7. TakenInOrder'  BY DEF TakenInOrder
<1> QED BY <1>1, <1>2, <1>3, <1>4, <1>5, <1>6, <1>7

\* The runner may take bits away after this read and nobody else adds any.
LEMMA ReadHaveStep ==
  ASSUME WinInv, ReadHave
  PROVE  WinInv'
<1> USE BulkWindowAssumption DEF WinInv, ReadHave, Types, Resting, Idle, fixed, window, told, Slots
<1>1. Types'
  <2>1. rx' \in RxType  BY DEF RxType, RxAts
  <2> QED BY <2>1, SlotType DEF States
<1>2. RxInv'  BY DEF RxInv
<1>3. PumpInv'  BY DEF PumpInv, Whole
<1>4. WindowInv'  BY DEF WindowInv, Holds, Cleared
<1>5. OwnerInv'  BY DEF OwnerInv, Whole
<1>6. LoopInv'  BY DEF LoopInv
<1>7. TakenInOrder'  BY DEF TakenInOrder
<1> QED BY <1>1, <1>2, <1>3, <1>4, <1>5, <1>6, <1>7

\* If consumed has not moved, the slot was free when have was read and still is.
LEMMA DecideStep ==
  ASSUME WinInv, Decide
  PROVE  WinInv'
<1> USE BulkWindowAssumption DEF WinInv, Decide, PairIsOne, Unwanted, Rx, RxDone, NoRx, Types,
    Resting, Idle, fixed, window, told, Slots
<1>1. Types'
  <2>1. rx' \in RxType  BY DEF RxType, RxAts
  <2> QED BY <2>1, SlotType DEF States
<1>2. RxInv'  BY DEF RxInv, WindowInv, RxType
<1>3. PumpInv'  BY DEF RxInv, PumpInv, WindowInv, Whole
<1>4. WindowInv'  BY DEF RxInv, WindowInv, Holds, Cleared
<1>5. OwnerInv'  BY DEF RxInv, OwnerInv, Whole
<1>6. LoopInv'  BY DEF RxInv, LoopInv
<1>7. TakenInOrder'  BY DEF TakenInOrder
<1> QED BY <1>1, <1>2, <1>3, <1>4, <1>5, <1>6, <1>7

\* The slot copied to is free: the runner is not reading it.
LEMMA CopyStep ==
  ASSUME WinInv, Copy
  PROVE  WinInv'
<1> USE BulkWindowAssumption DEF WinInv, Copy, Rx, Types, Resting, Idle, fixed, window, told, Slots
<1>1. Types'
  <2>1. rx' \in RxType  BY DEF RxType, RxAts
  <2>2. slot' \in SlotsType  BY SlotType DEF SlotsType, Fragments, RxType
  <2> QED BY <2>1, <2>2, SlotType DEF States
<1>2. RxInv'
  <2>1. SlotOf(rx.frag) \in Slots  BY SlotType DEF RxType
  <2>2. slot'[SlotOf(rx.frag)] = <<msg, rx.frag>>  BY <2>1 DEF SlotsType
  <2> QED BY <2>2 DEF RxInv, RxType
<1>3. PumpInv'  BY DEF PumpInv, Whole
<1>4. WindowInv'  BY DEF RxInv, WindowInv, Holds, Cleared
<1>5. OwnerInv'  BY DEF OwnerInv, Whole
<1>6. LoopInv'  BY DEF LoopInv
<1>7. TakenInOrder'  BY DEF TakenInOrder
<1> QED BY <1>1, <1>2, <1>3, <1>4, <1>5, <1>6, <1>7

\* The marked slot holds the one fragment of the window that has this slot.
LEMMA MarkStep ==
  ASSUME WinInv, Mark
  PROVE  WinInv'
<1> USE BulkWindowAssumption DEF WinInv, Mark, Rx, RxDone, NoRx, Types, Resting, Idle, fixed,
    window, told, Slots
<1>1. Types'
  <2>1. rx' \in RxType  BY DEF RxType, RxAts
  <2>2. have' \subseteq Slots  BY SlotType DEF RxType
  <2> QED BY <2>1, <2>2
<1>2. RxInv'  BY DEF RxInv, RxType
<1>3. PumpInv'  BY DEF PumpInv, Whole
<1>4. WindowInv'
  <2> DEFINE r == rx.frag
  <2>1. /\ st # "FREE" /\ r \in Nat /\ consumed \in Nat /\ consumed <= r /\ r < consumed + Win
        /\ slot[SlotOf(r)] = <<msg, r>> /\ have' = have \cup {SlotOf(r)}
        /\ UNCHANGED <<st, msg, consumed, slot, pump>>
    BY DEF RxInv, RxType
  <2>2. Holds  BY <2>1 DEF WindowInv
  <2>3. Holds'
    <3> SUFFICES ASSUME NEW s \in have', NEW g \in Nat, consumed <= g, g < consumed + Win,
                        SlotOf(g) = s, ~Cleared(s)
                 PROVE  slot[s] = <<msg, g>>
      BY <2>1 DEF Holds, Cleared
    <3>1. CASE s \in have  BY <2>2, <3>1 DEF Holds
    <3>2. CASE s = SlotOf(r)
      <4>1. g = r  BY <2>1, <3>2, SameSlot
      <4> QED BY <2>1, <3>2, <4>1
    <3> QED BY <2>1, <3>1, <3>2
  <2> QED BY <2>1, <2>3 DEF WindowInv
<1>5. OwnerInv'  BY DEF OwnerInv, Whole
<1>6. LoopInv'  BY DEF LoopInv
<1>7. TakenInOrder'  BY DEF TakenInOrder
<1> QED BY <1>1, <1>2, <1>3, <1>4, <1>5, <1>6, <1>7

\* The message has begun and its first fragment is there.
LEMMA BeginStep ==
  ASSUME WinInv, Begin
  PROVE  WinInv'
<1> USE BulkWindowAssumption DEF WinInv, Begin, RxDone, NoRx, Types, Resting, Idle, fixed,
    window, told, Slots
<1>1. Types'
  <2>1. rx' \in RxType  BY DEF RxType, RxAts
  <2> QED BY <2>1, SlotType DEF States
<1>2. RxInv'  BY DEF RxInv
<1>3. PumpInv'  BY DEF RxInv, PumpInv
<1>4. WindowInv'  BY DEF RxInv, WindowInv, Holds, Cleared
<1>5. OwnerInv'  BY DEF RxInv, OwnerInv
<1>6. LoopInv'  BY DEF RxInv, LoopInv
<1>7. TakenInOrder'  BY DEF TakenInOrder
<1> QED BY <1>1, <1>2, <1>3, <1>4, <1>5, <1>6, <1>7

-----------------------------------------------------------------------------
(* pumpBulk's steps                                                        *)
\* Nothing but the flag is touched.
LEMMA PumpStartStep ==
  ASSUME WinInv, PumpStart
  PROVE  WinInv'
<1> USE BulkWindowAssumption DEF WinInv, PumpStart, Pump, Types, Resting, Idle, fixed, window,
    told, Slots
<1>1. Types'
  <2>1. pump' \in PumpType  BY DEF PumpType, PumpAts
  <2> QED BY <2>1, SlotType DEF States, PumpType
<1>2. RxInv'  BY DEF RxInv
<1>3. PumpInv'  BY DEF PumpInv
<1>4. WindowInv'  BY DEF WindowInv, Holds, Cleared
<1>5. OwnerInv'  BY DEF OwnerInv, Whole
<1>6. LoopInv'  BY DEF LoopInv
<1>7. TakenInOrder'  BY DEF TakenInOrder
<1> QED BY <1>1, <1>2, <1>3, <1>4, <1>5, <1>6, <1>7

\* The runner goes on only in a message that has begun.
LEMMA PumpStateStep ==
  ASSUME WinInv, PumpState
  PROVE  WinInv'
<1> USE BulkWindowAssumption DEF WinInv, PumpState, Pump, Types, Resting, Idle, fixed, window,
    told, Slots
<1>1. Types'
  <2>1. pump' \in PumpType  BY DEF PumpType, PumpAts
  <2> QED BY <2>1, SlotType DEF States, PumpType
<1>2. RxInv'  BY DEF RxInv
<1>3. PumpInv'  BY DEF PumpInv
<1>4. WindowInv'  BY DEF WindowInv, Holds, Cleared
<1>5. OwnerInv'  BY DEF OwnerInv, Whole
<1>6. LoopInv'  BY DEF LoopInv, Over
<1>7. TakenInOrder'  BY DEF TakenInOrder
<1> QED BY <1>1, <1>2, <1>3, <1>4, <1>5, <1>6, <1>7

\* The next fragment is the one consumed counts up to: only the runner moves it.
LEMMA PumpNextStep ==
  ASSUME WinInv, PumpNext
  PROVE  WinInv'
<1> USE BulkWindowAssumption DEF WinInv, PumpNext, Types, Resting, Idle, fixed, window, told, Slots
<1>1. Types'
  <2>1. pump' \in PumpType  BY DEF PumpType, PumpAts
  <2> QED BY <2>1, SlotType DEF States, PumpType
<1>2. RxInv'  BY DEF RxInv
<1>3. PumpInv'  BY DEF PumpInv
<1>4. WindowInv'  BY DEF WindowInv, Holds, Cleared
<1>5. OwnerInv'  BY DEF OwnerInv, Whole
<1>6. LoopInv'  BY DEF LoopInv
<1>7. TakenInOrder'  BY DEF TakenInOrder
<1> QED BY <1>1, <1>2, <1>3, <1>4, <1>5, <1>6, <1>7

\* A set bit stays: only the runner clears it.
LEMMA PumpBitStep ==
  ASSUME WinInv, PumpBit
  PROVE  WinInv'
<1> USE BulkWindowAssumption DEF WinInv, PumpBit, Pump, Types, Resting, Idle, fixed, window,
    told, Slots
<1>1. Types'
  <2>1. pump' \in PumpType  BY DEF PumpType, PumpAts
  <2> QED BY <2>1, SlotType DEF States, PumpType
<1>2. RxInv'  BY DEF RxInv
<1>3. PumpInv'  BY DEF PumpInv
<1>4. WindowInv'  BY DEF WindowInv, Holds, Cleared
<1>5. OwnerInv'  BY DEF OwnerInv, Whole
<1>6. LoopInv'  BY DEF LoopInv
<1>7. TakenInOrder'  BY DEF TakenInOrder
<1> QED BY <1>1, <1>2, <1>3, <1>4, <1>5, <1>6, <1>7

\* The slot given is the next fragment of its message.
LEMMA GiveStep ==
  ASSUME WinInv, Give
  PROVE  WinInv'
<1> USE BulkWindowAssumption DEF WinInv, Give, Types, Resting, Idle, fixed, window, told, Slots
<1>0. /\ st # "FREE" /\ msg \in Msgs /\ ended[msg] = "no" /\ Len(given[msg]) = consumed
      /\ pump.frag = consumed /\ consumed \in Nat /\ SlotOf(consumed) \in have
      /\ slot[SlotOf(consumed)] = <<msg, consumed>> /\ given[msg] \in Seq(Fragments)
  <2>1. /\ st # "FREE" /\ pump.frag = consumed /\ consumed \in Nat /\ SlotOf(consumed) \in have
    BY DEF PumpInv, PumpType
  <2>2. msg \in Msgs /\ ended[msg] = "no" /\ Len(given[msg]) = consumed  BY <2>1 DEF OwnerInv
  <2>3. slot[SlotOf(consumed)] = <<msg, consumed>>  BY <2>1 DEF WindowInv, Holds, Cleared
  <2> QED BY <2>1, <2>2, <2>3 DEF GivenType
<1>1. Types'
  <2>1. pump' \in PumpType  BY DEF PumpType, PumpAts
  <2>2. given' \in GivenType
    <3>1. slot[SlotOf(pump.frag)] \in Fragments  BY <1>0 DEF Fragments
    <3>2. Append(given[msg], slot[SlotOf(pump.frag)]) \in Seq(Fragments)  BY <1>0, <3>1
    <3> QED BY <3>2 DEF GivenType
  <2> QED BY <2>1, <2>2 DEF States, PumpType
<1>2. RxInv'  BY DEF RxInv
<1>3. PumpInv'  BY DEF PumpInv
<1>4. WindowInv'  BY DEF WindowInv, Holds, Cleared
<1>5. OwnerInv'
  <2>1. given'[msg] = Append(given[msg], <<msg, consumed>>)
        /\ \A m \in Msgs : m # msg => given'[m] = given[m]
    BY <1>0 DEF GivenType
  <2>2. Len(given'[msg]) = consumed + 1  BY <1>0, <2>1
  <2>3. pump'.at = "took" /\ st # "OK"  BY DEF PumpInv
  <2> QED BY <1>0, <2>1, <2>2, <2>3 DEF OwnerInv
<1>6. LoopInv'  BY DEF LoopInv
<1>7. TakenInOrder'
  <2>1. given'[msg] = Append(given[msg], <<msg, consumed>>)
        /\ \A m \in Msgs : m # msg => given'[m] = given[m]
    BY <1>0 DEF GivenType
  <2>2. \A i \in DOMAIN given'[msg] : given'[msg][i] = <<msg, i - 1>>
    <3>1. \A i \in 1..consumed : given[msg][i] = <<msg, i - 1>>  BY <1>0 DEF TakenInOrder
    <3>2. DOMAIN given'[msg] = 1..consumed + 1  BY <1>0, <2>1
    <3>3. \A i \in 1..consumed : given'[msg][i] = given[msg][i]  BY <1>0
    <3>4. given'[msg][consumed + 1] = <<msg, consumed>>  BY <1>0, <2>1
    <3> QED BY <1>0, <3>1, <3>2, <3>3, <3>4
  <2> QED BY <2>1, <2>2 DEF TakenInOrder
<1> QED BY <1>1, <1>2, <1>3, <1>4, <1>5, <1>6, <1>7

\* The fragment is counted as taken while its bit still stands.
LEMMA CountTakenStep ==
  ASSUME WinInv, CountTaken
  PROVE  WinInv'
<1> USE BulkWindowAssumption DEF WinInv, CountTaken, Pump, Types, Resting, Idle, fixed, window,
    told, Slots
<1>1. Types'
  <2>1. pump' \in PumpType  BY DEF PumpType, PumpAts
  <2>2. consumed' \in 0..Frags  BY DEF PumpInv
  <2> QED BY <2>1, <2>2 DEF PumpType
<1>2. RxInv'  BY DEF RxInv, PumpInv, RxType
<1>3. PumpInv'  BY DEF PumpInv
<1>4. WindowInv'
  <2>1. /\ st \notin {"FREE", "RECV"} /\ pump.frag = consumed /\ consumed \in Nat
        /\ pump'.at = "clear" /\ pump'.frag = consumed /\ consumed' = consumed + 1
        /\ UNCHANGED <<st, msg, have, slot>>
    BY DEF PumpInv, PumpType
  <2>2. Holds /\ ~\E s : Cleared(s)  BY <2>1 DEF WindowInv, Cleared
  <2>3. Holds'
    <3> SUFFICES ASSUME NEW s \in have, NEW g \in Nat, consumed + 1 <= g, g < consumed + 1 + Win,
                        SlotOf(g) = s, s # SlotOf(consumed)
                 PROVE  slot[s] = <<msg, g>>
      BY <2>1 DEF Holds, Cleared
    <3>1. g # consumed + Win  BY NextSlot
    <3> QED BY <2>1, <2>2, <3>1 DEF Holds
  <2> QED BY <2>1, <2>3 DEF WindowInv
<1>5. OwnerInv'  BY DEF PumpInv, OwnerInv
<1>6. LoopInv'  BY DEF LoopInv
<1>7. TakenInOrder'  BY DEF TakenInOrder
<1> QED BY <1>1, <1>2, <1>3, <1>4, <1>5, <1>6, <1>7

\* The slot is free for the fragment one window further on.
LEMMA ClearBitStep ==
  ASSUME WinInv, ClearBit
  PROVE  WinInv'
<1> USE BulkWindowAssumption DEF WinInv, ClearBit, Pump, AfterClear, Types, Resting, Idle, fixed,
    window, told, Slots
<1>1. Types'
  <2>1. pump' \in PumpType  BY DEF PumpType, PumpAts
  <2> QED BY <2>1, SlotType DEF States, PumpType
<1>2. RxInv'  BY DEF RxInv, PumpInv
<1>3. PumpInv'  BY DEF PumpInv
<1>4. WindowInv'  BY DEF PumpInv, WindowInv, Holds, Cleared, PumpType
<1>5. OwnerInv'  BY DEF OwnerInv, Whole
<1>6. LoopInv'  BY DEF LoopInv
<1>7. TakenInOrder'  BY DEF TakenInOrder
<1> QED BY <1>1, <1>2, <1>3, <1>4, <1>5, <1>6, <1>7

\* A message the sink could not write is over, or cancelled already.
LEMMA PumpAbortStep ==
  ASSUME WinInv, PumpAbort
  PROVE  WinInv'
<1> USE BulkWindowAssumption DEF WinInv, PumpAbort, Pump, Swap, Types, Resting, Idle, fixed,
    window, told, Slots
<1>1. Types'
  <2>1. pump' \in PumpType  BY DEF PumpType, PumpAts
  <2> QED BY <2>1, SlotType DEF States, PumpType
<1>2. RxInv'  BY DEF RxInv
<1>3. PumpInv'  BY DEF PumpInv
<1>4. WindowInv'  BY DEF WindowInv, Holds, Cleared
<1>5. OwnerInv'  BY DEF OwnerInv, Whole
<1>6. LoopInv'  BY DEF LoopInv, Over
<1>7. TakenInOrder'  BY DEF TakenInOrder
<1> QED BY <1>1, <1>2, <1>3, <1>4, <1>5, <1>6, <1>7

\* The last fragment was taken, unless the loop has cancelled.
LEMMA PumpFinishingStep ==
  ASSUME WinInv, PumpFinishing
  PROVE  WinInv'
<1> USE BulkWindowAssumption DEF WinInv, PumpFinishing, Pump, Swap, Types, Resting, Idle, fixed,
    window, told, Slots
<1>1. Types'
  <2>1. pump' \in PumpType  BY DEF PumpType, PumpAts
  <2> QED BY <2>1, SlotType DEF States, PumpType
<1>2. RxInv'  BY DEF RxInv
<1>3. PumpInv'  BY DEF PumpInv
<1>4. WindowInv'  BY DEF WindowInv, Holds, Cleared
<1>5. OwnerInv'  BY DEF OwnerInv, Whole
<1>6. LoopInv'  BY DEF LoopInv, Over
<1>7. TakenInOrder'  BY DEF TakenInOrder
<1> QED BY <1>1, <1>2, <1>3, <1>4, <1>5, <1>6, <1>7

\* The sink is told before the state says so.
LEMMA PumpFinishStep ==
  ASSUME WinInv, PumpFinish
  PROVE  WinInv'
<1> USE BulkWindowAssumption DEF WinInv, PumpFinish, Pump, Types, Resting, Idle, fixed, window,
    told, Slots
<1>1. Types'
  <2>1. pump' \in PumpType  BY DEF PumpType, PumpAts
  <2>2. whole' \subseteq Msgs  BY DEF PumpInv, OwnerInv
  <2> QED BY <2>1, <2>2 DEF PumpType
<1>2. RxInv'  BY DEF RxInv
<1>3. PumpInv'  BY DEF PumpInv, Whole
<1>4. WindowInv'  BY DEF WindowInv, Holds, Cleared
<1>5. OwnerInv'  BY DEF OwnerInv, Whole
<1>6. LoopInv'  BY DEF LoopInv
<1>7. TakenInOrder'  BY DEF TakenInOrder
<1> QED BY <1>1, <1>2, <1>3, <1>4, <1>5, <1>6, <1>7

\* OK is said only of a message the sink was told is whole.
LEMMA PumpVerdictStep ==
  ASSUME WinInv, PumpVerdict
  PROVE  WinInv'
<1> USE BulkWindowAssumption DEF WinInv, PumpVerdict, Pump, Swap, Types, Resting, Idle, fixed,
    window, told, Slots
<1>1. Types'
  <2>1. pump' \in PumpType  BY DEF PumpType, PumpAts
  <2> QED BY <2>1, SlotType DEF States, PumpType
<1>2. RxInv'  BY DEF RxInv
<1>3. PumpInv'  BY DEF PumpInv
<1>4. WindowInv'  BY DEF WindowInv, Holds, Cleared
<1>5. OwnerInv'  BY DEF PumpInv, OwnerInv, Whole
<1>6. LoopInv'  BY DEF LoopInv, Over
<1>7. TakenInOrder'  BY DEF TakenInOrder
<1> QED BY <1>1, <1>2, <1>3, <1>4, <1>5, <1>6, <1>7

\* Outside the message nothing is known of it and nothing is needed.
LEMMA PumpOutStep ==
  ASSUME WinInv, PumpOut
  PROVE  WinInv'
<1> USE BulkWindowAssumption DEF WinInv, PumpOut, NoPump, Types, Resting, Idle, fixed, window,
    told, Slots
<1>1. Types'
  <2>1. pump' \in PumpType  BY DEF PumpType, PumpAts
  <2> QED BY <2>1, SlotType DEF States, PumpType
<1>2. RxInv'  BY DEF RxInv
<1>3. PumpInv'  BY DEF PumpInv
<1>4. WindowInv'  BY DEF WindowInv, Holds, Cleared
<1>5. OwnerInv'  BY DEF OwnerInv, Whole
<1>6. LoopInv'  BY DEF LoopInv
<1>7. TakenInOrder'  BY DEF TakenInOrder
<1> QED BY <1>1, <1>2, <1>3, <1>4, <1>5, <1>6, <1>7

-----------------------------------------------------------------------------
(* The loop's steps                                                        *)
\* A session goes: the message is freed at once or marked to be cancelled.
LEMMA DropSessStep ==
  ASSUME WinInv, NEW m \in Msgs, DropSess(m)
  PROVE  WinInv'
<1> USE BulkWindowAssumption DEF WinInv, DropSess, LoopFree, Types, Resting, Idle, fixed, window,
    told, Slots
<1>1. Types'
  <2>1. loop' \in LoopType  BY DEF LoopType, LoopAts
  <2> QED BY <2>1, SlotType DEF States
<1>2. RxInv'  BY DEF RxInv
<1>3. PumpInv'  BY DEF PumpInv, Whole
<1>4. WindowInv'  BY DEF WindowInv, Holds, Cleared
<1>5. OwnerInv'  BY DEF OwnerInv, Whole
<1>6. LoopInv'  BY DEF LoopInv
<1>7. TakenInOrder'  BY DEF TakenInOrder
<1> QED BY <1>1, <1>2, <1>3, <1>4, <1>5, <1>6, <1>7

\* The swap takes only if the state is still the one read.
LEMMA CancelStep ==
  ASSUME WinInv, Cancel
  PROVE  WinInv'
<1> USE BulkWindowAssumption DEF WinInv, Cancel, LoopDone, NoLook, Types, Resting, Idle, fixed,
    window, told, Slots
<1>1. Types'
  <2>1. loop' \in LoopType  BY DEF LoopType, LoopAts, States
  <2> QED BY <2>1, SlotType DEF States
<1>2. RxInv'  BY DEF RxInv
<1>3. PumpInv'  BY DEF PumpInv, Whole
<1>4. WindowInv'
  <2>1. /\ st \notin {"FREE", "RECV", "REFUSED"} /\ st' \in {st, "CANCEL"}
        /\ UNCHANGED <<msg, consumed, have, slot, pump>>
    BY DEF LoopInv, LoopType
  <2> QED BY <2>1 DEF WindowInv, Holds, Cleared, States
<1>5. OwnerInv'  BY DEF OwnerInv, Whole
<1>6. LoopInv'  BY DEF LoopInv, LoopType
<1>7. TakenInOrder'  BY DEF TakenInOrder
<1> QED BY <1>1, <1>2, <1>3, <1>4, <1>5, <1>6, <1>7

\* An ended message is looked at with the state it ended in.
LEMMA EndCheckStep ==
  ASSUME WinInv, EndCheck
  PROVE  WinInv'
<1> USE BulkWindowAssumption DEF WinInv, EndCheck, LoopFree, Types, Resting, Idle, fixed, window,
    told, Slots
<1>1. Types'
  <2>1. loop' \in LoopType  BY DEF LoopType, LoopAts
  <2> QED BY <2>1, SlotType DEF States
<1>2. RxInv'  BY DEF RxInv
<1>3. PumpInv'  BY DEF PumpInv, Whole
<1>4. WindowInv'  BY DEF WindowInv, Holds, Cleared
<1>5. OwnerInv'  BY DEF OwnerInv, Whole
<1>6. LoopInv'  BY DEF LoopInv
<1>7. TakenInOrder'  BY DEF TakenInOrder
<1> QED BY <1>1, <1>2, <1>3, <1>4, <1>5, <1>6, <1>7

\* In an ended message a runner that is out does not come in again.
LEMMA PumpCheckStep ==
  ASSUME WinInv, PumpCheck
  PROVE  WinInv'
<1> USE BulkWindowAssumption DEF WinInv, PumpCheck, PumpIsOut, LoopDone, NoLook, Types, Resting,
    Idle, fixed, window, told, Slots
<1>1. Types'
  <2>1. loop' \in LoopType  BY DEF LoopType, LoopAts, States
  <2> QED BY <2>1, SlotType DEF States
<1>2. RxInv'  BY DEF RxInv
<1>3. PumpInv'  BY DEF PumpInv, Whole
<1>4. WindowInv'  BY DEF WindowInv, Holds, Cleared
<1>5. OwnerInv'  BY DEF OwnerInv, Whole
<1>6. LoopInv'  BY DEF LoopInv, LoopType
<1>7. TakenInOrder'  BY DEF TakenInOrder
<1> QED BY <1>1, <1>2, <1>3, <1>4, <1>5, <1>6, <1>7

\* The owner is told of the message the window still has.
LEMMA HandBackStep ==
  ASSUME WinInv, HandBack
  PROVE  WinInv'
<1> USE BulkWindowAssumption DEF WinInv, HandBack, LoopDone, NoLook, Types, Resting, Idle, fixed,
    window, told, Slots
<1>1. Types'
  <2>1. loop' \in LoopType  BY DEF LoopType, LoopAts, States
  <2>2. ended' \in EndedType  BY DEF EndedType
  <2> QED BY <2>1, <2>2, SlotType DEF States
<1>2. RxInv'  BY DEF RxInv
<1>3. PumpInv'  BY DEF PumpInv, LoopInv
<1>4. WindowInv'  BY DEF WindowInv
<1>5. OwnerInv'  BY DEF LoopInv, OwnerInv
<1>6. LoopInv'  BY DEF LoopInv
<1>7. TakenInOrder'  BY DEF TakenInOrder
<1> QED BY <1>1, <1>2, <1>3, <1>4, <1>5, <1>6, <1>7

-----------------------------------------------------------------------------
(* The theorems                                                            *)

\* The window is free at first.
LEMMA WinInit ==
  ASSUME Init
  PROVE  WinInv
<1> USE BulkWindowAssumption DEF Init
<1>1. Types
  <2>1. rx \in RxType  BY DEF RxType, RxAts, NoRx, Slots
  <2>2. pump \in PumpType  BY DEF PumpType, PumpAts, Resting, NoPump
  <2>3. loop \in LoopType  BY DEF LoopType, LoopAts, States, NoLook
  <2>4. slot \in SlotsType  BY DEF SlotsType, Fragments
  <2>5. given \in GivenType /\ ended \in EndedType  BY DEF GivenType, EndedType
  <2>6. ~pumping /\ pump.at = Idle  BY DEF NoPump
  <2>7. consumed \in 0..Frags /\ st \in States  BY DEF States
  <2> QED BY <2>1, <2>2, <2>3, <2>4, <2>5, <2>6, <2>7 DEF Types
<1>2. RxInv /\ PumpInv /\ LoopInv  BY DEF RxInv, PumpInv, LoopInv, NoRx, NoPump, NoLook, Idle,
    Resting
<1>3. WindowInv /\ OwnerInv /\ TakenInOrder  BY DEF WindowInv, OwnerInv, TakenInOrder
<1> QED BY <1>1, <1>2, <1>3 DEF WinInv

\* What keeps the three threads apart and the window's slots in order holds in
\* every reachable state.
THEOREM WindowInvariant == Spec => []WinInv
<1>1. Init => WinInv  BY WinInit
<1>2. WinInv /\ [Next]_vars => WinInv'
  <2> SUFFICES ASSUME WinInv, [Next]_vars PROVE WinInv'  OBVIOUS
  <2>1. CASE UNCHANGED vars
    BY <2>1 DEF vars, fixed, window, told, WinInv, Types, RxInv, PumpInv, WindowInv, Holds, Cleared,
       OwnerInv, LoopInv, TakenInOrder, Whole
  <2>2. ASSUME NEW m \in Msgs, NEW f \in 0 .. Frags - 1, Arrive(m, f)  PROVE WinInv'
    BY <2>2, ArriveStep
  <2>3. ASSUME NEW m \in Msgs, DropSess(m)  PROVE WinInv'  BY <2>3, DropSessStep
  <2>4. CASE OnFragment
    BY <2>4, ReadConsumedStep, ReadHaveStep, DecideStep, CopyStep, MarkStep,
    BeginStep DEF OnFragment
  <2>5. CASE PumpBulk
    BY <2>5, PumpStartStep, PumpStateStep, PumpNextStep, PumpBitStep, GiveStep, CountTakenStep,
       ClearBitStep, PumpAbortStep, PumpFinishingStep, PumpFinishStep, PumpVerdictStep, PumpOutStep
       DEF PumpBulk
  <2>6. CASE Loop
    BY <2>6, CancelStep, EndCheckStep, PumpCheckStep, HandBackStep DEF Loop
  <2> QED BY <2>1, <2>2, <2>3, <2>4, <2>5, <2>6 DEF Next
<1> QED BY <1>1, <1>2, PTL DEF Spec

\* TypeOK: the window's words keep their types, whatever the two threads do.
THEOREM TypesHold == Spec => []TypeOK
<1>1. WinInv => TypeOK  BY DEF WinInv, Types, TypeOK, States, RxType, RxAts
<1> QED BY <1>1, WindowInvariant, PTL

\* The sink is given every message's fragments in order, each once and its own.
THEOREM SinkInOrder == Spec => []TakenInOrder
<1>1. WinInv => TakenInOrder  BY DEF WinInv
<1> QED BY <1>1, WindowInvariant, PTL

\* Only the runner's Give and PumpFinish and the loop's HandBack touch what the
\* owner and the sink have had, and only of the message that has the window.
LEMMA OnlyTheWindows ==
  ASSUME WinInv, [Next]_vars, NEW m \in Msgs
  PROVE  EndStands(m)
<1> USE DEF WinInv
<1>1. CASE Give
  <2>1. st # "FREE"  BY <1>1 DEF Give, PumpInv, Resting, Idle
  <2>2. ended[msg] = "no"  BY <2>1 DEF OwnerInv
  <2>3. ended' = ended /\ whole' = whole /\ (m # msg => given'[m] = given[m])
    BY <1>1 DEF Give, Types, GivenType
  <2> QED BY <2>2, <2>3 DEF EndStands
<1>2. CASE PumpFinish
  <2>1. st # "FREE"  BY <1>2 DEF PumpFinish, PumpInv, Resting, Idle
  <2>2. ended[msg] = "no"  BY <2>1 DEF OwnerInv
  <2>3. ended' = ended /\ given' = given /\ whole' \in {whole, whole \cup {msg}}
    BY <1>2 DEF PumpFinish
  <2> QED BY <2>2, <2>3 DEF EndStands
<1>3. CASE HandBack
  <2>1. st = loop.saw /\ Over(st) /\ msg = loop.of  BY <1>3 DEF HandBack, LoopInv
  <2>2. msg \in Msgs /\ ended[msg] = "no"  BY <2>1 DEF OwnerInv, Over
  <2>3. /\ given' = given /\ whole' = whole
        /\ ended'[msg] = IF st = "OK" THEN "ok" ELSE "failed"
        /\ m # msg => ended'[m] = ended[m]
    BY <1>3, <2>1, <2>2 DEF HandBack, Types, EndedType
  <2>4. st = "OK" => Whole(msg) /\ msg \in whole  BY DEF OwnerInv
  <2> QED BY <2>2, <2>3, <2>4 DEF EndStands
<1>4. CASE UNCHANGED told
  BY <1>4 DEF told, EndStands
<1>5. Give \/ PumpFinish \/ HandBack \/ UNCHANGED told
  <2>1. CASE UNCHANGED vars  BY <2>1 DEF vars
  <2>2. CASE \E n \in Msgs : DropSess(n) \/ \E f \in 0 .. Frags - 1 : Arrive(n, f)
    BY <2>2 DEF Arrive, DropSess
  <2>3. CASE OnFragment
    BY <2>3 DEF OnFragment, ReadConsumed, ReadHave, Decide, Copy, Mark, Begin
  <2>4. CASE PumpBulk
    BY <2>4 DEF PumpBulk, PumpStart, PumpState, PumpNext, PumpBit, CountTaken, ClearBit, PumpAbort,
       PumpFinishing, PumpVerdict, PumpOut, told
  <2>5. CASE Loop  BY <2>5 DEF Loop, Cancel, EndCheck, PumpCheck
  <2> QED BY <2>1, <2>2, <2>3, <2>4, <2>5 DEF Next
<1> QED BY <1>1, <1>2, <1>3, <1>4, <1>5

\* The owner hears one end of a message, after everything else, and a yes only
\* when the sink had all of it.
THEOREM OwnerHearsOneEnd == Spec => EndIsTheLastWord
<1>1. WinInv /\ [Next]_vars => [\A m \in Msgs : EndStands(m)]_vars  BY OnlyTheWindows
<1> QED BY <1>1, WindowInvariant, PTL DEF Spec, EndIsTheLastWord
=============================================================================
