--------------------------------- MODULE Bans ---------------------------------
(***************************************************************************)
(* Wrong staff passwords, counted by address (BanList in                   *)
(* src/core/guard.cpp), and the calls that are counted there: the sysop    *)
(* question of a login, BYE with a password, an SSH connection that ended  *)
(* on a wrong one (src/core/bbs.cpp, bbs_shell.cpp).                       *)
(*                                                                         *)
(* The table is small and its entries are reused; the clock is kClock      *)
(* milliseconds wide and comes round; a pass looks at the clock once, and  *)
(* the sysop question looks again, later in the same pass.                 *)
(***************************************************************************)
EXTENDS Integers, FiniteSets, FiniteSetsExt, Sequences

CONSTANTS
  Addrs,      \* callers' addresses
  Calls,      \* session slots
  NoAddr,     \* 0, the empty entry's address
  kSlots,     \* BBS_BAN_SLOTS
  kTries,     \* BBS_BAN_TRIES
  kWindow,    \* BBS_BAN_WINDOW_MS
  kBan,       \* BBS_BAN_MS
  kClock,     \* 2^32: millis() comes round
  kAhead,     \* plat::since: a stamp this much ahead of now is taken for now
  kLag,       \* bound: how far the clock runs on within a pass
  kQuiet,     \* bound: the longest time with no connection at all
  kStart,     \* bound: what the clock reads when the board is first called
  kTimeMax,   \* bound: when the run of the board ends
  kAnswers,   \* bound: wrong answers given
  kHeld       \* bound: questions met by keys typed ahead

ASSUME BansAssumption ==
  /\ NoAddr \notin Addrs
  /\ {kSlots, kTries, kWindow, kBan, kClock, kAhead, kLag, kQuiet, kStart, kTimeMax, kAnswers, kHeld}
       \subseteq Nat
  /\ kTries > 0 /\ kClock > 1 /\ kAhead \in 1..kClock

\* What reading a ban's end on a clock that comes round rests on: a ban is shorter than half
\* a turn of it, and somebody calls in less than the other half (24 days, of 49).
ASSUME ClockAssumption ==
  /\ kBan + 1 <= kClock - (kClock \div 2)
  /\ kQuiet + kLag < kClock \div 2

VARIABLES
  time,       \* true time since the start, which does not come round
  passNow,    \* the true time at which the pass looked at the clock
  heard,      \* when the last connection was accepted
  slots,      \* BanList::slots_
  calls,      \* each call: how far it has come, its address, Session::sysopAhead
  due,        \* ghost: the true end of the ban each address has earned, 0 none
  wrongs,     \* ghost: when each address's last wrong answers were counted, since forgiven
  left        \* what the bounds have left: wrong answers, keys typed ahead

clockVars == <<time, passNow, heard>>
ghosts    == <<due, wrongs>>
vars      == <<time, passNow, heard, slots, calls, due, wrongs, left>>

-------------------------------------------------------------------------------
(* The clock                                                               *)

Millis(t) == t % kClock

\* plat::since.
Since(now, at) == LET d == (now - at) % kClock IN IF d > kClock - kAhead THEN 0 ELSE d

\* static_cast<int32_t>(now - until) < 0.
Before(now, until) == (now - until) % kClock >= kClock \div 2

-------------------------------------------------------------------------------
(* The table                                                               *)

Slots == 1..kSlots
Entry(ip) == [ip |-> ip, fails |-> 0, ahead |-> FALSE, first |-> 0, until |-> 0]
Empty == Entry(NoAddr)

BanLive(e, now) == e.until # 0 /\ Before(now, e.until)
Expired(e, now) == e.until # 0 /\ ~Before(now, e.until)

\* BanList::banned: what it finds, and the sweep it makes.
SweptFor(t, ip, now) == [i \in Slots |-> IF Expired(t[i], now) /\ t[i].ip = ip THEN Empty
                                         ELSE t[i]]      \* mutant: the caller's own only
Swept(t, ip, now) == [i \in Slots |-> IF Expired(t[i], now) THEN Empty ELSE t[i]]
Banned(t, ip, now) == \E i \in Slots : t[i].ip = ip /\ BanLive(t[i], now)

\* The entries without a ban that are the stalest: the first of them is reused.
Stalest(t, now) ==
  LET age(i) == Since(now, t[i].first)
      open   == {i \in Slots : t[i].until = 0}
  IN {i \in open : \A j \in open : age(j) <= age(i)}

ReusableOrFirst(t, now) ==                                                    \* mutant
  LET free == {i \in Slots : t[i].ip = NoAddr}
  IN IF free # {} THEN free ELSE IF Stalest(t, now) # {} THEN Stalest(t, now) ELSE {1}
Reusable(t, now) ==
  LET free == {i \in Slots : t[i].ip = NoAddr}
  IN IF free # {} THEN free ELSE Stalest(t, now)

RemadeAsItWas(t, i, ip) == [t EXCEPT ![i].ip = ip]                            \* mutant
Remade(t, i, ip) == [t EXCEPT ![i] = Entry(ip)]

\* BanList::slotFor: where the ip's entry is, 0 when every entry is a running ban, and
\* the table with it made and the bans that are over taken out on the way.
SlotFor(t, ip, now) ==
  LET swept == Swept(t, ip, now)
      own   == {i \in Slots : swept[i].ip = ip}
      new   == Reusable(swept, now)
  IN IF own # {} THEN [at |-> Min(own), t |-> [i \in Slots |-> IF i < Min(own) THEN swept[i]
                                                              ELSE t[i]]]
     ELSE IF new = {} THEN [at |-> 0, t |-> swept]
     ELSE [at |-> Min(new), t |-> Remade(swept, Min(new), ip)]

\* windowFrom: a window starts at the first thing counted in it.
Fresh(e, now) == (e.fails = 0 /\ ~e.ahead) \/ Since(now, e.first) > kWindow
WindowFrom(e, now) ==
  IF Fresh(e, now) THEN [e EXCEPT !.fails = 0, !.ahead = FALSE, !.first = now] ELSE e

\* BanList::fail on the ip's entry: one more failure, and the ban at the kTries-th. A ban
\* that would end where the clock reads 0 ends at 1, since 0 is no ban.
BanUntil(now) == IF Millis(now + kBan) = 0 THEN 1 ELSE Millis(now + kBan)
Failed(e, now) ==
  LET w == WindowFrom(e, now)
  IN IF e.until # 0 THEN e
     ELSE IF w.fails + 1 < kTries THEN [w EXCEPT !.fails = @ + 1]
     ELSE [w EXCEPT !.fails = @ + 1, !.until = BanUntil(now)]

\* BanList::clear, the first entry that is the ip's.
Cleared(t, ip) ==
  LET own == {i \in Slots : t[i].ip = ip}
  IN IF own = {} THEN t ELSE [t EXCEPT ![Min(own)] = Empty]

\* aheadGive, the first entry that is the ip's.
Returned(t, ip) ==
  LET own  == {i \in Slots : t[i].ip = ip}
      e(i) == IF t[i].fails = 0 /\ t[i].until = 0 THEN Empty ELSE [t[i] EXCEPT !.ahead = FALSE]
  IN IF own = {} THEN t ELSE [t EXCEPT ![Min(own)] = e(Min(own))]

-------------------------------------------------------------------------------
(* The calls                                                               *)

OffLine == [at |-> "free", ip |-> NoAddr, ahead |-> FALSE]

Init ==
  /\ time = kStart /\ passNow = kStart /\ heard = kStart
  /\ slots = [i \in Slots |-> Empty]
  /\ calls = [c \in Calls |-> OffLine]
  /\ due = [a \in Addrs |-> 0]
  /\ wrongs = [a \in Addrs |-> <<>>]
  /\ left = [answers |-> kAnswers, held |-> kHeld]

Now == Millis(passNow)
Latest(s) == IF Len(s) > kTries THEN Tail(s) ELSE s

\* BanList::fail with the pass's own now.
Fail(ip) ==
  LET s == SlotFor(slots, ip, Now)
      e == s.t[s.at]
  IN IF s.at = 0 THEN slots' = s.t /\ UNCHANGED ghosts
     ELSE /\ slots' = [s.t EXCEPT ![s.at] = Failed(e, Now)]
          /\ IF e.until # 0 THEN UNCHANGED ghosts
             ELSE /\ wrongs' = [wrongs EXCEPT ![ip] = Latest(Append(@, passNow))]
                  /\ due' = IF Failed(e, Now).until = 0 THEN due
                            ELSE [due EXCEPT ![ip] = passNow + kBan + BanUntil(Now) - Millis(Now + kBan)]

\* bans_.clear: a right password, or UNBAN.
Forgive(ip) ==
  /\ slots' = Cleared(slots, ip)
  /\ due' = [due EXCEPT ![ip] = 0]
  /\ wrongs' = [wrongs EXCEPT ![ip] = <<>>]

Counted == left.answers > 0 /\ left' = [left EXCEPT !.answers = @ - 1]
Goes(c, to) == calls' = [calls EXCEPT ![c] = [@ EXCEPT !.at = to, !.ahead = FALSE]]
HungUp(c)   == calls' = [calls EXCEPT ![c] = OffLine]

\* acceptAll, acceptSsh: every connection sweeps the table; a banned one is dropped.
Connect(c, ip) ==
  /\ calls[c].at = "free"
  /\ slots' = Swept(slots, ip, Now)
  /\ heard' = time
  /\ calls' = IF Banned(slots, ip, Now) THEN calls
              ELSE [calls EXCEPT ![c] = [at |-> "login", ip |-> ip, ahead |-> FALSE]]
  /\ UNCHANGED <<time, passNow, left, ghosts>>

\* A login that is not asked.
Arrive(c) ==
  /\ calls[c].at = "login"
  /\ Goes(c, "arrived")
  /\ UNCHANGED <<clockVars, slots, left, ghosts>>

\* askSysop with nothing typed ahead of it, or with keys that may not be taken.
Ask(c) ==
  /\ calls[c].at = "login"
  /\ Goes(c, "asked")
  /\ UNCHANGED <<clockVars, slots, left, ghosts>>

\* askSysop with keys typed ahead: aheadTake, with the clock as it is by now.
AskHeld(c) ==
  LET ip  == calls[c].ip
      now == Millis(time)
      s   == SlotFor(slots, ip, now)
      e   == s.t[s.at]
  IN /\ calls[c].at = "login" /\ left.held > 0
     /\ left' = [left EXCEPT !.held = @ - 1]
     /\ IF s.at = 0 \/ e.until # 0 \/ WindowFrom(e, now).ahead
        THEN slots' = s.t /\ Goes(c, "asked")
        ELSE /\ slots' = [s.t EXCEPT ![s.at] = [WindowFrom(e, now) EXCEPT !.ahead = TRUE]]
             /\ calls' = [calls EXCEPT ![c] = [@ EXCEPT !.at = "asked", !.ahead = TRUE]]
     /\ UNCHANGED <<clockVars, ghosts>>

\* onSysopPassword with nothing typed, and ESC: a held answer's try is given back.
Skip(c) ==
  /\ calls[c].at = "asked"
  /\ slots' = IF calls[c].ahead THEN Returned(slots, calls[c].ip) ELSE slots
  /\ Goes(c, "arrived")
  /\ UNCHANGED <<clockVars, left, ghosts>>

\* A right one, to the question or at BYE: the address is forgiven. A co-sysop stays, and
\* may give another at BYE; the sysop may not, nor one whose BYE was a plain logoff.
Right(c) ==
  /\ calls[c].at \in {"asked", "arrived"}
  /\ Forgive(calls[c].ip)
  /\ \E to \in {"arrived", "done"} : Goes(c, to)
  /\ UNCHANGED <<clockVars, left>>

\* A wrong one to the question: one held from before it is not counted.
WrongHeld(c) ==
  /\ calls[c].at = "asked" /\ calls[c].ahead /\ Counted
  /\ Goes(c, "arrived")
  /\ UNCHANGED <<clockVars, slots, ghosts>>

\* One typed is counted, and hangs the call up if it bans its address.
Wrong(c) ==
  LET ip == calls[c].ip
  IN /\ calls[c].at = "asked" /\ ~calls[c].ahead /\ Counted
     /\ Fail(ip)
     /\ Goes(c, IF due'[ip] # due[ip] THEN "done" ELSE "arrived")
     /\ UNCHANGED clockVars

\* BYE with a wrong password.
WrongBye(c) ==
  /\ calls[c].at = "arrived" /\ Counted
  /\ Fail(calls[c].ip)
  /\ Goes(c, "done")
  /\ UNCHANGED clockVars

\* The end of an SSH call that gave a wrong password and no right one.
SshEnd(c) ==
  /\ calls[c].at # "free" /\ Counted
  /\ Fail(calls[c].ip)
  /\ HungUp(c)
  /\ UNCHANGED clockVars

HangUp(c) ==
  /\ calls[c].at # "free"
  /\ HungUp(c)
  /\ UNCHANGED <<clockVars, slots, left, ghosts>>

Unban(ip) ==
  /\ Cleared(slots, ip) # slots
  /\ Forgive(ip)
  /\ UNCHANGED <<clockVars, calls, left>>

\* Time passes, within a pass and between two.
Tick ==
  /\ time < kTimeMax /\ time - heard < kQuiet
  /\ time' = time + 1
  /\ passNow' \in {passNow, time + 1} /\ time + 1 - passNow' <= kLag
  /\ UNCHANGED <<heard, slots, calls, left, ghosts>>

Next ==
  \/ Tick
  \/ \E ip \in Addrs : Unban(ip)
  \/ \E c \in Calls :
       \/ \E ip \in Addrs : Connect(c, ip)
       \/ Arrive(c) \/ Ask(c) \/ AskHeld(c) \/ Skip(c) \/ Right(c)
       \/ WrongHeld(c) \/ Wrong(c) \/ WrongBye(c) \/ SshEnd(c) \/ HangUp(c)

Spec == Init /\ [][Next]_vars

-------------------------------------------------------------------------------
(* Properties                                                              *)

\* The table is sound, which clear() and aheadGive(), who stop at the first entry that is
\* the address's, rely on: one entry for each address, nothing in an empty one, and a ban
\* where kTries failures have been counted and nowhere else.
Entries == [ip: Addrs \cup {NoAddr}, fails: 0..kTries, ahead: BOOLEAN,
            first: 0..(kClock - 1), until: 0..(kClock - 1)]
Sound(t) ==
  /\ t \in [Slots -> Entries]
  /\ \A i, j \in Slots : t[i].ip = t[j].ip /\ t[i].ip # NoAddr => i = j
  /\ \A i \in Slots : t[i].ip = NoAddr => t[i] = Empty
  /\ \A i \in Slots : (t[i].until # 0) <=> (t[i].fails = kTries)
TableIsSound == Sound(slots)

\* An entry with a ban in it is left alone until the ban is over, by the clock of the call
\* that reuses it, or its address is forgiven: no other address's failures, held answers
\* or connections touch it (guard.cpp, slotFor).
Touched(e, f) == f.until # e.until \/ f.ip # e.ip
Kept == \A i \in Slots : slots[i].until # 0 /\ Touched(slots[i], slots'[i]) =>
  \/ Expired(slots[i], Now) \/ Expired(slots[i], Millis(time))
  \/ due'[slots[i].ip] = 0
BanIsKept == [][Kept]_vars

\* A ban that has been earned stands until its time is up or the address is forgiven,
\* however many other addresses fail meanwhile and however small the table is
\* (guard.cpp, slotFor: eight real bans are worth more than a ninth).  And none stands
\* longer, or comes back when the clock has gone half way round, for whoever asks
\* (Connect, BANS), as long as somebody calls once in a while.
BansStandTheirTime ==
  \A a \in Addrs : /\ time < due[a] => Banned(slots, a, Now)
                   /\ Banned(slots, a, Now) => passNow < due[a]

\* An address is banned for kTries wrong answers of its own within one window, whatever
\* was counted in its entry before it was its own, on a board that has been up for less than
\* a turn of its clock.  guard.h:12-13 says so of every board, and platform.h:60-61 that the
\* wrap is harmless; but an entry without a ban is not swept, and from a turn after its first
\* failure its window reads as new: the one old answer and kTries - 1 new ones are a ban.
UpLessThanATurn == time - kStart <= kClock - kAhead
BanIsEarned == [][\A a \in Addrs : UpLessThanATurn /\ due'[a] > due[a] =>
  Cardinality({i \in DOMAIN wrongs'[a] : wrongs'[a][i] + kWindow + kLag >= passNow}) >= kTries]_vars
================================================================================
