------------------------------ MODULE BansProofs ------------------------------
(***************************************************************************)
(* What is proved of the table of bans (Bans.tla), for every number of     *)
(* entries, addresses and calls, every length of a window and of a ban,    *)
(* and a clock of any width: the table is sound, no running ban is taken   *)
(* out of it, and a ban stands exactly as long as it should, although the  *)
(* clock it is read on comes round.                                        *)
(***************************************************************************)
EXTENDS Bans, TLAPS, FiniteSetTheorems, WellFoundedInduction

-------------------------------------------------------------------------------
(* A clock that comes round                                                *)

\* The clock has a width, and the times are numbers.
LEMMA Widths ==
  /\ kClock \in Nat /\ kClock > 1
  /\ kBan \in Nat /\ kQuiet \in Nat /\ kLag \in Nat
BY BansAssumption

\* What the clock reads, and how often it has come round.
LEMMA ClockParts ==
  ASSUME NEW t \in Int
  PROVE  /\ Millis(t) \in 0..(kClock - 1) /\ t \div kClock \in Int
         /\ t = (kClock * (t \div kClock)) + Millis(t)
BY Widths DEF Millis

\* What a time reads is the one number below kClock that is whole turns away from it.
LEMMA ClockOf ==
  ASSUME NEW t \in Int, NEW q \in Int, NEW r \in 0..(kClock - 1), t = (kClock * q) + r
  PROVE  Millis(t) = r
<1> DEFINE p == t \div kClock
           m == Millis(t)
<1>1. p \in Int /\ m \in 0..(kClock - 1) /\ t = (kClock * p) + m
  BY ClockParts
<1> SUFFICES m = r
  OBVIOUS
<1> HIDE DEF p, m
<1>2. kClock * (p - q) = r - m
  BY <1>1, Widths
<1>3. ~(p - q >= 1)
  <2> SUFFICES ASSUME p - q >= 1 PROVE FALSE
    OBVIOUS
  <2>1. kClock * (p - q) >= kClock
    BY <1>1, Widths
  <2> QED
    BY <2>1, <1>1, <1>2, Widths
<1>4. ~(p - q <= -1)
  <2> SUFFICES ASSUME p - q <= -1 PROVE FALSE
    OBVIOUS
  <2>1. kClock * (p - q) <= -kClock
    BY <1>1, Widths
  <2> QED
    BY <2>1, <1>1, <1>2, Widths
<1>5. p = q
  BY <1>1, <1>3, <1>4
<1> QED
  BY <1>1, <1>5, Widths

\* Adding to what the clock read, and reading that, is reading the later time.
LEMMA ClockCarries ==
  ASSUME NEW t \in Int, NEW d \in Int
  PROVE  Millis(Millis(t) + d) = Millis(t + d)
<1> DEFINE p == t \div kClock
           m == Millis(t)
           x == m + d
           q == x \div kClock
           r == Millis(x)
<1>1. p \in Int /\ m \in Int /\ t = (kClock * p) + m
  BY ClockParts, Widths
<1> HIDE DEF p, m
<1>2. q \in Int /\ r \in 0..(kClock - 1) /\ x = (kClock * q) + r
  BY <1>1, ClockParts
<1> HIDE DEF q, r
<1>3. t + d = (kClock * (p + q)) + r
  BY <1>1, <1>2, Widths
<1>4. Millis(t + d) = r
  BY <1>1, <1>2, <1>3, ClockOf
<1> QED
  BY <1>4 DEF r, m

\* What two readings are apart, read as a time, is what the times are apart.
LEMMA ClockApart ==
  ASSUME NEW t \in Int, NEW u \in Int
  PROVE  (Millis(t) - Millis(u)) % kClock = Millis(t - u)
<1> DEFINE p == t \div kClock
           m == Millis(t)
           q == u \div kClock
           n == Millis(u)
           x == m - n
           k == x \div kClock
           r == Millis(x)
<1>1. p \in Int /\ m \in Int /\ t = (kClock * p) + m
  BY ClockParts, Widths
<1>2. q \in Int /\ n \in Int /\ u = (kClock * q) + n
  BY ClockParts, Widths
<1> HIDE DEF p, m, q, n
<1>3. k \in Int /\ r \in 0..(kClock - 1) /\ x = (kClock * k) + r
  BY <1>1, <1>2, ClockParts
<1> HIDE DEF k, r
<1>4. t - u = (kClock * (p - q + k)) + r
  BY <1>1, <1>2, <1>3, Widths
<1>5. Millis(t - u) = r
  BY <1>1, <1>2, <1>3, <1>4, ClockOf
<1> QED
  BY <1>5 DEF r, m, n, Millis

\* Before() is right about a ban: as long as it began no more than a ban ago, and has been
\* over for no longer than nobody called.
LEMMA BeforeIs ==
  ASSUME NEW now \in Int, NEW end \in Int, now - end <= kQuiet + kLag, end - now <= kBan + 1
  PROVE  Before(Millis(now), Millis(end)) <=> now < end
<1>1. Before(Millis(now), Millis(end)) <=> Millis(now - end) >= kClock \div 2
  BY ClockApart DEF Before
<1>2. kClock \div 2 \in Nat /\ kClock \div 2 >= 1 /\ kClock \div 2 < kClock
  BY Widths
<1>3. CASE now < end
  <2>1. now - end = (kClock * (-1)) + (kClock - (end - now))
    BY Widths
  <2>2. kClock - (end - now) \in 0..(kClock - 1)
    BY <1>2, <1>3, Widths, ClockAssumption
  <2>3. Millis(now - end) = kClock - (end - now)
    BY <2>1, <2>2, ClockOf
  <2> QED
    BY <1>1, <1>2, <1>3, <2>3, Widths, ClockAssumption
<1>4. CASE now >= end
  <2>1. now - end = (kClock * 0) + (now - end)
    BY Widths
  <2>2. now - end \in 0..(kClock - 1)
    BY <1>2, <1>4, Widths, ClockAssumption
  <2>3. Millis(now - end) = now - end
    BY <2>1, <2>2, ClockOf
  <2> QED
    BY <1>1, <1>2, <1>4, <2>3, Widths, ClockAssumption
<1> QED
  BY <1>3, <1>4

USE BansAssumption DEF Slots

-------------------------------------------------------------------------------
(* The first of some entries, and the clock                                *)

\* A set of entries has a first: of the initial segments that end in it, the least.
LEMMA FirstOf ==
  ASSUME NEW S, S \subseteq Slots, S # {}
  PROVE  Min(S) \in S
<1> DEFINE T == {1..x : x \in S}
<1>1. \A x \in S : x \in Nat /\ 1 <= x
  OBVIOUS
<1>2. T \subseteq FiniteSubsetsOf(Nat) /\ T # {}
  <2>1. \A x \in S : 1..x \in SUBSET Nat /\ IsFiniteSet(1..x)
    BY <1>1, FS_Interval
  <2> QED
    BY <2>1 DEF FiniteSubsetsOf
<1> HIDE DEF T
<1>3. PICK A \in T : \A B \in T : <<B, A>> \notin StrictSubsetOrdering(Nat)
  BY <1>2, FS_StrictSubsetOrderingWellFounded, WFMin
<1> USE DEF T
<1>4. PICK x \in S : A = 1..x
  OBVIOUS
<1>5. ASSUME NEW y \in S, y < x PROVE FALSE
  <2>1. 1..y \in T /\ 1..y \subseteq A /\ x \in A /\ x \notin 1..y
    BY <1>1, <1>4, <1>5
  <2>2. 1..y \in SUBSET Nat /\ A \in SUBSET Nat
    BY <1>1, <1>4
  <2>3. <<1..y, A>> \in StrictSubsetOrdering(Nat)
    BY <2>1, <2>2 DEF StrictSubsetOrdering
  <2> QED
    BY <2>1, <2>3, <1>3
<1>6. \A y \in S : x <= y
  BY <1>1, <1>5
<1> QED
  BY <1>6 DEF Min

\* The clock reads less than kClock.
LEMMA ClockReads ==
  ASSUME NEW t \in Int
  PROVE  Millis(t) \in 0..(kClock - 1)
BY DEF Millis

-------------------------------------------------------------------------------
(* The table                                                               *)

\* An empty entry is an entry.
LEMMA EmptyIn == Empty \in Entries /\ Empty.until = 0 /\ Empty.fails # kTries
BY DEF Empty, Entry, Entries

\* One entry written over, for the same address or for none, leaves the table sound.
LEMMA PutSound ==
  ASSUME NEW t, Sound(t), NEW i \in Slots, NEW e \in Entries,
         e = Empty \/ (e.ip = t[i].ip /\ e.ip # NoAddr),
         (e.until # 0) <=> (e.fails = kTries)
  PROVE  Sound([t EXCEPT ![i] = e])
<1> DEFINE u == [t EXCEPT ![i] = e]
<1>1. u \in [Slots -> Entries] /\ u[i] = e /\ \A j \in Slots \ {i} : u[j] = t[j]
  BY DEF Sound
<1>2. Empty.ip = NoAddr
  BY DEF Empty, Entry
<1> HIDE DEF u
<1> QED
  BY <1>1, <1>2 DEF Sound

\* The sweep leaves the table sound.
LEMMA SweptSound ==
  ASSUME NEW t, Sound(t), NEW ip, NEW now
  PROVE  Sound(Swept(t, ip, now))
<1> DEFINE u == Swept(t, ip, now)
<1>1. u \in [Slots -> Entries] /\ \A j \in Slots : u[j] = t[j] \/ u[j] = Empty
  BY EmptyIn DEF Sound, Swept
<1>2. Empty.ip = NoAddr
  BY DEF Empty, Entry
<1> HIDE DEF u
<1>3. Sound(u)
  BY <1>1, <1>2, EmptyIn DEF Sound
<1> QED
  BY <1>3 DEF u

\* slotFor: the table it leaves is sound, the entry it finds is the address's own, a new
\* one has no ban in it, and it has taken out no ban but one that was over.
LEMMA SlotForSound ==
  ASSUME NEW t, Sound(t), NEW ip \in Addrs, NEW now,
         NEW s, s = SlotFor(t, ip, now)
  PROVE  /\ s.at \in Slots \cup {0}
         /\ Sound(s.t)
         /\ s.at # 0 => s.t[s.at].ip = ip
         /\ \A i \in Slots : t[i].until # 0 /\ Touched(t[i], s.t[i]) => Expired(t[i], now)
<1> DEFINE swept == Swept(t, ip, now)
           own   == {i \in Slots : swept[i].ip = ip}
           new   == Reusable(swept, now)
<1>1. Sound(swept)
  BY SweptSound
<1>2. \A i \in Slots : swept[i] = IF Expired(t[i], now) THEN Empty ELSE t[i]
  BY DEF Swept
<1>3. Empty.ip = NoAddr /\ ip # NoAddr /\ Entry(ip).ip = ip /\ Entry(ip).until = 0
      /\ Entry(ip).fails = 0 /\ Entry(ip) \in Entries
  BY DEF Empty, Entry, Entries
<1>4. new \subseteq Slots /\ \A i \in new : swept[i].until = 0
  <2>1. \A i \in Slots : swept[i].ip = NoAddr => swept[i].until = 0
    BY <1>1, EmptyIn DEF Sound
  <2> QED
    BY <2>1 DEF Reusable, Stalest
<1> HIDE DEF swept
<1>5. CASE own # {}
  <2> DEFINE u == [i \in Slots |-> IF i < Min(own) THEN swept[i] ELSE t[i]]
  <2>1. Min(own) \in own
    BY <1>5, FirstOf
  <2>2. s = [at |-> Min(own), t |-> u]
    BY <1>5 DEF SlotFor, swept
  <2>3. t[Min(own)].ip = ip
    BY <2>1, <1>2, <1>3
  <2>4. u \in [Slots -> Entries] /\ \A i \in Slots : u[i] = t[i] \/ (u[i] = swept[i])
    BY <1>1 DEF Sound
  <2>5. u[Min(own)] = t[Min(own)]
    BY <2>1
  <2> HIDE DEF u
  <2>6. \A i \in Slots : u[i] = t[i] \/ (u[i] = Empty /\ Expired(t[i], now))
    BY <2>4, <1>2
  <2>7. Sound(u)
    BY <2>4, <2>6, <1>3, EmptyIn DEF Sound
  <2>8. \A i \in Slots : Touched(t[i], u[i]) => Expired(t[i], now)
    BY <2>6 DEF Touched
  <2> QED
    BY <2>1, <2>2, <2>3, <2>5, <2>7, <2>8
<1>6. CASE own = {} /\ new = {}
  <2>1. s = [at |-> 0, t |-> swept]
    BY <1>6 DEF SlotFor, swept
  <2> QED
    BY <2>1, <1>1, <1>2 DEF Touched
<1>7. CASE own = {} /\ new # {}
  <2> DEFINE u == Remade(swept, Min(new), ip)
  <2>1. PICK k \in Slots : k = Min(new) /\ swept[k].until = 0
    BY <1>7, <1>4, FirstOf
  <2>2. s = [at |-> k, t |-> u]
    BY <1>7, <2>1 DEF SlotFor, swept
  <2>3. u \in [Slots -> Entries] /\ u[k].ip = ip /\ u[k].until = 0 /\ u[k].fails = 0
        /\ \A i \in Slots \ {k} : u[i] = swept[i]
    BY <2>1, <1>1, <1>3 DEF Remade, Sound
  <2> HIDE DEF u, new
  <2>4. Sound(u)
    <3>1. \A i \in Slots : swept[i].ip # ip
      BY <1>7
    <3> HIDE DEF own
    <3>2. kTries # 0
      OBVIOUS
    <3>3. \A i \in Slots : (u[i].until # 0) <=> (u[i].fails = kTries)
      BY <2>3, <3>2, <1>1 DEF Sound
    <3>4. \A i \in Slots : u[i].ip = NoAddr => u[i] = Empty
      BY <2>3, <1>1, <1>3 DEF Sound
    <3>5. \A i, j \in Slots : u[i].ip = u[j].ip /\ u[i].ip # NoAddr => i = j
      <4>1. \A i \in Slots : u[i].ip = ip => i = k
        BY <2>3, <3>1
      <4>2. \A i, j \in Slots : swept[i].ip = swept[j].ip /\ swept[i].ip # NoAddr => i = j
        BY <1>1 DEF Sound
      <4> QED
        BY <2>3, <4>1, <4>2
    <3> QED
      BY <2>3, <3>3, <3>4, <3>5 DEF Sound
  <2>5. \A i \in Slots : t[i].until # 0 /\ Touched(t[i], u[i]) => Expired(t[i], now)
    BY <2>1, <2>3, <1>2 DEF Touched
  <2>6. s.at = k /\ s.t = u
    BY <2>2
  <2> QED
    BY <2>3, <2>4, <2>5, <2>6
<1> QED
  BY <1>5, <1>6, <1>7

\* windowFrom keeps the entry's address and its ban, and an entry without a ban stays one.
LEMMA WindowFromIn ==
  ASSUME NEW e \in Entries, NEW now \in 0..(kClock - 1)
  PROVE  /\ WindowFrom(e, now) \in Entries
         /\ WindowFrom(e, now).ip = e.ip /\ WindowFrom(e, now).until = e.until
         /\ e.fails # kTries => WindowFrom(e, now).fails \in 0..(kTries - 1)
<1>1. e.fails \in 0..kTries /\ 0 \in 0..(kTries - 1)
  BY DEF Entries
<1>2. CASE ~Fresh(e, now)
  <2>1. WindowFrom(e, now) = e
    BY <1>2 DEF WindowFrom
  <2>2. e.fails # kTries => e.fails \in 0..(kTries - 1)
    BY <1>1
  <2> QED
    BY <2>1, <2>2
<1>3. CASE Fresh(e, now)
  <2> DEFINE a == [e EXCEPT !.fails = 0]
             b == [a EXCEPT !.ahead = FALSE]
             w == [b EXCEPT !.first = now]
  <2>1. w \in Entries /\ w.ip = e.ip /\ w.until = e.until /\ w.fails = 0
    <3>1. a \in Entries /\ a.ip = e.ip /\ a.until = e.until /\ a.fails = 0
      BY DEF Entries
    <3> HIDE DEF a
    <3>2. b \in Entries /\ b.ip = a.ip /\ b.until = a.until /\ b.fails = a.fails
      BY <3>1 DEF Entries
    <3> HIDE DEF b
    <3>3. w \in Entries /\ w.ip = b.ip /\ w.until = b.until /\ w.fails = b.fails
      BY <3>2 DEF Entries
    <3> QED
      BY <3>1, <3>2, <3>3
  <2>2. WindowFrom(e, now) = w
    BY <1>3 DEF WindowFrom
  <2> HIDE DEF w
  <2> QED
    BY <1>1, <2>1, <2>2
<1> QED
  BY <1>2, <1>3

\* fail() on an entry: the kTries-th failure and the ban come together, and an entry with
\* a ban in it is left as it is.
LEMMA FailedIn ==
  ASSUME NEW e \in Entries, NEW now \in 0..(kClock - 1), (e.until # 0) <=> (e.fails = kTries)
  PROVE  /\ Failed(e, now) \in Entries /\ Failed(e, now).ip = e.ip
         /\ (Failed(e, now).until # 0) <=> (Failed(e, now).fails = kTries)
         /\ e.until # 0 => Failed(e, now) = e
<1>1. CASE e.until # 0
  BY <1>1 DEF Failed
<1>2. CASE e.until = 0
  <2> DEFINE w == WindowFrom(e, now)
  <2>1. w \in Entries /\ w.ip = e.ip /\ w.until = 0 /\ w.fails \in 0..(kTries - 1)
    BY <1>2, WindowFromIn
  <2>2. BanUntil(now) \in 1..(kClock - 1)
    <3>1. Millis(now + kBan) \in 0..(kClock - 1)
      BY ClockReads
    <3> QED
      BY <3>1 DEF BanUntil
  <2>3. Failed(e, now) = IF w.fails + 1 < kTries THEN [w EXCEPT !.fails = @ + 1]
                         ELSE [w EXCEPT !.fails = @ + 1, !.until = BanUntil(now)]
    BY <1>2 DEF Failed
  <2> HIDE DEF w
  <2> QED
    <3>1. CASE w.fails + 1 < kTries
      <4> DEFINE f == [w EXCEPT !.fails = @ + 1]
      <4>1. Failed(e, now) = f
        BY <2>3, <3>1
      <4>2. f \in Entries /\ f.ip = w.ip /\ f.until = w.until /\ f.fails = w.fails + 1
        BY <2>1, <3>1 DEF Entries
      <4> HIDE DEF f
      <4> QED
        BY <1>2, <2>1, <3>1, <4>1, <4>2
    <3>2. CASE ~(w.fails + 1 < kTries)
      <4> DEFINE g == [w EXCEPT !.fails = @ + 1]
                 f == [g EXCEPT !.until = BanUntil(now)]
      <4>1. Failed(e, now) = f
        BY <2>3, <3>2
      <4>2. w.fails + 1 = kTries
        BY <2>1, <3>2
      <4>3. f \in Entries /\ f.ip = w.ip /\ f.until = BanUntil(now) /\ f.fails = kTries
        <5>1. g \in Entries /\ g.ip = w.ip /\ g.fails = kTries
          BY <2>1, <4>2 DEF Entries
        <5> HIDE DEF g
        <5> QED
          BY <2>2, <5>1 DEF Entries
      <4> HIDE DEF f
      <4> QED
        BY <1>2, <2>1, <2>2, <4>1, <4>3
    <3> QED
      BY <3>1, <3>2
<1> QED
  BY <1>1, <1>2

\* clear() leaves the table sound and takes out nothing but the address's own.
LEMMA ClearedSound ==
  ASSUME NEW t, Sound(t), NEW ip \in Addrs
  PROVE  /\ Sound(Cleared(t, ip))
         /\ \A i \in Slots : Touched(t[i], Cleared(t, ip)[i]) => t[i].ip = ip
<1> DEFINE own == {i \in Slots : t[i].ip = ip}
<1>1. CASE own = {}
  BY <1>1 DEF Cleared, Touched
<1>2. CASE own # {}
  <2>1. PICK k \in Slots : k = Min(own) /\ t[k].ip = ip
    BY <1>2, FirstOf
  <2>2. Cleared(t, ip) = [t EXCEPT ![k] = Empty]
    BY <1>2, <2>1 DEF Cleared
  <2>3. Sound(Cleared(t, ip))
    <3>1. Sound([t EXCEPT ![k] = Empty])
      BY PutSound, EmptyIn
    <3> QED
      BY <2>2, <3>1
  <2> QED
    BY <2>1, <2>2, <2>3 DEF Touched, Sound
<1> QED
  BY <1>1, <1>2

\* aheadGive leaves the table sound and touches no ban.
LEMMA ReturnedSound ==
  ASSUME NEW t, Sound(t), NEW ip \in Addrs
  PROVE  /\ Sound(Returned(t, ip))
         /\ \A i \in Slots : t[i].until # 0 => ~Touched(t[i], Returned(t, ip)[i])
<1> DEFINE own == {i \in Slots : t[i].ip = ip}
<1>1. CASE own = {}
  BY <1>1 DEF Returned, Touched
<1>2. CASE own # {}
  <2>1. PICK k \in Slots : k = Min(own) /\ t[k].ip = ip
    BY <1>2, FirstOf
  <2> DEFINE e == IF t[k].fails = 0 /\ t[k].until = 0 THEN Empty
                  ELSE [t[k] EXCEPT !.ahead = FALSE]
  <2>2. Returned(t, ip) = [t EXCEPT ![k] = e]
    BY <1>2, <2>1 DEF Returned
  <2>3. t[k] \in Entries /\ ((t[k].until # 0) <=> (t[k].fails = kTries))
    BY DEF Sound
  <2>4. /\ e \in Entries /\ (e = Empty \/ (e.ip = t[k].ip /\ e.ip # NoAddr))
        /\ (e.until # 0) <=> (e.fails = kTries)
        /\ t[k].until # 0 => e.until = t[k].until /\ e.ip = t[k].ip
    BY <2>1, <2>3, EmptyIn DEF Entries
  <2> HIDE DEF e
  <2>5. Sound(Returned(t, ip))
    <3>1. Sound([t EXCEPT ![k] = e])
      BY <2>4, PutSound
    <3> QED
      BY <2>2, <3>1
  <2> QED
    BY <2>2, <2>4, <2>5 DEF Touched, Sound
<1> QED
  BY <1>1, <1>2

-------------------------------------------------------------------------------
(* The steps                                                               *)

CallAt == {"free", "login", "asked", "arrived", "done"}

\* What the table's invariant needs of the rest: a call on the line has an address.
CallsTyped ==
  /\ calls \in [Calls -> [at: CallAt, ip: Addrs \cup {NoAddr}, ahead: BOOLEAN]]
  /\ \A c \in Calls : calls[c].at # "free" => calls[c].ip \in Addrs
Typed ==
  /\ time \in Nat /\ passNow \in Nat
  /\ DOMAIN due = Addrs
  /\ CallsTyped
IInv == TableIsSound /\ Typed

\* The empty table, and no call on the line.
LEMMA InitHolds == Init => IInv
<1> SUFFICES ASSUME Init PROVE IInv
  OBVIOUS
<1>1. TableIsSound
  <2>1. Empty.ip = NoAddr
    BY DEF Empty, Entry
  <2>2. slots \in [Slots -> Entries] /\ \A i \in Slots : slots[i] = Empty
    BY EmptyIn DEF Init
  <2> QED
    BY <2>1, <2>2, EmptyIn DEF TableIsSound, Sound
<1>2. OffLine \in [at: CallAt, ip: Addrs \cup {NoAddr}, ahead: BOOLEAN] /\ OffLine.at = "free"
  BY DEF OffLine, CallAt
<1> HIDE DEF OffLine
<1> QED
  BY <1>1, <1>2 DEF Init, IInv, Typed, CallsTyped

\* A call that goes on, and one that ends, are still calls.
LEMMA GoesTyped ==
  ASSUME CallsTyped, NEW c \in Calls, calls[c].at # "free",
         (\E to \in CallAt : Goes(c, to)) \/ HungUp(c)
  PROVE  CallsTyped'
<1> DEFINE CallSet == [at: CallAt, ip: Addrs \cup {NoAddr}, ahead: BOOLEAN]
<1>1. calls \in [Calls -> CallSet] /\ calls[c].ip \in Addrs
  BY DEF CallsTyped
<1>2. CASE HungUp(c)
  <2>1. OffLine \in CallSet /\ OffLine.at = "free"
    BY DEF OffLine, CallAt
  <2> QED
    BY <1>1, <1>2, <2>1 DEF HungUp, CallsTyped
<1>3. CASE \E to \in CallAt : Goes(c, to)
  <2>1. PICK to \in CallAt : Goes(c, to)
    BY <1>3
  <2> DEFINE f == [calls[c] EXCEPT !.at = to]
             g == [f EXCEPT !.ahead = FALSE]
  <2>2. calls' = [calls EXCEPT ![c] = g]
    BY <2>1 DEF Goes
  <2>3. f \in CallSet /\ f.ip = calls[c].ip
    BY <1>1
  <2> HIDE DEF f
  <2>4. g \in CallSet /\ g.ip \in Addrs
    BY <1>1, <2>3
  <2> HIDE DEF g
  <2> QED
    BY <1>1, <2>2, <2>4 DEF CallsTyped
<1> QED
  BY <1>2, <1>3

\* fail(): the table stays sound, and no ban that is not over is touched.
LEMMA FailSteps ==
  ASSUME IInv, NEW ip \in Addrs, Fail(ip)
  PROVE  TableIsSound' /\ Kept /\ DOMAIN due' = Addrs
<1> DEFINE s == SlotFor(slots, ip, Now)
           e == s.t[s.at]
<1>1. /\ s.at \in Slots \cup {0} /\ Sound(s.t) /\ (s.at # 0 => e.ip = ip)
      /\ \A i \in Slots : slots[i].until # 0 /\ Touched(slots[i], s.t[i])
                            => Expired(slots[i], Now)
  BY SlotForSound DEF IInv, TableIsSound
<1>2. DOMAIN due' = Addrs
  BY DEF IInv, Typed, Fail, ghosts
<1>3. Now \in 0..(kClock - 1)
  BY ClockReads DEF Now, IInv, Typed
<1>4. CASE s.at = 0
  <2>1. slots' = s.t
    BY <1>4 DEF Fail
  <2> HIDE DEF s
  <2> QED
    BY <1>1, <1>2, <2>1 DEF TableIsSound, Kept
<1>5. CASE s.at # 0
  <2> DEFINE f == Failed(e, Now)
  <2>1. slots' = [s.t EXCEPT ![s.at] = f]
    BY <1>5 DEF Fail
  <2> HIDE DEF s
  <2>2. s.at \in Slots /\ e \in Entries /\ ((e.until # 0) <=> (e.fails = kTries))
        /\ ip # NoAddr
    BY <1>1, <1>5 DEF Sound
  <2>3. f \in Entries /\ f.ip = ip /\ ((f.until # 0) <=> (f.fails = kTries))
        /\ (e.until # 0 => f = e)
    BY <1>1, <1>3, <1>5, <2>2, FailedIn
  <2> HIDE DEF f
  <2>4. Sound([s.t EXCEPT ![s.at] = f])
    BY <1>1, <1>5, <2>2, <2>3, PutSound
  <2>5. Kept
    <3> SUFFICES ASSUME NEW i \in Slots, slots[i].until # 0, Touched(slots[i], slots'[i]),
                        ~Expired(slots[i], Now)
                 PROVE  FALSE
      BY DEF Kept
    <3>1. s.t[i].until = slots[i].until /\ s.t[i].ip = slots[i].ip
      BY <1>1 DEF Touched
    <3>2. slots'[i] = s.t[i]
      <4>1. s.t \in [Slots -> Entries]
        BY <1>1 DEF Sound
      <4> QED
        BY <2>1, <2>2, <2>3, <3>1, <4>1
    <3> QED
      BY <3>1, <3>2 DEF Touched
  <2> QED
    BY <1>2, <2>1, <2>4, <2>5 DEF TableIsSound
<1> QED
  BY <1>4, <1>5

\* clear(): what is taken out was the address's own, and it is forgiven.
LEMMA ForgiveSteps ==
  ASSUME IInv, NEW ip \in Addrs, Forgive(ip)
  PROVE  TableIsSound' /\ Kept /\ DOMAIN due' = Addrs
<1>1. slots' = Cleared(slots, ip) /\ due' = [due EXCEPT ![ip] = 0] /\ DOMAIN due = Addrs
  BY DEF Forgive, IInv, Typed
<1>2. Sound(slots)
  BY DEF IInv, TableIsSound
<1>3. \A i \in Slots : Touched(slots[i], slots'[i]) => due'[slots[i].ip] = 0
  BY <1>1, <1>2, ClearedSound
<1>4. Sound(slots')
  BY <1>1, <1>2, ClearedSound
<1> QED
  BY <1>1, <1>3, <1>4 DEF TableIsSound, Kept

\* A step that leaves the table alone.
LEMMA TableAlone ==
  ASSUME TableIsSound, slots' = slots
  PROVE  TableIsSound' /\ Kept
BY DEF TableIsSound, Kept, Touched

\* Every step keeps the invariant, and every ban that is not over.
LEMMA StepHolds == IInv /\ [Next]_vars => IInv' /\ Kept
<1> SUFFICES ASSUME IInv, [Next]_vars PROVE IInv' /\ Kept
  OBVIOUS
<1>t. TableIsSound /\ Sound(slots) /\ CallsTyped /\ DOMAIN due = Addrs
      /\ time \in Nat /\ passNow \in Nat
  BY DEF IInv, Typed, TableIsSound
<1>f. "free" \in CallAt /\ "login" \in CallAt /\ "asked" \in CallAt /\ "arrived" \in CallAt
      /\ "done" \in CallAt
  BY DEF CallAt
<1>1. CASE Tick
  <2>1. slots' = slots /\ calls' = calls /\ due' = due
    BY <1>1 DEF Tick, ghosts
  <2>2. time' \in Nat /\ passNow' \in Nat
    BY <1>1, <1>t DEF Tick
  <2>3. CallsTyped'
    BY <1>t, <2>1 DEF CallsTyped
  <2> QED
    BY <1>t, <2>1, <2>2, <2>3, TableAlone DEF IInv, Typed
<1>2. ASSUME NEW ip \in Addrs, Unban(ip) PROVE IInv' /\ Kept
  <2>1. TableIsSound' /\ Kept /\ DOMAIN due' = Addrs
    BY <1>2, ForgiveSteps DEF Unban
  <2>2. CallsTyped'
    BY <1>2, <1>t DEF Unban, CallsTyped
  <2> QED
    BY <1>2, <1>t, <2>1, <2>2 DEF Unban, clockVars, IInv, Typed
<1>3. ASSUME NEW c \in Calls, NEW ip \in Addrs, Connect(c, ip) PROVE IInv' /\ Kept
  <2>1. TableIsSound'
    BY <1>3, <1>t, SweptSound DEF Connect, TableIsSound
  <2>2. Kept
    BY <1>3 DEF Connect, Kept, Swept, Touched
  <2>3. CallsTyped'
    <3>1. CASE calls' = calls
      BY <3>1, <1>t DEF CallsTyped
    <3> DEFINE f == [at |-> "login", ip |-> ip, ahead |-> FALSE]
    <3>2. CASE calls' = [calls EXCEPT ![c] = f]
      <4>1. f \in [at: CallAt, ip: Addrs \cup {NoAddr}, ahead: BOOLEAN] /\ f.ip \in Addrs
        BY <1>f
      <4> HIDE DEF f
      <4> QED
        BY <1>t, <3>2, <4>1 DEF CallsTyped
    <3> QED
      BY <1>3, <3>1, <3>2 DEF Connect
  <2> QED
    BY <1>3, <1>t, <2>1, <2>2, <2>3 DEF Connect, ghosts, IInv, Typed
<1>4. ASSUME NEW c \in Calls, Arrive(c) \/ Ask(c) \/ WrongHeld(c) \/ HangUp(c)
      PROVE  IInv' /\ Kept
  <2>1. slots' = slots /\ due' = due /\ time' = time /\ passNow' = passNow
    BY <1>4 DEF Arrive, Ask, WrongHeld, HangUp, clockVars, ghosts
  <2>2. calls[c].at # "free" /\ ((\E to \in CallAt : Goes(c, to)) \/ HungUp(c))
    BY <1>4, <1>f DEF Arrive, Ask, WrongHeld, HangUp
  <2>3. CallsTyped'
    BY <1>t, <2>2, GoesTyped
  <2> QED
    BY <1>t, <2>1, <2>3, TableAlone DEF IInv, Typed
<1>5. ASSUME NEW c \in Calls, AskHeld(c) PROVE IInv' /\ Kept
  <2> DEFINE now == Millis(time)
             s   == SlotFor(slots, calls[c].ip, now)
             e   == s.t[s.at]
             w   == WindowFrom(e, now)
  <2>1. calls[c].at = "login" /\ calls[c].ip \in Addrs
    BY <1>5, <1>t DEF AskHeld, CallsTyped
  <2>2. /\ s.at \in Slots \cup {0} /\ Sound(s.t) /\ (s.at # 0 => e.ip = calls[c].ip)
        /\ \A i \in Slots : slots[i].until # 0 /\ Touched(slots[i], s.t[i])
                              => Expired(slots[i], now)
    BY <2>1, <1>t, SlotForSound
  <2>3. due' = due /\ time' = time /\ passNow' = passNow
    BY <1>5 DEF AskHeld, clockVars, ghosts
  <2>4. CASE slots' = s.t /\ Goes(c, "asked")
    <3>1. CallsTyped'
      BY <1>t, <1>f, <2>1, <2>4, GoesTyped
    <3>2. TableIsSound' /\ Kept
      BY <2>2, <2>4 DEF TableIsSound, Kept
    <3> QED
      BY <1>t, <2>3, <3>1, <3>2 DEF IInv, Typed
  <2>5. CASE /\ s.at # 0 /\ e.until = 0
             /\ slots' = [s.t EXCEPT ![s.at] = [w EXCEPT !.ahead = TRUE]]
             /\ calls' = [calls EXCEPT ![c] = [@ EXCEPT !.at = "asked", !.ahead = TRUE]]
    <3>1. CallsTyped'
      <4> DEFINE f == [calls[c] EXCEPT !.at = "asked"]
                 g == [f EXCEPT !.ahead = TRUE]
      <4>1. calls' = [calls EXCEPT ![c] = g]
        BY <2>5
      <4>2. f \in [at: CallAt, ip: Addrs \cup {NoAddr}, ahead: BOOLEAN] /\ f.ip = calls[c].ip
        BY <1>t, <1>f DEF CallsTyped
      <4> HIDE DEF f
      <4>3. g \in [at: CallAt, ip: Addrs \cup {NoAddr}, ahead: BOOLEAN] /\ g.ip \in Addrs
        BY <2>1, <4>2
      <4> HIDE DEF g
      <4> QED
        BY <1>t, <4>1, <4>3 DEF CallsTyped
    <3>2. now \in 0..(kClock - 1)
      BY <1>t, ClockReads
    <3> HIDE DEF s, now
    <3>3. s.at \in Slots /\ e \in Entries /\ e.fails # kTries /\ calls[c].ip # NoAddr
      BY <2>1, <2>2, <2>5 DEF Sound
    <3>4. w \in Entries /\ w.ip = calls[c].ip /\ w.until = 0 /\ w.fails # kTries
      BY <2>2, <2>5, <3>2, <3>3, WindowFromIn
    <3> DEFINE f == [w EXCEPT !.ahead = TRUE]
    <3> HIDE DEF w
    <3>5. f \in Entries /\ f.ip = calls[c].ip /\ f.until = 0 /\ f.fails # kTries
      BY <3>4 DEF Entries
    <3>6. slots' = [s.t EXCEPT ![s.at] = f]
      BY <2>5
    <3> HIDE DEF f
    <3>7. Sound([s.t EXCEPT ![s.at] = f])
      BY <2>2, <2>5, <3>3, <3>5, PutSound
    <3>8. Kept
      <4> SUFFICES ASSUME NEW i \in Slots, slots[i].until # 0, Touched(slots[i], slots'[i]),
                          ~Expired(slots[i], now)
                   PROVE  FALSE
        BY DEF Kept, now
      <4>1. s.t[i].until = slots[i].until /\ s.t[i].ip = slots[i].ip
        BY <2>2 DEF Touched
      <4>2. i # s.at
        BY <2>5, <4>1
      <4>3. slots'[i] = s.t[i]
        BY <2>2, <3>6, <4>2 DEF Sound
      <4> QED
        BY <4>1, <4>3 DEF Touched
    <3> QED
      BY <1>t, <2>3, <3>1, <3>6, <3>7, <3>8 DEF IInv, Typed, TableIsSound
  <2> QED
    BY <1>5, <2>4, <2>5 DEF AskHeld
<1>6. ASSUME NEW c \in Calls, Skip(c) PROVE IInv' /\ Kept
  <2>1. calls[c].at = "asked" /\ calls[c].ip \in Addrs
    BY <1>6, <1>t DEF Skip, CallsTyped
  <2>2. CallsTyped'
    BY <1>6, <1>t, <1>f, <2>1, GoesTyped DEF Skip
  <2>3. due' = due /\ time' = time /\ passNow' = passNow
    BY <1>6 DEF Skip, clockVars, ghosts
  <2>4. CASE slots' = slots
    BY <1>t, <2>2, <2>3, <2>4, TableAlone DEF IInv, Typed
  <2>5. CASE slots' = Returned(slots, calls[c].ip)
    <3>1. Sound(slots') /\ \A i \in Slots : slots[i].until # 0 => ~Touched(slots[i], slots'[i])
      BY <1>t, <2>1, <2>5, ReturnedSound
    <3> QED
      BY <1>t, <2>2, <2>3, <3>1 DEF IInv, Typed, TableIsSound, Kept
  <2> QED
    BY <1>6, <2>4, <2>5 DEF Skip
<1>7. ASSUME NEW c \in Calls, Right(c) PROVE IInv' /\ Kept
  <2>1. calls[c].at # "free" /\ calls[c].ip \in Addrs
    BY <1>7, <1>t DEF Right, CallsTyped
  <2>2. CallsTyped'
    BY <1>7, <1>t, <1>f, <2>1, GoesTyped DEF Right
  <2>3. TableIsSound' /\ Kept /\ DOMAIN due' = Addrs
    BY <1>7, <2>1, ForgiveSteps DEF Right
  <2> QED
    BY <1>7, <1>t, <2>2, <2>3 DEF Right, clockVars, IInv, Typed
<1>8. ASSUME NEW c \in Calls, Wrong(c) \/ WrongBye(c) \/ SshEnd(c) PROVE IInv' /\ Kept
  <2>1. calls[c].at # "free" /\ Fail(calls[c].ip) /\ time' = time /\ passNow' = passNow
    BY <1>8 DEF Wrong, WrongBye, SshEnd, clockVars
  <2>2. (\E to \in CallAt : Goes(c, to)) \/ HungUp(c)
    BY <1>8, <1>f DEF Wrong, WrongBye, SshEnd
  <2>3. CallsTyped'
    BY <1>t, <2>1, <2>2, GoesTyped
  <2>4. calls[c].ip \in Addrs
    BY <1>t, <2>1 DEF CallsTyped
  <2>5. TableIsSound' /\ Kept /\ DOMAIN due' = Addrs
    BY <2>1, <2>4, FailSteps
  <2> QED
    BY <1>t, <2>1, <2>3, <2>5 DEF IInv, Typed
<1>9. CASE UNCHANGED vars
  <2>1. slots' = slots /\ calls' = calls /\ due' = due /\ time' = time /\ passNow' = passNow
    BY <1>9 DEF vars
  <2>2. CallsTyped'
    BY <1>t, <2>1 DEF CallsTyped
  <2> QED
    BY <1>t, <2>1, <2>2, TableAlone DEF IInv, Typed
<1> QED
  BY <1>1, <1>2, <1>3, <1>4, <1>5, <1>6, <1>7, <1>8, <1>9 DEF Next

-------------------------------------------------------------------------------
(* When a ban ends                                                         *)

\* An entry's ban, and the true time it ends: the entry has the end as the clock reads it,
\* it lies no further ahead than a ban is long, and it was swept out by the last connection
\* if it was over by then.
Ends(e, end, now, last) ==
  /\ e.until = Millis(end)
  /\ end <= now + kBan + 1
  /\ last - kLag <= end

\* The pass's time is the true time or a little before, and somebody has called lately.
ClockInv ==
  /\ time \in Nat /\ passNow \in Nat /\ heard \in Nat
  /\ passNow <= time /\ time <= passNow + kLag
  /\ heard <= time /\ time <= heard + kQuiet

\* Every ban in the table ends when its address's does, and every address whose ban is not
\* over has one in the table.
StandInv ==
  /\ ClockInv
  /\ due \in [Addrs -> Int]
  /\ \A i \in Slots : slots[i].until # 0 => Ends(slots[i], due[slots[i].ip], passNow, heard)
  /\ \A a \in Addrs : time < due[a] => \E i \in Slots : slots[i].ip = a /\ slots[i].until # 0

\* No ban is in the table, and none is due.
LEMMA InitStands == Init => StandInv
<1> SUFFICES ASSUME Init PROVE StandInv
  OBVIOUS
<1>1. \A i \in Slots : slots[i].until = 0
  BY EmptyIn DEF Init
<1>2. ClockInv /\ due = [a \in Addrs |-> 0] /\ time \in Nat
  BY DEF Init, ClockInv
<1> QED
  BY <1>1, <1>2 DEF StandInv

\* A ban in the table is running, by the clock of the pass or by the clock as it is now,
\* exactly until its true end, and its address is a caller's.
LEMMA EndKnown ==
  ASSUME IInv, StandInv, NEW i \in Slots, slots[i].until # 0,
         NEW now, now = passNow \/ now = time
  PROVE  /\ slots[i].ip \in Addrs
         /\ BanLive(slots[i], Millis(now)) <=> now < due[slots[i].ip]
         /\ Expired(slots[i], Millis(now)) <=> ~(now < due[slots[i].ip])
<1>1. slots[i] \in Entries /\ slots[i].ip # NoAddr
  BY EmptyIn DEF IInv, TableIsSound, Sound
<1>2. slots[i].ip \in Addrs
  BY <1>1 DEF Entries
<1> DEFINE end == due[slots[i].ip]
<1>3. end \in Int /\ slots[i].until = Millis(end) /\ end <= passNow + kBan + 1
      /\ heard - kLag <= end
  BY <1>2 DEF StandInv, Ends
<1> HIDE DEF end
<1>4. now \in Int /\ now - end <= kQuiet + kLag /\ end - now <= kBan + 1
  BY <1>3 DEF StandInv, ClockInv
<1>5. Before(Millis(now), Millis(end)) <=> now < end
  BY <1>3, <1>4, BeforeIs
<1> QED
  BY <1>2, <1>3, <1>5 DEF BanLive, Expired, end

\* An address whose ban is not over has one in the table after a step that keeps the bans,
\* unless the step changed when it ends.
LEMMA StaysHeld ==
  ASSUME IInv, StandInv, Kept, NEW a \in Addrs, due'[a] = due[a], time < due[a]
  PROVE  \E i \in Slots : slots'[i].ip = a /\ slots'[i].until # 0
<1>1. PICK i \in Slots : slots[i].ip = a /\ slots[i].until # 0
  BY DEF StandInv
<1>2. time \in Nat /\ passNow \in Nat /\ passNow <= time /\ due[a] \in Int
  BY DEF StandInv, ClockInv
<1>3. ~Expired(slots[i], Now)
  BY <1>1, <1>2, EndKnown DEF Now
<1>4. ~Expired(slots[i], Millis(time))
  BY <1>1, <1>2, EndKnown
<1>5. due'[slots[i].ip] # 0
  BY <1>1, <1>2
<1>6. ~Touched(slots[i], slots'[i])
  BY <1>1, <1>3, <1>4, <1>5 DEF Kept
<1> QED
  BY <1>1, <1>6 DEF Touched

\* A step within a pass: the bans it leaves or makes end when their addresses' do, and it
\* changes no end but to forgive it or to put the ban in the table.
LEMMA StandsOn ==
  ASSUME IInv, StandInv, Kept, time' = time, passNow' = passNow, heard' = heard,
         due' \in [Addrs -> Int],
         \A i \in Slots : slots'[i].until # 0 =>
           \/ ~Touched(slots[i], slots'[i]) /\ due'[slots[i].ip] = due[slots[i].ip]
           \/ Ends(slots'[i], due'[slots'[i].ip], passNow, heard),
         \A a \in Addrs : \/ due'[a] = due[a] \/ due'[a] = 0
                          \/ \E i \in Slots : slots'[i].ip = a /\ slots'[i].until # 0
  PROVE  StandInv'
<1>1. ClockInv'
  BY DEF StandInv, ClockInv
<1>2. ASSUME NEW i \in Slots, slots'[i].until # 0
      PROVE  Ends(slots'[i], due'[slots'[i].ip], passNow, heard)
  <2>1. CASE ~Touched(slots[i], slots'[i]) /\ due'[slots[i].ip] = due[slots[i].ip]
    <3>1. slots'[i].until = slots[i].until /\ slots'[i].ip = slots[i].ip
      BY <2>1 DEF Touched
    <3>2. Ends(slots[i], due[slots[i].ip], passNow, heard)
      BY <1>2, <3>1 DEF StandInv
    <3> QED
      BY <2>1, <3>1, <3>2 DEF Ends
  <2> QED
    BY <1>2, <2>1
<1>3. ASSUME NEW a \in Addrs, time < due'[a]
      PROVE  \E i \in Slots : slots'[i].ip = a /\ slots'[i].until # 0
  <2>1. ~(due'[a] = 0)
    BY <1>3 DEF StandInv, ClockInv
  <2>2. CASE due'[a] = due[a]
    <3>1. time < due[a]
      BY <1>3, <2>2
    <3> QED
      BY <2>2, <3>1, StaysHeld
  <2> QED
    BY <2>1, <2>2
<1> QED
  BY <1>1, <1>2, <1>3 DEF StandInv, ClockInv

\* A table made from another without a ban the other has not.
NoneMade(t, u) == \A i \in Slots : u[i].until # 0 => ~Touched(t[i], u[i])

\* slotFor makes no ban.
LEMMA SlotForMakesNone ==
  ASSUME NEW t, Sound(t), NEW ip \in Addrs, NEW now, NEW s, s = SlotFor(t, ip, now)
  PROVE  NoneMade(t, s.t)
<1> DEFINE swept == Swept(t, ip, now)
           own   == {i \in Slots : swept[i].ip = ip}
           new   == Reusable(swept, now)
<1>1. \A i \in Slots : swept[i].until # 0 => swept[i] = t[i]
  BY EmptyIn DEF Swept
<1>2. Sound(swept) /\ Entry(ip).until = 0
  BY SweptSound DEF Entry
<1> HIDE DEF swept
<1>3. CASE own # {}
  <2> DEFINE u == [i \in Slots |-> IF i < Min(own) THEN swept[i] ELSE t[i]]
  <2>1. s = [at |-> Min(own), t |-> u]
    BY <1>3 DEF SlotFor, swept
  <2>2. \A i \in Slots : u[i].until # 0 => u[i] = t[i]
    BY <1>1
  <2> HIDE DEF u
  <2> QED
    BY <2>1, <2>2 DEF NoneMade, Touched
<1>4. CASE own = {} /\ new = {}
  <2>1. s = [at |-> 0, t |-> swept]
    BY <1>4 DEF SlotFor, swept
  <2> QED
    BY <1>1, <2>1 DEF NoneMade, Touched
<1>5. CASE own = {} /\ new # {}
  <2> DEFINE k == Min(new)
             u == Remade(swept, k, ip)
  <2>1. s = [at |-> k, t |-> u]
    BY <1>5 DEF SlotFor, swept
  <2> HIDE DEF k
  <2>2. \A i \in Slots : u[i] = swept[i] \/ u[i] = Entry(ip)
    BY <1>2 DEF Remade, Sound
  <2> HIDE DEF u
  <2>3. \A i \in Slots : u[i].until # 0 => u[i] = t[i]
    BY <1>1, <1>2, <2>2
  <2> QED
    BY <2>1, <2>3 DEF NoneMade, Touched
<1> QED
  BY <1>3, <1>4, <1>5

\* aheadGive makes none either.
LEMMA ReturnedMakesNone ==
  ASSUME NEW t, Sound(t), NEW ip \in Addrs
  PROVE  NoneMade(t, Returned(t, ip))
<1> DEFINE own  == {i \in Slots : t[i].ip = ip}
           e(i) == IF t[i].fails = 0 /\ t[i].until = 0 THEN Empty ELSE [t[i] EXCEPT !.ahead = FALSE]
<1>1. CASE own = {}
  BY <1>1 DEF Returned, NoneMade, Touched
<1>2. CASE own # {}
  <2>1. PICK k \in Slots : k = Min(own)
    BY <1>2, FirstOf
  <2>2. Returned(t, ip) = [t EXCEPT ![k] = e(k)]
    BY <1>2, <2>1 DEF Returned
  <2>3. t \in [Slots -> Entries]
    BY DEF Sound
  <2>4. e(k).until # 0 => ~Touched(t[k], e(k))
    BY <2>3, EmptyIn DEF Touched, Entries
  <2> HIDE DEF e
  <2> QED
    BY <2>2, <2>3, <2>4 DEF NoneMade, Touched
<1> QED
  BY <1>1, <1>2

\* clear() makes none, and leaves the address none.
LEMMA ClearedMakesNone ==
  ASSUME NEW t, Sound(t), NEW ip \in Addrs
  PROVE  /\ NoneMade(t, Cleared(t, ip))
         /\ \A i \in Slots : Cleared(t, ip)[i].until # 0 => t[i].ip # ip
<1> DEFINE own == {i \in Slots : t[i].ip = ip}
<1>1. CASE own = {}
  BY <1>1 DEF Cleared, NoneMade, Touched
<1>2. CASE own # {}
  <2>1. PICK k \in Slots : k = Min(own) /\ t[k].ip = ip
    BY <1>2, FirstOf
  <2>2. Cleared(t, ip) = [t EXCEPT ![k] = Empty]
    BY <1>2, <2>1 DEF Cleared
  <2>3. ip # NoAddr /\ \A i \in Slots : t[i].ip = ip => i = k
    BY <2>1 DEF Sound
  <2>4. t \in [Slots -> Entries]
    BY DEF Sound
  <2>5. \A i \in Slots : Cleared(t, ip)[i].until # 0 => i # k /\ Cleared(t, ip)[i] = t[i]
    BY <2>2, <2>4, EmptyIn
  <2> QED
    BY <2>3, <2>5 DEF NoneMade, Touched
<1> QED
  BY <1>1, <1>2

\* A step that makes no ban and leaves every end as it is.
LEMMA StandsStill ==
  ASSUME IInv, StandInv, Kept, UNCHANGED <<time, passNow, heard>>, due' = due,
         NoneMade(slots, slots')
  PROVE  StandInv'
<1>1. due' \in [Addrs -> Int]
  BY DEF StandInv
<1> QED
  BY <1>1, StandsOn DEF NoneMade

\* The end of a ban that begins: it is the time the entry reads.
LEMMA BanBegins ==
  ASSUME StandInv,
         NEW end, end = passNow + kBan + BanUntil(Now) - Millis(Now + kBan)
  PROVE  /\ end \in Int /\ BanUntil(Now) = Millis(end)
         /\ end <= passNow + kBan + 1 /\ heard - kLag <= end
<1> DEFINE m == Millis(Now + kBan)
<1>1. passNow \in Int /\ heard - kLag <= passNow
  BY DEF StandInv, ClockInv
<1>2. m = Millis(passNow + kBan) /\ m \in Int
  <2>1. m = Millis(passNow + kBan)
    BY <1>1, ClockCarries, Widths DEF Now
  <2> QED
    BY <2>1, <1>1, ClockReads, Widths
<1>3. BanUntil(Now) = IF m = 0 THEN 1 ELSE m
  BY DEF BanUntil
<1> HIDE DEF m
<1>4. end = passNow + kBan + BanUntil(Now) - m
  BY DEF m
<1>5. CASE m # 0
  <2>1. end = passNow + kBan
    BY <1>1, <1>2, <1>3, <1>4, <1>5, Widths
  <2>2. BanUntil(Now) = Millis(end)
    BY <2>1, <1>2, <1>3, <1>5
  <2>3. end \in Int /\ end <= passNow + kBan + 1 /\ heard - kLag <= end
    BY <2>1, <1>1, Widths DEF StandInv, ClockInv
  <2> QED
    BY <2>2, <2>3
<1>6. CASE m = 0
  <2>1. end = passNow + kBan + 1
    BY <1>1, <1>2, <1>3, <1>4, <1>6, Widths
  <2> DEFINE t == passNow + kBan
             q == t \div kClock
  <2>2. t \in Int /\ Millis(t) = 0
    BY <1>1, <1>2, <1>6, Widths
  <2> HIDE DEF t
  <2>3. q \in Int /\ t = (kClock * q) + Millis(t)
    BY <2>2, ClockParts
  <2> HIDE DEF q
  <2>4. t + 1 = (kClock * q) + 1 /\ 1 \in 0..(kClock - 1)
    BY <2>2, <2>3, Widths
  <2>5. Millis(t + 1) = 1
    BY <2>2, <2>3, <2>4, ClockOf
  <2>6. BanUntil(Now) = Millis(end)
    BY <2>1, <2>5, <1>3, <1>6 DEF t
  <2>7. end \in Int /\ end <= passNow + kBan + 1 /\ heard - kLag <= end
    BY <2>1, <1>1, Widths DEF StandInv, ClockInv
  <2> QED
    BY <2>6, <2>7
<1> QED
  BY <1>5, <1>6

\* fail(): the ban it makes, if it makes one, ends when its address's does.
LEMMA FailStands ==
  ASSUME IInv, StandInv, Kept, TableIsSound', NEW ip \in Addrs, Fail(ip),
         UNCHANGED <<time, passNow, heard>>
  PROVE  StandInv'
<1> DEFINE s == SlotFor(slots, ip, Now)
           e == s.t[s.at]
           f == Failed(e, Now)
           end == passNow + kBan + BanUntil(Now) - Millis(Now + kBan)
<1>1. /\ s.at \in Slots \cup {0} /\ Sound(s.t) /\ (s.at # 0 => e.ip = ip)
      /\ NoneMade(slots, s.t)
  BY SlotForSound, SlotForMakesNone DEF IInv, TableIsSound
<1>2. Now \in 0..(kClock - 1)
  BY ClockReads DEF Now, IInv, Typed
<1>3. s.at = 0 => slots' = s.t /\ due' = due
  BY DEF Fail, ghosts
<1>4. s.at # 0 => /\ slots' = [s.t EXCEPT ![s.at] = f]
                  /\ due' = IF e.until # 0 \/ f.until = 0 THEN due ELSE [due EXCEPT ![ip] = end]
  BY DEF Fail, ghosts
<1> HIDE DEF s
<1>5. CASE s.at = 0
  BY <1>1, <1>3, <1>5, StandsStill
<1>6. CASE s.at # 0
  <2>1. s.at \in Slots /\ e \in Entries /\ ((e.until # 0) <=> (e.fails = kTries))
        /\ s.t \in [Slots -> Entries]
    BY <1>1, <1>6 DEF Sound
  <2>2. f.ip = ip /\ (e.until # 0 => f = e)
    BY <1>1, <1>2, <1>6, <2>1, FailedIn
  <2>3. e.until = 0 => f.until = 0 \/ f.until = BanUntil(Now)
    <3>1. WindowFrom(e, Now) \in Entries /\ WindowFrom(e, Now).until = e.until
      BY <1>2, <2>1, WindowFromIn
    <3> QED
      BY <3>1 DEF Failed, Entries
  <2> HIDE DEF f
  <2>4. slots'[s.at] = f /\ \A i \in Slots : i # s.at => slots'[i] = s.t[i]
    BY <1>4, <1>6, <2>1
  <2>5. CASE e.until # 0 \/ f.until = 0
    <3>1. due' = due
      BY <1>4, <1>6, <2>5
    <3>2. NoneMade(slots, slots')
      BY <1>1, <2>2, <2>4, <2>5 DEF NoneMade
    <3> QED
      BY <3>1, <3>2, StandsStill
  <2>6. CASE e.until = 0 /\ f.until # 0
    <3>1. end \in Int /\ BanUntil(Now) = Millis(end) /\ end <= passNow + kBan + 1
          /\ heard - kLag <= end
      BY BanBegins
    <3> HIDE DEF end
    <3>2. due \in [Addrs -> Int] /\ due' = [due EXCEPT ![ip] = end]
      BY <1>4, <1>6, <2>6 DEF StandInv
    <3>3. due' \in [Addrs -> Int] /\ due'[ip] = end /\ \A a \in Addrs \ {ip} : due'[a] = due[a]
      BY <3>1, <3>2
    <3>4. Ends(slots'[s.at], due'[slots'[s.at].ip], passNow, heard)
      BY <2>2, <2>3, <2>4, <2>6, <3>1, <3>3 DEF Ends
    <3>5. ASSUME NEW i \in Slots, slots'[i].until # 0, i # s.at
          PROVE  ~Touched(slots[i], slots'[i]) /\ due'[slots[i].ip] = due[slots[i].ip]
      <4>1. ~Touched(slots[i], slots'[i])
        BY <1>1, <2>4, <3>5 DEF NoneMade
      <4>2. slots'[i].ip # ip
        <5>1. \A k \in Slots : slots'[i].ip = slots'[k].ip /\ slots'[i].ip # NoAddr => i = k
          BY DEF TableIsSound, Sound
        <5>2. ip # NoAddr
          OBVIOUS
        <5> QED
          BY <5>1, <5>2, <2>1, <2>2, <2>4, <3>5
      <4>3. slots[i].ip = slots'[i].ip
        BY <4>1 DEF Touched
      <4>4. due'[slots[i].ip] = due[slots[i].ip]
        BY <3>2, <4>2, <4>3
      <4> QED
        BY <4>1, <4>4
    <3>6. \A i \in Slots : slots'[i].until # 0 =>
            \/ ~Touched(slots[i], slots'[i]) /\ due'[slots[i].ip] = due[slots[i].ip]
            \/ Ends(slots'[i], due'[slots'[i].ip], passNow, heard)
      BY <3>4, <3>5
    <3>7. \A a \in Addrs : \/ due'[a] = due[a] \/ due'[a] = 0
                           \/ \E i \in Slots : slots'[i].ip = a /\ slots'[i].until # 0
      BY <2>1, <2>2, <2>4, <2>6, <3>3
    <3> QED
      BY <3>3, <3>6, <3>7, StandsOn
  <2> QED
    BY <2>5, <2>6
<1> QED
  BY <1>5, <1>6

\* clear(): the address has no ban left, and none is due.
LEMMA ForgiveStands ==
  ASSUME IInv, StandInv, Kept, NEW ip \in Addrs, Forgive(ip),
         UNCHANGED <<time, passNow, heard>>
  PROVE  StandInv'
<1>1. slots' = Cleared(slots, ip) /\ due' = [due EXCEPT ![ip] = 0] /\ due \in [Addrs -> Int]
  BY DEF Forgive, StandInv
<1>2. Sound(slots)
  BY DEF IInv, TableIsSound
<1>3. \A i \in Slots : slots'[i].until # 0 => ~Touched(slots[i], slots'[i]) /\ slots[i].ip # ip
  BY <1>1, <1>2, ClearedMakesNone DEF NoneMade
<1>4. due' \in [Addrs -> Int] /\ due'[ip] = 0 /\ \A a \in Addrs \ {ip} : due'[a] = due[a]
  BY <1>1
<1>5. \A i \in Slots : slots'[i].until # 0 =>
        ~Touched(slots[i], slots'[i]) /\ due'[slots[i].ip] = due[slots[i].ip]
  BY <1>1, <1>3
<1> QED
  BY <1>4, <1>5, StandsOn

\* A connection sweeps out every ban that is over.
LEMMA ConnectStands ==
  ASSUME IInv, StandInv, Kept, NEW c \in Calls, NEW ip \in Addrs, Connect(c, ip)
  PROVE  StandInv'
<1>1. heard' = time /\ time' = time /\ passNow' = passNow /\ due' = due
      /\ slots' = Swept(slots, ip, Now)
  BY DEF Connect, ghosts
<1>2. ClockInv'
  BY <1>1 DEF StandInv, ClockInv
<1>3. ASSUME NEW i \in Slots, slots'[i].until # 0
      PROVE  Ends(slots'[i], due'[slots'[i].ip], passNow', heard')
  <2>1. slots'[i] = slots[i] /\ ~Expired(slots[i], Now) /\ slots[i].until # 0
    BY <1>1, <1>3, EmptyIn DEF Swept
  <2>2. passNow < due[slots[i].ip] /\ slots[i].ip \in Addrs
    BY <2>1, EndKnown DEF Now
  <2>3. Ends(slots[i], due[slots[i].ip], passNow, heard)
    BY <2>1 DEF StandInv
  <2>4. due[slots[i].ip] \in Int /\ time \in Int /\ passNow \in Int /\ time <= passNow + kLag
    BY <2>2 DEF StandInv, ClockInv
  <2> QED
    BY <1>1, <2>1, <2>2, <2>3, <2>4 DEF Ends
<1>4. \A a \in Addrs : time' < due'[a] => \E i \in Slots : slots'[i].ip = a /\ slots'[i].until # 0
  BY <1>1, StaysHeld
<1> QED
  BY <1>1, <1>2, <1>3, <1>4 DEF StandInv

\* Every step keeps the ends of the bans.
LEMMA StepStands == IInv /\ StandInv /\ [Next]_vars => StandInv'
<1> SUFFICES ASSUME IInv, StandInv, [Next]_vars PROVE StandInv'
  OBVIOUS
<1>k. Kept /\ TableIsSound'
  BY StepHolds DEF IInv
<1>t. Sound(slots) /\ CallsTyped
  BY DEF IInv, TableIsSound, Typed
<1>s. NoneMade(slots, slots)
  BY DEF NoneMade, Touched
<1>1. CASE Tick
  <2>1. slots' = slots /\ due' = due /\ heard' = heard /\ time' = time + 1
        /\ passNow' \in {passNow, time + 1} /\ time + 1 - passNow' <= kLag
        /\ time - heard < kQuiet
    BY <1>1 DEF Tick, ghosts
  <2>2. ClockInv' /\ passNow' >= passNow /\ passNow \in Int /\ passNow' \in Int /\ time \in Int
    BY <2>1 DEF StandInv, ClockInv
  <2>3. ASSUME NEW i \in Slots, slots'[i].until # 0
        PROVE  Ends(slots'[i], due'[slots'[i].ip], passNow', heard')
    <3>1. due[slots[i].ip] \in Int
      BY <2>1, <2>3, EndKnown DEF StandInv
    <3>2. Ends(slots[i], due[slots[i].ip], passNow, heard)
      BY <2>1, <2>3 DEF StandInv
    <3> QED
      BY <2>1, <2>2, <3>1, <3>2 DEF Ends
  <2>4. ASSUME NEW a \in Addrs, time' < due'[a]
        PROVE  \E i \in Slots : slots'[i].ip = a /\ slots'[i].until # 0
    <3>1. time < due[a]
      BY <2>1, <2>2, <2>4 DEF StandInv
    <3> QED
      BY <2>1, <3>1 DEF StandInv
  <2> QED
    BY <2>1, <2>2, <2>3, <2>4 DEF StandInv
<1>2. ASSUME NEW ip \in Addrs, Unban(ip) PROVE StandInv'
  BY <1>2, <1>k, ForgiveStands DEF Unban, clockVars
<1>3. ASSUME NEW c \in Calls, NEW ip \in Addrs, Connect(c, ip) PROVE StandInv'
  BY <1>3, <1>k, ConnectStands
<1>4. ASSUME NEW c \in Calls, Arrive(c) \/ Ask(c) \/ WrongHeld(c) \/ HangUp(c) PROVE StandInv'
  <2>1. slots' = slots /\ due' = due /\ UNCHANGED <<time, passNow, heard>>
    BY <1>4 DEF Arrive, Ask, WrongHeld, HangUp, clockVars, ghosts
  <2> QED
    BY <1>k, <1>s, <2>1, StandsStill
<1>5. ASSUME NEW c \in Calls, AskHeld(c) PROVE StandInv'
  <2> DEFINE now == Millis(time)
             s   == SlotFor(slots, calls[c].ip, now)
             w   == WindowFrom(s.t[s.at], now)
  <2>1. calls[c].ip \in Addrs
    BY <1>5, <1>t DEF AskHeld, CallsTyped
  <2>2. s.at \in Slots \cup {0} /\ Sound(s.t) /\ NoneMade(slots, s.t)
    BY <2>1, <1>t, SlotForSound, SlotForMakesNone
  <2>3. due' = due /\ UNCHANGED <<time, passNow, heard>>
    BY <1>5 DEF AskHeld, clockVars, ghosts
  <2>4. NoneMade(slots, slots')
    <3>1. CASE slots' = s.t
      BY <2>2, <3>1
    <3>2. CASE /\ s.at # 0 /\ s.t[s.at].until = 0
               /\ slots' = [s.t EXCEPT ![s.at] = [w EXCEPT !.ahead = TRUE]]
      <4>1. now \in 0..(kClock - 1)
        BY ClockReads DEF IInv, Typed
      <4> HIDE DEF s, now
      <4>2. s.at \in Slots /\ s.t[s.at] \in Entries /\ s.t \in [Slots -> Entries]
        BY <2>2, <3>2 DEF Sound
      <4>3. w \in Entries /\ w.until = 0
        BY <3>2, <4>1, <4>2, WindowFromIn
      <4> HIDE DEF w
      <4>4. [w EXCEPT !.ahead = TRUE].until = 0
        BY <4>3 DEF Entries
      <4>5. \A i \in Slots : slots'[i].until # 0 => slots'[i] = s.t[i]
        BY <3>2, <4>2, <4>4
      <4> QED
        BY <2>2, <4>5 DEF NoneMade
    <3> QED
      BY <1>5, <3>1, <3>2 DEF AskHeld
  <2> QED
    BY <1>k, <2>3, <2>4, StandsStill
<1>6. ASSUME NEW c \in Calls, Skip(c) PROVE StandInv'
  <2>1. calls[c].ip \in Addrs
    BY <1>6, <1>t DEF Skip, CallsTyped
  <2>2. due' = due /\ UNCHANGED <<time, passNow, heard>>
    BY <1>6 DEF Skip, clockVars, ghosts
  <2>3. NoneMade(slots, slots')
    BY <1>6, <1>s, <1>t, <2>1, ReturnedMakesNone DEF Skip
  <2> QED
    BY <1>k, <2>2, <2>3, StandsStill
<1>7. ASSUME NEW c \in Calls, Right(c) PROVE StandInv'
  <2>1. calls[c].ip \in Addrs
    BY <1>7, <1>t DEF Right, CallsTyped
  <2> QED
    BY <1>7, <1>k, <2>1, ForgiveStands DEF Right, clockVars
<1>8. ASSUME NEW c \in Calls, Wrong(c) \/ WrongBye(c) \/ SshEnd(c) PROVE StandInv'
  <2>1. Fail(calls[c].ip) /\ UNCHANGED <<time, passNow, heard>> /\ calls[c].at # "free"
    BY <1>8 DEF Wrong, WrongBye, SshEnd, clockVars
  <2>2. calls[c].ip \in Addrs
    BY <1>t, <2>1 DEF CallsTyped
  <2> QED
    BY <1>k, <2>1, <2>2, FailStands
<1>9. CASE UNCHANGED vars
  <2>1. slots' = slots /\ due' = due /\ UNCHANGED <<time, passNow, heard>>
    BY <1>9 DEF vars
  <2> QED
    BY <1>k, <1>s, <2>1, StandsStill
<1> QED
  BY <1>1, <1>2, <1>3, <1>4, <1>5, <1>6, <1>7, <1>8, <1>9 DEF Next

-------------------------------------------------------------------------------
(* How a ban is earned                                                     *)

\* An entry with nothing in it, and the last n of an address's wrong answers.
Blank(e) == e.fails = 0 /\ ~e.ahead
LastSince(s, n, from) == n <= Len(s) /\ \A i \in (Len(s) - n + 1)..Len(s) : s[i] >= from

\* An entry without a ban counts from a true time in the board's life, and the last wrong
\* answers of its address, as many as it counts, were given since: they are stamped with
\* the pass's time, which may be a little before.
CountsFrom(e, s, from) == e.first = Millis(from) /\ LastSince(s, e.fails, from - kLag)
Counts(e, s, t) == e.until = 0 /\ ~Blank(e) => \E from \in kStart..t : CountsFrom(e, s, from)

EarnInv ==
  /\ kStart <= passNow /\ time - kStart <= kClock - kAhead
  /\ \A a \in Addrs : due[a] >= 0
  /\ wrongs \in [Addrs -> Seq(Int)]
  /\ \A a \in Addrs : Len(wrongs[a]) <= kTries
  /\ \A i \in Slots : slots[i].ip \in Addrs => Counts(slots[i], wrongs[slots[i].ip], time)

\* The sizes are numbers.
LEMMA Sizes ==
  /\ kTries \in Nat /\ kTries >= 1 /\ kWindow \in Nat /\ kLag \in Nat /\ kStart \in Nat
  /\ kAhead \in Nat /\ kClock \in Nat
OBVIOUS

\* Nothing has been counted.
LEMMA InitEarns ==
  ASSUME Init
  PROVE  EarnInv
<1>1. \A i \in Slots : slots[i].ip = NoAddr
  BY DEF Init, Empty, Entry
<1>2. time = kStart /\ passNow = kStart /\ due = [a \in Addrs |-> 0]
      /\ wrongs = [a \in Addrs |-> <<>>]
  BY DEF Init
<1> QED
  BY <1>1, <1>2 DEF EarnInv, UpLessThanATurn

\* What an entry counts it counts later too.
LEMMA CountsLater ==
  ASSUME NEW e, NEW s, NEW t \in Int, NEW u \in Int, t <= u, Counts(e, s, t)
  PROVE  Counts(e, s, u)
BY DEF Counts

\* slotFor leaves an entry alone or makes it a blank one.
LEMMA SlotForCounts ==
  ASSUME NEW t, Sound(t), NEW ip \in Addrs, NEW now, NEW s, s = SlotFor(t, ip, now)
  PROVE  \A i \in Slots : s.t[i] = t[i] \/ Blank(s.t[i])
<1> DEFINE swept == Swept(t, ip, now)
           own   == {i \in Slots : swept[i].ip = ip}
           new   == Reusable(swept, now)
<1>1. Blank(Empty) /\ Blank(Entry(ip))
  BY DEF Blank, Empty, Entry
<1>2. \A i \in Slots : swept[i] = t[i] \/ Blank(swept[i])
  BY <1>1 DEF Swept
<1>3. Sound(swept)
  BY SweptSound
<1> HIDE DEF swept
<1>4. CASE own # {}
  <2>1. s.t = [i \in Slots |-> IF i < Min(own) THEN swept[i] ELSE t[i]]
    BY <1>4 DEF SlotFor, swept
  <2> QED
    BY <1>2, <2>1
<1>5. CASE own = {} /\ new = {}
  BY <1>2, <1>5 DEF SlotFor, swept
<1>6. CASE own = {} /\ new # {}
  <2> DEFINE k == Min(new)
             u == Remade(swept, k, ip)
  <2>1. s = [at |-> k, t |-> u]
    BY <1>6 DEF SlotFor, swept
  <2> HIDE DEF k
  <2>2. \A i \in Slots : u[i] = swept[i] \/ u[i] = Entry(ip)
    BY <1>3 DEF Remade, Sound
  <2> HIDE DEF u
  <2> QED
    BY <1>1, <1>2, <2>1, <2>2
<1> QED
  BY <1>4, <1>5, <1>6

\* since, within a turn of the clock: it says no longer than a window only if it is so.
LEMMA SinceIs ==
  ASSUME NEW now \in Int, NEW from \in Int, now - from <= kClock - kAhead,
         Since(Millis(now), Millis(from)) <= kWindow
  PROVE  now <= from + kWindow
<1>1. CASE now < from
  BY <1>1
<1>2. CASE now >= from
  <2>1. now - from = (kClock * 0) + (now - from)
    BY Widths
  <2>2. now - from \in 0..(kClock - 1)
    BY <1>2, Widths
  <2>3. (Millis(now) - Millis(from)) % kClock = now - from
    <3>1. Millis(now - from) = now - from
      BY <2>1, <2>2, ClockOf
    <3> QED
      BY <3>1, ClockApart
  <2>4. ~(now - from > kClock - kAhead)
    BY Widths
  <2>5. Since(Millis(now), Millis(from)) = now - from
    BY <2>3, <2>4 DEF Since
  <2> QED
    BY <2>5
<1> QED
  BY <1>1, <1>2

\* windowFrom: what is counted after it was given within the window.
LEMMA WindowCounts ==
  ASSUME NEW e \in Entries, e.until = 0, NEW s \in Seq(Int),
         NEW t \in Int, t - kStart <= kClock - kAhead, Counts(e, s, t),
         NEW now \in kStart..t, NEW w, w = WindowFrom(e, Millis(now))
  PROVE  \E from \in kStart..t : CountsFrom(w, s, from) /\ now <= from + kWindow
<1>1. CASE Fresh(e, Millis(now))
  <2>1. w.first = Millis(now) /\ w.fails = 0
    BY <1>1 DEF WindowFrom, Entries
  <2>2. CountsFrom(w, s, now)
    BY <2>1 DEF CountsFrom, LastSince
  <2> QED
    BY <2>2
<1>2. CASE ~Fresh(e, Millis(now))
  <2>1. w = e
    BY <1>2 DEF WindowFrom
  <2>2. ~Blank(e) /\ ~(Since(Millis(now), e.first) > kWindow)
    BY <1>2 DEF Fresh, Blank
  <2>3. PICK from \in kStart..t : CountsFrom(e, s, from)
    BY <2>2 DEF Counts
  <2>4. e.first = Millis(from)
    BY <2>3 DEF CountsFrom
  <2>5. Since(Millis(now), Millis(from)) \in Int
    <3>1. (Millis(now) - Millis(from)) % kClock \in Int
      BY ClockApart, ClockReads
    <3> QED
      BY <3>1 DEF Since
  <2>6. now <= from + kWindow
    <3>1. now \in Int /\ from \in Int /\ now - from <= kClock - kAhead
      BY Sizes
    <3>2. Since(Millis(now), Millis(from)) <= kWindow
      BY <2>2, <2>4, <2>5, Sizes
    <3> QED
      BY <3>1, <3>2, SinceIs
  <2> QED
    BY <2>1, <2>3, <2>6
<1> QED
  BY <1>1, <1>2

\* One more wrong answer, of the kTries that are kept.
LEMMA OneMore ==
  ASSUME NEW s \in Seq(Int), Len(s) <= kTries, NEW n \in 0..(kTries - 1), NEW from \in Int,
         LastSince(s, n, from), NEW v \in Int, from <= v
  PROVE  /\ Latest(Append(s, v)) \in Seq(Int)
         /\ Len(Latest(Append(s, v))) <= kTries
         /\ LastSince(Latest(Append(s, v)), n + 1, from)
<1> DEFINE a == Append(s, v)
<1>1. a \in Seq(Int) /\ Len(a) = Len(s) + 1 /\ a[Len(a)] = v
      /\ \A i \in 1..Len(s) : a[i] = s[i]
  OBVIOUS
<1>2. n <= Len(s) /\ \A i \in (Len(s) - n + 1)..Len(s) : s[i] >= from
  BY DEF LastSince
<1>3. ASSUME NEW i \in (Len(a) - n)..Len(a) PROVE a[i] >= from
  <2>1. CASE i = Len(a)
    BY <1>1, <2>1
  <2>2. CASE i # Len(a)
    <3> DEFINE l == Len(s)
    <3>1. l \in Nat /\ n \in Nat /\ n <= l /\ i \in (l + 1 - n)..(l + 1) /\ i # l + 1
      BY <1>1, <1>2, <2>2, Sizes
    <3> HIDE DEF l
    <3>2. i \in (l - n + 1)..l /\ i \in 1..l
      BY <3>1
    <3>3. i \in (Len(s) - n + 1)..Len(s) /\ i \in 1..Len(s)
      BY <3>2 DEF l
    <3> QED
      BY <1>1, <1>2, <3>3
  <2> QED
    BY <2>1, <2>2
<1> HIDE DEF a
<1>4. CASE Len(a) > kTries
  <2> DEFINE b == Tail(a)
  <2>1. b \in Seq(Int) /\ Len(b) = Len(a) - 1 /\ \A i \in 1..Len(b) : b[i] = a[i + 1]
    BY <1>1
  <2> HIDE DEF b
  <2>2. Len(b) = kTries
    BY <1>1, <1>4, <2>1
  <2>3. \A i \in (Len(b) - (n + 1) + 1)..Len(b) : b[i] >= from
    <3> SUFFICES ASSUME NEW i \in (Len(b) - (n + 1) + 1)..Len(b) PROVE b[i] >= from
      OBVIOUS
    <3>1. i \in 1..Len(b) /\ i + 1 \in (Len(a) - n)..Len(a)
      BY <2>1, <2>2, Sizes
    <3> QED
      BY <1>3, <2>1, <3>1
  <2>4. LastSince(b, n + 1, from)
    BY <2>2, <2>3 DEF LastSince
  <2> QED
    BY <1>4, <2>1, <2>2, <2>4, Sizes DEF Latest, a, b
<1>5. CASE ~(Len(a) > kTries)
  <2>1. LastSince(a, n + 1, from)
    BY <1>1, <1>2, <1>3 DEF LastSince
  <2> QED
    BY <1>1, <1>5, <2>1 DEF Latest, a
<1> QED
  BY <1>4, <1>5

\* The count the property makes: all of the last kTries.
LEMMA AllCounted ==
  ASSUME NEW s \in Seq(Int), Len(s) <= kTries, NEW from \in Int, LastSince(s, kTries, from - kLag),
         NEW now \in Int, now <= from + kWindow
  PROVE  Cardinality({i \in DOMAIN s : s[i] + kWindow + kLag >= now}) >= kTries
<1>0. Len(s) = kTries /\ \A i \in (Len(s) - kTries + 1)..Len(s) : s[i] >= from - kLag
  BY Sizes DEF LastSince
<1>1. DOMAIN s = 1..kTries /\ \A i \in 1..kTries : s[i] \in Int /\ s[i] >= from - kLag
  <2>1. DOMAIN s = 1..kTries /\ \A i \in 1..kTries : s[i] \in Int
    BY <1>0
  <2>2. (Len(s) - kTries + 1)..Len(s) = 1..kTries
    BY <1>0, Sizes
  <2> QED
    BY <1>0, <2>1, <2>2
<1>2. {i \in DOMAIN s : s[i] + kWindow + kLag >= now} = 1..kTries
  BY <1>1, Sizes
<1>3. Cardinality(1..kTries) >= kTries
  <2>1. Cardinality(1..kTries) = IF 1 > kTries THEN 0 ELSE kTries - 1 + 1
    BY FS_Interval, Sizes
  <2> QED
    BY <2>1, Sizes
<1> QED
  BY <1>2, <1>3

\* What a step has to keep of BanIsEarned.
Earned == \A a \in Addrs : due'[a] > due[a] =>
  Cardinality({i \in DOMAIN wrongs'[a] : wrongs'[a][i] + kWindow + kLag >= passNow}) >= kTries

\* An entry with a ban or with nothing in it counts whatever its address has given.
LEMMA CountsNone ==
  ASSUME NEW e, e.until # 0 \/ Blank(e), NEW s, NEW t
  PROVE  Counts(e, s, t)
BY DEF Counts

\* A step within a pass that counts no wrong answer: the entries it changes it empties, or
\* they still count what was given.
LEMMA EarnsOn ==
  ASSUME StandInv, EarnInv, time' = time, passNow' = passNow, due' = due, wrongs' = wrongs,
         \A i \in Slots : \/ slots'[i] = slots[i] \/ Blank(slots'[i])
                          \/ Counts(slots'[i], wrongs[slots'[i].ip], time)
  PROVE  EarnInv' /\ Earned
<1>1. ASSUME NEW i \in Slots, slots'[i].ip \in Addrs
      PROVE  Counts(slots'[i], wrongs'[slots'[i].ip], time')
  <2>1. CASE slots'[i] = slots[i]
    BY <1>1, <2>1 DEF EarnInv
  <2>2. CASE Blank(slots'[i])
    BY <2>2, CountsNone
  <2> QED
    BY <2>1, <2>2
<1>2. \A a \in Addrs : ~(due'[a] > due[a])
  <2>1. \A a \in Addrs : due[a] \in Int
    BY DEF StandInv
  <2> QED
    BY <2>1
<1> QED
  BY <1>1, <1>2 DEF EarnInv, Earned

\* The entry slotFor finds counts wrong answers of the address it is found for.
LEMMA FoundCounts ==
  ASSUME IInv, EarnInv, NEW ip \in Addrs, NEW now, NEW s, s = SlotFor(slots, ip, now), s.at # 0
  PROVE  s.at \in Slots /\ s.t[s.at] \in Entries /\ s.t[s.at].ip = ip
         /\ Counts(s.t[s.at], wrongs[ip], time)
<1>1. Sound(slots)
  BY DEF IInv, TableIsSound
<1>2. s.at \in Slots /\ Sound(s.t) /\ s.t[s.at].ip = ip
  BY <1>1, SlotForSound
<1>3. s.t[s.at] = slots[s.at] \/ Blank(s.t[s.at])
  BY <1>1, <1>2, SlotForCounts
<1>4. Counts(s.t[s.at], wrongs[ip], time)
  BY <1>2, <1>3, CountsNone DEF EarnInv
<1> QED
  BY <1>2, <1>4 DEF Sound

\* fail(): it counts the answer in the entry and, by then, among the address's own; and the
\* one that bans is the last of kTries given within the window.
LEMMA FailEarns ==
  ASSUME IInv, StandInv, EarnInv, TableIsSound', NEW ip \in Addrs, Fail(ip),
         UNCHANGED <<time, passNow, heard>>
  PROVE  EarnInv' /\ Earned
<1> DEFINE s == SlotFor(slots, ip, Now)
           e == s.t[s.at]
           f == Failed(e, Now)
           w == WindowFrom(e, Now)
           m == Millis(Now + kBan)
           end == passNow + kBan + BanUntil(Now) - m
           given == Latest(Append(wrongs[ip], passNow))
<1>t. /\ Sound(slots) /\ passNow \in Nat /\ time \in Nat /\ passNow <= time
      /\ time <= passNow + kLag /\ due \in [Addrs -> Int]
  BY DEF IInv, TableIsSound, StandInv, ClockInv
<1>n. Now \in 0..(kClock - 1) /\ Now = Millis(passNow)
  BY <1>t, ClockReads DEF Now
<1>1. \A i \in Slots : s.t[i] = slots[i] \/ Blank(s.t[i])
  BY <1>t, SlotForCounts
<1>2. s.at \in Slots \cup {0} /\ Sound(s.t)
  BY <1>t, SlotForSound
<1>3. s.at # 0 => s.at \in Slots /\ e \in Entries /\ e.ip = ip /\ Counts(e, wrongs[ip], time)
  BY FoundCounts
<1>4. s.at = 0 => slots' = s.t /\ due' = due /\ wrongs' = wrongs
  BY DEF Fail, ghosts
<1>5. s.at # 0 => slots' = [s.t EXCEPT ![s.at] = f]
  BY DEF Fail
<1>6. s.at # 0 /\ e.until # 0 => due' = due /\ wrongs' = wrongs
  BY DEF Fail, ghosts
<1>7. s.at # 0 /\ e.until = 0 => /\ wrongs' = [wrongs EXCEPT ![ip] = given]
                                 /\ due' = IF f.until = 0 THEN due ELSE [due EXCEPT ![ip] = end]
  BY DEF Fail
<1> HIDE DEF s
<1>8. CASE s.at = 0
  BY <1>1, <1>4, <1>8, EarnsOn
<1>9. CASE s.at # 0 /\ e.until # 0
  <2>1. f = e
    BY <1>9 DEF Failed
  <2>2. slots' = s.t
    BY <1>2, <1>3, <1>5, <1>9, <2>1 DEF Sound
  <2> QED
    BY <1>1, <1>6, <1>9, <2>2, EarnsOn
<1>10. CASE s.at # 0 /\ e.until = 0
  <2>1. e \in Entries /\ e.fails # kTries /\ Counts(e, wrongs[ip], time)
    BY <1>2, <1>3, <1>10 DEF Sound
  <2>2. w \in Entries /\ w.ip = ip /\ w.until = 0 /\ w.fails \in 0..(kTries - 1)
    BY <1>3, <1>n, <1>10, <2>1, WindowFromIn
  <2>3. PICK from \in kStart..time : CountsFrom(w, wrongs[ip], from) /\ passNow <= from + kWindow
    <3>1. passNow \in kStart..time /\ wrongs[ip] \in Seq(Int) /\ time - kStart <= kClock - kAhead
      BY <1>t, Sizes DEF EarnInv
    <3>2. e.until = 0 /\ time \in Int /\ w = WindowFrom(e, Millis(passNow))
      BY <1>t, <1>n, <1>10
    <3> HIDE DEF e, w
    <3> QED
      BY <2>1, <3>1, <3>2, WindowCounts
  <2>4. given \in Seq(Int) /\ Len(given) <= kTries /\ LastSince(given, w.fails + 1, from - kLag)
    <3>1. from \in Int /\ from - kLag \in Int /\ from - kLag <= passNow /\ passNow \in Int
      BY <1>t, Sizes
    <3>2. wrongs[ip] \in Seq(Int) /\ Len(wrongs[ip]) <= kTries
          /\ LastSince(wrongs[ip], w.fails, from - kLag)
      BY <2>3 DEF EarnInv, CountsFrom
    <3> QED
      BY <2>2, <3>1, <3>2, OneMore
  <2>5. f = IF w.fails + 1 < kTries THEN [w EXCEPT !.fails = @ + 1]
            ELSE [w EXCEPT !.fails = @ + 1, !.until = BanUntil(Now)]
    BY <1>10 DEF Failed
  <2>6. f.ip = ip /\ f.first = w.first /\ f.fails = w.fails + 1
        /\ (f.until # 0 => w.fails + 1 = kTries)
    <3>1. CASE w.fails + 1 < kTries
      BY <2>2, <2>5, <3>1 DEF Entries
    <3>2. CASE ~(w.fails + 1 < kTries)
      <4>1. w.fails + 1 = kTries
        BY <2>2, <3>2, Sizes
      <4> DEFINE g == [w EXCEPT !.fails = @ + 1]
      <4>2. f = [g EXCEPT !.until = BanUntil(Now)]
        BY <2>5, <3>2
      <4>3. g \in [ip: Addrs \cup {NoAddr}, fails: Int, ahead: BOOLEAN, first: Int, until: Int]
            /\ g.ip = ip /\ g.first = w.first /\ g.fails = w.fails + 1
        BY <2>2 DEF Entries
      <4> HIDE DEF g
      <4> QED
        BY <4>1, <4>2, <4>3
    <3> QED
      BY <3>1, <3>2
  <2>7. Counts(f, given, time)
    BY <2>3, <2>4, <2>6 DEF Counts, CountsFrom
  <2>8. f.until # 0 =>
          Cardinality({i \in DOMAIN given : given[i] + kWindow + kLag >= passNow}) >= kTries
    <3> SUFFICES ASSUME f.until # 0
                 PROVE  Cardinality({i \in DOMAIN given : given[i] + kWindow + kLag >= passNow})
                          >= kTries
      OBVIOUS
    <3>1. LastSince(given, kTries, from - kLag) /\ from \in Int /\ passNow \in Int
      BY <1>t, <2>4, <2>6, Sizes
    <3> HIDE DEF given
    <3> QED
      BY <2>3, <2>4, <3>1, AllCounted
  <2> HIDE DEF f, w, e, given
  <2>9. slots'[s.at] = f /\ \A i \in Slots : i # s.at => slots'[i] = s.t[i]
    BY <1>2, <1>3, <1>5, <1>10 DEF Sound
  <2>10. wrongs' \in [Addrs -> Seq(Int)] /\ wrongs'[ip] = given
         /\ \A a \in Addrs : a # ip => wrongs'[a] = wrongs[a]
    BY <1>7, <1>10, <2>4 DEF EarnInv
  <2>11. ASSUME NEW i \in Slots, slots'[i].ip \in Addrs
         PROVE  Counts(slots'[i], wrongs'[slots'[i].ip], time')
    <3>1. CASE i = s.at
      BY <2>6, <2>7, <2>9, <2>10, <3>1
    <3>2. CASE i # s.at
      <4>1. slots'[i].ip # ip
        <5>1. \A k \in Slots : slots'[i].ip = slots'[k].ip /\ slots'[i].ip # NoAddr => i = k
          BY DEF TableIsSound, Sound
        <5> QED
          BY <1>3, <1>10, <2>6, <2>9, <3>2, <5>1
      <4>2. slots'[i] = slots[i] \/ Blank(slots'[i])
        BY <1>1, <2>9, <3>2
      <4> QED
        BY <2>10, <2>11, <4>1, <4>2, CountsNone DEF EarnInv
    <3> QED
      BY <3>1, <3>2
  <2>12. end \in Int /\ end >= 0
    <3>1. m \in Int /\ 0 <= m
      BY <1>n, ClockReads, Widths
    <3>2. BanUntil(Now) = IF m = 0 THEN 1 ELSE m
      BY DEF BanUntil
    <3> HIDE DEF m
    <3> QED
      BY <1>t, <3>1, <3>2, Widths
  <2> HIDE DEF end
  <2>13. \A a \in Addrs : due'[a] >= 0 /\ (a # ip \/ f.until = 0 => due'[a] = due[a])
    BY <1>t, <1>7, <1>10, <2>12 DEF EarnInv
  <2>14. Earned
    <3> SUFFICES ASSUME NEW a \in Addrs, due'[a] > due[a]
                 PROVE  Cardinality({i \in DOMAIN wrongs'[a] :
                          wrongs'[a][i] + kWindow + kLag >= passNow}) >= kTries
      BY DEF Earned
    <3>1. due[a] \in Int
      BY <1>t
    <3>2. a = ip /\ f.until # 0
      BY <2>13, <3>1
    <3> QED
      BY <2>8, <2>10, <3>2
  <2>15. \A a \in Addrs : Len(wrongs'[a]) <= kTries
    BY <2>4, <2>10 DEF EarnInv
  <2> QED
    BY <2>10, <2>11, <2>13, <2>14, <2>15 DEF EarnInv
<1> QED
  BY <1>2, <1>8, <1>9, <1>10

\* clear(): the address's entry goes with what it has given.
LEMMA ForgiveEarns ==
  ASSUME IInv, StandInv, EarnInv, NEW ip \in Addrs, Forgive(ip), time' = time, passNow' = passNow
  PROVE  EarnInv' /\ Earned
<1> DEFINE own == {i \in Slots : slots[i].ip = ip}
<1>1. slots' = Cleared(slots, ip) /\ Sound(slots) /\ due \in [Addrs -> Int] /\ ip # NoAddr
  BY DEF Forgive, IInv, TableIsSound, StandInv
<1>2. wrongs' = [wrongs EXCEPT ![ip] = <<>>] /\ due' = [due EXCEPT ![ip] = 0]
  BY DEF Forgive
<1>3. ASSUME NEW i \in Slots, slots'[i].ip \in Addrs
      PROVE  slots'[i] = slots[i] /\ slots[i].ip # ip
  <2>1. CASE own = {}
    BY <1>1, <2>1 DEF Cleared
  <2>2. CASE own # {}
    <3>1. PICK k \in Slots : k = Min(own) /\ slots[k].ip = ip
      BY <2>2, FirstOf
    <3>2. slots' = [slots EXCEPT ![k] = Empty]
      BY <1>1, <2>2, <3>1 DEF Cleared
    <3>3. slots[i].ip = ip => i = k
      BY <1>1, <3>1 DEF Sound
    <3>4. Empty.ip = NoAddr /\ slots \in [Slots -> Entries]
      BY <1>1 DEF Empty, Entry, Sound
    <3>5. i # k
      BY <1>3, <3>2, <3>4
    <3> QED
      BY <3>2, <3>3, <3>4, <3>5
  <2> QED
    BY <2>1, <2>2
<1>4. ASSUME NEW a \in Addrs
      PROVE  due'[a] >= 0 /\ ~(due'[a] > due[a]) /\ Len(wrongs'[a]) <= kTries
             /\ (a # ip => wrongs'[a] = wrongs[a])
  <2>1. wrongs \in [Addrs -> Seq(Int)] /\ due[a] \in Int /\ due[a] >= 0 /\ Len(wrongs[a]) <= kTries
    BY <1>1 DEF EarnInv
  <2>2. CASE a = ip
    BY <1>1, <1>2, <2>1, <2>2, Sizes
  <2>3. CASE a # ip
    BY <1>1, <1>2, <2>1, <2>3
  <2> QED
    BY <2>2, <2>3
<1>5. wrongs' \in [Addrs -> Seq(Int)]
  BY <1>2 DEF EarnInv
<1>6. ASSUME NEW i \in Slots, slots'[i].ip \in Addrs
      PROVE  Counts(slots'[i], wrongs'[slots'[i].ip], time')
  <2>1. slots'[i] = slots[i] /\ slots[i].ip # ip
    BY <1>3, <1>6
  <2>2. wrongs'[slots'[i].ip] = wrongs[slots[i].ip]
    BY <1>4, <1>6, <2>1
  <2> QED
    BY <1>6, <2>1, <2>2 DEF EarnInv
<1> QED
  BY <1>4, <1>5, <1>6 DEF EarnInv, Earned

\* Every step within a turn keeps what is counted true, and bans nobody for less.
LEMMA StepEarns ==
  ASSUME IInv, StandInv, EarnInv, [Next]_vars, UpLessThanATurn'
  PROVE  EarnInv' /\ Earned
<1>k. TableIsSound'
  BY StepHolds DEF IInv
<1>t. Sound(slots) /\ CallsTyped /\ passNow \in Nat /\ time \in Nat /\ passNow <= time
  BY DEF IInv, TableIsSound, Typed, StandInv, ClockInv
<1>b. Blank(Empty)
  BY DEF Blank, Empty, Entry
<1>1. CASE Tick
  <2>1. slots' = slots /\ due' = due /\ wrongs' = wrongs /\ time' = time + 1
        /\ passNow' \in {passNow, time + 1}
    BY <1>1 DEF Tick, ghosts
  <2>2. kStart <= passNow' /\ time <= time'
    <3>1. kStart <= passNow
      BY DEF EarnInv
    <3> QED
      BY <1>t, <2>1, <3>1, Sizes
  <2>3. ASSUME NEW i \in Slots, slots'[i].ip \in Addrs
        PROVE  Counts(slots'[i], wrongs'[slots'[i].ip], time')
    <3>1. Counts(slots[i], wrongs[slots[i].ip], time)
      BY <2>1, <2>3 DEF EarnInv
    <3>2. time \in Int /\ time' \in Int
      BY <1>t, <2>1
    <3>3. Counts(slots[i], wrongs[slots[i].ip], time')
      BY <2>2, <3>1, <3>2, CountsLater
    <3> QED
      BY <2>1, <3>3
  <2>4. Earned
    <3>1. \A a \in Addrs : due[a] \in Int
      BY DEF StandInv
    <3> QED
      BY <2>1, <3>1 DEF Earned
  <2> QED
    BY <2>1, <2>2, <2>3, <2>4 DEF EarnInv, UpLessThanATurn
<1>2. ASSUME NEW ip \in Addrs, Unban(ip) PROVE EarnInv' /\ Earned
  BY <1>2, ForgiveEarns DEF Unban, clockVars
<1>3. ASSUME NEW c \in Calls, NEW ip \in Addrs, Connect(c, ip) PROVE EarnInv' /\ Earned
  <2>1. time' = time /\ passNow' = passNow /\ due' = due /\ wrongs' = wrongs
        /\ slots' = Swept(slots, ip, Now)
    BY <1>3 DEF Connect, ghosts
  <2>2. \A i \in Slots : slots'[i] = slots[i] \/ Blank(slots'[i])
    BY <1>b, <2>1 DEF Swept
  <2> QED
    BY <2>1, <2>2, EarnsOn
<1>4. ASSUME NEW c \in Calls, Arrive(c) \/ Ask(c) \/ WrongHeld(c) \/ HangUp(c)
      PROVE  EarnInv' /\ Earned
  <2>1. slots' = slots /\ due' = due /\ wrongs' = wrongs /\ time' = time /\ passNow' = passNow
    BY <1>4 DEF Arrive, Ask, WrongHeld, HangUp, clockVars, ghosts
  <2> QED
    BY <2>1, EarnsOn
<1>5. ASSUME NEW c \in Calls, AskHeld(c) PROVE EarnInv' /\ Earned
  <2> DEFINE ip  == calls[c].ip
             now == Millis(time)
             s   == SlotFor(slots, ip, now)
             e   == s.t[s.at]
             w   == WindowFrom(e, now)
  <2>1. ip \in Addrs
    BY <1>5, <1>t DEF AskHeld, CallsTyped
  <2>2. Sound(s.t) /\ \A i \in Slots : s.t[i] = slots[i] \/ Blank(s.t[i])
    BY <1>t, <2>1, SlotForSound, SlotForCounts
  <2>3. s.at # 0 => s.at \in Slots /\ e \in Entries /\ e.ip = ip /\ Counts(e, wrongs[ip], time)
    BY <2>1, FoundCounts
  <2>4. due' = due /\ wrongs' = wrongs /\ time' = time /\ passNow' = passNow
    BY <1>5 DEF AskHeld, clockVars, ghosts
  <2>5. CASE slots' = s.t
    BY <2>2, <2>4, <2>5, EarnsOn
  <2>6. CASE s.at # 0 /\ e.until = 0 /\ slots' = [s.t EXCEPT ![s.at] = [w EXCEPT !.ahead = TRUE]]
    <3> DEFINE f == [w EXCEPT !.ahead = TRUE]
    <3>1. PICK from \in kStart..time : CountsFrom(w, wrongs[ip], from)
      <4>1. time \in kStart..time /\ wrongs[ip] \in Seq(Int) /\ time - kStart <= kClock - kAhead
        BY <1>t, <2>1, Sizes DEF EarnInv
      <4>2. e \in Entries /\ e.until = 0 /\ Counts(e, wrongs[ip], time) /\ time \in Int
            /\ w = WindowFrom(e, Millis(time))
        BY <1>t, <2>3, <2>6
      <4> HIDE DEF e, w, ip
      <4> QED
        BY <4>1, <4>2, WindowCounts
    <3>2. w \in Entries /\ w.ip = ip
      BY <1>t, <2>3, <2>6, ClockReads, WindowFromIn
    <3>3. slots' = [s.t EXCEPT ![s.at] = f]
      BY <2>6
    <3> HIDE DEF s, w, now
    <3>4. f.first = w.first /\ f.fails = w.fails /\ f.ip = ip
      BY <3>2 DEF Entries
    <3> HIDE DEF f
    <3>5. Counts(f, wrongs[f.ip], time)
      BY <3>1, <3>4 DEF Counts, CountsFrom
    <3>6. slots'[s.at] = f /\ \A i \in Slots : i # s.at => slots'[i] = s.t[i]
      BY <2>2, <2>3, <2>6, <3>3 DEF Sound
    <3>7. \A i \in Slots : \/ slots'[i] = slots[i] \/ Blank(slots'[i])
                           \/ Counts(slots'[i], wrongs[slots'[i].ip], time)
      BY <2>2, <3>5, <3>6
    <3> QED
      BY <2>4, <3>7, EarnsOn
  <2> QED
    BY <1>5, <2>5, <2>6 DEF AskHeld
<1>6. ASSUME NEW c \in Calls, Skip(c) PROVE EarnInv' /\ Earned
  <2> DEFINE ip  == calls[c].ip
             own == {i \in Slots : slots[i].ip = ip}
  <2>1. due' = due /\ wrongs' = wrongs /\ time' = time /\ passNow' = passNow /\ ip \in Addrs
    BY <1>6, <1>t DEF Skip, clockVars, ghosts, CallsTyped
  <2>2. CASE slots' = slots
    BY <2>1, <2>2, EarnsOn
  <2>3. CASE slots' = Returned(slots, ip) /\ own = {}
    BY <2>1, <2>3, EarnsOn DEF Returned
  <2>4. CASE slots' = Returned(slots, ip) /\ own # {}
    <3>1. PICK k \in Slots : k = Min(own) /\ slots[k].ip = ip
      BY <2>4, FirstOf
    <3> DEFINE g == [slots[k] EXCEPT !.ahead = FALSE]
               f == IF slots[k].fails = 0 /\ slots[k].until = 0 THEN Empty ELSE g
    <3>2. slots' = [slots EXCEPT ![k] = f] /\ slots \in [Slots -> Entries]
      BY <1>t, <2>4, <3>1 DEF Returned, Sound
    <3>3. Counts(slots[k], wrongs[ip], time)
      BY <2>1, <3>1 DEF EarnInv
    <3>4. g.ip = ip /\ g.first = slots[k].first /\ g.fails = slots[k].fails
          /\ g.until = slots[k].until /\ g.ahead = FALSE
      BY <3>1, <3>2 DEF Entries
    <3> HIDE DEF g
    <3>5. Counts(g, wrongs[ip], time)
      BY <3>3, <3>4 DEF Counts, CountsFrom, Blank
    <3>6. Blank(f) \/ Counts(f, wrongs[f.ip], time)
      BY <1>b, <3>4, <3>5
    <3> HIDE DEF f
    <3>7. \A i \in Slots : \/ slots'[i] = slots[i] \/ Blank(slots'[i])
                           \/ Counts(slots'[i], wrongs[slots'[i].ip], time)
      BY <3>2, <3>6
    <3> QED
      BY <2>1, <3>7, EarnsOn
  <2> QED
    BY <1>6, <2>2, <2>3, <2>4 DEF Skip
<1>7. ASSUME NEW c \in Calls, Right(c) PROVE EarnInv' /\ Earned
  <2>1. calls[c].ip \in Addrs
    BY <1>7, <1>t DEF Right, CallsTyped
  <2> QED
    BY <1>7, <2>1, ForgiveEarns DEF Right, clockVars
<1>8. ASSUME NEW c \in Calls, Wrong(c) \/ WrongBye(c) \/ SshEnd(c) PROVE EarnInv' /\ Earned
  <2>1. Fail(calls[c].ip) /\ UNCHANGED <<time, passNow, heard>> /\ calls[c].at # "free"
    BY <1>8 DEF Wrong, WrongBye, SshEnd, clockVars
  <2>2. calls[c].ip \in Addrs
    BY <1>t, <2>1 DEF CallsTyped
  <2> QED
    BY <1>k, <2>1, <2>2, FailEarns
<1>9. CASE UNCHANGED vars
  <2>1. slots' = slots /\ due' = due /\ wrongs' = wrongs /\ time' = time /\ passNow' = passNow
    BY <1>9 DEF vars
  <2> QED
    BY <2>1, EarnsOn
<1> QED
  BY <1>1, <1>2, <1>3, <1>4, <1>5, <1>6, <1>7, <1>8, <1>9 DEF Next

-------------------------------------------------------------------------------
(* The theorems                                                            *)

\* The table is always sound: one entry for each address, nothing in an empty one, and a
\* ban exactly where the last failure it takes has been counted.
THEOREM TableStaysSound == Spec => []TableIsSound
<1>1. IInv => TableIsSound
  BY DEF IInv
<1> QED
  BY InitHolds, StepHolds, <1>1, PTL DEF Spec

\* No step takes a running ban away, whoever's it is and however full the table, but the
\* forgiving of its address.
THEOREM BansAreKept == Spec => BanIsKept
<1> QED
  BY InitHolds, StepHolds, PTL DEF Spec, BanIsKept

\* An address is banned from its last wrong answer until its time is up, and no longer: the
\* table's entries, on a clock that comes round, say what the true time says, whatever was
\* counted, swept, reused or forgiven meanwhile.
THEOREM BansStand == Spec => []BansStandTheirTime
<1>1. IInv /\ StandInv => BansStandTheirTime
  <2> SUFFICES ASSUME IInv, StandInv, NEW a \in Addrs
               PROVE  /\ time < due[a] => Banned(slots, a, Now)
                      /\ Banned(slots, a, Now) => passNow < due[a]
    BY DEF BansStandTheirTime
  <2>1. ASSUME time < due[a] PROVE Banned(slots, a, Now)
    <3>1. PICK i \in Slots : slots[i].ip = a /\ slots[i].until # 0
      BY <2>1 DEF StandInv
    <3>2. time \in Int /\ passNow \in Int /\ passNow <= time /\ due[a] \in Int
      BY DEF StandInv, ClockInv
    <3>3. BanLive(slots[i], Now)
      BY <2>1, <3>1, <3>2, EndKnown DEF Now
    <3> QED
      BY <3>1, <3>3 DEF Banned
  <2>2. ASSUME Banned(slots, a, Now) PROVE passNow < due[a]
    <3>1. PICK i \in Slots : slots[i].ip = a /\ BanLive(slots[i], Now)
      BY <2>2 DEF Banned
    <3>2. slots[i].until # 0
      BY <3>1 DEF BanLive
    <3> QED
      BY <3>1, <3>2, EndKnown DEF Now
  <2> QED
    BY <2>1, <2>2
<1> QED
  BY InitHolds, InitStands, StepHolds, StepStands, <1>1, PTL DEF Spec

\* Nobody is banned for another's wrong answers, or for old ones, while the board has been up
\* for less than a turn of its clock: whatever entry it was counted in and whoever had it
\* before, the answer that bans is the last of kTries of the address's own within one window.
THEOREM BansAreEarned == Spec => BanIsEarned
<1> DEFINE InTurn == UpLessThanATurn => EarnInv
<1>1. Init => IInv /\ StandInv /\ InTurn
  BY InitHolds, InitStands, InitEarns
<1>2. ASSUME IInv, StandInv, InTurn, [Next]_vars
      PROVE  (IInv /\ StandInv /\ InTurn)' /\ (UpLessThanATurn => Earned)
  <2>1. IInv' /\ StandInv'
    BY <1>2, StepHolds, StepStands
  <2>2. time \in Nat /\ \A a \in Addrs : due[a] \in Int
    BY <1>2 DEF StandInv, ClockInv
  <2>3. CASE Tick
    <3>1. time' = time + 1 /\ due' = due
      BY <2>3 DEF Tick, ghosts
    <3>2. UpLessThanATurn' => UpLessThanATurn
      BY <2>2, <3>1, Sizes DEF UpLessThanATurn
    <3>3. Earned
      BY <2>2, <3>1 DEF Earned
    <3> QED
      BY <1>2, <2>1, <3>2, <3>3, StepEarns
  <2>4. CASE ~Tick
    <3>1. time' = time
      BY <1>2, <2>4 DEF Next, Unban, Connect, Arrive, Ask, AskHeld, Skip, Right, WrongHeld,
        Wrong, WrongBye, SshEnd, HangUp, clockVars, vars
    <3>2. UpLessThanATurn' <=> UpLessThanATurn
      BY <3>1 DEF UpLessThanATurn
    <3> QED
      BY <1>2, <2>1, <3>2, StepEarns
  <2> QED
    BY <2>3, <2>4
<1>3. (UpLessThanATurn => Earned) => \A a \in Addrs : UpLessThanATurn /\ due'[a] > due[a] =>
        Cardinality({i \in DOMAIN wrongs'[a] : wrongs'[a][i] + kWindow + kLag >= passNow}) >= kTries
  BY DEF Earned
<1> QED
  BY <1>1, <1>2, <1>3, PTL DEF Spec, BanIsEarned

===============================================================================
