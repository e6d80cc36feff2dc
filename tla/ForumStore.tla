------------------------------ MODULE ForumStore ------------------------------
(***************************************************************************)
(* The forums' one writer (src/plugins/forums.cpp): every write of a forum *)
(* goes into one queue, and one job on the background runner makes them in *)
(* order: a post is its body, then its record, then the header that names  *)
(* the record; a removal is one flag, then the header's count.  The loop   *)
(* queues, waits and hands the answers out.  Any card operation may fail   *)
(* and the power may go between any two, or inside one.                    *)
(*                                                                         *)
(* One forum.  A message is its ticket, the number of the wait it was      *)
(* queued with; a read pointer is a number that grows.  Segments, the      *)
(* readers' walks and the drawing are left out.                            *)
(***************************************************************************)
EXTENDS Naturals, Sequences, FiniteSets

CONSTANTS
  Slots,      \* session slots that may wait for the writer
  Users,      \* accounts with a read pointer
  kOps,       \* writes the queue holds
  Budgets     \* bounds: how often each thing may happen, of which one is chosen at the
              \* start: posts and removals asked for, moves of a read pointer, card
              \* operations that fail, power cuts and CONFIG saves

ASSUME ForumAssumption ==
  /\ kOps \in Nat /\ kOps > 2
  /\ Budgets \subseteq [asks: Nat, moves: Nat, faults: Nat, restarts: Nat]

VARIABLES
  card,       \* the files: head (INDEX.TXT's record 0), rec (its others), body, ptr
  queue,      \* g_ops from g_opHead, g_opCount long
  done,       \* g_opDone: of those, from the head, written
  work,       \* opsWork: the op in hand, the step it is at, the header it read
              \* and the header it is to write
  accepted,   \* the runner's side of g_opJob (JobService)
  finished,
  loop,       \* the loop: out, in opsTick, or booting
  wait,       \* g_walk: the ticket each slot's W_WRITE waits for, 0 none
  figures,    \* g_forum: newest and total, what the callers are shown
  asked,      \* g_ticket
  told,       \* ghost: the answers given, each with the ticket that was waited for
  place,      \* each account's read pointer when it last left the forum
  lost,       \* ghost: accounts whose pointer was refused or not saved
  missed,     \* ghost: a wrong count or header that nobody will put right
  left        \* what the budget has left

cardVars == <<card, work>>
opVars   == <<queue, done>>
jobVars  == <<accepted, finished>>
askVars  == <<wait, asked, told>>
vars == <<card, queue, done, work, accepted, finished, loop, wait, figures,
          asked, told, place, lost, missed, left>>

-------------------------------------------------------------------------------
(* The card                                                                *)

NoHead     == [is |-> "none", count |-> 0, newest |-> 0]
Torn       == [is |-> "torn", count |-> 0, newest |-> 0]
Good(c, n) == [is |-> "good", count |-> c, newest |-> n]

\* countLive: the live records 1..n.
Live(c, n) == Cardinality({i \in DOMAIN c.rec : i <= n /\ c.rec[i].live})

\* What a rebuilt header names: the header, when it reads, or every record.
RebuiltAsEmpty == IF card.head.is = "good" THEN card.head.newest ELSE 0   \* mutant
Rebuilt == IF card.head.is = "good" THEN card.head.newest ELSE Len(card.rec)

\* Record n, over one nothing names or behind the last.
Recorded(rec, n, r) == IF n <= Len(rec) THEN [rec EXCEPT ![n] = r] ELSE Append(rec, r)

\* The card once the write in hand has been made.
Written ==
  CASE work.at = "make"   -> [card EXCEPT !.head = Torn, !.rec = <<>>]
    [] work.at = "body"   -> [card EXCEPT !.body = @ \cup {work.op.ticket}]
    [] work.at = "record" ->
         [card EXCEPT !.rec =
            Recorded(@, work.h.newest + 1, [id |-> work.op.ticket, live |-> TRUE])]
    [] work.at = "flag"   -> [card EXCEPT !.rec[work.op.num].live = FALSE]
    [] work.at \in {"head", "again"} -> [card EXCEPT !.head = work.nh]
    [] work.at = "ptr"    -> [card EXCEPT !.ptr[work.op.user] = work.op.mark]
    [] OTHER              -> card

\* What a write that failed, or that the power took, may have left: nothing, all of
\* it, and of a header also a part.
Interrupted == {card, Written} \cup
  (IF work.at \in {"head", "again"} THEN {[card EXCEPT !.head = Torn]} ELSE {})

-------------------------------------------------------------------------------
(* The queue and the job                                                   *)

Writer == "forum writes"
R == INSTANCE JobService WITH Jobs <- {Writer}

NoOp == [kind |-> "none", ticket |-> 0, slot |-> 0, num |-> 0, user |-> 0, mark |-> 0,
         recount |-> FALSE, res |-> "io", stale |-> FALSE,
         head |-> FALSE, newest |-> 0, total |-> 0]

\* Nothing in hand.
Idle == [at |-> "idle", op |-> NoOp, h |-> NoHead, nh |-> NoHead, seeding |-> FALSE]

Collect == IF Writer \in finished THEN R!Take(Writer) ELSE UNCHANGED jobVars

\* opsKick, after the queue's own change: the job out, if it is not and something
\* waits.  The runner may refuse it; the tick asks again.
Kick ==
  IF accepted # <<>> THEN UNCHANGED jobVars
  ELSE Collect \/ (done' < Len(queue') /\ R!Accept(Writer))

Fits(op) == Len(queue) < (IF op.kind = "ptr" THEN kOps - 2 ELSE kOps)

\* opQueue, when there is room.  A refusal leaves everything as it was.
Queued(op) ==
  /\ Fits(op)
  /\ queue' = Append(queue, op)
  /\ UNCHANGED done
  /\ Kick

Init ==
  /\ card = [head |-> NoHead, rec |-> <<>>, body |-> {}, ptr |-> [u \in Users |-> 0]]
  /\ queue = <<>> /\ done = 0 /\ work = Idle
  /\ accepted = <<>> /\ finished = {}
  /\ loop = "boot"
  /\ wait = [s \in Slots |-> 0]
  /\ figures = [newest |-> 0, total |-> 0]
  /\ asked = 0
  /\ told = {}
  /\ place = [u \in Users |-> 0]
  /\ lost = {}
  /\ missed = FALSE
  /\ left \in Budgets

Spend(what) == left[what] > 0 /\ left' = [left EXCEPT ![what] = @ - 1]
Fault == Spend("faults")

-------------------------------------------------------------------------------
(* The runner: opsWork, and opRun a card operation at a time               *)

\* The op's answer, put back into its slot.
Finish(op) ==
  /\ queue' = [queue EXCEPT ![done + 1] = op]
  /\ done' = done + 1
  /\ work' = Idle
  /\ lost' = IF op.kind = "ptr" /\ op.res = "io" /\ op.mark = place[op.user]
             THEN lost \cup {op.user} ELSE lost
  /\ missed' = (missed \/ (op.kind = "seed" /\ op.res = "io"))

GoOn(w) == work' = w /\ UNCHANGED <<opVars, lost, missed>>

\* op.head, op.newest and op.total: the header as the op has seen or left it.
Figures(op, h) == [op EXCEPT !.head = TRUE, !.newest = h.newest, !.total = h.count]

RunnerStep == UNCHANGED <<jobVars, loop, askVars, figures, place>>

\* opsWork takes the first op not yet written.
Take ==
  /\ accepted # <<>> /\ work.at = "idle" /\ done < Len(queue)
  /\ LET op == queue[done + 1] IN
       GoOn([at |-> IF op.kind = "ptr" THEN "ptr" ELSE "open", op |-> op,
             h |-> NoHead, nh |-> NoHead, seeding |-> FALSE])
  /\ UNCHANGED <<card, left>> /\ RunnerStep

\* It finds nothing more and returns.
EndJob ==
  /\ work.at = "idle" /\ done >= Len(queue)
  /\ R!Finish
  /\ UNCHANGED <<cardVars, opVars, loop, askVars, figures, place, lost, missed, left>>

Reading == work.at \in {"open", "reopen", "count", "look"}
Writing == work.at \in {"make", "body", "record", "flag", "head", "again", "ptr"}

\* A file will not open or a record will not read: the op has failed, and nothing it
\* might have put right is touched.
ReadFails ==
  /\ Reading /\ Fault
  /\ Finish(work.op)
  /\ UNCHANGED card /\ RunnerStep

\* headRead, and what each kind of op makes of it.  runSeed runs for a post too.  The
\* number a post takes is the header's newest plus one.
ReadHeader ==
  /\ work.at \in {"open", "reopen"}
  /\ LET kind  == work.op.kind
         reads == card.head.is = "good"
         seed  == [work EXCEPT !.seeding = kind = "post"]
         known == [work EXCEPT !.h = card.head, !.op = Figures(@, card.head)] IN
     \/ /\ ~reads /\ kind = "remove"
        /\ Finish([work.op EXCEPT !.stale = card.head.is = "torn"])
     \/ /\ card.head.is = "none" /\ kind # "remove"
        /\ GoOn([seed EXCEPT !.at = "make"])
     \/ /\ card.head.is = "torn" /\ kind # "remove"
        /\ GoOn([seed EXCEPT !.at = "count"])
     \/ /\ reads /\ kind = "post"
        /\ GoOn([known EXCEPT !.at = "body"])
     \/ /\ reads /\ kind = "remove"
        /\ GoOn([known EXCEPT !.at = "look"])
     \/ /\ reads /\ kind = "seed" /\ work.op.recount
        /\ GoOn([work EXCEPT !.at = "count"])
     \/ /\ reads /\ kind = "seed" /\ ~work.op.recount
        /\ Finish([known.op EXCEPT !.res = "ok"])
  /\ UNCHANGED <<card, left>> /\ RunnerStep

\* runSeed's count of the live records, the header rebuilt from it.
Count ==
  /\ work.at = "count"
  /\ GoOn([work EXCEPT !.at = "head", !.h = Good(card.head.count, Rebuilt),
                       !.nh = Good(Live(card, Rebuilt), Rebuilt)])
  /\ UNCHANGED <<card, left>> /\ RunnerStep

\* runRemove reads the record first: another moderator may have been there.
Look ==
  /\ work.at = "look"
  /\ IF work.op.num \notin 1..work.h.newest THEN Finish(work.op)
     ELSE IF card.rec[work.op.num].live THEN GoOn([work EXCEPT !.at = "flag"])
     ELSE Finish([work.op EXCEPT !.res = "gone"])
  /\ UNCHANGED <<card, left>> /\ RunnerStep

Answered == [Figures(work.op, work.nh) EXCEPT !.res = "ok"]

\* The answer of an op whose header is written.
Headed ==
  IF work.seeding THEN GoOn([work EXCEPT !.at = "reopen", !.seeding = FALSE])
  ELSE Finish(IF work.op.kind = "post" THEN [Answered EXCEPT !.num = work.nh.newest]
              ELSE Answered)

\* A write goes through (for a record and a flag, with its fsync), and the op goes on
\* to its next.
Write ==
  /\ Writing
  /\ card' = Written
  /\ LET h == work.h IN
     CASE work.at = "make" -> GoOn([work EXCEPT !.at = "head", !.nh = Good(0, 0)])
       [] work.at = "body" -> GoOn([work EXCEPT !.at = "record"])
       [] work.at = "record" ->
            GoOn([work EXCEPT !.at = "head", !.nh = Good(h.count + 1, h.newest + 1)])
       [] work.at = "flag" ->
            GoOn([work EXCEPT !.at = "head",
                  !.nh = Good(IF h.count > 0 THEN h.count - 1 ELSE 0, h.newest)])
       [] work.at \in {"head", "again"} -> Headed
       [] work.at = "ptr" -> Finish([work.op EXCEPT !.res = "ok"])
  /\ UNCHANGED left /\ RunnerStep

\* A write fails.  A header is tried once more, through a fresh open; a post or a
\* removal that could not be named leaves the header to be recounted.
UnheadedAnswered ==   \* mutant
  IF work.op.kind = "remove" THEN Answered ELSE work.op
Unheaded ==
  IF work.seeding \/ work.op.kind = "seed" THEN work.op
  ELSE [(IF work.op.kind = "post" THEN work.op ELSE Answered) EXCEPT !.stale = TRUE]

WriteFails ==
  /\ Fault
  /\ Writing
  /\ card' \in Interrupted
  /\ CASE work.at = "head"  -> GoOn([work EXCEPT !.at = "again"])
       [] work.at = "again" -> Finish(Unheaded)
       [] work.at = "flag"  -> Finish([work.op EXCEPT !.stale = TRUE])
       [] work.at \in {"make", "body", "record", "ptr"} -> Finish(work.op)
  /\ RunnerStep

RunNext == Take \/ ReadHeader \/ Count \/ Look \/ Write

-------------------------------------------------------------------------------
(* The loop                                                                *)

LoopStep == UNCHANGED cardVars

\* finishPost, removeShown: the op queued and the caller left waiting for it.
Ask(s, op) ==
  /\ loop = "out" /\ wait[s] = 0 /\ Spend("asks")
  /\ asked' = asked + 1
  /\ wait' = [wait EXCEPT ![s] = asked']
  /\ Queued([op EXCEPT !.ticket = asked', !.slot = s])
  /\ UNCHANGED <<loop, figures, told, place, lost, missed>> /\ LoopStep

Post(s) == Ask(s, [NoOp EXCEPT !.kind = "post"])

\* A moderator removes a message that is on the screen.
Remove(s) == \E n \in 1..figures.newest :
  Ask(s, [NoOp EXCEPT !.kind = "remove", !.num = n])

\* ESC after kWriteGiveMs, a hang-up, or the caller taken out of the forums: the wait
\* is over, the write is not.
GiveUp(s) ==
  /\ loop = "out" /\ wait[s] # 0
  /\ wait' = [wait EXCEPT ![s] = 0]
  /\ UNCHANGED <<opVars, jobVars, loop, figures, asked, told, place, lost, missed>>
  /\ UNCHANGED left /\ LoopStep

\* ptrFlush: the pointer of a caller who leaves the forum.
PtrFlush(u) ==
  LET op == [NoOp EXCEPT !.kind = "ptr", !.user = u, !.mark = place'[u]] IN
  /\ loop = "out" /\ Spend("moves")
  /\ place' = [place EXCEPT ![u] = @ + 1]
  /\ IF Fits(op) THEN Queued(op) /\ lost' = lost \ {u}
     ELSE lost' = lost \cup {u} /\ UNCHANGED <<opVars, jobVars>>
  /\ UNCHANGED <<loop, askVars, figures, missed>> /\ LoopStep

\* opsTick, its first look at the job.
Tick ==
  /\ loop = "out"
  /\ loop' = "tick"
  /\ Collect
  /\ UNCHANGED <<opVars, askVars, figures, place, lost, missed>> /\ UNCHANGED left /\ LoopStep

\* What walkFinish says: T_POSTED, T_REMOVED.
Said(op) ==
  CASE op.res = "ok"   -> op.kind
    [] op.res = "gone" -> "gone"
    [] op.res = "io"   -> IF op.kind = "post" /\ op.stale THEN "maybe" ELSE "not"

WaitsForAny(s, op) == op.slot = s /\ wait[s] # 0   \* mutant
WaitsFor(s, op) == op.slot = s /\ wait[s] = op.ticket

\* opDeliver: one answer off the head; the figures first, then a recount if the header
\* may be wrong, then whoever still waits for it.
Deliver ==
  /\ loop = "tick" /\ done > 0
  /\ LET op == Head(queue) IN
     /\ figures' = IF ~op.head THEN figures
                   ELSE [newest |-> IF op.newest > figures.newest THEN op.newest
                                    ELSE figures.newest,
                         total |-> op.total]
     /\ done' = done - 1
     /\ IF op.stale
        THEN /\ queue' = Append(Tail(queue), [NoOp EXCEPT !.kind = "seed", !.recount = TRUE])
             /\ Kick
        ELSE /\ queue' = Tail(queue)
             /\ UNCHANGED jobVars
     /\ LET who == {s \in Slots : WaitsFor(s, op)} IN
        /\ told' = told \cup {[ticket |-> wait[s], what |-> Said(op), num |-> op.num] : s \in who}
        /\ wait' = [s \in Slots |-> IF s \in who THEN 0 ELSE wait[s]]
  /\ UNCHANGED <<loop, asked, place, lost, missed>> /\ UNCHANGED left /\ LoopStep

\* opsTick's end: the job out again for anything still waiting.
TickKickNever == UNCHANGED jobVars   \* mutant
TickKick == IF Writer \in finished THEN UNCHANGED jobVars ELSE Kick

TickEnd ==
  /\ loop = "tick" /\ done = 0
  /\ loop' = "out"
  /\ UNCHANGED opVars
  /\ TickKick
  /\ UNCHANGED <<askVars, figures, place, lost, missed>> /\ UNCHANGED left /\ LoopStep

\* start() finds the header readable and takes its figures.
StartReads ==
  /\ figures' = [newest |-> card.head.newest, total |-> card.head.count]
  /\ UNCHANGED <<queue, missed>>
  /\ Kick

\* It does not read: a seed is queued to look again.
StartSeeds ==
  LET seed == [NoOp EXCEPT !.kind = "seed"] IN
  /\ figures' = [newest |-> 0, total |-> 0]
  /\ queue' = IF Fits(seed) THEN Append(queue, seed) ELSE queue
  /\ missed' = (missed \/ ~Fits(seed))
  /\ Kick

\* start(), with so many restarts less.  The header may be there and not read.
Start(restarts) ==
  \/ /\ card.head.is = "good"
     /\ StartReads
     /\ left' = [left EXCEPT !.restarts = @ - restarts]
  \/ /\ card.head.is = "good" => left.faults > 0
     /\ StartSeeds
     /\ left' = [left EXCEPT !.restarts = @ - restarts,
                             !.faults = IF card.head.is = "good" THEN @ - 1 ELSE @]

Boot ==
  /\ loop = "boot"
  /\ loop' = "out"
  /\ UNCHANGED done
  /\ Start(0)
  /\ UNCHANGED <<cardVars, askVars, place, lost>>

\* A CONFIG save: stop() drops every wait and start() looks at the card again.  The
\* queue, and the runner's work on it, go on.
Save ==
  /\ loop = "out" /\ left.restarts > 0
  /\ wait' = [s \in Slots |-> 0]
  /\ UNCHANGED done
  /\ Start(1)
  /\ UNCHANGED <<cardVars, loop, asked, told, place, lost>>

\* The power goes: the write under way may be on the card, or not, or in part.
PowerCut ==
  /\ Spend("restarts")
  /\ card' \in Interrupted
  /\ queue' = <<>> /\ done' = 0 /\ work' = Idle
  /\ accepted' = <<>> /\ finished' = {}
  /\ loop' = "boot"
  /\ wait' = [s \in Slots |-> 0]
  /\ figures' = [newest |-> 0, total |-> 0]
  /\ lost' = lost \cup {queue[i].user : i \in {i \in DOMAIN queue : i > done /\ queue[i].kind = "ptr"}}
  /\ missed' = (missed \/ (card'.head.is = "good"
                           /\ card'.head.count # Live(card', card'.head.newest)))
  /\ UNCHANGED <<asked, told, place>>

LoopNext ==
  \/ \E s \in Slots : Post(s) \/ Remove(s) \/ GiveUp(s)
  \/ \E u \in Users : PtrFlush(u)
  \/ Tick \/ Deliver \/ TickEnd \/ Boot \/ Save

Next == LoopNext \/ RunNext \/ EndJob \/ ReadFails \/ WriteFails \/ PowerCut

Spec == Init /\ [][Next]_vars

\* The loop's ticks and the runner's steps are never put off for ever; a job offered
\* again and again is taken in the end.
FairSpec ==
  /\ Spec
  /\ WF_vars(Tick \/ Deliver \/ TickEnd \/ Boot)
  /\ WF_vars(RunNext \/ EndJob)
  /\ SF_vars(TickEnd /\ R!Accept(Writer))

-------------------------------------------------------------------------------
(* Properties                                                              *)

\* The messages the card holds: those the header names, or, while it cannot be read,
\* those a rebuild would.  Between the two tries of a header they are those the
\* writer began from.
NamedBy(c) ==
  CASE c.head.is = "good" -> c.head.newest
    [] c.head.is = "none" -> 0
    [] OTHER              -> Len(c.rec)
Named == IF work.at = "again" /\ card.head.is = "torn" THEN work.h.newest ELSE NamedBy(card)

Message(c, n) == [id |-> c.rec[n].id, live |-> c.rec[n].live,
                  text |-> IF c.rec[n].id \in c.body THEN "whole" ELSE "none"]
Messages == [n \in 1..Named |-> Message(card, n)]

\* What the forum promises: through every order of posts and removals, every card
\* error and power cut, a message that is there has its text and is never moved,
\* changed or lost, and one taken out of sight stays out (runPost, runRemove, runSeed).
Abstract == INSTANCE Topic WITH msgs <- Messages
TopicSpec == Abstract!TSpec

\* What a caller is told is true of their own message, and stays true: a post that was
\* confirmed is the message of that number, a removal took that one down, and nobody
\* is told another wait's answer; nor does any list go past the messages there are
\* (opDeliver).
ShownIsThere ==
  /\ figures.newest <= Len(Messages)
  /\ \A a \in told :
       /\ a.what = "post" => a.num \in DOMAIN Messages /\ Messages[a.num].id = a.ticket
       /\ a.what \in {"remove", "gone"} => a.num \in DOMAIN Messages /\ ~Messages[a.num].live

\* At rest the header reads, counts its live messages, and is what the callers are
\* shown, whichever write failed on the way: the recount opDeliver asks for makes it
\* so.  A recount that fails too, and a power cut between a flag and its count, are
\* put right by nobody.
FiguresAreTrue ==
  queue = <<>> /\ loop = "out" /\ ~missed =>
    /\ card.head = Good(Live(card, Named), Named)
    /\ figures = [newest |-> Named, total |-> card.head.count]

\* readPtr: the newest pointer in the queue, or the card's.
PtrOps(u) == {i \in DOMAIN queue : queue[i].kind = "ptr" /\ queue[i].user = u}
ReadPtrOldest(u) ==   \* mutant
  IF PtrOps(u) = {} THEN card.ptr[u]
  ELSE queue[CHOOSE i \in PtrOps(u) : \A k \in PtrOps(u) : i <= k].mark
ReadPtr(u) ==
  IF PtrOps(u) = {} THEN card.ptr[u]
  ELSE queue[CHOOSE i \in PtrOps(u) : \A k \in PtrOps(u) : i >= k].mark

\* A caller who comes back finds the place they left, written or still in the queue,
\* unless it was refused or did not save (queuedPtr, writePtr).
PlaceIsKept == \A u \in Users : u \notin lost => ReadPtr(u) = place[u]

\* A caller who waits for the writer is answered, whatever fails on the card
\* (opsKick, opsTick).
WaitsEnd == \A s \in Slots : wait[s] # 0 ~> wait[s] = 0
===============================================================================
