-------------------------------- MODULE SshLink --------------------------------
(***************************************************************************)
(* The SSH links (src/core/sshlink.h, sshd.cpp) and the loop's half of     *)
(* them (bbs_ssh.cpp): a fixed pool of links, each claimed by the loop for *)
(* a caller's session, served by the SSH task, and given back when both    *)
(* have let go.  The two run concurrently with no lock: every access to a  *)
(* word the other one writes is a step of its own.                         *)
(*                                                                         *)
(* A byte ring is the number of bytes in it (Ring is single producer,      *)
(* single consumer); wolfSSH is its outcomes: a step may want more from    *)
(* the socket, ask for a login, open the shell, or fail.  The number of    *)
(* wrong passwords and the ban they lead to are left out: a refused login  *)
(* may end the connection at any time.                                     *)
(***************************************************************************)
EXTENDS Naturals, FiniteSets

CONSTANTS
  kMax,       \* BBS_SSH_MAX, the links
  Peers,      \* callers' addresses
  kPerPeer,   \* logins at once from one address
  kAsksMax,   \* login questions of one connection
  kRing,      \* BBS_SSH_RING, in the units bytes are moved in
  Askers      \* bound: the links whose callers come as far as a login question

ASSUME SshLinkAssumption ==
  Peers # {} /\ kMax \in Nat \ {0} /\ kPerPeer \in Nat \ {0} /\ kAsksMax \in Nat /\ kRing \in Nat \ {0}

Links == 1 .. kMax

VARIABLES
  link,   \* what the two sides share of each link
  mine,   \* the task's own of each link: wolfSSH's state and the task's arrays
  sess,   \* the session that holds the link, as the loop sees it
  wake,   \* g_wake, loop to task, is posted
  loop,   \* where the loop is, in which link
  task,   \* where the task is, in which link
  said    \* ghost: the loop's answer to this connection's last question

vars == <<link, mine, sess, wake, loop, task, said>>

States == {"Free", "Start", "Handshake", "Open", "Done"}
Auths  == {"idle", "asked", "yes", "no"}

Init ==
  /\ link = [l \in Links |->
       [state |-> "Free", loopDone |-> FALSE, taskDone |-> FALSE, auth |-> "idle",
        pass |-> FALSE, in |-> 0, out |-> 0, efd |-> FALSE, peer |-> CHOOSE p \in Peers : TRUE]]
  /\ mine = [l \in Links |->
       [kex |-> FALSE, authed |-> FALSE, asks |-> 0, held |-> FALSE,
        blocked |-> FALSE, hung |-> "no"]]
  /\ sess = [l \in Links |-> "none"]
  /\ wake = FALSE
  /\ loop = [at |-> "turn", l |-> 1, arg |-> "none", new |-> 0]
  /\ task = [at |-> "look", i |-> 1, busy |-> FALSE, dear |-> FALSE]
  /\ said = [l \in Links |-> "none"]

\* Ring::room, with n bytes in the ring.
RoomTooMuch(n) == kRing - n + 1   \* mutant
Room(n) == kRing - n

-------------------------------------------------------------------------------
(* The loop.  It takes the sessions in order, again and again.  loop.at is  *)
(* the next thing it does; loop.arg what that step needs; loop.new the link *)
(* being claimed.                                                           *)

LoopAt(a) == loop.at = a
L == loop.l
GoTo(a, x) == loop' = [loop EXCEPT !.at = a, !.arg = x]
NextTurn == loop' = [loop EXCEPT !.at = "turn", !.l = (L % kMax) + 1, !.arg = "none"]

\* post g_wake, and go on with what was being done.
Post ==
  /\ LoopAt("post")
  /\ wake' = TRUE
  /\ IF loop.arg = "next" THEN NextTurn ELSE GoTo(loop.arg, "none")
  /\ UNCHANGED <<link, mine, sess, task, said>>

Logins(p) == {l \in Links : link[l].state \in {"Start", "Handshake"} /\ link[l].peer = p}

\* The first free link, unless this address has enough logins under way.  PSRAM and
\* ssh_lines may refuse any caller, which changes nothing.
Claimable(l, p) ==
  /\ link[l].state = "Free"
  /\ \A k \in 1 .. l - 1 : link[k].state # "Free"
  /\ Cardinality(Logins(p)) < kPerPeer

\* claim, up to the state word: everything of the last caller is reset.
FreshButAuth(l, p) == [link[l] EXCEPT !.efd = FALSE, !.loopDone = FALSE,   \* mutant
                               !.taskDone = FALSE, !.pass = FALSE, !.peer = p]
Fresh(l, p) == [link[l] EXCEPT !.efd = FALSE, !.loopDone = FALSE, !.taskDone = FALSE,
                               !.auth = "idle", !.pass = FALSE, !.peer = p]
Claim(l, p) ==
  /\ LoopAt("turn")
  /\ Claimable(l, p)
  /\ link' = [link EXCEPT ![l] = Fresh(l, p)]
  /\ mine' = [mine EXCEPT ![l].asks = 0, ![l].authed = FALSE]
  /\ sess' = [sess EXCEPT ![l] = "wait"]
  /\ said' = [said EXCEPT ![l] = "none"]
  /\ loop' = [loop EXCEPT !.at = "publish", !.new = l]
  /\ UNCHANGED <<wake, task>>

ClaimStart ==
  /\ LoopAt("publish")
  /\ link' = [link EXCEPT ![loop.new].state = "Start"]
  /\ loop' = [loop EXCEPT !.at = "post", !.arg = "turn", !.new = 0]
  /\ UNCHANGED <<mine, sess, wake, task, said>>

\* The session's turn in a pass: read if its descriptor was readable, then serviced.
TurnRead ==
  /\ LoopAt("turn") /\ sess[L] # "none" /\ link[L].efd
  /\ link' = [link EXCEPT ![L].efd = FALSE]
  /\ GoTo("pop", "none")
  /\ UNCHANGED <<mine, sess, wake, task, said>>

TurnOver ==
  /\ LoopAt("turn") /\ sess[L] = "none"
  /\ NextTurn
  /\ UNCHANGED <<link, mine, sess, wake, task, said>>

\* The select of the pass may have come before the descriptor was posted, and a session
\* with input or output waiting is not read: serviced without a read.
Serviced == LoopAt("turn") \/ LoopAt("service")

\* read: pop, post the descriptor again if there is more, wake the task for the room.
ReadPop ==
  /\ LoopAt("pop")
  /\ \E k \in 0 .. link[L].in :
       /\ (k = 0 => link[L].in = 0)
       /\ link' = [link EXCEPT ![L].in = @ - k]
       /\ GoTo("repost", IF k > 0 THEN "got" ELSE "empty")
  /\ UNCHANGED <<mine, sess, wake, task, said>>

ReadNothingMore == FALSE   \* mutant
ReadMore == link[L].in > 0 \/ link[L].taskDone

ReadPost ==
  /\ LoopAt("repost")
  /\ link' = [link EXCEPT ![L].efd = @ \/ ReadMore]
  /\ IF loop.arg = "got" THEN GoTo("post", "service") ELSE GoTo("end", "none")
  /\ UNCHANGED <<mine, sess, wake, task, said>>

\* sshRead, nothing read: is the caller gone?
ReadEnd ==
  /\ LoopAt("end")
  /\ IF link[L].taskDone THEN GoTo("release", "remote") ELSE GoTo("service", "none")
  /\ UNCHANGED <<link, mine, sess, wake, task, said>>

\* An open session: close for a reason of its own or because the link is gone (write
\* says so), write what it has, or nothing.
ServiceOpen ==
  /\ Serviced /\ sess[L] = "up"
  /\ \/ GoTo("release", "closed")
     \/ NextTurn
  /\ UNCHANGED <<link, mine, sess, wake, task, said>>

Write ==
  /\ Serviced /\ sess[L] = "up" /\ ~link[L].taskDone
  /\ \E k \in 0 .. Room(link[L].out) :
       /\ (k = 0 => Room(link[L].out) = 0)
       /\ link' = [link EXCEPT ![L].out = @ + k]
       /\ IF k > 0 THEN GoTo("post", "next") ELSE NextTurn
  /\ UNCHANGED <<mine, sess, wake, task, said>>

\* sshWait: answer the question, then look whether the task gave up, the login has
\* taken too long (at any time), or the shell is open.
WaitAsked ==
  /\ Serviced /\ sess[L] = "wait"
  /\ GoTo(IF link[L].auth = "asked" THEN "check" ELSE "waiting", "none")
  /\ UNCHANGED <<link, mine, sess, wake, task, said>>

\* answer wipes the text, then hands the link back with the verdict of sshAuth.
AnswerWipe ==
  /\ LoopAt("check")
  /\ link' = [link EXCEPT ![L].pass = FALSE]
  /\ \E verdict \in {"yes", "no"} : GoTo("answer", verdict)
  /\ UNCHANGED <<mine, sess, wake, task, said>>

AnswerQuietly ==   \* mutant
  /\ LoopAt("answer")
  /\ link' = [link EXCEPT ![L].auth = loop.arg]
  /\ said' = [said EXCEPT ![L] = loop.arg]
  /\ GoTo("waiting", "none")
  /\ UNCHANGED <<mine, sess, wake, task>>
Answer ==
  /\ LoopAt("answer")
  /\ link' = [link EXCEPT ![L].auth = loop.arg]
  /\ said' = [said EXCEPT ![L] = loop.arg]
  /\ GoTo("post", "waiting")
  /\ UNCHANGED <<mine, sess, wake, task>>

Waiting ==
  /\ LoopAt("waiting")
  /\ \/ GoTo("release", "closed") /\ UNCHANGED sess
     \/ /\ ~link[L].taskDone
        /\ NextTurn
        /\ sess' = [sess EXCEPT ![L] = IF link[L].state = "Open" THEN "up" ELSE "wait"]
  /\ UNCHANGED <<link, mine, wake, task, said>>

\* closeSession: a question left unanswered is a no, and wiped; then the link is let go.
Release ==
  /\ LoopAt("release")
  /\ IF link[L].auth = "asked"
     THEN /\ link' = [link EXCEPT ![L].pass = FALSE]
          /\ GoTo("refuse", "none")
     ELSE GoTo("letgo", "none") /\ UNCHANGED link
  /\ UNCHANGED <<mine, sess, wake, task, said>>

ReleaseNo ==
  /\ LoopAt("refuse")
  /\ link' = [link EXCEPT ![L].auth = "no"]
  /\ said' = [said EXCEPT ![L] = "no"]
  /\ GoTo("letgo", "none")
  /\ UNCHANGED <<mine, sess, wake, task>>

LetGo ==
  /\ LoopAt("letgo")
  /\ link' = [link EXCEPT ![L].loopDone = TRUE]
  /\ sess' = [sess EXCEPT ![L] = "none"]
  /\ GoTo("post", "next")
  /\ UNCHANGED <<mine, wake, task, said>>

\* Any session may be closed at its turn: kicked, hung up, the board shut down.
Kick ==
  /\ LoopAt("turn") /\ sess[L] # "none"
  /\ GoTo("release", "closed")
  /\ UNCHANGED <<link, mine, sess, wake, task, said>>

Loop ==
  \/ TurnRead \/ TurnOver \/ ReadPop \/ ReadPost \/ ReadEnd \/ ServiceOpen \/ Write
  \/ WaitAsked \/ AnswerWipe \/ Answer \/ Waiting
  \/ Release \/ ReleaseNo \/ LetGo \/ ClaimStart \/ Post

-------------------------------------------------------------------------------
(* The task: look at every link, wait unless there is something to do, serve *)
(* every link.                                                               *)

TaskAt(a) == task.at = a
T == task.i
Step(a) == task' = [task EXCEPT !.at = a]

\* What the look finds to do without waiting: what the loop has handed over, and what
\* the clock has made due.
Handed(l) ==
  \/ link[l].state = "Start"
  \/ link[l].state = "Done" /\ link[l].loopDone
  \/ link[l].state = "Handshake" /\ link[l].auth \in {"yes", "no"}
  \/ link[l].state = "Open" /\ ~mine[l].blocked /\ (link[l].out > 0 \/ link[l].loopDone)
  \/ link[l].state = "Open" /\ mine[l].held /\ Room(link[l].in) > 0
Work(l) == Handed(l) \/ (link[l].state = "Open" /\ mine[l].hung = "long")

Look ==
  /\ TaskAt("look")
  /\ task' = [task EXCEPT !.busy = @ \/ Work(T),
                          !.at = IF T = kMax THEN "select" ELSE "look",
                          !.i = (T % kMax) + 1]
  /\ UNCHANGED <<link, mine, sess, wake, loop, said>>

\* The wait ends at once when there is work, when g_wake is posted or a socket moves,
\* and after a quarter of a second whatever happens.  g_wake is taken.
Select ==
  /\ TaskAt("select")
  /\ wake' = FALSE
  /\ task' = [at |-> "serve", i |-> 1, busy |-> FALSE, dear |-> FALSE]
  /\ UNCHANGED <<link, mine, sess, loop, said>>

\* On to the next link.  A pass that has spent kPassMs (a key exchange) is given up and
\* the next one does not wait.
NextPass(more) == [at |-> "look", i |-> 1, busy |-> more, dear |-> FALSE]
GiveUpAnyway == T < kMax /\ link[T].state # "Free"   \* mutant
GiveUp == task.dear
Next1 ==
  \/ T < kMax /\ ~GiveUp /\ task' = [task EXCEPT !.at = "serve", !.i = T + 1]
  \/ T < kMax /\ GiveUp /\ task' = NextPass(TRUE)
  \/ T = kMax /\ task' = NextPass(FALSE)

\* start: the rings, or none and the link is over.
ServeStart ==
  /\ TaskAt("serve") /\ link[T].state = "Start"
  /\ \/ /\ link' = [link EXCEPT ![T].state = "Handshake", ![T].in = 0, ![T].out = 0]
        /\ Step("handshake")
     \/ Step("finish") /\ UNCHANGED link
  /\ UNCHANGED <<mine, sess, wake, loop, said>>

ServeIdle ==
  /\ TaskAt("serve")
  /\ link[T].state = "Free" \/ (link[T].state = "Done" /\ ~link[T].loopDone)
  /\ Next1
  /\ UNCHANGED <<link, mine, sess, wake, loop, said>>

\* reclaim: both sides have let go.
ReclaimableDone == link[T].state = "Done"   \* mutant
Reclaimable == link[T].state = "Done" /\ link[T].loopDone
Reclaim ==
  /\ TaskAt("serve") /\ Reclaimable
  /\ link' = [link EXCEPT ![T].in = 0, ![T].out = 0, ![T].state = "Free"]
  /\ mine' = [mine EXCEPT ![T].blocked = FALSE, ![T].hung = "no"]
  /\ Next1
  /\ UNCHANGED <<sess, wake, loop, said>>

\* handshake, up to wolfSSH_accept: over when the caller has gone or, at any time,
\* when the login has taken BBS_SSH_LOGIN_MS.
Handshake ==
  /\ TaskAt("handshake") \/ (TaskAt("serve") /\ link[T].state = "Handshake")
  /\ \/ Step("finish")
     \/ ~link[T].loopDone /\ Step("accept")
  /\ UNCHANGED <<link, mine, sess, wake, loop, said>>

\* wolfSSH_accept: the connection's first key exchange; it holds the task long.
KeyExchange ==
  /\ TaskAt("accept") /\ ~mine[T].kex
  /\ mine' = [mine EXCEPT ![T].kex = TRUE]
  /\ task' = [task EXCEPT !.dear = TRUE]
  /\ UNCHANGED <<link, sess, wake, loop, said>>

\* wolfSSH runs another key exchange whenever the caller asks for one, in the login or
\* under an open shell (wolfSSH_accept, wolfSSH_worker); each holds the task as long.
Rekey ==
  /\ TaskAt("in") \/ (TaskAt("accept") /\ mine[T].kex)
  /\ task' = [task EXCEPT !.dear = TRUE]
  /\ UNCHANGED <<link, mine, sess, wake, loop, said>>

\* It wants more from the socket or from the loop, or it fails.
AcceptReturns ==
  /\ TaskAt("accept")
  /\ Next1 \/ Step("finish")
  /\ UNCHANGED <<link, mine, sess, wake, loop, said>>

\* userAuth with the loop's answer there; a no may be one too many.
AuthAnswered ==
  /\ TaskAt("accept") /\ mine[T].kex
  /\ link[T].auth \in {"yes", "no"}
  /\ link' = [link EXCEPT ![T].auth = "idle"]
  /\ IF link[T].auth = "yes"
     THEN mine' = [mine EXCEPT ![T].authed = TRUE] /\ UNCHANGED task
     ELSE UNCHANGED mine /\ (UNCHANGED task \/ Step("finish"))
  /\ UNCHANGED <<sess, wake, loop, said>>

\* userAuth with a fresh question: over the budget, not fitting, or put in the link,
\* with a password (the text) or without.
AuthAsk ==
  /\ TaskAt("accept") /\ mine[T].kex /\ ~mine[T].authed
  /\ link[T].auth = "idle"
  /\ IF mine[T].asks = kAsksMax
     THEN Step("finish") /\ UNCHANGED <<link, mine>>
     ELSE /\ mine' = [mine EXCEPT ![T].asks = @ + 1]
          /\ \/ UNCHANGED <<link, task>>
             \/ T \in Askers /\ \E text \in BOOLEAN :
                  link' = [link EXCEPT ![T].pass = text] /\ Step("ask")
  /\ UNCHANGED <<sess, wake, loop, said>>

AuthPublish ==
  /\ TaskAt("ask")
  /\ link' = [link EXCEPT ![T].auth = "asked"]
  /\ Step("asked")
  /\ UNCHANGED <<mine, sess, wake, loop, said>>

AuthPost ==
  /\ TaskAt("asked")
  /\ link' = [link EXCEPT ![T].efd = TRUE]
  /\ Next1
  /\ UNCHANGED <<mine, sess, wake, loop, said>>

\* The shell is open.
Opened ==
  /\ TaskAt("accept") /\ mine[T].authed
  /\ link' = [link EXCEPT ![T].state = "Open"]
  /\ Step("opened")
  /\ UNCHANGED <<mine, sess, wake, loop, said>>

OpenPost ==
  /\ TaskAt("opened")
  /\ link' = [link EXCEPT ![T].efd = TRUE]
  /\ Step("out")
  /\ UNCHANGED <<mine, sess, wake, loop, said>>

\* pump, the output: sent until there is none, the socket takes no more, or enough
\* for one pass.  The channel may have closed and the send may fail.
PumpOut ==
  /\ TaskAt("out") \/ (TaskAt("serve") /\ link[T].state = "Open")
  /\ \/ \E k \in 0 .. link[T].out, full \in BOOLEAN :
          /\ (k = 0 /\ ~full => link[T].out = 0)
          /\ (full => k < link[T].out)
          /\ link' = [link EXCEPT ![T].out = @ - k]
          /\ mine' = [mine EXCEPT ![T].blocked = full]
          /\ Step("in")
     \/ Step("finish") /\ UNCHANGED <<link, mine>>
  /\ UNCHANGED <<sess, wake, loop, said>>

\* pump, the input: the socket into the channel, the channel into the ring while there
\* is room; the caller may close and the connection may fail.  Its eight rounds are one;
\* a key exchange in one of them is Rekey.
PumpRead ==
  /\ TaskAt("in")
  /\ \/ ~mine[T].held /\ mine' = [mine EXCEPT ![T].held = TRUE] /\ UNCHANGED task
     \/ Step("finish") /\ UNCHANGED mine
     \/ /\ ~mine[T].held \/ Room(link[T].in) = 0
        /\ Step("loopdone")
        /\ UNCHANGED mine
  /\ UNCHANGED <<link, sess, wake, loop, said>>

PumpPush ==
  /\ TaskAt("in") /\ mine[T].held /\ Room(link[T].in) > 0
  /\ link' = [link EXCEPT ![T].in = @ + 1]
  /\ mine' = [mine EXCEPT ![T].held = FALSE]
  /\ Step("pushed")
  /\ UNCHANGED <<sess, wake, loop, said>>

PumpPost ==
  /\ TaskAt("pushed")
  /\ link' = [link EXCEPT ![T].efd = TRUE]
  /\ Step("loopdone") \/ Step("finish")
  /\ UNCHANGED <<mine, sess, wake, loop, said>>

\* pump, the session over: nothing left to send (wolfSSH's own buffer may hold some),
\* or ten seconds of trying.
PatienceForEver == TRUE   \* mutant
Patience == mine[T].hung # "long"
PumpLoopDone ==
  /\ TaskAt("loopdone")
  /\ IF ~link[T].loopDone
     THEN Next1 /\ UNCHANGED mine
     ELSE /\ mine' = [mine EXCEPT ![T].hung = IF @ = "no" THEN "hung" ELSE @]
          /\ \/ (link[T].out = 0 \/ ~Patience) /\ Step("finish")
             \/ Patience /\ Next1
  /\ UNCHANGED <<link, sess, wake, loop, said>>

\* finish: the text wiped and wolfSSH freed, then taskDone, Done, and the loop is woken.
Finish ==
  /\ TaskAt("finish")
  /\ link' = [link EXCEPT ![T].pass = FALSE]
  /\ mine' = [mine EXCEPT ![T].kex = FALSE, ![T].held = FALSE]
  /\ Step("closed")
  /\ UNCHANGED <<sess, wake, loop, said>>

FinishTold ==
  /\ TaskAt("closed")
  /\ link' = [link EXCEPT ![T].taskDone = TRUE, ![T].state = "Done"]
  /\ Step("done")
  /\ UNCHANGED <<mine, sess, wake, loop, said>>

FinishPost ==
  /\ TaskAt("done")
  /\ link' = [link EXCEPT ![T].efd = TRUE]
  /\ Next1
  /\ UNCHANGED <<mine, sess, wake, loop, said>>

\* Ten seconds have gone since the hang-up was seen.
HungLong(l) ==
  /\ mine[l].hung = "hung"
  /\ mine' = [mine EXCEPT ![l].hung = "long"]
  /\ UNCHANGED <<link, sess, wake, loop, task, said>>

Task ==
  \/ Look \/ Select \/ ServeStart \/ ServeIdle \/ Reclaim
  \/ Handshake \/ KeyExchange \/ Rekey \/ AcceptReturns \/ AuthAnswered \/ AuthAsk
  \/ AuthPublish \/ AuthPost \/ Opened \/ OpenPost
  \/ PumpOut \/ PumpRead \/ PumpPush \/ PumpPost \/ PumpLoopDone
  \/ Finish \/ FinishTold \/ FinishPost

Next ==
  \/ Loop \/ Task \/ Kick
  \/ \E l \in Links : HungLong(l)
  \/ \E l \in Links, p \in Peers : Claim(l, p)

Spec == Init /\ [][Next]_vars

\* Both tasks run, and time passes.
Fairness ==
  /\ WF_vars(Loop) /\ WF_vars(Task)
  /\ \A l \in Links : WF_vars(HungLong(l))

FairSpec == Spec /\ Fairness

-------------------------------------------------------------------------------
(* Properties *)

LoopPlaces == {"turn", "publish", "post", "pop", "repost", "end", "service",
               "check", "answer", "waiting", "release", "refuse", "letgo"}
LoopArgs   == {"none", "next", "turn", "service", "waiting", "got", "empty", "yes", "no",
               "closed", "remote"}
TaskPlaces == {"look", "select", "serve", "handshake", "accept", "ask", "asked", "opened",
               "out", "in", "pushed", "loopdone", "finish", "closed", "done"}

LinkType == [state : States, loopDone : BOOLEAN, taskDone : BOOLEAN, auth : Auths,
             pass : BOOLEAN, in : 0 .. kRing, out : 0 .. kRing, efd : BOOLEAN, peer : Peers]
MineType == [kex : BOOLEAN, authed : BOOLEAN, asks : 0 .. kAsksMax, held : BOOLEAN,
             blocked : BOOLEAN, hung : {"no", "hung", "long"}]
LoopType == [at : LoopPlaces, l : Links, arg : LoopArgs, new : 0 .. kMax]
TaskType == [at : TaskPlaces, i : Links, busy : BOOLEAN, dear : BOOLEAN]

\* Every variable has its type; the rings never hold more than they can.
TypeOK ==
  /\ link \in [Links -> LinkType]
  /\ mine \in [Links -> MineType]
  /\ sess \in [Links -> {"none", "wait", "up"}]
  /\ said \in [Links -> {"none", "yes", "no"}]
  /\ wake \in BOOLEAN
  /\ loop \in LoopType
  /\ task \in TaskType

\* A link a session holds is never in the pool, nor are its rings freed: the task gives
\* it back only once the loop has let go (sshlink.h: who owns what).
Publishing(l) == loop.new = l
HeldIsNotFree ==
  \A l \in Links : sess[l] # "none" /\ ~Publishing(l) => link[l].state # "Free"

\* A caller gets past the login only on a yes the loop gave to this very connection:
\* an answer that came too late for the last caller of the link admits nobody.
AdmittedByItsOwnAnswer ==
  \A l \in Links : mine[l].authed => said[l] = "yes"

\* Outside a question under way no password text is left in a link: not with an
\* answer, not in a link that is done or back in the pool.
PasswordIsWiped ==
  \A l \in Links :
    link[l].pass => /\ link[l].state = "Handshake"
                    /\ link[l].auth = "asked" \/ (task.at = "ask" /\ T = l)

\* The task never sleeps on something the loop handed it: whatever order the look, the
\* hand-over and the post fall in, g_wake is posted or about to be.
AboutToPost ==
  LoopAt("post") \/ LoopAt("letgo") \/ (LoopAt("repost") /\ loop.arg = "got")
SleepMissesNothing ==
  task.at = "select" /\ ~task.busy /\ ~wake /\ ~AboutToPost
    => \A l \in Links : ~Handed(l)

\* The loop never sleeps on keys or on the end of a caller: the link's descriptor is
\* readable, or about to be, or the loop is still reading.
LoopIsWoken ==
  \A l \in Links :
    (sess[l] # "none" /\ (link[l].in > 0 \/ link[l].taskDone))
      => \/ link[l].efd
         \/ L = l /\ ~LoopAt("turn")
         \/ T = l /\ task.at \in {"pushed", "done"}

\* A caller before link l in the pool asks for key exchanges for ever.  Such callers can
\* spend every pass, each of the passes being given up before it comes to l: what the
\* comment at kPassMs says of the handshake (ordering, not starvation) is not so of them.
RekeysBefore(l) == []<><<Rekey /\ T < l>>_vars

\* Liveness: a link the loop has let go of comes back to the pool, whatever its
\* caller does (a window never opened, a login never finished, keys exchanged again and
\* again), unless the callers before it exchange keys for ever.
LetGoComesBack ==
  \A l \in Links :
    RekeysBefore(l) \/ (sess[l] = "none" /\ link[l].state # "Free" ~> link[l].state = "Free")

\* Liveness: a claimed link is served, although passes are given up at kPassMs before
\* they come to it and its neighbours go on calling, each with a key exchange to make;
\* unless callers before it exchange keys for ever.
ClaimIsServed ==
  \A l \in Links : RekeysBefore(l) \/ (link[l].state = "Start" ~> link[l].state # "Start")

\* What sshlink.h says of the question: neither side touches the text while the other
\* one holds it.
TextIsTheHolders ==
  [][\A l \in Links :
       link[l].pass # link'[l].pass /\ link[l].auth = "asked" => task' = task]_vars

\* What sshd.cpp says of read: the next pass reads on or sees the end, the end being
\* behind the last of the keys.
EndIsBehindTheKeys ==
  [][loop'.arg = "remote" /\ loop.arg # "remote" => link[L].in = 0]_vars
================================================================================
