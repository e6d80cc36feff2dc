-------------------------------- MODULE Runner --------------------------------
(***************************************************************************)
(* The background runner (src/core/runner.h, runner.cpp): the BBS loop     *)
(* posts static jobs to a bounded queue and one task, started on demand    *)
(* and ended after a few idle seconds, runs them.  The loop and the task   *)
(* share the queue under a lock; everything between two lock sections is   *)
(* a step of its own here.  A Job's state word is the only hand-over of    *)
(* its inputs and results.                                                 *)
(*                                                                         *)
(* The loop's other work is left out: it may post or collect any job at    *)
(* any time it is not inside post().                                       *)
(***************************************************************************)
EXTENDS Naturals, Sequences, FiniteSets

CONSTANTS
  Jobs,       \* the static Job structs
  Tasks,      \* task handles: the ones that ended and the one running
  kQueue,     \* jobs the queue holds
  Boards,     \* the schedulings to look at.  TRUE: the ESP32's, where the loop and
              \* the task share a core and the loop has the higher priority, so the
              \* task never runs while the loop is inside post().  FALSE: host threads
  NoJob

ASSUME RunnerAssumption ==
  /\ kQueue \in Nat \ {0}
  /\ Boards \subseteq BOOLEAN
  /\ NoJob \notin Jobs

VARIABLES
  board,      \* the scheduling, fixed at the start
  st,         \* Job::st
  queue,      \* g_q from g_head, g_count long
  alive,      \* g_alive
  inHand,     \* g_inHand
  woken,      \* a wake given and not yet taken (runWake, runWait)
  noStart,    \* g_noStartTo still lies ahead: no start is tried
  loop,       \* where the loop is in post(): out, wake, start or undo
  posting,    \* the job post() was called with
  pc,         \* where each task is in main(), none when it does not exist
  hand,       \* main()'s j, per task
  ran         \* ghost: times work() has run for the job since it was posted

jobVars  == <<st, ran>>
lockVars == <<queue, alive, inHand>>
taskVars == <<pc, hand>>
loopVars == <<loop, posting, noStart>>
vars == <<board, st, ran, queue, alive, inHand, pc, hand, loop, posting, noStart, woken>>

Init ==
  /\ board \in Boards
  /\ st = [j \in Jobs |-> "idle"]
  /\ ran = [j \in Jobs |-> 0]
  /\ queue = <<>>
  /\ alive = FALSE
  /\ inHand = FALSE
  /\ woken = FALSE
  /\ noStart = FALSE
  /\ loop = "out"
  /\ posting = NoJob
  /\ pc = [t \in Tasks |-> "none"]
  /\ hand = [t \in Tasks |-> NoJob]

-------------------------------------------------------------------------------
(* The loop: post, collect, busy                                           *)

\* post refuses (no step) while the job is queued or running, while no start is
\* to be tried, and when the queue is full.
Postable(j) ==
  /\ st[j] \in {"idle", "done"}
  /\ ~noStart
  /\ Len(queue) < kQueue

\* A task is started unless one is known to be alive.
MustStartIfEmpty == queue = <<>>   \* mutant
MustStart == ~alive

\* post, to the end of its lock section.
PostQueue(j) ==
  /\ loop = "out"
  /\ Postable(j)
  /\ st' = [st EXCEPT ![j] = "queued"]
  /\ ran' = [ran EXCEPT ![j] = 0]
  /\ queue' = Append(queue, j)
  /\ alive' = TRUE
  /\ loop' = IF MustStart THEN "start" ELSE "wake"
  /\ posting' = j
  /\ UNCHANGED <<inHand, woken, noStart, taskVars>>

\* A task is there: wake it.
PostWake ==
  /\ loop = "wake"
  /\ woken' = TRUE
  /\ loop' = "out"
  /\ posting' = NoJob
  /\ UNCHANGED <<jobVars, lockVars, taskVars, noStart>>

\* taskStart succeeds.  A wake left over from the last task reaches the new
\* one on the host (one flag); on the board it died with the old task.
PostStart(t) ==
  /\ loop = "start"
  /\ pc[t] = "none"
  /\ pc' = [pc EXCEPT ![t] = "take"]
  /\ woken' = (woken /\ ~board)
  /\ loop' = "out"
  /\ posting' = NoJob
  /\ UNCHANGED <<jobVars, lockVars, hand, noStart>>

\* taskStart fails (no heap for the stack): no start is tried for a second.
PostNoStart ==
  /\ loop = "start"
  /\ noStart' = TRUE
  /\ loop' = "undo"
  /\ UNCHANGED <<jobVars, lockVars, taskVars, woken, posting>>

\* Mutant: the queue is not emptied.
PostUndoKeepsQueue ==
  /\ loop = "undo"
  /\ alive' = FALSE
  /\ st' = [st EXCEPT ![posting] = "idle"]
  /\ loop' = "out"
  /\ posting' = NoJob
  /\ UNCHANGED <<ran, queue, inHand, woken, noStart, taskVars>>

\* Take back whatever is queued, and then the job itself.
PostUndo ==
  /\ loop = "undo"
  /\ alive' = FALSE
  /\ queue' = <<>>
  /\ st' = [j \in Jobs |->
              IF j = posting \/ \E i \in DOMAIN queue : queue[i] = j
              THEN "idle" ELSE st[j]]
  /\ loop' = "out"
  /\ posting' = NoJob
  /\ UNCHANGED <<ran, inHand, woken, noStart, taskVars>>

\* The second without start attempts is over.
RetryDue ==
  /\ noStart
  /\ loop = "out"
  /\ noStart' = FALSE
  /\ UNCHANGED <<jobVars, lockVars, taskVars, woken, loop, posting>>

\* The loop has read a finished job's results.
Collect(j) ==
  /\ loop = "out"
  /\ st[j] = "done"
  /\ st' = [st EXCEPT ![j] = "idle"]
  /\ UNCHANGED <<ran, lockVars, taskVars, loopVars, woken>>

\* busy(): what SD UNMOUNT asks before it takes the card away.
BusyQueueOnly == queue # <<>>   \* mutant
Busy == queue # <<>> \/ inHand

-------------------------------------------------------------------------------
(* The task: main() and take()                                             *)

\* Mutant: the loop is not above the task.
TaskMayRunAlways(t) == TRUE
TaskMayRun(t) == board => loop = "out"

\* Mutant: the newest job first.
TaskTakeNewest(t) ==
  /\ TaskMayRun(t)
  /\ pc[t] = "take"
  /\ inHand' = (queue # <<>>)
  /\ \/ /\ queue # <<>>
        /\ queue' = SubSeq(queue, 1, Len(queue) - 1)
        /\ hand' = [hand EXCEPT ![t] = queue[Len(queue)]]
        /\ pc' = [pc EXCEPT ![t] = "mark"]
     \/ /\ queue = <<>>
        /\ pc' = [pc EXCEPT ![t] = "wait"]
        /\ UNCHANGED <<queue, hand>>
  /\ UNCHANGED <<jobVars, alive, loopVars, woken>>

\* take, its lock section: the oldest job, or nothing.
TaskTake(t) ==
  /\ TaskMayRun(t)
  /\ pc[t] = "take"
  /\ inHand' = (queue # <<>>)
  /\ \/ /\ queue # <<>>
        /\ queue' = Tail(queue)
        /\ hand' = [hand EXCEPT ![t] = Head(queue)]
        /\ pc' = [pc EXCEPT ![t] = "mark"]
     \/ /\ queue = <<>>
        /\ pc' = [pc EXCEPT ![t] = "wait"]
        /\ UNCHANGED <<queue, hand>>
  /\ UNCHANGED <<jobVars, alive, loopVars, woken>>

\* runWait(kLingerMs): woken, look again.
TaskWoken(t) ==
  /\ TaskMayRun(t)
  /\ pc[t] = "wait"
  /\ woken
  /\ woken' = FALSE
  /\ pc' = [pc EXCEPT ![t] = "take"]
  /\ UNCHANGED <<jobVars, lockVars, hand, loopVars>>

\* runWait's time ran out with no wake.
TaskLingered(t) ==
  /\ TaskMayRun(t)
  /\ pc[t] = "wait"
  /\ ~woken
  /\ pc' = [pc EXCEPT ![t] = "decide"]
  /\ UNCHANGED <<jobVars, lockVars, hand, loopVars, woken>>

\* Mutant: the queue is not looked at again before the task ends.
TaskDecideBlindly(t) ==
  /\ TaskMayRun(t)
  /\ pc[t] = "decide"
  /\ alive' = FALSE
  /\ pc' = [pc EXCEPT ![t] = "none"]
  /\ UNCHANGED <<jobVars, queue, inHand, hand, loopVars, woken>>

\* Decide to end, under the lock: only with the queue still empty.
TaskDecide(t) ==
  /\ TaskMayRun(t)
  /\ pc[t] = "decide"
  /\ \/ /\ queue = <<>>
        /\ alive' = FALSE
        /\ pc' = [pc EXCEPT ![t] = "none"]
     \/ /\ queue # <<>>
        /\ pc' = [pc EXCEPT ![t] = "take"]
        /\ UNCHANGED alive
  /\ UNCHANGED <<jobVars, queue, inHand, hand, loopVars, woken>>

TaskMark(t) ==
  /\ TaskMayRun(t)
  /\ pc[t] = "mark"
  /\ st' = [st EXCEPT ![hand[t]] = "running"]
  /\ pc' = [pc EXCEPT ![t] = "work"]
  /\ UNCHANGED <<ran, lockVars, hand, loopVars, woken>>

TaskWork(t) ==
  /\ TaskMayRun(t)
  /\ pc[t] = "work"
  /\ ran' = [ran EXCEPT ![hand[t]] = @ + 1]
  /\ pc' = [pc EXCEPT ![t] = "drop"]
  /\ UNCHANGED <<st, lockVars, hand, loopVars, woken>>

\* g_inHand goes first, under the lock,
TaskDrop(t) ==
  /\ TaskMayRun(t)
  /\ pc[t] = "drop"
  /\ inHand' = FALSE
  /\ pc' = [pc EXCEPT ![t] = "finish"]
  /\ UNCHANGED <<jobVars, queue, alive, hand, loopVars, woken>>

\* and DONE is stored last: the job is the loop's from here on.
TaskFinish(t) ==
  /\ TaskMayRun(t)
  /\ pc[t] = "finish"
  /\ st' = [st EXCEPT ![hand[t]] = "done"]
  /\ hand' = [hand EXCEPT ![t] = NoJob]
  /\ pc' = [pc EXCEPT ![t] = "take"]
  /\ UNCHANGED <<ran, lockVars, loopVars, woken>>

TaskStep(t) ==
  \/ TaskTake(t) \/ TaskWoken(t) \/ TaskLingered(t) \/ TaskDecide(t)
  \/ TaskMark(t) \/ TaskWork(t) \/ TaskDrop(t) \/ TaskFinish(t)

PostEnd == PostWake \/ (\E t \in Tasks : PostStart(t)) \/ PostNoStart \/ PostUndo

Next ==
  /\ UNCHANGED board
  /\ \/ \E j \in Jobs : PostQueue(j) \/ Collect(j)
     \/ PostEnd
     \/ RetryDue
     \/ \E t \in Tasks : TaskStep(t)

Spec == Init /\ [][Next]_vars

\* post() does not block, and a started task gets the core whenever the loop
\* sits in select(), at least once a pass; work() returns.
Fairness ==
  /\ WF_vars(UNCHANGED board /\ PostEnd)
  /\ \A t \in Tasks : WF_vars(UNCHANGED board /\ TaskStep(t))

FairSpec == Spec /\ Fairness

-------------------------------------------------------------------------------
(* Properties                                                              *)

JobStates  == {"idle", "queued", "running", "done"}
TaskStates == {"none", "take", "wait", "decide", "mark", "work", "drop", "finish"}

\* The type invariant: every variable in the range runner.h gives it.
TypeOK ==
  /\ board \in Boards
  /\ st \in [Jobs -> JobStates]
  /\ ran \in [Jobs -> Nat]
  /\ queue \in Seq(Jobs) /\ Len(queue) <= kQueue
  /\ alive \in BOOLEAN /\ inHand \in BOOLEAN /\ woken \in BOOLEAN /\ noStart \in BOOLEAN
  /\ loop \in {"out", "wake", "start", "undo"}
  /\ posting \in Jobs \cup {NoJob}
  /\ pc \in [Tasks -> TaskStates]
  /\ hand \in [Tasks -> Jobs \cup {NoJob}]

Exists(t)  == pc[t] # "none"
Holding(t) == pc[t] \in {"mark", "work", "drop", "finish"}
Starting   == loop \in {"start", "undo"}

\* Two tasks never exist at once: a start is only tried under the lock's
\* word that the last task has decided to end.
OneTask == \A t, u \in Tasks : Exists(t) /\ Exists(u) => t = u

\* A job in the queue always has a task that will look at it, or a loop that
\* is about to start one: "never a job left in the queue with nobody to run
\* it" (runner.cpp's header).
NoStrandedJob == queue # <<>> => Starting \/ \E t \in Tasks : Exists(t)

\* busy() covers everything that touches the card: while it says no, no
\* task is between taking a job and having finished its work.
BusyCoversWork ==
  ~Busy => \A t \in Tasks : pc[t] \notin {"mark", "work", "drop"}

\* An accepted job's work runs exactly once before the loop sees DONE, and
\* has not run while it is still queued.
RunsOnce ==
  \A j \in Jobs : /\ st[j] = "done" => ran[j] = 1
                  /\ st[j] = "queued" => ran[j] = 0

\* A job the loop may touch (idle or done) is in no task's hand and not in
\* the queue: inputs and results are never shared.
LoopOwnsItsJobs ==
  \A j \in Jobs : st[j] \in {"idle", "done"} =>
    /\ \A t \in Tasks : hand[t] # j
    /\ \A i \in DOMAIN queue : queue[i] # j

\* The board's runWake goes through a task handle: when post() comes to use
\* it the task must still exist (runner.cpp wakes after it has unlocked).
WakeFindsTask == board /\ loop = "wake" => \E t \in Tasks : Exists(t)

\* Every job post() accepted is finished: it is not left waiting behind a
\* task that ended or a wake that was missed.
AcceptedIsFinished ==
  \A j \in Jobs : (st[j] = "queued" /\ loop \in {"out", "wake"}) ~> (st[j] = "done")

-------------------------------------------------------------------------------
(* The promise: JobService.  A job posted while no task exists counts as   *)
(* accepted once a task has been started for it.                           *)

Waiting == IF Starting THEN <<>> ELSE queue

Service ==
  INSTANCE JobService WITH
    accepted <- (IF \E t \in Tasks : Holding(t)
                 THEN <<hand[CHOOSE t \in Tasks : Holding(t)]>> ELSE <<>>) \o Waiting,
    finished <- {j \in Jobs : st[j] = "done"}

\* The runner implements the promise.
ServiceSpec == Service!SSpec

===============================================================================
