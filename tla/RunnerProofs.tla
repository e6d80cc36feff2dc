---------------------------- MODULE RunnerProofs ----------------------------
(***************************************************************************)
(* Theorems about the background runner, for any set of jobs, any queue    *)
(* length and both schedulers.  The inductive invariant RunnerInv ties the *)
(* three things post() and main() keep apart: the lock's words (g_alive,   *)
(* g_inHand), the queue, and the job states.                               *)
(***************************************************************************)
EXTENDS Runner, SequenceTheorems, TLAPS

-------------------------------------------------------------------------------
(* The inductive invariant                                                 *)

\* g_alive says exactly that a task exists or the loop is starting one; a
\* start is never in progress while a task exists.
AliveIsTask ==
  /\ alive <=> (Starting \/ \E t \in Tasks : Exists(t))
  /\ Starting => \A t \in Tasks : ~Exists(t)
  /\ queue # <<>> => alive
  /\ loop = "out" <=> posting = NoJob
  /\ Starting => \A i \in 1..Len(queue) : queue[i] = posting

\* g_inHand says exactly that a task is between take() and clearing it.
InHandIsTask == inHand <=> \E t \in Tasks : pc[t] \in {"mark", "work", "drop"}

\* What a task's position says about the job it holds.
HandState ==
  \A t \in Tasks :
    /\ hand[t] # NoJob <=> Holding(t)
    /\ pc[t] = "mark" => st[hand[t]] = "queued"
    /\ pc[t] \in {"work", "drop", "finish"} => st[hand[t]] = "running"
    /\ pc[t] = "work" => ran[hand[t]] = 0
    /\ pc[t] \in {"drop", "finish"} => ran[hand[t]] = 1

\* Queued jobs are waiting, each in one place only.
QueueState ==
  /\ \A i \in 1..Len(queue) :
       /\ st[queue[i]] = "queued"
       /\ \A t \in Tasks : hand[t] # queue[i]
       /\ \A k \in 1..Len(queue) : queue[i] = queue[k] => i = k
  /\ Starting => st[posting] = "queued" /\ \A t \in Tasks : hand[t] # posting

RanState ==
  \A j \in Jobs : /\ st[j] = "done" => ran[j] = 1
                  /\ st[j] = "queued" => ran[j] = 0

RunnerInv ==
  /\ TypeOK
  /\ OneTask
  /\ AliveIsTask
  /\ InHandIsTask
  /\ HandState
  /\ QueueState
  /\ RanState
  /\ WakeFindsTask

-------------------------------------------------------------------------------
(* The steps                                                               *)

\* What SMT needs of the queue: its length, its elements and its empty form.
LEMMA QueueFacts ==
  ASSUME TypeOK
  PROVE  /\ Len(queue) \in Nat
         /\ DOMAIN queue = 1..Len(queue)
         /\ \A i \in 1..Len(queue) : queue[i] \in Jobs
         /\ queue = <<>> <=> Len(queue) = 0
         /\ <<>> \in Seq(Jobs) /\ Len(<<>>) = 0
BY ElementOfSeq, EmptySeq, LenProperties DEF TypeOK

\* Before the first post there is no task, no job queued and none in hand.
LEMMA InitInv == Init => RunnerInv
<1> SUFFICES ASSUME Init PROVE RunnerInv
  OBVIOUS
<1> USE RunnerAssumption, EmptySeq DEF Init
<1>0. Len(queue) = 0 /\ queue \in Seq(Jobs)
  BY EmptySeq
<1>1. TypeOK
  <2>1. st \in [Jobs -> JobStates] /\ ran \in [Jobs -> Nat]
    BY DEF JobStates
  <2>2. pc \in [Tasks -> TaskStates] /\ hand \in [Tasks -> Jobs \cup {NoJob}]
    BY DEF TaskStates
  <2>3. Len(queue) <= kQueue
    BY <1>0
  <2> QED
    BY <1>0, <2>1, <2>2, <2>3 DEF TypeOK
<1>2. OneTask
  BY DEF OneTask, Exists, Holding, Starting, JobStates, TaskStates
<1>3. AliveIsTask
  BY DEF AliveIsTask, Exists, Holding, Starting, JobStates, TaskStates
<1>4. InHandIsTask
  BY DEF InHandIsTask, Exists, Holding, Starting, JobStates, TaskStates
<1>5. HandState
  BY DEF HandState, Exists, Holding, Starting, JobStates, TaskStates
<1>6. QueueState
  BY DEF QueueState, Exists, Holding, Starting, JobStates, TaskStates
<1>7. RanState
  BY DEF RanState, Exists, Holding, Starting, JobStates, TaskStates
<1>8. WakeFindsTask
  BY DEF WakeFindsTask, Exists, Holding, Starting, JobStates, TaskStates
<1> QED
  BY <1>1, <1>2, <1>3, <1>4, <1>5, <1>6, <1>7, <1>8 DEF RunnerInv

\* Every step of the loop and of a task keeps the invariant.
LEMMA StepInv == RunnerInv /\ [Next]_vars => RunnerInv'
<1> SUFFICES ASSUME RunnerInv, [Next]_vars PROVE RunnerInv'
  OBVIOUS
<1> UNCHANGED board
  BY DEF Next, vars
<1> USE RunnerAssumption DEF RunnerInv, TypeOK, OneTask, AliveIsTask, InHandIsTask, HandState, QueueState, RanState, WakeFindsTask,
    Exists, Holding, Starting, JobStates, TaskStates, jobVars, lockVars, taskVars, loopVars, vars
<1>1. ASSUME NEW j \in Jobs, PostQueue(j) PROVE RunnerInv'
  <2>1. TypeOK'
    BY <1>1, QueueFacts, AppendProperties DEF PostQueue, Postable, MustStart
  <2>2. OneTask'
    BY <1>1, QueueFacts, AppendProperties DEF PostQueue, Postable, MustStart
  <2>3. AliveIsTask'
    BY <1>1, QueueFacts, AppendProperties DEF PostQueue, Postable, MustStart
  <2>4. InHandIsTask'
    BY <1>1, QueueFacts, AppendProperties DEF PostQueue, Postable, MustStart
  <2>5. HandState'
    BY <1>1, QueueFacts, AppendProperties DEF PostQueue, Postable, MustStart
  <2>0. /\ Len(queue') = Len(queue) + 1
        /\ \A i \in 1..Len(queue) : queue'[i] = queue[i]
        /\ queue'[Len(queue) + 1] = j
    BY <1>1, AppendProperties DEF PostQueue, Postable, MustStart
  <2>6. QueueState'
    <3>1. /\ st'[j] = "queued" /\ \A k \in Jobs \ {j} : st'[k] = st[k]
          /\ hand' = hand /\ posting' = j
      BY <1>1 DEF PostQueue, Postable, MustStart
    <3>2. \A t \in Tasks : hand[t] # j
      BY <1>1 DEF PostQueue, Postable, MustStart
    <3>3. \A i \in 1..Len(queue) : queue[i] # j
      BY <1>1, QueueFacts DEF PostQueue, Postable, MustStart
    <3>4. \A i \in 1..Len(queue') : i \in 1..Len(queue) \/ i = Len(queue) + 1
      BY <2>0, QueueFacts
    <3>5. \A i \in 1..Len(queue') : st'[queue'[i]] = "queued"
      BY <2>0, <3>1, <3>4, QueueFacts
    <3>6. \A i \in 1..Len(queue') : \A t \in Tasks : hand'[t] # queue'[i]
      BY <2>0, <3>1, <3>2, <3>4, QueueFacts
    <3>7. \A i, k \in 1..Len(queue') : queue'[i] = queue'[k] => i = k
      BY <2>0, <3>3, <3>4, QueueFacts, SMTT(30)
    <3>8. Starting' => st'[posting'] = "queued" /\ \A t \in Tasks : hand'[t] # posting'
      BY <3>1, <3>2
    <3> QED
      BY <3>5, <3>6, <3>7, <3>8
  <2>7. RanState'
    BY <1>1, QueueFacts, AppendProperties DEF PostQueue, Postable, MustStart
  <2>8. WakeFindsTask'
    BY <1>1, QueueFacts, AppendProperties DEF PostQueue, Postable, MustStart
  <2> QED
    BY <2>1, <2>2, <2>3, <2>4, <2>5, <2>6, <2>7, <2>8
<1>2. ASSUME NEW j \in Jobs, Collect(j) PROVE RunnerInv'
  <2>1. TypeOK'
    BY <1>2, QueueFacts DEF Collect
  <2>2. OneTask'
    BY <1>2, QueueFacts DEF Collect
  <2>3. AliveIsTask'
    BY <1>2, QueueFacts DEF Collect
  <2>4. InHandIsTask'
    BY <1>2, QueueFacts DEF Collect
  <2>5. HandState'
    BY <1>2, QueueFacts DEF Collect
  <2>6. QueueState'
    BY <1>2, QueueFacts DEF Collect
  <2>7. RanState'
    BY <1>2, QueueFacts DEF Collect
  <2>8. WakeFindsTask'
    BY <1>2, QueueFacts DEF Collect
  <2> QED
    BY <2>1, <2>2, <2>3, <2>4, <2>5, <2>6, <2>7, <2>8
<1>3. ASSUME PostWake PROVE RunnerInv'
  BY <1>3 DEF PostWake
<1>4. ASSUME NEW t \in Tasks, PostStart(t) PROVE RunnerInv'
  <2>1. TypeOK'
    BY <1>4, QueueFacts DEF PostStart
  <2>2. OneTask'
    BY <1>4, QueueFacts DEF PostStart
  <2>3. AliveIsTask'
    BY <1>4, QueueFacts DEF PostStart
  <2>4. InHandIsTask'
    BY <1>4, QueueFacts DEF PostStart
  <2>5. HandState'
    BY <1>4, QueueFacts DEF PostStart
  <2>6. QueueState'
    BY <1>4, QueueFacts DEF PostStart
  <2>7. RanState'
    BY <1>4, QueueFacts DEF PostStart
  <2>8. WakeFindsTask'
    BY <1>4, QueueFacts DEF PostStart
  <2> QED
    BY <2>1, <2>2, <2>3, <2>4, <2>5, <2>6, <2>7, <2>8
<1>5. ASSUME PostNoStart PROVE RunnerInv'
  BY <1>5 DEF PostNoStart
<1>6. ASSUME PostUndo PROVE RunnerInv'
  <2>0. queue' \in Seq(Jobs) /\ Len(queue') = 0 /\ st' \in [Jobs -> JobStates]
    BY <1>6, QueueFacts DEF PostUndo
  <2>1. TypeOK'
    <3>1. Len(queue') <= kQueue /\ alive' = FALSE /\ loop' = "out" /\ posting' = NoJob
      BY <1>6, <2>0 DEF PostUndo
    <3>2. UNCHANGED <<ran, inHand, woken, noStart, pc, hand>>
      BY <1>6 DEF PostUndo
    <3> QED
      BY <2>0, <3>1, <3>2
  <2>2. OneTask'
    BY <1>6, QueueFacts DEF PostUndo
  <2>3. AliveIsTask'
    BY <1>6, QueueFacts DEF PostUndo
  <2>4. InHandIsTask'
    BY <1>6, QueueFacts DEF PostUndo
  <2>5. HandState'
    BY <1>6, QueueFacts DEF PostUndo
  <2>6. QueueState'
    BY <1>6, QueueFacts DEF PostUndo
  <2>7. RanState'
    BY <1>6, QueueFacts DEF PostUndo
  <2>8. WakeFindsTask'
    BY <1>6, QueueFacts DEF PostUndo
  <2> QED
    BY <2>1, <2>2, <2>3, <2>4, <2>5, <2>6, <2>7, <2>8
<1>7. ASSUME RetryDue PROVE RunnerInv'
  <2>1. TypeOK'
    BY <1>7, QueueFacts DEF RetryDue
  <2>2. OneTask'
    BY <1>7, QueueFacts DEF RetryDue
  <2>3. AliveIsTask'
    BY <1>7, QueueFacts DEF RetryDue
  <2>4. InHandIsTask'
    BY <1>7, QueueFacts DEF RetryDue
  <2>5. HandState'
    BY <1>7, QueueFacts DEF RetryDue
  <2>6. QueueState'
    BY <1>7, QueueFacts DEF RetryDue
  <2>7. RanState'
    BY <1>7, QueueFacts DEF RetryDue
  <2>8. WakeFindsTask'
    BY <1>7, QueueFacts DEF RetryDue
  <2> QED
    BY <2>1, <2>2, <2>3, <2>4, <2>5, <2>6, <2>7, <2>8
<1>8. ASSUME NEW t \in Tasks, TaskTake(t) PROVE RunnerInv'
  <2>0. ASSUME queue # <<>>
        PROVE  /\ Head(queue) = queue[1] /\ Head(queue) \in Jobs /\ Tail(queue) \in Seq(Jobs)
               /\ Len(Tail(queue)) = Len(queue) - 1
               /\ \A i \in 1..Len(Tail(queue)) : Tail(queue)[i] = queue[i + 1]
    BY <2>0, HeadTailProperties
  <2>1. TypeOK'
    <3>1. CASE queue = <<>>
      <4>1. inHand' = FALSE /\ queue' = queue /\ hand' = hand /\ pc' = [pc EXCEPT ![t] = "wait"]
        BY <1>8, <3>1 DEF TaskTake
      <4> QED
        BY <1>8, <4>1 DEF TaskTake
    <3>2. CASE queue # <<>>
      <4>1. inHand' = TRUE
        BY <1>8, <3>2 DEF TaskTake
      <4>2. /\ queue' = Tail(queue)
            /\ hand' = [hand EXCEPT ![t] = Head(queue)]
            /\ pc' = [pc EXCEPT ![t] = "mark"]
        BY <1>8, <3>2 DEF TaskTake
      <4> QED
        BY <1>8, <2>0, <3>2, <4>1, <4>2 DEF TaskTake
    <3> QED
      BY <3>1, <3>2
  <2>2. OneTask'
    BY <1>8, QueueFacts, HeadTailProperties DEF TaskTake, TaskMayRun
  <2>3. AliveIsTask'
    BY <1>8, QueueFacts, HeadTailProperties DEF TaskTake, TaskMayRun
  <2>4. InHandIsTask'
    <3>1. CASE queue = <<>>
      <4>1. inHand' = FALSE /\ pc' = [pc EXCEPT ![t] = "wait"]
        BY <1>8, <3>1 DEF TaskTake
      <4> QED
        BY <1>8, <4>1 DEF TaskTake
    <3>2. CASE queue # <<>>
      <4>1. inHand' = TRUE /\ pc' = [pc EXCEPT ![t] = "mark"]
        BY <1>8, <3>2 DEF TaskTake
      <4> QED
        BY <1>8, <4>1 DEF TaskTake
    <3> QED
      BY <3>1, <3>2
  <2>5. HandState'
    BY <1>8, QueueFacts, HeadTailProperties DEF TaskTake, TaskMayRun
  <2>6. QueueState'
    <3>1. CASE queue = <<>>
      BY <1>8, <3>1, QueueFacts DEF TaskTake
    <3>2. CASE queue # <<>>
      <4>1. /\ queue' = Tail(queue) /\ st' = st /\ loop' = loop /\ posting' = posting
            /\ hand'[t] = queue[1] /\ \A u \in Tasks \ {t} : hand'[u] = hand[u]
        BY <1>8, <2>0, <3>2 DEF TaskTake
      <4>2. \A i \in 1..Len(queue') : /\ i + 1 \in 1..Len(queue) /\ i + 1 # 1
                                       /\ queue'[i] = queue[i + 1]
        BY <2>0, <3>2, <4>1, QueueFacts
      <4>3. ~Starting
        BY <1>8 DEF TaskTake
      <4>4. 1 \in 1..Len(queue)
        BY <3>2, QueueFacts
      <4>5. \A i \in 1..Len(queue') : queue'[i] # queue[1]
        BY <4>2, <4>4
      <4>6. \A i, k \in 1..Len(queue') : queue'[i] = queue'[k] => i = k
        BY <4>2, QueueFacts
      <4> QED
        BY <4>1, <4>2, <4>3, <4>5, <4>6
    <3> QED
      BY <3>1, <3>2
  <2>7. RanState'
    BY <1>8, QueueFacts, HeadTailProperties DEF TaskTake, TaskMayRun
  <2>8. WakeFindsTask'
    BY <1>8, QueueFacts, HeadTailProperties DEF TaskTake, TaskMayRun
  <2> QED
    BY <2>1, <2>2, <2>3, <2>4, <2>5, <2>6, <2>7, <2>8
<1>9. ASSUME NEW t \in Tasks, TaskWoken(t) PROVE RunnerInv'
  <2>1. TypeOK'
    BY <1>9, QueueFacts DEF TaskWoken, TaskMayRun
  <2>2. OneTask'
    BY <1>9, QueueFacts DEF TaskWoken, TaskMayRun
  <2>3. AliveIsTask'
    BY <1>9, QueueFacts DEF TaskWoken, TaskMayRun
  <2>4. InHandIsTask'
    BY <1>9, QueueFacts DEF TaskWoken, TaskMayRun
  <2>5. HandState'
    BY <1>9, QueueFacts DEF TaskWoken, TaskMayRun
  <2>6. QueueState'
    BY <1>9, QueueFacts DEF TaskWoken, TaskMayRun
  <2>7. RanState'
    BY <1>9, QueueFacts DEF TaskWoken, TaskMayRun
  <2>8. WakeFindsTask'
    BY <1>9, QueueFacts DEF TaskWoken, TaskMayRun
  <2> QED
    BY <2>1, <2>2, <2>3, <2>4, <2>5, <2>6, <2>7, <2>8
<1>10. ASSUME NEW t \in Tasks, TaskLingered(t) PROVE RunnerInv'
  BY <1>10 DEF TaskLingered, TaskMayRun
<1>11. ASSUME NEW t \in Tasks, TaskDecide(t) PROVE RunnerInv'
  <2>1. TypeOK'
    <3>1. CASE queue = <<>>
      <4>1. alive' = FALSE /\ pc' = [pc EXCEPT ![t] = "none"]
        BY <1>11, <3>1 DEF TaskDecide
      <4> QED
        BY <1>11, <4>1 DEF TaskDecide
    <3>2. CASE queue # <<>>
      <4>1. alive' = alive /\ pc' = [pc EXCEPT ![t] = "take"]
        BY <1>11, <3>2 DEF TaskDecide
      <4> QED
        BY <1>11, <4>1 DEF TaskDecide
    <3> QED
      BY <3>1, <3>2
  <2>2. OneTask'
    BY <1>11, QueueFacts DEF TaskDecide, TaskMayRun
  <2>3. AliveIsTask'
    <3>1. CASE queue = <<>>
      <4>1. /\ alive' = FALSE
            /\ pc' = [pc EXCEPT ![t] = "none"]
            /\ pc[t] = "decide"
            /\ UNCHANGED <<queue, loop, posting>>
        BY <1>11, <3>1 DEF TaskDecide
      <4>2. ~Starting'
        BY <4>1
      <4>3. \A u \in Tasks : u # t => ~Exists(u)
        BY <4>1
      <4>4. \A u \in Tasks : ~Exists(u)'
        BY <4>1, <4>3
      <4> QED
        BY <3>1, <4>1, <4>2, <4>4
    <3>2. CASE queue # <<>>
      <4>1. /\ UNCHANGED <<alive, queue, loop, posting>>
            /\ pc' = [pc EXCEPT ![t] = "take"]
            /\ pc[t] = "decide"
        BY <1>11, <3>2 DEF TaskDecide
      <4>2. \A u \in Tasks : Exists(u)' <=> Exists(u)
        BY <4>1
      <4> QED
        BY <4>1, <4>2
    <3> QED
      BY <3>1, <3>2
  <2>4. InHandIsTask'
    BY <1>11, QueueFacts DEF TaskDecide, TaskMayRun
  <2>5. HandState'
    BY <1>11, QueueFacts DEF TaskDecide, TaskMayRun
  <2>6. QueueState'
    BY <1>11, QueueFacts DEF TaskDecide, TaskMayRun
  <2>7. RanState'
    BY <1>11, QueueFacts DEF TaskDecide, TaskMayRun
  <2>8. WakeFindsTask'
    BY <1>11, QueueFacts DEF TaskDecide, TaskMayRun
  <2> QED
    BY <2>1, <2>2, <2>3, <2>4, <2>5, <2>6, <2>7, <2>8
<1>12. ASSUME NEW t \in Tasks, TaskMark(t) PROVE RunnerInv'
  BY <1>12 DEF TaskMark, TaskMayRun
<1>13. ASSUME NEW t \in Tasks, TaskWork(t) PROVE RunnerInv'
  BY <1>13 DEF TaskWork, TaskMayRun
<1>14. ASSUME NEW t \in Tasks, TaskDrop(t) PROVE RunnerInv'
  <2>1. TypeOK'
    BY <1>14, QueueFacts DEF TaskDrop, TaskMayRun
  <2>2. OneTask'
    BY <1>14, QueueFacts DEF TaskDrop, TaskMayRun
  <2>3. AliveIsTask'
    BY <1>14, QueueFacts DEF TaskDrop, TaskMayRun
  <2>4. InHandIsTask'
    BY <1>14, QueueFacts DEF TaskDrop, TaskMayRun
  <2>5. HandState'
    BY <1>14, QueueFacts DEF TaskDrop, TaskMayRun
  <2>6. QueueState'
    BY <1>14, QueueFacts DEF TaskDrop, TaskMayRun
  <2>7. RanState'
    BY <1>14, QueueFacts DEF TaskDrop, TaskMayRun
  <2>8. WakeFindsTask'
    BY <1>14, QueueFacts DEF TaskDrop, TaskMayRun
  <2> QED
    BY <2>1, <2>2, <2>3, <2>4, <2>5, <2>6, <2>7, <2>8
<1>15. ASSUME NEW t \in Tasks, TaskFinish(t) PROVE RunnerInv'
  BY <1>15 DEF TaskFinish, TaskMayRun
<1>16. CASE UNCHANGED vars
  BY <1>16
<1> QED
  BY <1>1, <1>2, <1>3, <1>4, <1>5, <1>6, <1>7, <1>8, <1>9, <1>10, <1>11, <1>12, <1>13, <1>14, <1>15, <1>16 DEF Next, PostEnd, TaskStep

-------------------------------------------------------------------------------
(* The theorems                                                            *)

\* The invariant holds in every reachable state of the runner.
THEOREM RunnerInvariant == Spec => []RunnerInv
BY InitInv, StepInv, PTL DEF Spec

\* Type correctness of the runner's and the loop's variables.
THEOREM TypeCorrect == Spec => []TypeOK
<1>1. RunnerInv => TypeOK
  BY DEF RunnerInv
<1> QED
  BY <1>1, RunnerInvariant, PTL

\* However a post and the task's decision to end interleave, there is never
\* a second task (runner.cpp: both are decided under the lock).
THEOREM AtMostOneTask == Spec => []OneTask
<1>1. RunnerInv => OneTask
  BY DEF RunnerInv
<1> QED
  BY <1>1, RunnerInvariant, PTL

\* No job is left in the queue with nobody to run it.
THEOREM NothingStranded == Spec => []NoStrandedJob
<1>1. RunnerInv => NoStrandedJob
  BY DEF RunnerInv, AliveIsTask, NoStrandedJob
<1> QED
  BY <1>1, RunnerInvariant, PTL

\* SD UNMOUNT may trust busy(): no work is under way while it says no.
THEOREM BusyIsSafe == Spec => []BusyCoversWork
<1>1. RunnerInv => BusyCoversWork
  BY DEF RunnerInv, InHandIsTask, BusyCoversWork, Busy
<1> QED
  BY <1>1, RunnerInvariant, PTL

\* An accepted job's work has run exactly once when the loop sees DONE.
THEOREM WorkRunsOnce == Spec => []RunsOnce
<1>1. RunnerInv => RunsOnce
  BY DEF RunnerInv, RanState, RunsOnce
<1> QED
  BY <1>1, RunnerInvariant, PTL

\* A job's inputs and results are never touched by both sides at once.
THEOREM JobsAreExclusive == Spec => []LoopOwnsItsJobs
<1>1. RunnerInv => LoopOwnsItsJobs
  <2> SUFFICES ASSUME RunnerInv, NEW j \in Jobs, st[j] \in {"idle", "done"}
               PROVE  /\ \A t \in Tasks : hand[t] # j
                      /\ \A i \in DOMAIN queue : queue[i] # j
    BY DEF LoopOwnsItsJobs
  <2>1. ASSUME NEW t \in Tasks PROVE hand[t] # j
    BY RunnerAssumption DEF RunnerInv, TypeOK, HandState, Holding, TaskStates
  <2>2. \A i \in DOMAIN queue : queue[i] # j
    BY QueueFacts DEF RunnerInv, QueueState
  <2> QED
    BY <2>1, <2>2
<1> QED
  BY <1>1, RunnerInvariant, PTL

\* On the board the handle a wake goes through is a task that still exists.
THEOREM WakeIsSafe == Spec => []WakeFindsTask
<1>1. RunnerInv => WakeFindsTask
  BY DEF RunnerInv
<1> QED
  BY <1>1, RunnerInvariant, PTL

-------------------------------------------------------------------------------
(* The runner implements JobService                                        *)

\* The two variables of JobService as the refinement reads them.
HeldBy(p, h) ==
  IF \E t \in Tasks : p[t] \in {"mark", "work", "drop", "finish"}
  THEN <<h[CHOOSE t \in Tasks : p[t] \in {"mark", "work", "drop", "finish"}]>>
  ELSE <<>>
AcceptedJobs == HeldBy(pc, hand) \o Waiting
FinishedJobs == {j \in Jobs : st[j] = "done"}

\* The one task that holds a job is the one CHOOSE finds.
LEMMA HeldByOne ==
  ASSUME NEW p, NEW h, NEW t \in Tasks, p[t] \in {"mark", "work", "drop", "finish"},
         \A u \in Tasks : p[u] \in {"mark", "work", "drop", "finish"} => u = t
  PROVE  HeldBy(p, h) = <<h[t]>>
<1>1. (CHOOSE u \in Tasks : p[u] \in {"mark", "work", "drop", "finish"}) = t
  OBVIOUS
<1> QED
  BY <1>1 DEF HeldBy

\* With no task holding one, no job is in hand.
LEMMA HeldByNone ==
  ASSUME NEW p, NEW h, \A u \in Tasks : p[u] \notin {"mark", "work", "drop", "finish"}
  PROVE  HeldBy(p, h) = <<>>
BY DEF HeldBy

\* A step of the service, in the words of the mapping.
ServiceStep ==
  \/ /\ AcceptedJobs # <<>>
     /\ AcceptedJobs' = Tail(AcceptedJobs)
     /\ FinishedJobs' = FinishedJobs \cup {Head(AcceptedJobs)}
  \/ \E j \in Jobs : /\ \A i \in DOMAIN AcceptedJobs : AcceptedJobs[i] # j
                     /\ AcceptedJobs' = Append(AcceptedJobs, j)
                     /\ FinishedJobs' = FinishedJobs \ {j}
  \/ \E j \in Jobs : /\ j \in FinishedJobs
                     /\ FinishedJobs' = FinishedJobs \ {j}
                     /\ AcceptedJobs' = AcceptedJobs
  \/ AcceptedJobs' = AcceptedJobs /\ FinishedJobs' = FinishedJobs

\* It is a step of JobService, or none at all.
LEMMA ServiceStepIsSNext == ServiceStep => [Service!SNext]_(Service!svars)
BY DEF ServiceStep, AcceptedJobs, FinishedJobs, HeldBy, Holding, Service!SNext,
       Service!svars, Service!Accept, Service!Finish, Service!Take

\* The job in hand in front of the queue: nothing overtakes it.
LEMMA HandFirst ==
  ASSUME NEW q \in Seq(Jobs), NEW h \in Jobs
  PROVE  /\ <<>> \o q = q
         /\ <<h>> \o q \in Seq(Jobs)
         /\ <<h>> \o q # <<>>
         /\ Head(<<h>> \o q) = h
         /\ Tail(<<h>> \o q) = q
<1>0. <<h>> \in Seq(Jobs) /\ Len(<<h>>) = 1 /\ <<h>>[1] = h
  OBVIOUS
<1>1. /\ <<h>> \o q \in Seq(Jobs)
      /\ Len(<<h>> \o q) = 1 + Len(q)
      /\ \A i \in 1..(1 + Len(q)) : (<<h>> \o q)[i] = IF i <= 1 THEN h ELSE q[i - 1]
  BY <1>0, ConcatProperties
<1>2. Len(q) \in Nat
  BY LenProperties
<1>3. <<h>> \o q # <<>>
  BY <1>1, <1>2, EmptySeq
<1>4. Head(<<h>> \o q) = h
  BY <1>1, <1>2, <1>3
<1>5. Tail(<<h>> \o q) = q
  <2>1. /\ Tail(<<h>> \o q) \in Seq(Jobs)
        /\ Len(Tail(<<h>> \o q)) = Len(q)
        /\ \A i \in 1..Len(q) : Tail(<<h>> \o q)[i] = (<<h>> \o q)[i + 1]
    BY <1>1, <1>2, <1>3, HeadTailProperties
  <2>2. \A i \in 1..Len(q) : (<<h>> \o q)[i + 1] = q[i]
    BY <1>1, <1>2
  <2> QED
    BY <2>1, <2>2, SeqEqual
<1> QED
  BY <1>1, <1>3, <1>4, <1>5, ConcatEmptySeq

\* Taking the oldest job leaves the order as it was.
LEMMA HeadFirst ==
  ASSUME NEW q \in Seq(Jobs), q # <<>>
  PROVE  <<Head(q)>> \o Tail(q) = q
<1>1. /\ Head(q) \in Jobs /\ Tail(q) \in Seq(Jobs) /\ Len(Tail(q)) = Len(q) - 1
      /\ \A i \in 1..Len(Tail(q)) : Tail(q)[i] = q[i + 1]
      /\ Head(q) = q[1]
  BY HeadTailProperties
<1>2. <<Head(q)>> \in Seq(Jobs) /\ Len(<<Head(q)>>) = 1 /\ <<Head(q)>>[1] = Head(q)
  BY <1>1
<1>3. Len(q) \in Nat \ {0}
  BY EmptySeq
<1>4. /\ <<Head(q)>> \o Tail(q) \in Seq(Jobs)
      /\ Len(<<Head(q)>> \o Tail(q)) = 1 + Len(Tail(q))
      /\ \A i \in 1..(1 + Len(Tail(q))) :
           (<<Head(q)>> \o Tail(q))[i] = IF i <= 1 THEN Head(q) ELSE Tail(q)[i - 1]
  BY <1>1, <1>2, ConcatProperties
<1>5. \A i \in 1..Len(q) : (<<Head(q)>> \o Tail(q))[i] = q[i]
  BY <1>1, <1>3, <1>4
<1> QED
  BY <1>1, <1>3, <1>4, <1>5, SeqEqual

\* A job appended to the queue comes last of all.
LEMMA AppendLast ==
  ASSUME NEW q \in Seq(Jobs), NEW h \in Jobs, NEW j \in Jobs
  PROVE  <<h>> \o Append(q, j) = Append(<<h>> \o q, j)
<1>0. <<h>> \in Seq(Jobs) /\ <<j>> \in Seq(Jobs)
  OBVIOUS
<1>1. Append(q, j) = q \o <<j>>
  BY AppendIsConcat
<1>2. Append(<<h>> \o q, j) = (<<h>> \o q) \o <<j>>
  BY HandFirst, AppendIsConcat
<1> QED
  BY <1>0, <1>1, <1>2, ConcatAssociative

\* What the service sees of a state: a task holds one job, or none does.
LEMMA AcceptedIs ==
  ASSUME RunnerInv
  PROVE  /\ \A t \in Tasks : Holding(t) => /\ AcceptedJobs = <<hand[t]>> \o queue
                                           /\ hand[t] \in Jobs
                                           /\ ~Starting
         /\ (\A t \in Tasks : ~Holding(t)) => AcceptedJobs = Waiting
         /\ queue \in Seq(Jobs) /\ Waiting \in Seq(Jobs)
<1>1. queue \in Seq(Jobs) /\ Waiting \in Seq(Jobs)
  BY EmptySeq DEF RunnerInv, TypeOK, Waiting
<1>2. ASSUME NEW t \in Tasks, Holding(t)
      PROVE  AcceptedJobs = <<hand[t]>> \o queue /\ hand[t] \in Jobs /\ ~Starting
  <2>1. \A u \in Tasks : Holding(u) => u = t
    BY <1>2 DEF RunnerInv, OneTask, Exists, Holding
  <2>2. HeldBy(pc, hand) = <<hand[t]>>
    BY <1>2, <2>1, HeldByOne DEF Holding
  <2>3. ~Starting
    BY <1>2 DEF RunnerInv, AliveIsTask, Exists, Holding
  <2>4. hand[t] \in Jobs
    BY <1>2 DEF RunnerInv, TypeOK, HandState
  <2> QED
    BY <2>2, <2>3, <2>4 DEF AcceptedJobs, Waiting
<1>3. ASSUME \A t \in Tasks : ~Holding(t) PROVE AcceptedJobs = Waiting
  <2>1. HeldBy(pc, hand) = <<>>
    BY <1>3, HeldByNone DEF Holding
  <2> QED
    BY <1>1, <2>1, ConcatEmptySeq DEF AcceptedJobs
<1> QED
  BY <1>1, <1>2, <1>3

\* The same of the state after a step.
LEMMA AcceptedIsNext ==
  ASSUME RunnerInv'
  PROVE  /\ \A t \in Tasks : Holding(t)' => /\ AcceptedJobs' = <<hand'[t]>> \o queue'
                                            /\ hand'[t] \in Jobs
                                            /\ ~Starting'
         /\ (\A t \in Tasks : ~Holding(t)') => AcceptedJobs' = Waiting'
         /\ queue' \in Seq(Jobs) /\ Waiting' \in Seq(Jobs)
<1>1. queue' \in Seq(Jobs) /\ Waiting' \in Seq(Jobs)
  BY EmptySeq DEF RunnerInv, TypeOK, Waiting
<1>2. ASSUME NEW t \in Tasks, Holding(t)'
      PROVE  AcceptedJobs' = <<hand'[t]>> \o queue' /\ hand'[t] \in Jobs /\ ~Starting'
  <2>1. \A u \in Tasks : Holding(u)' => u = t
    BY <1>2 DEF RunnerInv, OneTask, Exists, Holding
  <2>2. HeldBy(pc', hand') = <<hand'[t]>>
    BY <1>2, <2>1, HeldByOne DEF Holding
  <2>3. ~Starting'
    BY <1>2 DEF RunnerInv, AliveIsTask, Exists, Holding
  <2>4. hand'[t] \in Jobs
    BY <1>2 DEF RunnerInv, TypeOK, HandState
  <2>5. HeldBy(pc, hand)' = HeldBy(pc', hand')
    BY DEF HeldBy
  <2> QED
    BY <2>2, <2>3, <2>4, <2>5 DEF AcceptedJobs, Waiting
<1>3. ASSUME \A t \in Tasks : ~Holding(t)' PROVE AcceptedJobs' = Waiting'
  <2>1. HeldBy(pc', hand') = <<>>
    BY <1>3, HeldByNone DEF Holding
  <2>2. HeldBy(pc, hand)' = HeldBy(pc', hand')
    BY DEF HeldBy
  <2> QED
    BY <1>1, <2>1, <2>2, ConcatEmptySeq DEF AcceptedJobs
<1> QED
  BY <1>1, <1>2, <1>3

\* A step that moves no job between hand and queue is not seen in accepted.
LEMMA HandsAlike ==
  ASSUME RunnerInv, RunnerInv', Waiting' = Waiting,
         \A t \in Tasks : (Holding(t)' <=> Holding(t)) /\ hand'[t] = hand[t]
  PROVE  AcceptedJobs' = AcceptedJobs
<1>1. CASE \E t \in Tasks : Holding(t)
  <2>1. PICK t \in Tasks : Holding(t)
    BY <1>1
  <2>2. AcceptedJobs = <<hand[t]>> \o queue /\ ~Starting
    BY <2>1, AcceptedIs
  <2>3. AcceptedJobs' = <<hand'[t]>> \o queue' /\ ~Starting'
    BY <2>1, AcceptedIsNext
  <2>4. queue' = queue
    BY <2>2, <2>3 DEF Waiting
  <2> QED
    BY <2>2, <2>3, <2>4
<1>2. CASE \A t \in Tasks : ~Holding(t)
  BY <1>2, AcceptedIs, AcceptedIsNext
<1> QED
  BY <1>1, <1>2

\* Every step of the runner is one step of the service, or none.
LEMMA StepServes ==
  ASSUME RunnerInv, RunnerInv', [Next]_vars
  PROVE  ServiceStep
<1> USE DEF jobVars, lockVars, taskVars, loopVars
<1>0. /\ st \in [Jobs -> JobStates] /\ pc \in [Tasks -> TaskStates]
      /\ hand \in [Tasks -> Jobs \cup {NoJob}] /\ queue \in Seq(Jobs)
  BY DEF RunnerInv, TypeOK
<1>1. ASSUME NEW j \in Jobs, PostQueue(j) PROVE ServiceStep
  <2>1. FinishedJobs' = FinishedJobs \ {j}
    BY <1>0, <1>1 DEF PostQueue, FinishedJobs
  <2>2. UNCHANGED <<pc, hand>> /\ queue' = Append(queue, j) /\ ~Starting
    BY <1>1 DEF PostQueue, Starting
  <2>3. CASE Starting'
    <3>1. \A t \in Tasks : ~Holding(t)
      BY <1>1, <2>3 DEF PostQueue, Starting, MustStart, RunnerInv, AliveIsTask, Exists, Holding
    <3>2. Waiting = <<>>
      BY <1>0, <1>1, <2>2, <2>3, EmptySeq
         DEF PostQueue, Starting, MustStart, RunnerInv, AliveIsTask, Waiting
    <3>3. AcceptedJobs = <<>> /\ AcceptedJobs' = <<>>
      <4>1. AcceptedJobs = Waiting
        BY <3>1, AcceptedIs
      <4>2. AcceptedJobs' = Waiting'
        BY <2>2, <3>1, AcceptedIsNext DEF Holding
      <4> QED
        BY <2>3, <3>2, <4>1, <4>2 DEF Waiting
    <3>4. j \in FinishedJobs \/ FinishedJobs' = FinishedJobs
      BY <2>1
    <3> QED
      BY <2>1, <3>3, <3>4 DEF ServiceStep
  <2>4. CASE ~Starting'
    <3>1. Waiting = queue /\ Waiting' = Append(queue, j)
      BY <2>2, <2>4 DEF Waiting
    <3>2. AcceptedJobs' = Append(AcceptedJobs, j)
      <4>1. CASE \E t \in Tasks : Holding(t)
        <5>1. PICK t \in Tasks : Holding(t)
          BY <4>1
        <5>2. Holding(t)'
          BY <2>2, <5>1 DEF Holding
        <5>3. AcceptedJobs = <<hand[t]>> \o queue /\ hand[t] \in Jobs
          BY <5>1, AcceptedIs
        <5>4. AcceptedJobs' = <<hand[t]>> \o Append(queue, j)
          <6>1. AcceptedJobs' = <<hand'[t]>> \o queue'
            BY <5>2, AcceptedIsNext
          <6> QED
            BY <2>2, <6>1
        <5>5. <<hand[t]>> \o Append(queue, j) = Append(<<hand[t]>> \o queue, j)
          BY <1>0, <5>3, AppendLast
        <5> QED
          BY <5>3, <5>4, <5>5
      <4>2. CASE \A t \in Tasks : ~Holding(t)
        <5>1. \A t \in Tasks : ~Holding(t)'
          BY <2>2, <4>2 DEF Holding
        <5> QED
          BY <3>1, <4>2, <5>1, AcceptedIs, AcceptedIsNext
      <4> QED
        BY <4>1, <4>2
    <3>3. /\ \A i \in 1..Len(queue) : queue[i] # j
          /\ \A t \in Tasks : hand[t] # j
      BY <1>0, <1>1, QueueFacts
         DEF PostQueue, Postable, RunnerInv, QueueState, HandState, TypeOK, Holding,
             TaskStates, RunnerAssumption
    <3>4. \A i \in DOMAIN AcceptedJobs : AcceptedJobs[i] # j
      <4>1. CASE \E t \in Tasks : Holding(t)
        <5>1. PICK t \in Tasks : Holding(t)
          BY <4>1
        <5>2. AcceptedJobs = <<hand[t]>> \o queue /\ hand[t] \in Jobs
          BY <5>1, AcceptedIs
        <5>3. <<hand[t]>> \in Seq(Jobs) /\ Len(<<hand[t]>>) = 1 /\ <<hand[t]>>[1] = hand[t]
          BY <5>2
        <5>4. Len(queue) \in Nat
          BY <1>0, LenProperties
        <5>5. /\ AcceptedJobs \in Seq(Jobs) /\ Len(AcceptedJobs) = 1 + Len(queue)
              /\ \A i \in 1..(1 + Len(queue)) :
                   AcceptedJobs[i] = IF i <= 1 THEN hand[t] ELSE queue[i - 1]
          BY <1>0, <5>2, <5>3, ConcatProperties
        <5>6. DOMAIN AcceptedJobs = 1..(1 + Len(queue))
          BY <5>5, LenProperties
        <5> QED
          BY <3>3, <5>4, <5>5, <5>6
      <4>2. CASE \A t \in Tasks : ~Holding(t)
        <5>1. AcceptedJobs = queue
          BY <3>1, <4>2, AcceptedIs
        <5> QED
          BY <1>0, <3>3, <5>1, LenProperties
      <4> QED
        BY <4>1, <4>2
    <3> QED
      BY <2>1, <3>2, <3>4 DEF ServiceStep
  <2> QED
    BY <2>3, <2>4
<1>2. ASSUME NEW j \in Jobs, Collect(j) PROVE ServiceStep
  <2>1. j \in FinishedJobs /\ FinishedJobs' = FinishedJobs \ {j}
    BY <1>0, <1>2 DEF Collect, FinishedJobs
  <2>2. AcceptedJobs' = AcceptedJobs
    BY <1>2, HandsAlike DEF Collect, Holding, Waiting, Starting
  <2> QED
    BY <2>1, <2>2 DEF ServiceStep
<1>3. ASSUME PostWake PROVE ServiceStep
  <2>1. FinishedJobs' = FinishedJobs
    BY <1>3 DEF PostWake, FinishedJobs
  <2>2. AcceptedJobs' = AcceptedJobs
    BY <1>3, HandsAlike DEF PostWake, Holding, Waiting, Starting
  <2> QED
    BY <2>1, <2>2 DEF ServiceStep
<1>4. ASSUME NEW t \in Tasks, PostStart(t) PROVE ServiceStep
  <2>1. Starting /\ ~Starting' /\ queue' = queue /\ st' = st /\ hand' = hand
    BY <1>4 DEF PostStart, Starting
  <2>2. \A u \in Tasks : ~Holding(u)
    BY <2>1 DEF RunnerInv, AliveIsTask, Exists, Holding
  <2>3. \A u \in Tasks : ~Holding(u)'
    BY <1>0, <1>4, <2>2 DEF PostStart, Holding
  <2>4. AcceptedJobs = <<>> /\ AcceptedJobs' = queue
    <3>1. Waiting = <<>> /\ Waiting' = queue
      BY <2>1 DEF Waiting
    <3> QED
      BY <2>2, <2>3, <3>1, AcceptedIs, AcceptedIsNext
  <2>5. FinishedJobs' = FinishedJobs
    BY <2>1 DEF FinishedJobs
  <2>6. CASE queue = <<>>
    BY <2>4, <2>5, <2>6 DEF ServiceStep
  <2>7. CASE queue # <<>>
    <3>1. /\ Len(queue) \in Nat \ {0} /\ posting \in Jobs
          /\ \A i \in 1..Len(queue) : queue[i] = posting
          /\ \A i, k \in 1..Len(queue) : queue[i] = queue[k] => i = k
          /\ st[posting] = "queued"
      BY <1>4, <2>1, <2>7, QueueFacts
         DEF RunnerInv, TypeOK, AliveIsTask, QueueState, PostStart
    <3>2. Len(queue) = 1 /\ queue[1] = posting
      <4>1. 1 \in 1..Len(queue) /\ Len(queue) \in 1..Len(queue)
        BY <3>1
      <4> QED
        BY <3>1, <4>1
    <3>3. queue = Append(<<>>, posting)
      <4>1. /\ Append(<<>>, posting) \in Seq(Jobs)
            /\ Len(Append(<<>>, posting)) = 1
            /\ Append(<<>>, posting)[1] = posting
        BY <3>1, EmptySeq, AppendProperties
      <4> QED
        BY <1>0, <3>2, <4>1, SeqEqual
    <3>4. FinishedJobs' = FinishedJobs \ {posting}
      BY <2>5, <3>1 DEF FinishedJobs
    <3>5. \A i \in DOMAIN AcceptedJobs : AcceptedJobs[i] # posting
      BY <2>4
    <3> QED
      BY <2>4, <3>1, <3>3, <3>4, <3>5 DEF ServiceStep
  <2> QED
    BY <2>6, <2>7
<1>5. ASSUME PostNoStart PROVE ServiceStep
  <2>1. FinishedJobs' = FinishedJobs
    BY <1>5 DEF PostNoStart, FinishedJobs
  <2>2. AcceptedJobs' = AcceptedJobs
    BY <1>5, HandsAlike DEF PostNoStart, Holding, Waiting, Starting
  <2> QED
    BY <2>1, <2>2 DEF ServiceStep
<1>6. ASSUME PostUndo PROVE ServiceStep
  <2>1. /\ Starting /\ queue' = <<>> /\ UNCHANGED <<pc, hand>>
        /\ st' = [j \in Jobs |-> IF j = posting \/ \E i \in DOMAIN queue : queue[i] = j
                                  THEN "idle" ELSE st[j]]
    BY <1>6 DEF PostUndo, Starting
  <2>2. FinishedJobs' = FinishedJobs
    <3>1. \A i \in DOMAIN queue : st[queue[i]] = "queued"
      BY QueueFacts DEF RunnerInv, QueueState
    <3>2. \A j \in Jobs : st'[j] = "done" <=> st[j] = "done"
      BY <1>0, <2>1, <3>1 DEF RunnerInv, QueueState
    <3> QED
      BY <3>2 DEF FinishedJobs
  <2>3. AcceptedJobs' = AcceptedJobs
    <3>1. Waiting = <<>> /\ Waiting' = <<>>
      BY <2>1 DEF Waiting
    <3> QED
      BY <2>1, <3>1, HandsAlike DEF Holding
  <2> QED
    BY <2>2, <2>3 DEF ServiceStep
<1>7. ASSUME RetryDue PROVE ServiceStep
  <2>1. FinishedJobs' = FinishedJobs
    BY <1>7 DEF RetryDue, FinishedJobs
  <2>2. AcceptedJobs' = AcceptedJobs
    BY <1>7, HandsAlike DEF RetryDue, Holding, Waiting, Starting
  <2> QED
    BY <2>1, <2>2 DEF ServiceStep
<1>8. ASSUME NEW t \in Tasks, TaskTake(t) PROVE ServiceStep
  <2>1. pc[t] = "take" /\ st' = st /\ loop' = loop
    BY <1>8 DEF TaskTake
  <2>2. FinishedJobs' = FinishedJobs
    BY <2>1 DEF FinishedJobs
  <2>3. \A u \in Tasks : ~Holding(u)
    BY <1>0, <2>1 DEF Holding, RunnerInv, OneTask, Exists
  <2>4. ~Starting
    BY <2>1 DEF RunnerInv, AliveIsTask, Exists
  <2>5. AcceptedJobs = queue
    BY <2>3, <2>4, AcceptedIs DEF Waiting
  <2>6. CASE queue = <<>>
    <3>1. pc' = [pc EXCEPT ![t] = "wait"] /\ queue' = queue
      BY <1>8, <2>6 DEF TaskTake
    <3>2. \A u \in Tasks : ~Holding(u)'
      BY <1>0, <2>3, <3>1 DEF Holding
    <3>3. AcceptedJobs' = Waiting'
      BY <3>2, AcceptedIsNext
    <3> QED
      BY <2>1, <2>2, <2>4, <2>5, <3>1, <3>3 DEF ServiceStep, Waiting, Starting
  <2>7. CASE queue # <<>>
    <3>1. /\ pc' = [pc EXCEPT ![t] = "mark"] /\ queue' = Tail(queue)
          /\ hand' = [hand EXCEPT ![t] = Head(queue)]
      BY <1>8, <2>7 DEF TaskTake
    <3>2. Holding(t)' /\ hand'[t] = Head(queue)
      BY <1>0, <3>1 DEF Holding
    <3>3. AcceptedJobs' = <<Head(queue)>> \o Tail(queue)
      BY <3>1, <3>2, AcceptedIsNext
    <3>4. <<Head(queue)>> \o Tail(queue) = queue
      BY <1>0, <2>7, HeadFirst
    <3>5. AcceptedJobs' = AcceptedJobs
      BY <2>5, <3>3, <3>4
    <3> QED
      BY <2>2, <3>5 DEF ServiceStep
  <2> QED
    BY <2>6, <2>7
<1>9. ASSUME NEW t \in Tasks, TaskWoken(t) PROVE ServiceStep
  <2>1. FinishedJobs' = FinishedJobs
    BY <1>9 DEF TaskWoken, FinishedJobs
  <2>2. AcceptedJobs' = AcceptedJobs
    BY <1>0, <1>9, HandsAlike DEF TaskWoken, Holding, Waiting, Starting
  <2> QED
    BY <2>1, <2>2 DEF ServiceStep
<1>10. ASSUME NEW t \in Tasks, TaskLingered(t) PROVE ServiceStep
  <2>1. FinishedJobs' = FinishedJobs
    BY <1>10 DEF TaskLingered, FinishedJobs
  <2>2. AcceptedJobs' = AcceptedJobs
    BY <1>0, <1>10, HandsAlike DEF TaskLingered, Holding, Waiting, Starting
  <2> QED
    BY <2>1, <2>2 DEF ServiceStep
<1>11. ASSUME NEW t \in Tasks, TaskDecide(t) PROVE ServiceStep
  <2>1. FinishedJobs' = FinishedJobs
    BY <1>11 DEF TaskDecide, FinishedJobs
  <2>2. \A u \in Tasks : Holding(u)' <=> Holding(u)
    BY <1>0, <1>11 DEF TaskDecide, Holding
  <2>3. AcceptedJobs' = AcceptedJobs
    BY <1>11, <2>2, HandsAlike DEF TaskDecide, Waiting, Starting
  <2> QED
    BY <2>1, <2>3 DEF ServiceStep
<1>12. ASSUME NEW t \in Tasks, TaskMark(t) PROVE ServiceStep
  <2>1. FinishedJobs' = FinishedJobs
    <3>1. st[hand[t]] = "queued" /\ st' = [st EXCEPT ![hand[t]] = "running"]
      BY <1>12 DEF TaskMark, RunnerInv, HandState
    <3> QED
      BY <1>0, <3>1 DEF FinishedJobs
  <2>2. AcceptedJobs' = AcceptedJobs
    BY <1>0, <1>12, HandsAlike DEF TaskMark, Holding, Waiting, Starting
  <2> QED
    BY <2>1, <2>2 DEF ServiceStep
<1>13. ASSUME NEW t \in Tasks, TaskWork(t) PROVE ServiceStep
  <2>1. FinishedJobs' = FinishedJobs
    BY <1>13 DEF TaskWork, FinishedJobs
  <2>2. AcceptedJobs' = AcceptedJobs
    BY <1>0, <1>13, HandsAlike DEF TaskWork, Holding, Waiting, Starting
  <2> QED
    BY <2>1, <2>2 DEF ServiceStep
<1>14. ASSUME NEW t \in Tasks, TaskDrop(t) PROVE ServiceStep
  <2>1. FinishedJobs' = FinishedJobs
    BY <1>14 DEF TaskDrop, FinishedJobs
  <2>2. AcceptedJobs' = AcceptedJobs
    BY <1>0, <1>14, HandsAlike DEF TaskDrop, Holding, Waiting, Starting
  <2> QED
    BY <2>1, <2>2 DEF ServiceStep
<1>15. ASSUME NEW t \in Tasks, TaskFinish(t) PROVE ServiceStep
  <2>1. /\ Holding(t) /\ queue' = queue /\ loop' = loop
        /\ st' = [st EXCEPT ![hand[t]] = "done"]
        /\ pc' = [pc EXCEPT ![t] = "take"]
    BY <1>15 DEF TaskFinish, Holding
  <2>2. AcceptedJobs = <<hand[t]>> \o queue /\ hand[t] \in Jobs /\ ~Starting
    BY <2>1, AcceptedIs
  <2>3. AcceptedJobs # <<>> /\ Tail(AcceptedJobs) = queue /\ Head(AcceptedJobs) = hand[t]
    BY <1>0, <2>2, HandFirst
  <2>4. \A u \in Tasks : ~Holding(u)'
    BY <1>0, <2>1 DEF Holding, RunnerInv, OneTask, Exists
  <2>5. AcceptedJobs' = queue
    BY <2>1, <2>2, <2>4, AcceptedIsNext DEF Waiting, Starting
  <2>6. FinishedJobs' = FinishedJobs \cup {hand[t]}
    BY <1>0, <2>1, <2>2 DEF FinishedJobs
  <2> QED
    BY <2>3, <2>5, <2>6 DEF ServiceStep
<1>16. CASE UNCHANGED vars
  <2>1. FinishedJobs' = FinishedJobs
    BY <1>16 DEF vars, FinishedJobs
  <2>2. AcceptedJobs' = AcceptedJobs
    BY <1>16, HandsAlike DEF vars, Holding, Waiting, Starting
  <2> QED
    BY <2>1, <2>2 DEF ServiceStep
<1> QED
  BY <1>1, <1>2, <1>3, <1>4, <1>5, <1>6, <1>7, <1>8, <1>9, <1>10, <1>11, <1>12, <1>13,
     <1>14, <1>15, <1>16 DEF Next, PostEnd, TaskStep

\* The runner keeps its promise: under either scheduling, for any jobs and any
\* queue length, what it does is what JobService allows.  Accepted jobs are done
\* in order, each once, and none is dropped.
THEOREM RunnerServes == Spec => ServiceSpec
<1>1. Init => Service!SInit
  <2> SUFFICES ASSUME Init PROVE Service!SInit
    OBVIOUS
  <2>1. \A t \in Tasks : ~Holding(t)
    BY DEF Init, Holding
  <2>2. FinishedJobs = {}
    BY DEF Init, FinishedJobs
  <2>3. AcceptedJobs = <<>>
    BY <2>1, InitInv, AcceptedIs DEF Init, Waiting
  <2> QED
    BY <2>2, <2>3 DEF Service!SInit, AcceptedJobs, FinishedJobs, HeldBy, Holding
<1>2. RunnerInv /\ RunnerInv' /\ [Next]_vars => [Service!SNext]_(Service!svars)
  BY StepServes, ServiceStepIsSNext
<1> QED
  BY <1>1, <1>2, RunnerInvariant, PTL DEF Spec, ServiceSpec, Service!SSpec
=============================================================================
