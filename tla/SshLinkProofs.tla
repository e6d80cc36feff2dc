----------------------------- MODULE SshLinkProofs -----------------------------
(***************************************************************************)
(* Theorems about the SSH links, for a pool of any size, rings of any      *)
(* length and any number of questions: a link is never given back while a  *)
(* session holds it, no caller is admitted on another caller's answer, no  *)
(* password text outlives its question, and neither side sleeps on what    *)
(* the other has left for it.                                              *)
(*                                                                         *)
(* The two sides share no lock, so the invariant says what each place in   *)
(* the loop or the task still knows about a word the other one writes.     *)
(***************************************************************************)
EXTENDS SshLink, TLAPS

\* The places where the loop is working on its current session.
Holding == {"pop", "repost", "end", "service", "check", "answer", "waiting",
            "release", "refuse", "letgo"}

\* The loop works on a session that is there, and claims a link that is free.
LoopState ==
  /\ loop.at \in Holding => sess[L] # "none"
  /\ loop.at = "post" /\ loop.arg \in {"service", "waiting"} => sess[L] # "none"
  /\ loop.at = "post" => loop.arg \in {"next", "turn", "service", "waiting"}
  /\ loop.at = "answer" => loop.arg \in {"yes", "no"}
  /\ loop.at = "publish" => loop.new # 0
  /\ loop.new # 0 => /\ loop.at = "publish"
                     /\ link[loop.new].state = "Free"
                     /\ ~link[loop.new].loopDone

\* Between its check and its answer the question stays the loop's: the task moves an
\* answered question only.
LoopAsked ==
  /\ loop.at \in {"check", "answer", "refuse"} => link[L].auth = "asked"
  /\ loop.at \in {"answer", "refuse"} => ~link[L].pass

\* What the task's place says of the link it serves.
TaskState ==
  /\ task.at \in {"handshake", "accept", "ask", "asked"} => link[T].state = "Handshake"
  /\ task.at \in {"opened", "out", "in", "pushed", "loopdone"} => link[T].state = "Open"
  /\ task.at \in {"finish", "closed"} => link[T].state \in {"Start", "Handshake", "Open"}
  /\ task.at = "done" => link[T].state = "Done"
  /\ task.at = "closed" => ~link[T].pass
  /\ task.at = "ask" => link[T].auth = "idle" /\ ~mine[T].authed

\* A link let go of belongs to no session.
LetGoIsFree ==
  \A l \in Links : link[l].state # "Free" /\ link[l].loopDone => sess[l] = "none"

\* The answer in a link is the loop's last to this connection, and an admitted caller
\* has no question open.
AnswerIsTheLoops ==
  \A l \in Links :
    /\ link[l].auth = "yes" => said[l] = "yes"
    /\ mine[l].authed => link[l].auth # "asked"

Knows ==
  /\ LoopState
  /\ LoopAsked
  /\ TaskState
  /\ LetGoIsFree
  /\ AnswerIsTheLoops
  /\ HeldIsNotFree
  /\ PasswordIsWiped
  /\ AdmittedByItsOwnAnswer

LinkInv == TypeOK /\ Knows

-------------------------------------------------------------------------------
(* Types                                                                   *)

\* A word put into a link, of its own type, leaves a link.
LEMMA FlagPut ==
  ASSUME NEW f \in [Links -> LinkType], NEW l \in Links, NEW v \in BOOLEAN
  PROVE  /\ [f EXCEPT ![l].loopDone = v] \in [Links -> LinkType]
         /\ [f EXCEPT ![l].taskDone = v] \in [Links -> LinkType]
         /\ [f EXCEPT ![l].pass = v] \in [Links -> LinkType]
         /\ [f EXCEPT ![l].efd = v] \in [Links -> LinkType]
BY DEF LinkType

\* A link stays a link when one of its counted or named words is put.
LEMMA WordPut ==
  ASSUME NEW f \in [Links -> LinkType], NEW l \in Links
  PROVE  /\ \A v \in States : [f EXCEPT ![l].state = v] \in [Links -> LinkType]
         /\ \A v \in Auths : [f EXCEPT ![l].auth = v] \in [Links -> LinkType]
         /\ \A v \in 0 .. kRing : [f EXCEPT ![l].in = v] \in [Links -> LinkType]
         /\ \A v \in 0 .. kRing : [f EXCEPT ![l].out = v] \in [Links -> LinkType]
BY DEF LinkType

\* Nor is a link that is claimed for a new connection anything else.
LEMMA FreshIsALink ==
  ASSUME link \in [Links -> LinkType], NEW l \in Links, NEW p \in Peers
  PROVE  Fresh(l, p) \in LinkType
BY DEF Fresh, LinkType, Auths

\* The same for the task's own half of a link.
LEMMA MineFlagPut ==
  ASSUME NEW f \in [Links -> MineType], NEW l \in Links, NEW v \in BOOLEAN
  PROVE  /\ [f EXCEPT ![l].kex = v] \in [Links -> MineType]
         /\ [f EXCEPT ![l].authed = v] \in [Links -> MineType]
         /\ [f EXCEPT ![l].held = v] \in [Links -> MineType]
         /\ [f EXCEPT ![l].blocked = v] \in [Links -> MineType]
BY DEF MineType

\* A counted or named word of the task's half put in.
LEMMA MineWordPut ==
  ASSUME NEW f \in [Links -> MineType], NEW l \in Links
  PROVE  /\ \A v \in 0 .. kAsksMax : [f EXCEPT ![l].asks = v] \in [Links -> MineType]
         /\ \A v \in {"no", "hung", "long"} :
               [f EXCEPT ![l].hung = v] \in [Links -> MineType]
BY DEF MineType

\* What the loop's step leaves in the links, and where it leaves the loop.
LEMMA LoopLinks ==
  ASSUME TypeOK, LoopState, Loop \/ Kick
  PROVE  link' \in [Links -> LinkType]
<1>0. /\ L \in Links /\ link \in [Links -> LinkType]
      /\ link[L] \in LinkType /\ loop.arg \in LoopArgs
  BY DEF TypeOK, LoopType, L
<1>1. CASE TurnRead
  BY <1>0, <1>1, FlagPut DEF TurnRead
<1>2. CASE ReadPop
  <2>1. PICK k \in 0 .. link[L].in : link' = [link EXCEPT ![L].in = @ - k]
    BY <1>2 DEF ReadPop
  <2>2. link[L].in \in 0 .. kRing
    BY <1>0 DEF LinkType
  <2>3. link[L].in - k \in 0 .. kRing
    BY <2>1, <2>2, SshLinkAssumption
  <2>. QED
    BY <1>0, <2>1, <2>3, WordPut
<1>3. CASE ReadPost
  <2>1. PICK e \in BOOLEAN : link' = [link EXCEPT ![L].efd = e]
    BY <1>3 DEF ReadPost
  <2>. QED
    BY <1>0, <2>1, FlagPut
<1>4. CASE Write
  <2>1. CASE UNCHANGED link
    BY <1>0, <2>1
  <2>2. CASE \E k \in 0 .. Room(link[L].out) : link' = [link EXCEPT ![L].out = @ + k]
    <3>1. PICK k \in 0 .. Room(link[L].out) : link' = [link EXCEPT ![L].out = @ + k]
      BY <2>2
    <3>2. link[L].out \in 0 .. kRing
      BY <1>0 DEF LinkType
    <3>3. link[L].out + k \in 0 .. kRing
      BY <3>1, <3>2, SshLinkAssumption DEF Room
    <3>. QED
      BY <1>0, <3>1, <3>3, WordPut
  <2>. QED
    BY <2>1, <2>2, <1>4 DEF Write
<1>5. CASE AnswerWipe
  BY <1>0, <1>5, FlagPut DEF AnswerWipe
<1>6. CASE Answer
  <2>1. loop.arg \in Auths
    BY <1>6 DEF Answer, LoopAt, LoopState, Auths
  <2>. QED
    BY <1>0, <1>6, <2>1, WordPut DEF Answer
<1>7. CASE Release
  <2>1. CASE UNCHANGED link
    BY <1>0, <2>1
  <2>2. CASE link' = [link EXCEPT ![L].pass = FALSE]
    BY <1>0, <2>2, FlagPut
  <2>. QED
    BY <2>1, <2>2, <1>7 DEF Release
<1>8. CASE ReleaseNo
  BY <1>0, <1>8, WordPut DEF ReleaseNo, Auths
<1>9. CASE LetGo
  BY <1>0, <1>9, FlagPut DEF LetGo
<1>10. CASE ClaimStart
  <2>1. loop.new \in Links
    BY <1>10 DEF ClaimStart, LoopAt, LoopState, TypeOK, LoopType, Links
  <2>. QED
    BY <1>0, <1>10, <2>1, WordPut DEF ClaimStart, States
<1>11. CASE TurnOver \/ ReadEnd \/ ServiceOpen \/ WaitAsked \/ Waiting \/ Post \/ Kick
  BY <1>0, <1>11 DEF TurnOver, ReadEnd, ServiceOpen, WaitAsked, Waiting, Post, Kick
<1>. QED
  BY <1>1, <1>2, <1>3, <1>4, <1>5, <1>6, <1>7, <1>8, <1>9, <1>10, <1>11 DEF Loop

\* The loop moves from one of its places to another, and its sessions keep their types.
LEMMA LoopMoves ==
  ASSUME TypeOK, LoopState, Loop \/ Kick
  PROVE  /\ loop' \in LoopType
         /\ sess' \in [Links -> {"none", "wait", "up"}]
         /\ said' \in [Links -> {"none", "yes", "no"}]
<1>a. L \in Links /\ (L % kMax) + 1 \in Links /\ loop.arg \in LoopArgs
  BY SshLinkAssumption DEF TypeOK, LoopType, L, Links
<1>b. ASSUME NEW a \in LoopPlaces, NEW x \in LoopArgs, GoTo(a, x)
      PROVE  loop' \in LoopType
  BY <1>b DEF TypeOK, LoopType, GoTo
<1>c. ASSUME NextTurn
      PROVE  loop' \in LoopType
  BY <1>a, <1>c DEF TypeOK, LoopType, NextTurn, LoopPlaces, LoopArgs
<1>. USE <1>a, <1>b, <1>c DEF LoopPlaces, LoopArgs, LoopState, LoopAt, TypeOK
<1>1. CASE TurnRead
  BY <1>1 DEF TurnRead
<1>2. CASE TurnOver
  BY <1>2 DEF TurnOver
<1>3. CASE ReadPop
  BY <1>3 DEF ReadPop
<1>4. CASE ReadPost
  BY <1>4 DEF ReadPost
<1>5. CASE ReadEnd
  BY <1>5 DEF ReadEnd
<1>6. CASE ServiceOpen
  BY <1>6 DEF ServiceOpen, Serviced
<1>7. CASE Write
  BY <1>7 DEF Write, Serviced
<1>8. CASE WaitAsked
  BY <1>8 DEF WaitAsked, Serviced
<1>9. CASE AnswerWipe
  BY <1>9 DEF AnswerWipe
<1>10. CASE Answer
  BY <1>10 DEF Answer
<1>11. CASE Waiting
  BY <1>11 DEF Waiting
<1>12. CASE Release
  BY <1>12 DEF Release
<1>13. CASE ReleaseNo
  BY <1>13 DEF ReleaseNo
<1>14. CASE LetGo
  BY <1>14 DEF LetGo
<1>15. CASE Post
  BY <1>15 DEF Post
<1>16. CASE Kick
  BY <1>16 DEF Kick
<1>17. CASE ClaimStart
  <2>1. 0 \in 0 .. kMax
    BY SshLinkAssumption
  <2>2. loop' = [loop EXCEPT !.at = "post", !.arg = "turn", !.new = 0]
    BY <1>17 DEF ClaimStart
  <2>3. loop' \in LoopType
    BY <2>1, <2>2 DEF LoopType
  <2>. QED
    BY <1>17, <2>3 DEF ClaimStart
<1>. QED
  BY <1>1, <1>2, <1>3, <1>4, <1>5, <1>6, <1>7, <1>8, <1>9, <1>10, <1>11, <1>12, <1>13,
     <1>14, <1>15, <1>16, <1>17 DEF Loop

\* The same for the task.
LEMMA TaskLinks ==
  ASSUME TypeOK, Task
  PROVE  link' \in [Links -> LinkType]
<1>0. /\ T \in Links /\ link \in [Links -> LinkType]
      /\ 0 \in 0 .. kRing
      /\ link[T].in \in 0 .. kRing
      /\ link[T].out \in 0 .. kRing
  BY SshLinkAssumption DEF TypeOK, TaskType, LinkType, T
<1>. USE DEF States, Auths
<1>1. CASE ServeStart
  <2>1. CASE UNCHANGED link
    BY <1>0, <2>1
  <2>2. CASE link' = [link EXCEPT ![T].state = "Handshake", ![T].in = 0, ![T].out = 0]
    <3>1. [link EXCEPT ![T].state = "Handshake"] \in [Links -> LinkType]
      BY <1>0, WordPut
    <3>2. [link EXCEPT ![T].state = "Handshake", ![T].in = 0] \in [Links -> LinkType]
      BY <1>0, <3>1, WordPut
    <3>. QED
      BY <1>0, <2>2, <3>2, WordPut
  <2>. QED
    BY <2>1, <2>2, <1>1 DEF ServeStart
<1>2. CASE Reclaim
  <2>1. [link EXCEPT ![T].in = 0] \in [Links -> LinkType]
    BY <1>0, WordPut
  <2>2. [link EXCEPT ![T].in = 0, ![T].out = 0] \in [Links -> LinkType]
    BY <1>0, <2>1, WordPut
  <2>. QED
    BY <1>0, <1>2, <2>2, WordPut DEF Reclaim
<1>3. CASE AuthAnswered
  BY <1>0, <1>3, WordPut DEF AuthAnswered
<1>4. CASE AuthAsk
  <2>1. CASE UNCHANGED link
    BY <1>0, <2>1
  <2>2. CASE \E text \in BOOLEAN : link' = [link EXCEPT ![T].pass = text]
    <3>1. PICK text \in BOOLEAN : link' = [link EXCEPT ![T].pass = text]
      BY <2>2
    <3>. QED
      BY <1>0, <3>1, FlagPut
  <2>. QED
    BY <2>1, <2>2, <1>4 DEF AuthAsk
<1>5. CASE AuthPublish
  BY <1>0, <1>5, WordPut DEF AuthPublish
<1>6. CASE AuthPost \/ OpenPost \/ PumpPost \/ FinishPost
  <2>1. link' = [link EXCEPT ![T].efd = TRUE]
    BY <1>6 DEF AuthPost, OpenPost, PumpPost, FinishPost
  <2>. QED
    BY <1>0, <2>1, FlagPut
<1>7. CASE Opened
  BY <1>0, <1>7, WordPut DEF Opened
<1>8. CASE PumpOut
  <2>1. CASE UNCHANGED link
    BY <1>0, <2>1
  <2>2. CASE \E k \in 0 .. link[T].out : link' = [link EXCEPT ![T].out = @ - k]
    <3>1. PICK k \in 0 .. link[T].out : link' = [link EXCEPT ![T].out = @ - k]
      BY <2>2
    <3>2. link[T].out - k \in 0 .. kRing
      BY <1>0, <3>1, SshLinkAssumption
    <3>. QED
      BY <1>0, <3>1, <3>2, WordPut
  <2>. QED
    BY <2>1, <2>2, <1>8 DEF PumpOut
<1>9. CASE PumpPush
  <2>1. link[T].in + 1 \in 0 .. kRing
    BY <1>0, <1>9, SshLinkAssumption DEF PumpPush, Room
  <2>. QED
    BY <1>0, <1>9, <2>1, WordPut DEF PumpPush
<1>10. CASE Finish
  BY <1>0, <1>10, FlagPut DEF Finish
<1>11. CASE FinishTold
  <2>1. [link EXCEPT ![T].taskDone = TRUE] \in [Links -> LinkType]
    BY <1>0, FlagPut
  <2>. QED
    BY <1>0, <1>11, <2>1, WordPut DEF FinishTold
<1>12. CASE UNCHANGED link
  BY <1>0, <1>12
<1>. QED
  BY <1>1, <1>2, <1>3, <1>4, <1>5, <1>6, <1>7, <1>8, <1>9, <1>10, <1>11, <1>12
     DEF Task, Look, Select, ServeIdle, Handshake, KeyExchange, Rekey, AcceptReturns, PumpRead,
         PumpLoopDone

\* What the task keeps of a link for itself keeps its type at every step it takes.
LEMMA TaskMine ==
  ASSUME TypeOK, Task
  PROVE  mine' \in [Links -> MineType]
<1>0. /\ T \in Links /\ mine \in [Links -> MineType]
      /\ mine[T].asks \in 0 .. kAsksMax
      /\ mine[T].hung \in {"no", "hung", "long"}
  BY DEF TypeOK, TaskType, MineType, T
<1>1. CASE Reclaim
  <2>1. [mine EXCEPT ![T].blocked = FALSE] \in [Links -> MineType]
    BY <1>0, MineFlagPut
  <2>. QED
    BY <1>0, <1>1, <2>1, MineWordPut DEF Reclaim
<1>2. CASE KeyExchange
  BY <1>0, <1>2, MineFlagPut DEF KeyExchange
<1>3. CASE AuthAnswered
  <2>1. CASE UNCHANGED mine
    BY <1>0, <2>1
  <2>2. CASE mine' = [mine EXCEPT ![T].authed = TRUE]
    BY <1>0, <2>2, MineFlagPut
  <2>. QED
    BY <2>1, <2>2, <1>3 DEF AuthAnswered
<1>4. CASE AuthAsk
  <2>1. CASE mine[T].asks = kAsksMax
    BY <1>0, <1>4, <2>1 DEF AuthAsk
  <2>2. CASE mine[T].asks # kAsksMax
    <3>1. mine[T].asks + 1 \in 0 .. kAsksMax
      BY <1>0, <2>2, SshLinkAssumption
    <3>2. mine' = [mine EXCEPT ![T].asks = @ + 1]
      BY <1>4, <2>2 DEF AuthAsk
    <3>. QED
      BY <1>0, <3>1, <3>2, MineWordPut
  <2>. QED
    BY <2>1, <2>2
<1>5. CASE PumpOut
  <2>1. CASE UNCHANGED mine
    BY <1>0, <2>1
  <2>2. CASE \E full \in BOOLEAN : mine' = [mine EXCEPT ![T].blocked = full]
    <3>1. PICK full \in BOOLEAN : mine' = [mine EXCEPT ![T].blocked = full]
      BY <2>2
    <3>. QED
      BY <1>0, <3>1, MineFlagPut
  <2>. QED
    BY <2>1, <2>2, <1>5 DEF PumpOut
<1>6. CASE PumpRead \/ PumpPush
  <2>1. CASE UNCHANGED mine
    BY <1>0, <2>1
  <2>2. CASE \E v \in BOOLEAN : mine' = [mine EXCEPT ![T].held = v]
    <3>1. PICK v \in BOOLEAN : mine' = [mine EXCEPT ![T].held = v]
      BY <2>2
    <3>. QED
      BY <1>0, <3>1, MineFlagPut
  <2>. QED
    BY <2>1, <2>2, <1>6 DEF PumpRead, PumpPush
<1>7. CASE PumpLoopDone
  <2>1. CASE UNCHANGED mine
    BY <1>0, <2>1
  <2>2. CASE mine' = [mine EXCEPT ![T].hung = IF @ = "no" THEN "hung" ELSE @]
    BY <1>0, <2>2, MineWordPut
  <2>. QED
    BY <2>1, <2>2, <1>7 DEF PumpLoopDone
<1>8. CASE Finish
  <2>1. [mine EXCEPT ![T].kex = FALSE] \in [Links -> MineType]
    BY <1>0, MineFlagPut
  <2>. QED
    BY <1>0, <1>8, <2>1, MineFlagPut DEF Finish
<1>9. CASE UNCHANGED mine
  BY <1>0, <1>9
<1>. QED
  BY <1>1, <1>2, <1>3, <1>4, <1>5, <1>6, <1>7, <1>8, <1>9
     DEF Task, Look, Select, ServeStart, ServeIdle, Handshake, AcceptReturns, AuthPublish,
         AuthPost, Opened, OpenPost, PumpPost, FinishTold, FinishPost, Rekey

\* The task moves from one of its places to another.
LEMMA TaskMoves ==
  ASSUME TypeOK, Task
  PROVE  task' \in TaskType
<1>1. T \in Links /\ (T % kMax) + 1 \in Links
  BY SshLinkAssumption DEF TypeOK, TaskType, T, Links
<1>2. ASSUME NEW a \in TaskPlaces, task' = [task EXCEPT !.at = a]
      PROVE  task' \in TaskType
  BY <1>2 DEF TypeOK, TaskType
<1>3. ASSUME NEW more \in BOOLEAN, task' = NextPass(more)
      PROVE  task' \in TaskType
  BY <1>3, SshLinkAssumption DEF TaskType, NextPass, TaskPlaces, Links
<1>4. ASSUME Next1
      PROVE  task' \in TaskType
  <2>1. CASE T < kMax /\ task' = [task EXCEPT !.at = "serve", !.i = T + 1]
    <3>1. T + 1 \in Links /\ "serve" \in TaskPlaces
      BY <1>1, <2>1, SshLinkAssumption DEF Links, TaskPlaces
    <3>. QED
      BY <2>1, <3>1 DEF TypeOK, TaskType
  <2>2. CASE task' = NextPass(TRUE) \/ task' = NextPass(FALSE)
    BY <2>2, <1>3
  <2>. QED
    BY <1>4, <2>1, <2>2 DEF Next1
<1>5. CASE Look
  <2>1. PICK b \in BOOLEAN, a \in {"look", "select"} :
          task' = [task EXCEPT !.busy = b, !.at = a, !.i = (T % kMax) + 1]
    BY <1>5 DEF Look
  <2>. QED
    BY <1>1, <2>1 DEF TypeOK, TaskType, TaskPlaces
<1>6. CASE Select
  BY <1>6, SshLinkAssumption DEF Select, TaskType, TaskPlaces, Links
<1>7. CASE KeyExchange \/ Rekey
  BY <1>7 DEF KeyExchange, Rekey, TypeOK, TaskType
<1>8. CASE UNCHANGED task \/ Next1
  BY <1>4, <1>8 DEF TypeOK
<1>9. CASE \E a \in TaskPlaces : Step(a)
  BY <1>2, <1>9 DEF Step
<1>10. CASE Task /\ ~Look /\ ~Select /\ ~KeyExchange /\ ~Rekey
  <2>1. UNCHANGED task \/ Next1 \/ \E a \in TaskPlaces : Step(a)
    BY <1>10 DEF Task, ServeStart, ServeIdle, Reclaim, Handshake, AcceptReturns,
         AuthAnswered, AuthAsk, AuthPublish, AuthPost, Opened, OpenPost, PumpOut, PumpRead,
         PumpPush, PumpPost, PumpLoopDone, Finish, FinishTold, FinishPost, TaskPlaces
  <2>. QED
    BY <2>1, <1>8, <1>9
<1>. QED
  BY <1>5, <1>6, <1>7, <1>10

-------------------------------------------------------------------------------
(* What each side knows                                                    *)

\* The task leaves a link for the next one to serve or to look at.
LEMMA NextPlace ==
  TypeOK /\ Next1 => task'.at \in {"serve", "look"}
<1>1. ASSUME TypeOK, task' = [task EXCEPT !.at = "serve", !.i = T + 1]
      PROVE  task'.at = "serve"
  BY <1>1 DEF TypeOK, TaskType
<1>2. ASSUME NEW more, task' = NextPass(more)
      PROVE  task'.at = "look"
  BY <1>2 DEF NextPass
<1>. QED
  BY <1>1, <1>2 DEF Next1

\* What each side still knows of the other's words stays true at a step of the loop,
\* and when an operator ends a session.
LEMMA LoopKeeps ==
  ASSUME LinkInv, Loop \/ Kick
  PROVE  Knows'
<1>. USE NextPlace DEF LinkInv, Knows, TypeOK, LinkType, MineType, LoopType, TaskType, Holding,
         LoopState, LoopAsked, TaskState, LetGoIsFree, AnswerIsTheLoops, HeldIsNotFree,
         PasswordIsWiped, AdmittedByItsOwnAnswer, Publishing, L, T, LoopAt, TaskAt, GoTo,
         NextTurn, Step
<1>1. CASE TurnRead
  BY <1>1 DEF TurnRead
<1>2. CASE TurnOver
  BY <1>2 DEF TurnOver
<1>3. CASE ReadPop
  BY <1>3 DEF ReadPop
<1>4. CASE ReadPost
  <2>1. PICK e \in BOOLEAN : link' = [link EXCEPT ![L].efd = e]
    BY <1>4 DEF ReadPost, ReadMore
  <2>2. CASE GoTo("post", "service")
    BY <2>1, <2>2, <1>4 DEF ReadPost, ReadMore
  <2>3. CASE GoTo("end", "none")
    BY <2>1, <2>3, <1>4 DEF ReadPost, ReadMore
  <2>. QED
    BY <2>2, <2>3, <1>4 DEF ReadPost, ReadMore
<1>5. CASE ReadEnd
  <2>1. CASE GoTo("release", "remote")
    BY <2>1, <1>5 DEF ReadEnd
  <2>2. CASE GoTo("service", "none")
    BY <2>2, <1>5 DEF ReadEnd
  <2>. QED
    BY <2>1, <2>2, <1>5 DEF ReadEnd
<1>6. CASE ServiceOpen
  <2>1. CASE GoTo("release", "closed")
    BY <2>1, <1>6 DEF ServiceOpen, Serviced
  <2>2. CASE NextTurn
    BY <2>2, <1>6 DEF ServiceOpen, Serviced
  <2>. QED
    BY <2>1, <2>2, <1>6 DEF ServiceOpen, Serviced
<1>7. CASE Write
  <2>1. CASE GoTo("post", "next")
    BY <2>1, <1>7 DEF Write, Serviced
  <2>2. CASE NextTurn
    BY <2>2, <1>7 DEF Write, Serviced
  <2>. QED
    BY <2>1, <2>2, <1>7 DEF Write, Serviced
<1>8. CASE WaitAsked
  BY <1>8 DEF WaitAsked, Serviced
<1>9. CASE AnswerWipe
  BY <1>9 DEF AnswerWipe
<1>10. CASE Answer
  BY <1>10 DEF Answer
<1>11. CASE Waiting
  <2>1. CASE GoTo("release", "closed")
    BY <2>1, <1>11 DEF Waiting
  <2>2. CASE NextTurn
    BY <2>2, <1>11 DEF Waiting
  <2>. QED
    BY <2>1, <2>2, <1>11 DEF Waiting
<1>12. CASE Release
  <2>1. CASE 
         /\ link[L].auth = "asked"
         /\ link' = [link EXCEPT ![L].pass = FALSE]
         /\ GoTo("refuse", "none")
    BY <2>1, <1>12 DEF Release
  <2>2. CASE 
         /\ link[L].auth # "asked"
         /\ UNCHANGED link
         /\ GoTo("letgo", "none")
    BY <2>2, <1>12 DEF Release
  <2>. QED
    BY <2>1, <2>2, <1>12 DEF Release
<1>13. CASE ReleaseNo
  BY <1>13 DEF ReleaseNo
<1>14. CASE LetGo
  BY <1>14 DEF LetGo
<1>15. CASE ClaimStart
  BY <1>15 DEF ClaimStart
<1>16. CASE Post
  <2>1. CASE NextTurn
    BY <2>1, <1>16 DEF Post
  <2>2. CASE loop.arg # "next" /\ GoTo(loop.arg, "none")
    BY <2>2, <1>16 DEF Post
  <2>. QED
    BY <2>1, <2>2, <1>16 DEF Post
<1>17. CASE Kick
  BY <1>17 DEF Kick
<1>. QED
  BY <1>1, <1>2, <1>3, <1>4, <1>5, <1>6, <1>7, <1>8, <1>9, <1>10, <1>11, <1>12, <1>13,
     <1>14, <1>15, <1>16, <1>17 DEF Loop

\* And at a step of the task.
LEMMA TaskKeeps ==
  ASSUME LinkInv, Task
  PROVE  Knows'
<1>. USE NextPlace DEF LinkInv, Knows, TypeOK, LinkType, MineType, LoopType, TaskType, Holding,
         LoopState, LoopAsked, TaskState, LetGoIsFree, AnswerIsTheLoops, HeldIsNotFree,
         PasswordIsWiped, AdmittedByItsOwnAnswer, Publishing, L, T, LoopAt, TaskAt, GoTo,
         NextTurn, Step
<1>1. CASE Look
  BY <1>1 DEF Look
<1>2. CASE Select
  BY <1>2 DEF Select
<1>3. CASE ServeStart
  <2>1. CASE Step("finish") /\ UNCHANGED link
    BY <2>1, <1>3 DEF ServeStart
  <2>2. CASE /\ Step("handshake")
             /\ link' = [link EXCEPT ![T].state = "Handshake", ![T].in = 0, ![T].out = 0]
    <3>1. /\ \A l \in Links \ {T} : link'[l] = link[l]
          /\ link'[T].state = "Handshake"
          /\ link'[T].loopDone = link[T].loopDone
          /\ link'[T].auth = link[T].auth
          /\ link'[T].pass = link[T].pass
      BY <2>2
    <3>2. UNCHANGED <<mine, sess, said, loop>> /\ link[T].state = "Start"
      BY <1>3 DEF ServeStart
    <3>3. loop.new # 0 => loop.new \in Links \ {T}
      BY <3>2 DEF Links
    <3>4. LoopState' /\ LoopAsked'
      BY <3>1, <3>2, <3>3, <2>2
    <3>5. TaskState' /\ LetGoIsFree'
      BY <3>1, <3>2, <3>3, <2>2
    <3>6. AnswerIsTheLoops' /\ HeldIsNotFree'
      BY <3>1, <3>2, <3>3, <2>2
    <3>7. PasswordIsWiped' /\ AdmittedByItsOwnAnswer'
      BY <3>1, <3>2, <3>3, <2>2
    <3>. QED
      BY <3>4, <3>5, <3>6, <3>7
  <2>. QED
    BY <2>1, <2>2, <1>3 DEF ServeStart
<1>4. CASE ServeIdle
  BY <1>4 DEF ServeIdle
<1>5. CASE Reclaim
  <2>1. /\ \A l \in Links \ {T} : link'[l] = link[l]
        /\ link'[T].state = "Free"
        /\ link'[T].loopDone = link[T].loopDone
        /\ link'[T].auth = link[T].auth
        /\ link'[T].pass = link[T].pass
    BY <1>5 DEF Reclaim
  <2>2. \A l \in Links : mine'[l].authed = mine[l].authed
    BY <1>5 DEF Reclaim
  <2>3. UNCHANGED <<sess, said, loop>> /\ link[T].state = "Done" /\ link[T].loopDone
    BY <1>5 DEF Reclaim, Reclaimable
  <2>4. task'.at \in {"serve", "look"}
    BY <1>5 DEF Reclaim
  <2>5. loop.new # 0 => loop.new \in Links \ {T}
    BY <2>3 DEF Links
  <2>6. LoopState' /\ LoopAsked'
    BY <2>1, <2>2, <2>3, <2>4, <2>5
  <2>7. TaskState' /\ LetGoIsFree'
    BY <2>1, <2>2, <2>3, <2>4, <2>5
  <2>8. AnswerIsTheLoops'
    BY <2>1, <2>2, <2>3, <2>4, <2>5
  <2>9. HeldIsNotFree'
    BY <2>1, <2>2, <2>3, <2>4, <2>5
  <2>10. PasswordIsWiped' /\ AdmittedByItsOwnAnswer'
    BY <2>1, <2>2, <2>3, <2>4, <2>5
  <2>. QED
    BY <2>6, <2>7, <2>8, <2>9, <2>10
<1>6. CASE Handshake
  <2>1. CASE Step("finish")
    BY <2>1, <1>6 DEF Handshake
  <2>2. CASE Step("accept")
    BY <2>2, <1>6 DEF Handshake
  <2>. QED
    BY <2>1, <2>2, <1>6 DEF Handshake
<1>7. CASE KeyExchange
  BY <1>7 DEF KeyExchange
<1>23. CASE Rekey
  BY <1>23 DEF Rekey
<1>8. CASE AcceptReturns
  <2>1. CASE Next1
    BY <2>1, <1>8 DEF AcceptReturns
  <2>2. CASE Step("finish")
    BY <2>2, <1>8 DEF AcceptReturns
  <2>. QED
    BY <2>1, <2>2, <1>8 DEF AcceptReturns
<1>9. CASE AuthAnswered
  <2>1. CASE link[T].auth = "yes"
    <3>1. /\ \A l \in Links \ {T} : link'[l] = link[l] /\ mine'[l].authed = mine[l].authed
          /\ link'[T].state = link[T].state
          /\ link'[T].loopDone = link[T].loopDone
          /\ link'[T].auth = "idle"
          /\ link'[T].pass = link[T].pass
      BY <2>1, <1>9 DEF AuthAnswered
    <3>2. UNCHANGED <<sess, said, loop, task>> /\ task.at = "accept"
      BY <2>1, <1>9 DEF AuthAnswered
    <3>3. loop.new # 0 => loop.new \in Links
      BY DEF Links
    <3>4. link[T].state = "Handshake"
      BY <3>2
    <3>5. LoopState'
      BY <2>1, <3>1, <3>2, <3>3, <3>4
    <3>6. LoopAsked'
      BY <2>1, <3>1, <3>2, <3>3, <3>4
    <3>7. TaskState'
      BY <2>1, <3>1, <3>2, <3>3, <3>4
    <3>8. LetGoIsFree'
      BY <2>1, <3>1, <3>2, <3>3, <3>4
    <3>9. AnswerIsTheLoops'
      BY <2>1, <3>1, <3>2, <3>3, <3>4
    <3>10. HeldIsNotFree'
      BY <2>1, <3>1, <3>2, <3>3, <3>4
    <3>11. PasswordIsWiped'
      BY <2>1, <3>1, <3>2, <3>4
    <3>12. AdmittedByItsOwnAnswer'
      BY <2>1, <3>1, <3>2
    <3>. QED
      BY <3>5, <3>6, <3>7, <3>8, <3>9, <3>10, <3>11, <3>12
  <2>2. CASE link[T].auth # "yes" /\ UNCHANGED task
    BY <2>2, <1>9 DEF AuthAnswered
  <2>3. CASE link[T].auth # "yes" /\ Step("finish")
    BY <2>3, <1>9 DEF AuthAnswered
  <2>. QED
    BY <2>1, <2>2, <2>3, <1>9 DEF AuthAnswered
<1>10. CASE AuthAsk
  <2>1. CASE UNCHANGED <<link, mine>>
    BY <2>1, <1>10 DEF AuthAsk
  <2>2. CASE mine[T].asks # kAsksMax
    <3>1. /\ \A l \in Links : mine'[l].authed = mine[l].authed
          /\ UNCHANGED <<sess, said, loop>>
          /\ task.at = "accept"
          /\ ~mine[T].authed
      BY <2>2, <1>10 DEF AuthAsk
    <3>2. CASE UNCHANGED <<link, task>>
      BY <3>1, <3>2
    <3>3. CASE \E text \in BOOLEAN : link' = [link EXCEPT ![T].pass = text] /\ Step("ask")
      <4>1. PICK text \in BOOLEAN : link' = [link EXCEPT ![T].pass = text] /\ Step("ask")
        BY <3>3
      <4>2. link[T].auth = "idle"
        BY <1>10 DEF AuthAsk
      <4>. QED
        BY <3>1, <4>1, <4>2
    <3>. QED
      BY <2>2, <3>2, <3>3, <1>10 DEF AuthAsk
  <2>. QED
    BY <2>1, <2>2, <1>10 DEF AuthAsk
<1>11. CASE AuthPublish
  BY <1>11 DEF AuthPublish
<1>12. CASE AuthPost
  BY <1>12 DEF AuthPost
<1>13. CASE Opened
  BY <1>13 DEF Opened
<1>14. CASE OpenPost
  BY <1>14 DEF OpenPost
<1>15. CASE PumpOut
  <2>1. CASE Step("finish") /\ UNCHANGED <<link, mine>>
    BY <2>1, <1>15 DEF PumpOut
  <2>2. CASE Step("in")
    <3>1. PICK k \in Nat, full \in BOOLEAN :
            /\ link' = [link EXCEPT ![T].out = @ - k]
            /\ mine' = [mine EXCEPT ![T].blocked = full]
      BY <2>2, <1>15 DEF PumpOut
    <3>2. /\ \A l \in Links :
               /\ mine'[l].authed = mine[l].authed
               /\ link'[l].state = link[l].state /\ link'[l].loopDone = link[l].loopDone
               /\ link'[l].auth = link[l].auth /\ link'[l].pass = link[l].pass
          /\ UNCHANGED <<sess, said, loop>>
          /\ link[T].state = "Open"
      BY <3>1, <1>15 DEF PumpOut
    <3>3. loop.new # 0 => loop.new \in Links
      BY DEF Links
    <3>4. LoopState' /\ LoopAsked' /\ TaskState'
      BY <2>2, <3>2, <3>3
    <3>5. LetGoIsFree' /\ AnswerIsTheLoops' /\ HeldIsNotFree'
      BY <2>2, <3>2
    <3>6. PasswordIsWiped' /\ AdmittedByItsOwnAnswer'
      BY <2>2, <3>2, <1>15 DEF PumpOut
    <3>. QED
      BY <3>4, <3>5, <3>6
  <2>. QED
    BY <2>1, <2>2, <1>15 DEF PumpOut
<1>16. CASE PumpRead
  <2>1. CASE UNCHANGED task
    <3>1. CASE UNCHANGED mine
      BY <3>1, <2>1, <1>16 DEF PumpRead
    <3>2. CASE mine' = [mine EXCEPT ![T].held = TRUE]
      BY <3>2, <2>1, <1>16 DEF PumpRead
    <3>. QED
      BY <3>1, <3>2, <1>16 DEF PumpRead
  <2>2. CASE Step("finish")
    BY <2>2, <1>16 DEF PumpRead
  <2>3. CASE Step("loopdone")
    BY <2>3, <1>16 DEF PumpRead
  <2>. QED
    BY <2>1, <2>2, <2>3, <1>16 DEF PumpRead
<1>17. CASE PumpPush
  BY <1>17 DEF PumpPush
<1>18. CASE PumpPost
  <2>1. CASE Step("loopdone")
    BY <2>1, <1>18 DEF PumpPost
  <2>2. CASE Step("finish")
    BY <2>2, <1>18 DEF PumpPost
  <2>. QED
    BY <2>1, <2>2, <1>18 DEF PumpPost
<1>19. CASE PumpLoopDone
  <2>1. \A l \in Links : mine'[l].authed = mine[l].authed
    <3>1. CASE ~link[T].loopDone
      BY <3>1, <1>19 DEF PumpLoopDone
    <3>2. CASE link[T].loopDone
      BY <3>2, <1>19 DEF PumpLoopDone
    <3>. QED
      BY <3>1, <3>2
  <2>2. UNCHANGED <<link, sess, said, loop>> /\ task.at = "loopdone"
    BY <1>19 DEF PumpLoopDone
  <2>3. CASE Step("finish")
    BY <2>1, <2>2, <2>3
  <2>4. CASE Next1
    BY <2>1, <2>2, <2>4
  <2>. QED
    BY <2>3, <2>4, <1>19 DEF PumpLoopDone
<1>20. CASE Finish
  BY <1>20 DEF Finish
<1>21. CASE FinishTold
  <2>1. /\ \A l \in Links \ {T} : link'[l] = link[l]
        /\ link'[T].state = "Done"
        /\ link'[T].loopDone = link[T].loopDone
        /\ link'[T].auth = link[T].auth
        /\ link'[T].pass = link[T].pass
    BY <1>21 DEF FinishTold
  <2>2. UNCHANGED <<mine, sess, said, loop>> /\ task.at = "closed" /\ Step("done")
    BY <1>21 DEF FinishTold
  <2>3. loop.new # 0 => loop.new \in Links \ {T}
    BY <2>2 DEF Links
  <2>4. LoopState' /\ LoopAsked'
    BY <2>1, <2>2, <2>3
  <2>5. TaskState' /\ LetGoIsFree'
    BY <2>1, <2>2, <2>3
  <2>6. AnswerIsTheLoops'
    BY <2>1, <2>2, <2>3
  <2>7. HeldIsNotFree'
    BY <2>1, <2>2, <2>3
  <2>8. PasswordIsWiped' /\ AdmittedByItsOwnAnswer'
    BY <2>1, <2>2, <2>3
  <2>. QED
    BY <2>4, <2>5, <2>6, <2>7, <2>8
<1>22. CASE FinishPost
  BY <1>22 DEF FinishPost
<1>. QED
  BY <1>1, <1>2, <1>3, <1>4, <1>5, <1>6, <1>7, <1>8, <1>9, <1>10, <1>11, <1>12, <1>13,
     <1>14, <1>15, <1>16, <1>17, <1>18, <1>19, <1>20, <1>21, <1>22, <1>23 DEF Task

\* A claim takes a free link: nobody's, and nothing of its last caller stays.
LEMMA ClaimKeeps ==
  ASSUME LinkInv, NEW l \in Links, NEW p \in Peers, Claim(l, p)
  PROVE  LinkInv'
<1>. USE DEF LinkInv, Knows
<1>1. /\ link[l].state = "Free"
      /\ \A k \in Links \ {l} : link'[k] = link[k] /\ sess'[k] = sess[k] /\ said'[k] = said[k]
      /\ \A k \in Links \ {l} : mine'[k] = mine[k]
      /\ link'[l] = Fresh(l, p)
      /\ ~mine'[l].authed /\ sess'[l] = "wait" /\ said'[l] = "none"
      /\ loop' = [loop EXCEPT !.at = "publish", !.new = l]
      /\ loop.at = "turn"
      /\ UNCHANGED <<wake, task>>
  BY DEF Claim, Claimable, LoopAt, TypeOK, MineType
<1>2. /\ link'[l].state = "Free"
      /\ ~link'[l].loopDone
      /\ link'[l].auth = "idle"
      /\ ~link'[l].pass
  BY <1>1 DEF Fresh, TypeOK, LinkType
<1>3. TypeOK'
  <2>1. link' \in [Links -> LinkType]
    BY FreshIsALink DEF Claim, TypeOK
  <2>2. mine' \in [Links -> MineType]
    <3>1. 0 \in 0 .. kAsksMax
      BY SshLinkAssumption
    <3>2. [mine EXCEPT ![l].asks = 0] \in [Links -> MineType]
      BY <3>1, MineWordPut DEF TypeOK
    <3>. QED
      BY <3>2, MineFlagPut DEF Claim
  <2>3. loop' \in LoopType
    <3>1. l \in 0 .. kMax /\ "publish" \in LoopPlaces
      BY SshLinkAssumption DEF Links, LoopPlaces
    <3>. QED
      BY <1>1, <3>1 DEF TypeOK, LoopType
  <2>. QED
    BY <1>1, <2>1, <2>2, <2>3 DEF TypeOK, Claim
<1>4. /\ loop'.at = "publish" /\ loop'.new = l /\ loop'.l = loop.l
  BY <1>1 DEF TypeOK, LoopType
<1>5. LoopState' /\ LoopAsked'
  BY <1>2, <1>4 DEF LoopState, LoopAsked, Holding, Links
<1>6. TaskState'
  BY <1>1, <1>2 DEF TaskState, T, TypeOK, TaskType
<1>7. LetGoIsFree' /\ AnswerIsTheLoops'
  BY <1>1, <1>2 DEF LetGoIsFree, AnswerIsTheLoops
<1>8. loop.new = 0
  BY <1>1 DEF LoopState
<1>9. HeldIsNotFree'
  BY <1>1, <1>4, <1>8 DEF HeldIsNotFree, Publishing, Links
<1>10. PasswordIsWiped' /\ AdmittedByItsOwnAnswer'
  BY <1>1, <1>2 DEF PasswordIsWiped, AdmittedByItsOwnAnswer, T
<1>. QED
  BY <1>3, <1>5, <1>6, <1>7, <1>9, <1>10

\* The ten seconds after a hang-up change nothing the invariant speaks of.
LEMMA HungLongKeeps ==
  ASSUME LinkInv, NEW l \in Links, HungLong(l)
  PROVE  LinkInv'
<1>1. /\ \A k \in Links : mine'[k].authed = mine[k].authed
      /\ UNCHANGED <<link, sess, wake, loop, task, said>>
  BY DEF HungLong, LinkInv, TypeOK, MineType
<1>2. mine' \in [Links -> MineType]
  BY MineWordPut DEF HungLong, LinkInv, TypeOK
<1>3. TypeOK'
  BY <1>1, <1>2 DEF LinkInv, TypeOK
<1>4. T \in Links
  BY DEF LinkInv, TypeOK, TaskType, T
<1>5. Knows'
  BY <1>1, <1>4 DEF LinkInv, Knows, LoopState, LoopAsked, TaskState, LetGoIsFree,
     AnswerIsTheLoops, HeldIsNotFree, PasswordIsWiped, AdmittedByItsOwnAnswer, Publishing,
     L, T
<1>. QED
  BY <1>3, <1>5 DEF LinkInv

-------------------------------------------------------------------------------
(* The theorems                                                            *)

\* An empty pool, with the loop and the task at their beginnings.
LEMMA InitIsLinkInv ==
  Init => LinkInv
<1>. SUFFICES ASSUME Init PROVE LinkInv
  OBVIOUS
<1>1. 1 \in Links /\ 0 \in 0 .. kRing /\ 0 \in 0 .. kAsksMax /\ 0 \in 0 .. kMax
  BY SshLinkAssumption DEF Links
<1>2. (CHOOSE p \in Peers : TRUE) \in Peers
  BY SshLinkAssumption
<1>3. TypeOK
  <2>1. link \in [Links -> LinkType]
    BY <1>1, <1>2 DEF Init, LinkType, States, Auths
  <2>2. mine \in [Links -> MineType]
    BY <1>1 DEF Init, MineType
  <2>3. loop \in LoopType
    BY <1>1 DEF Init, LoopType, LoopPlaces, LoopArgs
  <2>4. task \in TaskType
    BY <1>1 DEF Init, TaskType, TaskPlaces
  <2>. QED
    BY <2>1, <2>2, <2>3, <2>4 DEF Init, TypeOK
<1>4. Knows
  BY <1>1 DEF Init, Knows, LoopState, LoopAsked, TaskState, LetGoIsFree, AnswerIsTheLoops,
     HeldIsNotFree, PasswordIsWiped, AdmittedByItsOwnAnswer, Holding
<1>. QED
  BY <1>3, <1>4 DEF LinkInv

\* Every step of either side, of a client or of the board keeps the invariant.
LEMMA NextKeepsLinkInv ==
  LinkInv /\ [Next]_vars => LinkInv'
<1>. SUFFICES ASSUME LinkInv, [Next]_vars PROVE LinkInv'
  OBVIOUS
<1>1. CASE Loop \/ Kick
  <2>1. Knows'
    BY <1>1, LoopKeeps
  <2>2. UNCHANGED <<mine, task>>
    BY <1>1 DEF Loop, TurnRead, TurnOver, ReadPop, ReadPost, ReadEnd, ServiceOpen, Write,
       WaitAsked, AnswerWipe, Answer, Waiting, Release, ReleaseNo, LetGo, ClaimStart, Post,
       Kick
  <2>3. wake' \in BOOLEAN
    BY <1>1 DEF LinkInv, TypeOK, Loop, TurnRead, TurnOver, ReadPop, ReadPost, ReadEnd,
       ServiceOpen, Write, WaitAsked, AnswerWipe, Answer, Waiting, Release, ReleaseNo, LetGo,
       ClaimStart, Post, Kick
  <2>4. TypeOK /\ LoopState
    BY DEF LinkInv, Knows
  <2>. QED
    BY <1>1, <2>1, <2>2, <2>3, <2>4, LoopLinks, LoopMoves DEF LinkInv, TypeOK
<1>2. CASE Task
  <2>1. Knows'
    BY <1>2, TaskKeeps
  <2>2. UNCHANGED <<sess, said, loop>>
    BY <1>2 DEF Task, Look, Select, ServeStart, ServeIdle, Reclaim, Handshake, KeyExchange, Rekey,
       AcceptReturns, AuthAnswered, AuthAsk, AuthPublish, AuthPost, Opened, OpenPost,
       PumpOut, PumpRead, PumpPush, PumpPost, PumpLoopDone, Finish, FinishTold, FinishPost
  <2>3. wake' \in BOOLEAN
    BY <1>2 DEF LinkInv, TypeOK, Task, Look, Select, ServeStart, ServeIdle, Reclaim,
       Handshake, KeyExchange, Rekey, AcceptReturns, AuthAnswered, AuthAsk, AuthPublish, AuthPost,
       Opened, OpenPost, PumpOut, PumpRead, PumpPush, PumpPost, PumpLoopDone, Finish,
       FinishTold, FinishPost
  <2>. QED
    BY <1>2, <2>1, <2>2, <2>3, TaskLinks, TaskMine, TaskMoves DEF LinkInv, TypeOK
<1>3. CASE \E l \in Links : HungLong(l)
  BY <1>3, HungLongKeeps
<1>4. CASE \E l \in Links, p \in Peers : Claim(l, p)
  BY <1>4, ClaimKeeps
<1>5. CASE UNCHANGED vars
  BY <1>5 DEF vars, LinkInv, TypeOK, Knows, LoopState, LoopAsked, TaskState, LetGoIsFree,
     AnswerIsTheLoops, HeldIsNotFree, PasswordIsWiped, AdmittedByItsOwnAnswer, Publishing,
     L, T
<1>. QED
  BY <1>1, <1>2, <1>3, <1>4, <1>5 DEF Next

\* What each place of the loop and of the task knows of the words they share holds in
\* every reachable state.
THEOREM LinkInvariant == Spec => []LinkInv
BY InitIsLinkInv, NextKeepsLinkInv, PTL DEF Spec

\* TypeOK: every word of a link, and every place of the two sides, keeps its type; the
\* rings never hold more than kRing and no connection asks more than kAsksMax questions.
THEOREM TypesHold == Spec => []TypeOK
<1>1. LinkInv => TypeOK
  BY DEF LinkInv
<1>. QED
  BY LinkInvariant, <1>1, PTL

\* HeldIsNotFree (Link::claim, release and reclaim): a link a session holds is not in the
\* pool, for any number of links.
THEOREM HeldLinkIsNotFree == Spec => []HeldIsNotFree
<1>1. LinkInv => HeldIsNotFree
  BY DEF LinkInv, Knows
<1>. QED
  BY LinkInvariant, <1>1, PTL

\* AdmittedByItsOwnAnswer (userAuth and answer): wolfSSH is told yes only on the answer
\* the loop gave to the connection now in the link.
THEOREM AdmittedOnlyOnAYes == Spec => []AdmittedByItsOwnAnswer
<1>1. LinkInv => AdmittedByItsOwnAnswer
  BY DEF LinkInv, Knows
<1>. QED
  BY LinkInvariant, <1>1, PTL

\* PasswordIsWiped (userAuth, answer, release and finish): a link holds a password only
\* while its question is open.
THEOREM PasswordOnlyInAQuestion == Spec => []PasswordIsWiped
<1>1. LinkInv => PasswordIsWiped
  BY DEF LinkInv, Knows
<1>. QED
  BY LinkInvariant, <1>1, PTL

-------------------------------------------------------------------------------
(* Nobody sleeps on the other                                              *)

\* The links the task has looked at since it last served them.
Looked(l) == (task.at = "look" /\ l < T) \/ task.at = "select"

\* What the task has looked at and found nothing to do for still has nothing to do, or the
\* loop has posted g_wake or is about to.
SleepInv ==
  \A l \in Links :
    Looked(l) /\ ~task.busy /\ ~wake /\ ~AboutToPost => ~Handed(l)

\* Keys, or the end of the caller, in a link a session holds: the descriptor is readable,
\* or the loop is between clearing it and posting it again, or the task about to post it.
WokenInv ==
  \A l \in Links :
    /\ link[l].state = "Free" => link[l].in = 0
    /\ sess[l] # "none" /\ (link[l].in > 0 \/ link[l].taskDone) =>
         \/ link[l].efd
         \/ L = l /\ loop.at \in {"pop", "repost"}
         \/ T = l /\ task.at \in {"pushed", "done"}

\* Nothing is handed over but by the words the look reads.
LEMMA HandedSame ==
  ASSUME NEW l \in Links, UNCHANGED mine,
         link'[l].state = link[l].state, link'[l].auth = link[l].auth,
         link'[l].in = link[l].in, link'[l].out = link[l].out,
         link'[l].loopDone = link[l].loopDone
  PROVE  Handed(l)' <=> Handed(l)
BY DEF Handed, Room

\* Whatever the loop hands over, it is about to post g_wake for.
LEMMA LoopHands ==
  ASSUME TypeOK, LoopState, Loop \/ Kick
  PROVE  /\ UNCHANGED <<mine, task>>
         /\ wake => wake'
         /\ AboutToPost => AboutToPost' \/ wake'
         /\ \A l \in Links : Handed(l)' => Handed(l) \/ AboutToPost'
<1>0. /\ L \in Links /\ link \in [Links -> LinkType] /\ loop \in LoopType /\ wake \in BOOLEAN
  BY DEF TypeOK, LoopType, L
<1>a. ASSUME NEW a, NEW x, GoTo(a, x) PROVE loop'.at = a /\ loop'.arg = x
  BY <1>0, <1>a DEF GoTo, LoopType
<1>. USE DEF LoopAt, AboutToPost
<1>1. CASE TurnOver \/ ServiceOpen \/ WaitAsked \/ Waiting \/ Kick
  <2>1. UNCHANGED <<link, mine, task, wake>> /\ ~AboutToPost
    BY <1>1 DEF TurnOver, ServiceOpen, WaitAsked, Waiting, Kick, Serviced
  <2>. QED
    BY <2>1, HandedSame
<1>2. CASE ReadEnd
  <2>1. UNCHANGED <<link, mine, task, wake>> /\ ~AboutToPost
    BY <1>2 DEF ReadEnd
  <2>. QED
    BY <2>1, HandedSame
<1>3. CASE Post
  <2>1. UNCHANGED <<link, mine, task>> /\ wake'
    BY <1>3 DEF Post
  <2>. QED
    BY <2>1, HandedSame
<1>4. CASE TurnRead \/ AnswerWipe \/ Release
  <2>1. UNCHANGED <<mine, task, wake>> /\ ~AboutToPost
    BY <1>4 DEF TurnRead, AnswerWipe, Release
  <2>2. \/ UNCHANGED link
        \/ link' = [link EXCEPT ![L].efd = FALSE] \/ link' = [link EXCEPT ![L].pass = FALSE]
    BY <1>4 DEF TurnRead, AnswerWipe, Release
  <2>3. ASSUME NEW l \in Links
        PROVE  /\ link'[l].state = link[l].state /\ link'[l].auth = link[l].auth
               /\ link'[l].in = link[l].in /\ link'[l].out = link[l].out
               /\ link'[l].loopDone = link[l].loopDone
    BY <1>0, <2>2 DEF LinkType
  <2>. QED
    BY <2>1, <2>3, HandedSame
<1>5. CASE ReadPost
  <2>1. UNCHANGED <<mine, task, wake>>
    BY <1>5 DEF ReadPost
  <2>2. PICK e : link' = [link EXCEPT ![L].efd = e]
    BY <1>5 DEF ReadPost
  <2>3. ASSUME NEW l \in Links
        PROVE  /\ link'[l].state = link[l].state /\ link'[l].auth = link[l].auth
               /\ link'[l].in = link[l].in /\ link'[l].out = link[l].out
               /\ link'[l].loopDone = link[l].loopDone
    BY <1>0, <2>2 DEF LinkType
  <2>4. AboutToPost => AboutToPost'
    BY <1>5, <1>a DEF ReadPost
  <2>. QED
    BY <2>1, <2>3, <2>4, HandedSame
<1>6. CASE ReadPop
  <2>1. UNCHANGED <<mine, task, wake>> /\ ~AboutToPost
    BY <1>6 DEF ReadPop
  <2>2. PICK k \in 0 .. link[L].in : /\ link' = [link EXCEPT ![L].in = @ - k]
                                     /\ GoTo("repost", IF k > 0 THEN "got" ELSE "empty")
    BY <1>6 DEF ReadPop
  <2>3. CASE k > 0
    <3>1. AboutToPost'
      BY <1>a, <2>2, <2>3
    <3>. QED
      BY <2>1, <3>1
  <2>4. CASE k = 0
    <3>1. link[L].in \in Nat
      BY <1>0, SshLinkAssumption DEF LinkType
    <3>2. link' = link
      BY <1>0, <2>2, <2>4, <3>1 DEF LinkType
    <3>. QED
      BY <2>1, <3>2, HandedSame
  <2>5. link[L].in \in 0 .. kRing
    BY <1>0 DEF LinkType
  <2>. QED
    BY <2>2, <2>3, <2>4, <2>5, SshLinkAssumption
<1>7. CASE Write
  <2>1. UNCHANGED <<mine, task, wake>> /\ ~AboutToPost
    BY <1>7 DEF Write, Serviced
  <2>2. PICK k \in 0 .. Room(link[L].out) : /\ link' = [link EXCEPT ![L].out = @ + k]
                                            /\ k > 0 => GoTo("post", "next")
    BY <1>7 DEF Write
  <2>0. link[L].out \in 0 .. kRing /\ k \in Nat
    BY <1>0, SshLinkAssumption DEF LinkType, Room
  <2>3. CASE k > 0
    <3>1. AboutToPost'
      BY <1>a, <2>2, <2>3
    <3>. QED
      BY <2>1, <3>1
  <2>4. CASE k = 0
    <3>1. link[L].out + 0 = link[L].out
      BY <2>0, SshLinkAssumption
    <3>2. link' = link
      BY <1>0, <2>2, <2>4, <3>1 DEF LinkType
    <3>. QED
      BY <2>1, <3>2, HandedSame
  <2>. QED
    BY <2>0, <2>3, <2>4
<1>8. CASE Answer \/ LetGo
  <2>1. UNCHANGED <<mine, task, wake>> /\ AboutToPost'
    BY <1>8, <1>a DEF Answer, LetGo
  <2>. QED
    BY <2>1
<1>9. CASE ReleaseNo
  <2>1. UNCHANGED <<mine, task, wake>> /\ AboutToPost'
    BY <1>9, <1>a DEF ReleaseNo
  <2>. QED
    BY <2>1
<1>10. CASE ClaimStart
  <2>1. UNCHANGED <<mine, task, wake>>
    BY <1>10 DEF ClaimStart
  <2>2. loop'.at = "post"
    BY <1>0, <1>10 DEF ClaimStart, LoopType
  <2>. QED
    BY <2>1, <2>2
<1>. QED
  BY <1>1, <1>2, <1>3, <1>4, <1>5, <1>6, <1>7, <1>8, <1>9, <1>10 DEF Loop

\* The task looks at a link with nothing changed since, and forgets what it has looked at
\* when it goes to serve.
LEMMA TaskLooks ==
  ASSUME TypeOK, SleepInv, Task
  PROVE  SleepInv'
<1>0. T \in Links /\ task \in TaskType /\ kMax \in Nat \ {0}
  BY SshLinkAssumption DEF TypeOK, TaskType, T
<1>1. CASE Look
  <2>1. /\ UNCHANGED <<link, mine, wake, loop>>
        /\ task'.at = (IF T = kMax THEN "select" ELSE "look")
        /\ task'.i = (T % kMax) + 1
        /\ task'.busy = (task.busy \/ Work(T)) /\ task.at = "look"
    BY <1>0, <1>1 DEF Look, TaskAt, TaskType
  <2>2. ASSUME NEW l \in Links, Looked(l)', ~task'.busy, ~wake', ~AboutToPost'
        PROVE  ~Handed(l)'
    <3>1. ~task.busy /\ ~Handed(T) /\ ~wake /\ ~AboutToPost /\ (Handed(l)' <=> Handed(l))
      BY <2>1, <2>2, HandedSame DEF Work, AboutToPost, LoopAt
    <3>2. l < T \/ l = T
      <4>1. CASE T = kMax
        BY <1>0, <4>1 DEF Links
      <4>2. CASE T # kMax
        <5>1. T \in 1 .. (kMax - 1)
          BY <1>0, <4>2 DEF Links
        <5>2. T % kMax = T
          BY <1>0, <5>1
        <5>3. task'.i = T + 1 /\ task'.at = "look"
          BY <2>1, <4>2, <5>2
        <5>4. l < T + 1
          BY <2>2, <5>3 DEF Looked, T
        <5>. QED
          BY <1>0, <5>1, <5>4 DEF Links
      <4>. QED
        BY <4>1, <4>2
    <3>. QED
      BY <2>1, <3>1, <3>2 DEF SleepInv, Looked
  <2>. QED
    BY <2>2 DEF SleepInv
<1>2. CASE ~Look
  <2>1. ASSUME NEW l \in Links PROVE ~Looked(l)'
    <3>1. task'.at \notin {"look", "select"} \/ (task'.at = "look" /\ task'.i = 1)
      <4>1. ASSUME Next1 PROVE task'.at = "serve" \/ (task'.at = "look" /\ task'.i = 1)
        <5>1. CASE task' = [task EXCEPT !.at = "serve", !.i = T + 1]
          BY <1>0, <5>1 DEF TaskType
        <5>2. CASE task' = NextPass(TRUE) \/ task' = NextPass(FALSE)
          BY <5>2 DEF NextPass
        <5>. QED
          BY <4>1, <5>1, <5>2 DEF Next1
      <4>2. ASSUME NEW a, Step(a) PROVE task'.at = a
        BY <1>0, <4>2 DEF Step, TaskType
      <4>. USE <4>1, <4>2 DEF TaskAt
      <4>3. CASE Select \/ ServeStart \/ ServeIdle \/ Reclaim
        BY <4>3 DEF Select, ServeStart, ServeIdle, Reclaim
      <4>4. CASE Handshake
        BY <4>4 DEF Handshake
      <4>5. CASE KeyExchange
        <5>1. task'.at = "accept"
          BY <1>0, <4>5 DEF KeyExchange, TaskType
        <5>. QED
          BY <5>1
      <4>11. CASE Rekey
        <5>1. task'.at = task.at /\ task.at \in {"in", "accept"}
          BY <1>0, <4>11 DEF Rekey, TaskType
        <5>. QED
          BY <5>1
      <4>6. CASE AcceptReturns \/ AuthAnswered \/ AuthAsk
        BY <4>6 DEF AcceptReturns, AuthAnswered, AuthAsk
      <4>7. CASE AuthPublish \/ AuthPost \/ Opened \/ OpenPost
        BY <4>7 DEF AuthPublish, AuthPost, Opened, OpenPost
      <4>8. CASE PumpOut \/ PumpRead \/ PumpPush
        BY <4>8 DEF PumpOut, PumpRead, PumpPush
      <4>9. CASE PumpPost \/ PumpLoopDone
        BY <4>9 DEF PumpPost, PumpLoopDone
      <4>10. CASE Finish \/ FinishTold \/ FinishPost
        BY <4>10 DEF Finish, FinishTold, FinishPost
      <4>. QED
        BY <1>2, <4>3, <4>4, <4>5, <4>6, <4>7, <4>8, <4>9, <4>10, <4>11 DEF Task
    <3>2. ~(l < 1)
      BY <1>0 DEF Links
    <3>. QED
      BY <3>1, <3>2 DEF Looked, T
  <2>. QED
    BY <2>1 DEF SleepInv
<1>. QED
  BY <1>1, <1>2

\* No step of either side leaves the task asleep on something handed over.
LEMMA NextKeepsSleepInv ==
  LinkInv /\ SleepInv /\ [Next]_vars => SleepInv'
<1>. SUFFICES ASSUME LinkInv, SleepInv, [Next]_vars PROVE SleepInv'
  OBVIOUS
<1>0. TypeOK /\ LoopState
  BY DEF LinkInv, Knows
<1>1. CASE Loop \/ Kick
  <2>1. /\ UNCHANGED <<mine, task>> /\ (wake => wake')
        /\ (AboutToPost => AboutToPost' \/ wake')
        /\ \A l \in Links : Handed(l)' => Handed(l) \/ AboutToPost'
    BY <1>0, <1>1, LoopHands
  <2>. QED
    BY <2>1 DEF SleepInv, Looked, T
<1>2. CASE Task
  BY <1>0, <1>2, TaskLooks
<1>3. ASSUME NEW l \in Links, HungLong(l) PROVE SleepInv'
  <2>1. /\ UNCHANGED <<link, wake, loop, task>>
        /\ \A k \in Links : mine'[k].blocked = mine[k].blocked /\ mine'[k].held = mine[k].held
    BY <1>0, <1>3 DEF HungLong, TypeOK, MineType
  <2>2. \A k \in Links : Handed(k)' <=> Handed(k)
    BY <2>1 DEF Handed, Room
  <2>. QED
    BY <2>1, <2>2 DEF SleepInv, Looked, AboutToPost, LoopAt, T
<1>4. ASSUME NEW l \in Links, NEW p \in Peers, Claim(l, p) PROVE SleepInv'
  <2>1. /\ UNCHANGED <<wake, task>> /\ ~AboutToPost
        /\ link[l].state = "Free" /\ link' = [link EXCEPT ![l] = Fresh(l, p)]
        /\ mine' = [mine EXCEPT ![l].asks = 0, ![l].authed = FALSE]
    BY <1>4 DEF Claim, Claimable, AboutToPost, LoopAt
  <2>2. /\ link'[l].state = "Free" /\ \A k \in Links \ {l} : link'[k] = link[k]
        /\ \A k \in Links : mine'[k].blocked = mine[k].blocked /\ mine'[k].held = mine[k].held
    BY <1>0, <2>1 DEF TypeOK, LinkType, MineType, Fresh
  <2>3. ASSUME NEW k \in Links PROVE Handed(k)' => Handed(k)
    BY <2>2 DEF Handed, Room
  <2>. QED
    BY <2>1, <2>3 DEF SleepInv, Looked, T
<1>5. CASE UNCHANGED vars
  BY <1>5 DEF vars, SleepInv, Looked, AboutToPost, LoopAt, T, Handed, Room
<1>. QED
  BY <1>1, <1>2, <1>3, <1>4, <1>5 DEF Next

\* The loop's own steps leave no link unread: it clears the descriptor of one only to read
\* that one, and posts it again if there is more.
LEMMA LoopReads ==
  ASSUME LinkInv, WokenInv, Loop \/ Kick
  PROVE  WokenInv'
<1>0. /\ L \in Links /\ link \in [Links -> LinkType] /\ loop \in LoopType
      /\ sess \in [Links -> {"none", "wait", "up"}]
      /\ LoopState /\ HeldIsNotFree
  BY DEF LinkInv, TypeOK, LoopType, L, Knows
<1>a. ASSUME NEW a, NEW x, GoTo(a, x) PROVE loop'.at = a /\ loop'.l = L
  BY <1>0, <1>a DEF GoTo, LoopType, L
<1>b. \A l \in Links : link[l].in \in 0 .. kRing /\ link[l].in >= 0
  BY <1>0, SshLinkAssumption DEF LinkType
<1>t. UNCHANGED task
  BY DEF Loop, TurnRead, TurnOver, ReadPop, ReadPost, ReadEnd, ServiceOpen, Write, WaitAsked,
     AnswerWipe, Answer, Waiting, Release, ReleaseNo, LetGo, ClaimStart, Post, Kick
\* A step that reads nothing and is not about to.
<1>c. ASSUME loop.at \notin {"pop", "repost"},
             \A l \in Links : /\ link'[l].in = link[l].in /\ link'[l].taskDone = link[l].taskDone
                              /\ link'[l].efd = link[l].efd
                              /\ link'[l].state = "Free" => link[l].state = "Free"
                              /\ sess'[l] # "none" => sess[l] # "none"
      PROVE  WokenInv'
  BY <1>t, <1>c DEF WokenInv, T, L
<1>1. CASE TurnOver \/ ServiceOpen \/ WaitAsked \/ Waiting \/ Kick \/ ReadEnd \/ Post
  <2>1. /\ UNCHANGED link /\ loop.at \notin {"pop", "repost"}
        /\ \A l \in Links : sess'[l] # "none" => sess[l] # "none"
    BY <1>0, <1>1 DEF TurnOver, ServiceOpen, WaitAsked, Waiting, Kick, ReadEnd, Post, Serviced,
       LoopAt, LoopState, Holding
  <2>. QED
    BY <1>c, <2>1
<1>2. CASE AnswerWipe \/ Release \/ ReleaseNo \/ Answer \/ LetGo \/ ClaimStart \/ Write
  <2>1. /\ loop.at \notin {"pop", "repost"}
        /\ \A l \in Links : sess'[l] # "none" => sess[l] # "none"
    BY <1>0, <1>2 DEF AnswerWipe, Release, ReleaseNo, Answer, LetGo, ClaimStart, Write, Serviced,
       LoopAt
  <2>2. \/ UNCHANGED link
        \/ link' = [link EXCEPT ![L].pass = FALSE]
        \/ \E v : link' = [link EXCEPT ![L].auth = v]
        \/ link' = [link EXCEPT ![L].loopDone = TRUE]
        \/ link' = [link EXCEPT ![loop.new].state = "Start"]
        \/ \E v : link' = [link EXCEPT ![L].out = v]
    BY <1>2 DEF AnswerWipe, Release, ReleaseNo, Answer, LetGo, ClaimStart, Write
  <2>3. ASSUME NEW l \in Links
        PROVE  /\ link'[l].in = link[l].in /\ link'[l].taskDone = link[l].taskDone
               /\ link'[l].efd = link[l].efd
               /\ link'[l].state = "Free" => link[l].state = "Free"
    BY <1>0, <2>2 DEF LinkType
  <2>. QED
    BY <1>c, <2>1, <2>3
<1>3. CASE TurnRead
  <2>1. /\ link' = [link EXCEPT ![L].efd = FALSE] /\ UNCHANGED sess
        /\ loop'.at = "pop" /\ loop'.l = L /\ loop.at = "turn"
    BY <1>3, <1>a DEF TurnRead, LoopAt
  <2>2. /\ \A l \in Links : /\ link'[l].in = link[l].in /\ link'[l].taskDone = link[l].taskDone
                            /\ link'[l].state = link[l].state
        /\ \A l \in Links \ {L} : link'[l].efd = link[l].efd
    BY <1>0, <2>1 DEF LinkType
  <2>. QED
    BY <1>t, <2>1, <2>2 DEF WokenInv, L, T
<1>4. CASE ReadPop
  <2>1. PICK k \in 0 .. link[L].in : /\ link' = [link EXCEPT ![L].in = @ - k]
                                     /\ GoTo("repost", IF k > 0 THEN "got" ELSE "empty")
    BY <1>4 DEF ReadPop
  <2>2. UNCHANGED sess /\ loop'.at = "repost" /\ loop'.l = L /\ loop.at = "pop"
    BY <1>4, <1>a, <2>1 DEF ReadPop, LoopAt
  <2>3. /\ \A l \in Links : /\ link'[l].taskDone = link[l].taskDone
                            /\ link'[l].state = link[l].state /\ link'[l].efd = link[l].efd
        /\ \A l \in Links \ {L} : link'[l].in = link[l].in
    BY <1>0, <2>1 DEF LinkType
  <2>4. link[L].state # "Free"
    <3>1. sess[L] # "none" /\ loop.new = 0
      BY <1>0, <2>2 DEF LoopState, Holding
    <3>. QED
      BY <1>0, <3>1, SshLinkAssumption DEF HeldIsNotFree, Publishing, Links
  <2>. QED
    BY <1>t, <2>2, <2>3, <2>4 DEF WokenInv, L, T
<1>5. CASE ReadPost
  <2>1. /\ link' = [link EXCEPT ![L].efd = @ \/ ReadMore] /\ UNCHANGED sess
        /\ loop.at = "repost"
    BY <1>5 DEF ReadPost, LoopAt
  <2>2. link[L].efd \in BOOLEAN /\ ReadMore \in BOOLEAN
    BY <1>0 DEF LinkType, ReadMore
  <2>3. /\ \A l \in Links : /\ link'[l].in = link[l].in /\ link'[l].taskDone = link[l].taskDone
                            /\ link'[l].state = link[l].state
        /\ \A l \in Links \ {L} : link'[l].efd = link[l].efd
        /\ link'[L].efd = (link[L].efd \/ ReadMore)
    BY <1>0, <2>1, <2>2 DEF LinkType
  <2>4. link[L].in > 0 \/ link[L].taskDone => link'[L].efd
    BY <2>3 DEF ReadMore
  <2>. QED
    BY <1>t, <2>1, <2>3, <2>4 DEF WokenInv, L, T
<1>. QED
  BY <1>1, <1>2, <1>3, <1>4, <1>5 DEF Loop

\* Whatever the task puts in a link, it posts the descriptor for.
LEMMA TaskWakes ==
  ASSUME LinkInv, WokenInv, Task
  PROVE  WokenInv'
<1>0. /\ T \in Links /\ link \in [Links -> LinkType] /\ task \in TaskType
      /\ TaskState
  BY DEF LinkInv, TypeOK, TaskType, T, Knows
<1>a. ASSUME NEW a, Step(a) PROVE task'.at = a /\ task'.i = T
  BY <1>0, <1>a DEF Step, TaskType, T
<1>l. UNCHANGED <<sess, loop>>
  BY DEF Task, Look, Select, ServeStart, ServeIdle, Reclaim, Handshake, KeyExchange, Rekey,
     AcceptReturns, AuthAnswered, AuthAsk, AuthPublish, AuthPost, Opened, OpenPost, PumpOut,
     PumpRead, PumpPush, PumpPost, PumpLoopDone, Finish, FinishTold, FinishPost
\* A step that puts nothing in, and posts if the last one did.
<1>c. ASSUME \A l \in Links : /\ link'[l].in = link[l].in \/ link'[l].in = 0
                              /\ link'[l].taskDone = link[l].taskDone
                              /\ link[l].efd => link'[l].efd
                              /\ link'[l].state = "Free" => link'[l].in = 0,
             task.at \in {"pushed", "done"} => link'[T].efd
      PROVE  WokenInv'
  <2>1. \A l \in Links : link'[l].in > 0 => link[l].in > 0
    BY <1>c
  <2>. QED
    BY <1>l, <1>c, <2>1 DEF WokenInv, L, T
<1>1. CASE \/ Look \/ Select \/ ServeIdle \/ Handshake \/ KeyExchange \/ Rekey \/ AcceptReturns
           \/ PumpRead \/ PumpLoopDone
  <2>1. UNCHANGED link /\ task.at \notin {"pushed", "done"}
    BY <1>1 DEF Look, Select, ServeIdle, Handshake, KeyExchange, Rekey, AcceptReturns,
       PumpRead, PumpLoopDone, TaskAt
  <2>. QED
    BY <1>c, <2>1 DEF WokenInv
<1>2. CASE \/ AuthAnswered \/ AuthAsk \/ AuthPublish \/ Opened \/ PumpOut \/ Finish
  <2>1. task.at \notin {"pushed", "done"}
    BY <1>2 DEF AuthAnswered, AuthAsk, AuthPublish, Opened, PumpOut, Finish, TaskAt
  <2>2. \/ UNCHANGED link
        \/ \E v : link' = [link EXCEPT ![T].auth = v]
        \/ \E v : link' = [link EXCEPT ![T].pass = v]
        \/ link' = [link EXCEPT ![T].state = "Open"]
        \/ \E v : link' = [link EXCEPT ![T].out = v]
    BY <1>2 DEF AuthAnswered, AuthAsk, AuthPublish, Opened, PumpOut, Finish
  <2>3. ASSUME NEW l \in Links
        PROVE  /\ link'[l].in = link[l].in /\ link'[l].taskDone = link[l].taskDone
               /\ link[l].efd => link'[l].efd
               /\ link'[l].state = "Free" => link[l].state = "Free"
    BY <1>0, <2>2 DEF LinkType
  <2>. QED
    BY <1>c, <2>1, <2>3 DEF WokenInv
<1>3. CASE ServeStart
  <2>1. task.at \notin {"pushed", "done"}
    BY <1>3 DEF ServeStart, TaskAt
  <2>2. \/ UNCHANGED link
        \/ link' = [link EXCEPT ![T].state = "Handshake", ![T].in = 0, ![T].out = 0]
    BY <1>3 DEF ServeStart
  <2>3. ASSUME NEW l \in Links
        PROVE  /\ link'[l].in = link[l].in \/ link'[l].in = 0
               /\ link'[l].taskDone = link[l].taskDone
               /\ link[l].efd => link'[l].efd
               /\ link'[l].state = "Free" => link[l].state = "Free"
    BY <1>0, <2>2 DEF LinkType
  <2>. QED
    BY <1>c, <2>1, <2>3 DEF WokenInv
<1>4. CASE Reclaim
  <2>1. /\ task.at \notin {"pushed", "done"}
        /\ link' = [link EXCEPT ![T].in = 0, ![T].out = 0, ![T].state = "Free"]
    BY <1>4 DEF Reclaim, TaskAt
  <2>2. ASSUME NEW l \in Links
        PROVE  /\ link'[l].in = link[l].in \/ link'[l].in = 0
               /\ link'[l].taskDone = link[l].taskDone
               /\ link[l].efd => link'[l].efd
               /\ link'[l].state = "Free" => link'[l].in = 0
    <3>1. CASE l = T
      BY <1>0, <2>1, <3>1 DEF LinkType
    <3>2. CASE l # T
      BY <1>0, <2>1, <3>2 DEF LinkType, WokenInv
    <3>. QED
      BY <3>1, <3>2
  <2>. QED
    BY <1>c, <2>1, <2>2
<1>5. CASE AuthPost \/ OpenPost \/ PumpPost \/ FinishPost
  <2>1. link' = [link EXCEPT ![T].efd = TRUE]
    BY <1>5 DEF AuthPost, OpenPost, PumpPost, FinishPost
  <2>2. ASSUME NEW l \in Links
        PROVE  /\ link'[l].in = link[l].in /\ link'[l].taskDone = link[l].taskDone
               /\ link[l].efd => link'[l].efd
               /\ link'[l].state = link[l].state
    BY <1>0, <2>1 DEF LinkType
  <2>3. link'[T].efd
    BY <1>0, <2>1 DEF LinkType
  <2>. QED
    BY <1>c, <2>2, <2>3 DEF WokenInv
<1>6. CASE PumpPush
  <2>1. /\ link' = [link EXCEPT ![T].in = @ + 1] /\ task'.at = "pushed" /\ task'.i = T
        /\ task.at = "in" /\ link[T].state = "Open"
    BY <1>0, <1>6, <1>a DEF PumpPush, TaskAt, TaskState
  <2>2. /\ \A l \in Links : /\ link'[l].taskDone = link[l].taskDone
                            /\ link'[l].efd = link[l].efd /\ link'[l].state = link[l].state
        /\ \A l \in Links \ {T} : link'[l].in = link[l].in
    BY <1>0, <2>1 DEF LinkType
  <2>. QED
    BY <1>l, <2>1, <2>2 DEF WokenInv, L, T
<1>7. CASE FinishTold
  <2>1. /\ link' = [link EXCEPT ![T].taskDone = TRUE, ![T].state = "Done"]
        /\ task'.at = "done" /\ task'.i = T /\ task.at = "closed"
    BY <1>7, <1>a DEF FinishTold, TaskAt
  <2>2. /\ \A l \in Links : /\ link'[l].in = link[l].in /\ link'[l].efd = link[l].efd
                            /\ link'[l].state = "Free" => link[l].state = "Free"
        /\ \A l \in Links \ {T} : link'[l].taskDone = link[l].taskDone
    BY <1>0, <2>1 DEF LinkType
  <2>. QED
    BY <1>l, <2>1, <2>2 DEF WokenInv, L, T
<1>. QED
  BY <1>1, <1>2, <1>3, <1>4, <1>5, <1>6, <1>7 DEF Task

\* No step of either side leaves the loop asleep on keys or on the end of a caller.
LEMMA NextKeepsWokenInv ==
  LinkInv /\ WokenInv /\ [Next]_vars => WokenInv'
<1>. SUFFICES ASSUME LinkInv, WokenInv, [Next]_vars PROVE WokenInv'
  OBVIOUS
<1>1. CASE Loop \/ Kick
  BY <1>1, LoopReads
<1>2. CASE Task
  BY <1>2, TaskWakes
<1>3. ASSUME NEW l \in Links, HungLong(l) PROVE WokenInv'
  BY <1>3 DEF HungLong, WokenInv, L, T
<1>4. ASSUME NEW l \in Links, NEW p \in Peers, Claim(l, p) PROVE WokenInv'
  <2>1. /\ link \in [Links -> LinkType] /\ sess \in [Links -> {"none", "wait", "up"}]
        /\ loop \in LoopType
    BY DEF LinkInv, TypeOK
  <2>2. /\ link[l].state = "Free" /\ link' = [link EXCEPT ![l] = Fresh(l, p)]
        /\ sess' = [sess EXCEPT ![l] = "wait"] /\ UNCHANGED task
        /\ loop.at = "turn"
    BY <1>4 DEF Claim, Claimable, LoopAt
  <2>3. /\ \A k \in Links \ {l} : link'[k] = link[k] /\ sess'[k] = sess[k]
        /\ link'[l].state = "Free" /\ link'[l].in = link[l].in /\ ~link'[l].taskDone
    BY <2>1, <2>2 DEF LinkType, Fresh
  <2>. QED
    BY <2>2, <2>3 DEF WokenInv, T
<1>5. CASE UNCHANGED vars
  BY <1>5 DEF vars, WokenInv, L, T
<1>. QED
  BY <1>1, <1>2, <1>3, <1>4, <1>5 DEF Next

\* SleepMissesNothing (the look before the select, and every post of g_wake): the task
\* never waits on something the loop has handed over, for any number of links.
THEOREM TaskSleepsOnNothing == Spec => []SleepMissesNothing
<1>1. Init => SleepInv
  BY SshLinkAssumption DEF Init, SleepInv, Looked, T, Links
<1>2. LinkInv /\ LinkInv' /\ SleepInv /\ [Next]_vars => SleepInv'
  BY NextKeepsSleepInv
<1>3. SleepInv => SleepMissesNothing
  BY DEF SleepInv, SleepMissesNothing, Looked
<1>. QED
  BY LinkInvariant, <1>1, <1>2, <1>3, PTL DEF Spec

\* LoopIsWoken (Link::read and the posts of the event descriptor): keys and the end of a
\* caller never wait for a loop that does not know of them.
THEOREM LoopSleepsOnNothing == Spec => []LoopIsWoken
<1>1. Init => WokenInv
  BY DEF Init, WokenInv
<1>2. LinkInv /\ LinkInv' /\ WokenInv /\ [Next]_vars => WokenInv'
  BY NextKeepsWokenInv
<1>3. WokenInv => LoopIsWoken
  BY DEF WokenInv, LoopIsWoken, LoopAt
<1>. QED
  BY LinkInvariant, <1>1, <1>2, <1>3, PTL DEF Spec
===============================================================================
