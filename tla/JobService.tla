------------------------------ MODULE JobService ------------------------------
(***************************************************************************)
(* What the background runner promises the BBS loop (runner.h): a job      *)
(* handed over is done exactly once, jobs are done one at a time and in    *)
(* the order they were accepted, and a job that was accepted is never      *)
(* dropped.  The loop collects a finished job before or while it posts it  *)
(* again.                                                                  *)
(***************************************************************************)
EXTENDS Sequences

CONSTANT Jobs      \* the static Job structs, one per kind of slow work

VARIABLES
  accepted,        \* jobs accepted and not yet finished, oldest first
  finished         \* jobs whose results the loop has not yet collected

svars == <<accepted, finished>>

SInit == accepted = <<>> /\ finished = {}

\* The loop hands over a job that is not already waiting; posting a
\* finished job again gives up its uncollected results.
Accept(j) ==
  /\ \A i \in DOMAIN accepted : accepted[i] # j
  /\ accepted' = Append(accepted, j)
  /\ finished' = finished \ {j}

\* The oldest job is finished: nothing overtakes it.
Finish ==
  /\ accepted # <<>>
  /\ accepted' = Tail(accepted)
  /\ finished' = finished \cup {Head(accepted)}

Take(j) ==
  /\ j \in finished
  /\ finished' = finished \ {j}
  /\ UNCHANGED accepted

SNext == Finish \/ \E j \in Jobs : Accept(j) \/ Take(j)

SSpec == SInit /\ [][SNext]_svars

===============================================================================
