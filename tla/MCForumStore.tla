----------------------------- MODULE MCForumStore -----------------------------
(* A model-checking instance of ForumStore. *)
EXTENDS ForumStore

Budget(asks, moves, faults, restarts) ==
  {[asks |-> asks, moves |-> moves, faults |-> faults, restarts |-> restarts]}

\* Three posts and removals with a card that fails or with a restart, two with both, and
\* a reader whose place moves twice beside one of them.
MCBudgets == Budget(3, 0, 2, 0) \cup Budget(3, 0, 0, 1) \cup Budget(2, 0, 2, 1)
               \cup Budget(1, 2, 1, 1)
================================================================================
