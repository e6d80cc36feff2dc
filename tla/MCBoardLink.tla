---------------------------- MODULE MCBoardLink ----------------------------
(* Instances of the link between a board and a satellite.                    *)
EXTENDS BoardLink

Job(who, n, m, radio, late, restart, trouble) ==
  [opener : who, opens : {n}, msgs : {m},
   faults : {[radio |-> radio, late |-> late, restart |-> restart, trouble |-> trouble]}]

\* A radio that loses, repeats and reorders under a window of messages, and one
\* message more than the window.
Radio    == Job({Peer}, 1, 2, 2, 0, 0, 0) \cup Job({Host}, 1, 3, 1, 0, 0, 0)
                \cup Job({Peer}, 1, 1, 1, 1, 0, 0)
\* Restarts of either end, with a lost frame, a late timer or a second restart.
Restarts == Job(Ends, 1, 1, 1, 0, 1, 0) \cup Job({Peer}, 1, 1, 0, 1, 1, 0)
                \cup Job({Host}, 1, 2, 0, 0, 1, 0) \cup Job({Peer}, 1, 1, 0, 0, 2, 0)
\* Sessions one after another, with room for one and for one tombstone, and a
\* frame lost or a session closed outright.
Turns    == Job({Host}, 2, 1, 0, 0, 0, 0) \cup Job({Peer}, 2, 1, 1, 0, 0, 0)
                \cup Job({Peer}, 2, 1, 0, 0, 0, 1)
\* A refusal, a rekey or a session closed outright, and a lost frame.
Troubled == Job(Ends, 1, 1, 1, 0, 0, 1)
MCJobs   == Radio \cup Restarts \cup Turns \cup Troubled
=============================================================================
