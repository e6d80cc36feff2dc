------------------------------ MODULE MCXmodem ------------------------------
(* Instances of the XMODEM engine: two engines, small files.                 *)
EXTENDS Xmodem

Faults(f, b, e, t) == [fwd |-> f, back |-> b, eot |-> e, trouble |-> t]
Some(y, bigs, sizes, crcs, faults) ==
  [ymodem : {y}, big : bigs, size : sizes, crc : crcs, faults : faults]

\* Three faults on two blocks, and every fault once with numbers that wrap.
Small   == Some(FALSE, {FALSE}, {2}, BOOLEAN,
                {Faults(2, 1, 0, 0), Faults(1, 2, 0, 0), Faults(0, 3, 0, 0), Faults(3, 0, 0, 0)})
Wrapped == Some(FALSE, {FALSE}, {0, 5}, {TRUE}, {Faults(1, 1, 0, 0)})
\* 1K blocks, whole and with a tail; YMODEM; and a transfer broken off.
Large   == Some(FALSE, {TRUE}, {2, 5}, BOOLEAN, {Faults(1, 1, 0, 0), Faults(0, 2, 0, 0)})
                \cup Some(FALSE, {TRUE}, {3}, {TRUE}, {Faults(3, 0, 0, 0)})
Ymodem  == Some(TRUE, {TRUE}, {0, 5}, {TRUE}, {Faults(1, 1, 0, 0), Faults(2, 0, 0, 0)})
                \cup Some(TRUE, {FALSE}, {5}, {TRUE}, {Faults(0, 1, 0, 0)})
Rough   == Some(FALSE, BOOLEAN, {2}, BOOLEAN,
                {Faults(1, 0, 0, 1), Faults(0, 1, 0, 1), Faults(0, 0, 1, 0)})
                \cup Some(TRUE, {FALSE}, {2}, {TRUE},
                          {Faults(1, 0, 0, 1), Faults(0, 1, 0, 1), Faults(0, 0, 1, 0)})
\* What DoneIsWhole and NeverAhead except: all else is asked of these too.
Astray  == Some(TRUE, {FALSE}, {2}, {TRUE}, {Faults(0, 2, 0, 0), Faults(1, 0, 1, 0)})
                \cup Some(FALSE, {FALSE}, {2}, {TRUE}, {Faults(1, 0, 1, 0), Faults(0, 0, 2, 0)})
MCJobs  == Small \cup Wrapped \cup Large \cup Ymodem \cup Rough \cup Astray

\* One 1K block, and answers enough lost for it to be cut down.
MCReframed == Some(FALSE, {TRUE}, {2}, {TRUE}, {Faults(2, 1, 0, 0)})
=============================================================================
