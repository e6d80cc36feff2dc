-------------------------------- MODULE Topic --------------------------------
(***************************************************************************)
(* What a forum promises its callers (forums.cpp): messages are numbered   *)
(* from 1, a new one takes the next number and has its text, none is ever  *)
(* moved, changed or lost, and a removal takes one out of sight for good.  *)
(***************************************************************************)
EXTENDS Naturals, Sequences

VARIABLE msgs     \* the messages by number, each [id, live, text]

TInit == msgs = <<>>

Add ==
  /\ Len(msgs') = Len(msgs) + 1
  /\ \A n \in DOMAIN msgs : msgs'[n] = msgs[n]
  /\ LET new == msgs'[Len(msgs) + 1] IN new.live /\ new.text = "whole"

TakeDown == \E n \in DOMAIN msgs :
  /\ msgs[n].live
  /\ msgs' = [msgs EXCEPT ![n].live = FALSE]

TNext == Add \/ TakeDown

TSpec == TInit /\ [][TNext]_msgs

==============================================================================
