------------------------------- MODULE MCRunner -------------------------------
(* The instance of Runner that TLC checks: three jobs against a queue of two *)
(* reach the full queue, a job posted while another runs and a job behind a  *)
(* task that is ending; two task handles are enough for a second task to be  *)
(* started while the first still exists, which is what OneTask forbids.      *)
EXTENDS Runner
===============================================================================
