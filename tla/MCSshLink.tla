------------------------------- MODULE MCSshLink -------------------------------
(* Model-checking instances of SshLink; the configurations give the bounds. *)
EXTENDS SshLink
================================================================================
