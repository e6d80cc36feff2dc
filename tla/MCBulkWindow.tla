---------------------------- MODULE MCBulkWindow ----------------------------
(* Instances of the bulk window.                                             *)
EXTENDS BulkWindow
=============================================================================
