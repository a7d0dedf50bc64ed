----------------------------- MODULE MCSignals ------------------------------
(***************************************************************************)
(* ProcessSignals for TLC.  The entries kmalloc may hand out are numbers   *)
(* with no order that matters, the processes model values.                 *)
(***************************************************************************)
EXTENDS ProcessSignals, TLC

CONSTANTS shell, p2, p3

AllProcs == {shell, p2, p3}
=============================================================================
