----------------------------- MODULE MCProcess ------------------------------
(***************************************************************************)
(* Process for TLC.  Slots are numbers because the scheduler and            *)
(* process_alloc_slot go by their order, so there is no symmetry.          *)
(***************************************************************************)
EXTENDS Process
=============================================================================
