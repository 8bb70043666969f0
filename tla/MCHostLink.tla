----------------------------- MODULE MCHostLink -----------------------------
(***************************************************************************)
(* HostLink for TLC.                                                       *)
(***************************************************************************)
EXTENDS HostLink
============================================================================
