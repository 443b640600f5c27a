------------------------------ MODULE MCShell -------------------------------
(***************************************************************************)
(* Shell for TLC.                                                          *)
(***************************************************************************)
EXTENDS Shell, TLC
=============================================================================
