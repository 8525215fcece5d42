-------------------------- MODULE MCServiceRestart --------------------------
(***************************************************************************)
(* Instance of ServiceRestart for TLC.                                     *)
(***************************************************************************)
EXTENDS ServiceRestart

=============================================================================
