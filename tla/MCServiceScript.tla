--------------------------- MODULE MCServiceScript ---------------------------
(***************************************************************************)
(* Instances of ServiceScript for TLC.                                     *)
(***************************************************************************)
EXTENDS ServiceScript, TLC

Symmetry == Permutations(Pids)

=============================================================================
