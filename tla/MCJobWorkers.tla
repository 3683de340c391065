------------------------------ MODULE MCJobWorkers ------------------------------
(***************************************************************************)
(* An instance of JobWorkers for TLC.                                      *)
(***************************************************************************)
EXTENDS JobWorkers, TLC

Symmetry == Permutations(Workers)
=============================================================================
