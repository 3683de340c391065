----------------------------- MODULE MCAccessCache -----------------------------
(***************************************************************************)
(* Instances of AccessCache for TLC.                                       *)
(***************************************************************************)
EXTENDS AccessCache, TLC

Symmetry ==
  Permutations(Users) \cup Permutations(Roles) \cup Permutations(Gates)
    \cup Permutations(Admins) \cup Permutations(Owners)
=============================================================================
