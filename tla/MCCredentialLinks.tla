--------------------------- MODULE MCCredentialLinks ---------------------------
(***************************************************************************)
(* An instance of CredentialLinks for TLC: links and the requests of one   *)
(* kind are interchangeable.                                               *)
(***************************************************************************)
EXTENDS CredentialLinks, TLC

Symmetry ==
  Permutations(Links) \cup Permutations(Followers) \cup
  Permutations(Requesters) \cup Permutations(Resetters)
=============================================================================
