--------------------------- MODULE MCRefreshSessions ---------------------------
(***************************************************************************)
(* Instances of RefreshSessions for TLC.  Tokens and the requests of one   *)
(* kind are interchangeable, so they may be permuted in safety runs.       *)
(***************************************************************************)
EXTENDS RefreshSessions, TLC

Symmetry ==
  Permutations(Tokens) \cup Permutations(Refreshers) \cup
  Permutations(Logouts) \cup Permutations(AccountOps) \cup Permutations(Logins)
=============================================================================
