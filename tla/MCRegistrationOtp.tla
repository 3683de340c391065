--------------------------- MODULE MCRegistrationOtp ---------------------------
(***************************************************************************)
(* Instances of RegistrationOtp for TLC.                                   *)
(***************************************************************************)
EXTENDS RegistrationOtp, TLC

Symmetry == Permutations(Verifiers) \cup Permutations(Registrars)
=============================================================================
