------------------------------ MODULE MCSchedules ------------------------------
(***************************************************************************)
(* An instance of Schedules for TLC: refresh tokens fill as many batches   *)
(* as a run may delete, other tables one or none.                          *)
(***************************************************************************)
EXTENDS Schedules, TLC

MCLoads == [t \in Tables |-> CASE t = "refresh" -> {0, 1}
                               [] t = "verification" -> {0}
                               [] t = "codes" -> {0}
                               [] t = "published" -> {0}
                               [] OTHER -> {}]
Symmetry == Permutations(Schedulers) \cup Permutations(Workers)
==============================================================================
