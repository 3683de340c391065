---------------------------- MODULE MCMailDelivery ----------------------------
(***************************************************************************)
(* An instance of MailDelivery for TLC: edits of one field each, in every  *)
(* combination of sound and unsound.                                       *)
(***************************************************************************)
EXTENDS MailDelivery, TLC

\* "typo" is no variable of any kind; "link" or "code" is required by most.
Body(text, dropped) == [body |-> [text |-> text, dropped |-> dropped]]

MCEdits ==
  {Body({"link"}, {}), Body({"code"}, {}), Body({"name"}, {"link"}),
   [subject |-> {"link"}], [subject |-> {"typo"}], [isActive |-> FALSE]}

Symmetry == Permutations(Rows) \cup Permutations(Operators) \cup Permutations(Editors)
==============================================================================
