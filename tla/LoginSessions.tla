----------------------------- MODULE LoginSessions -----------------------------
(***************************************************************************)
(* What refresh sessions promise: a login (a token family) has at most one *)
(* newest token; renewing replaces it by a token never used before; a      *)
(* login that has ended never comes back.  How tokens are stored, rotated  *)
(* and deleted is not said here.                                           *)
(***************************************************************************)
CONSTANTS Tokens, Null

VARIABLES
  used,     \* every token ever issued
  newest    \* newest[f]: the token that renews login f, Null before and after it

avars == <<used, newest>>

AbsInit ==
  /\ used = {}
  /\ newest = [f \in Tokens |-> Null]

\* A login opens under the name of its first token.
Open(f) ==
  /\ f \notin used
  /\ used' = used \cup {f}
  /\ newest' = [newest EXCEPT ![f] = f]

\* The newest token of login f is exchanged for a new one.
Renew(f, s) ==
  /\ newest[f] # Null
  /\ s \notin used
  /\ used' = used \cup {s}
  /\ newest' = [newest EXCEPT ![f] = s]

\* The logins F end.
End(F) ==
  /\ newest' = [f \in Tokens |-> IF f \in F THEN Null ELSE newest[f]]
  /\ UNCHANGED used

AbsNext ==
  \/ \E f \in Tokens : Open(f)
  \/ \E f, s \in Tokens : Renew(f, s)
  \/ \E F \in SUBSET Tokens : End(F)

AbsSpec == AbsInit /\ [][AbsNext]_avars
=============================================================================
