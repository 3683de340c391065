------------------------------ MODULE MCListings ------------------------------
(***************************************************************************)
(* An instance of Listings for TLC: two names with almost the same slug,   *)
(* which also sort alike, so that ties and clashes of slugs both happen,   *)
(* and one that leaves nothing for a slug.                                 *)
(***************************************************************************)
EXTENDS Listings

\* "Ann!" and "Ann 1": the slug of the second is what a second "Ann!" becomes.
Ann == <<10, 0>>
AnnOne == <<10, 1>>
Marks == <<0>>
MCNames == {Ann, AnnOne, Marks}
MCSuperAdmin == <<20>>
MCDefaultRoles == {Null, MCSuperAdmin}
MCNameOrder == [n \in MCNames \cup {MCSuperAdmin} |->
                  CASE n = Ann -> 1 [] n = AnnOne -> 1 [] OTHER -> 2]
Symmetry == Permutations(Handlers) \cup Permutations(Perms)
==============================================================================
