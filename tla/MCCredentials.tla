--------------------------- MODULE MCCredentials ---------------------------
(* Credentials on small instances. *)
EXTENDS Credentials, TLC

Symmetry ==
    Permutations(Ids) \cup Permutations(Tenants) \cup Permutations(Actors) \cup
    Permutations(Instances) \cup Permutations(Calls)
=============================================================================
