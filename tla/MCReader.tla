------------------------------ MODULE MCReader ------------------------------
(* Reader with a short life of exports. *)
EXTENDS Reader

=============================================================================
