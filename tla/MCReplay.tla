------------------------------ MODULE MCReplay ------------------------------
(* Replay over every stream of two packets' events, one actor and one tenant. *)
EXTENDS Replay, TLC

Symmetry == Permutations(PacketIDs)

=============================================================================
