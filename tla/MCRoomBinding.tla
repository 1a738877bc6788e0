---------------------------- MODULE MCRoomBinding ----------------------------
(* Time in units of 30 s: tokens live 2, retirements 4, reservations 3. *)
EXTENDS RoomBinding, TLC

Symmetry == Permutations(Proc)
=============================================================================
