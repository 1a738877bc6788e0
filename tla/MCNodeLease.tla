----------------------------- MODULE MCNodeLease -----------------------------
(* Two processes of one node on a clock of two ticks a second. *)
EXTENDS NodeLease, TLC

Symmetry == Permutations(Instance)
=============================================================================
