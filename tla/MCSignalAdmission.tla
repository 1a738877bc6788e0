--------------------------- MODULE MCSignalAdmission ---------------------------
(* Two connections; a subject may come back on the other one.  Connections and *)
(* subjects are interchangeable.                                               *)
EXTENDS SignalAdmission, TLC
Symmetry == Permutations(Conn) \cup Permutations(Subject)
=============================================================================
