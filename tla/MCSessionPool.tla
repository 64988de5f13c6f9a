--------------------------- MODULE MCSessionPool ---------------------------
(* Instances of SessionPool for TLC. *)
EXTENDS SessionPool, TLC

Symmetry == Permutations(Sessions)
=============================================================================
