--------------------------- MODULE MCStreamDelivery ---------------------------
(* A small instance of StreamDelivery. *)
EXTENDS StreamDelivery, TLC

CONSTANTS c1, w1, w2

OneClient == {c1}
TwoSessions == {w1, w2}
Symmetry == Permutations(TwoSessions)
=============================================================================
