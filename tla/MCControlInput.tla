---------------------------- MODULE MCControlInput ----------------------------
(* A small instance of ControlInput for TLC: two touch pointers.           *)
EXTENDS ControlInput

CONSTANTS p1, p2

TwoPointers == {p1, p2}

=============================================================================
