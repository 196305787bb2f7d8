------------------------------- MODULE MCUploads -------------------------------
(* A small instance of Uploads for TLC: two generations, one call of       *)
(* cancelGeneration beside close.                                          *)
EXTENDS Uploads

TwoGenerations == {0, 1}
OneCall == {"cancelGeneration"}

=============================================================================
