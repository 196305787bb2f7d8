--------------------------------- MODULE Sums ---------------------------------
(***************************************************************************)
(* What is kept beside a queue to know how much is in it: the sum of what  *)
(* its entries count for. A recursive function, so that what it comes to   *)
(* can be proved (Sums_proofs).                                            *)
(***************************************************************************)
EXTENDS Integers, Sequences

\* The sums[n] of the first n counts.
SumsOf(counts) ==
  LET sums[n \in 0 .. Len(counts)] == IF n = 0 THEN 0 ELSE sums[n - 1] + counts[n]
  IN  sums
Total(counts) == SumsOf(counts)[Len(counts)]
=============================================================================
