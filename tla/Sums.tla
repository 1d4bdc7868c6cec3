-------------------------------- MODULE Sums --------------------------------
(***************************************************************************)
(* The sum of a sequence of numbers.                                       *)
(***************************************************************************)
EXTENDS Integers, Sequences

Total(seq) ==
    LET upto[n \in 0 .. Len(seq)] == IF n = 0 THEN 0 ELSE upto[n - 1] + seq[n]
    IN  upto[Len(seq)]
=============================================================================
