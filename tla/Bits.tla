-------------------------------- MODULE Bits --------------------------------
(***************************************************************************)
(* The bits of a number, and the bitwise or of two words.                  *)
(***************************************************************************)
EXTENDS Integers

Bit(x, i) == (x \div 2 ^ i) % 2

\* x | y in a word of w bits.
Or(w, x, y) ==
    LET or[n \in 0 .. w] ==
            IF n = 0 THEN 0
            ELSE IF Bit(x, n - 1) = 1 \/ Bit(y, n - 1) = 1
                 THEN or[n - 1] + 2 ^ (n - 1) ELSE or[n - 1]
    IN  or[w]
=============================================================================
