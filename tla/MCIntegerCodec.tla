--------------------------- MODULE MCIntegerCodec ---------------------------
(***************************************************************************)
(* Every read of 1 to 16 bits in a word of 16, at every bit offset, from    *)
(* up to three bytes whose values have their bits set in different places. *)
(***************************************************************************)
EXTENDS IntegerCodec

MCBytes == {0, 1, 105, 128, 255}

MCInputs ==
    [size : 1 .. 16, offset : 0 .. 7, sign : Signs,
     order : Orders,
     bytes : UNION {[1 .. n -> MCBytes] : n \in 0 .. 3}]

(***************************************************************************)
(* The comment of the bit path, "Read most significant bits to least", for *)
(* a field that starts and ends at any bit.                                *)
(***************************************************************************)
ReadsEveryField == outcome # Pending => Reads(input, outcome)
=============================================================================
