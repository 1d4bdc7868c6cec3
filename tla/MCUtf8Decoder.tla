---------------------------- MODULE MCUtf8Decoder ----------------------------
(***************************************************************************)
(* All texts of up to MaxLen bytes, one byte for each form there is, and   *)
(* two longer ones.                                                        *)
(***************************************************************************)
EXTENDS Utf8Decoder

CONSTANT MaxLen

\* A letter, a byte after the first, the first bytes of sequences of two,
\* three and four bytes, and a byte that begins nothing.
MCBytes == {65, 130, 194, 226, 240, 248}
MCTexts ==
    UNION {[1 .. n -> MCBytes] : n \in 0 .. MaxLen}
        \cup {<<240, 130, 130, 130, 65>>, <<194, 130, 240, 130, 130, 130>>}
=============================================================================
