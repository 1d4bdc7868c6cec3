------------------------------- MODULE MCUtf16 -------------------------------
(***************************************************************************)
(* All strings of up to three units, from both sides of every boundary of  *)
(* Encode and Decode.                                                      *)
(***************************************************************************)
EXTENDS Utf16

\* The ends of the one, two and three byte forms, of both surrogate ranges
\* and of the plane; a high surrogate with bit 6 set and one without.
MCUnits == {0, 127, 128, 2047, 2048, 55295, 55296, 55360, 56191, 56319,
            56320, 57343, 57344, 65534, 65535}
MCStrings == UNION {[1 .. n -> MCUnits] : n \in 0 .. 3}
=============================================================================
