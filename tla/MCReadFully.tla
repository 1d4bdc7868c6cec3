---------------------------- MODULE MCReadFully -----------------------------
(***************************************************************************)
(* A file of a few bytes, all different.                                   *)
(***************************************************************************)
EXTENDS ReadFully

MCFile == [p \in 0 .. FileSize - 1 |-> p]
MCByte == 0 .. FileSize
MCOld == <<FileSize>>
=============================================================================
