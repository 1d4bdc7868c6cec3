-------------------------- MODULE MCBufferedReader --------------------------
(***************************************************************************)
(* BufferedReader on a file longer than the buffer, for TLC.  Every byte   *)
(* of the file is different, so that a byte out of place shows.            *)
(***************************************************************************)
EXTENDS BufferedReader

MCByte == 0 .. FileSize - 1
MCFile == [i \in 0 .. FileSize - 1 |-> i]
=============================================================================
