---------------------------- MODULE MCSharedFile ----------------------------
(***************************************************************************)
(* SharedFile for TLC: a definition of one type with two integer fields,   *)
(* the second of which lies across the end of the first window.            *)
(***************************************************************************)
EXTENDS SharedFile, TLC

CONSTANT Outer

MCByte == 0 .. FileSize - 1
MCFile == [i \in 0 .. FileSize - 1 |-> i]
MCTypes == {Outer}
MCFields == Outer :> <<[object |-> NoType, size |-> 1],
                       [object |-> NoType, size |-> 2]>>
=============================================================================
