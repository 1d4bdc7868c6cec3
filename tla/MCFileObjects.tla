---------------------------- MODULE MCFileObjects ---------------------------
(***************************************************************************)
(* Three types, one in the other, for TLC: the innermost object is read in *)
(* the middle of the one that holds it, and the file ends before the last  *)
(* field of that one.                                                      *)
(***************************************************************************)
EXTENDS Json, TLC

CONSTANTS Outer, Middle, Inner

MCByte == 0 .. FileSize - 1
MCFile == [i \in 0 .. FileSize - 1 |-> i]
MCTypes == {Outer, Middle, Inner}
Integer(size) == [object |-> NoType, size |-> size]
MCFields ==
    Outer :> <<Integer(1), [object |-> Middle, size |-> 4]>>
        @@ Middle :> <<[object |-> Inner, size |-> 3], Integer(1)>>
        @@ Inner :> <<Integer(1), Integer(2)>>
MCRequests == {8, 16}
MCPositions == {}
=============================================================================
