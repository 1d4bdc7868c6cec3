----------------------------- MODULE MCProgram ------------------------------
(***************************************************************************)
(* A definition file of a few bytes, all different, and a binary file that *)
(* ends within the innermost of the objects in its root.                   *)
(***************************************************************************)
EXTENDS Program, TLC

CONSTANTS Outer, Middle, Inner

MCByte == 0 .. 5
MCFile == [p \in 0 .. FileSize - 1 |-> p]
MCBinary == [p \in 0 .. BinarySize - 1 |-> p]
MCOld == <<FileSize>>
MCTypes == {Outer, Middle, Inner}
Integer(size) == [object |-> NoType, size |-> size]
MCFields ==
    Outer :> <<Integer(2), [object |-> Middle, size |-> 4], Integer(1)>>
        @@ Middle :> <<Integer(1), [object |-> Inner, size |-> 3]>>
        @@ Inner :> <<Integer(1), Integer(2)>>
=============================================================================
