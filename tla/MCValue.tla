------------------------------ MODULE MCValue -------------------------------
(***************************************************************************)
(* Numbers of every representation, on both sides of the limits of each,   *)
(* with a few strings and objects.                                         *)
(***************************************************************************)
EXTENDS Value

\* One the beginning of another, and two that differ in the first unit.
MCStrings == {<<>>, <<1>>, <<1, 2>>, <<2>>}

MCObjects == 0 .. 2
=============================================================================
