------------------------- MODULE MCDefinitionParser --------------------------
(***************************************************************************)
(* Files of up to two types and two members, with types and members of     *)
(* the same names, with options and numbers of every form.                 *)
(***************************************************************************)
EXTENDS DefinitionParser

\* int16 as the name of a type shadows the built-in one.
MCTypeNames == {"A", "B", "int16"}

\* A is a type, too.
MCMemberNames == {"A", "x"}

\* Z is never defined.
MCTypeUses == {"int16", "A", "Z"}

MCOptions ==
    {[name |-> "", value |-> "unsigned"],
     [name |-> "", value |-> "Z"],
     [name |-> "signedness", value |-> "signed"],
     [name |-> "signedness", value |-> "little"],
     [name |-> "order", value |-> "network"],
     [name |-> "byte_order", value |-> "little"],
     [name |-> "Z", value |-> "signed"]}

MCOptionLists == UNION {[1 .. n -> MCOptions] : n \in 0 .. 2}

\* A digit of another script.
Other == 16

Plain(digits) == [form |-> "plain", digits |-> digits]

\* 10, 010, 09, 0x10, and 21, which is too much for an int64_t and not for a
\* double; 31 is too much for both.
MCNumbers ==
    {Plain(<<1, 0>>), Plain(<<0, 1, 0>>), Plain(<<0, 9>>), Plain(<<2, 1>>),
     Plain(<<Other>>), Plain(<<1, Other>>),
     [form |-> "hex", digits |-> <<1, 0>>], [form |-> "hex", digits |-> <<Other>>],
     [form |-> "real", digits |-> <<2, 1>>], [form |-> "real", digits |-> <<3, 1>>]}
=============================================================================
