------------------------------ MODULE OptionSet ------------------------------
(***************************************************************************)
(* The options of one use of a type, as int16<unsigned, order=little>: the *)
(* table of them (options.cc) and the set that collects and resolves them  *)
(* (option_set.cc).                                                        *)
(*                                                                         *)
(* An option as written is [name, value], name "" when it has none; one in *)
(* the set is [at, type, value], at its place in the list.  What is wrong  *)
(* with one is a flaw: the kind and the arguments of the error to add.     *)
(***************************************************************************)
EXTENDS Integers, FiniteSets, SequencesExt

OptionTypes == {"Signedness", "ByteOrder"}

\* kOptionData.
OptionData ==
    [Signedness |-> [signed |-> "Signed", unsigned |-> "Unsigned"],
     ByteOrder  |-> [big |-> "BigEndian", network |-> "BigEndian",
                     little |-> "LittleEndian"]]

GetOptionType(name) ==
    CASE name = "signedness"             -> "Signedness"
      [] name \in {"byte_order", "order"} -> "ByteOrder"
      [] OTHER                           -> "Unknown"

\* to_string.
to_string(t) ==
    CASE t = "Signedness" -> "signedness"
      [] t = "ByteOrder"  -> "byte_order"
      [] OTHER            -> "Unknown"

Flaw(at, kind, args) == [at |-> at, kind |-> kind, args |-> args]

Unset == [t \in OptionTypes |-> "Unset"]

SetOption(options, t, setting) == [options EXCEPT ![t] = setting]
GetOption(options, t, default) ==
    IF options[t] = "Unset" THEN default ELSE options[t]

\* ParseOption: the options among types that have the value; no types means
\* all.  One is a success, none an unknown string, two an ambiguity.
ParseOption(types, value) ==
    {t \in OptionTypes : /\ types = {} \/ t \in types
                         /\ value \in DOMAIN OptionData[t]}
-----------------------------------------------------------------------------
\* AddStatic, for the option types that the set has: a second option of the
\* same type is an error, and left out.
IsDuplicate(set, opt) ==
    opt.type # "Unknown" /\ \E i \in 1 .. Len(set) : set[i].type = opt.type

AddStatic(set, opt) == IF IsDuplicate(set, opt) THEN set ELSE Append(set, opt)
-----------------------------------------------------------------------------
Found(opt, valid) ==
    ParseOption(IF opt.type = "Unknown" THEN valid ELSE {opt.type}, opt.value)

\* Bug: a message that names value and type is given the value only.
OptionFlawsOfValue(opt, valid) ==
    IF Found(opt, valid) # {} THEN {}
    ELSE {Flaw(opt.at, IF opt.type = "Unknown" THEN "UnknownOptionValue"
                       ELSE "UnknownOptionValueTyped", <<opt.value>>)}

\* AddOption: what it finds wrong, if anything.
OptionFlaws(opt, valid) ==
    LET found == Found(opt, valid)
        flaw(kind, args) == {Flaw(opt.at, kind, args)}
    IN  CASE found = {} ->
                IF opt.type = "Unknown"
                THEN flaw("UnknownOptionValue", <<opt.value>>)
                ELSE flaw("UnknownOptionValueTyped",
                          <<opt.value, to_string(opt.type)>>)
          [] Cardinality(found) > 1 -> flaw("AmbiguousOption", <<opt.value>>)
          [] valid # {} /\ ~(found \subseteq valid) ->
                flaw("OptionInvalidForType",
                     <<to_string(CHOOSE t \in found : TRUE)>>)
          [] OTHER -> {}

AddOption(options, opt, valid) ==
    IF OptionFlaws(opt, valid) # {} THEN options
    ELSE LET t == CHOOSE found \in Found(opt, valid) : TRUE
         IN  SetOption(options, t, OptionData[t][opt.value])

\* Bug: the first of several settings of one option stays.
BuildStaticOptionsFirst(set, valid) ==
    LET from[n \in 1 .. Len(set) + 1] ==
            IF n > Len(set) THEN Unset ELSE AddOption(from[n + 1], set[n], valid)
    IN  from[1]

\* BuildStaticOptions: all of the set in order, whatever fails.
BuildStaticOptions(set, valid) ==
    LET upto[n \in 0 .. Len(set)] ==
            IF n = 0 THEN Unset ELSE AddOption(upto[n - 1], set[n], valid)
    IN  upto[Len(set)]

BuildFlaws(set, valid) ==
    UNION {OptionFlaws(set[i], valid) : i \in 1 .. Len(set)}
=============================================================================
