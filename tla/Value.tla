------------------------------- MODULE Value --------------------------------
(***************************************************************************)
(* Value: null, a number, a string or an object (value.h), and the order   *)
(* of values, that of UtfString (utf_string.h) and Number among them.      *)
(*                                                                         *)
(* A string is the sequence of its units, an object the address that its   *)
(* shared_ptr has, 0 for none.                                             *)
(***************************************************************************)
EXTENDS Number, Sequences

CONSTANTS Strings, Objects

ASSUME ValueAssumption ==
    /\ \A s \in Strings : s \in Seq(Nat)
    /\ Objects \subseteq Nat

\* The kinds of value, in the order of ValueType.
Rank == [Null |-> 0, Number |-> 1, String |-> 2, Object |-> 3]

NullValue == [kind |-> "Null", content |-> "none"]
NumberValue(x) == [kind |-> "Number", content |-> x]
StringValue(s) == [kind |-> "String", content |-> s]
ObjectValue(o) == [kind |-> "Object", content |-> o]

Values ==
    {NullValue} \cup {NumberValue(x) : x \in Numbers}
    \cup {StringValue(s) : s \in Strings} \cup {ObjectValue(o) : o \in Objects}

VARIABLE value

ValueInit == value = NullValue

\* Value{v}, and the assignment of it.
AssignNull == value' = NullValue
AssignNumber(T, v) == value' = NumberValue(MakeNumber(T, v))
AssignString(s) == value' = StringValue(s)
AssignObject(o) == value' = ObjectValue(o)

ValueNext ==
    \/ AssignNull
    \/ \E T \in DOMAIN CppValues : \E v \in CppValues[T] : AssignNumber(T, v)
    \/ \E s \in Strings : AssignString(s)
    \/ \E o \in Objects : AssignObject(o)

ValueSpec == ValueInit /\ [][ValueNext]_value
-----------------------------------------------------------------------------
\* basic_string: the first units that differ decide, or else the length.
StringLess(s, t) ==
    \E n \in 0 .. Len(s) :
        /\ n < Len(t)
        /\ \A i \in 1 .. n : s[i] = t[i]
        /\ n = Len(s) \/ s[n + 1] < t[n + 1]

\* Objects are equal if they are the same.
ValueEqual(v, w) ==
    /\ v.kind = w.kind
    /\ IF v.kind = "Number" THEN Equal(v.content, w.content)
       ELSE v.content = w.content

\* The kinds in their order, then the contents; nulls are all the same.
ValueLess(v, w) ==
    \/ Rank[v.kind] < Rank[w.kind]
    \/ /\ v.kind = w.kind
       /\ CASE v.kind = "Null"   -> FALSE
            [] v.kind = "Number" -> Less(v.content, w.content)
            [] v.kind = "String" -> StringLess(v.content, w.content)
            [] v.kind = "Object" -> v.content < w.content

ValueLessEqual(v, w) == ValueEqual(v, w) \/ ValueLess(v, w)
ValueGreater(v, w) == ~ValueLessEqual(v, w)
-----------------------------------------------------------------------------
number == value.content
IsNumberValue == value.kind = "Number"

(***************************************************************************)
(* "Values are compared by value, the signedness is handled like you'd     *)
(* expect": of any two integers, made of any types, with equal and less.   *)
(* It takes that the signed representation is only used below zero.        *)
(***************************************************************************)
IntegersByValue ==
    IsNumberValue /\ number.type # "Double" =>
        \A x \in Numbers :
            x.type # "Double" =>
                /\ Equal(number, x) <=> Halves(number) = Halves(x)
                /\ Less(number, x) <=> Halves(number) < Halves(x)

(***************************************************************************)
(* With doubles, less is never wrong, and misses only numbers that the     *)
(* rounding of an integer makes equal.                                     *)
(***************************************************************************)
ComparesUpToRounding ==
    IsNumberValue /\ IsNumber(number) =>
        \A x \in Numbers : IsNumber(x) =>
            /\ Less(number, x) => Halves(number) < Halves(x)
            /\ Halves(number) < Halves(x) =>
                   Less(number, x) \/ (Equal(number, x) /\ x.type # number.type)
            /\ Halves(number) = Halves(x) => Equal(number, x)

(***************************************************************************)
(* The order of values is one, over all kinds and representations: no      *)
(* value comes before itself, and what comes before what is before a value *)
(* comes before that value.                                                *)
(***************************************************************************)
LessIsOrder ==
    \A v, w \in Values :
        /\ ~ValueLess(value, value)
        /\ ValueLess(value, v) /\ ValueLess(v, w) => ValueLess(value, w)

\* NaN, which is in no relation to any number.
IsNaN(v) == v.kind = "Number" /\ ~IsNumber(v.content)

(***************************************************************************)
(* Of two values, without NaN, the first is less, equal or greater, and    *)
(* only one of them; greater, which is derived from the other two, is less *)
(* the other way round.                                                    *)
(***************************************************************************)
OneRelation ==
    \A v \in Values : ~IsNaN(value) /\ ~IsNaN(v) =>
        /\ ValueGreater(value, v) <=> ValueLess(v, value)
        /\ ~(ValueLess(value, v) /\ ValueEqual(value, v))

\* The values of doubles whose conversion to uintmax_t or, below zero, to
\* intmax_t is defined.
Castable(x) ==
    \/ x.type # "Double"
    \/ x.value \in {-Infinity, Infinity}
    \/ x.value \in Finite /\ Truncated(x.value) \in Lowest("signed") .. Highest("unsigned")

(***************************************************************************)
(* As an integer of either sign, an infinite number, an integer, and a     *)
(* double that fits one of the two types, is the nearest that there is,    *)
(* towards zero.                                                           *)
(***************************************************************************)
ConversionsClamp ==
    IsNumberValue /\ Castable(number) =>
        \A T \in {"unsigned", "signed"} :
            LET whole == Truncated(Halves(number))
            IN  clamp_cast(T, number) =
                    {CASE whole < Lowest(T)  -> Lowest(T)
                       [] whole > Highest(T) -> Highest(T)
                       [] OTHER              -> whole}
=============================================================================
