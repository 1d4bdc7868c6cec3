------------------------------- MODULE Number --------------------------------
(***************************************************************************)
(* Number: an integer or a double in one of three representations, its     *)
(* comparisons and conversions (number.h, number.cc, templates.h).         *)
(*                                                                         *)
(* Integers have W bits for 64, doubles a mantissa of Mantissa bits for    *)
(* 53.  The value of a double is counted in halves, so that some have a    *)
(* fraction; Infinity is the first number beyond them, and NaN, which is   *)
(* none, the one after it.                                                 *)
(***************************************************************************)
EXTENDS Integers

CONSTANTS
    W,              \* the width of uintmax_t and intmax_t
    Mantissa,       \* the bits a double is exact in, fewer than they have
    MaxExponent     \* the binades of a double, beyond those of uintmax_t

ASSUME NumberAssumption ==
    /\ W \in Nat /\ Mantissa \in 1 .. W - 2
    /\ MaxExponent \in Nat /\ Mantissa + MaxExponent > W + 1

\* Arithmetic, not about the code: what a power of two is, which the provers
\* know nothing of.
ASSUME PowerAssumption ==
    \A n \in 0 .. 2 * W + MaxExponent : 2 ^ (n + 1) = 2 * 2 ^ n

Infinity == 2 ^ (Mantissa + MaxExponent)
NaN == Infinity + 1

Finite ==
    LET positive == {m * 2 ^ e : m \in 0 .. 2 ^ Mantissa - 1, e \in 0 .. MaxExponent}
    IN  positive \cup {-d : d \in positive}

\* The values of the types a Number is made of.
CppValues ==
    [unsigned |-> 0 .. 2 ^ W - 1,
     signed   |-> -(2 ^ (W - 1)) .. 2 ^ (W - 1) - 1,
     floating |-> Finite \cup {-Infinity, Infinity, NaN}]

\* Bug: a signed number is one of its own, whatever its sign.
MakeNumberAsIs(T, v) ==
    [type |-> CASE T = "floating" -> "Double"
                [] T = "signed"   -> "SignedInt"
                [] OTHER          -> "UnsignedInt",
     value |-> v]

\* Number{v} of a v of type T.
MakeNumber(T, v) ==
    [type |-> CASE T = "floating"        -> "Double"
                [] T = "signed" /\ v < 0 -> "SignedInt"
                [] OTHER                 -> "UnsignedInt",
     value |-> v]

Numbers == UNION {{MakeNumber(T, v) : v \in CppValues[T]} : T \in DOMAIN CppValues}
-----------------------------------------------------------------------------
\* An integer as a double: the nearest one, of two the one of even mantissa.
Round(halves) ==
    LET a == IF halves < 0 THEN -halves ELSE halves
        e == CHOOSE k \in 0 .. W + 1 :
                /\ a < 2 ^ (Mantissa + k)
                /\ k > 0 => a >= 2 ^ (Mantissa + k - 1)
        m == a \div 2 ^ e
        rest == 2 * (a % 2 ^ e)
        up == rest > 2 ^ e \/ (rest = 2 ^ e /\ m % 2 = 1)
        d == (IF up THEN m + 1 ELSE m) * 2 ^ e
    IN  IF halves < 0 THEN -d ELSE d

as_double(x) == IF x.type = "Double" THEN x.value ELSE Round(2 * x.value)

\* The comparisons of doubles, all false for NaN.
DoubleEqual(a, b) == a # NaN /\ b # NaN /\ a = b
DoubleLess(a, b) == a # NaN /\ b # NaN /\ a < b

Equal(x, y) ==
    IF "Double" \in {x.type, y.type} THEN DoubleEqual(as_double(x), as_double(y))
    ELSE x.type = y.type /\ x.value = y.value

\* Bug: a number is less only than one of its own representation.
LessSameType(x, y) ==
    IF "Double" \in {x.type, y.type} THEN DoubleLess(as_double(x), as_double(y))
    ELSE x.type = y.type /\ x.value < y.value

\* Bug: doubles are compared to integers as integers.
LessAsInteger(x, y) ==
    IF x.type = "Double" /\ y.type = "Double" THEN DoubleLess(x.value, y.value)
    ELSE LET whole(n) == IF n.type = "Double" THEN n.value \div 2 ELSE n.value
         IN  NaN \notin {x.value, y.value} /\ whole(x) < whole(y)

\* Bug: the integer to the right of a double is not rounded.
LessExactRight(x, y) ==
    IF x.type = "Double" /\ y.type # "Double" THEN DoubleLess(x.value, 2 * y.value)
    ELSE IF y.type = "Double" THEN DoubleLess(as_double(x), y.value)
    ELSE IF x.type = y.type THEN x.value < y.value
    ELSE x.type = "SignedInt"

\* A signed number is below all unsigned ones: it is used for negative ones.
Less(x, y) ==
    IF "Double" \in {x.type, y.type} THEN DoubleLess(as_double(x), as_double(y))
    ELSE IF x.type = y.type THEN x.value < y.value
    ELSE x.type = "SignedInt"
-----------------------------------------------------------------------------
Lowest(T) == IF T = "unsigned" THEN 0 ELSE -(2 ^ (W - 1))
Highest(T) == IF T = "unsigned" THEN 2 ^ W - 1 ELSE 2 ^ (W - 1) - 1

\* Towards zero.
Truncated(halves) ==
    IF halves < 0 THEN -((-halves) \div 2) ELSE halves \div 2

\* static_cast<T>: integers wrap; of a double that does not fit, anything.
StaticCast(T, x) ==
    IF x.type # "Double"
    THEN {v \in Lowest(T) .. Highest(T) : (v - x.value) % 2 ^ W = 0}
    ELSE IF x.value \in Finite /\ Truncated(x.value) \in Lowest(T) .. Highest(T)
         THEN {Truncated(x.value)}
         ELSE Lowest(T) .. Highest(T)

\* Bug: the sign of the destination decides how the source is compared.
clamp_cast_own(T, x) ==
    IF x.value = NaN THEN StaticCast(T, x)
    ELSE IF x.value = Infinity THEN {Highest(T)}
    ELSE IF x.value = -Infinity THEN {Lowest(T)}
    ELSE UNION {IF c > Highest(T) THEN {Highest(T)}
                ELSE IF c < Lowest(T) THEN {Lowest(T)}
                ELSE StaticCast(T, x) : c \in StaticCast(T, x)}

\* clamp_cast<T>: what it may return.
clamp_cast(T, x) ==
    CASE x.value = NaN       -> StaticCast(T, x)
      [] x.value = Infinity  -> {Highest(T)}
      [] x.value = -Infinity -> {Lowest(T)}
      [] x.value > 0 /\ x.value < Infinity ->
            UNION {IF c > Highest(T) THEN {Highest(T)} ELSE StaticCast(T, x) :
                      c \in StaticCast("unsigned", x)}
      [] OTHER ->
            UNION {IF x.value < 0 /\ c < Lowest(T) THEN {Lowest(T)}
                   ELSE StaticCast(T, x) : c \in StaticCast("signed", x)}

as_unsigned(x) == clamp_cast("unsigned", x)
as_signed(x) == clamp_cast("signed", x)
-----------------------------------------------------------------------------
\* The number itself, in halves, apart from its representation.
Halves(x) == IF x.type = "Double" THEN x.value ELSE 2 * x.value

IsNumber(x) == x.value # NaN
=============================================================================
