-------------------------------- MODULE Utf16 --------------------------------
(***************************************************************************)
(* What Utf8Converter makes of characters: Decode the UTF-16 units of a    *)
(* UTF-8 sequence, Encode the bytes of UTF-16 units.  How Decode finds the *)
(* sequences in its buffers is Utf8Decoder.                                *)
(***************************************************************************)
EXTENDS Utf8, Bits, Functions

CONSTANT
    Strings     \* the UTF-16 strings to encode and decode again

\* A char16_t.
Unit == 0 .. 2 ^ 16 - 1

ASSUME StringsAssumption == Strings \subseteq Seq(Unit)

\* What the provers need to know of the powers that are taken.
ASSUME UnitPowers == \A n \in 0 .. 25 : 2 ^ (n + 1) = 2 * 2 ^ n

VARIABLES
    string,     \* the string in hand
    bytes,      \* what Encode made of it
    back,       \* what Decode made of the bytes
    stage       \* "new", "encoded" or "decoded"

stringVars == <<string, bytes, back, stage>>

IsHigh(u) == u \in 55296 .. 56319       \* 0xd800 .. 0xdbff
IsLow(u) == u \in 56320 .. 57343        \* 0xdc00 .. 0xdfff

\* Two units from place i of a string on that stand for one character.
PairAt(s, i) == i < Len(s) /\ IsHigh(s[i]) /\ IsLow(s[i + 1])
-----------------------------------------------------------------------------
\* The byte with the six bits of a code point from bit n on.
Six(c, n) == 128 + ((c \div 2 ^ n) % 64)

\* Bug: no three byte form, so that its characters lose their high bits.
BytesWithoutThree(c) ==
    IF c < 128 THEN <<c>>
    ELSE IF c < 65536 THEN <<192 + ((c \div 2 ^ 6) % 32), Six(c, 0)>>
    ELSE <<240 + (c \div 2 ^ 18), Six(c, 12), Six(c, 6), Six(c, 0)>>

\* The bytes of a code point.
Bytes(c) ==
    IF c < 128 THEN <<c>>
    ELSE IF c < 2048 THEN <<192 + (c \div 2 ^ 6), Six(c, 0)>>
    ELSE IF c < 65536 THEN <<224 + (c \div 2 ^ 12), Six(c, 6), Six(c, 0)>>
    ELSE <<240 + (c \div 2 ^ 18), Six(c, 12), Six(c, 6), Six(c, 0)>>

\* The code point of a pair.  The sum binds closer than the bitwise or.
PairValue(high, low) == Or(21, (high % 1024) * 1024, (low % 1024) + 65536)

EncodeFrom(s) ==
    LET rest[i \in 1 .. Len(s) + 2] ==
            IF i > Len(s) THEN <<>>
            ELSE IF PairAt(s, i)
                 THEN Bytes(PairValue(s[i], s[i + 1])) \o rest[i + 2]
                 ELSE Bytes(s[i]) \o rest[i + 1]
    IN  rest[1]

AsBytes ==
    /\ stage = "new"
    /\ bytes' = EncodeFrom(string)
    /\ stage' = "encoded"
    /\ UNCHANGED <<string, back>>
-----------------------------------------------------------------------------
\* The payload bits of a sequence from place i on, the first byte's without
\* its leading ones.
CodePoint(b, i) ==
    LET n == NumBytes(b[i])
        value[k \in 1 .. n] ==
            IF k = 1 THEN b[i] % (2 ^ (8 - n))
            ELSE 64 * value[k - 1] + (b[i + k - 1] % 64)
    IN  value[n]

\* Bug: 0x10000 is not subtracted.
UnitsWithoutOffset(c) ==
    IF c < 65535 THEN <<c>>
    ELSE <<Or(16, 55296, c \div 1024), Or(16, 56320, c % 1024)>>

\* 0x10000 is subtracted in 32 bits and the result cut to 16 after a shift by
\* 10 and an or: 26 bits are all of it that can show.
Units(c) ==
    IF c < 65535 THEN <<c>>
    ELSE LET v == (c - 65536) % (2 ^ 26)
         IN  <<Or(16, 55296, v \div 1024), Or(16, 56320, v % 1024)>>

\* Up to a byte that begins nothing: an error, at which Decode stops.
DecodeFrom(b) ==
    LET rest[i \in 1 .. Len(b) + 4] ==
            IF i > Len(b) \/ NumBytes(b[i]) = 0 THEN <<>>
            ELSE Units(CodePoint(b, i)) \o rest[i + NumBytes(b[i])]
    IN  rest[1]

FromEncoding ==
    /\ stage = "encoded"
    /\ back' = DecodeFrom(bytes)
    /\ stage' = "decoded"
    /\ UNCHANGED <<string, bytes>>
-----------------------------------------------------------------------------
StringInit ==
    /\ string \in Strings
    /\ bytes = <<>>
    /\ back = <<>>
    /\ stage = "new"

StringNext == AsBytes \/ FromEncoding

StringSpec == StringInit /\ [][StringNext]_stringVars
-----------------------------------------------------------------------------
\* The standard's value of a pair, and the pairs Encode is right for: bit 6
\* of the high unit, which the subtraction of 0x10000 moved there, is clear.
PairMeaning(high, low) == 65536 + (high - 55296) * 1024 + (low - 56320)

SupportedString(s) ==
    \A i \in 1 .. Len(s) : PairAt(s, i) => (s[i] \div 64) % 2 = 0

\* The characters of a string, unpaired surrogates as they are, and their
\* number of bytes in UTF-8.
Characters(s) ==
    {PairMeaning(s[i], s[i + 1]) : i \in {j \in 1 .. Len(s) : PairAt(s, j)}}
        \cup {s[i] : i \in {j \in 1 .. Len(s) : ~PairAt(s, j) /\
                                (j > 1 => ~PairAt(s, j - 1))}}

IsSequence(b, from, to) ==
    /\ NumBytes(b[from]) = to - from + 1
    /\ \A i \in from + 1 .. to : IsTail(b[i])

(***************************************************************************)
(* Encode gives whole UTF-8 sequences, of the characters of the string,    *)
(* and Decode gives the string again: pairs, unpaired surrogates, and both *)
(* next to each other in any order.                                        *)
(***************************************************************************)
Heads(b) == {i \in 1 .. Len(b) : ~IsTail(b[i])}

Ends(b, from) == {to \in from .. Len(b) : IsSequence(b, from, to)}

EncodesCharacters ==
    stage # "new" /\ SupportedString(string) =>
        /\ \A i \in Heads(bytes) : Ends(bytes, i) # {}
        /\ {CodePoint(bytes, i) : i \in Heads(bytes)} = Characters(string)

\* The unit 0xffff alone does not come back: < 0xffff sends it to the pairs.
RoundTrip ==
    (stage = "decoded" /\ SupportedString(string) /\ 65535 \notin Range(string))
        => back = string

(***************************************************************************)
(* The doc of AsUtf8, "Converts the current string to a UTF-8 encoded      *)
(* string": a pair of surrogates is one character of it, the one the pair  *)
(* stands for.                                                             *)
(***************************************************************************)
EncodesPairs ==
    (stage # "new" /\ Len(string) = 2 /\ PairAt(string, 1))
        => CodePoint(bytes, 1) = PairMeaning(string[1], string[2])
=============================================================================
