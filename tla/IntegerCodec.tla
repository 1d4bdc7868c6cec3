---------------------------- MODULE IntegerCodec ----------------------------
(***************************************************************************)
(* IntegerTypeInfo::ReadValue between GetBuffer and Skip: how the bits of   *)
(* an integer field become a number.  The uint64_t it computes in is a     *)
(* word of W bits here, W a multiple of 8, so that TLC can hold it; every  *)
(* 64 of the source that is the width of that word is W.                   *)
(***************************************************************************)
EXTENDS Size, Sequences, Bits

CONSTANTS
    W,          \* the width of the word computed in
    Inputs      \* the reads to perform: records of the fields below

\* An input: the integer's size in bits, signedness and byte order, the bit
\* offset of the read position, and the bytes GetBuffer gave from there.
Orders == {"Unset", "LittleEndian", "BigEndian"}
Signs == {"Unset", "Signed", "Unsigned"}

ASSUME CodecAssumption ==
    /\ W \in Nat /\ W % 8 = 0 /\ W > 0
    /\ Inputs \subseteq [size : 1 .. W, offset : 0 .. 7, sign : Signs,
                         order : Orders, bytes : Seq(0 .. 255)]

\* What the provers need to know of the powers that are taken.
ASSUME WordPowers == \A n \in 0 .. W - 1 : 2 ^ (n + 1) = 2 * 2 ^ n

VARIABLES
    input,      \* the read in hand
    outcome     \* what ReadValue makes of it

codecVars == <<input, outcome>>

Shl(v, n) == (v * 2 ^ (n % W)) % 2 ^ W      \* what the shifter does past W
Shr(v, n) == v \div 2 ^ n
-----------------------------------------------------------------------------
\* The bits used in the last byte, and the bytes the field lies in.
FinalBits(in) == (in.offset + in.size) % 8

ByteSpan(in) ==
    ByteCount(in.offset + in.size) + (IF FinalBits(in) # 0 THEN 1 ELSE 0)

\* The part of the first byte behind the bit offset.
FirstByte(in) ==
    LET end == IF in.size + in.offset < 8 THEN in.size + in.offset ELSE 8
    IN  IF in.offset = 0 THEN 0
        ELSE Shr(in.bytes[1] % 2 ^ (8 - in.offset), 8 - end)

\* The loop over the whole bytes, from the first or the second one on.
WholeBytes(in) ==
    LET first == IF in.offset # 0 THEN 1 ELSE 0
        count == ByteSpan(in) - first - (IF FinalBits(in) # 0 THEN 1 ELSE 0)
        value[n \in 0 .. count] ==
            IF n = 0 THEN FirstByte(in)
            ELSE IF in.order = "LittleEndian"
                 THEN Or(W, value[n - 1],
                         Shl(in.bytes[first + n], 8 * (first + n - 1)))
                 ELSE Or(W, Shl(value[n - 1], 8), in.bytes[first + n])
    IN  IF count > 0 THEN value[count] ELSE FirstByte(in)

\* The bits of the last byte, if the field ends within one.
LastByte(in) ==
    IF FinalBits(in) # 0 /\ ByteSpan(in) # 1
    THEN Or(W, Shl(WholeBytes(in), FinalBits(in)),
            Shr(in.bytes[ByteSpan(in)], FinalBits(in)))
    ELSE WholeBytes(in)

AsSigned(v) == IF v < 2 ^ (W - 1) THEN v ELSE v - 2 ^ W

\* Bug: no special case for a field as wide as the word.
SignFillAlways(in, v) ==
    Or(W, v, 2 ^ W - 1 - ((Shl(1, in.size) - 1) % 2 ^ W))

\* ~((1 << size) - 1), which cannot be shifted for a field of a whole word.
SignFill(in, v) ==
    IF in.size # W THEN Or(W, v, 2 ^ W - 1 - (Shl(1, in.size) - 1)) ELSE v

Number(in) ==
    LET v == LastByte(in)
    IN  IF in.sign = "Signed" /\ Shr(v, in.size - 1) % 2 = 1
        THEN AsSigned(SignFill(in, v))
        ELSE v

Decoded(in) ==
    IF in.order = "LittleEndian" /\ (in.offset # 0 \/ FinalBits(in) # 0)
    THEN [error |-> "LittleEndianAlign"]
    ELSE IF Len(in.bytes) < ByteSpan(in)
         THEN [error |-> "UnexpectedEndOfStream"]
         ELSE [value |-> Number(in)]
-----------------------------------------------------------------------------
Pending == [error |-> "pending"]

CodecInit ==
    /\ input \in Inputs
    /\ outcome = Pending

ReadValue ==
    /\ outcome = Pending
    /\ outcome' = Decoded(input)
    /\ UNCHANGED input

CodecNext == ReadValue

CodecSpec == CodecInit /\ [][CodecNext]_codecVars
-----------------------------------------------------------------------------
(***************************************************************************)
(* What the number should be, apart from how it is computed: the field is  *)
(* a string of bits of the file, most significant first, whole bytes of it *)
(* in reverse when little endian; a signed one is in two's complement.     *)
(***************************************************************************)
FileBit(in, i) ==
    LET byte == ByteCount(in.offset + i)
        at   == IF in.order = "LittleEndian" THEN ByteSpan(in) - byte ELSE byte + 1
    IN  (in.bytes[at] \div 2 ^ (7 - BitOffset(in.offset + i))) % 2

Meaning(in) ==
    LET bits[n \in 0 .. in.size] ==
            IF n = 0 THEN 0 ELSE 2 * bits[n - 1] + FileBit(in, n - 1)
        v == bits[in.size]
    IN  IF in.sign = "Signed" /\ v >= 2 ^ (in.size - 1)
        THEN v - 2 ^ in.size ELSE v

\* The end of the file cuts the field short.
Cut(in) == in.offset + in.size > 8 * Len(in.bytes)

Reads(in, out) ==
    IF in.order = "LittleEndian" /\ (in.offset # 0 \/ in.size % 8 # 0)
    THEN out.error = "LittleEndianAlign"
    ELSE IF Cut(in) THEN out.error = "UnexpectedEndOfStream"
         ELSE out = [value |-> Meaning(in)]

\* The fields the code is right for: ending with a byte, in the middle of a
\* byte they do not start in, or in the byte they start in, behind its
\* first bit.
Supported(in) ==
    \/ FinalBits(in) = 0
    \/ FinalBits(in) = 4 /\ in.offset + in.size > 8
    \/ in.offset # 0 /\ in.offset + in.size < 8

(***************************************************************************)
(* Supported fields, those of the built-in types at any whole byte among   *)
(* them, read as the number their bits mean, in either byte order, with    *)
(* the sign filled in; a field cut short by the end of the file or a       *)
(* little endian one that is not whole bytes is the error it should be.    *)
(***************************************************************************)
ReadsMeaning ==
    outcome # Pending /\ Supported(input) => Reads(input, outcome)
=============================================================================
