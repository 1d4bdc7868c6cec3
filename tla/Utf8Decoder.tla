----------------------------- MODULE Utf8Decoder -----------------------------
(***************************************************************************)
(* Utf8Converter::Decode: a text that comes in pieces of any size, one per *)
(* call, and a sequence that a piece ends in the middle of kept in temp    *)
(* for the next call.  Each turn of the loop of Decode is a step.          *)
(*                                                                         *)
(* The pieces are given as stretches of one text: the buffer of the call   *)
(* in progress is the size bytes of it that follow the first base.  What   *)
(* the sequences stand for is Utf16.                                       *)
(***************************************************************************)
EXTENDS Utf8, Sums

CONSTANT
    Texts       \* the texts to decode, as sequences of bytes

ASSUME TextsAssumption == Texts \subseteq Seq(0 .. 255)

VARIABLES
    text,       \* the text that comes in pieces
    base,       \* its bytes given by earlier calls
    size,       \* the bytes in the buffer of the last call
    offset,     \* those of them done with
    temp,       \* temp_
    used,       \* temp_used_
    decoding,   \* a call is in progress
    status,     \* what the last call returned
    errorAt,    \* what it added to error->offset
    output,     \* the sequences decoded
    givenUp     \* history: the bytes that Reset has given up

buffer == <<text, base, size>>
decoderVars ==
    <<text, base, size, offset, temp, used, decoding, status, errorAt, output,
      givenUp>>

DecoderInit ==
    /\ text \in Texts
    /\ base = 0
    /\ size = 0
    /\ offset = 0
    /\ temp = [i \in 0 .. 3 |-> 0]
    /\ used = 0
    /\ decoding = FALSE
    /\ status = "Success"
    /\ errorAt = 0
    /\ output = <<>>
    /\ givenUp = 0

Given == base + size

\* A call with the next n bytes.  A client whose call failed resets first.
Decode(n) ==
    /\ ~decoding
    /\ status = "Success"
    /\ Given + n <= Len(text)
    /\ base' = Given
    /\ size' = n
    /\ offset' = 0
    /\ decoding' = TRUE
    /\ errorAt' = 0
    /\ UNCHANGED <<text, temp, used, status, output, givenUp>>

\* Reset: what was held and, after an error, not yet looked at is given up.
Reset ==
    /\ ~decoding
    /\ used' = 0
    /\ status' = "Success"
    /\ offset' = size
    /\ givenUp' = givenUp + used + (size - offset)
    /\ UNCHANGED <<buffer, temp, decoding, errorAt, output>>
-----------------------------------------------------------------------------
More == used > 0 \/ offset < size

\* Byte i of the sequence in hand: the first ones held, the rest in the buffer.
Cur(i) == IF i < used THEN temp[i] ELSE text[base + offset + (i - used) + 1]

Complete == NumBytes(Cur(0)) <= size - offset + used

TailsUpTo(n) == \A i \in 1 .. n : IsTail(Cur(i))

Return(result) ==
    /\ decoding' = FALSE
    /\ status' = result

Error(at) ==
    /\ Return("Error")
    /\ errorAt' = at
    /\ UNCHANGED <<buffer, offset, temp, used, output, givenUp>>

InvalidHead ==
    /\ decoding /\ More
    /\ NumBytes(Cur(0)) = 0
    /\ Error(offset)

\* temp with the rest of the buffer behind the bytes held.
Held == [i \in 0 .. 3 |-> IF i \in used .. used + size - offset - 1
                          THEN Cur(i) ELSE temp[i]]

\* Bug: the rest of the buffer goes to the front of temp.
HoldInFront ==
    /\ decoding /\ More
    /\ ~Complete
    /\ temp' = [i \in 0 .. 3 |-> IF i < size - offset
                                 THEN Cur(used + i) ELSE temp[i]]
    /\ used' = used + size - offset
    /\ offset' = size
    /\ Return("Success")
    /\ UNCHANGED <<buffer, errorAt, output, givenUp>>

\* Bug: the rest of the buffer is not kept.
HoldDrops ==
    /\ decoding /\ More
    /\ ~Complete
    /\ used' = 0
    /\ offset' = size
    /\ Return("Success")
    /\ UNCHANGED <<buffer, temp, errorAt, output, givenUp>>

\* Bug: no break.
HoldGoesOn ==
    /\ decoding /\ More
    /\ ~Complete
    /\ temp' = Held
    /\ used' = used + size - offset
    /\ offset' = size
    /\ UNCHANGED <<buffer, decoding, status, errorAt, output, givenUp>>

\* The sequence is not complete: what there is of it is kept.
Hold ==
    /\ decoding /\ More
    /\ ~Complete
    /\ temp' = Held
    /\ used' = used + size - offset
    /\ offset' = size
    /\ Return("Success")
    /\ UNCHANGED <<buffer, errorAt, output, givenUp>>

\* Bug: i counts from 0 for the bytes behind the first.
InvalidTailBefore ==
    /\ decoding /\ More
    /\ Complete
    /\ \E i \in 1 .. NumBytes(Cur(0)) - 1 :
          /\ ~IsTail(Cur(i))
          /\ TailsUpTo(i - 1)
          /\ Error(offset + i - 1)

InvalidTail ==
    /\ decoding /\ More
    /\ Complete
    /\ \E i \in 1 .. NumBytes(Cur(0)) - 1 :
          /\ ~IsTail(Cur(i))
          /\ TailsUpTo(i - 1)
          /\ Error(offset + i)

Sequence ==
    /\ decoding /\ More
    /\ Complete
    /\ NumBytes(Cur(0)) # 0
    /\ TailsUpTo(NumBytes(Cur(0)) - 1)
    /\ output' = Append(output, [i \in 1 .. NumBytes(Cur(0)) |-> Cur(i - 1)])
    /\ offset' = offset + NumBytes(Cur(0)) - used
    /\ used' = 0
    /\ UNCHANGED <<buffer, temp, decoding, status, errorAt, givenUp>>

AtEnd ==
    /\ decoding /\ ~More
    /\ Return("Success")
    /\ UNCHANGED <<buffer, offset, temp, used, errorAt, output, givenUp>>

Turn == InvalidHead \/ Hold \/ InvalidTail \/ Sequence \/ AtEnd

DecoderNext ==
    \/ \E n \in 0 .. Len(text) : Decode(n)
    \/ Reset
    \/ Turn

\* A call in progress goes on; nothing makes the client call again.
DecoderSpec ==
    DecoderInit /\ [][DecoderNext]_decoderVars /\ WF_decoderVars(Turn)
-----------------------------------------------------------------------------
\* The bytes in the output, and those that Reset gave up.
Done == Total([i \in 1 .. Len(output) |-> Len(output[i])]) + givenUp

DecoderTypeOK ==
    /\ text \in Texts
    /\ base \in Nat /\ size \in Nat
    /\ Given <= Len(text)
    /\ offset \in 0 .. size
    /\ temp \in [0 .. 3 -> 0 .. 255]
    /\ used \in 0 .. 3
    /\ decoding \in BOOLEAN
    /\ status \in {"Success", "Error"}
    /\ errorAt \in 0 .. size + 3
    /\ output \in Seq(Seq(0 .. 255))
    /\ givenUp \in Nat

(***************************************************************************)
(* The bytes held are those of the text right behind the ones decoded or   *)
(* given up, in their order, and are fewer than their first announces,     *)
(* however small the pieces: so they fit temp_, and the next bytes         *)
(* continue them.                                                          *)
(***************************************************************************)
HeldIsPartial ==
    /\ \A i \in 0 .. used - 1 : temp[i] = text[Done + i + 1]
    /\ used > 0 => used < NumBytes(temp[0])
    /\ used > 0 /\ decoding => offset = 0
    /\ decoding => status = "Success"

(***************************************************************************)
(* Every byte given is in the output, given up by Reset, held, or in the   *)
(* buffer and still to come; and none is still to come when a call has     *)
(* succeeded.  None is lost where a piece ends.                            *)
(***************************************************************************)
AllTaken ==
    /\ Done + used + (size - offset) = Given
    /\ ~decoding /\ status = "Success" => Done + used = Given

(***************************************************************************)
(* A text decodes to the same sequences, and fails at the same one,        *)
(* however it is cut into calls.  Nothing but Reset changes givenUp, so    *)
(* that no other step can be a Restart.                                    *)
(***************************************************************************)
Text == INSTANCE Utf8Text WITH done <- Done, ok <- status = "Success"

ImplementsText == Text!TextSpec

(***************************************************************************)
(* Every call of Decode returns: each turn of its loop takes bytes from    *)
(* the buffer or ends it.                                                  *)
(***************************************************************************)
DecodeReturns == decoding ~> ~decoding

(***************************************************************************)
(* A failed call adds to the offset of the error the place in its buffer   *)
(* of the first byte that is wrong, and the number of bytes held before    *)
(* it: those count as bytes of the buffer.  The wrong byte may be one of   *)
(* those held, which nothing has looked at when they were.                 *)
(***************************************************************************)
ErrorAtWrongByte ==
    status = "Error" =>
        LET n == NumBytes(text[Done + 1])
            at == base + errorAt - used
        IN  IF n = 0 THEN errorAt = offset
            ELSE /\ at \in Done + 1 .. Done + n - 1
                 /\ ~IsTail(text[at + 1])
                 /\ \A i \in Done + 1 .. at - 1 : IsTail(text[i + 1])
=============================================================================
