---------------------------- MODULE CodecProofs ----------------------------
(***************************************************************************)
(* Proofs about the codecs.                                                *)
(*                                                                         *)
(* Utf8Decoder decodes every text as a whole, however it is cut into       *)
(* calls: it implements Utf8Text.  What carries the proof is that the      *)
(* bytes held are those of the text right before the buffer                *)
(* (HeldIsPartial): then byte i of the sequence in hand is byte i of the   *)
(* text after what is done, whichever of temp and the buffer it is taken   *)
(* from (lemma CurIsText).  What is done is counted in the output, and so  *)
(* where the decoder stands in the text is a fact to be shown (lemma       *)
(* DoneIsPlace).                                                           *)
(*                                                                         *)
(* IntegerCodec reads every field it supports as the number its bits mean, *)
(* whatever the width of the word; Utf16 makes of every string it supports *)
(* the sequences of its characters, and the string again of those.  Both   *)
(* rest on what the bitwise or of numbers without a common bit is: their   *)
(* sum (lemma OrAdds).                                                     *)
(***************************************************************************)
EXTENDS Utf8Decoder, Utf16, IntegerCodec, Induction, SequenceTheorems, TLAPS

\* A byte that is wrong is among those given.
ErrorIsAhead == status = "Error" => Done < Given

DecoderInv ==
    /\ DecoderTypeOK
    /\ HeldIsPartial
    /\ AllTaken
    /\ ErrorIsAhead

-----------------------------------------------------------------------------
LEMMA NumBytesRange ==
  ASSUME NEW b
  PROVE  NumBytes(b) \in 0 .. 4
BY DEF NumBytes

\* A text is made of bytes.
LEMMA TextBytes ==
  ASSUME text \in Texts
  PROVE  /\ text \in Seq(0 .. 255)
         /\ Len(text) \in Nat
         /\ \A j \in 1 .. Len(text) : text[j] \in 0 .. 255
BY TextsAssumption, ElementOfSeq, LenProperties

\* The bytes in the output are counted, and those of one more sequence added.
LEMMA OutputGrows ==
  ASSUME NEW o \in Seq(Seq(0 .. 255)), NEW x \in Seq(0 .. 255)
  PROVE  /\ Total([i \in 1 .. Len(o) |-> Len(o[i])]) \in Nat
         /\ Total([i \in 1 .. Len(Append(o, x)) |-> Len(Append(o, x)[i])])
              = Total([i \in 1 .. Len(o) |-> Len(o[i])]) + Len(x)
<1> DEFINE s == [i \in 1 .. Len(o) |-> Len(o[i])]
           a == Append(o, x)
           t == [i \in 1 .. Len(a) |-> Len(a[i])]
<1>1. /\ a \in Seq(Seq(0 .. 255))
      /\ Len(o) \in Nat /\ Len(a) = Len(o) + 1
      /\ a[Len(a)] = x
      /\ \A i \in 1 .. Len(o) : a[i] = o[i]
  BY AppendProperties, LenProperties
<1>2. \A i \in 1 .. Len(a) : a[i] \in Seq(0 .. 255)
  BY <1>1, ElementOfSeq
<1>3. \A i \in 1 .. Len(a) : Len(a[i]) \in Nat
  BY <1>2, LenProperties
<1> HIDE DEF a
<1>4. s \in Seq(Nat) /\ t \in Seq(Nat) /\ Len(s) = Len(o) /\ Len(t) = Len(a)
  <2>1. \A i \in 1 .. Len(o) : i \in 1 .. Len(a) /\ Len(o[i]) \in Nat
    BY <1>1, <1>3
  <2> QED BY <1>1, <1>3, <2>1
<1>5. \A i \in 1 .. Len(t) : t[i] \in Nat
  BY <1>3, <1>4
<1>6. \A i \in 1 .. Len(s) : t[i] = s[i]
  BY <1>1, <1>4
<1>7. t[Len(t)] = Len(x)
  <2>1. Len(a) \in 1 .. Len(a)
    BY <1>1
  <2> QED BY <1>1, <1>4, <2>1
<1> HIDE DEF s, t
<1>8. Total(s) \in Nat /\ Total(t) = Total(s) + t[Len(t)]
  BY <1>1, <1>4, <1>5, <1>6, TotalOfOneMore
<1> QED BY <1>7, <1>8 DEF s, t, a

\* What is done is what the text has before the bytes held.
LEMMA DoneIsPlace ==
  ASSUME DecoderInv
  PROVE  Done \in Nat /\ Done = base + offset - used
<1>1. PICK n \in Nat : n = Total([i \in 1 .. Len(output) |-> Len(output[i])])
  <2>1. output \in Seq(Seq(0 .. 255)) /\ <<>> \in Seq(0 .. 255)
    BY DEF DecoderInv, DecoderTypeOK
  <2> QED BY <2>1, OutputGrows
<1>2. Done = n + givenUp /\ givenUp \in Nat
  BY <1>1 DEF Done, DecoderInv, DecoderTypeOK
<1>3. /\ Done + used + (size - offset) = base + size
      /\ base \in Nat /\ size \in Nat /\ offset \in 0 .. size /\ used \in 0 .. 3
  BY DEF DecoderInv, DecoderTypeOK, AllTaken, Given
<1>4. Done \in Nat
  BY <1>2
<1> QED BY <1>3, <1>4

\* The sequence in hand is the text after what is done.
LEMMA CurIsText ==
  ASSUME DecoderInv, decoding, NEW i \in 0 .. used + size - offset - 1
  PROVE  /\ Done \in Nat
         /\ Done + i + 1 \in 1 .. Len(text)
         /\ Cur(i) = text[Done + i + 1]
         /\ Cur(i) \in 0 .. 255
<1> USE DEF DecoderInv, DecoderTypeOK, HeldIsPartial, Given
<1>1. Done \in Nat /\ Done = base + offset - used
  BY DoneIsPlace
<1>2. Done + i + 1 \in 1 .. Len(text)
  BY <1>1, TextBytes
<1>3. Cur(i) = text[Done + i + 1]
  <2>1. CASE i < used
    BY <2>1 DEF Cur
  <2>2. CASE ~(i < used)
    <3>1. base + offset + (i - used) + 1 = Done + i + 1
      BY <1>1
    <3> QED BY <2>2, <3>1 DEF Cur
  <2> QED BY <2>1, <2>2
<1> QED BY <1>1, <1>2, <1>3, TextBytes

\* A turn of the loop has a first byte to look at.
LEMMA HeadIsText ==
  ASSUME DecoderInv, decoding, More
  PROVE  /\ 0 \in 0 .. used + size - offset - 1
         /\ Done \in Nat
         /\ Done < Len(text)
         /\ Cur(0) = text[Done + 1]
<1>1. 0 \in 0 .. used + size - offset - 1
  BY DEF DecoderInv, DecoderTypeOK, More
<1>2. /\ Done \in Nat
      /\ Done + 0 + 1 \in 1 .. Len(text)
      /\ Cur(0) = text[Done + 0 + 1]
  BY <1>1, CurIsText
<1>3. Len(text) \in Nat
  BY TextBytes DEF DecoderInv, DecoderTypeOK
<1> QED BY <1>1, <1>2, <1>3
-----------------------------------------------------------------------------
\* Nothing is done at first.
LEMMA NothingDone ==
  ASSUME output = <<>>, givenUp = 0
  PROVE  Done = 0
<1>1. Len([i \in 1 .. Len(output) |-> Len(output[i])]) = 0
  BY EmptySeq
<1>2. Total([i \in 1 .. Len(output) |-> Len(output[i])]) = 0
  <2> DEFINE s == [i \in 1 .. Len(output) |-> Len(output[i])]
  <2> HIDE DEF s
  <2>1. Len(s) = 0 => Total(s) = 0
    <3>1. Len(s) = 0 => Len(s) \in Nat /\ \A n \in 1 .. Len(s) : s[n] \in Nat
      OBVIOUS
    <3> QED BY <3>1, TotalIs
  <2> QED BY <1>1, <2>1 DEF s
<1> QED BY <1>2 DEF Done

LEMMA InitDecoderInv == DecoderInit => DecoderInv
<1> SUFFICES ASSUME DecoderInit PROVE DecoderInv
  OBVIOUS
<1>1. Len(text) \in Nat
  BY TextBytes DEF DecoderInit
<1>2. output \in Seq(Seq(0 .. 255))
  BY DEF DecoderInit
<1>3. temp \in [0 .. 3 -> 0 .. 255]
  BY DEF DecoderInit
<1>4. DecoderTypeOK
  <2>1. /\ text \in Texts
        /\ base = 0 /\ size = 0 /\ offset = 0 /\ used = 0 /\ errorAt = 0
        /\ decoding = FALSE /\ status = "Success" /\ givenUp = 0
    BY DEF DecoderInit
  <2>2. decoding \in BOOLEAN
    BY <2>1
  <2>3. /\ base \in Nat /\ size \in Nat /\ used \in 0 .. 3
        /\ offset \in 0 .. size /\ errorAt \in 0 .. size + 3
        /\ Given <= Len(text)
    BY <1>1, <2>1 DEF Given
  <2> QED BY <1>2, <1>3, <2>1, <2>2, <2>3 DEF DecoderTypeOK
<1>5. HeldIsPartial
  BY DEF DecoderInit, HeldIsPartial
<1>6. Done = 0
  BY NothingDone DEF DecoderInit
<1>7. AllTaken
  BY <1>6 DEF DecoderInit, AllTaken, Given
<1>8. ErrorIsAhead
  BY DEF DecoderInit, ErrorIsAhead
<1> QED BY <1>4, <1>5, <1>7, <1>8 DEF DecoderInv

LEMMA DecodeKeepsInv ==
  ASSUME DecoderInv, NEW n \in 0 .. Len(text), Decode(n)
  PROVE  DecoderInv'
<1>1. Done' = Done
  BY DEF Decode, Done
<1>2. Done \in Nat /\ Done + used = Given
  BY DoneIsPlace DEF Decode, DecoderInv, AllTaken
<1> QED BY <1>1, <1>2, TextBytes
        DEF Decode, DecoderInv, DecoderTypeOK, HeldIsPartial, AllTaken, ErrorIsAhead, Given

\* Reset is done with all that was given.
LEMMA ResetGivesUp ==
  ASSUME DecoderInv, Reset
  PROVE  Done' = Done + used + (size - offset)
<1>1. PICK m : m = Total([i \in 1 .. Len(output) |-> Len(output[i])])
  OBVIOUS
<1>2. Done = m + givenUp /\ Done' = m + (givenUp + used + (size - offset))
  BY <1>1 DEF Reset, Done
<1>3. m \in Nat
  <2>1. output \in Seq(Seq(0 .. 255)) /\ <<>> \in Seq(0 .. 255)
    BY DEF DecoderInv, DecoderTypeOK
  <2> QED BY <1>1, <2>1, OutputGrows
<1> QED BY <1>2, <1>3 DEF DecoderInv, DecoderTypeOK

LEMMA ResetKeepsInv == ASSUME DecoderInv, Reset PROVE DecoderInv'
<1>1. Done' = Done + used + (size - offset) /\ Done \in Nat
  BY ResetGivesUp, DoneIsPlace
<1> QED BY <1>1 DEF Reset, DecoderInv, DecoderTypeOK, HeldIsPartial, AllTaken,
                    ErrorIsAhead, Given, buffer

LEMMA ErrorKeepsInv ==
  ASSUME DecoderInv, decoding, More, NEW at \in 0 .. size + 3, Error(at)
  PROVE  DecoderInv'
<1>1. Done' = Done /\ Given' = Given
  BY DEF Error, Done, Given, buffer
<1>2. Done < Given
  BY DoneIsPlace DEF More, Given, DecoderInv, DecoderTypeOK
<1> QED BY <1>1, <1>2 DEF Error, Return, DecoderInv, DecoderTypeOK, HeldIsPartial,
                          AllTaken, ErrorIsAhead, buffer

\* Fewer bytes are held than the first of them announces, at most 3.
LEMMA HoldKeepsInv == ASSUME DecoderInv, Hold PROVE DecoderInv'
<1>1. /\ decoding /\ More /\ ~Complete
      /\ temp' = Held
      /\ used' = used + size - offset
      /\ offset' = size
      /\ decoding' = FALSE /\ status' = "Success"
      /\ UNCHANGED <<text, base, size, errorAt, output, givenUp>>
  BY DEF Hold, Return, buffer
<1>2. /\ Done \in Nat
      /\ NumBytes(Cur(0)) \in 0 .. 4
      /\ used + size - offset < NumBytes(Cur(0))
      /\ used + size - offset \in 1 .. 3
  BY <1>1, HeadIsText, NumBytesRange DEF Complete, DecoderInv, DecoderTypeOK
<1>3. ASSUME NEW i \in 0 .. used + size - offset - 1
      PROVE  Held[i] = Cur(i) /\ Cur(i) \in 0 .. 255 /\ Cur(i) = text[Done + i + 1]
  <2>1. i \in 0 .. 3
    BY <1>2 DEF DecoderInv, DecoderTypeOK
  <2>2. Cur(i) \in 0 .. 255 /\ Cur(i) = text[Done + i + 1]
    <3>1. decoding
      BY <1>1
    <3> QED BY <3>1, CurIsText
  <2>3. CASE i \in used .. used + size - offset - 1
    BY <2>1, <2>2, <2>3 DEF Held
  <2>4. CASE ~(i \in used .. used + size - offset - 1)
    <3>1. i < used
      BY <2>4 DEF DecoderInv, DecoderTypeOK
    <3>2. Held[i] = temp[i]
      BY <2>1, <2>4 DEF Held
    <3>3. Cur(i) = temp[i]
      BY <3>1 DEF Cur
    <3> QED BY <2>2, <3>2, <3>3
  <2> QED BY <2>3, <2>4
<1>4. Held \in [0 .. 3 -> 0 .. 255]
  <2> SUFFICES ASSUME NEW i \in 0 .. 3 PROVE Held[i] \in 0 .. 255
    BY DEF Held
  <2>1. CASE i \in used .. used + size - offset - 1
    <3>1. i \in 0 .. used + size - offset - 1
      BY <2>1 DEF DecoderInv, DecoderTypeOK
    <3> QED BY <3>1, <1>3
  <2>2. CASE ~(i \in used .. used + size - offset - 1)
    <3>1. Held[i] = temp[i]
      BY <2>2 DEF Held
    <3>2. temp[i] \in 0 .. 255
      BY DEF DecoderInv, DecoderTypeOK
    <3> QED BY <3>1, <3>2, Zenon
  <2> QED BY <2>1, <2>2
<1>5. Done' = Done
  BY <1>1 DEF Done
<1>6. DecoderTypeOK'
  <2>1. temp' \in [0 .. 3 -> 0 .. 255]
    BY <1>1, <1>4
  <2>2. decoding' \in BOOLEAN
    BY <1>1
  <2>3. used' \in 0 .. 3 /\ offset' \in 0 .. size
    BY <1>1, <1>2 DEF DecoderInv, DecoderTypeOK
  <2> QED BY <1>1, <2>1, <2>2, <2>3 DEF DecoderInv, DecoderTypeOK, Given
<1>7. HeldIsPartial'
  <2>1. \A i \in 0 .. used' - 1 : temp'[i] = text[Done + i + 1]
    <3> SUFFICES ASSUME NEW i \in 0 .. (used + size - offset) - 1
                 PROVE  Held[i] = text[Done + i + 1]
      BY <1>1
    <3> QED BY <1>3 DEF DecoderInv, DecoderTypeOK
  <2>2. used' < NumBytes(temp'[0])
    <3>1. 0 \in 0 .. used + size - offset - 1
      BY <1>2 DEF DecoderInv, DecoderTypeOK
    <3>2. temp'[0] = Cur(0)
      BY <1>1, <1>3, <3>1
    <3> QED BY <1>1, <1>2, <3>2
  <2> QED BY <1>1, <1>2, <1>5, <2>1, <2>2 DEF HeldIsPartial
<1>8. AllTaken'
  BY <1>1, <1>2, <1>5 DEF AllTaken, Given, DecoderInv, DecoderTypeOK
<1>9. ErrorIsAhead'
  BY <1>1 DEF ErrorIsAhead
<1> QED BY <1>6, <1>7, <1>8, <1>9 DEF DecoderInv

\* The sequence decoded is what the text has there.
LEMMA SequenceIsText ==
  ASSUME DecoderInv, Sequence
  PROVE  /\ NumBytes(Cur(0)) \in 1 .. 4
         /\ NumBytes(Cur(0)) <= used + size - offset
         /\ [i \in 1 .. NumBytes(Cur(0)) |-> Cur(i - 1)]
              = Slice(text, Done, NumBytes(Cur(0)))
         /\ [i \in 1 .. NumBytes(Cur(0)) |-> Cur(i - 1)] \in Seq(0 .. 255)
         /\ Done' = Done + NumBytes(Cur(0))
<1> DEFINE n == NumBytes(Cur(0))
<1>1. decoding /\ Complete /\ n # 0
  BY DEF Sequence
<1>2. n \in 1 .. 4 /\ n <= used + size - offset
  BY <1>1, NumBytesRange DEF Complete, DecoderInv, DecoderTypeOK
<1> HIDE DEF n
<1>3. ASSUME NEW i \in 1 .. n
      PROVE  Cur(i - 1) = text[Done + i] /\ Cur(i - 1) \in 0 .. 255
  <2>1. i - 1 \in 0 .. used + size - offset - 1
    BY <1>2 DEF DecoderInv, DecoderTypeOK
  <2>2. /\ Done \in Nat
        /\ Cur(i - 1) = text[Done + (i - 1) + 1]
        /\ Cur(i - 1) \in 0 .. 255
    BY <1>1, <2>1, CurIsText
  <2>3. Done + (i - 1) + 1 = Done + i
    BY <2>2
  <2> QED BY <2>2, <2>3
<1>4. [i \in 1 .. n |-> Cur(i - 1)] = Slice(text, Done, n)
  BY <1>3 DEF Slice
<1>5. [i \in 1 .. n |-> Cur(i - 1)] \in Seq(0 .. 255)
  <2>1. n \in Nat
    BY <1>2
  <2>2. [i \in 1 .. n |-> Cur(i - 1)] \in [1 .. n -> 0 .. 255]
    BY <1>3
  <2> QED BY <2>1, <2>2, SeqDef
<1>6. Done' = Done + n
  <2> DEFINE x == [i \in 1 .. n |-> Cur(i - 1)]
  <2>1. output' = Append(output, x) /\ givenUp' = givenUp
    BY DEF Sequence, n
  <2>2. Len(x) = n
    BY <1>2, <1>5
  <2> HIDE DEF x
  <2>3. PICK m : m = Total([i \in 1 .. Len(output) |-> Len(output[i])])
    OBVIOUS
  <2>4. m \in Nat /\ Total([i \in 1 .. Len(output') |-> Len(output'[i])]) = m + Len(x)
    <3>1. output \in Seq(Seq(0 .. 255)) /\ x \in Seq(0 .. 255)
      BY <1>5 DEF x, DecoderInv, DecoderTypeOK
    <3> QED BY <2>1, <2>3, <3>1, OutputGrows
  <2>5. Done = m + givenUp /\ Done' = (m + Len(x)) + givenUp
    BY <2>1, <2>3, <2>4 DEF Done
  <2> QED BY <1>2, <2>2, <2>4, <2>5 DEF DecoderInv, DecoderTypeOK
<1> QED BY <1>2, <1>4, <1>5, <1>6 DEF n

LEMMA SequenceKeepsInv == ASSUME DecoderInv, Sequence PROVE DecoderInv'
<1> DEFINE sequence == [i \in 1 .. NumBytes(Cur(0)) |-> Cur(i - 1)]
<1>1. /\ decoding
      /\ output' = Append(output, sequence)
      /\ offset' = offset + NumBytes(Cur(0)) - used
      /\ used' = 0
      /\ UNCHANGED <<text, base, size, temp, decoding, status, errorAt, givenUp>>
  BY DEF Sequence, buffer
<1>2. /\ NumBytes(Cur(0)) \in 1 .. 4
      /\ NumBytes(Cur(0)) <= used + size - offset
      /\ sequence \in Seq(0 .. 255)
  BY SequenceIsText
<1> HIDE DEF sequence
<1>3. used < NumBytes(Cur(0)) \/ used = 0
  BY <1>2 DEF DecoderInv, DecoderTypeOK, HeldIsPartial, Cur
<1>4. offset' \in 0 .. size
  <2>1. /\ offset \in 0 .. size /\ used \in Nat /\ size \in Nat
    BY DEF DecoderInv, DecoderTypeOK
  <2>2. used <= NumBytes(Cur(0))
    BY <1>2, <1>3, <2>1
  <2>3. PICK n \in Nat : n = NumBytes(Cur(0)) /\ n <= used + size - offset
    BY <1>2
  <2>4. offset + n - used \in 0 .. size
    BY <2>1, <2>2, <2>3
  <2> QED BY <1>1, <2>3, <2>4
<1>5. output' \in Seq(Seq(0 .. 255))
  BY <1>1, <1>2, AppendProperties DEF DecoderInv, DecoderTypeOK
<1>6. DecoderTypeOK'
  BY <1>1, <1>4, <1>5 DEF DecoderInv, DecoderTypeOK, Given
<1>7. HeldIsPartial'
  BY <1>1 DEF DecoderInv, HeldIsPartial
<1>8. AllTaken'
  <2>1. /\ Done' = Done + NumBytes(Cur(0)) /\ Done \in Nat
        /\ NumBytes(Cur(0)) \in 1 .. 4
    BY SequenceIsText, DoneIsPlace
  <2>2. PICK n \in Nat : n = NumBytes(Cur(0))
    BY <2>1
  <2>3. /\ Done + used + (size - offset) = base + size
        /\ base \in Nat /\ size \in Nat /\ offset \in Nat /\ used \in Nat
    BY DEF AllTaken, Given, DecoderInv, DecoderTypeOK
  <2>4. (Done + n) + 0 + (size - (offset + n - used)) = base + size
    BY <2>1, <2>3
  <2>5. Done' + used' + (size' - offset') = Given'
    BY <1>1, <2>1, <2>2, <2>4 DEF Given
  <2>6. decoding'
    BY <1>1
  <2> QED BY <2>5, <2>6 DEF AllTaken
<1>9. ErrorIsAhead'
  BY <1>1 DEF ErrorIsAhead, DecoderInv, HeldIsPartial
<1> QED BY <1>6, <1>7, <1>8, <1>9 DEF DecoderInv

LEMMA AtEndKeepsInv == ASSUME DecoderInv, AtEnd PROVE DecoderInv'
<1>1. /\ ~(used > 0) /\ ~(offset < size)
      /\ decoding' = FALSE /\ status' = "Success"
      /\ UNCHANGED <<text, base, size, offset, temp, used, errorAt, output, givenUp>>
  BY DEF AtEnd, More, Return, buffer
<1>2. used = 0 /\ offset = size
  BY <1>1 DEF DecoderInv, DecoderTypeOK
<1>3. DecoderTypeOK'
  <2>1. decoding' \in BOOLEAN
    BY <1>1
  <2> QED BY <1>1, <2>1 DEF DecoderInv, DecoderTypeOK, Given
<1>4. HeldIsPartial'
  BY <1>1, <1>2 DEF DecoderInv, HeldIsPartial
<1>5. AllTaken'
  <2>1. Done' = Done /\ Done \in Nat
    BY <1>1, DoneIsPlace DEF Done
  <2> QED BY <1>1, <1>2, <2>1 DEF AllTaken, Given, DecoderInv, DecoderTypeOK
<1>6. ErrorIsAhead'
  BY <1>1 DEF ErrorIsAhead
<1> QED BY <1>3, <1>4, <1>5, <1>6 DEF DecoderInv

LEMMA InvalidKeepsInv ==
  ASSUME DecoderInv, InvalidHead \/ InvalidTail
  PROVE  DecoderInv'
<1>1. CASE InvalidHead
  BY <1>1, ErrorKeepsInv DEF InvalidHead, DecoderInv, DecoderTypeOK
<1>2. CASE InvalidTail
  <2>1. PICK i \in 1 .. NumBytes(Cur(0)) - 1 : Error(offset + i)
    BY <1>2 DEF InvalidTail
  <2>2. decoding /\ More
    BY <1>2 DEF InvalidTail
  <2>3. offset + i \in 0 .. size + 3
    <3>1. NumBytes(Cur(0)) \in 0 .. 4
      BY NumBytesRange
    <3>2. offset \in 0 .. size /\ size \in Nat
      BY DEF DecoderInv, DecoderTypeOK
    <3> QED BY <3>1, <3>2
  <2> QED BY <2>1, <2>2, <2>3, ErrorKeepsInv
<1> QED BY <1>1, <1>2

LEMMA NextKeepsDecoderInv ==
  DecoderInv /\ [DecoderNext]_decoderVars => DecoderInv'
<1> SUFFICES ASSUME DecoderInv, [DecoderNext]_decoderVars PROVE DecoderInv'
  OBVIOUS
<1>1. CASE \E n \in 0 .. Len(text) : Decode(n)
  BY <1>1, DecodeKeepsInv
<1>2. CASE Reset
  BY <1>2, ResetKeepsInv
<1>3. CASE InvalidHead \/ InvalidTail
  BY <1>3, InvalidKeepsInv
<1>4. CASE Hold
  BY <1>4, HoldKeepsInv
<1>5. CASE Sequence
  BY <1>5, SequenceKeepsInv
<1>6. CASE AtEnd
  BY <1>6, AtEndKeepsInv
<1>7. CASE UNCHANGED decoderVars
  BY <1>7 DEF decoderVars, DecoderInv, DecoderTypeOK, HeldIsPartial, AllTaken,
              ErrorIsAhead, Done, Given
<1> QED BY <1>1, <1>2, <1>3, <1>4, <1>5, <1>6, <1>7 DEF DecoderNext, Turn

LEMMA DecoderInvariant == DecoderSpec => []DecoderInv
<1> QED BY InitDecoderInv, NextKeepsDecoderInv, PTL DEF DecoderSpec
-----------------------------------------------------------------------------
(***************************************************************************)
(* The refinement: a call and a return are stutters of Utf8Text, and so is *)
(* holding a partial sequence; the other turns of the loop are its steps.  *)
(***************************************************************************)
LEMMA InitRefines == DecoderInit => Text!TextInit
<1> SUFFICES ASSUME DecoderInit PROVE Text!TextInit
  OBVIOUS
<1>1. text \in Seq(Nat)
  <2>1. text \in Seq(0 .. 255)
    BY TextsAssumption DEF DecoderInit
  <2>2. 0 .. 255 \subseteq Nat
    OBVIOUS
  <2> QED BY <2>1, <2>2, SeqMonotonic, Zenon
<1>2. Done = 0
  BY NothingDone DEF DecoderInit
<1> QED BY <1>1, <1>2 DEF DecoderInit, Text!TextInit

\* What Complete says of the buffer is what Whole says of the text.
LEMMA CompleteIsWhole ==
  ASSUME DecoderInv, decoding, More, Complete
  PROVE  Text!Whole /\ NumBytes(Cur(0)) = NumBytes(Text!Next1)
<1>1. /\ Done \in Nat
      /\ Done < Len(text)
      /\ Cur(0) = Text!Next1
  BY HeadIsText DEF Text!Next1
<1>2. NumBytes(Cur(0)) \in 0 .. 4
  BY NumBytesRange
<1>3. Done + NumBytes(Cur(0)) <= Len(text)
  <2>1. /\ Len(text) \in Nat /\ base \in Nat /\ size \in Nat
        /\ offset \in 0 .. size /\ used \in 0 .. 3
        /\ base + size <= Len(text)
    BY TextBytes DEF DecoderInv, DecoderTypeOK, Given
  <2> QED BY <1>2, <2>1, DoneIsPlace DEF Complete
<1> QED BY <1>1, <1>3 DEF Text!Whole, Text!NumBytes, NumBytes

LEMMA InvalidHeadRefines ==
  ASSUME DecoderInv, InvalidHead
  PROVE  Text!Reject
<1>1. /\ decoding /\ More
      /\ NumBytes(Cur(0)) = 0
      /\ status' = "Error"
      /\ UNCHANGED <<text, base, size, offset, used, output, givenUp>>
  BY DEF InvalidHead, Error, Return, buffer
<1>2. Complete
  BY <1>1 DEF Complete, DecoderInv, DecoderTypeOK
<1>3. Text!Whole /\ NumBytes(Text!Next1) = 0
  BY <1>1, <1>2, CompleteIsWhole
<1>4. ~Text!WellFormed
  BY <1>3 DEF Text!WellFormed, Text!NumBytes, NumBytes
<1>5. status = "Success"
  BY <1>1 DEF DecoderInv, HeldIsPartial
<1>6. Done' = Done
  BY <1>1 DEF Done
<1> QED BY <1>1, <1>3, <1>4, <1>5, <1>6 DEF Text!Reject

LEMMA InvalidTailRefines ==
  ASSUME DecoderInv, InvalidTail
  PROVE  Text!Reject
<1>1. PICK i \in 1 .. NumBytes(Cur(0)) - 1 : ~IsTail(Cur(i)) /\ Error(offset + i)
  BY DEF InvalidTail
<1>2. /\ decoding /\ More /\ Complete
      /\ status' = "Error"
      /\ UNCHANGED <<text, base, size, offset, used, output, givenUp>>
  BY <1>1 DEF InvalidTail, Error, Return, buffer
<1>3. Text!Whole /\ NumBytes(Cur(0)) = NumBytes(Text!Next1)
  BY <1>2, CompleteIsWhole
<1>4. ~IsTail(text[Done + i + 1])
  <2>1. i \in 0 .. used + size - offset - 1
    BY <1>2, NumBytesRange DEF Complete, DecoderInv, DecoderTypeOK
  <2> QED BY <1>1, <1>2, <2>1, CurIsText
<1>5. ~Text!WellFormed
  BY <1>3, <1>4 DEF Text!WellFormed, Text!NumBytes, NumBytes, Text!IsTail, IsTail
<1>6. status = "Success"
  BY <1>2 DEF DecoderInv, HeldIsPartial
<1>7. Done' = Done
  BY <1>2 DEF Done
<1> QED BY <1>2, <1>3, <1>5, <1>6, <1>7 DEF Text!Reject

LEMMA SequenceRefines ==
  ASSUME DecoderInv, Sequence
  PROVE  Text!ReadSequence
<1>1. /\ decoding /\ More /\ Complete
      /\ NumBytes(Cur(0)) # 0
      /\ TailsUpTo(NumBytes(Cur(0)) - 1)
      /\ output' = Append(output, [i \in 1 .. NumBytes(Cur(0)) |-> Cur(i - 1)])
      /\ offset' = offset + NumBytes(Cur(0)) - used
      /\ used' = 0
      /\ UNCHANGED <<text, base, size, status, givenUp>>
  BY DEF Sequence, buffer
<1>2. Text!Whole /\ NumBytes(Cur(0)) = NumBytes(Text!Next1)
  BY <1>1, CompleteIsWhole
<1>3. /\ NumBytes(Cur(0)) \in 1 .. 4
      /\ NumBytes(Cur(0)) <= used + size - offset
      /\ output' = Append(output, Slice(text, Done, NumBytes(Cur(0))))
  BY <1>1, SequenceIsText
<1>4. ASSUME NEW i \in 1 .. NumBytes(Cur(0)) - 1
      PROVE  IsTail(text[Done + i + 1])
  <2>1. i \in 0 .. used + size - offset - 1
    BY <1>3 DEF DecoderInv, DecoderTypeOK
  <2>2. IsTail(Cur(i))
    BY <1>1 DEF TailsUpTo
  <2> QED BY <1>1, <2>1, <2>2, CurIsText
<1>5. Text!WellFormed
  BY <1>1, <1>2, <1>4
  DEF Text!WellFormed, Text!NumBytes, NumBytes, Text!IsTail, IsTail
<1>6. Done' = Done + NumBytes(Cur(0))
  BY SequenceIsText
<1>7. status = "Success"
  BY <1>1 DEF DecoderInv, HeldIsPartial
<1> QED BY <1>1, <1>2, <1>3, <1>5, <1>6, <1>7
        DEF Text!ReadSequence, Text!NumBytes, NumBytes, Text!Slice, Slice

LEMMA HoldRefines ==
  ASSUME DecoderInv, Hold
  PROVE  UNCHANGED Text!textVars
<1>1. decoding /\ status' = "Success" /\ UNCHANGED <<text, output, givenUp>>
  BY DEF Hold, Return, buffer
<1>2. Done' = Done
  BY <1>1 DEF Done
<1>3. status = "Success"
  BY <1>1 DEF DecoderInv, HeldIsPartial
<1> QED BY <1>1, <1>2, <1>3 DEF Text!textVars

LEMMA DecodeRefines ==
  ASSUME DecoderInv, NEW n \in 0 .. Len(text), Decode(n)
  PROVE  UNCHANGED Text!textVars
<1>1. UNCHANGED <<text, status, output, givenUp>>
  BY DEF Decode
<1>2. Done' = Done
  BY <1>1 DEF Done
<1> QED BY <1>1, <1>2 DEF Text!textVars

\* A Reset that has nothing to give up is no step of Utf8Text: then no byte
\* was wrong.
LEMMA ResetRefines ==
  ASSUME DecoderInv, Reset
  PROVE  Text!Restart \/ UNCHANGED Text!textVars
<1>1. /\ givenUp' = givenUp + used + (size - offset)
      /\ status' = "Success"
      /\ UNCHANGED <<text, base, size, output>>
  BY DEF Reset, buffer
<1>2. /\ Done \in Nat /\ Done = base + offset - used
      /\ Done' = Done + used + (size - offset)
  BY ResetGivesUp, DoneIsPlace
<1>3. /\ Len(text) \in Nat /\ base \in Nat /\ size \in Nat /\ givenUp \in Nat
      /\ offset \in 0 .. size /\ used \in 0 .. 3
      /\ base + size <= Len(text)
  BY TextBytes DEF DecoderInv, DecoderTypeOK, Given
<1>4. Done' = base + size /\ givenUp' = givenUp + (Done' - Done)
  BY <1>1, <1>2, <1>3
<1>5. CASE Done < base + size
  <2>1. Done' \in Done + 1 .. Len(text)
    BY <1>2, <1>3, <1>4, <1>5
  <2> QED BY <1>1, <1>4, <2>1 DEF Text!Restart
<1>6. CASE ~(Done < base + size)
  <2>1. Done' = Done /\ givenUp' = givenUp
    BY <1>2, <1>3, <1>4, <1>6
  <2>2. status = "Success"
    BY <1>6 DEF ErrorIsAhead, Given, DecoderInv, DecoderTypeOK
  <2> QED BY <1>1, <2>1, <2>2 DEF Text!textVars
<1> QED BY <1>5, <1>6

LEMMA AtEndRefines ==
  ASSUME DecoderInv, AtEnd
  PROVE  UNCHANGED Text!textVars
<1>1. decoding /\ status' = "Success" /\ UNCHANGED <<text, output, givenUp>>
  BY DEF AtEnd, Return, buffer
<1>2. status = "Success"
  BY <1>1 DEF DecoderInv, HeldIsPartial
<1> QED BY <1>1, <1>2 DEF Text!textVars, Done

LEMMA NextRefines ==
  DecoderInv /\ [DecoderNext]_decoderVars => [Text!TextNext]_(Text!textVars)
<1> SUFFICES ASSUME DecoderInv, [DecoderNext]_decoderVars
             PROVE  [Text!TextNext]_(Text!textVars)
  OBVIOUS
<1>1. CASE \E n \in 0 .. Len(text) : Decode(n)
  BY <1>1, DecodeRefines
<1>2. CASE Reset
  BY <1>2, ResetRefines DEF Text!TextNext
<1>3. CASE InvalidHead
  BY <1>3, InvalidHeadRefines DEF Text!TextNext
<1>4. CASE InvalidTail
  BY <1>4, InvalidTailRefines DEF Text!TextNext
<1>5. CASE Hold
  BY <1>5, HoldRefines
<1>6. CASE Sequence
  BY <1>6, SequenceRefines DEF Text!TextNext
<1>7. CASE AtEnd
  BY <1>7, AtEndRefines
<1>8. CASE UNCHANGED decoderVars
  BY <1>8 DEF decoderVars, Text!textVars, Done
<1> QED BY <1>1, <1>2, <1>3, <1>4, <1>5, <1>6, <1>7, <1>8 DEF DecoderNext, Turn
-----------------------------------------------------------------------------
(***************************************************************************)
(* The place of an error.  Between the error and the Reset that follows it *)
(* nothing is called, so that it is enough to look at the two steps that   *)
(* end in one, and where nothing else moves.                               *)
(***************************************************************************)

\* A head that begins nothing is the byte at the offset.
LEMMA InvalidHeadIsPlaced ==
  ASSUME DecoderInv, InvalidHead
  PROVE  ErrorAtWrongByte'
<1>1. /\ NumBytes(Cur(0)) = 0
      /\ errorAt' = offset /\ offset' = offset /\ text' = text
      /\ Done' = Done
  BY DEF InvalidHead, Error, buffer, Done
<1>2. Cur(0) = text[Done + 1]
  BY HeadIsText DEF InvalidHead
<1> QED BY <1>1, <1>2 DEF ErrorAtWrongByte

\* A byte that continues nothing is found behind the ones that do.
LEMMA InvalidTailIsPlaced ==
  ASSUME DecoderInv, InvalidTail
  PROVE  ErrorAtWrongByte'
<1> DEFINE n == NumBytes(Cur(0))
<1>1. PICK k \in 1 .. n - 1 :
         ~IsTail(Cur(k)) /\ TailsUpTo(k - 1) /\ Error(offset + k)
  BY DEF InvalidTail
<1>2. decoding /\ More /\ Complete
  BY DEF InvalidTail
<1>3. /\ errorAt' = offset + k /\ offset' = offset /\ text' = text
      /\ base' = base /\ used' = used /\ Done' = Done
  BY <1>1 DEF Error, buffer, Done
<1>4. /\ base \in Nat /\ size \in Nat /\ offset \in 0 .. size /\ used \in 0 .. 3
      /\ n \in 0 .. 4 /\ n <= size - offset + used
  BY <1>2, NumBytesRange DEF DecoderInv, DecoderTypeOK, Complete
<1>5. n = NumBytes(text[Done + 1])
  BY <1>2, HeadIsText
<1> HIDE DEF n
<1>6. Done \in Nat
  BY <1>2, HeadIsText
<1>7. \A i \in 1 .. k : IsTail(Cur(i)) <=> IsTail(text[Done + i + 1])
  <2> TAKE i \in 1 .. k
  <2>1. i \in 0 .. used + size - offset - 1
    BY <1>1, <1>4
  <2> QED BY <1>2, <2>1, CurIsText
<1>8. base + errorAt' - used = Done + k
  BY <1>1, <1>3, <1>4, DoneIsPlace
<1>9. ~IsTail(text[(Done + k) + 1])
  <2>1. k \in 1 .. k
    BY <1>1, <1>4
  <2> QED BY <1>1, <1>7, <2>1
<1>10. \A i \in Done + 1 .. (Done + k) - 1 : IsTail(text[i + 1])
  <2> TAKE i \in Done + 1 .. (Done + k) - 1
  <2>1. /\ i - Done \in 1 .. k /\ i - Done \in 1 .. k - 1
        /\ Done + (i - Done) + 1 = i + 1
    BY <1>1, <1>4, <1>6
  <2>2. IsTail(Cur(i - Done))
    BY <1>1, <2>1 DEF TailsUpTo
  <2> QED BY <1>7, <2>1, <2>2
<1>11. n # 0 /\ Done + k \in Done + 1 .. Done + n - 1
  BY <1>1, <1>4, <1>6
<1> QED BY <1>3, <1>5, <1>8, <1>9, <1>10, <1>11 DEF ErrorAtWrongByte

\* No other step leaves an error behind that was not there.
LEMMA ErrorsStayPlaced ==
  ASSUME DecoderInv, ErrorAtWrongByte, [DecoderNext]_decoderVars
  PROVE  ErrorAtWrongByte'
<1>1. CASE InvalidHead
  BY <1>1, InvalidHeadIsPlaced
<1>2. CASE InvalidTail
  BY <1>2, InvalidTailIsPlaced
<1>3. CASE Sequence
  <2>1. status' = "Success"
    BY <1>3 DEF Sequence, DecoderInv, HeldIsPartial
  <2> QED BY <2>1 DEF ErrorAtWrongByte
<1>4. CASE Hold \/ AtEnd \/ Reset \/ \E n \in 0 .. Len(text) : Decode(n)
  <2>1. status' = "Success"
    BY <1>4 DEF Hold, AtEnd, Return, Reset, Decode
  <2> QED BY <2>1 DEF ErrorAtWrongByte
<1>5. CASE UNCHANGED decoderVars
  BY <1>5 DEF decoderVars, ErrorAtWrongByte, Done
<1> QED BY <1>1, <1>2, <1>3, <1>4, <1>5 DEF DecoderNext, Turn
-----------------------------------------------------------------------------
\* The decoder's state stays of its type: no more than 3 of the 4 bytes of
\* temp_ are ever used, whatever the texts and however they are cut.
THEOREM DecoderTypeCorrect == DecoderSpec => []DecoderTypeOK
<1> QED BY DecoderInvariant, PTL DEF DecoderInv

\* The bytes held between calls are the last ones given, and a partial
\* sequence, for every text and every way to cut it.
THEOREM HeldCorrect == DecoderSpec => []HeldIsPartial
<1> QED BY DecoderInvariant, PTL DEF DecoderInv

\* Calls that succeed lose no byte.
THEOREM TakesAll == DecoderSpec => []AllTaken
<1> QED BY DecoderInvariant, PTL DEF DecoderInv

\* The offset of an error counts the bytes held, and is then that of the first
\* byte that is wrong, also where that is one of those held.
THEOREM ErrorsCorrect == DecoderSpec => []ErrorAtWrongByte
<1>1. DecoderInit => ErrorAtWrongByte
  BY DEF DecoderInit, ErrorAtWrongByte
<1> QED BY <1>1, ErrorsStayPlaced, DecoderInvariant, PTL DEF DecoderSpec

\* Decode in pieces is Decode of the whole: the converter implements the one
\* that reads a text sequence by sequence and knows of no calls.
THEOREM DecodesWholeText == DecoderSpec => ImplementsText
<1> QED BY InitRefines, NextRefines, DecoderInvariant, PTL
        DEF DecoderSpec, ImplementsText, Text!TextSpec
-----------------------------------------------------------------------------
(***************************************************************************)
(* Powers of two, and bits.                                                *)
(***************************************************************************)
P(n) == 2 ^ n

\* The powers up to the L-th double.
Doubles(L) == \A n \in 0 .. L - 1 : P(n + 1) = 2 * P(n)

\* They are positive numbers.
LEMMA PowersPositive ==
  ASSUME NEW L \in Nat, Doubles(L)
  PROVE  P(0) = 1 /\ \A n \in 0 .. L : P(n) \in Nat \ {0}
<1> DEFINE T == {n \in 0 .. L : P(n) \in Nat \ {0}}
<1>0. P(0) = 1
  BY DEF P
<1>1. 0 \in T
  BY <1>0
<1>2. ASSUME NEW n \in 0 .. L - 1, n \in T PROVE n + 1 \in T
  <2>1. P(n) \in Nat \ {0} /\ P(n + 1) = 2 * P(n)
    BY <1>2 DEF Doubles
  <2>2. n + 1 \in 0 .. L
    OBVIOUS
  <2> QED BY <2>1, <2>2
<1> HIDE DEF T
<1>3. \A n \in 0 .. L : n \in T
  BY <1>1, <1>2, IntervalInduction
<1> QED BY <1>0, <1>3 DEF T

\* The power of a sum.
LEMMA PowerOfSum ==
  ASSUME NEW L \in Nat, Doubles(L), NEW m \in Nat, NEW n \in Nat, m + n <= L
  PROVE  P(m + n) = P(m) * P(n)
<1> DEFINE T == {k \in 0 .. n : P(m + k) = P(m) * P(k)}
<1>0. \A k \in 0 .. n : m + k \in 0 .. L /\ k \in 0 .. L /\ m \in 0 .. L
  OBVIOUS
<1>1. 0 \in T
  <2>1. P(m) \in Nat /\ P(0) = 1 /\ m + 0 = m
    BY <1>0, PowersPositive
  <2>2. P(m) * P(0) = P(m)
    BY <2>1
  <2> QED BY <2>1, <2>2
<1>2. ASSUME NEW k \in 0 .. n - 1, k \in T PROVE k + 1 \in T
  <2>1. /\ k \in 0 .. n /\ k + 1 \in 0 .. n /\ m + (k + 1) = (m + k) + 1
        /\ m + k \in 0 .. L - 1 /\ k \in 0 .. L - 1
    OBVIOUS
  <2>2. P((m + k) + 1) = 2 * P(m + k) /\ P(k + 1) = 2 * P(k)
    BY <2>1 DEF Doubles
  <2>3. PICK a \in Nat, b \in Nat : a = P(m) /\ b = P(k)
    BY <1>0, <2>1, PowersPositive
  <2>4. 2 * (a * b) = a * (2 * b)
    BY <2>3
  <2> QED BY <1>2, <2>1, <2>2, <2>3, <2>4
<1> HIDE DEF T
<1>3. n \in T
  <2>1. n \in 0 .. n
    OBVIOUS
  <2> QED BY <1>1, <1>2, <2>1, IntervalInduction
<1> QED BY <1>3 DEF T

\* The first powers.
LEMMA SmallPowers ==
  ASSUME NEW L \in Nat, Doubles(L), 8 <= L
  PROVE  /\ P(0) = 1 /\ P(1) = 2 /\ P(2) = 4 /\ P(3) = 8 /\ P(4) = 16
         /\ P(5) = 32 /\ P(6) = 64 /\ P(7) = 128 /\ P(8) = 256
<1>1. \A n \in 0 .. 7 : P(n + 1) = 2 * P(n)
  BY DEF Doubles
<1>2. P(0) = 1
  BY PowersPositive
<1>3. P(0 + 1) = 2 * P(0) /\ P(1 + 1) = 2 * P(1) /\ P(2 + 1) = 2 * P(2) /\ P(3 + 1) = 2 * P(3)
  BY <1>1
<1>4. P(4 + 1) = 2 * P(4) /\ P(5 + 1) = 2 * P(5) /\ P(6 + 1) = 2 * P(6) /\ P(7 + 1) = 2 * P(7)
  BY <1>1
<1> QED BY <1>2, <1>3, <1>4

\* Quotient and remainder.
LEMMA Division ==
  ASSUME NEW M \in Nat \ {0}, NEW x \in Nat
  PROVE  \E q \in Nat, r \in 0 .. M - 1 :
            /\ x = M * q + r
            /\ x \div M = q /\ x % M = r
<1>1. x \div M \in Nat /\ x % M \in 0 .. M - 1 /\ x = M * (x \div M) + (x % M)
  OBVIOUS
<1> QED BY <1>1

\* A number that is written so has them.
LEMMA DivisionUnique ==
  ASSUME NEW M \in Nat \ {0}, NEW q \in Nat, NEW r \in 0 .. M - 1
  PROVE  (M * q + r) \div M = q /\ (M * q + r) % M = r
<1>1. (M * q + r) % M = r
  <2>1. (M * q + r) % M = r % M /\ r \in Nat
    BY MultipleMore
  <2>2. r % M = r
    OBVIOUS
  <2> QED BY <2>1, <2>2
<1>2. PICK h \in Nat, s \in 0 .. M - 1 :
         M * q + r = M * h + s /\ (M * q + r) \div M = h /\ (M * q + r) % M = s
  <2>1. M * q + r \in Nat
    OBVIOUS
  <2> QED BY <2>1, Division
<1>3. M * q = M * h
  <2>1. s = r /\ M * q \in Int /\ M * h \in Int
    BY <1>1, <1>2
  <2>2. \A a, b \in Int : a + r = b + r => a = b
    OBVIOUS
  <2> QED BY <1>2, <2>1, <2>2
<1>4. q = h
  BY <1>3
<1> QED BY <1>1, <1>2, <1>4

LEMMA SmallRemainder ==
  ASSUME NEW M \in Nat \ {0}, NEW x \in 0 .. M - 1
  PROVE  x % M = x /\ x \div M = 0
<1>1. M * 0 + x = x
  OBVIOUS
<1> QED BY <1>1, DivisionUnique

LEMMA BitRange ==
  ASSUME NEW x \in Nat, NEW i, P(i) \in Nat \ {0}
  PROVE  Bit(x, i) \in {0, 1}
<1>1. PICK p \in Nat \ {0} : p = P(i)
  OBVIOUS
<1>2. x \div p \in Nat
  OBVIOUS
<1>3. \A y \in Nat : y % 2 \in {0, 1}
  OBVIOUS
<1> QED BY <1>1, <1>2, <1>3 DEF Bit, P

\* One bit more of a number.
LEMMA NextRemainder ==
  ASSUME NEW x \in Nat, NEW n, P(n) \in Nat \ {0}, P(n + 1) = 2 * P(n)
  PROVE  (x % P(n + 1)) = (x % P(n)) + P(n) * Bit(x, n)
<1>1. PICK p \in Nat \ {0} : p = P(n)
  OBVIOUS
<1>2. PICK q \in Nat, r \in 0 .. p - 1 : x = p * q + r /\ x \div p = q /\ (x % p) = r
  BY Division
<1>3. PICK h \in Nat, b \in 0 .. 1 : q = 2 * h + b /\ q % 2 = b
  <2>1. 2 \in Nat \ {0} /\ 2 - 1 = 1
    OBVIOUS
  <2>2. PICK h \in Nat, b \in 0 .. 1 : q = 2 * h + b /\ q \div 2 = h /\ q % 2 = b
    BY <2>1, Division
  <2> QED BY <2>2
<1>4. p * b + r \in 0 .. (2 * p) - 1 /\ 2 * p \in Nat \ {0}
  <2>1. CASE b = 0
    BY <2>1
  <2>2. CASE b = 1
    BY <2>2
  <2> QED BY <2>1, <2>2
<1>5. x = (2 * p) * h + (p * b + r)
  <2>1. p * (2 * h + b) = (2 * p) * h + p * b
    OBVIOUS
  <2>2. p * b \in Int /\ (2 * p) * h \in Int
    OBVIOUS
  <2>3. \A u, v \in Int : (u + v) + r = u + (v + r)
    OBVIOUS
  <2> QED BY <1>2, <1>3, <2>1, <2>2, <2>3
<1>6. x % (2 * p) = p * b + r
  BY <1>4, <1>5, DivisionUnique
<1>7. Bit(x, n) = b
  BY <1>1, <1>2, <1>3 DEF Bit, P
<1>8. p * b + r = r + p * b
  OBVIOUS
<1> QED BY <1>1, <1>2, <1>6, <1>7, <1>8

\* The loop over the bits of an or.
OrLoop(f, w, x, y) ==
    /\ f[0] = 0
    /\ \A n \in 1 .. w :
          f[n] = IF Bit(x, n - 1) = 1 \/ Bit(y, n - 1) = 1
                 THEN f[n - 1] + P(n - 1) ELSE f[n - 1]

LEMMA OrUnfolds ==
  ASSUME NEW w \in Nat, NEW x, NEW y, Doubles(w)
  PROVE  /\ Or(w, x, y) \in Nat
         /\ \E f : OrLoop(f, w, x, y) /\ Or(w, x, y) = f[w]
<1> DEFINE Loop(u) == u = [n \in 0 .. w |->
                IF n = 0 THEN 0
                ELSE IF Bit(x, n - 1) = 1 \/ Bit(y, n - 1) = 1
                     THEN u[n - 1] + 2 ^ (n - 1) ELSE u[n - 1]]
           step == [p \in Nat \X (1 .. w) |->
                IF Bit(x, p[2] - 1) = 1 \/ Bit(y, p[2] - 1) = 1
                THEN p[1] + P(p[2] - 1) ELSE p[1]]
<1>1. step \in [Nat \X (1 .. w) -> Nat]
  <2>1. \A v \in Nat, i \in 1 .. w : i - 1 \in 0 .. w /\ v + P(i - 1) \in Nat
    BY PowersPositive
  <2> QED BY <2>1
<1>2. \A v \in Nat, i \in 1 .. w : step[<<v, i>>] =
         IF Bit(x, i - 1) = 1 \/ Bit(y, i - 1) = 1 THEN v + P(i - 1) ELSE v
  OBVIOUS
<1> HIDE DEF step
<1>3. PICK f \in [0 .. w -> Nat] : Recursion(f, 0, step, w)
  <2>1. 0 \in Nat
    OBVIOUS
  <2> QED BY <1>1, <2>1, RecursionExists, Zenon
<1>4. ASSUME NEW n \in 1 .. w
      PROVE  f[n] = IF Bit(x, n - 1) = 1 \/ Bit(y, n - 1) = 1
                    THEN f[n - 1] + 2 ^ (n - 1) ELSE f[n - 1]
  <2>1. n - 1 \in 0 .. w /\ f[n - 1] \in Nat
    OBVIOUS
  <2>2. f[n] = step[<<f[n - 1], n>>]
    BY <1>3 DEF Recursion
  <2> QED BY <1>2, <2>1, <2>2 DEF P
<1>5. Loop(f)
  <2>1. f[0] = 0
    BY <1>3 DEF Recursion
  <2>2. \A n \in 0 .. w : n # 0 => n \in 1 .. w
    OBVIOUS
  <2> QED BY <1>4, <2>1, <2>2
<1> DEFINE U == CHOOSE u : Loop(u)
<1>6. Loop(U)
  BY <1>5, Zenon
<1>7. Or(w, x, y) = U[w]
  BY Zenon DEF Or
<1> HIDE DEF U
<1>8. OrLoop(U, w, x, y)
  <2>1. 0 \in 0 .. w /\ \A n \in 1 .. w : n \in 0 .. w /\ n # 0
    OBVIOUS
  <2> QED BY <1>6, <2>1 DEF OrLoop, P
<1>9. \A n \in 0 .. w : U[n] \in Nat
  <2> DEFINE T == {n \in 0 .. w : U[n] \in Nat}
  <2>1. 0 \in T
    BY <1>8 DEF OrLoop
  <2>2. ASSUME NEW n \in 0 .. w - 1, n \in T PROVE n + 1 \in T
    <3>1. n + 1 \in 1 .. w /\ n + 1 \in 0 .. w /\ (n + 1) - 1 = n /\ n \in 0 .. w
      OBVIOUS
    <3>2. U[n + 1] = IF Bit(x, n) = 1 \/ Bit(y, n) = 1 THEN U[n] + P(n) ELSE U[n]
      BY <1>8, <3>1 DEF OrLoop
    <3>3. U[n] \in Nat /\ P(n) \in Nat
      BY <2>2, <3>1, PowersPositive
    <3> QED BY <3>1, <3>2, <3>3
  <2> HIDE DEF T
  <2>3. \A n \in 0 .. w : n \in T
    BY <2>1, <2>2, IntervalInduction
  <2> QED BY <2>3 DEF T
<1> QED BY <1>7, <1>8, <1>9

NoBitTwice(w, x, y) == \A i \in 0 .. w - 1 : Bit(x, i) = 0 \/ Bit(y, i) = 0

\* The or of numbers with no bit in common is their sum, cut to the word.
LEMMA OrAdds ==
  ASSUME NEW w \in Nat, Doubles(w), NEW x \in Nat, NEW y \in Nat, NoBitTwice(w, x, y)
  PROVE  Or(w, x, y) = (x % P(w)) + (y % P(w))
<1>1. PICK f : OrLoop(f, w, x, y) /\ Or(w, x, y) = f[w]
  BY OrUnfolds
<1> DEFINE T == {n \in 0 .. w : f[n] = (x % P(n)) + (y % P(n))}
<1>2. 0 \in T
  <2>1. P(0) = 1 /\ (x % 1) = 0 /\ (y % 1) = 0 /\ f[0] = 0
    BY <1>1, PowersPositive DEF OrLoop
  <2> QED BY <2>1
<1>3. ASSUME NEW n \in 0 .. w - 1, n \in T PROVE n + 1 \in T
  <2>1. n \in 0 .. w /\ n + 1 \in 0 .. w /\ n + 1 \in 1 .. w /\ (n + 1) - 1 = n
    OBVIOUS
  <2>2. PICK p \in Nat \ {0} : p = P(n)
    BY <2>1, PowersPositive
  <2>3. P(n + 1) = 2 * P(n)
    BY DEF Doubles
  <2>4. (x % P(n + 1)) = (x % p) + p * Bit(x, n) /\ (y % P(n + 1)) = (y % p) + p * Bit(y, n)
    BY <2>2, <2>3, NextRemainder
  <2>5. Bit(x, n) \in {0, 1} /\ Bit(y, n) \in {0, 1} /\ (Bit(x, n) = 0 \/ Bit(y, n) = 0)
    BY <2>2, BitRange DEF NoBitTwice
  <2>6. PICK a \in Nat, b \in Nat : a = (x % p) /\ b = (y % p)
    BY <2>2
  <2>7. f[n] = a + b
    BY <1>3, <2>2, <2>6
  <2>8. f[n + 1] = IF Bit(x, n) = 1 \/ Bit(y, n) = 1 THEN f[n] + p ELSE f[n]
    BY <1>1, <2>1, <2>2 DEF OrLoop
  <2>9. f[n + 1] = (x % P(n + 1)) + (y % P(n + 1))
    <3>1. CASE Bit(x, n) = 0 /\ Bit(y, n) = 0
      <4>1. p * 0 = 0 /\ a + 0 = a /\ b + 0 = b
        BY <2>2, <2>6
      <4> QED BY <2>4, <2>6, <2>7, <2>8, <3>1, <4>1
    <3>2. CASE Bit(x, n) = 1 /\ Bit(y, n) = 0
      <4>1. p * 0 = 0 /\ b + 0 = b /\ p * 1 = p /\ (a + p) + b = (a + b) + p
        BY <2>2, <2>6
      <4> QED BY <2>4, <2>6, <2>7, <2>8, <3>2, <4>1
    <3>3. CASE Bit(x, n) = 0 /\ Bit(y, n) = 1
      <4>1. p * 0 = 0 /\ a + 0 = a /\ p * 1 = p /\ a + (b + p) = (a + b) + p
        BY <2>2, <2>6
      <4> QED BY <2>4, <2>6, <2>7, <2>8, <3>3, <4>1
    <3> QED BY <2>5, <3>1, <3>2, <3>3
  <2> QED BY <2>1, <2>9
<1> HIDE DEF T
<1>4. w \in T
  <2>1. \A n \in 0 .. w : n \in T
    BY <1>2, <1>3, IntervalInduction
  <2>2. w \in 0 .. w
    OBVIOUS
  <2> QED BY <2>1, <2>2
<1> QED BY <1>1, <1>4 DEF T

\* A multiple of a power has no bits below it.
LEMMA LowBits ==
  ASSUME NEW L \in Nat, Doubles(L), NEW k \in 0 .. L, NEW i \in Nat, i < k, NEW a \in Nat
  PROVE  Bit(P(k) * a, i) = 0
<1>1. PICK m \in Nat : k = i + (1 + m)
  <2>1. k - (i + 1) \in Nat /\ k = i + (1 + (k - (i + 1)))
    OBVIOUS
  <2> QED BY <2>1
<1>2. i + (1 + m) <= L /\ 1 + m <= L /\ 1 + m \in Nat /\ m \in 0 .. L /\ i \in 0 .. L
      /\ 0 \in 0 .. L - 1
  BY <1>1
<1>3. P(k) = P(i) * P(1 + m) /\ P(1 + m) = P(1) * P(m)
  BY <1>1, <1>2, PowerOfSum
<1>4. P(1) = 2
  <2>1. P(0 + 1) = 2 * P(0) /\ P(0) = 1
    BY <1>2, PowersPositive DEF Doubles
  <2> QED BY <2>1
<1>5. PICK p \in Nat \ {0}, q \in Nat : p = P(i) /\ q = P(m)
  BY <1>2, PowersPositive
<1>6. P(k) * a = p * (2 * (q * a)) + 0
  BY <1>3, <1>4, <1>5
<1>7. 2 * (q * a) \in Nat /\ (2 * (q * a)) % 2 = 0
  <2>1. PICK c \in Nat : c = q * a
    OBVIOUS
  <2>2. 2 * c \in Nat /\ (2 * c) % 2 = 0
    OBVIOUS
  <2> QED BY <2>1, <2>2
<1>8. (p * (2 * (q * a)) + 0) \div p = 2 * (q * a)
  <2>1. 0 \in 0 .. p - 1
    OBVIOUS
  <2> QED BY <1>7, <2>1, DivisionUnique
<1>9. (P(k) * a) \div p = 2 * (q * a)
  BY <1>6, <1>8
<1> QED BY <1>5, <1>7, <1>9 DEF Bit, P

\* A number less than a power has none from it on.
LEMMA HighBits ==
  ASSUME NEW L \in Nat, Doubles(L), NEW k \in Nat, NEW i \in k .. L, NEW y \in Nat, y < P(k)
  PROVE  Bit(y, i) = 0
<1>1. k \in 0 .. L /\ i \in 0 .. L /\ i - k \in 0 .. L /\ i - k \in Nat /\ k + (i - k) = i
  OBVIOUS
<1>2. P(i) = P(k) * P(i - k)
  <2>1. k + (i - k) <= L
    OBVIOUS
  <2> QED BY <1>1, <2>1, PowerOfSum
<1>3. PICK p \in Nat \ {0}, q \in Nat \ {0} : p = P(k) /\ q = P(i - k)
  BY <1>1, PowersPositive
<1>4. p <= p * q
  <2>1. PICK c \in Nat : q = c + 1
    <3>1. q - 1 \in Nat /\ q = (q - 1) + 1
      BY <1>3
    <3> QED BY <3>1
  <2>2. p * (c + 1) = p * c + p /\ p * c \in Nat
    BY <1>3, <2>1
  <2> QED BY <1>3, <2>1, <2>2
<1>5. PICK s \in Nat \ {0} : s = P(i)
  BY <1>1, PowersPositive
<1>6. y \in 0 .. s - 1
  BY <1>2, <1>3, <1>4, <1>5
<1>7. y \div s = 0
  BY <1>6, SmallRemainder
<1>8. 0 % 2 = 0
  OBVIOUS
<1> QED BY <1>5, <1>7, <1>8 DEF Bit, P

\* The or of a multiple of a power, in the word, and a number below it.
LEMMA OrDisjoint ==
  ASSUME NEW w \in Nat, Doubles(w), NEW k \in 0 .. w, NEW a \in Nat, NEW y \in Nat,
         y < P(k), P(k) * a < P(w)
  PROVE  Or(w, P(k) * a, y) = P(k) * a + y /\ Or(w, y, P(k) * a) = P(k) * a + y
<1>1. PICK p \in Nat \ {0}, s \in Nat \ {0} : p = P(k) /\ s = P(w)
  <2>1. w \in 0 .. w
    OBVIOUS
  <2> QED BY <2>1, PowersPositive
<1>2. PICK x \in Nat : x = P(k) * a
  BY <1>1
<1>3. \A i \in 0 .. w - 1 : Bit(x, i) = 0 \/ Bit(y, i) = 0
  <2>1. ASSUME NEW i \in 0 .. w - 1 PROVE Bit(x, i) = 0 \/ Bit(y, i) = 0
    <3>1. CASE i < k
      BY <1>2, <3>1, LowBits
    <3>2. CASE ~ (i < k)
      <4>1. i \in k .. w /\ k \in Nat
        BY <3>2
      <4> QED BY <4>1, HighBits
    <3> QED BY <3>1, <3>2
  <2> QED BY <2>1
<1>4. Or(w, x, y) = (x % s) + (y % s) /\ Or(w, y, x) = (y % s) + (x % s)
  <2>1. NoBitTwice(w, x, y) /\ NoBitTwice(w, y, x)
    BY <1>3 DEF NoBitTwice
  <2> QED BY <1>1, <2>1, OrAdds
<1>5. y < s
  <2>1. k \in Nat /\ w \in k .. w /\ w - k \in Nat /\ k + (w - k) = w /\ w - k \in 0 .. w
    OBVIOUS
  <2>2. s = p * P(w - k) /\ P(w - k) \in Nat \ {0}
    BY <1>1, <2>1, PowerOfSum, PowersPositive
  <2>3. PICK c \in Nat : P(w - k) = c + 1
    <3>1. P(w - k) - 1 \in Nat /\ P(w - k) = (P(w - k) - 1) + 1
      BY <2>2
    <3> QED BY <3>1
  <2>4. p * (c + 1) = p * c + p /\ p * c \in Nat
    BY <1>1, <2>3
  <2> QED BY <1>1, <2>2, <2>3, <2>4
<1>6. (x % s) = x /\ (y % s) = y
  <2>1. x \in 0 .. s - 1 /\ y \in 0 .. s - 1
    BY <1>1, <1>2, <1>5
  <2> QED BY <2>1, SmallRemainder
<1> QED BY <1>2, <1>4, <1>6
-----------------------------------------------------------------------------
(***************************************************************************)
(* Integers.                                                               *)
(***************************************************************************)

\* The word.
LEMMA Words ==
  /\ W \in Nat /\ 8 <= W /\ (W = 8 \/ 16 <= W)
  /\ Doubles(W)
  /\ \A n \in 0 .. W : P(n) \in Nat \ {0}
<1>1. W \in Nat /\ W % 8 = 0 /\ W > 0
  BY CodecAssumption
<1>2. 8 <= W /\ (W = 8 \/ 16 <= W)
  <2>1. PICK q \in Nat : W = 8 * q
    <3>1. 8 \in Nat \ {0}
      OBVIOUS
    <3>2. PICK q \in Nat, r \in 0 .. 8 - 1 : W = 8 * q + r /\ W % 8 = r
      BY <1>1, <3>1, Division
    <3> QED BY <1>1, <3>2
  <2> QED BY <1>1, <2>1
<1>3. Doubles(W)
  BY WordPowers DEF Doubles, P
<1> QED BY <1>1, <1>2, <1>3, PowersPositive

\* A read, and the place that it ends at: r bits of byte q.
LEMMA InputFields ==
  ASSUME NEW in \in Inputs
  PROVE  /\ in.size \in Nat /\ 1 <= in.size /\ in.size <= W
         /\ in.offset \in Nat /\ in.offset <= 7 /\ in.offset + in.size \in Nat
         /\ Len(in.bytes) \in Nat
         /\ \A j \in 1 .. Len(in.bytes) : in.bytes[j] \in 0 .. 255
<1>1. in \in [size : 1 .. W, offset : 0 .. 7, sign : Signs, order : Orders, bytes : Seq(0 .. 255)]
  BY CodecAssumption
<1>2. in.size \in 1 .. W /\ in.offset \in 0 .. 7 /\ in.bytes \in Seq(0 .. 255)
  BY <1>1
<1>3. W \in Nat
  BY CodecAssumption
<1>4. Len(in.bytes) \in Nat /\ \A j \in 1 .. Len(in.bytes) : in.bytes[j] \in 0 .. 255
  <2>1. Len(in.bytes) \in Nat
    BY <1>2, LenProperties, Zenon
  <2>2. \A j \in 1 .. Len(in.bytes) : in.bytes[j] \in 0 .. 255
    BY <1>2, ElementOfSeq, Zenon
  <2> QED BY <2>1, <2>2
<1>5. \A m \in 1 .. W, n \in 0 .. 7 : m \in Nat /\ n \in Nat /\ n + m \in Nat
                                     /\ 1 <= m /\ m <= W /\ n <= 7
  BY <1>3
<1> QED BY <1>2, <1>4, <1>5

EndsAt(in, q, r) ==
    /\ in.offset + in.size = 8 * q + r
    /\ FinalBits(in) = r
    /\ ByteSpan(in) = IF r # 0 THEN q + 1 ELSE q

LEMMA EndOfField ==
  ASSUME NEW in \in Inputs
  PROVE  \E q \in Nat, r \in 0 .. 7 : EndsAt(in, q, r)
<1>1. in.offset + in.size \in Nat
  BY InputFields
<1>2. PICK q \in Nat, r \in 0 .. 8 - 1 :
         /\ in.offset + in.size = 8 * q + r
         /\ (in.offset + in.size) \div 8 = q /\ (in.offset + in.size) % 8 = r
  <2>1. 8 \in Nat \ {0}
    OBVIOUS
  <2> QED BY <1>1, <2>1, Division
<1>3. r \in 0 .. 7
  OBVIOUS
<1>4. FinalBits(in) = r
  BY <1>2 DEF FinalBits
<1>5. ByteSpan(in) = q + (IF r # 0 THEN 1 ELSE 0)
  BY <1>2, <1>4 DEF ByteSpan, ByteCount
<1> QED BY <1>2, <1>3, <1>4, <1>5 DEF EndsAt

\* The byte that has the bits 8 * j to 8 * j + 7 behind the start of the first.
ByteAt(in, j) ==
    in.bytes[IF in.order = "LittleEndian" THEN ByteSpan(in) - j ELSE j + 1]

\* The file is long enough.
Whole(in) == ~ (Len(in.bytes) < ByteSpan(in))

LEMMA BytesThere ==
  ASSUME NEW in \in Inputs, Whole(in), NEW j \in 0 .. ByteSpan(in) - 1
  PROVE  ByteAt(in, j) \in 0 .. 255
<1>1. ByteSpan(in) \in Nat
  BY EndOfField DEF EndsAt
<1>2. PICK s \in Nat, l \in Nat : s = ByteSpan(in) /\ l = Len(in.bytes)
  BY <1>1, InputFields
<1>3. s - j \in 1 .. l /\ j + 1 \in 1 .. l
  BY <1>2 DEF Whole
<1> QED BY <1>2, <1>3, InputFields DEF ByteAt

\* The number that the first n bits are, for each n.
Bits(f, in) ==
    /\ f[0] = 0
    /\ \A n \in 1 .. in.size : f[n] = 2 * f[n - 1] + FileBit(in, n - 1)

Signed(in, v) ==
    IF in.sign = "Signed" /\ v >= P(in.size - 1) THEN v - P(in.size) ELSE v

\* Bit i of the field is one of the byte that it lies in.
LEMMA BitOfByte ==
  ASSUME NEW in \in Inputs, NEW i \in 0 .. in.size - 1, NEW j \in Nat, NEW a \in 0 .. 7,
         in.offset + i = 8 * j + a
  PROVE  FileBit(in, i) = (ByteAt(in, j) \div P(7 - a)) % 2
<1>1. PICK x : x = in.offset + i
  OBVIOUS
<1>2. (8 * j + a) \div 8 = j /\ (8 * j + a) % 8 = a
  <2>1. 8 \in Nat \ {0} /\ a \in 0 .. 8 - 1
    OBVIOUS
  <2> QED BY <2>1, DivisionUnique
<1>3. ByteCount(in.offset + i) = j /\ BitOffset(in.offset + i) = a
  BY <1>2 DEF ByteCount, BitOffset
<1> QED BY <1>3 DEF FileBit, ByteAt, P

LEMMA FileBits ==
  ASSUME NEW in \in Inputs, Whole(in), NEW i \in 0 .. in.size - 1
  PROVE  /\ FileBit(in, i) \in {0, 1}
         /\ \E j \in 0 .. ByteSpan(in) - 1, a \in 0 .. 7 : in.offset + i = 8 * j + a
<1>1. PICK q \in Nat, r \in 0 .. 7 : EndsAt(in, q, r)
  BY EndOfField
<1>2. in.offset + i \in Nat /\ in.offset + i < 8 * q + r /\ i \in Nat
  <2>1. i \in Nat /\ i < in.size
    BY InputFields
  <2>2. in.offset + in.size = 8 * q + r
    BY <1>1 DEF EndsAt
  <2> QED BY <2>1, <2>2, InputFields
<1>3. PICK j \in Nat, a \in 0 .. 7 : in.offset + i = 8 * j + a
  <2>1. 8 \in Nat \ {0} /\ 8 - 1 = 7
    OBVIOUS
  <2>2. PICK x \in Nat : x = in.offset + i
    BY <1>2
  <2>3. PICK j \in Nat, a \in 0 .. 8 - 1 : x = 8 * j + a
    <3>1. x \div 8 \in Nat /\ x % 8 \in 0 .. 8 - 1 /\ x = 8 * (x \div 8) + (x % 8)
      BY <2>2, SMT
    <3> QED BY <3>1
  <2> QED BY <2>1, <2>2, <2>3
<1>4. j \in 0 .. ByteSpan(in) - 1
  <2>1. CASE r = 0
    BY <1>1, <1>2, <1>3, <2>1 DEF EndsAt
  <2>2. CASE r # 0
    BY <1>1, <1>2, <1>3, <2>2 DEF EndsAt
  <2> QED BY <2>1, <2>2
<1>5. FileBit(in, i) = (ByteAt(in, j) \div P(7 - a)) % 2
  BY <1>3, BitOfByte
<1>6. PICK b \in Nat, p \in Nat \ {0} : b = ByteAt(in, j) /\ p = P(7 - a)
  <2>1. 7 - a \in 0 .. W
    BY Words
  <2>2. P(7 - a) \in Nat \ {0}
    BY <2>1, Words
  <2>3. ByteAt(in, j) \in 0 .. 255
    BY <1>4, BytesThere
  <2>4. ByteAt(in, j) \in Nat
    BY <2>3
  <2> QED BY <2>2, <2>4
<1>7. b \div p \in Nat
  OBVIOUS
<1>8. \A y \in Nat : y % 2 \in {0, 1}
  OBVIOUS
<1> QED BY <1>3, <1>4, <1>5, <1>6, <1>7, <1>8

\* What an integer means is what its bits are, with the sign.
LEMMA MeaningUnfolds ==
  ASSUME NEW in \in Inputs, Whole(in)
  PROVE  \E f : Bits(f, in) /\ Meaning(in) = Signed(in, f[in.size])
<1> DEFINE N == in.size
           Loop(u) == u = [n \in 0 .. in.size |->
                             IF n = 0 THEN 0 ELSE 2 * u[n - 1] + FileBit(in, n - 1)]
           step == [p \in Nat \X (1 .. N) |-> 2 * p[1] + FileBit(in, p[2] - 1)]
<1>0. N \in Nat /\ N = in.size
  BY InputFields, Words
<1>1. step \in [Nat \X (1 .. N) -> Nat]
  <2>1. \A v \in Nat, i \in 1 .. N : 2 * v + FileBit(in, i - 1) \in Nat
    <3>1. \A i \in 1 .. N : i - 1 \in 0 .. in.size - 1
      BY <1>0
    <3>2. \A i \in 1 .. N : FileBit(in, i - 1) \in {0, 1}
      BY <3>1, FileBits
    <3> QED BY <3>2
  <2> QED BY <2>1
<1>2. \A v \in Nat, i \in 1 .. N : step[<<v, i>>] = 2 * v + FileBit(in, i - 1)
  OBVIOUS
<1> HIDE DEF step, N
<1>3. PICK f \in [0 .. N -> Nat] : Recursion(f, 0, step, N)
  <2>1. 0 \in Nat
    OBVIOUS
  <2> QED BY <1>0, <1>1, <2>1, RecursionExists, Zenon
<1>4. ASSUME NEW n \in 1 .. N
      PROVE  f[n] = 2 * f[n - 1] + FileBit(in, n - 1)
  <2>1. n - 1 \in 0 .. N /\ f[n - 1] \in Nat
    BY <1>0
  <2>2. f[n] = step[<<f[n - 1], n>>]
    BY <1>3 DEF Recursion
  <2> QED BY <1>2, <2>1, <2>2
<1>5. Loop(f)
  <2>1. f[0] = 0
    BY <1>3 DEF Recursion
  <2>2. \A n \in 0 .. N : n # 0 => n \in 1 .. N
    BY <1>0
  <2> QED BY <1>0, <1>4, <2>1, <2>2
<1> DEFINE U == CHOOSE u : Loop(u)
<1>6. Loop(U)
  BY <1>5, Zenon
<1>7. Meaning(in) = IF in.sign = "Signed" /\ U[in.size] >= 2 ^ (in.size - 1)
                    THEN U[in.size] - 2 ^ in.size ELSE U[in.size]
  BY Zenon DEF Meaning
<1> HIDE DEF U
<1>8. Bits(U, in)
  <2>1. 0 \in 0 .. N /\ \A n \in 1 .. N : n \in 0 .. N /\ n # 0
    BY <1>0
  <2> QED BY <1>0, <1>6, <2>1 DEF Bits
<1>9. Meaning(in) = Signed(in, U[in.size])
  BY <1>7 DEF Signed, P
<1> QED BY <1>8, <1>9

\* n bits are a number below the n-th power.
LEMMA BitsRange ==
  ASSUME NEW in \in Inputs, Whole(in), NEW f, Bits(f, in)
  PROVE  \A n \in 0 .. in.size : f[n] \in Nat /\ f[n] < P(n)
<1>0. PICK N \in Nat : N = in.size /\ N <= W
  BY InputFields, Words
<1> DEFINE T == {n \in 0 .. N : f[n] \in Nat /\ f[n] < P(n)}
<1>1. 0 \in T
  <2>1. P(0) = 1
    BY Words, PowersPositive
  <2> QED BY <2>1 DEF Bits
<1>2. ASSUME NEW n \in 0 .. N - 1, n \in T PROVE n + 1 \in T
  <2>1. n + 1 \in 1 .. in.size /\ n + 1 \in 0 .. N /\ (n + 1) - 1 = n /\ n \in 0 .. in.size - 1
        /\ n \in 0 .. W - 1 /\ n \in 0 .. W
    BY <1>0, Words
  <2>2. FileBit(in, n) \in {0, 1}
    BY <2>1, FileBits
  <2>3. f[n + 1] = 2 * f[n] + FileBit(in, n)
    BY <2>1 DEF Bits
  <2>4. P(n + 1) = 2 * P(n) /\ P(n) \in Nat
    BY <2>1, Words DEF Doubles
  <2>5. f[n] \in Nat /\ f[n] < P(n)
    BY <1>2
  <2>6. f[n + 1] \in Nat /\ f[n + 1] < P(n + 1)
    BY <2>2, <2>3, <2>4, <2>5
  <2> QED BY <2>1, <2>6
<1> HIDE DEF T
<1>3. \A n \in 0 .. N : n \in T
  BY <1>1, <1>2, IntervalInduction
<1> QED BY <1>0, <1>3 DEF T

\* One bit more of a quotient.
OneBitMore(b, p, q) ==
    (b \div p) % (2 * q) = 2 * ((b \div (2 * p)) % q) + ((b \div p) % 2)

LEMMA NextQuotient ==
  ASSUME NEW p \in Nat \ {0}, NEW q \in Nat \ {0}, NEW b \in Nat
  PROVE  OneBitMore(b, p, q)
<1>1. PICK y \in Nat, s \in 0 .. p - 1 : b = p * y + s /\ b \div p = y
  BY Division
<1>2. PICK h \in Nat, c \in 0 .. 1 : y = 2 * h + c /\ y % 2 = c
  <2>1. 2 \in Nat \ {0} /\ 2 - 1 = 1
    OBVIOUS
  <2>2. PICK h \in Nat, c \in 0 .. 1 : y = 2 * h + c /\ y \div 2 = h /\ y % 2 = c
    BY <2>1, Division
  <2> QED BY <2>2
<1>3. b \div (2 * p) = h
  <2>1. p * c + s \in 0 .. (2 * p) - 1 /\ 2 * p \in Nat \ {0}
    <3>1. CASE c = 0
      BY <3>1
    <3>2. CASE c = 1
      BY <3>2
    <3> QED BY <3>1, <3>2
  <2>2. b = (2 * p) * h + (p * c + s)
    <3>1. p * (2 * h + c) = (2 * p) * h + p * c
      OBVIOUS
    <3>2. p * c \in Int /\ (2 * p) * h \in Int
      OBVIOUS
    <3>3. \A u, v \in Int : (u + v) + s = u + (v + s)
      OBVIOUS
    <3> QED BY <1>1, <1>2, <3>1, <3>2, <3>3
  <2> QED BY <2>1, <2>2, DivisionUnique
<1>4. PICK g \in Nat, r \in 0 .. q - 1 : h = q * g + r /\ h % q = r
  BY Division
<1>5. y % (2 * q) = 2 * r + c
  <2>1. 2 * r + c \in 0 .. (2 * q) - 1 /\ 2 * q \in Nat \ {0}
    OBVIOUS
  <2>2. y = (2 * q) * g + (2 * r + c)
    <3>1. 2 * (q * g + r) = (2 * q) * g + 2 * r
      OBVIOUS
    <3>2. (2 * q) * g \in Int
      OBVIOUS
    <3>3. \A u \in Int : (u + 2 * r) + c = u + (2 * r + c)
      OBVIOUS
    <3> QED BY <1>2, <1>4, <3>1, <3>2, <3>3
  <2> QED BY <2>1, <2>2, DivisionUnique
<1> QED BY <1>1, <1>2, <1>3, <1>4, <1>5 DEF OneBitMore

\* Bits of one byte that come next: k of them, from its bit a on.
Next(f, n, k, b, a) == f[n + k] = P(k) * f[n] + ((b \div P(8 - (a + k))) % P(k))

LEMMA BitsOfByte ==
  ASSUME NEW in \in Inputs, Whole(in), NEW f, Bits(f, in),
         NEW n \in Nat, NEW K \in Nat, n + K <= in.size,
         NEW j \in 0 .. ByteSpan(in) - 1, NEW a \in Nat, in.offset + n = 8 * j + a, a + K <= 8
  PROVE  Next(f, n, K, ByteAt(in, j), a)
<1>0. /\ in.size \in Nat /\ in.size <= W /\ in.offset \in Nat /\ W \in Nat /\ 8 <= W
      /\ j \in Nat
  <2>1. ByteSpan(in) \in Nat
    BY EndOfField DEF EndsAt
  <2> QED BY <2>1, InputFields, Words
<1>b. PICK b \in 0 .. 255 : b = ByteAt(in, j)
  BY BytesThere
<1> DEFINE T == {k \in 0 .. K : Next(f, n, k, b, a)}
<1>1. 0 \in T
  <2>1. f[n] \in Nat
    <3>1. n \in 0 .. in.size
      BY <1>0
    <3> QED BY <3>1, BitsRange
  <2>2. P(0) = 1
    BY Words, PowersPositive
  <2>3. b \div P(8 - (a + 0)) \in Nat
    <3>1. 8 - (a + 0) \in 0 .. W
      BY <1>0
    <3>2. PICK p \in Nat \ {0} : p = P(8 - (a + 0))
      BY <3>1, Words
    <3> QED BY <3>2
  <2>4. \A x \in Nat : x % 1 = 0
    OBVIOUS
  <2>5. (b \div P(8 - (a + 0))) % P(0) = 0
    BY <2>2, <2>3, <2>4
  <2>6. n + 0 = n /\ 1 * f[n] + 0 = f[n]
    BY <2>1
  <2>7. Next(f, n, 0, b, a)
    BY <2>2, <2>5, <2>6 DEF Next
  <2> QED BY <2>7
<1>2. ASSUME NEW k \in 0 .. K - 1, k \in T PROVE k + 1 \in T
  <2>1. /\ k \in Nat /\ k + 1 \in 0 .. K /\ n + k \in 0 .. in.size - 1
        /\ n + k \in 0 .. in.size
        /\ n + (k + 1) \in 1 .. in.size /\ (n + (k + 1)) - 1 = n + k
        /\ a + k \in 0 .. 7 /\ in.offset + (n + k) = 8 * j + (a + k)
        /\ 7 - (a + k) \in 0 .. W - 1 /\ 7 - (a + k) \in 0 .. W /\ k \in 0 .. W - 1 /\ k \in 0 .. W
        /\ (7 - (a + k)) + 1 = 8 - (a + k) /\ 8 - (a + (k + 1)) = 7 - (a + k)
    <3>1. k \in Nat /\ k + 1 <= K /\ a + k \in 0 .. 7
      OBVIOUS
    <3>2. PICK s \in Nat, o \in Nat : s = in.size /\ o = in.offset
      BY <1>0
    <3>3. n + K <= s /\ o + n = 8 * j + a /\ s <= W
      BY <1>0, <3>2
    <3>4. n + k \in 0 .. s - 1 /\ n + k \in 0 .. s /\ n + (k + 1) \in 1 .. s
          /\ k \in 0 .. W - 1 /\ k \in 0 .. W /\ k + 1 \in 0 .. K /\ (n + (k + 1)) - 1 = n + k
      BY <1>0, <3>1, <3>3
    <3>5. o + (n + k) = 8 * j + (a + k)
      BY <1>0, <3>1, <3>3
    <3>6. PICK d \in 0 .. 7 : d = a + k
      BY <3>1
    <3>7. 7 - d \in 0 .. W - 1 /\ 7 - d \in 0 .. W /\ (7 - d) + 1 = 8 - d
      BY <1>0
    <3>8. 8 - (a + (k + 1)) = 7 - (a + k)
      BY <3>1
    <3> QED BY <3>1, <3>2, <3>4, <3>5, <3>6, <3>7, <3>8
  <2>2. FileBit(in, n + k) = (b \div P(7 - (a + k))) % 2
    BY <1>0, <1>b, <2>1, BitOfByte
  <2>3. f[n + (k + 1)] = 2 * f[n + k] + FileBit(in, n + k)
    BY <2>1 DEF Bits
  <2>4. PICK p \in Nat \ {0}, q \in Nat \ {0} : p = P(7 - (a + k)) /\ q = P(k)
    BY <2>1, Words
  <2>5. P(8 - (a + k)) = 2 * p /\ P(k + 1) = 2 * q
    <3>1. P((7 - (a + k)) + 1) = 2 * P(7 - (a + k)) /\ P(k + 1) = 2 * P(k)
      BY <2>1, Words DEF Doubles
    <3> QED BY <2>1, <2>4, <3>1
  <2>6. PICK x \in Nat : x = f[n]
    <3>1. n \in 0 .. in.size
      BY <1>0
    <3> QED BY <3>1, BitsRange
  <2>7. f[n + k] = q * x + ((b \div (2 * p)) % q)
    BY <1>2, <2>4, <2>5, <2>6 DEF Next
  <2>8. PICK y \in Nat, z \in Nat : y = (b \div (2 * p)) % q /\ z = (b \div p) % 2
    <3>1. b \div p \in Nat /\ 2 * p \in Nat \ {0}
      OBVIOUS
    <3>2. \A d \in Nat \ {0} : b \div d \in Nat
      OBVIOUS
    <3>3. \A c \in Nat : c % 2 \in Nat /\ c % q \in Nat
      OBVIOUS
    <3> QED BY <3>1, <3>2, <3>3
  <2>9. (b \div p) % (2 * q) = 2 * y + z
    <3>1. OneBitMore(b, p, q)
      BY NextQuotient
    <3> QED BY <2>8, <3>1 DEF OneBitMore
  <2>10. 2 * (q * x + y) + z = (2 * q) * x + (2 * y + z)
    OBVIOUS
  <2>11. f[n + (k + 1)] = (2 * q) * x + ((b \div p) % (2 * q))
    BY <2>2, <2>3, <2>4, <2>7, <2>8, <2>9, <2>10
  <2>12. Next(f, n, k + 1, b, a)
    BY <2>1, <2>4, <2>5, <2>6, <2>11 DEF Next
  <2> QED BY <2>1, <2>12
<1> HIDE DEF T
<1>3. K \in T
  <2>1. K \in 0 .. K
    OBVIOUS
  <2> QED BY <1>1, <1>2, <2>1, IntervalInduction
<1> QED BY <1>3, <1>b DEF T

\* The quotient of a remainder.
QuotientFirst(b, p, q) == (b % (q * p)) \div p = (b \div p) % q

LEMMA QuotientOfRemainder ==
  ASSUME NEW p \in Nat \ {0}, NEW q \in Nat \ {0}, NEW b \in Nat
  PROVE  QuotientFirst(b, p, q)
<1>1. PICK y \in Nat, s \in 0 .. p - 1 : b = p * y + s /\ b \div p = y
  BY Division
<1>2. PICK g \in Nat, r \in 0 .. q - 1 : y = q * g + r /\ y % q = r
  BY Division
<1>3. PICK m \in Nat \ {0} : m = q * p
  OBVIOUS
<1>4. PICK t \in Nat : t = p * r
  OBVIOUS
<1>5. t + s \in 0 .. m - 1
  <2>1. PICK c \in Nat : q = r + 1 + c
    <3>1. q - r - 1 \in Nat /\ q = r + 1 + (q - r - 1)
      OBVIOUS
    <3> QED BY <3>1
  <2>2. (r + 1 + c) * p = p * r + p + c * p /\ c * p \in Nat
    OBVIOUS
  <2>3. m = t + p + c * p
    BY <1>3, <1>4, <2>1, <2>2
  <2> QED BY <1>4, <2>2, <2>3
<1>6. b = m * g + (t + s)
  <2>1. p * (q * g + r) = m * g + t
    <3>1. p * (q * g + r) = (q * p) * g + p * r
      OBVIOUS
    <3> QED BY <1>3, <1>4, <3>1
  <2>2. m * g \in Int
    OBVIOUS
  <2> QED BY <1>1, <1>2, <1>4, <2>1, <2>2
<1>7. b % m = t + s
  BY <1>5, <1>6, DivisionUnique
<1>8. (t + s) \div p = r
  BY <1>4, DivisionUnique
<1> QED BY <1>1, <1>2, <1>3, <1>7, <1>8 DEF QuotientFirst

\* How many bits the first byte has, if the field does not start with it.
FirstBits(in) ==
    IF in.offset = 0 THEN 0
    ELSE (IF in.size + in.offset < 8 THEN in.size + in.offset ELSE 8) - in.offset

LEMMA FirstByteCorrect ==
  ASSUME NEW in \in Inputs, Whole(in), NEW f, Bits(f, in),
         in.offset # 0 => in.order # "LittleEndian"
  PROVE  FirstByte(in) = f[FirstBits(in)] /\ FirstByte(in) \in Nat
<1>0. /\ in.size \in Nat /\ 1 <= in.size /\ in.size <= W
      /\ in.offset \in Nat /\ in.offset <= 7 /\ W \in Nat /\ 8 <= W
  BY InputFields, Words
<1>1. CASE in.offset = 0
  BY <1>1 DEF FirstByte, FirstBits, Bits
<1>2. CASE in.offset # 0
  <2> DEFINE end == IF in.size + in.offset < 8 THEN in.size + in.offset ELSE 8
             K == end - in.offset
  <2>1. /\ end \in Nat /\ end <= 8 /\ in.offset < end /\ end <= in.offset + in.size
        /\ in.offset + in.size = in.size + in.offset
    BY <1>0
  <2>2. FirstByte(in) = Shr(in.bytes[1] % P(8 - in.offset), 8 - end)
    BY <1>2 DEF FirstByte, P
  <2>3. FirstBits(in) = K
    BY <1>2 DEF FirstBits
  <2> HIDE DEF end
  <2>4. K \in Nat /\ 0 + K <= in.size /\ in.offset + 0 = 8 * 0 + in.offset /\ in.offset + K <= 8
        /\ K \in 0 .. in.size
    BY <1>0, <2>1
  <2>5. 0 \in 0 .. ByteSpan(in) - 1
    <3>1. PICK q \in Nat, r \in 0 .. 7 : EndsAt(in, q, r)
      BY EndOfField
    <3>2. 1 <= 8 * q + r /\ ByteSpan(in) = IF r # 0 THEN q + 1 ELSE q
      BY <1>0, <3>1 DEF EndsAt
    <3>3. ByteSpan(in) \in Nat /\ 1 <= ByteSpan(in)
      BY <3>2
    <3> QED BY <3>3
  <2>6. Next(f, 0, K, ByteAt(in, 0), in.offset)
    BY <1>0, <2>4, <2>5, BitsOfByte
  <2>7. PICK b \in Nat : b = ByteAt(in, 0) /\ b = in.bytes[1]
    <3>1. ByteAt(in, 0) \in Nat
      BY <2>5, BytesThere
    <3>2. ByteAt(in, 0) = in.bytes[1]
      BY <1>2 DEF ByteAt
    <3> QED BY <3>1, <3>2
  <2>8. 8 - end \in 0 .. W /\ 8 - end \in Nat /\ K \in 0 .. W /\ K + (8 - end) = 8 - in.offset
        /\ K + (8 - end) <= W /\ 8 - (in.offset + K) = 8 - end /\ 0 + K = K
    <3>1. PICK o \in Nat, e \in Nat : o = in.offset /\ e = end
      BY <1>0, <2>1
    <3>2. e <= 8 /\ o < e
      BY <2>1, <3>1
    <3>3. /\ 8 - e \in 0 .. W /\ 8 - e \in Nat /\ e - o \in 0 .. W /\ (e - o) + (8 - e) = 8 - o
          /\ (e - o) + (8 - e) <= W /\ 8 - (o + (e - o)) = 8 - e /\ 0 + (e - o) = e - o
      BY <1>0, <3>2
    <3> QED BY <3>1, <3>3
  <2>9. PICK p \in Nat \ {0}, q \in Nat \ {0} : p = P(8 - end) /\ q = P(K)
    BY <2>8, Words
  <2>10. P(8 - in.offset) = q * p
    <3>1. K \in Nat /\ W \in Nat /\ Doubles(W)
      BY <2>8, Words
    <3>2. P(K + (8 - end)) = P(K) * P(8 - end)
      BY <2>8, <3>1, PowerOfSum
    <3> QED BY <2>8, <2>9, <3>2
  <2>11. FirstByte(in) = (b % (q * p)) \div p
    BY <2>2, <2>7, <2>9, <2>10 DEF Shr, P
  <2>12. f[K] = (b \div p) % q
    <3>1. f[0] = 0 /\ q * 0 = 0
      BY DEF Bits
    <3>2. f[K] = q * f[0] + ((b \div p) % q)
      BY <2>6, <2>7, <2>8, <2>9 DEF Next
    <3>3. (b \div p) % q \in Nat
      <4>1. b \div p \in Nat
        OBVIOUS
      <4>2. \A c \in Nat : c % q \in Nat
        OBVIOUS
      <4> QED BY <4>1, <4>2
    <3> QED BY <3>1, <3>2, <3>3
  <2>13. FirstByte(in) = f[K]
    <3>1. QuotientFirst(b, p, q)
      BY QuotientOfRemainder
    <3> QED BY <2>11, <2>12, <3>1 DEF QuotientFirst
  <2>14. f[K] \in Nat
    BY <2>4, BitsRange
  <2> QED BY <2>3, <2>13, <2>14
<1> QED BY <1>1, <1>2

\* The loop over the whole bytes.
First(in) == IF in.offset # 0 THEN 1 ELSE 0

WholeLoop(v, in, count) ==
    /\ v[0] = FirstByte(in)
    /\ \A n \in 1 .. count :
          v[n] = IF in.order = "LittleEndian"
                 THEN Or(W, v[n - 1], Shl(in.bytes[First(in) + n], 8 * (First(in) + n - 1)))
                 ELSE Or(W, Shl(v[n - 1], 8), in.bytes[First(in) + n])

LEMMA WholeUnfolds ==
  ASSUME NEW in \in Inputs, FirstByte(in) \in Nat,
         NEW q \in Nat, NEW r \in 0 .. 7, EndsAt(in, q, r), First(in) <= q
  PROVE  \E v : WholeLoop(v, in, q - First(in)) /\ WholeBytes(in) = v[q - First(in)]
<1> DEFINE F == First(in)
           N == ByteSpan(in) - F - (IF FinalBits(in) # 0 THEN 1 ELSE 0)
           Step(x, n) == IF in.order = "LittleEndian"
                         THEN Or(W, x, Shl(in.bytes[F + n], 8 * (F + n - 1)))
                         ELSE Or(W, Shl(x, 8), in.bytes[F + n])
           Loop(u) == u = [n \in 0 .. N |->
                             IF n = 0 THEN FirstByte(in) ELSE Step(u[n - 1], n)]
           step == [p \in Nat \X (1 .. N) |-> Step(p[1], p[2])]
<1>0. N \in Nat /\ N = q - F
  <2>1. F \in Nat /\ F <= q
    BY DEF First
  <2>2. ByteSpan(in) = (IF r # 0 THEN q + 1 ELSE q) /\ FinalBits(in) = r
    BY DEF EndsAt
  <2> QED BY <2>1, <2>2
<1>1. \A x, n : Step(x, n) \in Nat
  BY Words, OrUnfolds
<1> DEFINE U == CHOOSE u : Loop(u)
<1>7. WholeBytes(in) = IF N > 0 THEN U[N] ELSE FirstByte(in)
  BY Zenon DEF WholeBytes, First
<1> HIDE DEF Step
<1>2. step \in [Nat \X (1 .. N) -> Nat]
  BY <1>1
<1>3. \A v \in Nat, i \in 1 .. N : step[<<v, i>>] = Step(v, i)
  OBVIOUS
<1> HIDE DEF step, N
<1>4. PICK f \in [0 .. N -> Nat] : Recursion(f, FirstByte(in), step, N)
  BY <1>0, <1>2, RecursionExists, Zenon
<1>5. ASSUME NEW n \in 1 .. N PROVE f[n] = Step(f[n - 1], n)
  <2>1. n - 1 \in 0 .. N /\ f[n - 1] \in Nat
    BY <1>0
  <2>2. f[n] = step[<<f[n - 1], n>>]
    BY <1>4 DEF Recursion
  <2> QED BY <1>3, <2>1, <2>2
<1>6. Loop(f)
  <2>1. f[0] = FirstByte(in)
    BY <1>4 DEF Recursion
  <2>2. \A n \in 0 .. N : n # 0 => n \in 1 .. N
    BY <1>0
  <2> QED BY <1>5, <2>1, <2>2
<1>8. Loop(U)
  BY <1>6, Zenon
<1> HIDE DEF U
<1>9. U[0] = FirstByte(in) /\ \A n \in 1 .. N : U[n] = Step(U[n - 1], n)
  <2>1. 0 \in 0 .. N /\ \A n \in 1 .. N : n \in 0 .. N /\ n # 0
    BY <1>0
  <2> QED BY <1>8, <2>1
<1>10. WholeLoop(U, in, N)
  BY <1>9 DEF WholeLoop, Step, First
<1>11. WholeBytes(in) = U[N]
  BY <1>0, <1>7, <1>9
<1> QED BY <1>0, <1>10, <1>11

\* The whole bytes, most significant first, are the bits up to the last byte.
LEMMA BigEndianBytes ==
  ASSUME NEW in \in Inputs, Whole(in), NEW f, Bits(f, in), in.order # "LittleEndian",
         NEW q \in Nat, NEW r \in 0 .. 7, EndsAt(in, q, r), First(in) <= q
  PROVE  WholeBytes(in) = f[8 * q - in.offset]
<1>0. /\ in.size \in Nat /\ 1 <= in.size /\ in.size <= W
      /\ in.offset \in Nat /\ in.offset <= 7 /\ W \in Nat /\ 8 <= W
  BY InputFields, Words
<1>1. FirstByte(in) = f[FirstBits(in)] /\ FirstByte(in) \in Nat
  BY FirstByteCorrect
<1>2. PICK v : WholeLoop(v, in, q - First(in)) /\ WholeBytes(in) = v[q - First(in)]
  BY <1>1, WholeUnfolds
<1>3. PICK F \in Nat, N \in Nat, o \in Nat, z \in Nat :
         F = First(in) /\ N = q - F /\ o = in.offset /\ z = in.size
  <2>1. First(in) \in Nat /\ q - First(in) \in Nat
    BY DEF First
  <2> QED BY <1>0, <2>1
<1>4. /\ o + z = 8 * q + r /\ F + N = q /\ (o = 0 => F = 0) /\ (o # 0 => F = 1) /\ o <= 7
      /\ 1 <= z /\ z <= W
      /\ ByteSpan(in) = IF r # 0 THEN q + 1 ELSE q
  BY <1>0, <1>3 DEF EndsAt, First
<1> DEFINE T == {n \in 0 .. N : v[n] = f[8 * (F + n) - o]}
<1>5. 0 \in T
  <2>1. FirstBits(in) = 8 * (F + 0) - o
    <3>1. CASE o = 0
      BY <1>3, <1>4, <3>1 DEF FirstBits
    <3>2. CASE o # 0
      <4>1. ~ (z + o < 8)
        BY <1>3, <1>4, <3>2
      <4>2. FirstBits(in) = 8 - o
        BY <1>3, <3>2, <4>1 DEF FirstBits
      <4> QED BY <1>4, <3>2, <4>2
    <3> QED BY <3>1, <3>2
  <2>2. v[0] = FirstByte(in)
    BY <1>2 DEF WholeLoop
  <2>3. v[0] = f[8 * (F + 0) - o]
    BY <1>1, <2>1, <2>2
  <2> QED BY <2>3
<1>6. ASSUME NEW n \in 0 .. N - 1, n \in T PROVE n + 1 \in T
  <2>1. PICK m \in Nat : m = 8 * (F + n) - o
    <3>1. CASE F + n = 0
      <4>1. o = 0
        BY <1>4, <3>1
      <4> QED BY <3>1, <4>1
    <3>2. CASE F + n # 0
      <4>1. 8 * (F + n) - o \in Nat
        BY <1>4, <3>2
      <4> QED BY <4>1
    <3> QED BY <3>1, <3>2
  <2>2. PICK j \in Nat : j = F + n
    OBVIOUS
  <2>3. /\ j + 1 <= q /\ m = 8 * j - o /\ m + 8 <= z /\ o + m = 8 * j + 0
        /\ 8 * (F + (n + 1)) - o = m + 8 /\ n + 1 \in 1 .. N /\ n + 1 \in 0 .. N /\ (n + 1) - 1 = n
        /\ m \in 0 .. z
    <3>1. n + 1 \in 1 .. N /\ n + 1 \in 0 .. N /\ (n + 1) - 1 = n
      BY <1>4
    <3>2. m = 8 * j - o /\ o + m = 8 * j + 0
      BY <1>4, <2>1, <2>2
    <3>3. 8 * (F + (n + 1)) - o = m + 8
      BY <1>4, <2>1
    <3>4. j + 1 <= q
      BY <1>3, <1>4, <2>2
    <3>5. m + 8 <= z
      BY <1>3, <1>4, <3>2, <3>4
    <3>6. m \in 0 .. z
      BY <1>3, <1>4, <3>5
    <3> QED BY <3>1, <3>2, <3>3, <3>4, <3>5, <3>6
  <2>4. j \in 0 .. ByteSpan(in) - 1
    BY <1>4, <2>3
  <2>5. Next(f, m, 8, ByteAt(in, j), 0)
    BY <1>3, <2>3, <2>4, BitsOfByte
  <2>6. PICK b \in 0 .. 255 : b = ByteAt(in, j)
    BY <2>4, BytesThere
  <2>7. b = in.bytes[F + (n + 1)]
    <3>1. F + (n + 1) = j + 1
      BY <2>2
    <3> QED BY <2>6, <3>1 DEF ByteAt
  <2>8. PICK x \in Nat : x = f[m] /\ x < P(m)
    BY <1>3, <2>3, BitsRange
  <2>9. P(0) = 1 /\ P(8) = 256
    BY Words, SmallPowers
  <2>10. f[m + 8] = 256 * x + b
    <3>1. 8 - (0 + 8) = 0 /\ b \div 1 = b /\ b % 256 = b
      OBVIOUS
    <3> QED BY <2>5, <2>6, <2>8, <2>9, <3>1 DEF Next
  <2>11. v[n + 1] = Or(W, Shl(x, 8), b)
    <3>1. v[n + 1] = Or(W, Shl(v[n], 8), in.bytes[F + (n + 1)])
      <4>1. v[n + 1] = Or(W, Shl(v[(n + 1) - 1], 8), in.bytes[First(in) + (n + 1)])
        BY <1>2, <1>3, <2>3 DEF WholeLoop
      <4> QED BY <1>3, <2>3, <4>1
    <3>2. v[n] = x
      BY <1>6, <2>1, <2>8
    <3> QED BY <2>7, <3>1, <3>2
  <2>12. P(8) * x < P(W) /\ Shl(x, 8) = P(8) * x
    <3>1. CASE m = 0
      <4>1. x = 0
        BY <2>8, <2>9, <3>1
      <4>2. PICK s \in Nat \ {0} : s = P(W)
        <5>1. W \in 0 .. W
          BY <1>0
        <5> QED BY <5>1, Words
      <4>3. (0 * 2 ^ (8 % W)) % s = 0
        <5>1. 8 % W \in 0 .. W
          BY <1>0
        <5>2. PICK p \in Nat : p = P(8 % W)
          BY <5>1, Words
        <5>3. 0 * p = 0 /\ 0 % s = 0
          OBVIOUS
        <5> QED BY <5>2, <5>3 DEF P
      <4>4. P(8) * x = 0
        BY <2>9, <4>1
      <4> QED BY <4>1, <4>2, <4>3, <4>4 DEF Shl, P
    <3>2. CASE m # 0
      <4>1. 8 < W /\ 8 % W = 8 /\ m + 8 <= W /\ m + 8 \in 0 .. W /\ W - (m + 8) \in 0 .. W
            /\ (m + 8) + (W - (m + 8)) = W /\ m \in 0 .. W /\ W \in 0 .. W /\ W - (m + 8) \in Nat
        BY <1>0, <1>4, <2>3, <3>2
      <4>2. PICK p \in Nat \ {0}, d \in Nat \ {0}, s \in Nat \ {0} :
               p = P(m) /\ d = P(W - (m + 8)) /\ s = P(W)
        BY <4>1, Words
      <4>3. P(m + 8) = p * 256
        BY <2>9, <4>1, <4>2, Words, PowerOfSum
      <4>4. s = (p * 256) * d
        <5>1. (m + 8) + (W - (m + 8)) <= W
          BY <4>1
        <5>2. P((m + 8) + (W - (m + 8))) = P(m + 8) * P(W - (m + 8))
          BY <4>1, <5>1, Words, PowerOfSum
        <5> QED BY <4>1, <4>2, <4>3, <5>2
      <4>5. p * 256 <= s
        <5>1. PICK c \in Nat : d = c + 1
          <6>1. d - 1 \in Nat /\ d = (d - 1) + 1
            OBVIOUS
          <6> QED BY <6>1
        <5>2. (p * 256) * (c + 1) = (p * 256) * c + p * 256 /\ (p * 256) * c \in Nat
          OBVIOUS
        <5> QED BY <4>4, <5>1, <5>2
      <4>6. x * 256 \in 0 .. s - 1 /\ 256 * x = x * 256
        BY <2>8, <4>2, <4>5
      <4>7. (x * 256) % s = x * 256
        BY <4>6, SmallRemainder
      <4>8. Shl(x, 8) = (x * 256) % s
        BY <2>9, <4>1, <4>2 DEF Shl, P
      <4> QED BY <2>9, <4>2, <4>6, <4>7, <4>8
    <3> QED BY <3>1, <3>2
  <2>13. Or(W, P(8) * x, b) = P(8) * x + b
    <3>1. 8 \in 0 .. W /\ b < P(8) /\ b \in Nat
      BY <1>0, <2>9
    <3> QED BY <2>12, <3>1, Words, OrDisjoint
  <2>14. v[n + 1] = f[8 * (F + (n + 1)) - o]
    <3>1. 8 * (F + (n + 1)) - o = m + 8
      BY <2>3
    <3>2. v[n + 1] = P(8) * x + b
      BY <2>11, <2>12, <2>13
    <3>3. v[n + 1] = 256 * x + b
      BY <2>9, <3>2
    <3> QED BY <2>10, <3>1, <3>3
  <2> QED BY <2>3, <2>14
<1> HIDE DEF T
<1>7. N \in T
  <2>1. N \in 0 .. N
    OBVIOUS
  <2> QED BY <1>5, <1>6, <2>1, IntervalInduction
<1> QED BY <1>2, <1>3, <1>4, <1>7 DEF T

\* The whole bytes, least significant first, are the bits of all bytes.
LEMMA LittleEndianBytes ==
  ASSUME NEW in \in Inputs, Whole(in), NEW f, Bits(f, in), in.order = "LittleEndian",
         in.offset = 0, NEW q \in Nat, EndsAt(in, q, 0)
  PROVE  WholeBytes(in) = f[in.size]
<1>0. /\ in.size = 8 * q /\ in.size <= W /\ W \in Nat /\ ByteSpan(in) = q /\ First(in) = 0
      /\ 1 <= q
  BY InputFields, Words DEF EndsAt, First
<1>1. FirstByte(in) = 0
  BY DEF FirstByte
<1>2. PICK v : WholeLoop(v, in, q) /\ WholeBytes(in) = v[q]
  <2>1. 0 \in 0 .. 7 /\ FirstByte(in) \in Nat /\ First(in) <= q /\ q - First(in) = q
    BY <1>0, <1>1
  <2> QED BY <2>1, WholeUnfolds
<1>3. \A n \in 1 .. q : in.bytes[n] \in 0 .. 255 /\ ByteAt(in, q - n) = in.bytes[n]
  <2>1. ASSUME NEW n \in 1 .. q PROVE in.bytes[n] \in 0 .. 255 /\ ByteAt(in, q - n) = in.bytes[n]
    <3>1. q - n \in 0 .. ByteSpan(in) - 1 /\ q - (q - n) = n
      BY <1>0
    <3>2. ByteAt(in, q - n) = in.bytes[n]
      BY <1>0, <3>1 DEF ByteAt
    <3> QED BY <3>1, <3>2, BytesThere
  <2> QED BY <2>1
\* Each byte is added above those before it.
<1>4. \A n \in 0 .. q : v[n] \in Nat /\ v[n] < P(8 * n)
                     /\ (n # 0 => v[n] = v[n - 1] + P(8 * (n - 1)) * in.bytes[n])
  <2> DEFINE T == {n \in 0 .. q : v[n] \in Nat /\ v[n] < P(8 * n)
                     /\ (n # 0 => v[n] = v[n - 1] + P(8 * (n - 1)) * in.bytes[n])}
  <2>1. 0 \in T
    <3>1. v[0] = 0 /\ P(8 * 0) = 1
      BY <1>1, <1>2, Words, PowersPositive DEF WholeLoop
    <3> QED BY <3>1
  <2>2. ASSUME NEW n \in 0 .. q - 1, n \in T PROVE n + 1 \in T
    <3>1. /\ n + 1 \in 1 .. q /\ n + 1 \in 0 .. q /\ (n + 1) - 1 = n /\ 0 + (n + 1) - 1 = n
          /\ 0 + (n + 1) = n + 1
          /\ 8 * n \in 0 .. W /\ 8 * n < W /\ 8 * n \in Nat /\ 8 * (n + 1) = 8 * n + 8
          /\ 8 * n + 8 <= W /\ 8 * n + 8 \in 0 .. W
      BY <1>0
    <3>2. PICK b \in 0 .. 255, x \in Nat : b = in.bytes[n + 1] /\ x = v[n] /\ x < P(8 * n)
      BY <1>3, <2>2, <3>1
    <3>3. PICK p \in Nat \ {0}, s \in Nat \ {0} : p = P(8 * n) /\ s = P(W)
      <4>1. W \in 0 .. W
        BY <1>0
      <4> QED BY <3>1, <4>1, Words
    <3>4. P(8 * n + 8) = p * 256
      <4>1. P(8) = 256
        BY Words, SmallPowers
      <4> QED BY <3>1, <3>3, <4>1, Words, PowerOfSum
    <3>5. p * 256 <= s
      <4>1. W - (8 * n + 8) \in Nat /\ (8 * n + 8) + (W - (8 * n + 8)) = W
            /\ W - (8 * n + 8) \in 0 .. W /\ (8 * n + 8) + (W - (8 * n + 8)) <= W
        BY <1>0, <3>1
      <4>2. PICK d \in Nat \ {0} : d = P(W - (8 * n + 8))
        BY <4>1, Words
      <4>3. s = (p * 256) * d
        <5>1. P((8 * n + 8) + (W - (8 * n + 8))) = P(8 * n + 8) * P(W - (8 * n + 8))
          BY <3>1, <4>1, Words, PowerOfSum
        <5> QED BY <3>3, <3>4, <4>1, <4>2, <5>1
      <4>4. PICK c \in Nat : d = c + 1
        <5>1. d - 1 \in Nat /\ d = (d - 1) + 1
          OBVIOUS
        <5> QED BY <5>1
      <4>5. (p * 256) * (c + 1) = (p * 256) * c + p * 256 /\ (p * 256) * c \in Nat
        OBVIOUS
      <4> QED BY <4>3, <4>4, <4>5
    <3>6. b * p \in 0 .. s - 1 /\ p * b = b * p /\ p * b + p <= p * 256
      <4>1. PICK c \in Nat : 256 = b + 1 + c
        <5>1. 255 - b \in Nat /\ 256 = b + 1 + (255 - b)
          OBVIOUS
        <5> QED BY <5>1
      <4>2. p * (b + 1 + c) = b * p + p + p * c /\ p * c \in Nat /\ b * p \in Nat /\ p * b = b * p
        OBVIOUS
      <4>3. p * 256 = b * p + p + p * c
        BY <4>1, <4>2
      <4> QED BY <3>5, <4>2, <4>3
    <3>7. Shl(b, 8 * n) = p * b
      <4>1. (8 * n) % W = 8 * n
        BY <1>0, <3>1
      <4>2. (b * p) % s = b * p
        BY <3>6, SmallRemainder
      <4> QED BY <3>3, <3>6, <4>1, <4>2 DEF Shl, P
    <3>8. v[n + 1] = Or(W, x, p * b)
      <4>1. v[n + 1] = Or(W, v[(n + 1) - 1], Shl(in.bytes[0 + (n + 1)], 8 * (0 + (n + 1) - 1)))
        BY <1>0, <1>2, <3>1 DEF WholeLoop
      <4> QED BY <3>1, <3>2, <3>7, <4>1
    <3>9. v[n + 1] = x + p * b
      <4>1. p * b < s /\ b \in Nat /\ p * b \in Nat
        BY <3>6
      <4>2. Or(W, x, P(8 * n) * b) = P(8 * n) * b + x
        BY <3>1, <3>2, <3>3, <4>1, Words, OrDisjoint
      <4> QED BY <3>3, <3>8, <4>1, <4>2
    <3>10. v[n + 1] \in Nat /\ v[n + 1] < P(8 * (n + 1))
      <4>1. PICK y \in Nat : y = p * b
        BY <3>6
      <4>2. x < p /\ y + p <= p * 256 /\ v[n + 1] = x + y
        BY <3>2, <3>3, <3>6, <3>9, <4>1
      <4>3. PICK z \in Nat : z = p * 256
        OBVIOUS
      <4>4. v[n + 1] \in Nat /\ v[n + 1] < z
        BY <4>2, <4>3
      <4>5. P(8 * (n + 1)) = z
        BY <3>1, <3>4, <4>3
      <4> QED BY <4>4, <4>5
    <3>11. v[n + 1] = v[n] + P(8 * n) * in.bytes[n + 1]
      BY <3>2, <3>3, <3>9
    <3> QED BY <3>1, <3>10, <3>11
  <2> HIDE DEF T
  <2>3. \A n \in 0 .. q : n \in T
    BY <2>1, <2>2, IntervalInduction
  <2> QED BY <2>3 DEF T
\* The last m bytes of the loop are the first 8 * m bits.
<1> DEFINE R == {m \in 0 .. q : v[q] = v[q - m] + P(8 * (q - m)) * f[8 * m]}
<1>5. 0 \in R
  <2>1. f[0] = 0 /\ q - 0 = q /\ 8 * 0 = 0 /\ v[q] \in Nat
    <3>1. q \in 0 .. q
      OBVIOUS
    <3> QED BY <1>4, <3>1 DEF Bits
  <2>2. PICK p \in Nat : p = P(8 * (q - 0))
    <3>1. 8 * (q - 0) \in 0 .. W
      BY <1>0
    <3> QED BY <3>1, Words
  <2>3. p * 0 = 0 /\ v[q] + 0 = v[q]
    BY <2>1
  <2> QED BY <2>1, <2>2, <2>3
<1>6. ASSUME NEW m \in 0 .. q - 1, m \in R PROVE m + 1 \in R
  <2>1. PICK n \in Nat : n = q - (m + 1)
    <3>1. q - (m + 1) \in Nat
      OBVIOUS
    <3> QED BY <3>1
  <2>2. /\ q - m = n + 1 /\ q - (n + 1) = m /\ n + 1 \in 1 .. q /\ n + 1 \in 0 .. q /\ n + 1 # 0
        /\ n \in 0 .. q /\ (n + 1) - 1 = n /\ m + 1 \in 0 .. q
        /\ 8 * m \in Nat /\ 8 * m + 8 <= in.size /\ 0 + 8 * m = 8 * m + 0 /\ 8 * (m + 1) = 8 * m + 8
        /\ 8 * (n + 1) = 8 * n + 8 /\ 8 * n + 8 <= W /\ 8 * n \in Nat /\ 8 * n \in 0 .. W
        /\ 8 * m \in 0 .. in.size /\ m \in 0 .. q - 1
    BY <1>0, <2>1
  <2>3. PICK b \in 0 .. 255 : b = in.bytes[n + 1] /\ b = ByteAt(in, m)
    <3>1. in.bytes[n + 1] \in 0 .. 255 /\ ByteAt(in, q - (n + 1)) = in.bytes[n + 1]
      BY <1>3, <2>2
    <3>2. ByteAt(in, m) = in.bytes[n + 1]
      BY <2>2, <3>1
    <3> QED BY <3>1, <3>2, Zenon
  <2>4. Next(f, 8 * m, 8, b, 0)
    <3>1. m \in 0 .. ByteSpan(in) - 1 /\ in.offset + 8 * m = 8 * m + 0
      BY <1>0, <2>2
    <3> QED BY <2>2, <2>3, <3>1, BitsOfByte
  <2>5. P(0) = 1 /\ P(8) = 256
    BY Words, SmallPowers
  <2>6. PICK x \in Nat, p \in Nat, y \in Nat : x = f[8 * m] /\ p = P(8 * n) /\ y = v[n]
    BY <1>4, <2>2, Words, BitsRange
  <2>7. f[8 * (m + 1)] = 256 * x + b
    <3>1. 8 - (0 + 8) = 0 /\ b \div 1 = b /\ b % 256 = b
      OBVIOUS
    <3> QED BY <2>2, <2>4, <2>5, <2>6, <3>1 DEF Next
  <2>8. P(8 * (n + 1)) = p * 256
    BY <2>2, <2>5, <2>6, Words, PowerOfSum
  <2>9. v[n + 1] = y + p * b
    <3>1. n + 1 \in 0 .. q /\ n + 1 # 0 /\ (n + 1) - 1 = n
      BY <2>2
    <3>2. v[n + 1] = v[(n + 1) - 1] + P(8 * ((n + 1) - 1)) * in.bytes[n + 1]
      BY <1>4, <3>1, Zenon
    <3>3. v[n + 1] = v[n] + P(8 * n) * in.bytes[n + 1]
      BY <3>1, <3>2
    <3> QED BY <2>3, <2>6, <3>3
  <2>10. v[q] = (y + p * b) + (p * 256) * x
    BY <1>6, <2>2, <2>6, <2>8, <2>9
  <2>11. (y + p * b) + (p * 256) * x = y + p * (256 * x + b)
    OBVIOUS
  <2>12. v[q] = v[q - (m + 1)] + P(8 * (q - (m + 1))) * f[8 * (m + 1)]
    BY <2>1, <2>6, <2>7, <2>10, <2>11
  <2> QED BY <2>2, <2>12
<1> HIDE DEF R
<1>7. q \in R
  <2>1. q \in 0 .. q
    OBVIOUS
  <2> QED BY <1>5, <1>6, <2>1, IntervalInduction
<1>8. v[q] = v[0] + P(0) * f[in.size]
  <2>1. q - q = 0 /\ 8 * 0 = 0
    OBVIOUS
  <2> QED BY <1>0, <1>7, <2>1 DEF R
<1>9. f[in.size] \in Nat /\ v[0] = 0 /\ P(0) = 1
  <2>1. in.size \in 0 .. in.size
    BY <1>0
  <2> QED BY <1>1, <1>2, <2>1, BitsRange, Words, PowersPositive DEF WholeLoop
<1> QED BY <1>2, <1>8, <1>9

\* The last byte gives the rest of the bits.
LEMMA AllBitsRead ==
  ASSUME NEW in \in Inputs, Whole(in), NEW f, Bits(f, in), Supported(in),
         ~ (in.order = "LittleEndian" /\ (in.offset # 0 \/ FinalBits(in) # 0))
  PROVE  LastByte(in) = f[in.size]
<1>1. PICK q \in Nat, r \in 0 .. 7 : EndsAt(in, q, r)
  BY EndOfField
<1>2. PICK o \in Nat, z \in Nat : o = in.offset /\ z = in.size
  BY InputFields
<1>3. /\ o + z = 8 * q + r /\ 1 <= z /\ z <= W /\ o <= 7 /\ W \in Nat /\ 8 <= W
      /\ FinalBits(in) = r /\ ByteSpan(in) = IF r # 0 THEN q + 1 ELSE q
      /\ First(in) = IF o # 0 THEN 1 ELSE 0
  BY <1>1, <1>2, InputFields, Words DEF EndsAt, First
<1>4. CASE in.order = "LittleEndian"
  <2>1. o = 0 /\ r = 0
    BY <1>2, <1>3, <1>4
  <2>2. WholeBytes(in) = f[in.size]
    BY <1>1, <1>2, <1>4, <2>1, LittleEndianBytes
  <2> QED BY <1>3, <2>1, <2>2 DEF LastByte
<1>5. CASE in.order # "LittleEndian" /\ r = 0
  <2>1. First(in) <= q /\ 8 * q - o = z
    BY <1>3, <1>5
  <2>2. WholeBytes(in) = f[8 * q - in.offset]
    BY <1>1, <1>5, <2>1, BigEndianBytes
  <2> QED BY <1>2, <1>3, <1>5, <2>1, <2>2 DEF LastByte
<1>6. CASE in.order # "LittleEndian" /\ r # 0 /\ q = 0
  <2>1. o # 0 /\ o + z < 8 /\ z + o < 8 /\ (z + o) - o = z
    <3>1. ~ (o + z > 8)
      BY <1>3, <1>6
    <3> QED BY <1>2, <1>3, <1>6, <3>1 DEF Supported
  <2>2. FirstBits(in) = z
    BY <1>2, <2>1 DEF FirstBits
  <2>3. FirstByte(in) = f[in.size]
    BY <1>2, <1>6, <2>2, FirstByteCorrect
  <2>4. ByteSpan(in) - 1 - 1 = -1 /\ ByteSpan(in) = 1 /\ ~ (-1 > 0)
    BY <1>3, <1>6
  <2>5. WholeBytes(in) = FirstByte(in)
    <3>1. in.offset # 0 /\ FinalBits(in) # 0
      BY <1>2, <1>3, <1>6, <2>1
    <3> DEFINE N == ByteSpan(in) - 1 - 1
               U == CHOOSE u : u = [n \in 0 .. N |->
                        IF n = 0 THEN FirstByte(in)
                        ELSE IF in.order = "LittleEndian"
                             THEN Or(W, u[n - 1], Shl(in.bytes[1 + n], 8 * (1 + n - 1)))
                             ELSE Or(W, Shl(u[n - 1], 8), in.bytes[1 + n])]
    <3>2. WholeBytes(in) = IF N > 0 THEN U[N] ELSE FirstByte(in)
      BY <3>1 DEF WholeBytes
    <3> QED BY <2>4, <3>2
  <2> QED BY <1>3, <1>6, <2>3, <2>4, <2>5 DEF LastByte
<1>7. CASE in.order # "LittleEndian" /\ r # 0 /\ q # 0
  <2>1. r = 4
    BY <1>2, <1>3, <1>7 DEF Supported
  <2>2. PICK m \in Nat : m = 8 * q - o
    <3>1. 8 * q - o \in Nat
      BY <1>3, <1>7
    <3> QED BY <3>1
  <2>3. /\ First(in) <= q /\ m + 4 = z /\ o + m = 8 * q + 0 /\ m \in 0 .. z /\ z \in 0 .. W
        /\ q \in 0 .. ByteSpan(in) - 1 /\ ByteSpan(in) # 1 /\ ByteSpan(in) = q + 1
        /\ 8 - (0 + 4) = 4 /\ m + 4 <= z /\ 0 + 4 <= 8
        /\ m \in 0 .. W /\ m + 4 <= W /\ W - z \in 0 .. W /\ z + (W - z) = W /\ z + (W - z) <= W
        /\ W - z \in Nat /\ 4 % W = 4 /\ 4 \in 0 .. W /\ W \in 0 .. W
    BY <1>3, <1>7, <2>1, <2>2
  <2>4. WholeBytes(in) = f[m]
    BY <1>1, <1>2, <1>7, <2>2, <2>3, BigEndianBytes
  <2>5. Next(f, m, 4, ByteAt(in, q), 0)
    <3>1. in.offset + m = 8 * q + 0 /\ m + 4 <= in.size
      BY <1>2, <2>3
    <3> QED BY <2>3, <3>1, BitsOfByte
  <2>6. PICK b \in 0 .. 255 : b = ByteAt(in, q) /\ b = in.bytes[ByteSpan(in)]
    <3>1. ByteAt(in, q) = in.bytes[ByteSpan(in)]
      BY <1>7, <2>3 DEF ByteAt
    <3> QED BY <2>3, <3>1, BytesThere
  <2>7. P(4) = 16
    BY <1>3, Words, SmallPowers
  <2>8. PICK x \in Nat, c \in Nat : x = f[m] /\ c = b \div 16 /\ c < 16 /\ c % 16 = c
    <3>1. f[m] \in Nat
      BY <1>2, <2>3, BitsRange
    <3>2. b \div 16 \in 0 .. 15
      OBVIOUS
    <3>3. \A y \in 0 .. 15 : y \in Nat /\ y < 16 /\ y % 16 = y
      OBVIOUS
    <3> QED BY <3>1, <3>2, <3>3
  <2>9. f[z] = 16 * x + c
    <3>1. f[m + 4] = P(4) * f[m] + ((b \div P(8 - (0 + 4))) % P(4))
      BY <2>5, <2>6 DEF Next
    <3>2. f[m + 4] = 16 * x + (c % 16)
      BY <2>3, <2>7, <2>8, <3>1
    <3> QED BY <2>3, <2>8, <3>2
  <2>10. PICK s \in Nat \ {0} : s = P(W) /\ 16 * x < s
    <3>1. PICK p \in Nat \ {0}, d \in Nat \ {0}, s \in Nat \ {0} : p = P(z) /\ d = P(W - z) /\ s = P(W)
      BY <2>3, Words
    <3>2. s = p * d
      <4>1. P(z + (W - z)) = P(z) * P(W - z)
        BY <2>3, Words, PowerOfSum
      <4> QED BY <2>3, <3>1, <4>1
    <3>3. p <= s
      <4>1. PICK e \in Nat : d = e + 1
        <5>1. d - 1 \in Nat /\ d = (d - 1) + 1
          OBVIOUS
        <5> QED BY <5>1
      <4>2. p * (e + 1) = p * e + p /\ p * e \in Nat
        OBVIOUS
      <4> QED BY <3>2, <4>1, <4>2
    <3>4. f[z] < P(z)
      <4>1. z \in 0 .. in.size
        BY <1>2
      <4> QED BY <4>1, BitsRange
    <3> QED BY <2>9, <3>1, <3>3, <3>4
  <2>11. Shl(x, 4) = 16 * x
    <3>1. x * 16 = 16 * x /\ 16 * x \in 0 .. s - 1
      BY <2>10
    <3>2. (16 * x) % s = 16 * x
      BY <3>1, SmallRemainder
    <3>3. Shl(x, 4) = (x * 16) % s
      BY <2>3, <2>7, <2>10 DEF Shl, P
    <3> QED BY <3>1, <3>2, <3>3
  <2>12. Shr(b, 4) = c
    BY <2>7, <2>8 DEF Shr, P
  <2>13. Or(W, 16 * x, c) = 16 * x + c
    <3>1. c < P(4) /\ P(4) * x < P(W)
      BY <2>7, <2>8, <2>10
    <3>2. Or(W, P(4) * x, c) = P(4) * x + c
      BY <2>3, <3>1, Words, OrDisjoint
    <3> QED BY <2>7, <3>2
  <2>14. LastByte(in) = Or(W, Shl(WholeBytes(in), 4), Shr(in.bytes[ByteSpan(in)], 4))
    BY <1>3, <2>1, <2>3 DEF LastByte
  <2> QED BY <1>2, <2>4, <2>6, <2>8, <2>9, <2>11, <2>12, <2>13, <2>14
<1> QED BY <1>4, <1>5, <1>6, <1>7

\* The sign bit, and the number that is negative by it.
LEMMA SignCorrect ==
  ASSUME NEW in \in Inputs, NEW v \in Nat, v < P(in.size), LastByte(in) = v
  PROVE  Number(in) = Signed(in, v)
<1>1. PICK z \in Nat : z = in.size /\ 1 <= z /\ z <= W
  BY InputFields
<1>2. W \in Nat /\ z - 1 \in 0 .. W - 1 /\ (z - 1) + 1 = z /\ z - 1 \in 0 .. W /\ z \in 0 .. W
      /\ W \in 0 .. W /\ W - 1 \in 0 .. W /\ W - 1 \in 0 .. W - 1 /\ (W - 1) + 1 = W
  BY <1>1, Words
<1>3. PICK p \in Nat \ {0}, h \in Nat \ {0}, s \in Nat \ {0} :
         p = P(z - 1) /\ h = P(W - 1) /\ s = P(W)
  BY <1>2, Words
<1>4. P(z) = 2 * p /\ s = 2 * h
  <2>1. \A n \in 0 .. W - 1 : P(n + 1) = 2 * P(n)
    BY Words DEF Doubles
  <2>2. P((z - 1) + 1) = 2 * P(z - 1) /\ P((W - 1) + 1) = 2 * P(W - 1)
    BY <1>2, <2>1
  <2> QED BY <1>2, <1>3, <2>2
<1>5. v < 2 * p
  BY <1>1, <1>4
<1>6. Shr(v, in.size - 1) % 2 = 1 <=> v >= p
  <2>1. Shr(v, in.size - 1) = v \div p
    BY <1>1, <1>3 DEF Shr, P
  <2>2. CASE v < p
    <3>1. v \in 0 .. p - 1
      BY <2>2
    <3>2. v \div p = 0 /\ 0 % 2 = 0
      BY <3>1, SmallRemainder
    <3> QED BY <2>1, <2>2, <3>2
  <2>3. CASE ~ (v < p)
    <3>1. v - p \in 0 .. p - 1 /\ v = p * 1 + (v - p)
      BY <1>5, <2>3
    <3>2. PICK y \in 0 .. p - 1 : v = p * 1 + y
      BY <3>1
    <3>3. v \div p = 1 /\ 1 % 2 = 1
      BY <3>2, DivisionUnique
    <3> QED BY <2>1, <2>3, <3>3
  <2> QED BY <2>2, <2>3
<1>7. CASE ~ (in.sign = "Signed" /\ v >= p)
  <2>1. Number(in) = v
    BY <1>6, <1>7 DEF Number
  <2> QED BY <1>1, <1>3, <1>7, <2>1 DEF Signed
<1>8. CASE in.sign = "Signed" /\ v >= p
  <2>1. Number(in) = AsSigned(SignFill(in, v))
    BY <1>6, <1>8 DEF Number
  <2>2. Signed(in, v) = v - 2 * p
    BY <1>1, <1>3, <1>4, <1>8 DEF Signed
  <2>3. CASE z = W
    <3>1. SignFill(in, v) = v /\ p = h
      BY <1>1, <1>3, <2>3 DEF SignFill
    <3>2. AsSigned(v) = v - s
      <4>1. ~ (v < 2 ^ (W - 1))
        BY <1>3, <1>8, <3>1 DEF P
      <4> QED BY <1>3, <4>1 DEF AsSigned, P
    <3> QED BY <1>4, <2>1, <2>2, <3>1, <3>2
  <2>4. CASE z # W
    <3>1. z < W /\ z % W = z /\ W - z \in Nat /\ z + (W - z) = W /\ z + (W - z) <= W
          /\ W - z \in 0 .. W /\ (W - 1) - z \in Nat /\ z + ((W - 1) - z) = W - 1
          /\ z + ((W - 1) - z) <= W /\ (W - 1) - z \in 0 .. W
      BY <1>1, <1>2, <2>4
    <3>2. PICK c \in Nat, e \in Nat : P((W - 1) - z) = c + 1 /\ P(W - z) = e + 1
      <4>1. P((W - 1) - z) \in Nat \ {0} /\ P(W - z) \in Nat \ {0}
        BY <3>1, Words
      <4>2. \A y \in Nat \ {0} : y - 1 \in Nat /\ y = (y - 1) + 1
        OBVIOUS
      <4> QED BY <4>1, <4>2
    <3>3. s = (2 * p) * (e + 1) /\ h = (2 * p) * (c + 1)
      <4>1. P(z + (W - z)) = P(z) * P(W - z) /\ P(z + ((W - 1) - z)) = P(z) * P((W - 1) - z)
        <5>1. W \in Nat /\ Doubles(W)
          BY Words
        <5>2. P(z + (W - z)) = P(z) * P(W - z)
          BY <3>1, <5>1, PowerOfSum
        <5>3. P(z + ((W - 1) - z)) = P(z) * P((W - 1) - z)
          BY <3>1, <5>1, PowerOfSum
        <5> QED BY <5>2, <5>3
      <4> QED BY <1>3, <1>4, <3>1, <3>2, <4>1
    <3>4. PICK t \in Nat, u \in Nat : t = (2 * p) * e /\ u = (2 * p) * c
      OBVIOUS
    <3>5. s = t + 2 * p /\ h = u + 2 * p
      <4>1. (2 * p) * (e + 1) = (2 * p) * e + 2 * p /\ (2 * p) * (c + 1) = (2 * p) * c + 2 * p
        OBVIOUS
      <4> QED BY <3>3, <3>4, <4>1
    <3>6. Shl(1, in.size) = 2 * p
      <4>1. 1 * (2 * p) = 2 * p /\ 2 * p \in 0 .. s - 1
        BY <1>4, <3>5
      <4>2. (2 * p) % s = 2 * p
        BY <4>1, SmallRemainder
      <4>3. Shl(1, in.size) = (1 * 2 ^ z) % 2 ^ W
        BY <1>1, <3>1 DEF Shl
      <4> QED BY <1>3, <1>4, <4>1, <4>2, <4>3 DEF P
    <3>7. SignFill(in, v) = Or(W, v, t)
      <4>1. SignFill(in, v) = Or(W, v, s - 1 - (2 * p - 1))
        BY <1>1, <1>3, <2>4, <3>6 DEF SignFill, P
      <4>2. s - 1 - (2 * p - 1) = t
        BY <3>5
      <4> QED BY <4>1, <4>2
    <3>8. Or(W, v, t) = t + v
      <4>1. v < P(z) /\ P(z) * e < P(W)
        BY <1>1, <1>3, <1>4, <3>4, <3>5
      <4>2. Or(W, v, P(z) * e) = P(z) * e + v
        BY <1>2, <4>1, Words, OrDisjoint
      <4> QED BY <1>4, <3>4, <4>2
    <3>9. AsSigned(t + v) = t + v - s
      <4>1. ~ (t + v < h)
        BY <1>4, <1>5, <1>8, <3>5
      <4> QED BY <1>3, <4>1 DEF AsSigned, P
    <3>10. t + v - s = v - 2 * p
      BY <3>5
    <3> QED BY <2>1, <2>2, <3>7, <3>8, <3>9, <3>10
  <2> QED BY <2>3, <2>4
<1> QED BY <1>7, <1>8

\* What is not decoded is an error that it should be.
LEMMA DecodesMeaning ==
  ASSUME NEW in \in Inputs, Supported(in)
  PROVE  Reads(in, Decoded(in))
<1>1. PICK q \in Nat, r \in 0 .. 7 : EndsAt(in, q, r)
  BY EndOfField
<1>2. PICK o \in Nat, z \in Nat, l \in Nat : o = in.offset /\ z = in.size /\ l = Len(in.bytes)
  BY InputFields
<1>3. Cut(in) <=> ~ Whole(in)
  <2>1. o + z = 8 * q + r /\ ByteSpan(in) = IF r # 0 THEN q + 1 ELSE q
    BY <1>1, <1>2 DEF EndsAt
  <2>2. CASE r = 0
    BY <1>2, <2>1, <2>2 DEF Cut, Whole
  <2>3. CASE r # 0
    <3>1. 8 * q + r > 8 * l <=> l < q + 1
      BY <2>3
    <3> QED BY <1>2, <2>1, <2>3, <3>1 DEF Cut, Whole
  <2> QED BY <2>2, <2>3
<1>4. in.offset = 0 => FinalBits(in) = in.size % 8
  <2>1. 0 + z = z
    OBVIOUS
  <2> QED BY <1>2, <2>1 DEF FinalBits
<1>5. CASE in.order = "LittleEndian" /\ (in.offset # 0 \/ FinalBits(in) # 0)
  BY <1>4, <1>5 DEF Decoded, Reads
<1>6. CASE ~ (in.order = "LittleEndian" /\ (in.offset # 0 \/ FinalBits(in) # 0))
  <2>1. ~ (in.order = "LittleEndian" /\ (in.offset # 0 \/ in.size % 8 # 0))
    BY <1>4, <1>6
  <2>2. CASE Cut(in)
    BY <1>3, <1>6, <2>1, <2>2 DEF Decoded, Reads, Whole
  <2>3. CASE ~ Cut(in)
    <3>1. Whole(in)
      BY <1>3, <2>3
    <3>2. PICK f : Bits(f, in) /\ Meaning(in) = Signed(in, f[in.size])
      BY <3>1, MeaningUnfolds
    <3>3. LastByte(in) = f[in.size]
      BY <1>6, <3>1, <3>2, AllBitsRead
    <3>4. f[in.size] \in Nat /\ f[in.size] < P(in.size)
      <4>1. z \in 0 .. z
        OBVIOUS
      <4> QED BY <1>2, <3>1, <3>2, <4>1, BitsRange
    <3>5. Number(in) = Meaning(in)
      BY <3>2, <3>3, <3>4, SignCorrect
    <3>6. Decoded(in) = [value |-> Meaning(in)]
      BY <1>6, <3>1, <3>5 DEF Decoded, Whole
    <3> QED BY <2>1, <2>3, <3>6 DEF Reads
  <2> QED BY <2>2, <2>3
<1> QED BY <1>5, <1>6

\* A read is pending or decoded.
CodecInv ==
    /\ input \in Inputs
    /\ outcome = Pending \/ outcome = Decoded(input)

(***************************************************************************)
(* ReadsMeaning holds for words of any width, that of the source among     *)
(* them, fields of any size and files of any bytes: what ReadValue makes   *)
(* of a field it supports is the number that the bits of the file mean.    *)
(***************************************************************************)
THEOREM ReadsCorrect == CodecSpec => []ReadsMeaning
<1>1. CodecInit => CodecInv
  BY DEF CodecInit, CodecInv
<1>2. CodecInv /\ [CodecNext]_codecVars => CodecInv'
  BY DEF CodecInv, CodecNext, ReadValue, codecVars
<1>3. CodecInv => ReadsMeaning
  BY DecodesMeaning DEF CodecInv, ReadsMeaning
<1> QED BY <1>1, <1>2, <1>3, PTL DEF CodecSpec
-----------------------------------------------------------------------------
(***************************************************************************)
(* Strings.                                                                *)
(***************************************************************************)
LEMMA UnitsDouble == Doubles(26) /\ Doubles(21) /\ Doubles(16)
<1>1. 26 - 1 = 25 /\ 21 - 1 = 20 /\ 16 - 1 = 15
  OBVIOUS
<1>2. \A n \in 0 .. 25 : P(n + 1) = 2 * P(n)
  BY UnitPowers DEF P
<1>3. (\A n \in 0 .. 20 : n \in 0 .. 25) /\ (\A n \in 0 .. 15 : n \in 0 .. 25)
  OBVIOUS
<1> QED BY <1>1, <1>2, <1>3 DEF Doubles

LEMMA UnitWidths ==
  /\ P(0) = 1 /\ P(4) = 16 /\ P(5) = 32 /\ P(6) = 64 /\ P(7) = 128
  /\ P(10) = 1024 /\ P(12) = 4096 /\ P(16) = 65536 /\ P(17) = 131072
  /\ P(18) = 262144 /\ P(21) = 2097152 /\ P(26) = 67108864
<1>1. Doubles(26) /\ 26 \in Nat /\ 8 <= 26
  BY UnitsDouble
<1>3. P(0) = 1 /\ P(4) = 16 /\ P(5) = 32 /\ P(6) = 64 /\ P(7) = 128 /\ P(8) = 256
  BY <1>1, SmallPowers
<1>4. \A n \in 0 .. 25 : P(n + 1) = 2 * P(n)
  BY UnitPowers DEF P
<1>5. /\ P(8 + 1) = 2 * P(8) /\ P(9 + 1) = 2 * P(9) /\ P(10 + 1) = 2 * P(10)
      /\ P(11 + 1) = 2 * P(11) /\ P(12 + 1) = 2 * P(12) /\ P(13 + 1) = 2 * P(13)
  BY <1>4
<1>6. /\ P(14 + 1) = 2 * P(14) /\ P(15 + 1) = 2 * P(15) /\ P(16 + 1) = 2 * P(16)
      /\ P(17 + 1) = 2 * P(17) /\ P(18 + 1) = 2 * P(18) /\ P(19 + 1) = 2 * P(19)
  BY <1>4
<1>7. /\ P(20 + 1) = 2 * P(20) /\ P(21 + 1) = 2 * P(21) /\ P(22 + 1) = 2 * P(22)
      /\ P(23 + 1) = 2 * P(23) /\ P(24 + 1) = 2 * P(24) /\ P(25 + 1) = 2 * P(25)
  BY <1>4
<1>8. P(10) = 1024 /\ P(12) = 4096 /\ P(14) = 16384
  BY <1>3, <1>5
<1>9. P(16) = 65536 /\ P(17) = 131072 /\ P(18) = 262144 /\ P(20) = 1048576
  BY <1>6, <1>8
<1>10. P(21) = 2097152 /\ P(26) = 67108864
  BY <1>7, <1>9
<1> QED BY <1>3, <1>8, <1>9, <1>10

\* What the units of a pair say of its character.
Parts(h, l, a, b) ==
    /\ a \in Nat /\ b \in Nat /\ a <= 1023 /\ b <= 1023
    /\ h = 55296 + a /\ l = 56320 + b

LEMMA PairParts ==
  ASSUME NEW h, NEW l, IsHigh(h), IsLow(l)
  PROVE  \E a, b : Parts(h, l, a, b)
<1>1. h \in 55296 .. 56319 /\ l \in 56320 .. 57343
  BY DEF IsHigh, IsLow
<1>2. h \in Int /\ 55296 <= h /\ h <= 56319 /\ l \in Int /\ 56320 <= l /\ l <= 57343
  BY <1>1
<1>3. Parts(h, l, h - 55296, l - 56320)
  BY <1>2 DEF Parts
<1> QED BY <1>3

\* The last character that a pair stands for.
LastCharacter == 1114111

\* What is written for a pair without bit 6 of its high unit is its character.
LEMMA PairCorrect ==
  ASSUME NEW h, NEW l, IsHigh(h), IsLow(l), (h \div 64) % 2 = 0
  PROVE  /\ PairValue(h, l) = PairMeaning(h, l)
         /\ PairMeaning(h, l) \in Nat /\ PairMeaning(h, l) <= LastCharacter
<1>0. PICK a, b : Parts(h, l, a, b)
  BY PairParts
<1>1. /\ a \in Nat /\ b \in Nat /\ a <= 1023 /\ b <= 1023
      /\ h = 55296 + a /\ l = 56320 + b
  BY <1>0 DEF Parts
<1>2. h % 1024 = a /\ l % 1024 = b
  BY <1>1
<1>3. PairMeaning(h, l) = 65536 + a * 1024 + b
  BY <1>1 DEF PairMeaning
<1>4. PICK x \in Nat, y \in Nat : x = a * 1024 /\ y = b + 65536
  BY <1>1
<1>5. ASSUME NEW i \in 0 .. 20 PROVE Bit(x, i) = 0 \/ Bit(y, i) = 0
  <2>1. CASE i < 10
    <3>1. x = P(10) * a /\ 10 \in 0 .. 26 /\ i \in Nat /\ a \in Nat /\ 26 \in Nat
      BY <1>1, <1>4, UnitWidths
    <3>2. Bit(P(10) * a, i) = 0
      BY <2>1, <3>1, UnitsDouble, LowBits
    <3> QED BY <3>1, <3>2
  <2>2. CASE i \in 10 .. 15
    <3>1. PICK m \in 1 .. 6 : i = 16 - m
      <4>1. 16 - i \in 1 .. 6 /\ i = 16 - (16 - i)
        BY <2>2
      <4> QED BY <4>1
    <3>2. PICK p \in Nat \ {0} : p = P(i) /\ b < p
      <4>1. i - 10 \in Nat /\ 10 + (i - 10) = i /\ i - 10 \in 0 .. 26 /\ 10 + (i - 10) <= 26
        BY <2>2
      <4>2. P(i) = P(10) * P(i - 10) /\ P(i - 10) \in Nat \ {0}
        <5>1. 26 \in Nat /\ 10 \in Nat
          OBVIOUS
        <5>2. P(10 + (i - 10)) = P(10) * P(i - 10)
          BY <4>1, <5>1, UnitsDouble, PowerOfSum
        <5>3. P(i - 10) \in Nat \ {0}
          BY <4>1, <5>1, UnitsDouble, PowersPositive
        <5> QED BY <4>1, <5>2, <5>3
      <4>3. \A c \in Nat \ {0} : 1024 * c \in Nat \ {0} /\ b < 1024 * c
        BY <1>1
      <4> QED BY <4>2, <4>3, UnitWidths
    <3>3. PICK c \in Nat : P(m) = 2 * c
      <4>1. m - 1 \in 0 .. 25 /\ (m - 1) + 1 = m
        OBVIOUS
      <4>2. P((m - 1) + 1) = 2 * P(m - 1) /\ P(m - 1) \in Nat
        <5>1. m - 1 \in 0 .. 26 /\ 26 \in Nat /\ 26 - 1 = 25
          OBVIOUS
        <5>2. P(m - 1) \in Nat
          BY <5>1, UnitsDouble, PowersPositive
        <5>3. P((m - 1) + 1) = 2 * P(m - 1)
          BY <4>1, <5>1, UnitsDouble DEF Doubles
        <5> QED BY <5>2, <5>3
      <4> QED BY <4>1, <4>2
    <3>4. 65536 = p * (2 * c)
      <4>1. i + m = 16 /\ i + m <= 26 /\ i \in Nat /\ m \in Nat
        BY <3>1
      <4>2. P(i + m) = P(i) * P(m)
        <5>1. 26 \in Nat
          OBVIOUS
        <5> QED BY <4>1, <5>1, UnitsDouble, PowerOfSum
      <4> QED BY <3>2, <3>3, <4>1, <4>2, UnitWidths
    <3>5. y = p * (2 * c) + b /\ 2 * c \in Nat /\ b \in 0 .. p - 1
      BY <1>1, <1>4, <3>2, <3>4
    <3>6. y \div p = 2 * c
      BY <3>5, DivisionUnique
    <3>7. (2 * c) % 2 = 0
      OBVIOUS
    <3> QED BY <3>2, <3>6, <3>7 DEF Bit, P
  <2>3. CASE i = 16
    <3>1. h \div 64 = 864 + (a \div 64)
      BY <1>1
    <3>2. PICK d \in Nat : d = a \div 64
      BY <1>1
    <3>3. d % 2 = 0
      BY <3>1, <3>2
    <3>4. x \div 65536 = d
      BY <1>1, <1>4, <3>2
    <3> QED BY <2>3, <3>3, <3>4, UnitWidths DEF Bit, P
  <2>4. CASE i \in 17 .. 20
    <3>1. y < P(17) /\ i \in 17 .. 26 /\ 17 \in Nat /\ 26 \in Nat
      BY <1>1, <1>4, <2>4, UnitWidths
    <3> QED BY <3>1, UnitsDouble, HighBits
  <2> QED BY <2>1, <2>2, <2>3, <2>4
<1>6. Or(21, x, y) = (x % P(21)) + (y % P(21))
  <2>1. 21 - 1 = 20 /\ 21 \in Nat
    OBVIOUS
  <2>2. NoBitTwice(21, x, y)
    BY <1>5, <2>1 DEF NoBitTwice
  <2> QED BY <2>1, <2>2, UnitsDouble, OrAdds
<1>7. x % 2097152 = x /\ y % 2097152 = y
  BY <1>1, <1>4
<1>8. Or(21, x, y) = x + y
  BY <1>6, <1>7, UnitWidths
<1>9. PairValue(h, l) = Or(21, x, y)
  BY <1>2, <1>4 DEF PairValue
<1>10. 65536 + a * 1024 + b = x + y /\ x + y \in Nat /\ x + y <= LastCharacter
  BY <1>1, <1>4 DEF LastCharacter
<1> QED BY <1>3, <1>8, <1>9, <1>10

\* The unit of a character of the plane, and the units of one of a pair.
LEMMA UnitsOfOne ==
  ASSUME NEW c \in Nat, c < 65535
  PROVE  Units(c) = <<c>>
BY DEF Units

LEMMA UnitsOfPair ==
  ASSUME NEW h, NEW l, IsHigh(h), IsLow(l)
  PROVE  Units(PairMeaning(h, l)) = <<h, l>>
<1>0. PICK a, b : Parts(h, l, a, b)
  BY PairParts
<1>1. /\ a \in Nat /\ b \in Nat /\ a <= 1023 /\ b <= 1023
      /\ h = 55296 + a /\ l = 56320 + b
  BY <1>0 DEF Parts
<1>2. PICK c \in Nat, v \in Nat : c = PairMeaning(h, l) /\ v = a * 1024 + b /\ c = 65536 + v
  <2>1. a * 1024 + b \in Nat /\ PairMeaning(h, l) = 65536 + (a * 1024 + b)
    BY <1>1 DEF PairMeaning
  <2> QED BY <2>1
<1>3. (c - 65536) % 67108864 = v /\ v \div 1024 = a /\ v % 1024 = b /\ ~ (c < 65535)
  BY <1>1, <1>2
<1>4. Units(c) = <<Or(16, 55296, v \div 1024), Or(16, 56320, v % 1024)>>
  BY <1>3, UnitWidths DEF Units, P
<1>5. P(10) * 54 = 55296 /\ P(10) * 55 = 56320 /\ 10 \in 0 .. 16 /\ a < P(10) /\ b < P(10)
      /\ P(10) * 54 < P(16) /\ P(10) * 55 < P(16)
  BY <1>1, UnitWidths
<1>6. Or(16, P(10) * 54, a) = P(10) * 54 + a /\ Or(16, P(10) * 55, b) = P(10) * 55 + b
  <2>1. 16 \in Nat /\ 54 \in Nat /\ 55 \in Nat /\ a \in Nat /\ b \in Nat
    BY <1>1
  <2>2. Or(16, P(10) * 54, a) = P(10) * 54 + a
    BY <1>5, <2>1, UnitsDouble, OrDisjoint
  <2>3. Or(16, P(10) * 55, b) = P(10) * 55 + b
    BY <1>5, <2>1, UnitsDouble, OrDisjoint
  <2> QED BY <2>2, <2>3
<1>7. Or(16, 55296, v \div 1024) = h /\ Or(16, 56320, v % 1024) = l
  BY <1>1, <1>3, <1>5, <1>6
<1> QED BY <1>2, <1>4, <1>7

\* The first byte of a sequence, by its value.
LEMMA HeadValues ==
  ASSUME NEW h \in Nat
  PROVE  /\ h < 128 => NumBytes(h) = 1
         /\ 192 <= h /\ h < 224 => NumBytes(h) = 2
         /\ 224 <= h /\ h < 240 => NumBytes(h) = 3
         /\ 240 <= h /\ h < 248 => NumBytes(h) = 4
         /\ NumBytes(h) \in 0 .. 4
         /\ IsTail(h) <=> (128 <= h /\ h < 192)
         /\ IsTail(h) => NumBytes(h) = 0
<1>1. CASE h < 128
  <2>1. h \div 128 = 0
    BY <1>1
  <2> QED BY <1>1, <2>1 DEF NumBytes, IsTail
<1>2. CASE 128 <= h /\ h < 192
  <2>1. h \div 128 # 0 /\ h \div 32 # 6 /\ h \div 16 # 14 /\ h \div 8 # 30 /\ h \div 64 = 2
    BY <1>2
  <2> QED BY <1>2, <2>1 DEF NumBytes, IsTail
<1>3. CASE 192 <= h /\ h < 224
  <2>1. h \div 128 # 0 /\ h \div 32 = 6 /\ h \div 16 # 14 /\ h \div 8 # 30 /\ h \div 64 # 2
    BY <1>3
  <2> QED BY <1>3, <2>1 DEF NumBytes, IsTail
<1>4. CASE 224 <= h /\ h < 240
  <2>1. h \div 128 # 0 /\ h \div 32 # 6 /\ h \div 16 = 14 /\ h \div 8 # 30 /\ h \div 64 # 2
    BY <1>4
  <2> QED BY <1>4, <2>1 DEF NumBytes, IsTail
<1>5. CASE 240 <= h /\ h < 248
  <2>1. h \div 128 # 0 /\ h \div 32 # 6 /\ h \div 16 # 14 /\ h \div 8 = 30 /\ h \div 64 # 2
    BY <1>5
  <2> QED BY <1>5, <2>1 DEF NumBytes, IsTail
<1>6. CASE 248 <= h
  <2>1. h \div 64 # 2
    BY <1>6
  <2> QED BY <1>6, <2>1 DEF NumBytes, IsTail
<1> QED BY <1>1, <1>2, <1>3, <1>4, <1>5, <1>6

\* The payload of n bytes.
Payload(n, w, x, y, z) ==
    IF n = 1 THEN w % 128
    ELSE IF n = 2 THEN 64 * (w % 64) + (x % 64)
    ELSE IF n = 3 THEN 64 * (64 * (w % 32) + (x % 64)) + (y % 64)
    ELSE 64 * (64 * (64 * (w % 16) + (x % 64)) + (y % 64)) + (z % 64)

LEMMA CodePointIs ==
  ASSUME NEW b, NEW i \in Nat, NumBytes(b[i]) \in 1 .. 4
  PROVE  CodePoint(b, i) = Payload(NumBytes(b[i]), b[i], b[i + 1], b[i + 2], b[i + 3])
<1> DEFINE n == NumBytes(b[i])
           Loop(u) == u = [k \in 1 .. n |->
                        IF k = 1 THEN b[i] % (2 ^ (8 - n))
                        ELSE 64 * u[k - 1] + (b[i + k - 1] % 64)]
           U == CHOOSE u : Loop(u)
           v1 == b[i] % (2 ^ (8 - n))
           v2 == 64 * v1 + (b[i + 1] % 64)
           v3 == 64 * v2 + (b[i + 2] % 64)
           v4 == 64 * v3 + (b[i + 3] % 64)
           f == [k \in 1 .. n |-> IF k = 1 THEN v1 ELSE IF k = 2 THEN v2
                                  ELSE IF k = 3 THEN v3 ELSE v4]
<1>1. CodePoint(b, i) = U[n]
  BY Zenon DEF CodePoint
<1>2. i + 2 - 1 = i + 1 /\ i + 3 - 1 = i + 2 /\ i + 4 - 1 = i + 3
      /\ 2 - 1 = 1 /\ 3 - 1 = 2 /\ 4 - 1 = 3
  OBVIOUS
<1>3. n \in {1, 2, 3, 4}
  OBVIOUS
<1> HIDE DEF n
<1>4. Loop(f)
  <2>1. \A k \in 1 .. n : k \in {1, 2, 3, 4} /\ (k # 1 => k - 1 \in 1 .. n)
    BY <1>3
  <2>2. ASSUME NEW k \in 1 .. n, k # 1
        PROVE  f[k] = 64 * f[k - 1] + (b[i + k - 1] % 64)
    <3>1. CASE k = 2
      <4>1. f[2] = v2 /\ f[1] = v1
        BY <2>1, <3>1
      <4> QED BY <1>2, <3>1, <4>1
    <3>2. CASE k = 3
      <4>1. f[3] = v3 /\ f[2] = v2
        BY <2>1, <3>2
      <4> QED BY <1>2, <3>2, <4>1
    <3>3. CASE k = 4
      <4>1. f[4] = v4 /\ f[3] = v3
        BY <2>1, <3>3
      <4> QED BY <1>2, <3>3, <4>1
    <3> QED BY <2>1, <2>2, <3>1, <3>2, <3>3
  <2>3. ASSUME NEW k \in 1 .. n, k = 1 PROVE f[k] = v1
    BY <2>3
  <2> HIDE DEF v1, v2, v3, v4
  <2>4. f = [k \in 1 .. n |-> f[k]]
    OBVIOUS
  <2> HIDE DEF f
  <2> QED BY <2>2, <2>3, <2>4 DEF v1
<1> HIDE DEF v1, v2, v3, v4, f
<1>5. Loop(U)
  BY <1>4, Zenon
<1> HIDE DEF U
<1>6. /\ U[1] = v1
      /\ 2 <= n => U[2] = 64 * U[1] + (b[i + 1] % 64)
      /\ 3 <= n => U[3] = 64 * U[2] + (b[i + 2] % 64)
      /\ 4 <= n => U[4] = 64 * U[3] + (b[i + 3] % 64)
  <2>1. 1 \in 1 .. n /\ (2 <= n => 2 \in 1 .. n) /\ (3 <= n => 3 \in 1 .. n)
        /\ (4 <= n => 4 \in 1 .. n)
    BY <1>3
  <2>2. ASSUME NEW k \in 1 .. n
        PROVE  U[k] = IF k = 1 THEN v1 ELSE 64 * U[k - 1] + (b[i + k - 1] % 64)
    BY <1>5, Zenon DEF v1
  <2>3. U[1] = v1
    BY <2>1, <2>2
  <2>4. 2 <= n => U[2] = 64 * U[1] + (b[i + 1] % 64)
    BY <1>2, <2>1, <2>2
  <2>5. 3 <= n => U[3] = 64 * U[2] + (b[i + 2] % 64)
    BY <1>2, <2>1, <2>2
  <2>6. 4 <= n => U[4] = 64 * U[3] + (b[i + 3] % 64)
    BY <1>2, <2>1, <2>2
  <2> QED BY <2>3, <2>4, <2>5, <2>6
<1>7. v1 = b[i] % P(8 - n)
  BY DEF v1, P
<1>8. CASE n = 1
  <2>1. U[n] = b[i] % 128
    BY <1>6, <1>7, <1>8, UnitWidths
  <2> QED BY <1>1, <1>8, <2>1 DEF Payload, n
<1>9. CASE n = 2
  <2>1. U[n] = 64 * (b[i] % 64) + (b[i + 1] % 64)
    BY <1>6, <1>7, <1>9, UnitWidths
  <2> QED BY <1>1, <1>9, <2>1 DEF Payload, n
<1>10. CASE n = 3
  <2>1. U[n] = 64 * (64 * (b[i] % 32) + (b[i + 1] % 64)) + (b[i + 2] % 64)
    BY <1>6, <1>7, <1>10, UnitWidths
  <2> QED BY <1>1, <1>10, <2>1 DEF Payload, n
<1>11. CASE n = 4
  <2>1. U[n] = 64 * (64 * (64 * (b[i] % 16) + (b[i + 1] % 64)) + (b[i + 2] % 64))
                  + (b[i + 3] % 64)
    BY <1>6, <1>7, <1>11, UnitWidths
  <2> QED BY <1>1, <1>11, <2>1 DEF Payload, n
<1> QED BY <1>3, <1>8, <1>9, <1>10, <1>11

\* Bytes that are the same have the same code point.
LEMMA CodePointMoves ==
  ASSUME NEW b, NEW i \in Nat, NEW t, NEW j \in Nat, NumBytes(t[j]) \in 1 .. 4,
         \A k \in 0 .. NumBytes(t[j]) - 1 : b[i + k] = t[j + k]
  PROVE  CodePoint(b, i) = CodePoint(t, j)
<1>0. PICK n \in 1 .. 4 : n = NumBytes(t[j])
  OBVIOUS
<1>1. b[i] = t[j]
  <2>1. 0 \in 0 .. n - 1 /\ i + 0 = i /\ j + 0 = j
    OBVIOUS
  <2> QED BY <1>0, <2>1
<1>2. /\ 2 <= n => b[i + 1] = t[j + 1]
      /\ 3 <= n => b[i + 2] = t[j + 2]
      /\ 4 <= n => b[i + 3] = t[j + 3]
  BY <1>0
<1>3. /\ CodePoint(b, i) = Payload(n, b[i], b[i + 1], b[i + 2], b[i + 3])
      /\ CodePoint(t, j) = Payload(n, t[j], t[j + 1], t[j + 2], t[j + 3])
  BY <1>0, <1>1, CodePointIs
<1> QED BY <1>1, <1>2, <1>3 DEF Payload

\* A sequence of the code point c.
SequenceOf(a, c) ==
    /\ a \in Seq(0 .. 255)
    /\ Len(a) \in 1 .. 4
    /\ NumBytes(a[1]) = Len(a)
    /\ ~ IsTail(a[1])
    /\ \A k \in 2 .. Len(a) : IsTail(a[k])
    /\ CodePoint(a, 1) = c

\* To take six bits and six again is to take twelve.
LEMMA DivisionTwice ==
  ASSUME NEW c \in Nat
  PROVE  /\ c \div 4096 = (c \div 64) \div 64
         /\ c \div 262144 = (c \div 4096) \div 64
<1>1. PICK d \in Nat, z \in Nat : d = c \div 64 /\ z < 64 /\ c = 64 * d + z
  <2>1. c \div 64 \in Nat /\ c % 64 \in Nat /\ c % 64 < 64
        /\ c = 64 * (c \div 64) + (c % 64)
    BY SMT
  <2> QED BY <2>1
<1>2. PICK e \in Nat, y \in Nat : e = d \div 64 /\ y < 64 /\ d = 64 * e + y
  <2>1. d \div 64 \in Nat /\ d % 64 \in Nat /\ d % 64 < 64
        /\ d = 64 * (d \div 64) + (d % 64)
    BY SMT
  <2> QED BY <2>1
<1>3. PICK f \in Nat, x \in Nat : f = e \div 64 /\ x < 64 /\ e = 64 * f + x
  <2>1. e \div 64 \in Nat /\ e % 64 \in Nat /\ e % 64 < 64
        /\ e = 64 * (e \div 64) + (e % 64)
    BY SMT
  <2> QED BY <2>1
<1>4. c = 4096 * e + (64 * y + z) /\ 64 * y + z < 4096
  BY <1>1, <1>2
<1>5. c \div 4096 = e
  BY <1>4, SMT
<1>6. c = 262144 * f + (4096 * x + 64 * y + z) /\ 4096 * x + 64 * y + z < 262144
  BY <1>1, <1>2, <1>3
<1>7. c \div 262144 = f
  BY <1>6, SMT
<1> QED BY <1>1, <1>2, <1>3, <1>5, <1>7

\* The bytes of a code point are one.
LEMMA BytesCorrect ==
  ASSUME NEW c \in Nat, c <= LastCharacter
  PROVE  SequenceOf(Bytes(c), c)
<1>1. P(0) = 1 /\ P(6) = 64 /\ P(12) = 4096 /\ P(18) = 262144
  BY UnitWidths
<1>2. PICK z \in Nat : z = c % 64 /\ z < 64 /\ Six(c, 0) = 128 + z
  <2>1. c % 64 \in Nat /\ c % 64 < 64 /\ c \div 1 = c
    OBVIOUS
  <2> QED BY <1>1, <2>1 DEF Six, P
<1>3. PICK y \in Nat : y = (c \div 64) % 64 /\ y < 64 /\ Six(c, 6) = 128 + y
  <2>1. (c \div 64) % 64 \in Nat /\ (c \div 64) % 64 < 64
    OBVIOUS
  <2> QED BY <1>1, <2>1 DEF Six, P
<1>4. PICK x \in Nat : x = (c \div 4096) % 64 /\ x < 64 /\ Six(c, 12) = 128 + x
  <2>1. (c \div 4096) % 64 \in Nat /\ (c \div 4096) % 64 < 64
    OBVIOUS
  <2> QED BY <1>1, <2>1 DEF Six, P
<1>5. \A t \in Nat : t < 64 => IsTail(128 + t) /\ (128 + t) % 64 = t /\ 128 + t \in 0 .. 255
  BY DEF IsTail
<1>6. CASE c < 128
  <2>1. Bytes(c) = <<c>>
    BY <1>6 DEF Bytes
  <2>2. NumBytes(c) = 1 /\ ~ IsTail(c)
    BY <1>6, HeadValues
  <2>3. CodePoint(<<c>>, 1) = c % 128
    BY <2>2, CodePointIs DEF Payload
  <2>4. c % 128 = c /\ c \in 0 .. 255
    BY <1>6
  <2> QED BY <2>1, <2>2, <2>3, <2>4 DEF SequenceOf
<1>7. CASE 128 <= c /\ c < 2048
  <2>1. PICK w \in Nat : w = c \div 64 /\ w < 32 /\ c = 64 * w + z
    <3>1. c \div 64 \in Nat /\ c \div 64 < 32 /\ c = 64 * (c \div 64) + (c % 64)
      BY <1>7
    <3> QED BY <1>2, <3>1
  <2>2. Bytes(c) = <<192 + w, 128 + z>>
    <3>1. ~ (c < 128) /\ c < 2048
      BY <1>7
    <3> QED BY <1>1, <1>2, <2>1, <3>1 DEF Bytes, P
  <2>3. NumBytes(192 + w) = 2 /\ ~ IsTail(192 + w) /\ (192 + w) % 64 = w /\ 192 + w \in 0 .. 255
    BY <2>1, HeadValues
  <2> DEFINE a == <<192 + w, 128 + z>>
  <2>5. a[1] = 192 + w /\ a[1 + 1] = 128 + z /\ a[2] = 128 + z /\ Len(a) = 2
    OBVIOUS
  <2>7. a \in Seq(0 .. 255)
    BY <1>2, <1>5, <2>3
  <2>8. Bytes(c) = a
    BY <2>2
  <2> HIDE DEF a
  <2>6. CodePoint(a, 1) = 64 * w + z
    <3>1. CodePoint(a, 1) = Payload(2, a[1], a[1 + 1], a[1 + 2], a[1 + 3])
      BY <2>3, <2>5, CodePointIs
    <3>2. a[1] % 64 = w /\ a[1 + 1] % 64 = z
      BY <1>2, <1>3, <1>4, <1>5, <2>3, <2>5
    <3> QED BY <3>1, <3>2 DEF Payload
  <2>9. NumBytes(a[1]) = Len(a) /\ ~ IsTail(a[1]) /\ Len(a) \in 1 .. 4
    BY <2>3, <2>5
  <2>10. IsTail(a[2])
    BY <1>2, <1>3, <1>4, <1>5, <2>5
  <2>11. \A k \in 2 .. Len(a) : k = 2
    BY <2>5
  <2>12. CodePoint(a, 1) = c
    BY <2>1, <2>6
  <2> QED BY <2>7, <2>8, <2>9, <2>10, <2>11, <2>12 DEF SequenceOf
<1>8. CASE 2048 <= c /\ c < 65536
  <2>1. PICK w \in Nat : w = c \div 4096 /\ w < 16 /\ c = 64 * (64 * w + y) + z
    <3>1. c \div 4096 \in Nat /\ c \div 4096 < 16
          /\ c = 64 * (64 * (c \div 4096) + ((c \div 64) % 64)) + (c % 64)
      BY <1>8
    <3> QED BY <1>2, <1>3, <3>1
  <2>2. Bytes(c) = <<224 + w, 128 + y, 128 + z>>
    <3>1. ~ (c < 128) /\ ~ (c < 2048) /\ c < 65536
      BY <1>8
    <3> QED BY <1>1, <1>2, <1>3, <2>1, <3>1 DEF Bytes, P
  <2>3. NumBytes(224 + w) = 3 /\ ~ IsTail(224 + w) /\ (224 + w) % 32 = w /\ 224 + w \in 0 .. 255
    BY <2>1, HeadValues
  <2> DEFINE a == <<224 + w, 128 + y, 128 + z>>
  <2>5. a[1] = 224 + w /\ a[1 + 1] = 128 + y /\ a[1 + 2] = 128 + z
        /\ a[2] = 128 + y /\ a[3] = 128 + z /\ Len(a) = 3
    OBVIOUS
  <2>7. a \in Seq(0 .. 255)
    BY <1>2, <1>3, <1>5, <2>3
  <2>8. Bytes(c) = a
    BY <2>2
  <2> HIDE DEF a
  <2>6. CodePoint(a, 1) = 64 * (64 * w + y) + z
    <3>1. CodePoint(a, 1) = Payload(3, a[1], a[1 + 1], a[1 + 2], a[1 + 3])
      BY <2>3, <2>5, CodePointIs
    <3>2. a[1] % 32 = w /\ a[1 + 1] % 64 = y /\ a[1 + 2] % 64 = z
      BY <1>2, <1>3, <1>4, <1>5, <2>3, <2>5
    <3> QED BY <3>1, <3>2 DEF Payload
  <2>9. NumBytes(a[1]) = Len(a) /\ ~ IsTail(a[1]) /\ Len(a) \in 1 .. 4
    BY <2>3, <2>5
  <2>10. IsTail(a[2]) /\ IsTail(a[3])
    BY <1>2, <1>3, <1>4, <1>5, <2>5
  <2>11. \A k \in 2 .. Len(a) : k = 2 \/ k = 3
    BY <2>5
  <2>12. CodePoint(a, 1) = c
    BY <2>1, <2>6
  <2> QED BY <2>7, <2>8, <2>9, <2>10, <2>11, <2>12 DEF SequenceOf
<1>9. CASE 65536 <= c
  <2>1. PICK w \in Nat : w = c \div 262144 /\ w < 8 /\ c = 64 * (64 * (64 * w + x) + y) + z
    <3>1. /\ c \div 4096 = (c \div 64) \div 64
          /\ c \div 262144 = (c \div 4096) \div 64
      BY DivisionTwice
    <3>2. PICK d \in Nat : d = c \div 64 /\ c = 64 * d + z
      <4>1. c \div 64 \in Nat /\ c = 64 * (c \div 64) + (c % 64)
        BY SMT
      <4> QED BY <1>2, <4>1
    <3>3. PICK e \in Nat : e = c \div 4096 /\ d = 64 * e + y
      <4>1. d \div 64 \in Nat /\ d = 64 * (d \div 64) + (d % 64)
        BY SMT
      <4> QED BY <1>3, <3>1, <3>2, <4>1
    <3>4. PICK f \in Nat : f = c \div 262144 /\ e = 64 * f + x
      <4>1. e \div 64 \in Nat /\ e = 64 * (e \div 64) + (e % 64)
        BY SMT
      <4> QED BY <1>4, <3>1, <3>3, <4>1
    <3>5. c = 64 * (64 * (64 * f + x) + y) + z
      BY <3>2, <3>3, <3>4
    <3>6. f < 8
      BY <3>5 DEF LastCharacter
    <3> QED BY <3>4, <3>5, <3>6
  <2>2. Bytes(c) = <<240 + w, 128 + x, 128 + y, 128 + z>>
    <3>1. ~ (c < 128) /\ ~ (c < 2048) /\ ~ (c < 65536)
      BY <1>9
    <3> QED BY <1>1, <1>2, <1>3, <1>4, <2>1, <3>1 DEF Bytes, P
  <2>3. NumBytes(240 + w) = 4 /\ ~ IsTail(240 + w) /\ (240 + w) % 16 = w /\ 240 + w \in 0 .. 255
    BY <2>1, HeadValues
  <2> DEFINE a == <<240 + w, 128 + x, 128 + y, 128 + z>>
  <2>5. a[1] = 240 + w /\ a[1 + 1] = 128 + x /\ a[1 + 2] = 128 + y /\ a[1 + 3] = 128 + z
        /\ a[2] = 128 + x /\ a[3] = 128 + y /\ a[4] = 128 + z /\ Len(a) = 4
    OBVIOUS
  <2>7. a \in Seq(0 .. 255)
    BY <1>2, <1>3, <1>4, <1>5, <2>3
  <2>8. Bytes(c) = a
    BY <2>2
  <2> HIDE DEF a
  <2>6. CodePoint(a, 1) = 64 * (64 * (64 * w + x) + y) + z
    <3>1. CodePoint(a, 1) = Payload(4, a[1], a[1 + 1], a[1 + 2], a[1 + 3])
      BY <2>3, <2>5, CodePointIs
    <3>2. a[1] % 16 = w /\ a[1 + 1] % 64 = x /\ a[1 + 2] % 64 = y /\ a[1 + 3] % 64 = z
      BY <1>2, <1>3, <1>4, <1>5, <2>3, <2>5
    <3> QED BY <3>1, <3>2 DEF Payload
  <2>9. NumBytes(a[1]) = Len(a) /\ ~ IsTail(a[1]) /\ Len(a) \in 1 .. 4
    BY <2>3, <2>5
  <2>10. IsTail(a[2]) /\ IsTail(a[3]) /\ IsTail(a[4])
    BY <1>2, <1>3, <1>4, <1>5, <2>5
  <2>11. \A k \in 2 .. Len(a) : k = 2 \/ k = 3 \/ k = 4
    BY <2>5
  <2>12. CodePoint(a, 1) = c
    BY <2>1, <2>6
  <2> QED BY <2>7, <2>8, <2>9, <2>10, <2>11, <2>12 DEF SequenceOf
<1> QED BY <1>6, <1>7, <1>8, <1>9

(***************************************************************************)
(* A recursion that moves on in a text has a solution, whatever its parts. *)
(***************************************************************************)
Suffixes(u, L, N, stop, part, next) ==
    u = [i \in 1 .. N |-> IF i > L \/ i \in stop THEN <<>> ELSE part[i] \o u[next[i]]]

LEMMA SuffixesExist ==
  ASSUME NEW L \in Nat, NEW N \in Nat, NEW stop, NEW part, NEW next,
         \A i \in 1 .. N : i <= L /\ i \notin stop => next[i] \in i + 1 .. N
  PROVE  \E u : Suffixes(u, L, N, stop, part, next)
<1> DEFINE Value(f, i) == IF i > L \/ i \in stop THEN <<>> ELSE part[i] \o f[next[i]]
           Solves(f, n) == \A i \in N + 1 - n .. N : f[i] = Value(f, i)
           T == {n \in 0 .. N : \E f : Solves(f, n)}
<1>1. 0 \in T
  <2>1. \A i \in N + 1 - 0 .. N : FALSE
    OBVIOUS
  <2>2. \A f : Solves(f, 0)
    BY <2>1
  <2> HIDE DEF Solves
  <2> QED BY <2>2
<1>2. ASSUME NEW n \in 0 .. N - 1, n \in T PROVE n + 1 \in T
  <2>1. PICK f : Solves(f, n)
    BY <1>2
  <2> DEFINE m == N - n
             g == [i \in m .. N |-> IF i = m THEN Value(f, m) ELSE f[i]]
  <2>2. m \in 1 .. N /\ N + 1 - (n + 1) = m /\ N + 1 - n = m + 1 /\ n + 1 \in 0 .. N
    OBVIOUS
  <2>3. \A i \in m + 1 .. N : g[i] = f[i]
    <3> HIDE DEF Value
    <3> QED BY <2>2
  <2>4. g[m] = Value(f, m)
    <3> HIDE DEF Value
    <3> QED BY <2>2
  <2>5. ASSUME NEW i \in m .. N PROVE Value(g, i) = Value(f, i)
    <3>1. CASE i > L \/ i \in stop
      <4> HIDE DEF g
      <4> QED BY <3>1
    <3>2. CASE i <= L /\ i \notin stop
      <4>1. next[i] \in i + 1 .. N /\ i \in 1 .. N
        BY <2>2, <3>2
      <4>2. next[i] \in m + 1 .. N
        BY <2>2, <4>1
      <4>3. g[next[i]] = f[next[i]]
        BY <2>3, <4>2
      <4> HIDE DEF g
      <4> QED BY <4>3
    <3> QED BY <2>2, <3>1, <3>2
  <2> HIDE DEF g, Value
  <2>6. ASSUME NEW i \in m .. N PROVE g[i] = Value(g, i)
    <3>1. CASE i = m
      BY <2>4, <2>5, <3>1
    <3>2. CASE i \in m + 1 .. N
      BY <2>1, <2>2, <2>3, <2>5, <3>2
    <3> QED BY <2>2, <3>1, <3>2
  <2>7. Solves(g, n + 1)
    BY <2>2, <2>6
  <2> HIDE DEF Solves
  <2> QED BY <2>2, <2>7
<1>3. PICK f : Solves(f, N)
  <2> HIDE DEF T
  <2>1. N \in T
    BY <1>1, <1>2, IntervalInduction
  <2> QED BY <2>1 DEF T
<1> DEFINE u == [i \in 1 .. N |-> f[i]]
<1>4. ASSUME NEW i \in 1 .. N PROVE u[i] = Value(u, i)
  <2>1. u[i] = Value(f, i)
    <3>1. N + 1 - N = 1
      OBVIOUS
    <3> HIDE DEF Value
    <3> QED BY <1>3, <3>1
  <2>2. Value(f, i) = Value(u, i)
    <3>1. CASE i > L \/ i \in stop
      <4> HIDE DEF u
      <4> QED BY <3>1
    <3>2. CASE i <= L /\ i \notin stop
      <4>1. next[i] \in 1 .. N
        BY <3>2
      <4>2. u[next[i]] = f[next[i]]
        BY <4>1
      <4> HIDE DEF u
      <4> QED BY <4>2
    <3> QED BY <3>1, <3>2
  <2> QED BY <2>1, <2>2
<1>5. u = [i \in 1 .. N |-> u[i]]
  OBVIOUS
<1>6. u = [i \in 1 .. N |-> Value(u, i)]
  <2> HIDE DEF u, Value
  <2> QED BY <1>4, <1>5
<1> HIDE DEF u
<1>7. Suffixes(u, L, N, stop, part, next)
  BY <1>6 DEF Suffixes
<1> QED BY <1>7

DecodeLoop(u, b) ==
    u = [i \in 1 .. Len(b) + 4 |->
            IF i > Len(b) \/ NumBytes(b[i]) = 0 THEN <<>>
            ELSE Units(CodePoint(b, i)) \o u[i + NumBytes(b[i])]]

LEMMA DecodeUnfolds ==
  ASSUME NEW b \in Seq(0 .. 255)
  PROVE  \E u : DecodeLoop(u, b) /\ DecodeFrom(b) = u[1]
<1> DEFINE L == Len(b)
           N == Len(b) + 4
           stop == {i \in 1 .. N : NumBytes(b[i]) = 0}
           part == [i \in 1 .. N |-> Units(CodePoint(b, i))]
           next == [i \in 1 .. N |-> i + NumBytes(b[i])]
           U == CHOOSE u : DecodeLoop(u, b)
<1>1. DecodeFrom(b) = U[1]
  BY Zenon DEF DecodeFrom, DecodeLoop
<1>2. L \in Nat /\ N \in Nat /\ N = L + 4
  OBVIOUS
<1>3. ASSUME NEW i \in 1 .. N, i <= L, i \notin stop PROVE next[i] \in i + 1 .. N
  <2>1. i \in 1 .. L /\ b[i] \in Nat
    <3>1. i \in 1 .. Len(b)
      BY <1>2, <1>3
    <3>2. b[i] \in 0 .. 255
      BY <3>1, ElementOfSeq
    <3>3. \A x \in 0 .. 255 : x \in Nat
      OBVIOUS
    <3>4. b[i] \in Nat
      BY <3>2, <3>3, Zenon
    <3> QED BY <3>1, <3>4
  <2>2. NumBytes(b[i]) \in 0 .. 4
    BY <2>1, HeadValues, Zenon
  <2>3. next[i] = i + NumBytes(b[i]) /\ NumBytes(b[i]) # 0
    BY <1>3
  <2> HIDE DEF next, stop
  <2> QED BY <1>2, <2>1, <2>2, <2>3
<1> HIDE DEF L, N
<1>4. PICK u : Suffixes(u, L, N, stop, part, next)
  <2> HIDE DEF stop, part, next
  <2> QED BY <1>2, <1>3, SuffixesExist
<1>5. \A i \in 1 .. N : (i \in stop <=> NumBytes(b[i]) = 0)
                     /\ part[i] = Units(CodePoint(b, i)) /\ next[i] = i + NumBytes(b[i])
  OBVIOUS
<1> HIDE DEF stop, part, next
<1>6. u = [i \in 1 .. N |-> IF i > L \/ NumBytes(b[i]) = 0 THEN <<>>
                            ELSE Units(CodePoint(b, i)) \o u[i + NumBytes(b[i])]]
  BY <1>4, <1>5 DEF Suffixes
<1>7. DecodeLoop(u, b)
  BY <1>6, Zenon DEF DecodeLoop, L, N
<1>8. DecodeLoop(U, b)
  BY <1>7, Zenon
<1> QED BY <1>1, <1>8

EncodeLoop(u, s) ==
    u = [i \in 1 .. Len(s) + 2 |->
            IF i > Len(s) THEN <<>>
            ELSE IF PairAt(s, i)
                 THEN Bytes(PairValue(s[i], s[i + 1])) \o u[i + 2]
                 ELSE Bytes(s[i]) \o u[i + 1]]

LEMMA EncodeUnfolds ==
  ASSUME NEW s, Len(s) \in Nat
  PROVE  \E u : EncodeLoop(u, s) /\ EncodeFrom(s) = u[1]
<1> DEFINE L == Len(s)
           N == Len(s) + 2
           Part(i) == IF PairAt(s, i) THEN Bytes(PairValue(s[i], s[i + 1])) ELSE Bytes(s[i])
           Move(i) == IF PairAt(s, i) THEN i + 2 ELSE i + 1
           stop == {}
           part == [i \in 1 .. N |-> Part(i)]
           next == [i \in 1 .. N |-> Move(i)]
           U == CHOOSE u : EncodeLoop(u, s)
<1>1. EncodeFrom(s) = U[1]
  BY Zenon DEF EncodeFrom, EncodeLoop
<1>2. L \in Nat /\ N \in Nat /\ N = L + 2
  OBVIOUS
<1>3. ASSUME NEW i \in 1 .. N, i <= L PROVE next[i] \in i + 1 .. N
  <2>1. next[i] = Move(i)
    OBVIOUS
  <2>2. Move(i) = i + 2 \/ Move(i) = i + 1
    OBVIOUS
  <2> HIDE DEF Move, next
  <2> QED BY <1>2, <1>3, <2>1, <2>2
<1> HIDE DEF L, N
<1>4. PICK u : Suffixes(u, L, N, stop, part, next)
  <2> HIDE DEF stop, part, next
  <2> QED BY <1>2, <1>3, SuffixesExist
<1>5. \A i \in 1 .. N : part[i] = Part(i) /\ next[i] = Move(i) /\ i \notin stop
  <2> HIDE DEF Part, Move
  <2> QED OBVIOUS
<1> HIDE DEF stop, part, next, Part, Move
<1>6. u = [i \in 1 .. N |-> IF i > L THEN <<>> ELSE Part(i) \o u[Move(i)]]
  BY <1>4, <1>5 DEF Suffixes
<1>7. u = [i \in 1 .. N |-> IF i > L THEN <<>>
             ELSE IF PairAt(s, i)
                  THEN Bytes(PairValue(s[i], s[i + 1])) \o u[i + 2]
                  ELSE Bytes(s[i]) \o u[i + 1]]
  <2>1. \A i : Part(i) \o u[Move(i)] = IF PairAt(s, i)
                  THEN Bytes(PairValue(s[i], s[i + 1])) \o u[i + 2]
                  ELSE Bytes(s[i]) \o u[i + 1]
    BY DEF Part, Move
  <2> QED BY <1>6, <2>1
<1>8. EncodeLoop(u, s)
  BY <1>7, Zenon DEF EncodeLoop, L, N
<1>9. EncodeLoop(U, s)
  BY <1>8, Zenon
<1> QED BY <1>1, <1>9

(***************************************************************************)
(* Texts of whole sequences, and one with a sequence more before it.       *)
(***************************************************************************)
WholeText(b) ==
    /\ b \in Seq(0 .. 255)
    /\ \A i \in Heads(b) : Ends(b, i) # {}

CodePoints(b) == {CodePoint(b, i) : i \in Heads(b)}

\* b is a, and then t.
Joined(b, a, t) ==
    /\ Len(a) \in Nat /\ Len(t) \in Nat
    /\ Len(b) = Len(a) + Len(t)
    /\ \A i \in 1 .. Len(a) : b[i] = a[i]
    /\ \A j \in 1 .. Len(t) : b[Len(a) + j] = t[j]

LEMMA ConcatJoins ==
  ASSUME NEW a \in Seq(0 .. 255), NEW t \in Seq(0 .. 255)
  PROVE  (a \o t) \in Seq(0 .. 255) /\ Joined(a \o t, a, t)
<1> DEFINE b == a \o t
<1>1. b \in Seq(0 .. 255) /\ Len(b) = Len(a) + Len(t)
      /\ \A i \in 1 .. Len(a) + Len(t) : b[i] = IF i <= Len(a) THEN a[i] ELSE t[i - Len(a)]
  BY ConcatProperties
<1>2. Len(a) \in Nat /\ Len(t) \in Nat
  OBVIOUS
<1> HIDE DEF b
<1>3. \A i \in 1 .. Len(a) : b[i] = a[i]
  BY <1>1, <1>2
<1>4. ASSUME NEW j \in 1 .. Len(t) PROVE b[Len(a) + j] = t[j]
  <2>1. Len(a) + j \in 1 .. Len(a) + Len(t) /\ ~ (Len(a) + j <= Len(a))
        /\ (Len(a) + j) - Len(a) = j
    BY <1>2
  <2> QED BY <1>1, <2>1
<1>5. Joined(b, a, t)
  BY <1>1, <1>2, <1>3, <1>4 DEF Joined
<1> QED BY <1>1, <1>5 DEF b

\* The sequence that a byte of a text of whole sequences begins is there.
LEMMA SequenceIsThere ==
  ASSUME NEW t, WholeText(t), NEW h \in 1 .. Len(t), NumBytes(t[h]) # 0
  PROVE  /\ NumBytes(t[h]) \in 1 .. 4
         /\ h + NumBytes(t[h]) - 1 <= Len(t)
         /\ ~ IsTail(t[h])
<1>1. t \in Seq(0 .. 255) /\ Len(t) \in Nat
  BY DEF WholeText
<1>2. t[h] \in Nat
  <2>1. t[h] \in 0 .. 255
    BY <1>1, ElementOfSeq
  <2>2. \A x \in 0 .. 255 : x \in Nat
    OBVIOUS
  <2> QED BY <2>1, <2>2, Zenon
<1>3. NumBytes(t[h]) \in 1 .. 4 /\ ~ IsTail(t[h])
  <2>1. NumBytes(t[h]) \in 0 .. 4 /\ (IsTail(t[h]) => NumBytes(t[h]) = 0)
    BY <1>2, HeadValues, Zenon
  <2> QED BY <2>1
<1>4. h \in Heads(t)
  BY <1>3 DEF Heads
<1>5. PICK to \in h .. Len(t) : IsSequence(t, h, to)
  BY <1>4 DEF WholeText, Ends
<1>6. NumBytes(t[h]) = to - h + 1
  BY <1>5 DEF IsSequence
<1> QED BY <1>1, <1>3, <1>6

LEMMA PlaceMoves ==
  ASSUME NEW b, NEW a, NEW t, Joined(b, a, t), WholeText(t), NEW h \in 1 .. Len(t),
         NumBytes(t[h]) # 0
  PROVE  CodePoint(b, Len(a) + h) = CodePoint(t, h)
<1>1. PICK n \in 1 .. 4 : n = NumBytes(t[h]) /\ h + n - 1 <= Len(t)
  BY SequenceIsThere
<1>2. PICK m \in Nat : m = Len(a)
  BY DEF Joined
<1>3. Len(t) \in Nat
  BY DEF Joined
<1>4. ASSUME NEW k \in 0 .. n - 1 PROVE b[(m + h) + k] = t[h + k]
  <2>1. h + k \in 1 .. Len(t) /\ (m + h) + k = m + (h + k)
    BY <1>1, <1>2, <1>3
  <2> QED BY <1>2, <2>1 DEF Joined
<1>5. m + h \in Nat /\ h \in Nat
  BY <1>2, <1>3
<1>6. CodePoint(b, m + h) = CodePoint(t, h)
  BY <1>1, <1>4, <1>5, CodePointMoves
<1> QED BY <1>2, <1>6

\* A sequence of c before a text of whole sequences.
LEMMA SequenceAdded ==
  ASSUME NEW c, NEW a, NEW t, NEW b \in Seq(0 .. 255), Joined(b, a, t),
         SequenceOf(a, c), WholeText(t)
  PROVE  /\ WholeText(b)
         /\ CodePoints(b) = {c} \cup CodePoints(t)
         /\ DecodeFrom(b) = Units(c) \o DecodeFrom(t)
<1>1. PICK n \in 1 .. 4 : n = Len(a)
  BY DEF SequenceOf
<1>2. PICK m \in Nat : m = Len(t) /\ Len(b) = n + m
  BY <1>1 DEF Joined
<1>3. \A i \in 1 .. n : b[i] = a[i]
  BY <1>1 DEF Joined
<1>4. \A j \in 1 .. m : b[n + j] = t[j]
  BY <1>1, <1>2 DEF Joined
<1>5. /\ NumBytes(b[1]) = n /\ ~ IsTail(b[1])
      /\ \A k \in 2 .. n : IsTail(b[k])
  BY <1>1, <1>3 DEF SequenceOf
<1>6. CodePoint(b, 1) = c
  <2>1. \A k \in 0 .. NumBytes(a[1]) - 1 : b[1 + k] = a[1 + k]
    BY <1>1, <1>3 DEF SequenceOf
  <2>2. NumBytes(a[1]) \in 1 .. 4
    BY DEF SequenceOf
  <2>3. CodePoint(b, 1) = CodePoint(a, 1)
    BY <2>1, <2>2, CodePointMoves
  <2> QED BY <2>3 DEF SequenceOf
<1>7. Heads(b) = {1} \cup {n + h : h \in Heads(t)}
  <2>1. ASSUME NEW i \in Heads(b) PROVE i \in {1} \cup {n + h : h \in Heads(t)}
    <3>1. i \in 1 .. n + m /\ ~ IsTail(b[i])
      BY <1>2, <2>1 DEF Heads
    <3>2. CASE i <= n
      BY <1>5, <3>1, <3>2
    <3>3. CASE n < i
      <4>1. PICK h \in 1 .. m : i = n + h
        <5>1. i - n \in 1 .. m /\ i = n + (i - n)
          BY <3>1, <3>3
        <5> QED BY <5>1
      <4>2. h \in Heads(t)
        BY <1>2, <1>4, <3>1, <4>1 DEF Heads
      <4> QED BY <4>1, <4>2
    <3> QED BY <3>1, <3>2, <3>3
  <2>2. 1 \in Heads(b)
    BY <1>2, <1>5 DEF Heads
  <2>3. ASSUME NEW h \in Heads(t) PROVE n + h \in Heads(b)
    <3>1. h \in 1 .. m /\ ~ IsTail(t[h])
      BY <1>2, <2>3 DEF Heads
    <3>2. n + h \in 1 .. n + m /\ ~ IsTail(b[n + h])
      BY <1>4, <3>1
    <3> QED BY <1>2, <3>2 DEF Heads
  <2> QED BY <2>1, <2>2, <2>3
<1>8. ASSUME NEW h \in Heads(t)
      PROVE  /\ h \in 1 .. m /\ NumBytes(t[h]) # 0
             /\ Ends(b, n + h) # {} /\ CodePoint(b, n + h) = CodePoint(t, h)
  <2>1. h \in 1 .. m
    BY <1>2, <1>8 DEF Heads
  <2>2. PICK to \in h .. m : IsSequence(t, h, to)
    BY <1>2, <1>8 DEF WholeText, Ends
  <2>3. NumBytes(t[h]) = to - h + 1
    BY <2>2 DEF IsSequence
  <2>4. NumBytes(t[h]) # 0
    BY <2>1, <2>3
  <2>5. n + to \in n + h .. n + m
    BY <2>1
  <2>6. IsSequence(b, n + h, n + to)
    <3>1. NumBytes(b[n + h]) = (n + to) - (n + h) + 1
      BY <1>4, <2>1, <2>3
    <3>2. ASSUME NEW i \in (n + h) + 1 .. n + to PROVE IsTail(b[i])
      <4>1. i - n \in h + 1 .. to /\ i - n \in 1 .. m /\ n + (i - n) = i
        BY <2>1
      <4>2. IsTail(t[i - n])
        BY <2>2, <4>1 DEF IsSequence
      <4>3. b[n + (i - n)] = t[i - n]
        BY <1>4, <4>1
      <4> QED BY <4>1, <4>2, <4>3
    <3> QED BY <3>1, <3>2 DEF IsSequence
  <2>7. CodePoint(b, n + h) = CodePoint(t, h)
    BY <1>1, <1>2, <2>1, <2>4, PlaceMoves
  <2> QED BY <1>2, <2>1, <2>4, <2>5, <2>6, <2>7 DEF Ends
<1>9. WholeText(b)
  <2>1. Ends(b, 1) # {}
    <3>1. IsSequence(b, 1, n)
      BY <1>5 DEF IsSequence
    <3>2. n \in 1 .. Len(b)
      BY <1>2
    <3> QED BY <3>1, <3>2 DEF Ends
  <2> QED BY <1>7, <1>8, <2>1 DEF WholeText
<1>10. CodePoints(b) = {c} \cup CodePoints(t)
  BY <1>6, <1>7, <1>8 DEF CodePoints
<1>11. DecodeFrom(b) = Units(c) \o DecodeFrom(t)
  <2>1. t \in Seq(0 .. 255)
    BY DEF WholeText
  <2>2. PICK u : DecodeLoop(u, b) /\ DecodeFrom(b) = u[1]
    BY DecodeUnfolds
  <2>3. PICK w : DecodeLoop(w, t) /\ DecodeFrom(t) = w[1]
    BY <2>1, DecodeUnfolds
  <2>4. ASSUME NEW i \in 1 .. n + m + 4
        PROVE  u[i] = IF i > n + m \/ NumBytes(b[i]) = 0 THEN <<>>
                      ELSE Units(CodePoint(b, i)) \o u[i + NumBytes(b[i])]
    <3>1. Len(b) + 4 = n + m + 4
      BY <1>2
    <3>2. i \in 1 .. Len(b) + 4
      BY <3>1
    <3> QED BY <1>2, <2>2, <3>2, Zenon DEF DecodeLoop
  <2>5. ASSUME NEW j \in 1 .. m + 4
        PROVE  w[j] = IF j > m \/ NumBytes(t[j]) = 0 THEN <<>>
                      ELSE Units(CodePoint(t, j)) \o w[j + NumBytes(t[j])]
    BY <1>2, <2>3, Zenon DEF DecodeLoop
  <2> DEFINE S == {d \in 0 .. m + 3 : \A j \in m + 4 - d .. m + 4 : u[n + j] = w[j]}
  <2>6. ASSUME NEW j \in 1 .. m + 4, \A k \in j + 1 .. m + 4 : u[n + k] = w[k]
        PROVE  u[n + j] = w[j]
    <3>1. n + j \in 1 .. n + m + 4 /\ (j > m <=> n + j > n + m)
      OBVIOUS
    <3>2. CASE j > m
      BY <2>4, <2>5, <3>1, <3>2
    <3>3. CASE j <= m /\ NumBytes(t[j]) = 0
      <4>1. b[n + j] = t[j]
        BY <1>4, <3>3
      <4> QED BY <2>4, <2>5, <3>1, <3>3, <4>1
    <3>4. CASE j <= m /\ NumBytes(t[j]) # 0
      <4>1. j \in 1 .. m /\ b[n + j] = t[j] /\ ~ (j > m) /\ ~ (n + j > n + m)
        BY <1>4, <3>4
      <4>2. CodePoint(b, n + j) = CodePoint(t, j)
        BY <1>1, <1>2, <3>4, <4>1, PlaceMoves
      <4>3. PICK l \in 1 .. 4 : l = NumBytes(t[j])
        BY <1>2, <3>4, <4>1, SequenceIsThere
      <4>4. u[(n + j) + l] = w[j + l]
        <5>1. j + l \in j + 1 .. m + 4 /\ (n + j) + l = n + (j + l)
          BY <4>1, <4>3
        <5> QED BY <2>6, <5>1
      <4>5. u[n + j] = Units(CodePoint(t, j)) \o u[(n + j) + l]
        BY <2>4, <3>1, <3>4, <4>1, <4>2, <4>3
      <4>6. w[j] = Units(CodePoint(t, j)) \o w[j + l]
        BY <2>5, <3>4, <4>1, <4>3
      <4> QED BY <4>4, <4>5, <4>6
    <3> QED BY <3>2, <3>3, <3>4
  <2>7. 0 \in S
    <3>1. \A j \in m + 4 - 0 .. m + 4 : j = m + 4 /\ j \in 1 .. m + 4
    OBVIOUS
    <3>2. \A k \in (m + 4) + 1 .. m + 4 : FALSE
      OBVIOUS
    <3>3. u[n + (m + 4)] = w[m + 4]
      BY <2>6, <3>2
    <3> QED BY <3>1, <3>3
  <2>8. ASSUME NEW d \in 0 .. m + 2, d \in S PROVE d + 1 \in S
    <3>1. \A j \in m + 4 - d .. m + 4 : u[n + j] = w[j]
      BY <2>8
    <3>2. m + 4 - (d + 1) \in 1 .. m + 4 /\ (m + 4 - (d + 1)) + 1 = m + 4 - d
      OBVIOUS
    <3>3. u[n + (m + 4 - (d + 1))] = w[m + 4 - (d + 1)]
      BY <2>6, <3>1, <3>2
    <3>4. \A j \in m + 4 - (d + 1) .. m + 4 : j = m + 4 - (d + 1) \/ j \in m + 4 - d .. m + 4
      OBVIOUS
    <3> QED BY <3>1, <3>3, <3>4
  <2>9. u[n + 1] = w[1]
    <3>1. m + 3 \in Nat /\ (m + 3) - 1 = m + 2 /\ m + 3 \in 0 .. m + 3 /\ 1 \in m + 4 - (m + 3) .. m + 4
      OBVIOUS
    <3> HIDE DEF S
    <3>2. m + 3 \in S
      BY <2>7, <2>8, <3>1, IntervalInduction
    <3> QED BY <3>1, <3>2 DEF S
  <2>10. u[1] = Units(c) \o u[1 + n]
    <3>1. 1 \in 1 .. n + m + 4 /\ ~ (1 > n + m) /\ n # 0
      OBVIOUS
    <3> QED BY <1>5, <1>6, <2>4, <3>1
  <2>11. 1 + n = n + 1
    OBVIOUS
  <2> QED BY <2>2, <2>3, <2>9, <2>10, <2>11
<1> QED BY <1>9, <1>10, <1>11

(***************************************************************************)
(* The bytes of a string, by induction on the places of its units, the     *)
(* last first.                                                             *)
(***************************************************************************)
IsString(s) == s \in Seq(Unit)

PairsFrom(s, i) == {j \in i .. Len(s) : PairAt(s, j)}

SinglesFrom(s, i) ==
    {j \in i .. Len(s) : ~ PairAt(s, j) /\ (j > i => ~ PairAt(s, j - 1))}

\* The characters of the units from place i on.
CharactersFrom(s, i) ==
    {PairMeaning(s[j], s[j + 1]) : j \in PairsFrom(s, i)} \cup {s[j] : j \in SinglesFrom(s, i)}

LEMMA PairFirst ==
  ASSUME NEW s, Len(s) \in Nat, NEW i \in 1 .. Len(s), PairAt(s, i)
  PROVE  /\ i + 2 <= Len(s) + 1
         /\ CharactersFrom(s, i) = {PairMeaning(s[i], s[i + 1])} \cup CharactersFrom(s, i + 2)
<1>1. i + 1 <= Len(s) /\ ~ PairAt(s, i + 1)
  <2>1. ASSUME NEW x, IsLow(x) PROVE ~ IsHigh(x)
    <3>1. x \in Int /\ 56320 <= x
      BY <2>1, SMT DEF IsLow
    <3> QED BY <3>1, SMT DEF IsHigh
  <2>2. i < Len(s) /\ IsLow(s[i + 1])
    BY DEF PairAt
  <2>3. ~ PairAt(s, i + 1)
    BY <2>1, <2>2, Zenon DEF PairAt
  <2> QED BY <2>2, <2>3
<1>2. PairsFrom(s, i) = {i} \cup PairsFrom(s, i + 2)
  <2>1. \A j \in i .. Len(s) : j = i \/ j = i + 1 \/ j \in i + 2 .. Len(s)
    OBVIOUS
  <2>2. \A j \in i + 2 .. Len(s) : j \in i .. Len(s)
    OBVIOUS
  <2> QED BY <1>1, <2>1, <2>2, SMT DEF PairsFrom
<1>3. SinglesFrom(s, i) = SinglesFrom(s, i + 2)
  <2>1. ASSUME NEW j \in SinglesFrom(s, i) PROVE j \in SinglesFrom(s, i + 2)
    <3>1. j \in i .. Len(s) /\ ~ PairAt(s, j) /\ (j > i => ~ PairAt(s, j - 1))
      BY <2>1 DEF SinglesFrom
    <3>2. j # i /\ j # i + 1
      <4>1. (i + 1) - 1 = i /\ i + 1 > i
        OBVIOUS
      <4> QED BY <3>1, <4>1
    <3>3. j \in i + 2 .. Len(s) /\ j > i
      BY <3>1, <3>2
    <3> QED BY <3>1, <3>3 DEF SinglesFrom
  <2>2. ASSUME NEW j \in SinglesFrom(s, i + 2) PROVE j \in SinglesFrom(s, i)
    <3>1. j \in i + 2 .. Len(s) /\ ~ PairAt(s, j) /\ (j > i + 2 => ~ PairAt(s, j - 1))
      BY <2>2 DEF SinglesFrom
    <3>2. ~ PairAt(s, j - 1)
      <4>1. j = i + 2 => j - 1 = i + 1
        OBVIOUS
      <4>2. j = i + 2 \/ j > i + 2
        BY <3>1
      <4> QED BY <1>1, <3>1, <4>1, <4>2
    <3>3. j \in i .. Len(s)
      BY <3>1
    <3> QED BY <3>1, <3>2, <3>3 DEF SinglesFrom
  <2> QED BY <2>1, <2>2
<1>4. CharactersFrom(s, i) = {PairMeaning(s[i], s[i + 1])} \cup CharactersFrom(s, i + 2)
  BY <1>2, <1>3, Zenon DEF CharactersFrom
<1> QED BY <1>1, <1>4

LEMMA SingleFirst ==
  ASSUME NEW s, Len(s) \in Nat, NEW i \in 1 .. Len(s), ~ PairAt(s, i)
  PROVE  CharactersFrom(s, i) = {s[i]} \cup CharactersFrom(s, i + 1)
<1>1. \A j \in i .. Len(s) : j = i \/ j \in i + 1 .. Len(s)
  OBVIOUS
<1>2. \A j \in i + 1 .. Len(s) : j \in i .. Len(s) /\ j > i
  OBVIOUS
<1>3. PairsFrom(s, i) = PairsFrom(s, i + 1)
  BY <1>1, <1>2 DEF PairsFrom
<1>4. SinglesFrom(s, i) = {i} \cup SinglesFrom(s, i + 1)
  <2>1. ASSUME NEW j \in SinglesFrom(s, i), j # i PROVE j \in SinglesFrom(s, i + 1)
    <3>1. j \in i .. Len(s) /\ ~ PairAt(s, j) /\ (j > i => ~ PairAt(s, j - 1))
      BY <2>1 DEF SinglesFrom
    <3>2. j \in i + 1 .. Len(s) /\ j > i
      BY <1>1, <1>2, <2>1, <3>1
    <3> QED BY <3>1, <3>2 DEF SinglesFrom
  <2>2. ASSUME NEW j \in SinglesFrom(s, i + 1) PROVE j \in SinglesFrom(s, i)
    <3>1. j \in i + 1 .. Len(s) /\ ~ PairAt(s, j) /\ (j > i + 1 => ~ PairAt(s, j - 1))
      BY <2>2 DEF SinglesFrom
    <3>2. ~ PairAt(s, j - 1)
      <4>1. j = i + 1 => j - 1 = i
        OBVIOUS
      <4>2. j = i + 1 \/ j > i + 1
        BY <3>1
      <4> QED BY <3>1, <4>1, <4>2
    <3> QED BY <1>2, <3>1, <3>2 DEF SinglesFrom
  <2>3. i \in SinglesFrom(s, i)
    <3>1. i \in i .. Len(s) /\ ~ (i > i)
      OBVIOUS
    <3> QED BY <3>1 DEF SinglesFrom
  <2> QED BY <2>1, <2>2, <2>3
<1> QED BY <1>3, <1>4, Zenon DEF CharactersFrom

LEMMA SliceIs ==
  ASSUME NEW T, NEW s \in Seq(T), NEW from \in Nat, NEW n \in Nat, from + n <= Len(s)
  PROVE  /\ Slice(s, from, n) \in Seq(T) /\ Len(Slice(s, from, n)) = n
         /\ \A k \in 1 .. n : Slice(s, from, n)[k] = s[from + k]
<1>1. ASSUME NEW k \in 1 .. n PROVE s[from + k] \in T
  <2>1. from + k \in 1 .. Len(s)
    OBVIOUS
  <2> QED BY <2>1, ElementOfSeq
<1> DEFINE f == [k \in 1 .. n |-> s[from + k]]
<1>2. Slice(s, from, n) = f
  BY Zenon DEF Slice
<1>3. f \in [1 .. n -> T] /\ \A k \in 1 .. n : f[k] = s[from + k]
  BY <1>1
<1> HIDE DEF f
<1>4. f \in Seq(T) /\ Len(f) = n
  <2>1. f \in Seq(T)
    BY <1>3, SeqDef
  <2>2. DOMAIN f = 1 .. n
    BY <1>3
  <2> QED BY <2>1, <2>2, LenProperties
<1> QED BY <1>2, <1>3, <1>4

\* The units x are those of s from place i on, and then the others.
LEMMA SliceFrom ==
  ASSUME NEW T, NEW s \in Seq(T), NEW x \in Seq(T), NEW i \in 1 .. Len(s),
         NEW j, j = i + Len(x), j <= Len(s) + 1,
         \A k \in 1 .. Len(x) : x[k] = s[i - 1 + k]
  PROVE  x \o Slice(s, j - 1, Len(s) + 1 - j) = Slice(s, i - 1, Len(s) + 1 - i)
<1>1. PICK n \in Nat : n = Len(x)
  OBVIOUS
<1>2. PICK m \in Nat : m = Len(s) + 1 - (i + n)
  <2>1. Len(s) + 1 - (i + n) \in Nat
    BY <1>1
  <2> QED BY <2>1
<1>3. j - 1 = i + n - 1 /\ Len(s) + 1 - j = m
  BY <1>1, <1>2
<1> DEFINE rest == Slice(s, i + n - 1, m)
           all == Slice(s, i - 1, n + m)
<1>4. i + n - 1 \in Nat /\ i + n - 1 + m <= Len(s)
  BY <1>1, <1>2
<1>5. i - 1 \in Nat /\ n + m \in Nat /\ i - 1 + (n + m) <= Len(s)
  BY <1>1, <1>2
<1>6. rest \in Seq(T) /\ Len(rest) = m /\ \A k \in 1 .. m : rest[k] = s[i + n - 1 + k]
  BY <1>4, SliceIs
<1>7. all \in Seq(T) /\ Len(all) = n + m /\ \A k \in 1 .. n + m : all[k] = s[i - 1 + k]
  BY <1>5, SliceIs
<1> HIDE DEF rest, all
<1>8. /\ x \o rest \in Seq(T) /\ Len(x \o rest) = n + m
      /\ \A k \in 1 .. n + m : (x \o rest)[k] = IF k <= n THEN x[k] ELSE rest[k - n]
  <2>1. rest \in Seq(T) /\ Len(rest) = m /\ Len(x) = n
    BY <1>1, <1>6
  <2>2. /\ x \o rest \in Seq(T) /\ Len(x \o rest) = Len(x) + Len(rest)
        /\ \A k \in 1 .. Len(x) + Len(rest) :
               (x \o rest)[k] = IF k <= Len(x) THEN x[k] ELSE rest[k - Len(x)]
    BY <2>1, ConcatProperties, Zenon
  <2> QED BY <2>1, <2>2
<1>9. ASSUME NEW k \in 1 .. n + m PROVE (x \o rest)[k] = all[k]
  <2>1. CASE k <= n
    <3>1. x[k] = s[i - 1 + k]
      BY <1>1, <2>1
    <3> QED BY <1>7, <1>8, <2>1, <3>1
  <2>2. CASE n < k
    <3>1. k - n \in 1 .. m /\ i + n - 1 + (k - n) = i - 1 + k /\ ~ (k <= n)
      BY <2>2
    <3>2. rest[k - n] = s[i - 1 + k]
      BY <1>6, <3>1
    <3> QED BY <1>7, <1>8, <3>1, <3>2
  <2>3. k <= n \/ n < k
    OBVIOUS
  <2> QED BY <2>1, <2>2, <2>3, Zenon
<1>10. x \o rest = all
  BY <1>7, <1>8, <1>9, SeqEqual
<1>11. n + m = Len(s) + 1 - i
  BY <1>2
<1> QED BY <1>10, <1>11, <1>3 DEF rest, all

\* Without the unit that does not come back.
LastUnitNotIn(s) == 65535 \notin Range(s)

LEMMA UnitIs == \A v \in Unit : v \in Nat /\ v <= LastCharacter
<1>1. \A v \in Nat : v <= 65535 => v <= LastCharacter
  BY SMT DEF LastCharacter
<1>2. \A v \in Unit : v \in Nat /\ v <= 65535
  BY UnitWidths, SMT DEF Unit, P
<1> QED BY <1>1, <1>2, SMT

LEMMA UnitBefore ==
  ASSUME NEW v \in Unit, v # 65535
  PROVE  Units(v) = <<v>>
<1>1. v \in Nat /\ v <= 65535
  BY UnitWidths, SMT DEF Unit, P
<1>2. v < 65535
  BY <1>1, SMT
<1> QED BY <1>1, <1>2, UnitsOfOne, SMT

LEMMA UnitsOfUnit ==
  ASSUME NEW s, LastUnitNotIn(s), NEW i \in DOMAIN s, s[i] \in Unit
  PROVE  Units(s[i]) = <<s[i]>>
<1>1. s[i] # 65535
  BY SMT DEF LastUnitNotIn, Range
<1> QED BY <1>1, UnitBefore

\* What the bytes u[i] say of the units from place i on.
Told(s, u, i) ==
    /\ WholeText(u[i])
    /\ CodePoints(u[i]) = CharactersFrom(s, i)
    /\ LastUnitNotIn(s) => DecodeFrom(u[i]) = Slice(s, i - 1, Len(s) + 1 - i)

\* One step of the induction: the bytes of the character c, which the units x
\* at place i stand for, before those of the rest.
LEMMA ToldBefore ==
  ASSUME NEW s, IsString(s), NEW u, NEW i \in 1 .. Len(s), NEW c \in Nat, c <= LastCharacter,
         NEW x, IsString(x), i + Len(x) <= Len(s) + 1,
         \A k \in 1 .. Len(x) : x[k] = s[i - 1 + k],
         NEW j, j = i + Len(x), Told(s, u, j),
         u[i] = Bytes(c) \o u[j],
         CharactersFrom(s, i) = {c} \cup CharactersFrom(s, j),
         LastUnitNotIn(s) => Units(c) = x
  PROVE  Told(s, u, i)
<1> DEFINE a == Bytes(c)
           t == u[j]
           b == a \o t
<1>1. SequenceOf(a, c) /\ WholeText(t)
  BY BytesCorrect DEF Told
<1>2. a \in Seq(0 .. 255) /\ t \in Seq(0 .. 255)
  BY <1>1 DEF SequenceOf, WholeText
<1> HIDE DEF a, t
<1>3. b \in Seq(0 .. 255) /\ Joined(b, a, t)
  BY <1>2, ConcatJoins
<1>4. u[i] = b
  BY DEF a, t
<1> HIDE DEF b
<1>5. WholeText(b) /\ CodePoints(b) = {c} \cup CodePoints(t)
      /\ DecodeFrom(b) = Units(c) \o DecodeFrom(t)
  BY <1>1, <1>3, SequenceAdded
<1>6. CodePoints(t) = CharactersFrom(s, j)
  BY DEF Told, t
<1>7. ASSUME LastUnitNotIn(s)
      PROVE  DecodeFrom(b) = Slice(s, i - 1, Len(s) + 1 - i)
  <2>1. DecodeFrom(t) = Slice(s, j - 1, Len(s) + 1 - j)
    BY <1>7 DEF Told, t
  <2>2. Units(c) = x
    BY <1>7
  <2>3. x \o Slice(s, j - 1, Len(s) + 1 - j) = Slice(s, i - 1, Len(s) + 1 - i)
    <3>1. s \in Seq(Unit) /\ x \in Seq(Unit)
      BY DEF IsString
    <3> QED BY <3>1, SliceFrom
  <2> QED BY <1>5, <2>1, <2>2, <2>3, Zenon
<1> QED BY <1>4, <1>5, <1>6, <1>7 DEF Told

LEMMA ToldStep ==
  ASSUME NEW s, IsString(s), SupportedString(s), NEW u, EncodeLoop(u, s),
         NEW i \in 1 .. Len(s), \A j \in i + 1 .. Len(s) + 1 : Told(s, u, j)
  PROVE  Told(s, u, i)
<1>1. Len(s) \in Nat
  BY DEF IsString
<1>2. \A k \in 1 .. Len(s) : s[k] \in Unit
  BY ElementOfSeq DEF IsString
<1>3. u[i] = IF PairAt(s, i) THEN Bytes(PairValue(s[i], s[i + 1])) \o u[i + 2]
             ELSE Bytes(s[i]) \o u[i + 1]
  <2>1. i \in 1 .. Len(s) + 2 /\ ~ (i > Len(s))
    BY <1>1
  <2> QED BY <2>1 DEF EncodeLoop
<1>4. CASE PairAt(s, i)
  <2>1. i + 1 \in 1 .. Len(s) /\ i + 2 <= Len(s) + 1 /\ i + 2 \in i + 1 .. Len(s) + 1
    <3>1. i < Len(s)
      BY <1>4 DEF PairAt
    <3> QED BY <1>1, <3>1
  <2>2. IsHigh(s[i]) /\ IsLow(s[i + 1])
    BY <1>4 DEF PairAt
  <2>3. (s[i] \div 64) % 2 = 0
    BY <1>4 DEF SupportedString
  <2>4. PICK c \in Nat : c = PairMeaning(s[i], s[i + 1]) /\ c = PairValue(s[i], s[i + 1])
                         /\ c <= LastCharacter
    BY <2>2, <2>3, PairCorrect
  <2> DEFINE x == <<s[i], s[i + 1]>>
  <2>5. Units(c) = x
    <3>1. Units(PairMeaning(s[i], s[i + 1])) = <<s[i], s[i + 1]>>
      BY <2>2, UnitsOfPair
    <3> QED BY <2>4, <3>1, Zenon
  <2>6. IsString(x) /\ Len(x) = 2 /\ x[1] = s[i] /\ x[2] = s[i + 1]
    BY <1>2, <2>1 DEF IsString
  <2> HIDE DEF x
  <2>7. ASSUME NEW k \in 1 .. Len(x) PROVE x[k] = s[i - 1 + k]
    <3>1. k = 1 \/ k = 2
      BY <2>6
    <3>2. i - 1 + 1 = i /\ i - 1 + 2 = i + 1
      OBVIOUS
    <3> QED BY <2>6, <3>1, <3>2
  <2>8. CharactersFrom(s, i) = {c} \cup CharactersFrom(s, i + 2)
    BY <1>1, <1>4, <2>4, PairFirst
  <2>9. u[i] = Bytes(c) \o u[i + 2] /\ Told(s, u, i + 2)
    BY <1>3, <1>4, <2>1, <2>4
  <2>10. c <= LastCharacter
    BY <2>4
  <2>11. i + 2 = i + Len(x) /\ i + Len(x) <= Len(s) + 1
    BY <2>1, <2>6
  <2> QED BY <2>5, <2>6, <2>7, <2>8, <2>9, <2>10, <2>11, ToldBefore
<1>5. CASE ~ PairAt(s, i)
  <2>1. i + 1 <= Len(s) + 1 /\ i + 1 \in i + 1 .. Len(s) + 1
    BY <1>1
  <2>4. PICK c \in Nat : c = s[i] /\ c <= LastCharacter
    BY <1>2, UnitIs
  <2> DEFINE x == <<s[i]>>
  <2>5. LastUnitNotIn(s) => Units(c) = x
    <3>1. i \in DOMAIN s /\ s[i] \in Unit
      BY <1>2, LenProperties DEF IsString
    <3>2. LastUnitNotIn(s) => Units(s[i]) = <<s[i]>>
      BY <3>1, UnitsOfUnit
    <3> QED BY <2>4, <3>2, Zenon
  <2>6. IsString(x) /\ Len(x) = 1 /\ x[1] = s[i]
    BY <1>2 DEF IsString
  <2> HIDE DEF x
  <2>7. ASSUME NEW k \in 1 .. Len(x) PROVE x[k] = s[i - 1 + k]
    <3>1. k = 1
      BY <2>6
    <3>2. i - 1 + 1 = i
      OBVIOUS
    <3> QED BY <2>6, <3>1, <3>2
  <2>8. CharactersFrom(s, i) = {c} \cup CharactersFrom(s, i + 1)
    BY <1>1, <1>5, <2>4, SingleFirst
  <2>9. u[i] = Bytes(c) \o u[i + 1] /\ Told(s, u, i + 1)
    BY <1>3, <1>5, <2>1, <2>4
  <2>10. c <= LastCharacter
    BY <2>4
  <2>11. i + 1 = i + Len(x) /\ i + Len(x) <= Len(s) + 1
    BY <2>1, <2>6
  <2> QED BY <2>5, <2>6, <2>7, <2>8, <2>9, <2>10, <2>11, ToldBefore
<1> QED BY <1>4, <1>5

\* Nothing is made of no units.
LEMMA NothingTold ==
  ASSUME NEW s, IsString(s), NEW u, EncodeLoop(u, s)
  PROVE  Told(s, u, Len(s) + 1)
<1>1. PICK n \in Nat : n = Len(s)
  BY DEF IsString
<1>2. u[n + 1] = <<>>
  <2>1. n + 1 \in 1 .. Len(s) + 2 /\ n + 1 > Len(s)
    BY <1>1
  <2> QED BY <2>1 DEF EncodeLoop
<1>3. <<>> \in Seq(0 .. 255) /\ Len(<<>>) = 0
  BY EmptySeq
<1>4. Heads(<<>>) = {}
  BY <1>3 DEF Heads
<1>5. CharactersFrom(s, n + 1) = {}
  <2>1. n + 1 .. Len(s) = {}
    BY <1>1
  <2> QED BY <2>1 DEF CharactersFrom, PairsFrom, SinglesFrom
<1>6. DecodeFrom(<<>>) = <<>>
  <2>1. PICK w : DecodeLoop(w, <<>>) /\ DecodeFrom(<<>>) = w[1]
    BY <1>3, DecodeUnfolds
  <2>2. 1 \in 1 .. Len(<<>>) + 4 /\ 1 > Len(<<>>)
    BY <1>3
  <2> QED BY <2>1, <2>2 DEF DecodeLoop
<1>7. Slice(s, (n + 1) - 1, Len(s) + 1 - (n + 1)) = <<>>
  <2>1. Len(s) + 1 - (n + 1) = 0
    BY <1>1
  <2>2. s \in Seq(Unit) /\ (n + 1) - 1 \in Nat /\ 0 \in Nat /\ (n + 1) - 1 + 0 <= Len(s)
    BY <1>1 DEF IsString
  <2>3. /\ Slice(s, (n + 1) - 1, 0) \in Seq(Unit)
        /\ Len(Slice(s, (n + 1) - 1, 0)) = 0
    BY <2>2, SliceIs
  <2> QED BY <2>1, <2>3, EmptySeq
<1> QED BY <1>1, <1>2, <1>3, <1>4, <1>5, <1>6, <1>7 DEF Told, WholeText, CodePoints

LEMMA AllTold ==
  ASSUME NEW s, IsString(s), SupportedString(s)
  PROVE  /\ WholeText(EncodeFrom(s))
         /\ CodePoints(EncodeFrom(s)) = Characters(s)
         /\ LastUnitNotIn(s) => DecodeFrom(EncodeFrom(s)) = s
<1>1. PICK n \in Nat : n = Len(s)
  BY DEF IsString
<1>2. PICK u : EncodeLoop(u, s) /\ EncodeFrom(s) = u[1]
  BY <1>1, EncodeUnfolds
<1> DEFINE S == {d \in 0 .. n : \A j \in n + 1 - d .. n + 1 : Told(s, u, j)}
<1>3. 0 \in S
  <2>1. \A j \in n + 1 - 0 .. n + 1 : j = n + 1
    OBVIOUS
  <2>2. Told(s, u, n + 1)
    BY <1>1, <1>2, NothingTold
  <2> QED BY <2>1, <2>2
<1>4. ASSUME NEW d \in 0 .. n - 1, d \in S PROVE d + 1 \in S
  <2>1. \A j \in n + 1 - d .. n + 1 : Told(s, u, j)
    BY <1>4
  <2>2. PICK i \in 1 .. n : i = n + 1 - (d + 1) /\ i + 1 = n + 1 - d
    <3>1. n + 1 - (d + 1) \in 1 .. n /\ (n + 1 - (d + 1)) + 1 = n + 1 - d
      OBVIOUS
    <3> QED BY <3>1
  <2>3. Told(s, u, i)
    <3>1. i \in 1 .. Len(s) /\ \A j \in i + 1 .. Len(s) + 1 : Told(s, u, j)
      BY <1>1, <2>1, <2>2
    <3> QED BY <1>2, <3>1, ToldStep
  <2>4. \A j \in i .. n + 1 : j = i \/ j \in n + 1 - d .. n + 1
    BY <2>2
  <2>5. d + 1 \in 0 .. n
    OBVIOUS
  <2> QED BY <2>1, <2>2, <2>3, <2>4, <2>5
<1>5. Told(s, u, 1)
  <2>1. n \in 0 .. n /\ 1 \in n + 1 - n .. n + 1
    OBVIOUS
  <2> HIDE DEF S
  <2>2. n \in S
    BY <1>3, <1>4, <2>1, IntervalInduction
  <2> QED BY <2>1, <2>2 DEF S
<1>6. CharactersFrom(s, 1) = Characters(s)
  BY DEF CharactersFrom, PairsFrom, SinglesFrom, Characters
<1>7. Slice(s, 1 - 1, Len(s) + 1 - 1) = s
  <2>1. Slice(s, 1 - 1, Len(s) + 1 - 1) = Slice(s, 0, n)
    BY <1>1
  <2>2. s \in Seq(Unit) /\ 0 \in Nat /\ 0 + n <= Len(s)
    BY <1>1 DEF IsString
  <2>3. /\ Slice(s, 0, n) \in Seq(Unit) /\ Len(Slice(s, 0, n)) = n
        /\ \A k \in 1 .. n : Slice(s, 0, n)[k] = s[0 + k]
    BY <2>2, SliceIs
  <2>4. \A k \in 1 .. n : Slice(s, 0, n)[k] = s[k]
    BY <2>3
  <2>5. Slice(s, 0, n) = s
    BY <1>1, <2>2, <2>3, <2>4, SeqEqual
  <2> QED BY <2>1, <2>5
<1> QED BY <1>2, <1>5, <1>6, <1>7 DEF Told

(***************************************************************************)
(* The three stages of a string: what Encode makes of it, and what Decode  *)
(* makes of that.                                                          *)
(***************************************************************************)
StringInv ==
    /\ IsString(string)
    /\ stage \in {"new", "encoded", "decoded"}
    /\ stage # "new" => bytes = EncodeFrom(string)
    /\ stage = "decoded" => back = DecodeFrom(bytes)

LEMMA StringInvHolds == StringSpec => []StringInv
<1>1. StringInit => StringInv
  BY StringsAssumption DEF StringInit, StringInv, IsString
<1>2. StringInv /\ [StringNext]_stringVars => StringInv'
  <2> SUFFICES ASSUME StringInv, [StringNext]_stringVars PROVE StringInv'
    OBVIOUS
  <2>1. CASE AsBytes
    BY <2>1, Zenon DEF StringInv, AsBytes, IsString
  <2>2. CASE FromEncoding
    BY <2>2, Zenon DEF StringInv, FromEncoding, IsString
  <2>3. CASE UNCHANGED stringVars
    BY <2>3, Zenon DEF StringInv, stringVars, IsString
  <2> QED BY <2>1, <2>2, <2>3 DEF StringNext
<1> QED BY <1>1, <1>2, PTL DEF StringSpec

(***************************************************************************)
(* AsUtf8 gives whole UTF-8 sequences, and they are the characters of the  *)
(* string, whichever they are and however the surrogates in it are paired: *)
(* when no pair has the bit that is lost.                                  *)
(***************************************************************************)
THEOREM EncodingCorrect == StringSpec => []EncodesCharacters
<1>1. StringInv => EncodesCharacters
  <2> SUFFICES ASSUME StringInv, stage # "new", SupportedString(string)
               PROVE  /\ \A i \in Heads(bytes) : Ends(bytes, i) # {}
                      /\ {CodePoint(bytes, i) : i \in Heads(bytes)} = Characters(string)
    BY DEF EncodesCharacters
  <2>1. IsString(string) /\ bytes = EncodeFrom(string)
    BY DEF StringInv
  <2>2. WholeText(bytes) /\ CodePoints(bytes) = Characters(string)
    BY <2>1, AllTold
  <2> QED BY <2>2 DEF WholeText, CodePoints
<1> QED BY <1>1, StringInvHolds, PTL

(***************************************************************************)
(* A string without the unit 0xffff, and without a pair that loses its     *)
(* bit, comes back from FromEncoding as it was.                            *)
(***************************************************************************)
THEOREM RoundTripCorrect == StringSpec => []RoundTrip
<1>1. StringInv => RoundTrip
  <2> SUFFICES ASSUME StringInv, stage = "decoded", SupportedString(string),
                      LastUnitNotIn(string)
               PROVE  back = string
    BY SMT DEF RoundTrip, LastUnitNotIn
  <2>1. IsString(string) /\ bytes = EncodeFrom(string) /\ back = DecodeFrom(bytes)
    BY DEF StringInv
  <2> QED BY <2>1, AllTold
<1> QED BY <1>1, StringInvHolds, PTL
=============================================================================
