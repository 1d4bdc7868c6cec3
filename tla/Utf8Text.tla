------------------------------- MODULE Utf8Text ------------------------------
(***************************************************************************)
(* What decoding UTF-8 promises, with no buffers and no calls: the text is *)
(* read one whole sequence after the other, each where the last one ended, *)
(* until one is not a sequence.  How the text is cut into calls of Decode  *)
(* does not show.  Bytes are passed over only when the reader is told to,  *)
(* and are counted.                                                        *)
(***************************************************************************)
EXTENDS Utf8

VARIABLES
    text,       \* the bytes of the text
    done,       \* how many of them are decoded or given up
    output,     \* the sequences they were, in order
    givenUp,    \* how many more are passed over, by demand
    ok          \* no byte has been found wrong

textVars == <<text, done, output, givenUp, ok>>

Next1 == text[done + 1]

TextInit ==
    /\ text \in Seq(Nat)
    /\ done = 0
    /\ output = <<>>
    /\ givenUp = 0
    /\ ok = TRUE

\* There is a first byte, and what it announces is there as well.
Whole ==
    /\ done < Len(text)
    /\ done + NumBytes(Next1) <= Len(text)

WellFormed ==
    /\ NumBytes(Next1) # 0
    /\ \A i \in 1 .. NumBytes(Next1) - 1 : IsTail(text[done + i + 1])

ReadSequence ==
    /\ ok
    /\ Whole
    /\ WellFormed
    /\ output' = Append(output, Slice(text, done, NumBytes(Next1)))
    /\ done' = done + NumBytes(Next1)
    /\ UNCHANGED <<text, givenUp, ok>>

Reject ==
    /\ ok
    /\ Whole
    /\ ~WellFormed
    /\ ok' = FALSE
    /\ UNCHANGED <<text, done, output, givenUp>>

\* The reader is told to give up some bytes, and starts anew behind them.
Restart ==
    /\ done' \in done + 1 .. Len(text)
    /\ givenUp' = givenUp + (done' - done)
    /\ ok' = TRUE
    /\ UNCHANGED <<text, output>>

TextNext == ReadSequence \/ Reject \/ Restart

TextSpec == TextInit /\ [][TextNext]_textVars
=============================================================================
