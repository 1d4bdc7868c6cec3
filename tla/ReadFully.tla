------------------------------ MODULE ReadFully ------------------------------
(***************************************************************************)
(* FileParser::CreateFromFile up to the definition's text: the file is     *)
(* opened and FileReader::ReadFully reads all of it, with any number of    *)
(* short reads, one read per turn of its loop.  What becomes of the text   *)
(* is DefinitionParser.                                                    *)
(***************************************************************************)
EXTENDS FileReader

CONSTANTS
    ReadSize,   \* kReadSize, the bytes asked for when the size is not known
    Old         \* what is in the caller's buffer before

ASSUME ReadSizeAssumption == ReadSize \in Nat \ {0}

VARIABLES
    stage,      \* "open", "seek", "read", or how the call has ended: "parse",
                \* "null" (with an error), or "crash" (errors was nullptr)
    sizeKnown,  \* size() has a value
    errors,     \* the caller gave an ErrorCollection and not nullptr
    asked,      \* the bytes the next read asks for
    ret,        \* ReadFully's own buffer
    buffer      \* the caller's

fullyVars ==
    <<filePos, ioError, stage, sizeKnown, errors, asked, ret, buffer>>

\* ReadFully may be called on a reader that stands anywhere.
FullyInit ==
    /\ filePos \in 0 .. FileSize
    /\ ioError = FALSE
    /\ stage = "open"
    /\ sizeKnown \in BOOLEAN
    /\ errors \in BOOLEAN
    /\ asked = 0
    /\ ret = <<>>
    /\ buffer = Old

Open ==
    /\ stage = "open"
    /\ stage' = "seek"
    /\ UNCHANGED <<readerVars, sizeKnown, errors, asked, ret, buffer>>

\* CreateFromFile looks whether there is an ErrorCollection to add to.
OpenFails ==
    /\ stage = "open"
    /\ stage' = "null"
    /\ UNCHANGED <<readerVars, sizeKnown, errors, asked, ret, buffer>>
-----------------------------------------------------------------------------
\* Bug: the reader is taken to stand at the beginning.
SeekNot ==
    /\ stage = "seek"
    /\ stage' = "read"
    /\ asked' = IF sizeKnown THEN FileSize ELSE ReadSize
    /\ UNCHANGED <<readerVars, sizeKnown, errors, ret, buffer>>

Seek ==
    /\ stage = "seek"
    /\ ReaderSeek(0)
    /\ stage' = "read"
    /\ asked' = IF sizeKnown THEN FileSize ELSE ReadSize
    /\ UNCHANGED <<sizeKnown, errors, ret, buffer>>

\* The readers add to errors without looking.
Failed == IF errors THEN "null" ELSE "crash"

SeekFails ==
    /\ stage = "seek"
    /\ ReaderSeekFails
    /\ stage' = Failed
    /\ UNCHANGED <<sizeKnown, errors, asked, ret, buffer>>

\* Bug: a short read is taken for the end of the file.
AtEndIfShort(n) == n < asked

\* Bug: the loop goes on at the end.
AtEndNever(n) == FALSE

AtEnd(n) == n = 0

Read ==
    /\ stage = "read"
    /\ \E n \in 0 .. asked :
          /\ ReaderRead(asked, n)
          /\ ret' = ret \o FileBytes(filePos, n)
          /\ IF AtEnd(n) THEN stage' = "parse" /\ buffer' = ret'
             ELSE UNCHANGED <<stage, buffer>>
    /\ asked' = ReadSize
    /\ UNCHANGED <<sizeKnown, errors>>

\* Bug: what has been read is handed out.
ReadFailsPartly ==
    /\ stage = "read"
    /\ \E n \in 0 .. asked : ReaderReadFails(asked, n)
    /\ stage' = Failed
    /\ buffer' = ret
    /\ UNCHANGED <<sizeKnown, errors, asked, ret>>

ReadFails ==
    /\ stage = "read"
    /\ \E n \in 0 .. asked : ReaderReadFails(asked, n)
    /\ stage' = Failed
    /\ UNCHANGED <<sizeKnown, errors, asked, ret, buffer>>

Step == Open \/ OpenFails \/ Seek \/ SeekFails \/ Read \/ ReadFails

FullySpec == FullyInit /\ [][Step]_fullyVars
-----------------------------------------------------------------------------
(***************************************************************************)
(* While ReadFully reads, what it has is the beginning of the file, up to  *)
(* where the reader stands: wherever it stood before and however short the *)
(* reads are.  So none asks for bytes the file does not have room for.     *)
(***************************************************************************)
ReadSoFar ==
    stage \in {"read", "parse"} => ret = FileBytes(0, filePos)

(***************************************************************************)
(* The definition that is parsed is the whole file.                        *)
(***************************************************************************)
ParsesWholeFile == stage = "parse" => buffer = FileBytes(0, FileSize)

(***************************************************************************)
(* A call that fails leaves the caller's buffer as it was, even when the   *)
(* failure comes after many reads.                                         *)
(***************************************************************************)
FailsWithoutTrace == stage # "parse" => buffer = Old

(***************************************************************************)
(* The doc of CreateFromFile, "nullptr on error": with and without an      *)
(* ErrorCollection.                                                        *)
(***************************************************************************)
NullOnError == stage # "crash"
=============================================================================
