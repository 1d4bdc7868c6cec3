----------------------------- MODULE FileReader -----------------------------
(***************************************************************************)
(* An open file: the interface FileReader and what its two implementations *)
(* do.  FileFileReader keeps a FILE*, MemoryFileReader a vector; both hold  *)
(* one read position, shared by every user of the object.                  *)
(*                                                                         *)
(* The contents File and the size FileSize never change while the reader   *)
(* exists, as file_system.h requires.  The operators below are the steps   *)
(* of a caller's call; the caller's module composes them with its own.     *)
(***************************************************************************)
EXTENDS Integers, Sequences

CONSTANTS
    Byte,       \* the values a byte of the file can have
    FileSize,   \* the number of bytes of the file
    File        \* its contents, indexed from 0

ASSUME FileAssumption ==
    /\ FileSize \in Nat
    /\ File \in [0 .. FileSize - 1 -> Byte]

VARIABLES
    filePos,    \* the byte position of the reader, clamped to the file
    ioError     \* the error indicator of the stream: once set it stays set,
                \* since neither fread nor fseeko clears it

readerVars == <<filePos, ioError>>

ReaderTypeOK ==
    /\ filePos \in 0 .. FileSize
    /\ ioError \in BOOLEAN

ReaderInit ==
    /\ filePos = 0
    /\ ioError = FALSE

Clamp(p) == IF p > FileSize THEN FileSize ELSE p

\* The n bytes of the file from byte position from on.
FileBytes(from, n) == [i \in 1 .. n |-> File[from + i - 1]]

(***************************************************************************)
(* Seek(&p): the target is clamped to the file; fseeko may fail, and then  *)
(* leaves the position alone.  A reader that cannot seek always fails.      *)
(***************************************************************************)
ReaderSeek(p) ==
    /\ filePos' = Clamp(p)
    /\ UNCHANGED ioError

ReaderSeekFails == UNCHANGED readerVars

(***************************************************************************)
(* Read(buffer, &size) for a request of size bytes, of which n arrive:     *)
(* fewer than asked may arrive, but none only at the end of the file (or   *)
(* when none were asked for).  A failed read may have moved the position   *)
(* by the n bytes that did arrive.  An earlier failure fails every read.   *)
(***************************************************************************)
Available(size) ==
    IF size < FileSize - filePos THEN size ELSE FileSize - filePos

ReaderRead(size, n) ==
    /\ ~ioError
    /\ n \in 0 .. Available(size)
    /\ n = 0 => Available(size) = 0
    /\ filePos' = filePos + n
    /\ UNCHANGED ioError

ReaderReadFails(size, n) ==
    /\ n \in 0 .. Available(size)
    /\ filePos' = filePos + n
    /\ ioError' = TRUE
=============================================================================
