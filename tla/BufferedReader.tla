--------------------------- MODULE BufferedReader ---------------------------
(***************************************************************************)
(* BufferedFileReader: a window of at most K bytes over a FileReader.       *)
(*                                                                         *)
(* The first used bytes of buffer are the file from bit position start on, *)
(* and the read position is start + offset.  EnsureBuffer and GetBuffer     *)
(* share one loop of reads, each a step here: the call in progress is in   *)
(* call, what the last call returned in answer.  Seek and Skip make at     *)
(* most one call to the reader and are one step.                           *)
(***************************************************************************)
EXTENDS FileReader, Size

CONSTANTS
    K,          \* kBufferSize
    Uninit,     \* what a byte of the buffer holds before it is read into
    Positions,  \* the bit positions Seek is called with
    Requests,   \* the bit counts Skip and EnsureBuffer are called with
    MaxPos      \* bound: Skip does not go past this bit position

ASSUME BufferAssumption ==
    /\ K \in Nat \ {0}
    /\ Uninit \notin Byte
    /\ Positions \subseteq Nat
    /\ Requests \subseteq 1 .. FromBytes(K) + 7
    /\ MaxPos \in Nat

VARIABLES
    start,      \* start_position_, in bits, a whole number of bytes
    offset,     \* buffer_offset_, in bits
    buffer,     \* buffer_
    used,       \* used_, in bytes
    lost,       \* history: the reader is not known to stand where the window
                \* ends, since the last Seek of it failed
    call,       \* the call in progress
    answer      \* what the last call returned

windowVars == <<start, offset, buffer, used>>
vars == <<filePos, ioError, start, offset, buffer, used, lost, call, answer>>

Idle == [op |-> "none", need |-> 0]
NoAnswer == [op |-> "none", ok |-> TRUE, bytes |-> <<>>]
Answer(op, ok, bytes) == [op |-> op, ok |-> ok, bytes |-> bytes]

Position == start + offset

\* The constructor: an empty window.  It does not touch the FileReader.
NewWindow ==
    /\ start = 0
    /\ offset = 0
    /\ buffer = [i \in 0 .. K - 1 |-> Uninit]
    /\ used = 0
    /\ call = Idle
    /\ answer = NoAnswer

Init ==
    /\ ReaderInit
    /\ NewWindow
    /\ lost = FALSE
-----------------------------------------------------------------------------
(***************************************************************************)
(* Seek(p).  A position in the window only moves offset; any other empties *)
(* the window and moves the reader, and the window stays emptied and moved *)
(* when the reader fails.                                                  *)
(***************************************************************************)
\* Bug: the capacity of the buffer for the part of it in use.
InWindowByCapacity(p) == start <= p /\ p < start + FromBytes(K)

InWindow(p) == start <= p /\ p < start + FromBytes(used)

SeekInWindow(p) ==
    /\ InWindow(p)
    /\ offset' = p - start
    /\ answer' = Answer("seek", TRUE, <<>>)
    /\ UNCHANGED <<filePos, ioError, start, buffer, used, lost>>

\* Bug: the old bytes stay in use under the new position.
MoveWindowKeepsUsed(p) ==
    /\ ~InWindow(p)
    /\ start' = ClipToByte(p)
    /\ offset' = BitOffset(p)
    /\ UNCHANGED <<used, buffer>>

MoveWindow(p) ==
    /\ ~InWindow(p)
    /\ start' = ClipToByte(p)
    /\ offset' = BitOffset(p)
    /\ used' = 0
    /\ UNCHANGED buffer

SeekReader(p) ==
    /\ MoveWindow(p)
    /\ ReaderSeek(ByteCount(p))
    /\ lost' = FALSE
    /\ answer' = Answer("seek", TRUE, <<>>)

\* Bug: the result of reader_->Seek is ignored.
SeekFailsSilently(p) ==
    /\ MoveWindow(p)
    /\ ReaderSeekFails
    /\ lost' = TRUE
    /\ answer' = Answer("seek", TRUE, <<>>)

SeekFails(p) ==
    /\ MoveWindow(p)
    /\ ReaderSeekFails
    /\ lost' = TRUE
    /\ answer' = Answer("seek", FALSE, <<>>)

SeekTo(p) ==
    /\ call = Idle
    /\ SeekInWindow(p) \/ SeekReader(p) \/ SeekFails(p)
    /\ UNCHANGED call

Seek == \E p \in Positions : SeekTo(p)

Skip == \E count \in Requests :
            /\ Position + count <= MaxPos
            /\ SeekTo(Position + count)
-----------------------------------------------------------------------------
(***************************************************************************)
(* EnsureBuffer(need) up to its loop: when the request does not fit behind *)
(* offset, the bytes before the read position are dropped.  memmove moves  *)
(* the whole tail, bytes past used included.                               *)
(***************************************************************************)
\* Bug: the offset is not reset when the bytes before it go.
CompactKeepsOffset ==
    LET count == ByteCount(offset)
    IN  /\ buffer' = [i \in 0 .. K - 1 |->
                        IF i < K - count THEN buffer[i + count] ELSE buffer[i]]
        /\ used' = used - count
        /\ start' = start + FromBytes(count)
        /\ UNCHANGED offset

\* Bug: the counters move, the bytes do not.
CompactWithoutMove ==
    LET count == ByteCount(offset)
    IN  /\ used' = used - count
        /\ start' = start + FromBytes(count)
        /\ offset' = BitOffset(offset)
        /\ UNCHANGED buffer

Compact ==
    LET count == ByteCount(offset)
    IN  /\ buffer' = [i \in 0 .. K - 1 |->
                        IF i < K - count THEN buffer[i + count] ELSE buffer[i]]
        /\ used' = used - count
        /\ start' = start + FromBytes(count)
        /\ offset' = BitOffset(offset)

MakeRoom(need) ==
    IF offset + need > FromBytes(K) THEN Compact ELSE UNCHANGED windowVars

Begin(op, need) ==
    /\ call = Idle
    /\ call' = [op |-> op, need |-> need]
    /\ MakeRoom(need)
    /\ answer' = NoAnswer
    /\ UNCHANGED <<filePos, ioError, lost>>

EnsureBuffer == \E need \in Requests : Begin("ensure", need)

GetBuffer == Begin("get", 1)
-----------------------------------------------------------------------------
(***************************************************************************)
(* The loop of EnsureBuffer.  A read asks for all the room left and writes *)
(* behind the used bytes.                                                  *)
(***************************************************************************)
\* Bug: the bits before the read position count as delivered.
ShortIgnoresOffset == call.need > FromBytes(used)

Short == offset + call.need > FromBytes(used)

\* The buffer after n bytes arrived behind the used ones.
Received(n) ==
    [i \in 0 .. K - 1 |-> IF i \in used .. used + n - 1
                          THEN File[filePos + (i - used)]
                          ELSE buffer[i]]

\* Bug: the pointer handed out is the start of the buffer.
BufferedFromStart == [i \in 1 .. used - ByteCount(offset) |-> buffer[i - 1]]

\* What GetBuffer hands out: a pointer to the byte under the read position,
\* and the number of used bytes from there on.
Buffered == [i \in 1 .. used - ByteCount(offset) |->
                buffer[ByteCount(offset) + i - 1]]

Return(ok) ==
    /\ call' = Idle
    /\ answer' = Answer(call.op, ok,
                        IF ok /\ call.op = "get" THEN Buffered ELSE <<>>)

\* Bug: each read asks for a whole buffer.
FillReadWholeBuffer ==
    /\ call # Idle
    /\ Short
    /\ \E n \in 1 .. K :
          /\ ReaderRead(K, n)
          /\ buffer' = Received(n)
          /\ used' = used + n
    /\ UNCHANGED <<start, offset, lost, call, answer>>

FillRead ==
    /\ call # Idle
    /\ Short
    /\ \E n \in 1 .. K - used :
          /\ ReaderRead(K - used, n)
          /\ buffer' = Received(n)
          /\ used' = used + n
    /\ UNCHANGED <<start, offset, lost, call, answer>>

\* Bug: an empty read does not end the loop.
FillEofRetries ==
    /\ call # Idle
    /\ Short
    /\ ReaderRead(K - used, 0)
    /\ UNCHANGED <<start, offset, buffer, used, lost, call, answer>>

FillEof ==
    /\ call # Idle
    /\ Short
    /\ ReaderRead(K - used, 0)
    /\ Return(TRUE)
    /\ UNCHANGED <<start, offset, buffer, used, lost>>

FillFails ==
    /\ call # Idle
    /\ Short
    /\ \E n \in 0 .. K - used :
          /\ ReaderReadFails(K - used, n)
          /\ buffer' = Received(n)
    /\ Return(FALSE)
    /\ UNCHANGED <<start, offset, used, lost>>

FillDone ==
    /\ call # Idle
    /\ ~Short
    /\ Return(TRUE)
    /\ UNCHANGED <<filePos, ioError, start, offset, buffer, used, lost>>

Fill == FillRead \/ FillEof \/ FillFails \/ FillDone

Next == Seek \/ Skip \/ EnsureBuffer \/ GetBuffer \/ Fill

\* The code is sequential and every call of the reader returns: a call in
\* progress keeps going, without the help of a failure unless the stream has
\* failed before.  Nothing makes the client call again.
Spec ==
    /\ Init
    /\ [][Next]_vars
    /\ WF_vars(FillRead \/ FillEof \/ FillDone)
    /\ WF_vars(ioError /\ FillFails)
-----------------------------------------------------------------------------
TypeOK ==
    /\ ReaderTypeOK
    /\ start \in Nat
    /\ offset \in Nat
    /\ buffer \in [0 .. K - 1 -> Byte \cup {Uninit}]
    /\ used \in 0 .. K
    /\ lost \in BOOLEAN
    /\ call \in {Idle} \cup [op : {"ensure", "get"}, need : Nat \ {0}]
    /\ answer \in [op : {"none", "seek", "ensure", "get"}, ok : BOOLEAN,
                   bytes : Seq(Byte \cup {Uninit})]

(***************************************************************************)
(* The asserts of EnsureBuffer (lines 67 and 68), in every state and not   *)
(* only at a call: the read position is at most a bit offset past the used *)
(* bytes.  So the difference used - byte_count of GetBuffer and of the     *)
(* compaction never wraps, and memmove stays inside the buffer.            *)
(***************************************************************************)
OffsetInBuffer ==
    /\ offset <= FromBytes(K) + 7
    /\ offset <= FromBytes(used) + 7
    /\ start % 8 = 0

(***************************************************************************)
(* While no Seek of the reader has failed, the used bytes are the bytes of *)
(* the file at start, whatever mix of seeks, skips, short reads, failed    *)
(* reads and compactions led there: never stale ones, never uninitialised. *)
(***************************************************************************)
BufferIsWindow ==
    ~lost => \A i \in 0 .. used - 1 :
                /\ ByteCount(start) + i < FileSize
                /\ buffer[i] = File[ByteCount(start) + i]

(***************************************************************************)
(* The reader stands right behind the window, so that the next read        *)
(* continues it; only a failed seek or a failed read breaks this.          *)
(***************************************************************************)
ReaderBehindWindow ==
    ~lost /\ ~ioError => filePos = Clamp(ByteCount(start) + used)

(***************************************************************************)
(* While EnsureBuffer loops, the request fits the buffer behind the read   *)
(* position, or the compaction has left no more than a bit offset before   *)
(* it: a full buffer ends the loop only when nothing more can be done.     *)
(***************************************************************************)
RoomWhileFilling ==
    call # Idle =>
        /\ offset + call.need <= FromBytes(K) \/ offset < 8
        /\ call.op = "get" => call.need = 1
        /\ answer = NoAnswer

(***************************************************************************)
(* GetBuffer gives the bytes of the file at the read position, and gives   *)
(* none only when the position is at or past the end of the file.          *)
(***************************************************************************)
GetIsFile ==
    (answer.op = "get" /\ answer.ok /\ ~lost) =>
        LET from == ByteCount(Position)
            n    == Len(answer.bytes)
        IN  /\ n = 0 => from >= FileSize
            /\ n > 0 => /\ from + n <= FileSize
                        /\ answer.bytes = FileBytes(from, n)

(***************************************************************************)
(* What EnsureBuffer's doc promises, where it holds: a successful call     *)
(* leaves the bits asked for buffered, or everything up to the end of the  *)
(* file, if the request fits the buffer behind the bit offset.             *)
(***************************************************************************)
Delivered(need) ==
    \/ offset + need <= FromBytes(used)
    \/ ByteCount(start) + used >= FileSize

ReturnsFrom(op) == call.op = op /\ call' = Idle

EnsureDelivers ==
    [][(ReturnsFrom("ensure") /\ answer'.ok /\ ~lost
            /\ BitOffset(offset) + call.need <= FromBytes(K))
        => Delivered(call.need)]_vars

(***************************************************************************)
(* Every EnsureBuffer and GetBuffer returns: each read brings bytes, finds *)
(* the end of the file or fails.                                           *)
(***************************************************************************)
CallsReturn == (call # Idle) ~> (call = Idle)

(***************************************************************************)
(* BufferedFileReader implements the unbuffered cursor of FileCursor: the  *)
(* position is start + offset, and what is ahead of it are the used bytes  *)
(* from the byte under it on.  Begin and the reads in between are hidden.  *)
(***************************************************************************)
Cursor == INSTANCE FileCursor WITH
              pos <- Position,
              ahead <- used - ByteCount(offset)

ImplementsCursor == Cursor!CursorSpec
=============================================================================
