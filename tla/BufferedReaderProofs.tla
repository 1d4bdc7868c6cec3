------------------------ MODULE BufferedReaderProofs ------------------------
(***************************************************************************)
(* Proofs that the window of BufferedReader shows the file, for every file,*)
(* every buffer size and every set of positions and requests.              *)
(*                                                                         *)
(* None of the invariants is inductive alone: a read only appends the next *)
(* bytes of the file because the reader stands behind the window, which a  *)
(* compaction keeps because the offset lies in the buffer.  WindowInv puts *)
(* them together.                                                          *)
(***************************************************************************)
EXTENDS BufferedReader, TLAPS, SequenceTheorems

WindowInv ==
    /\ TypeOK
    /\ OffsetInBuffer
    /\ RoomWhileFilling
    /\ BufferIsWindow
    /\ ReaderBehindWindow
    /\ GetIsFile

-----------------------------------------------------------------------------
\* A position splits into the byte it is in and the bit in that byte.
LEMMA ByteArithmetic ==
  ASSUME NEW p \in Nat
  PROVE  /\ ByteCount(p) \in Nat
         /\ BitOffset(p) \in 0 .. 7
         /\ ClipToByte(p) \in Nat
         /\ p = FromBytes(ByteCount(p)) + BitOffset(p)
         /\ ByteCount(ClipToByte(p)) = ByteCount(p)
         /\ ClipToByte(p) % 8 = 0
BY DEF ByteCount, BitOffset, ClipToByte, FromBytes

\* From a byte boundary, the bytes of an offset add up.
LEMMA AlignedSum ==
  ASSUME NEW s \in Nat, NEW o \in Nat, s % 8 = 0
  PROVE  ByteCount(s + o) = ByteCount(s) + ByteCount(o)
BY DEF ByteCount

\* A sequence written as a function on 1 .. n.
LEMMA SequenceFromFunction ==
  ASSUME NEW S, NEW n \in Nat, NEW f \in [1 .. n -> S]
  PROVE  f \in Seq(S) /\ Len(f) = n
<1>1. f \in Seq(S)
  BY SeqDef
<1>2. Len(f) = n
  BY <1>1
<1> QED BY <1>1, <1>2

\* Every answer the model gives is of the type.
LEMMA AnswerType ==
  ASSUME NEW op \in {"none", "seek", "ensure", "get"}, NEW ok \in BOOLEAN,
         NEW bytes \in Seq(Byte \cup {Uninit})
  PROVE  Answer(op, ok, bytes) \in
           [op : {"none", "seek", "ensure", "get"}, ok : BOOLEAN,
            bytes : Seq(Byte \cup {Uninit})]
BY DEF Answer

-----------------------------------------------------------------------------
\* A window that has just been made, whatever the reader has done before.
LEMMA NewWindowInv ==
  /\ NewWindow /\ filePos \in 0 .. FileSize /\ ioError \in BOOLEAN
  /\ lost \in BOOLEAN /\ (~lost => filePos = 0)
  => WindowInv
<1> SUFFICES ASSUME NewWindow, filePos \in 0 .. FileSize, ioError \in BOOLEAN,
                    lost \in BOOLEAN, ~lost => filePos = 0
             PROVE  WindowInv
  OBVIOUS
<1> USE DEF NewWindow
<1>1. TypeOK
  <2>1. answer \in [op : {"none", "seek", "ensure", "get"}, ok : BOOLEAN,
                     bytes : Seq(Byte \cup {Uninit})]
    <3>1. <<>> \in Seq(Byte \cup {Uninit})
      OBVIOUS
    <3> QED BY <3>1 DEF NoAnswer
  <2>2. buffer \in [0 .. K - 1 -> Byte \cup {Uninit}]
    OBVIOUS
  <2>3. used \in 0 .. K
    BY BufferAssumption
  <2>4. start \in Nat /\ offset \in Nat /\ call \in {Idle}
    OBVIOUS
  <2> QED BY <2>1, <2>2, <2>3, <2>4, Zenon DEF TypeOK, ReaderTypeOK
<1>2. OffsetInBuffer /\ RoomWhileFilling
  BY BufferAssumption DEF OffsetInBuffer, RoomWhileFilling, FromBytes
<1>3. BufferIsWindow
  BY DEF BufferIsWindow
<1>4. ReaderBehindWindow
  BY FileAssumption DEF ReaderBehindWindow, Clamp, ByteCount
<1>5. GetIsFile
  BY DEF GetIsFile, NoAnswer
<1> QED BY <1>1, <1>2, <1>3, <1>4, <1>5 DEF WindowInv

\* The initial state: nothing buffered.
LEMMA InitWindowInv == Init => WindowInv
<1> SUFFICES ASSUME Init PROVE WindowInv
  OBVIOUS
<1>1. NewWindow /\ filePos = 0 /\ ioError = FALSE /\ lost = FALSE
  BY DEF Init, ReaderInit
<1>2. filePos \in 0 .. FileSize
  BY <1>1, FileAssumption
<1>3. ioError \in BOOLEAN /\ lost \in BOOLEAN
  BY <1>1, Zenon
<1> QED BY <1>1, <1>2, <1>3, NewWindowInv

\* Seek and Skip: the window is kept or emptied.
LEMMA SeekKeepsWindowInv ==
  ASSUME WindowInv, NEW p \in Nat, SeekTo(p)
  PROVE  WindowInv'
<1> USE DEF WindowInv
<1>0. TypeOK /\ call = Idle /\ call' = Idle
  BY DEF SeekTo
<1>a. start \in Nat /\ offset \in Nat /\ used \in 0 .. K /\ K \in Nat
  BY <1>0, BufferAssumption DEF TypeOK
<1>b. <<>> \in Seq(Byte \cup {Uninit})
  OBVIOUS
<1>1. CASE SeekInWindow(p)
  <2> USE DEF SeekInWindow, InWindow, Answer
  <2>1. offset' \in Nat /\ offset' < FromBytes(used)
    BY <1>a, <1>1 DEF FromBytes
  <2>2. TypeOK'
    BY <1>0, <1>1, <1>b, <2>1 DEF TypeOK, ReaderTypeOK
  <2>3. OffsetInBuffer'
    BY <1>a, <1>1, <2>1 DEF OffsetInBuffer, FromBytes
  <2>4. RoomWhileFilling' /\ GetIsFile'
    BY <1>0, <1>1 DEF RoomWhileFilling, GetIsFile
  <2>5. BufferIsWindow' /\ ReaderBehindWindow'
    BY <1>1 DEF BufferIsWindow, ReaderBehindWindow, Clamp
  <2> QED BY <2>2, <2>3, <2>4, <2>5
<1>2. ASSUME MoveWindow(p),
             filePos' \in 0 .. FileSize, ioError' \in BOOLEAN,
             lost' \in BOOLEAN, NEW ok \in BOOLEAN,
             answer' = Answer("seek", ok, <<>>),
             ReaderBehindWindow'
      PROVE  WindowInv'
  <2>1. /\ start' = ClipToByte(p) /\ start' \in Nat /\ start' % 8 = 0
        /\ offset' \in 0 .. 7 /\ used' = 0 /\ buffer' = buffer
    BY <1>2, ByteArithmetic DEF MoveWindow
  <2>2. TypeOK'
    <3>1. answer' \in [op : {"none", "seek", "ensure", "get"}, ok : BOOLEAN,
                        bytes : Seq(Byte \cup {Uninit})]
      BY <1>2, <1>b, AnswerType, Zenon
    <3>2. buffer' \in [0 .. K - 1 -> Byte \cup {Uninit}]
      BY <1>0, <2>1 DEF TypeOK
    <3>3. offset' \in Nat /\ used' \in 0 .. K
      BY <1>a, <2>1
    <3> QED BY <1>0, <1>2, <2>1, <3>1, <3>2, <3>3, Zenon
         DEF TypeOK, ReaderTypeOK
  <2>3. OffsetInBuffer'
    BY <1>a, <2>1 DEF OffsetInBuffer, FromBytes
  <2>4. RoomWhileFilling' /\ GetIsFile'
    BY <1>0, <1>2 DEF RoomWhileFilling, GetIsFile, Answer
  <2>5. BufferIsWindow'
    BY <2>1 DEF BufferIsWindow
  <2> QED BY <1>2, <2>2, <2>3, <2>4, <2>5
<1>b1. ByteCount(p) \in Nat /\ ByteCount(ClipToByte(p)) = ByteCount(p)
  BY ByteArithmetic
<1>3. CASE SeekReader(p)
  <2>1. filePos' = Clamp(ByteCount(p)) /\ ioError' = ioError
    BY <1>3 DEF SeekReader, ReaderSeek
  <2>2. filePos' \in 0 .. FileSize /\ ioError' \in BOOLEAN
    BY <1>0, <1>b1, <2>1, FileAssumption DEF TypeOK, ReaderTypeOK, Clamp
  <2>3. ReaderBehindWindow'
    BY <1>3, <1>b1, <2>1 DEF SeekReader, MoveWindow, ReaderBehindWindow, Clamp
  <2> QED BY <1>2, <1>3, <2>2, <2>3, Zenon DEF SeekReader
<1>4. CASE SeekFails(p)
  <2>1. filePos' \in 0 .. FileSize /\ ioError' \in BOOLEAN
    BY <1>0, <1>4
    DEF TypeOK, ReaderTypeOK, SeekFails, ReaderSeekFails, readerVars
  <2>2. ReaderBehindWindow'
    BY <1>4 DEF SeekFails, ReaderBehindWindow
  <2> QED BY <1>2, <1>4, <2>1, <2>2, Zenon DEF SeekFails
<1> QED BY <1>1, <1>3, <1>4 DEF SeekTo

\* The start of EnsureBuffer and GetBuffer: a compaction keeps the window.
LEMMA BeginKeepsWindowInv ==
  ASSUME WindowInv, NEW op \in {"ensure", "get"},
         NEW need \in Nat \ {0}, op = "get" => need = 1,
         Begin(op, need)
  PROVE  WindowInv'
<1> USE DEF WindowInv
<1>0. /\ TypeOK /\ OffsetInBuffer
      /\ answer' = NoAnswer /\ call' = [op |-> op, need |-> need]
      /\ filePos' = filePos /\ ioError' = ioError /\ lost' = lost
  BY DEF Begin
<1>a. /\ start \in Nat /\ offset \in Nat /\ used \in 0 .. K /\ K \in Nat \ {0}
      /\ buffer \in [0 .. K - 1 -> Byte \cup {Uninit}]
  BY <1>0, BufferAssumption DEF TypeOK
<1>b. ASSUME start' \in Nat, offset' \in Nat, used' \in 0 .. K,
             buffer' \in [0 .. K - 1 -> Byte \cup {Uninit}]
      PROVE  TypeOK' /\ GetIsFile'
  <2>1. call' \in [op : {"ensure", "get"}, need : Nat \ {0}]
    BY <1>0, <1>a
  <2>2. answer' \in [op : {"none", "seek", "ensure", "get"}, ok : BOOLEAN,
                      bytes : Seq(Byte \cup {Uninit})]
    <3>1. <<>> \in Seq(Byte \cup {Uninit})
      OBVIOUS
    <3> QED BY <1>0, <3>1 DEF NoAnswer
  <2>3. TypeOK'
    BY <1>0, <1>b, <2>1, <2>2, Zenon DEF TypeOK, ReaderTypeOK
  <2>4. GetIsFile'
    BY <1>0 DEF GetIsFile, NoAnswer
  <2> QED BY <2>3, <2>4
<1>1. CASE offset + need > FromBytes(K)
  <2> DEFINE count == ByteCount(offset)
  <2>1. /\ buffer' = [i \in 0 .. K - 1 |->
                        IF i < K - count THEN buffer[i + count] ELSE buffer[i]]
        /\ used' = used - count
        /\ start' = start + FromBytes(count)
        /\ offset' = BitOffset(offset)
    BY <1>1 DEF Begin, MakeRoom, Compact
  <2>2. count \in 0 .. used /\ offset' \in 0 .. 7
    BY <1>0, <1>a, <2>1 DEF OffsetInBuffer, FromBytes, ByteCount, BitOffset
  <2> HIDE DEF count
  <2>3. /\ start' \in Nat /\ start' % 8 = 0
        /\ ByteCount(start') = ByteCount(start) + count
    BY <1>0, <1>a, <2>1, <2>2 DEF OffsetInBuffer, FromBytes, ByteCount
  <2>4. /\ used' \in 0 .. used /\ used' \in 0 .. K
        /\ buffer' \in [0 .. K - 1 -> Byte \cup {Uninit}]
        /\ \A i \in 0 .. used' - 1 : i + count \in 0 .. used - 1
                                      /\ buffer'[i] = buffer[i + count]
    <3>1. used' \in 0 .. used /\ used' \in 0 .. K
      BY <1>a, <2>1, <2>2
    <3>2. \A i \in 0 .. K - 1 : i < K - count => i + count \in 0 .. K - 1
      BY <1>a, <2>2
    <3>3. buffer' \in [0 .. K - 1 -> Byte \cup {Uninit}]
      BY <1>a, <2>1, <3>2
    <3>4. \A i \in 0 .. used' - 1 : /\ i \in 0 .. K - 1 /\ i < K - count
                                    /\ i + count \in 0 .. used - 1
      BY <1>a, <2>1, <2>2
    <3> QED BY <2>1, <3>1, <3>3, <3>4
  <2>5. OffsetInBuffer'
    BY <1>a, <2>1, <2>2, <2>3 DEF OffsetInBuffer, FromBytes
  <2>6. RoomWhileFilling'
    BY <1>0, <2>2 DEF RoomWhileFilling
  <2>7. BufferIsWindow'
    <3> SUFFICES ASSUME ~lost', NEW i \in 0 .. used' - 1
                 PROVE  /\ ByteCount(start') + i < FileSize
                        /\ buffer'[i] = File[ByteCount(start') + i]
      BY DEF BufferIsWindow
    <3>1. i + count \in 0 .. used - 1 /\ buffer'[i] = buffer[i + count]
      BY <2>4
    <3>2. /\ ByteCount(start) + (i + count) < FileSize
          /\ buffer[i + count] = File[ByteCount(start) + (i + count)]
      BY <1>0, <3>1 DEF BufferIsWindow
    <3>3. ByteCount(start) + (i + count) = ByteCount(start') + i
      <4>1. ByteCount(start) \in Nat
        BY <1>a, ByteArithmetic
      <4>2. i \in Int /\ count \in Int
        BY <1>a, <2>1, <2>2
      <4> QED BY <2>3, <4>1, <4>2
    <3> QED BY <3>1, <3>2, <3>3
  <2>8. ReaderBehindWindow'
    <3>1. ByteCount(start') + used' = ByteCount(start) + used
      BY <1>a, <2>1, <2>2, <2>3 DEF ByteCount
    <3> QED BY <1>0, <3>1 DEF ReaderBehindWindow, Clamp
  <2>9. TypeOK' /\ GetIsFile'
    BY <1>a, <1>b, <2>2, <2>3, <2>4
  <2> QED BY <2>5, <2>6, <2>7, <2>8, <2>9
<1>2. CASE ~(offset + need > FromBytes(K))
  <2>1. start' = start /\ offset' = offset /\ buffer' = buffer /\ used' = used
    BY <1>2 DEF Begin, MakeRoom, windowVars
  <2>2. TypeOK' /\ GetIsFile'
    BY <1>a, <1>b, <2>1
  <2>3. RoomWhileFilling'
    BY <1>0, <1>2, <1>a, <2>1 DEF RoomWhileFilling, FromBytes
  <2>4. OffsetInBuffer' /\ BufferIsWindow' /\ ReaderBehindWindow'
    BY <1>0, <2>1
    DEF OffsetInBuffer, BufferIsWindow, ReaderBehindWindow, Clamp
  <2> QED BY <2>2, <2>3, <2>4
<1> QED BY <1>1, <1>2

\* The loop: what a read brings is the next part of the file.
LEMMA ReceivedBytes ==
  ASSUME WindowInv, NEW n \in 0 .. K - used, filePos + n <= FileSize
  PROVE  /\ Received(n) \in [0 .. K - 1 -> Byte \cup {Uninit}]
         /\ \A i \in 0 .. used - 1 : Received(n)[i] = buffer[i]
         /\ \A i \in used .. used + n - 1 :
                Received(n)[i] = File[filePos + (i - used)]
<1>1. /\ used \in 0 .. K /\ K \in Nat \ {0} /\ filePos \in 0 .. FileSize
      /\ FileSize \in Nat /\ File \in [0 .. FileSize - 1 -> Byte]
      /\ buffer \in [0 .. K - 1 -> Byte \cup {Uninit}]
  BY BufferAssumption, FileAssumption DEF WindowInv, TypeOK, ReaderTypeOK
<1>2. \A i \in used .. used + n - 1 : filePos + (i - used) \in 0 .. FileSize - 1
  BY <1>1
<1>3. \A i \in used .. used + n - 1 : File[filePos + (i - used)] \in Byte
  BY <1>1, <1>2
<1>4. /\ \A i \in 0 .. used - 1 : i \in 0 .. K - 1 /\ i \notin used .. used + n - 1
      /\ \A i \in used .. used + n - 1 : i \in 0 .. K - 1
  BY <1>1
<1> QED BY <1>1, <1>3, <1>4 DEF Received

\* A read appends the bytes behind the window, as many as there is room for.
LEMMA FillReadKeepsWindowInv ==
  ASSUME WindowInv, FillRead
  PROVE  WindowInv'
<1> USE DEF WindowInv
<1>0. /\ TypeOK /\ OffsetInBuffer /\ ~ioError
      /\ start' = start /\ offset' = offset /\ lost' = lost
      /\ call' = call /\ answer' = answer /\ ioError' = ioError
  BY DEF FillRead, ReaderRead
<1>a. /\ start \in Nat /\ offset \in Nat /\ used \in 0 .. K /\ K \in Nat \ {0}
      /\ FileSize \in Nat /\ filePos \in 0 .. FileSize
  BY <1>0, BufferAssumption, FileAssumption DEF TypeOK, ReaderTypeOK
<1>1. PICK n \in 1 .. K - used :
         /\ ReaderRead(K - used, n)
         /\ buffer' = Received(n)
         /\ used' = used + n
  BY DEF FillRead
<1>2. /\ filePos' = filePos + n /\ filePos' \in 0 .. FileSize
      /\ used' \in 0 .. K /\ n \in 0 .. K - used
  BY <1>a, <1>1 DEF ReaderRead, Available
<1>3. /\ buffer' \in [0 .. K - 1 -> Byte \cup {Uninit}]
      /\ \A i \in 0 .. used - 1 : buffer'[i] = buffer[i]
      /\ \A i \in used .. used + n - 1 : buffer'[i] = File[filePos + (i - used)]
  <2>1. n \in 0 .. K - used /\ filePos + n <= FileSize
    BY <1>a, <1>2
  <2>2. /\ Received(n) \in [0 .. K - 1 -> Byte \cup {Uninit}]
        /\ \A i \in 0 .. used - 1 : Received(n)[i] = buffer[i]
        /\ \A i \in used .. used + n - 1 :
               Received(n)[i] = File[filePos + (i - used)]
    BY <2>1, ReceivedBytes, Zenon
  <2> QED BY <1>1, <2>2, Zenon
<1>4. TypeOK'
  BY <1>0, <1>2, <1>3, Zenon DEF TypeOK, ReaderTypeOK
<1>5. OffsetInBuffer'
  BY <1>0, <1>a, <1>1 DEF OffsetInBuffer, FromBytes
<1>6. RoomWhileFilling' /\ GetIsFile'
  BY <1>0 DEF RoomWhileFilling, GetIsFile, Position
<1>b. ByteCount(start) \in Nat
  BY <1>a, ByteArithmetic
<1>c. ~lost => filePos = ByteCount(start) + used
  BY <1>0, <1>a, <1>b, <1>1, <1>2 DEF ReaderBehindWindow, Clamp
<1>7. BufferIsWindow'
  <2> SUFFICES ASSUME ~lost, NEW i \in 0 .. used' - 1
               PROVE  /\ ByteCount(start) + i < FileSize
                      /\ buffer'[i] = File[ByteCount(start) + i]
    BY <1>0 DEF BufferIsWindow
  <2>1. CASE i \in 0 .. used - 1
    BY <1>3, <2>1 DEF BufferIsWindow
  <2>2. CASE i \in used .. used + n - 1
    <3>1. filePos + (i - used) = ByteCount(start) + i
      BY <1>a, <1>b, <1>c
    <3> QED BY <1>a, <1>b, <1>2, <1>3, <2>2, <3>1
  <2> QED BY <1>a, <1>1, <2>1, <2>2
<1>8. ReaderBehindWindow'
  BY <1>0, <1>a, <1>b, <1>c, <1>1, <1>2 DEF ReaderBehindWindow, Clamp
<1> QED BY <1>4, <1>5, <1>6, <1>7, <1>8

\* What GetBuffer hands out is a sequence of buffer bytes.
LEMMA BufferedBytes ==
  ASSUME TypeOK, OffsetInBuffer
  PROVE  /\ Buffered \in Seq(Byte \cup {Uninit})
         /\ used - ByteCount(offset) \in Nat
         /\ Len(Buffered) = used - ByteCount(offset)
         /\ \A i \in 1 .. used - ByteCount(offset) :
                /\ Buffered[i] = buffer[ByteCount(offset) + i - 1]
                /\ ByteCount(offset) + i - 1 \in 0 .. used - 1
<1>1. /\ offset \in Nat /\ used \in 0 .. K /\ K \in Nat
      /\ buffer \in [0 .. K - 1 -> Byte \cup {Uninit}]
  BY BufferAssumption DEF TypeOK
<1>2. ByteCount(offset) \in Nat /\ used - ByteCount(offset) \in Nat
  BY <1>1 DEF OffsetInBuffer, ByteCount, FromBytes
<1> DEFINE n == used - ByteCount(offset)
<1>3. \A i \in 1 .. n : /\ ByteCount(offset) + i - 1 \in 0 .. used - 1
                        /\ ByteCount(offset) + i - 1 \in 0 .. K - 1
  BY <1>1, <1>2
<1>4. Buffered \in [1 .. n -> Byte \cup {Uninit}]
  BY <1>1, <1>3 DEF Buffered
<1>5. Buffered \in Seq(Byte \cup {Uninit}) /\ Len(Buffered) = n
  BY <1>2, <1>4, SequenceFromFunction
<1> QED BY <1>2, <1>3, <1>5 DEF Buffered

\* The answer of a call that leaves the window as it is: its type, and for
\* GetBuffer that it is the file from the position on.
LEMMA ReturnTypeOK ==
  ASSUME TypeOK, OffsetInBuffer, call # Idle, NEW ok \in BOOLEAN, Return(ok)
  PROVE  /\ answer' \in [op : {"none", "seek", "ensure", "get"}, ok : BOOLEAN,
                          bytes : Seq(Byte \cup {Uninit})]
         /\ call' \in {Idle}
         /\ answer'.op = call.op /\ answer'.ok = ok
         /\ (ok /\ call.op = "get") => answer'.bytes = Buffered
<1> DEFINE bytes == IF ok /\ call.op = "get" THEN Buffered ELSE <<>>
<1>1. call.op \in {"none", "seek", "ensure", "get"}
  BY DEF TypeOK
<1>2. bytes \in Seq(Byte \cup {Uninit})
  <2>1. <<>> \in Seq(Byte \cup {Uninit})
    OBVIOUS
  <2> QED BY <2>1, BufferedBytes
<1>3. answer' = Answer(call.op, ok, bytes) /\ call' = Idle
  BY DEF Return
<1>4. answer'.op = call.op /\ answer'.ok = ok /\ answer'.bytes = bytes
  BY <1>3 DEF Answer
<1>5. answer' \in [op : {"none", "seek", "ensure", "get"}, ok : BOOLEAN,
                   bytes : Seq(Byte \cup {Uninit})]
  <2> HIDE DEF bytes
  <2> QED BY <1>1, <1>2, <1>3, AnswerType
<1> QED BY <1>3, <1>4, <1>5

\* What is in the buffer behind the offset is the file from the position on.
LEMMA GetIsFileFromWindow ==
  ASSUME TypeOK, OffsetInBuffer, BufferIsWindow, ~lost, lost' = lost,
         start' = start, offset' = offset, answer'.bytes = Buffered,
         used = ByteCount(offset) => ByteCount(start) + used >= FileSize
  PROVE  GetIsFile'
<1> DEFINE n == used - ByteCount(offset)
           from == ByteCount(Position)
<1>1. /\ start \in Nat /\ offset \in Nat /\ used \in Nat /\ FileSize \in Nat
      /\ start % 8 = 0
  BY BufferAssumption, FileAssumption DEF TypeOK, OffsetInBuffer
<1>2. /\ from = ByteCount(start) + ByteCount(offset)
      /\ ByteCount(start) \in Nat /\ ByteCount(offset) \in Nat
  BY <1>1, AlignedSum, ByteArithmetic DEF Position
<1>3. n \in Nat /\ Len(answer'.bytes) = n /\ from' = from
  BY BufferedBytes DEF Position, ByteCount
<1>4. n = 0 => from >= FileSize
  BY <1>1, <1>2
<1>5. n > 0 => from + n <= FileSize
  <2> SUFFICES ASSUME n > 0 PROVE from + n <= FileSize
    OBVIOUS
  <2>1. used - 1 \in 0 .. used - 1
    BY <1>1, <1>2
  <2>2. ByteCount(start) + (used - 1) < FileSize
    BY <2>1 DEF BufferIsWindow
  <2> QED BY <1>1, <1>2, <2>2
<1>6. Buffered = FileBytes(from, n)
  <2>1. ASSUME NEW i \in 1 .. n
        PROVE  Buffered[i] = File[from + i - 1]
    <3>1. /\ Buffered[i] = buffer[ByteCount(offset) + i - 1]
          /\ ByteCount(offset) + i - 1 \in 0 .. used - 1
      BY BufferedBytes
    <3>2. buffer[ByteCount(offset) + i - 1]
            = File[ByteCount(start) + (ByteCount(offset) + i - 1)]
      BY <3>1 DEF BufferIsWindow
    <3>3. ByteCount(start) + (ByteCount(offset) + i - 1) = from + i - 1
      BY <1>2, <1>3
    <3> QED BY <3>1, <3>2, <3>3
  <2>2. Buffered = [i \in 1 .. n |-> Buffered[i]]
    BY DEF Buffered
  <2> QED BY <2>1, <2>2 DEF FileBytes
<1> QED BY <1>3, <1>4, <1>5, <1>6 DEF GetIsFile

\* The end of the file, or a full buffer, ends the loop.
LEMMA FillEofKeepsWindowInv ==
  ASSUME WindowInv, FillEof
  PROVE  WindowInv'
<1> USE DEF WindowInv
<1>0. /\ TypeOK /\ OffsetInBuffer /\ call # Idle /\ Return(TRUE)
      /\ start' = start /\ offset' = offset /\ lost' = lost
      /\ buffer' = buffer /\ used' = used
      /\ filePos' = filePos /\ ioError' = ioError /\ ~ioError
      /\ used = K \/ filePos = FileSize
      /\ offset + call.need > FromBytes(used)
  <2>1. filePos \in 0 .. FileSize /\ FileSize \in Nat /\ used \in 0 .. K /\ K \in Nat
    BY BufferAssumption, FileAssumption DEF TypeOK, ReaderTypeOK
  <2>2. ReaderRead(K - used, 0) /\ Short
    BY DEF FillEof
  <2>3. filePos' = filePos /\ Available(K - used) = 0
    BY <2>1, <2>2 DEF ReaderRead
  <2>4. used = K \/ filePos = FileSize
    BY <2>1, <2>3 DEF Available
  <2>5. offset + call.need > FromBytes(used) /\ ~ioError /\ ioError' = ioError
    BY <2>2 DEF Short, ReaderRead
  <2> QED BY <2>3, <2>4, <2>5 DEF FillEof
<1>1. TypeOK'
  BY <1>0, ReturnTypeOK, Zenon DEF TypeOK, ReaderTypeOK
<1>2. OffsetInBuffer' /\ BufferIsWindow' /\ ReaderBehindWindow'
  BY <1>0 DEF OffsetInBuffer, BufferIsWindow, ReaderBehindWindow, Clamp
<1>3. RoomWhileFilling'
  BY <1>0 DEF RoomWhileFilling, Return
<1>4. GetIsFile'
  <2>1. CASE call.op # "get" \/ lost
    BY <1>0, <2>1, ReturnTypeOK DEF GetIsFile
  <2>2. CASE call.op = "get" /\ ~lost
    <3>1. /\ start \in Nat /\ offset \in Nat /\ used \in 0 .. K /\ K \in Nat \ {0}
          /\ FileSize \in Nat /\ filePos \in 0 .. FileSize
      BY <1>0, BufferAssumption, FileAssumption DEF TypeOK, ReaderTypeOK
    <3>2. ByteCount(start) \in Nat
      BY <3>1, ByteArithmetic
    <3>3. CASE filePos = FileSize
      <4>1. ByteCount(start) + used >= FileSize
        BY <1>0, <2>2, <3>1, <3>2, <3>3 DEF ReaderBehindWindow, Clamp
      <4> QED BY <1>0, <2>2, <4>1, ReturnTypeOK, GetIsFileFromWindow
    <3>4. CASE used = K
      <4>1. call.need = 1 /\ (offset + 1 <= FromBytes(K) \/ offset < 8)
        BY <1>0, <2>2 DEF RoomWhileFilling
      <4> QED BY <1>0, <3>1, <3>4, <4>1 DEF FromBytes
    <3> QED BY <1>0, <3>3, <3>4
  <2> QED BY <2>1, <2>2
<1> QED BY <1>1, <1>2, <1>3, <1>4

\* A read that fails leaves the used part of the buffer alone.
LEMMA FillFailsKeepsWindowInv ==
  ASSUME WindowInv, FillFails
  PROVE  WindowInv'
<1> USE DEF WindowInv
<1>0. /\ TypeOK /\ OffsetInBuffer /\ call # Idle /\ Return(FALSE)
      /\ start' = start /\ offset' = offset /\ lost' = lost /\ used' = used
  BY DEF FillFails
<1>1. PICK n \in 0 .. K - used :
         ReaderReadFails(K - used, n) /\ buffer' = Received(n)
  BY DEF FillFails
<1>2. /\ filePos' = filePos + n /\ ioError' = TRUE
      /\ filePos + n \in 0 .. FileSize
  BY <1>0, <1>1, BufferAssumption, FileAssumption
  DEF ReaderReadFails, Available, TypeOK, ReaderTypeOK
<1>3. /\ buffer' \in [0 .. K - 1 -> Byte \cup {Uninit}]
      /\ \A i \in 0 .. used - 1 : buffer'[i] = buffer[i]
  <2>1. filePos + n <= FileSize
    BY <1>2, FileAssumption
  <2> QED BY <1>1, <2>1, ReceivedBytes
<1>4. TypeOK'
  BY <1>0, <1>2, <1>3, ReturnTypeOK, Zenon DEF TypeOK, ReaderTypeOK
<1>5. OffsetInBuffer' /\ BufferIsWindow' /\ ReaderBehindWindow'
  BY <1>0, <1>2, <1>3 DEF OffsetInBuffer, BufferIsWindow, ReaderBehindWindow
<1>6. RoomWhileFilling' /\ GetIsFile'
  BY <1>0, ReturnTypeOK DEF RoomWhileFilling, Return, GetIsFile
<1> QED BY <1>4, <1>5, <1>6

\* A call that has enough returns from the window.
LEMMA FillDoneKeepsWindowInv ==
  ASSUME WindowInv, FillDone
  PROVE  WindowInv'
<1> USE DEF WindowInv
<1>0. /\ TypeOK /\ OffsetInBuffer /\ call # Idle /\ Return(TRUE) /\ ~Short
      /\ start' = start /\ offset' = offset /\ lost' = lost
      /\ buffer' = buffer /\ used' = used
      /\ filePos' = filePos /\ ioError' = ioError
  BY DEF FillDone
<1>1. TypeOK'
  BY <1>0, ReturnTypeOK, Zenon DEF TypeOK, ReaderTypeOK
<1>2. OffsetInBuffer' /\ BufferIsWindow' /\ ReaderBehindWindow'
  BY <1>0 DEF OffsetInBuffer, BufferIsWindow, ReaderBehindWindow, Clamp
<1>3. RoomWhileFilling'
  BY <1>0 DEF RoomWhileFilling, Return
<1>4. GetIsFile'
  <2>1. CASE call.op # "get" \/ lost
    BY <1>0, <2>1, ReturnTypeOK DEF GetIsFile
  <2>2. CASE call.op = "get" /\ ~lost
    <3>1. call.need = 1
      BY <1>0, <2>2 DEF RoomWhileFilling
    <3>2. used # ByteCount(offset)
      BY <1>0, <3>1 DEF Short, FromBytes, ByteCount, TypeOK
    <3> QED BY <1>0, <2>2, <3>2, ReturnTypeOK, GetIsFileFromWindow
  <2> QED BY <2>1, <2>2
<1> QED BY <1>1, <1>2, <1>3, <1>4

-----------------------------------------------------------------------------
\* Every step of the client or of the loop keeps the invariant.
LEMMA NextKeepsWindowInv == WindowInv /\ [Next]_vars => WindowInv'
<1> SUFFICES ASSUME WindowInv, [Next]_vars PROVE WindowInv'
  OBVIOUS
<1>0. TypeOK
  BY DEF WindowInv
<1>1. CASE Seek
  <2>1. PICK p \in Positions : SeekTo(p)
    BY <1>1 DEF Seek
  <2> QED BY <2>1, SeekKeepsWindowInv, BufferAssumption
<1>2. CASE Skip
  <2>1. PICK count \in Requests : SeekTo(Position + count)
    BY <1>2 DEF Skip
  <2>2. Position + count \in Nat
    BY <1>0, BufferAssumption DEF Position, TypeOK, FromBytes
  <2> QED BY <2>1, <2>2, SeekKeepsWindowInv
<1>3. CASE EnsureBuffer
  <2>1. PICK need \in Requests : Begin("ensure", need)
    BY <1>3 DEF EnsureBuffer
  <2>2. need \in Nat \ {0}
    BY BufferAssumption DEF FromBytes
  <2> QED BY <2>1, <2>2, BeginKeepsWindowInv
<1>4. CASE GetBuffer
  BY <1>4, BeginKeepsWindowInv DEF GetBuffer
<1>5. CASE Fill
  BY <1>5, FillReadKeepsWindowInv, FillEofKeepsWindowInv,
     FillFailsKeepsWindowInv, FillDoneKeepsWindowInv DEF Fill
<1>6. CASE UNCHANGED vars
  BY <1>6 DEF vars, WindowInv, TypeOK, ReaderTypeOK, OffsetInBuffer,
     RoomWhileFilling, BufferIsWindow, ReaderBehindWindow, GetIsFile,
     Position, Clamp
<1> QED BY <1>1, <1>2, <1>3, <1>4, <1>5, <1>6 DEF Next

\* The window invariant holds in every reachable state.
LEMMA WindowInvariant == Spec => []WindowInv
<1>1. Init => WindowInv
  BY InitWindowInv
<1>2. WindowInv /\ [Next]_vars => WindowInv'
  BY NextKeepsWindowInv
<1> QED BY <1>1, <1>2, PTL DEF Spec

\* Every reachable state is of the declared types: used never wraps below 0
\* and never passes the buffer, the reader never passes the end of the file.
THEOREM TypeCorrect == Spec => []TypeOK
BY WindowInvariant, PTL DEF WindowInv

\* The asserts of EnsureBuffer hold in every state.
THEOREM AssertsHold == Spec => []OffsetInBuffer
BY WindowInvariant, PTL DEF WindowInv

\* The used bytes are the bytes of the file at the window's start, for any
\* sequence of seeks, skips, short and failed reads and compactions.
THEOREM WindowShowsFile == Spec => []BufferIsWindow
BY WindowInvariant, PTL DEF WindowInv

\* What GetBuffer returns is the file at the read position, and nothing only
\* at its end.
THEOREM GetBufferCorrect == Spec => []GetIsFile
BY WindowInvariant, PTL DEF WindowInv

\* Unless a seek or a read has failed, the reader stands right behind the
\* window: what the next read brings continues what is there.
THEOREM ReadsContinue == Spec => []ReaderBehindWindow
BY WindowInvariant, PTL DEF WindowInv

-----------------------------------------------------------------------------
\* Where the loop ends without an error: the request is met, or nothing more
\* can be had of the file, or the buffer is full.
LEMMA LoopEnds ==
  ASSUME WindowInv, FillEof \/ FillDone
  PROVE  \/ offset + call.need <= FromBytes(used)
         \/ ~lost => ByteCount(start) + used >= FileSize
         \/ BitOffset(offset) + call.need > FromBytes(K)
<1>1. /\ start \in Nat /\ offset \in Nat /\ used \in 0 .. K /\ K \in Nat \ {0}
      /\ FileSize \in Nat /\ filePos \in 0 .. FileSize /\ call # Idle
      /\ call.need \in Nat
  <2>1. TypeOK /\ call # Idle
    BY DEF WindowInv, FillEof, FillDone
  <2> QED BY <2>1, BufferAssumption, FileAssumption DEF TypeOK, ReaderTypeOK
<1>2. CASE FillDone
  BY <1>1, <1>2 DEF FillDone, Short, FromBytes
<1>3. CASE FillEof
  <2>1. ~ioError /\ Available(K - used) = 0
    BY <1>1, <1>3 DEF FillEof, ReaderRead
  <2>2. CASE filePos = FileSize
    <3>1. ByteCount(start) \in Nat
      BY <1>1, ByteArithmetic
    <3> QED BY <1>1, <2>1, <2>2, <3>1 DEF WindowInv, ReaderBehindWindow, Clamp
  <2>3. CASE used = K
    <3>1. offset + call.need <= FromBytes(K) \/ offset < 8
      BY <1>1 DEF WindowInv, RoomWhileFilling
    <3>2. offset < 8 => BitOffset(offset) = offset
      BY <1>1 DEF BitOffset
    <3> QED BY <1>1, <2>3, <3>1, <3>2 DEF FromBytes
  <2> QED BY <1>1, <2>1, <2>2, <2>3 DEF Available
<1> QED BY <1>2, <1>3

\* What the doc of EnsureBuffer promises: after a call that succeeds the bits
\* are buffered, or all there are, if the request fits the buffer at all.
THEOREM EnsureBufferDelivers == Spec => EnsureDelivers
<1>1. ASSUME WindowInv, Next, ReturnsFrom("ensure"), answer'.ok, ~lost,
             BitOffset(offset) + call.need <= FromBytes(K)
      PROVE  Delivered(call.need)
  <2>1. call # Idle /\ call' = Idle /\ call.op = "ensure"
    BY <1>1 DEF ReturnsFrom, Idle
  <2>2. ~(Seek \/ Skip \/ EnsureBuffer \/ GetBuffer)
    BY <2>1 DEF Seek, Skip, SeekTo, EnsureBuffer, GetBuffer, Begin
  <2>3. ~FillRead
    BY <2>1 DEF FillRead
  <2>4. ~FillFails
    BY <1>1 DEF FillFails, Return, Answer
  <2>5. FillEof \/ FillDone
    BY <1>1, <2>2, <2>3, <2>4 DEF Next, Fill
  <2>6. call.need \in Nat /\ offset \in Nat /\ K \in Nat
    BY <1>1, <2>1, BufferAssumption DEF WindowInv, TypeOK
  <2>7. ~(BitOffset(offset) + call.need > FromBytes(K))
    BY <1>1, <2>6 DEF BitOffset, FromBytes
  <2> QED BY <1>1, <2>5, <2>7, LoopEnds DEF Delivered
<1>2. WindowInv /\ [Next]_vars =>
        [(ReturnsFrom("ensure") /\ answer'.ok /\ ~lost
             /\ BitOffset(offset) + call.need <= FromBytes(K))
         => Delivered(call.need)]_vars
  BY <1>1
<1> QED BY <1>2, WindowInvariant, PTL DEF Spec, EnsureDelivers

-----------------------------------------------------------------------------
(***************************************************************************)
(* The refinement of FileCursor.  The cursor's position does not change    *)
(* but by a seek, since a compaction moves start and offset by the same    *)
(* bytes, and what is ahead of it grows with every read.                   *)
(***************************************************************************)

\* The cursor of the window: its position, and the bytes ahead of it.
LEMMA CursorOfWindow ==
  ASSUME WindowInv
  PROVE  /\ start \in Nat /\ offset \in Nat /\ used \in Nat
         /\ K \in Nat \ {0} /\ used <= K /\ FileSize \in Nat
         /\ start % 8 = 0 /\ offset <= FromBytes(used) + 7
         /\ ByteCount(start) \in Nat /\ ByteCount(offset) \in Nat
         /\ ByteCount(Position) = ByteCount(start) + ByteCount(offset)
         /\ BitOffset(Position) = BitOffset(offset)
         /\ used - ByteCount(offset) \in 0 .. used
<1>1. /\ start \in Nat /\ offset \in Nat /\ used \in Nat /\ used <= K
      /\ K \in Nat \ {0} /\ FileSize \in Nat
  BY BufferAssumption, FileAssumption DEF WindowInv, TypeOK
<1>2. start % 8 = 0 /\ offset <= FromBytes(used) + 7
  BY DEF WindowInv, OffsetInBuffer
<1>3. ByteCount(start) \in Nat /\ ByteCount(offset) \in Nat
  BY <1>1, ByteArithmetic
<1>4. ByteCount(Position) = ByteCount(start) + ByteCount(offset)
  BY <1>1, <1>2, AlignedSum DEF Position
<1>5. BitOffset(Position) = BitOffset(offset)
  BY <1>1, <1>2 DEF Position, BitOffset
<1>6. used - ByteCount(offset) \in 0 .. used
  BY <1>1, <1>2 DEF ByteCount, FromBytes
<1> QED BY <1>1, <1>2, <1>3, <1>4, <1>5, <1>6

\* EnsureBuffer is called with one of the requests.
CallRequested == call.op = "ensure" => call.need \in Requests

\* Every call in progress asks for a number of bits that was requested.
LEMMA NextKeepsCallRequested == CallRequested /\ [Next]_vars => CallRequested'
<1> SUFFICES ASSUME CallRequested, [Next]_vars PROVE CallRequested'
  OBVIOUS
<1>1. CASE Seek \/ Skip \/ UNCHANGED vars
  BY <1>1 DEF CallRequested, Seek, Skip, SeekTo, vars
<1>2. CASE EnsureBuffer \/ GetBuffer
  BY <1>2 DEF CallRequested, EnsureBuffer, GetBuffer, Begin
<1>3. CASE FillRead
  BY <1>3 DEF CallRequested, FillRead
<1>4. CASE FillEof \/ FillFails \/ FillDone
  <2>1. call' = Idle
    BY <1>4 DEF FillEof, FillFails, FillDone, Return
  <2> QED BY <2>1 DEF CallRequested, Idle
<1> QED BY <1>1, <1>2, <1>3, <1>4 DEF Next, Fill

\* Seek and Skip are moves of the cursor.
LEMMA SeekIsMove ==
  ASSUME WindowInv, WindowInv', NEW p \in Nat, SeekTo(p)
  PROVE  Cursor!Move(p)
<1>1. /\ start \in Nat /\ offset \in Nat /\ used \in 0 .. K /\ K \in Nat \ {0}
      /\ start % 8 = 0 /\ used \in Nat
  BY BufferAssumption DEF WindowInv, TypeOK, OffsetInBuffer
<1> USE DEF Cursor!Move, Cursor!Answers, Cursor!WithinFile, Cursor!ByteCount,
            Position, Answer
<1>2. CASE SeekInWindow(p)
  <2>1. /\ start' = start /\ used' = used /\ lost' = lost /\ offset' = p - start
        /\ answer' = Answer("seek", TRUE, <<>>)
    BY <1>2 DEF SeekInWindow
  <2>2. offset' \in Nat /\ offset' < FromBytes(used) /\ Position' = p
    BY <1>1, <1>2, <2>1 DEF SeekInWindow, InWindow, FromBytes
  <2>3. /\ used - ByteCount(offset') \in 0 .. used
        /\ ByteCount(p) + (used - ByteCount(offset')) = ByteCount(start) + used
        /\ ByteCount(start) \in Nat
    <3>1. offset' <= FromBytes(used) + 7
      BY <1>1, <2>2 DEF FromBytes
    <3>2. start + offset' = p
      BY <2>1, <2>2
    <3>3. ByteCount(start) \in Nat /\ ByteCount(offset') \in Nat
      BY <1>1, <2>2, ByteArithmetic
    <3>4. ByteCount(p) = ByteCount(start) + ByteCount(offset')
      BY <1>1, <2>2, <3>2, AlignedSum
    <3>5. used - ByteCount(offset') \in 0 .. used
      <4> DEFINE o == offset'
      <4>1. o \in Nat /\ o < 8 * used /\ used \in Nat
        BY <1>1, <2>2 DEF FromBytes
      <4> HIDE DEF o
      <4>2. used - (o \div 8) \in 0 .. used
        BY ONLY <4>1
      <4> QED BY <4>2 DEF o, ByteCount
    <3> QED BY <1>1, <3>3, <3>4, <3>5
  <2>4. ~lost => ByteCount(start) + used <= FileSize
    <3>1. used - 1 \in 0 .. used - 1
      BY <1>1, <2>2 DEF FromBytes
    <3> QED BY <1>1, <2>3, <3>1, FileAssumption DEF WindowInv, BufferIsWindow
  <2>5. (used - ByteCount(offset))' \in 0 .. K
    BY <1>1, <2>1, <2>3
  <2>6. ~lost' => Cursor!WithinFile(p, (used - ByteCount(offset))')
    BY <2>1, <2>3, <2>4 DEF ByteCount
  <2> QED BY <2>1, <2>2, <2>5, <2>6
<1>3. CASE SeekReader(p) \/ SeekFails(p)
  <2>1. start' = ClipToByte(p) /\ offset' = BitOffset(p) /\ used' = 0
    BY <1>3 DEF SeekReader, SeekFails, MoveWindow
  <2>2. Position' = p /\ (used - ByteCount(offset))' = 0
    BY <2>1 DEF ClipToByte, BitOffset, ByteCount
  <2>4. (used - ByteCount(offset))' \in 0 .. K
    BY <1>1, <2>2
  <2>3. \/ answer' = Answer("seek", TRUE, <<>>) /\ lost' = FALSE
        \/ answer' = Answer("seek", FALSE, <<>>) /\ lost' = TRUE
    BY <1>3 DEF SeekReader, SeekFails
  <2>5. Cursor!WithinFile(p, (used - ByteCount(offset))')
    BY <2>2
  <2> QED BY <2>2, <2>3, <2>4, <2>5
<1> QED BY <1>2, <1>3 DEF SeekTo

\* The start of a call only drops what is behind the cursor.
LEMMA BeginStays ==
  ASSUME WindowInv, NEW op, NEW need, Begin(op, need)
  PROVE  Position' = Position /\ (used - ByteCount(offset))' = used - ByteCount(offset)
<1>1. start \in Nat /\ offset \in Nat /\ used \in Nat
  BY CursorOfWindow
<1>2. CASE Compact
  <2>1. /\ used' = used - ByteCount(offset)
        /\ start' = start + FromBytes(ByteCount(offset))
        /\ offset' = BitOffset(offset)
    BY <1>2 DEF Compact
  <2>2. /\ offset = FromBytes(ByteCount(offset)) + BitOffset(offset)
        /\ ByteCount(BitOffset(offset)) = 0
        /\ ByteCount(offset) \in Nat /\ BitOffset(offset) \in Nat
    BY <1>1 DEF FromBytes, ByteCount, BitOffset
  <2>3. FromBytes(ByteCount(offset)) \in Nat
    BY <2>2 DEF FromBytes
  <2>4. Position' = Position
    BY <1>1, <2>1, <2>2, <2>3 DEF Position
  <2>5. ByteCount(offset)' = 0
    BY <2>1, <2>2
  <2> QED BY <1>1, <2>1, <2>2, <2>4, <2>5
<1>3. CASE UNCHANGED windowVars
  BY <1>3 DEF windowVars, Position
<1> QED BY <1>2, <1>3 DEF Begin, MakeRoom

\* A call that begins takes back the last answer, and the cursor stays.
LEMMA BeginIsCall ==
  ASSUME WindowInv, NEW op, NEW need, Begin(op, need)
  PROVE  Cursor!Call
<1>1. answer' = NoAnswer /\ lost' = lost
  BY DEF Begin
<1> QED BY <1>1, BeginStays DEF Cursor!Call, Cursor!Answers, NoAnswer

\* A read of the loop puts more ahead of the cursor.
LEMMA FillReadIsPrefetch ==
  ASSUME WindowInv, WindowInv', FillRead
  PROVE  Cursor!Prefetch
<1>1. used' \in Nat /\ used' <= K
  <2>1. used' \in 0 .. K
    BY DEF WindowInv, TypeOK
  <2> QED BY <2>1, BufferAssumption
<1>a. used \in Nat
  BY CursorOfWindow
<1>2. /\ start' = start /\ offset' = offset /\ lost' = lost /\ answer' = answer
  BY DEF FillRead
<1>3. used' > used
  <2>1. PICK n \in 1 .. K - used : used' = used + n
    BY DEF FillRead
  <2> QED BY <1>a, <2>1
<1>4. /\ used - ByteCount(offset) \in 0 .. used
      /\ ByteCount(start) \in Nat /\ ByteCount(offset) \in Nat
      /\ ByteCount(Position) = ByteCount(start) + ByteCount(offset)
      /\ FileSize \in Nat /\ K \in Nat
  BY CursorOfWindow
<1>5. Position' = Position /\ ByteCount(offset)' = ByteCount(offset)
  BY <1>2 DEF Position
<1>6. ~lost => ByteCount(start) + used' <= FileSize
  <2>1. used' \in Nat /\ used' >= 1
    BY <1>1, <1>a, <1>3
  <2>2. BufferIsWindow'
    BY DEF WindowInv
  <2>3. ~lost => ByteCount(start) + (used' - 1) < FileSize
    <3> DEFINE u == used'
    <3> HIDE DEF u
    <3>1. u - 1 \in 0 .. u - 1
      <4>1. u \in Nat /\ u >= 1
        BY <2>1 DEF u
      <4> QED BY ONLY <4>1
    <3> QED BY <1>2, <2>2, <3>1 DEF BufferIsWindow, u
  <2> QED BY <1>1, <1>4, <2>1, <2>3
<1>7. (used - ByteCount(offset))' \in used - ByteCount(offset) .. K
  BY <1>1, <1>a, <1>3, <1>4, <1>5
<1>8. ~lost => ByteCount(Position) + (used - ByteCount(offset))' <= FileSize
  BY <1>1, <1>4, <1>5, <1>6
<1> QED
  BY <1>2, <1>5, <1>7, <1>8
  DEF Cursor!Prefetch, Cursor!WithinFile, Cursor!ByteCount, ByteCount

\* The end of the loop is what the client sees of the call.
LEMMA ReturnIsAnswer ==
  ASSUME WindowInv, WindowInv', FillEof \/ FillFails \/ FillDone
  PROVE  \/ call.op = "ensure" /\ Cursor!Ensure(call.need)
         \/ call.op = "get" /\ Cursor!Get
         \/ call.op \in {"ensure", "get"} /\ Cursor!Fail(call.op)
<1> DEFINE ahead == used - ByteCount(offset)
<1>1. /\ start \in Nat /\ offset \in Nat /\ used \in Nat /\ used <= K
      /\ K \in Nat \ {0} /\ FileSize \in Nat /\ offset <= FromBytes(used) + 7
  BY CursorOfWindow
<1>2. /\ start' = start /\ offset' = offset /\ used' = used /\ lost' = lost
      /\ call # Idle /\ call' = Idle
      /\ answer'.op = call.op
  BY DEF FillEof, FillFails, FillDone, Return, Answer
<1>3. /\ ByteCount(Position) = ByteCount(start) + ByteCount(offset)
      /\ BitOffset(Position) = BitOffset(offset)
      /\ ByteCount(Position) + ahead = ByteCount(start) + used
      /\ ahead \in 0 .. K /\ ByteCount(offset) \in Nat
  <2>1. /\ ByteCount(Position) = ByteCount(start) + ByteCount(offset)
        /\ BitOffset(Position) = BitOffset(offset)
        /\ ByteCount(start) \in Nat /\ ByteCount(offset) \in Nat
        /\ ahead \in 0 .. used
    BY CursorOfWindow
  <2> QED BY <1>1, <2>1
<1>4. Position' = Position /\ ahead' = ahead
  BY <1>2 DEF Position
<1>5. call.op \in {"ensure", "get"} /\ call.need \in Nat
  BY <1>2 DEF WindowInv, TypeOK
<1>6. CASE FillFails
  <2>1. answer' = [op |-> call.op, ok |-> FALSE, bytes |-> <<>>]
    BY <1>6 DEF FillFails, Return, Answer
  <2>2. Cursor!Fail(call.op)
    BY <1>2, <1>4, <2>1 DEF Cursor!Fail, Cursor!Answers
  <2> QED BY <1>5, <2>2
<1>7. CASE (FillEof \/ FillDone) /\ call.op = "ensure"
  <2>1. answer' = [op |-> "ensure", ok |-> TRUE, bytes |-> <<>>]
    BY <1>7 DEF FillEof, FillDone, Return, Answer
  <2>2. \/ BitOffset(Position) + call.need <= FromBytes(ahead)
        \/ ByteCount(Position) + ahead >= FileSize
        \/ BitOffset(Position) + call.need > FromBytes(K)
        \/ lost
    <3>1. CASE offset + call.need <= FromBytes(used)
      <4>1. BitOffset(offset) + call.need <= FromBytes(ahead)
        BY <1>1, <1>5, <3>1 DEF FromBytes, ByteCount, BitOffset
      <4> QED BY <1>3, <4>1
    <3> QED BY <1>3, <1>7, <3>1, LoopEnds
  <2>3. Cursor!Ensure(call.need)
    BY <1>2, <1>4, <2>1, <2>2
    DEF Cursor!Ensure, Cursor!Answers, Cursor!BitOffset, Cursor!ByteCount,
        Cursor!FromBytes, BitOffset, ByteCount, FromBytes
  <2> QED BY <1>7, <2>3
<1>8. CASE (FillEof \/ FillDone) /\ call.op = "get"
  <2>1. answer'.op = "get" /\ answer'.ok /\ answer'.bytes = Buffered
    BY <1>8 DEF FillEof, FillDone, Return, Answer
  <2>2. Len(answer'.bytes) = ahead
    BY <2>1, BufferedBytes DEF WindowInv
  <2>3. ~lost => /\ ahead = 0 => ByteCount(Position) >= FileSize
                 /\ ahead > 0 => answer'.bytes = FileBytes(ByteCount(Position), ahead)
    <3>1. GetIsFile' /\ ByteCount(Position)' = ByteCount(Position)
      BY <1>4 DEF WindowInv
    <3> QED BY <1>2, <2>1, <2>2, <3>1 DEF GetIsFile
  <2>4. ~lost => \A i \in 1 .. ahead :
                    answer'.bytes[i] = File[ByteCount(Position) + i - 1]
    BY <1>3, <2>3 DEF FileBytes
  <2>5. Cursor!Get
    BY <1>2, <1>4, <2>1, <2>2, <2>3, <2>4 DEF Cursor!Get, Cursor!ByteCount, ByteCount
  <2> QED BY <1>8, <2>5
<1> QED BY <1>5, <1>6, <1>7, <1>8

\* BufferedFileReader is the cursor of FileCursor to its clients: for every
\* file, every buffer and all short and failed reads below it.
THEOREM ReaderImplementsCursor == Spec => ImplementsCursor
<1>1. Init => Cursor!CursorInit
  BY DEF Init, NewWindow, NoAnswer, Position, ByteCount, Cursor!CursorInit
<1>2. ASSUME WindowInv, WindowInv', CallRequested, [Next]_vars
      PROVE  [Cursor!CursorNext]_(Cursor!cursorVars)
  <2> USE DEF Cursor!CursorNext
  <2>1. CASE Seek
    <3>1. PICK p \in Positions : SeekTo(p)
      BY <2>1 DEF Seek
    <3>2. Cursor!Move(p)
      BY <1>2, <3>1, SeekIsMove, BufferAssumption
    <3> QED BY <3>2
  <2>2. CASE Skip
    <3>1. PICK count \in Requests : SeekTo(Position + count)
      BY <2>2 DEF Skip
    <3>2. Position + count \in Nat
      BY <1>2, BufferAssumption DEF WindowInv, Position, TypeOK, FromBytes
    <3>3. Cursor!Move(Position + count)
      BY <1>2, <3>1, <3>2, SeekIsMove
    <3> QED BY <3>3
  <2>3. CASE EnsureBuffer \/ GetBuffer
    BY <1>2, <2>3, BeginIsCall DEF EnsureBuffer, GetBuffer
  <2>4. CASE FillRead
    BY <1>2, <2>4, FillReadIsPrefetch
  <2>5. CASE FillEof \/ FillFails \/ FillDone
    BY <1>2, <2>5, ReturnIsAnswer DEF CallRequested
  <2>6. CASE UNCHANGED vars
    BY <2>6 DEF vars, Position, Cursor!cursorVars
  <2> QED BY <1>2, <2>1, <2>2, <2>3, <2>4, <2>5, <2>6 DEF Next, Fill
<1>3. Init => CallRequested
  BY DEF Init, NewWindow, Idle, CallRequested
<1>4. Spec => []CallRequested
  BY <1>3, NextKeepsCallRequested, PTL DEF Spec
<1> QED BY <1>1, <1>2, <1>4, WindowInvariant, PTL
    DEF Spec, ImplementsCursor, Cursor!CursorSpec
=============================================================================
