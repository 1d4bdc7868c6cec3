\* A buffer of 3 bytes over a file of 4: the window has to move, and a
\* request of 2 bytes and more forces a compaction.  Positions 0, 13 (a bit
\* offset in the second byte) and 35 (past the end) are sought, the others
\* are reached by skips.  31 bits is the largest request the assert of
\* EnsureBuffer allows.
CONSTANTS
    K = 3
    FileSize = 4
    Uninit = Uninit
    Byte <- MCByte
    File <- MCFile
    Positions = {0, 13, 35}
    Requests = {3, 8, 17, 31}
    MaxPos = 40
SPECIFICATION Spec
INVARIANTS
    TypeOK
    OffsetInBuffer
    BufferIsWindow
    ReaderBehindWindow
    GetIsFile
PROPERTIES
    EnsureDelivers
    CallsReturn
    ImplementsCursor
