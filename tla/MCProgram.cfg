\* A definition file that takes several reads of two bytes, the last of them
\* short, even without short reads before. A binary file longer than the buffer
\* of two bytes and too short for the last fields of three objects, one in the
\* other.
CONSTANTS
    FileSize = 5
    File <- MCFile
    Byte <- MCByte
    ReadSize = 2
    Old <- MCOld
    BinarySize = 5
    Binary <- MCBinary
    K = 2
    Uninit = Uninit
    Types <- MCTypes
    Outer = Outer
    Middle = Middle
    Inner = Inner
    NoType = NoType
    Root = Outer
    Fields <- MCFields
    MaxObjects = 3
SPECIFICATION ProgramSpec
INVARIANTS
    ReadSoFar
    ParsesWholeFile
    FailsWithoutTrace
    SaysWhy
    OutputIsWhole
PROPERTIES
    ProgramEnds
\* The program ends.
CHECK_DEADLOCK FALSE
