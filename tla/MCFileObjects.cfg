\* A file too short for the last field and longer than the buffer of 2 bytes;
\* four objects, one more than there are in the root, so that a ReparseObject
\* leaves old ones and new ones with the application.
CONSTANTS
    K = 2
    FileSize = 4
    Uninit = Uninit
    Byte <- MCByte
    File <- MCFile
    Positions <- MCPositions
    Requests <- MCRequests
    MaxPos = 0
    Types <- MCTypes
    Outer = Outer
    Middle = Middle
    Inner = Inner
    NoType = NoType
    Root = Outer
    Fields <- MCFields
    MaxObjects = 4
    MaxMade = 2
SPECIFICATION JsonSpec
INVARIANTS
    ObjectsTypeOK
    ValueCorrect
    EofOnlyAtEnd
    NeverReadsLost
    DumpIsFile
PROPERTIES
    CacheOnlyAdds
