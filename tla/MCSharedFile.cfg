\* Two windows of 2 bytes over one file of 3.
CONSTANTS
    K = 2
    FileSize = 3
    Uninit = Uninit
    Byte <- MCByte
    File <- MCFile
    Positions = {}
    Requests = {8, 16}
    MaxPos = 0
    Types <- MCTypes
    Outer = Outer
    NoType = NoType
    Root = Outer
    Fields <- MCFields
    MaxObjects = 1
SPECIFICATION SharedSpec
INVARIANTS
    SharedValueCorrect
