\* A file that takes several reads; one fails, and the caller gave no
\* ErrorCollection.
CONSTANTS
    FileSize = 5
    File <- MCFile
    Byte <- MCByte
    ReadSize = 2
    Old <- MCOld
SPECIFICATION FullySpec
INVARIANTS
    NullOnError
\* The call returns once.
CHECK_DEADLOCK FALSE
