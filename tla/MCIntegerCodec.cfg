\* A word of 16 bits stands for the 64 of the source: it holds fields of one
\* byte, of two bytes and of the whole word, and at a bit offset a third byte.
CONSTANTS
    W = 16
    Inputs <- MCInputs
SPECIFICATION CodecSpec
INVARIANTS
    ReadsMeaning
\* One read per behaviour.
CHECK_DEADLOCK FALSE
