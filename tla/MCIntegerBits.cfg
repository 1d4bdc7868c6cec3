\* As MCIntegerCodec.cfg, for fields that end at any bit.
CONSTANTS
    W = 16
    Inputs <- MCInputs
SPECIFICATION CodecSpec
INVARIANTS
    ReadsEveryField
CHECK_DEADLOCK FALSE
