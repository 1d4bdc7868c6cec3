\* As MCUtf16.cfg: pairs whose high surrogate has bit 6 set.
CONSTANT
    Strings <- MCStrings
SPECIFICATION StringSpec
INVARIANTS
    EncodesPairs
\* One string per behaviour.
CHECK_DEADLOCK FALSE
