\* Integers of 6 bits, doubles exact in 3: integers of which two or three
\* round to one double, and doubles with a fraction, beyond the integers, in
\* the range of one integer type only.
CONSTANTS
    W = 6
    Mantissa = 3
    MaxExponent = 5
    Strings <- MCStrings
    Objects <- MCObjects
SPECIFICATION ValueSpec
INVARIANTS
    IntegersByValue
    ComparesUpToRounding
    LessIsOrder
    OneRelation
    ConversionsClamp
