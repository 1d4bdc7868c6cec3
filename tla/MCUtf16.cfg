\* Strings of up to 3 units: a pair with a unit before or behind it.
CONSTANT
    Strings <- MCStrings
SPECIFICATION StringSpec
INVARIANTS
    EncodesCharacters
    RoundTrip
\* One string per behaviour.
CHECK_DEADLOCK FALSE
