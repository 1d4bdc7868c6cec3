\* All texts of up to 4 bytes, the longest sequence, and two in which bytes
\* follow or come before one, cut into pieces anywhere.
CONSTANTS
    MaxLen = 4
    Texts <- MCTexts
SPECIFICATION DecoderSpec
INVARIANTS
    DecoderTypeOK
    HeldIsPartial
    AllTaken
    ErrorAtWrongByte
PROPERTIES
    ImplementsText
    DecodeReturns
