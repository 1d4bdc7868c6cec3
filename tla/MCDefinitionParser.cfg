\* Two types and two members: members of one name in one type or in two, a
\* type used by another one or by itself. Two options: of one member or of
\* two, that set the same or two things, in either order; or one number. Two
\* integers of 16 bits wrap a size of 5.
CONSTANTS
    TypeNames <- MCTypeNames
    MemberNames <- MCMemberNames
    TypeUses <- MCTypeUses
    OptionLists <- MCOptionLists
    Numbers <- MCNumbers
    MaxInt = 20
    MaxReal = 30
    SizeBits = 5
    MaxTypes = 2
    MaxMembers = 2
    MaxOptions = 2
SPECIFICATION ParserSpec
INVARIANTS
    ScopesFollowFile
    AcceptsGoodFiles
    FaultsReported
    FieldsAsWritten
    SizesAsWritten
    RootAsNamed
\* A file ends.
CHECK_DEADLOCK FALSE
