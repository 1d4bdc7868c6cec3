--------------------------- MODULE DefinitionParser --------------------------
(***************************************************************************)
(* CreateFromDefinition: the visitor that makes types of a definition file *)
(* (definition_parser.cc), what is made of its result, and the choice of a *)
(* type that ParseFile starts with.                                        *)
(*                                                                         *)
(* The tree is visited as it is written, so that a file that is made up as *)
(* the visitor goes stands for every file.  The lexer and parser before it *)
(* are generated by ANTLR; an error of theirs is in the collection before  *)
(* the visitor starts.  Trees that lack nodes after such an error are left *)
(* out.                                                                    *)
(*                                                                         *)
(* The place of an error is the type, the member of it and the option of   *)
(* that, each counted from 1 and 0 for none, which the token's line and    *)
(* column stand for; <<>> is the file.                                     *)
(***************************************************************************)
EXTENDS OptionSet, ErrorCollection, Sums

CONSTANTS
    TypeNames,      \* the names a file gives to its types
    MemberNames,    \* the names a file gives to members
    TypeUses,       \* the names its members may have as types
    OptionLists,    \* what may stand between < and >
    Numbers,        \* what may stand behind =, but NoNumber
    MaxInt,         \* the highest int64_t
    MaxReal,        \* the highest double
    SizeBits,       \* the bits of a Size
    MaxTypes, MaxMembers, MaxOptions    \* bounds: of one file

\* The lexer's identifiers and numbers are not empty.
ASSUME DefinitionAssumption ==
    /\ "" \notin TypeNames \cup MemberNames \cup TypeUses
    /\ \A list \in OptionLists :
          /\ list \in Seq([name : STRING, value : STRING])
          /\ \A k \in 1 .. Len(list) : list[k].value # ""
    /\ Numbers \subseteq [form : {"plain", "hex", "real"}, digits : Seq(Nat) \ {<<>>}]
    /\ MaxInt \in Nat /\ MaxReal \in Nat /\ MaxInt <= MaxReal
    /\ SizeBits \in Nat /\ 2 ^ SizeBits \in Nat \ {0}
    /\ MaxTypes \in Nat /\ MaxMembers \in Nat /\ MaxOptions \in Nat

VARIABLES
    types,          \* stack_.types_, and *defs, which gets the same
    statements,     \* stack_.statements_: the members of the type visited
    errors,         \* the caller's ErrorCollection
    hadErrors,      \* it had errors before the call
    written,        \* the file as far as it is visited
    stage,          \* "types", "members" of the last of them, "returned", or
                    \* "threw": an exception has left CreateFromDefinition
    parser,         \* a FileParser was returned
    root            \* the type asked of its last ParseFile, and the one found

parserVars ==
    <<types, statements, errors, hadErrors, written, stage, parser, root>>

\* GetBuiltInTypes: size in bits and sign.
BuiltIns ==
    [byte  |-> [size |-> 8,  sign |-> "Unsigned"],
     sbyte |-> [size |-> 8,  sign |-> "Signed"],
     int8  |-> [size |-> 8,  sign |-> "Signed"],
     uint8 |-> [size |-> 8,  sign |-> "Unsigned"],
     int16 |-> [size |-> 16, sign |-> "Signed"],
     uint16 |-> [size |-> 16, sign |-> "Unsigned"],
     int32 |-> [size |-> 32, sign |-> "Signed"],
     uint32 |-> [size |-> 32, sign |-> "Unsigned"],
     int64 |-> [size |-> 64, sign |-> "Signed"],
     uint64 |-> [size |-> 64, sign |-> "Unsigned"]]

IntegerType(name, sign, order) ==
    [name |-> name, size |-> BuiltIns[name].size, sign |-> sign,
     order |-> order, fields |-> <<>>]

\* nullptr, and the static size nullopt.
NoType == [name |-> ""]
NoSize == -1

\* Before any ParseFile.
NoRoot == [asked |-> "nothing", type |-> NoType]

\* Bug: = for +=.
CalculateSizeAssigns(fields) ==
    IF \E i \in 1 .. Len(fields) :
          fields[i].type = NoType \/ fields[i].type.size = NoSize
    THEN NoSize
    ELSE IF fields = <<>> THEN 0 ELSE Last(fields).type.size

\* The sum wraps, and no one looks.
CalculateSize(fields) ==
    IF \E i \in 1 .. Len(fields) :
          fields[i].type = NoType \/ fields[i].type.size = NoSize
    THEN NoSize
    ELSE LET upto[n \in 0 .. Len(fields)] ==
                 IF n = 0 THEN 0
                 ELSE (upto[n - 1] + fields[n].type.size) % 2 ^ SizeBits
         IN  upto[Len(fields)]

Definition(name, fields) ==
    [name |-> name, size |-> CalculateSize(fields), sign |-> "Unset",
     order |-> "Unset", fields |-> fields]

\* The expected value of a field.  A digit is its value, or more than 15 when
\* it is one of another script, which the lexer takes for a digit as well.
NoNumber == [form |-> "none", digits |-> <<>>]
NoExpected == [real |-> FALSE, value |-> -1]

\* Bug: stoll(value).
BaseTen(number) == IF number.form = "hex" THEN 16 ELSE 10

Base(number) ==
    CASE number.form = "hex" -> 16
      [] number.form = "plain" /\ Head(number.digits) = 0 -> 8
      [] OTHER -> 10

\* stoll(value, nullptr, 0) and stod take the digits that they know, and leave
\* what is behind them.
Taken(number) ==
    LET other == {k \in 1 .. Len(number.digits) : number.digits[k] >= Base(number)}
    IN  IF other = {} THEN number.digits
        ELSE SubSeq(number.digits, 1, Min(other) - 1)

ValueOf(digits, base) ==
    LET upto[n \in 0 .. Len(digits)] ==
            IF n = 0 THEN 0 ELSE base * upto[n - 1] + digits[n]
    IN  upto[Len(digits)]

\* They throw when there are none, or too many; the 0 of 0x is one.
Readable(number) ==
    \/ number.form = "none"
    \/ /\ Taken(number) # <<>> \/ number.form = "hex"
       /\ ValueOf(Taken(number), Base(number)) <=
              (IF number.form = "real" THEN MaxReal ELSE MaxInt)

\* visitExpression.
Literal(number) ==
    IF number.form = "none" THEN NoExpected
    ELSE [real |-> number.form = "real",
          value |-> ValueOf(Taken(number), Base(number))]

\* Of the lexer or the parser, and of a call before this one.
SyntaxError == OwnMessage(<<0, 0, 0>>, "Unknown", "syntax")
EarlierError == Error(<<>>, "IoError", <<"errno">>)

ParserInit ==
    /\ types = <<>>
    /\ statements = <<>>
    /\ hadErrors \in BOOLEAN
    /\ \E syntax \in IF hadErrors THEN {{}} ELSE {{}, {SyntaxError}} :
          errors = Add(NoErrors, IF hadErrors THEN {EarlierError} ELSE syntax)
    /\ written = <<>>
    /\ stage = "types"
    /\ parser = FALSE
    /\ root = NoRoot
-----------------------------------------------------------------------------
\* The first of types_ with the name, or else the built-in type.
Defined(name) == \E i \in 1 .. Len(types) : types[i].name = name

GetType(name) ==
    IF Defined(name) THEN types[SelectInSeq(types, LAMBDA t : t.name = name)]
    ELSE IF name \in DOMAIN BuiltIns
         THEN IntegerType(name, BuiltIns[name].sign, "Unset")
         ELSE NoType

FindMember(name) == \E i \in 1 .. Len(statements) : statements[i].name = name

IsInteger(type) == type.name \in DOMAIN BuiltIns /\ ~Defined(type.name)

\* A definition names no option types, and so takes all.
GetOptionTypes(type) == IF IsInteger(type) THEN OptionTypes ELSE {}

\* A definition has no use for the options.
Instantiate(type, options) ==
    IF IsInteger(type)
    THEN IntegerType(type.name, GetOption(options, "Signedness", type.sign),
                     GetOption(options, "ByteOrder", type.order))
    ELSE Definition(type.name, type.fields)

\* visitOption: an option of an unknown name goes on as one without.
Visited(list, k) ==
    [at |-> k, type |-> GetOptionType(list[k].name), value |-> list[k].value]

\* visitOptionList.
OptionsOf(list) ==
    LET upto[n \in 0 .. Len(list)] ==
            IF n = 0 THEN <<>> ELSE AddStatic(upto[n - 1], Visited(list, n))
    IN  upto[Len(list)]

\* The options that AddStatic has left out.
Duplicates(list) ==
    LET set == OptionsOf(list)
    IN  {Flaw(k, "DuplicateOption", <<to_string(GetOptionType(list[k].name))>>) :
            k \in 1 .. Len(list) \ {set[i].at : i \in 1 .. Len(set)}}

\* Bug: a name that is no option's is not an error.
ListFlawsOfDuplicates(list) == Duplicates(list)

ListFlaws(list) ==
    Duplicates(list) \cup
    {Flaw(k, "UnknownOptionType", <<list[k].name>>) :
        k \in {i \in 1 .. Len(list) :
                  list[i].name # "" /\ GetOptionType(list[i].name) = "Unknown"}}

\* visitCompleteType: the options of an unknown type are not visited.
CompleteType(use, list) ==
    LET type == GetType(use)
    IN  IF type = NoType THEN NoType
        ELSE Instantiate(type, BuildStaticOptions(OptionsOf(list),
                                                  GetOptionTypes(type)))

TypeFlaws(use, list) ==
    LET type == GetType(use)
    IN  IF type = NoType THEN {Flaw(0, "UnknownType", <<use>>)}
        ELSE ListFlaws(list) \cup
             BuildFlaws(OptionsOf(list), GetOptionTypes(type))
-----------------------------------------------------------------------------
Current == written[Len(written)]

BeginType(name) ==
    /\ stage = "types"
    /\ Len(written) < MaxTypes
    /\ written' = Append(written, [name |-> name, members |-> <<>>])
    /\ stage' = "members"
    /\ UNCHANGED <<types, statements, errors, hadErrors, parser, root>>

\* A number counts for as many options as a file may have.
Cost(m) == Len(m.options) + (IF m.number = NoNumber THEN 0 ELSE MaxOptions)

\* What a further member can have within the bounds.
Fitting ==
    LET members == Total([i \in 1 .. Len(written) |-> Len(written[i].members)])
        cost == Total([i \in 1 .. Len(written) |->
                    LET seq == written[i].members
                    IN  Total([j \in 1 .. Len(seq) |-> Cost(seq[j])])])
    IN  {m \in [options : OptionLists, number : Numbers \cup {NoNumber}] :
            members < MaxMembers /\ cost + Cost(m) <= MaxOptions}

Token(member, option) == <<Len(written), member, option>>
NextMember == Len(Current.members) + 1

\* The errors that visitCompleteType adds for the next member.
TypeErrors(use, list) ==
    {Error(Token(NextMember, flaw.at), flaw.kind, flaw.args) :
        flaw \in TypeFlaws(use, list)}

\* That of its name, or the warning that it has the name of a type.
NameErrors(name) ==
    IF FindMember(name)
    THEN {Error(Token(NextMember, 0), "ShadowingMember", <<name>>)}
    ELSE IF GetType(name) # NoType \/ name = Current.name
    THEN {Warning(Token(NextMember, 0), "ShadowingType", <<name>>)}
    ELSE {}

Write(use, m, name) ==
    written' = [written EXCEPT ![Len(written)].members =
                   Append(@, [type |-> use, options |-> m.options, name |-> name,
                              number |-> m.number])]

\* visitDataField and the checks of visitTypeDefinition.  The member is entered
\* whatever there is wrong with it.
VisitMember(use, m, name) ==
    /\ stage = "members"
    /\ Readable(m.number)
    /\ Write(use, m, name)
    /\ errors' = Add(errors, TypeErrors(use, m.options) \cup NameErrors(name))
    /\ statements' = Append(statements,
                            [name |-> name, type |-> CompleteType(use, m.options),
                             expected |-> Literal(m.number)])
    /\ UNCHANGED <<types, hadErrors, stage, parser, root>>

\* ParseDefinitionFile catches only what ANTLR throws.  Type and number are
\* arguments of one call, visited in either order.
ThrowNumber(use, m, name) ==
    /\ stage = "members"
    /\ ~Readable(m.number)
    /\ Write(use, m, name)
    /\ errors' \in {errors, Add(errors, TypeErrors(use, m.options))}
    /\ stage' = "threw"
    /\ UNCHANGED <<types, statements, hadErrors, parser, root>>

TypeNameErrors ==
    IF GetType(Current.name) = NoType THEN {}
    ELSE {Error(Token(0, 0), "ShadowingType", <<Current.name>>)}

\* Bug: the members stay for the next type.
EndTypeKeepsMembers ==
    /\ stage = "members"
    /\ errors' = Add(errors, TypeNameErrors)
    /\ types' = Append(types, Definition(Current.name, statements))
    /\ stage' = "types"
    /\ UNCHANGED <<statements, hadErrors, written, parser, root>>

\* The end of visitTypeDefinition and the turn of the loop of visitMain: the
\* type is entered even if its name is taken.
EndType ==
    /\ stage = "members"
    /\ errors' = Add(errors, TypeNameErrors)
    /\ types' = Append(types, Definition(Current.name, statements))
    /\ statements' = <<>>
    /\ stage' = "types"
    /\ UNCHANGED <<hadErrors, written, parser, root>>

\* The end of ParseDefinitionFile and of CreateFromDefinition.
EndFile ==
    /\ stage = "types"
    /\ stage' = "returned"
    /\ parser' = (~errors.has_error /\ types # <<>>)
    /\ errors' = IF ~errors.has_error /\ types = <<>>
                 THEN Add(errors, {Error(<<>>, "NoTypes", <<>>)}) ELSE errors
    /\ UNCHANGED <<types, statements, hadErrors, written, root>>

GetTypeNames == [i \in 1 .. Len(types) |-> types[i].name]

\* Bug: without a name, the first type.
RootTypeFirst(type) ==
    IF type = "" THEN types[1]
    ELSE IF Defined(type) THEN GetType(type)
         ELSE NoType

\* Without a name, the last type of the file.
RootType(type) ==
    IF type = "" THEN types[Len(types)]
    ELSE IF Defined(type) THEN GetType(type)
         ELSE NoType

\* ParseFile, up to the type that is read; any number of times.
ParseFile(type) ==
    /\ parser
    /\ root' = [asked |-> type, type |-> RootType(type)]
    /\ errors' = IF root'.type # NoType THEN errors
                 ELSE Add(errors, {Error(<<>>, "UnknownType", <<type>>)})
    /\ UNCHANGED <<types, statements, hadErrors, written, stage, parser>>

ParserNext ==
    \/ \E name \in TypeNames : BeginType(name)
    \/ /\ stage = "members"
       /\ \E m \in Fitting : \E use \in TypeUses, name \in MemberNames :
             VisitMember(use, m, name) \/ ThrowNumber(use, m, name)
    \/ EndType
    \/ EndFile
    \/ \E type \in {""} \cup TypeNames : ParseFile(type)

ParserSpec == ParserInit /\ [][ParserNext]_parserVars
-----------------------------------------------------------------------------
(***************************************************************************)
(* The scopes of the visitor are those of the file: types_ has its types   *)
(* up to here, statements_ the members of the type that is visited and     *)
(* none of another one's, in spite of all errors.                          *)
(***************************************************************************)
NamesOf(seq) == [i \in 1 .. Len(seq) |-> seq[i].name]

ScopesFollowFile ==
    IF stage = "threw" THEN TRUE
    ELSE IF stage = "members"
    THEN /\ NamesOf(types) = NamesOf(Front(written))
         /\ NamesOf(statements) = NamesOf(Current.members)
    ELSE /\ NamesOf(types) = NamesOf(written)
         /\ statements = <<>>

\* What the file means, apart from how it is visited.
Means(option, t) ==
    /\ option.name = "" \/ GetOptionType(option.name) = t
    /\ option.value \in DOMAIN OptionData[t]

GoodOptions(list) ==
    /\ \A k \in 1 .. Len(list) : \E t \in OptionTypes : Means(list[k], t)
    /\ \A k, l \in 1 .. Len(list) :
          k # l /\ list[k].name # "" /\ list[l].name # ""
              => GetOptionType(list[k].name) # GetOptionType(list[l].name)

DeclaredBefore(i, name) == \E k \in 1 .. i - 1 : written[k].name = name

\* The base that a number is written in, as in C, and what its digits mean in
\* it, where all of them are its digits.
Radix(number) ==
    IF number.form = "hex" THEN 16
    ELSE IF number.form = "plain" /\ number.digits[1] = 0 THEN 8 ELSE 10

Magnitude(number) ==
    LET n == Len(number.digits)
        power[k \in 0 .. n] == IF k = 0 THEN 1 ELSE Radix(number) * power[k - 1]
        upto[k \in 0 .. n] == IF k = 0 THEN 0
                              ELSE upto[k - 1] + number.digits[k] * power[n - k]
    IN  upto[n]

Proper(number) ==
    \A k \in 1 .. Len(number.digits) : number.digits[k] < Radix(number)

GoodMember(i, j) ==
    LET m == written[i].members[j]
    IN  /\ m.type \in DOMAIN BuiltIns \/ DeclaredBefore(i, m.type)
        /\ GoodOptions(m.options)
        /\ \A k \in 1 .. j - 1 : written[i].members[k].name # m.name

GoodTypeName(i) ==
    written[i].name \notin DOMAIN BuiltIns /\ ~DeclaredBefore(i, written[i].name)

GoodFile ==
    /\ written # <<>>
    /\ \A i \in 1 .. Len(written) :
          /\ GoodTypeName(i)
          /\ \A j \in 1 .. Len(written[i].members) : GoodMember(i, j)

(***************************************************************************)
(* A parser comes only out of good files, with distinct types, distinct    *)
(* members, types declared before they are used and options that exist;    *)
(* and out of all of them, if nothing else has put errors into the         *)
(* caller's collection.  An exception leaves CreateFromDefinition instead  *)
(* only at a number that is none or that its type does not hold.           *)
(***************************************************************************)
AcceptsGoodFiles ==
    /\ parser => GoodFile
    /\ (stage = "returned" /\ ~hadErrors /\ SyntaxError \notin errors.errors /\ GoodFile)
           => parser
    /\ stage = "threw" =>
           LET number == Last(Current.members).number
           IN  /\ ~parser
               /\ \/ Head(number.digits) >= Radix(number)
                  \/ Magnitude(number) > MaxInt

(***************************************************************************)
(* What is wrong with a file is reported where it is: a type or a member   *)
(* has an error at its token exactly if something is wrong with it, also   *)
(* behind other errors, and the gaps of its message are filled with what   *)
(* is written there.                                                       *)
(***************************************************************************)
ErrorsAt(i, j) ==
    {e \in errors.errors :
        e.level = "Error" /\ e.place # <<>> /\ SubSeq(e.place, 1, 2) = <<i, j>>}

WordsAt(i, j, k) ==
    CASE j = 0 -> {written[i].name}
      [] j # 0 /\ k = 0 -> {written[i].members[j].name, written[i].members[j].type}
      [] OTHER -> LET option == written[i].members[j].options[k]
                  IN  {option.name, option.value, to_string(GetOptionType(option.name))}

Speaks(i, j) ==
    \A e \in ErrorsAt(i, j) :
        Range(e.message.gaps) \subseteq WordsAt(i, j, e.place[3]) \ {""}

FaultsReported ==
    stage # "threw" =>
        \A i \in 1 .. Len(written) :
            /\ i < Len(written) \/ stage # "members" =>
                   (ErrorsAt(i, 0) = {} <=> GoodTypeName(i))
            /\ Speaks(i, 0)
            /\ \A j \in 1 .. Len(written[i].members) :
                  /\ (ErrorsAt(i, j) = {} <=> GoodMember(i, j))
                  /\ Speaks(i, j)

\* The last option of a list that sets t, or else own.
LastOption(list, t, own) ==
    IF \E k \in 1 .. Len(list) : Means(list[k], t)
    THEN OptionData[t][list[SelectLastInSeq(list, LAMBDA o : Means(o, t))].value]
    ELSE own

(***************************************************************************)
(* The fields of a parser's types are those of the file: integers with the *)
(* sign and order that their options say last, or else the type's own; and *)
(* of a defined type, the fields that this type has been defined with.     *)
(* The value expected of one is the number that is written, in the base of *)
(* its prefix, if all of its digits are of that base.                      *)
(***************************************************************************)
FieldsAsWritten ==
    parser =>
        \A i \in 1 .. Len(written) : \A j \in 1 .. Len(written[i].members) :
            LET m == written[i].members[j]
                f == types[i].fields[j]
            IN  /\ f.name = m.name
                /\ IF m.number = NoNumber THEN f.expected = NoExpected
                   ELSE Proper(m.number) =>
                            f.expected.value = Magnitude(m.number)
                /\ IF m.type \in DOMAIN BuiltIns
                   THEN f.type = IntegerType(m.type,
                            LastOption(m.options, "Signedness",
                                       BuiltIns[m.type].sign),
                            LastOption(m.options, "ByteOrder", "Unset"))
                   ELSE \E k \in 1 .. i - 1 :
                            written[k].name = m.type /\ f.type = types[k]

(***************************************************************************)
(* Every type of a parser has a static size, the bits of all the integers  *)
(* in it: ReadValue and ReparseObject take it without asking whether there *)
(* is one, for every field of every object.  The sum is that of uint64_t,  *)
(* and small where the integers have more bits than that counts.           *)
(***************************************************************************)
SizesAsWritten ==
    LET SizeOf[i \in 1 .. Len(written)] ==
            Total([j \in 1 .. Len(written[i].members) |->
                      LET use == written[i].members[j].type
                      IN  IF use \in DOMAIN BuiltIns THEN BuiltIns[use].size
                          ELSE SizeOf[SelectInSeq(written, LAMBDA t : t.name = use)]])
    IN  parser => \A i \in 1 .. Len(written) : types[i].size = SizeOf[i] % 2 ^ SizeBits

(***************************************************************************)
(* ParseFile starts with the type that the file declares under the name it *)
(* is given, with its members, or with the last of the file when it is     *)
(* given none, which there always is: it takes the end of the definitions  *)
(* without asking.  No type is found only under a name that GetTypeNames   *)
(* does not list, and then the collection has an error, which it had not   *)
(* from the definition.                                                    *)
(***************************************************************************)
RootAsNamed ==
    root # NoRoot =>
        LET declared == {i \in 1 .. Len(written) : written[i].name = root.asked}
        IN  CASE root.asked = "" ->
                    /\ root.type.name = Last(written).name
                    /\ NamesOf(root.type.fields) = NamesOf(Last(written).members)
              [] root.asked # "" /\ declared # {} ->
                    /\ root.type.name = root.asked
                    /\ \E i \in declared :
                          NamesOf(root.type.fields) = NamesOf(written[i].members)
              [] OTHER ->
                    /\ root.type = NoType
                    /\ root.asked \notin Range(GetTypeNames)
                    /\ errors.has_error
=============================================================================
