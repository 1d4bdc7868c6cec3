------------------------------- MODULE Program -------------------------------
(***************************************************************************)
(* The command line program: main, what it calls in turn, and what it says *)
(* and returns.  The definition file is read by ReadFully, the binary file *)
(* by the objects of FileObjects, which Json walks; each file has a reader *)
(* of its own.  What CreateFromDefinition makes of the text is a choice of *)
(* what DefinitionParser shows that it can be: a parser comes out if there *)
(* is no error in the collection.                                          *)
(*                                                                         *)
(* CreateFromFile takes the FileSystem of its options.  main leaves it the *)
(* default, and the program is checked with any: the readers may stand     *)
(* anywhere when they are opened, and need not know their size.  The place *)
(* of an error begins with the file that it is about.                      *)
(***************************************************************************)
EXTENDS ReadFully, ErrorCollection

CONSTANTS
    BinarySize, Binary,             \* the binary file, of Byte
    K, Uninit,                      \* of BufferedReader
    Types, Root, Fields, NoType,    \* what the definition file defines
    MaxObjects                      \* bound: the objects of the binary file

VARIABLES
    at,             \* where main stands: "arguments", "definition", "file",
                    \* "dump", or "ended"
    returned,       \* by the call that main is in: "nothing" yet, "null" or
                    \* a "value"
    collection,     \* errors
    said,           \* what each of main's loops over errors has written
    status          \* the exit status, or -1 while there is none

VARIABLES binaryPos, binaryError, start, offset, window, used, lost, call,
          answer, objs, pc, cur, result, frames, asks, written, failed

mainVars == <<at, returned, collection, said, status>>
binaryVars ==
    <<binaryPos, binaryError, start, offset, window, used, lost, call, answer,
      objs, pc, cur, result, frames, asks, written, failed>>
programVars == <<mainVars, fullyVars, binaryVars>>

Binaries == INSTANCE Json WITH
    FileSize <- BinarySize, File <- Binary,
    Positions <- {}, Requests <- {}, MaxPos <- 0, MaxMade <- MaxObjects - 1,
    filePos <- binaryPos, ioError <- binaryError, buffer <- window, asked <- asks

\* What Json assumes of its constants: INSTANCE does not bring it along.
ASSUME BinaryAssumption ==
    /\ Binaries!FileAssumption
    /\ Binaries!BufferAssumption
    /\ Binaries!FieldsAssumption
    /\ Binaries!JsonAssumption

Running == -1
Aborted == -2

ProgramInit ==
    /\ FullyInit
    /\ errors
    /\ Binaries!JsonInit
    /\ at = "arguments"
    /\ returned = "nothing"
    /\ collection = NoErrors
    /\ said = <<>>
    /\ status = Running
-----------------------------------------------------------------------------
\* Parse of the command line has the paths and the type, or writes one line to
\* the standard output.  What TCLAP does on its own, for --help, is left out.
ArgumentsGood ==
    /\ at = "arguments"
    /\ at' = "definition"
    /\ UNCHANGED <<returned, collection, said, status, fullyVars, binaryVars>>

FatalError ==
    [place |-> <<>>, level |-> "Error",
     message |-> [text |-> "FATAL ERROR", gaps |-> <<"error", "argument">>]]

ArgumentsBad ==
    /\ at = "arguments"
    /\ at' = "ended"
    /\ said' = <<{FatalError}>>
    /\ status' = 1
    /\ UNCHANGED <<returned, collection, fullyVars, binaryVars>>
-----------------------------------------------------------------------------
Calls(stop) == at = stop /\ returned = "nothing"

\* A call has returned, and added infos to errors.
Returns(value, infos) ==
    /\ returned' = value
    /\ collection' = Add(collection, infos)
    /\ UNCHANGED <<at, said, status>>

CannotOpen(path) == {Error(<<path>>, "CannotOpen", <<path>>)}
IoError(path) == {Error(<<path>>, "IoError", <<"errno">>)}

\* CreateFromFile.
ReadDefinition ==
    /\ Calls("definition")
    /\ Open \/ Seek \/ Read
    /\ UNCHANGED <<mainVars, binaryVars>>

ReadDefinitionFails ==
    /\ Calls("definition")
    /\ \/ OpenFails /\ Returns("null", CannotOpen("definition"))
       \/ (SeekFails \/ ReadFails) /\ Returns("null", IoError("definition"))
    /\ UNCHANGED binaryVars

\* What CreateFromDefinition may add: for the tokens of the file, or for a file
\* without types.
DefinitionErrors ==
    {{Error(<<"definition">>, "NoTypes", <<>>)}} \cup
    SUBSET {OwnMessage(<<"definition", "token">>, "Unknown", "syntax"),
            Error(<<"definition", "token">>, "UnknownType", <<"name">>),
            Warning(<<"definition", "token">>, "ShadowingType", <<"name">>)}

CreateFromDefinition ==
    /\ Calls("definition")
    /\ stage = "parse"
    /\ \E infos \in DefinitionErrors :
          Returns(IF Add(collection, infos).has_error THEN "null" ELSE "value",
                  infos)
    /\ UNCHANGED <<fullyVars, binaryVars>>

\* Nothing catches what stoll throws at a number.
DefinitionThrows ==
    /\ Calls("definition")
    /\ stage = "parse"
    /\ at' = "ended"
    /\ status' = Aborted
    /\ UNCHANGED <<returned, collection, said, fullyVars, binaryVars>>
-----------------------------------------------------------------------------
\* The loop over errors after each of the two calls.
Report(stop) ==
    /\ at = stop
    /\ returned # "nothing"
    /\ said' = Append(said, {Line(info) : info \in collection.errors})
    /\ returned' = "nothing"

ReportNull(stop) ==
    /\ Report(stop)
    /\ returned = "null"
    /\ at' = "ended"
    /\ status' = 1
    /\ UNCHANGED <<collection, fullyVars, binaryVars>>

\* Bug: no errors.clear().
ReportParserUncleared ==
    /\ Report("definition")
    /\ returned = "value"
    /\ at' = "file"
    /\ UNCHANGED <<collection, status, fullyVars, binaryVars>>

ReportParser ==
    /\ Report("definition")
    /\ returned = "value"
    /\ at' = "file"
    /\ collection' = NoErrors
    /\ UNCHANGED <<status, fullyVars, binaryVars>>

\* ParseFile of the parser: the file is opened before the type is looked for.
ParseFileFails ==
    /\ Calls("file")
    /\ Returns("null", CannotOpen("binary")) \/
       Returns("null", {Error(<<"binary">>, "UnknownType", <<"type">>)})
    /\ UNCHANGED <<fullyVars, binaryVars>>

ParseFile ==
    /\ Calls("file")
    /\ Binaries!ParseFile
    /\ IF pc' = "app" THEN Returns("value", {}) ELSE Returns("null", IoError("binary"))
    /\ UNCHANGED <<fullyVars, frames, asks, written, failed>>

\* On to DumpJsonObject.
ReportFile ==
    /\ Report("file")
    /\ returned = "value"
    /\ at' = "dump"
    /\ Binaries!DumpJsonObject
    /\ UNCHANGED <<collection, status, fullyVars>>

Dump ==
    /\ at = "dump"
    /\ Binaries!Walk
    /\ UNCHANGED <<mainVars, fullyVars>>

ReturnZero ==
    /\ at = "dump"
    /\ frames = <<>>
    /\ at' = "ended"
    /\ status' = 0
    /\ UNCHANGED <<returned, collection, said, fullyVars, binaryVars>>

ProgramNext ==
    \/ ArgumentsGood \/ ArgumentsBad
    \/ ReadDefinition \/ ReadDefinitionFails
    \/ CreateFromDefinition \/ DefinitionThrows
    \/ ReportParser \/ ReportNull("definition") \/ ReportNull("file")
    \/ ParseFile \/ ParseFileFails
    \/ ReportFile \/ Dump \/ ReturnZero

\* main goes on, as sequential code does.  A step that fails is taken for
\* granted nowhere but in a dump, where the stream may have failed for good.
ProgramSpec ==
    /\ ProgramInit
    /\ [][ProgramNext]_programVars
    /\ WF_programVars(ArgumentsGood \/ ReadDefinition \/ CreateFromDefinition)
    /\ WF_programVars(ReportParser \/ ReportNull("definition") \/ ReportNull("file"))
    /\ WF_programVars(ParseFile \/ ReportFile \/ Dump \/ ReturnZero)
-----------------------------------------------------------------------------
Errors(lines) == {line \in lines : line.level = "Error"}

(***************************************************************************)
(* The program says why it returns 1: what it has written last is an error *)
(* of the call that returned null, about the file of that call.  Nothing   *)
(* is said twice, and a program that goes on has said no error.            *)
(***************************************************************************)
SaysWhy ==
    /\ status = 1 => Errors(said[Len(said)]) # {}
    /\ \A i \in 1 .. Len(said) :
          /\ Errors(said[i]) # {} => i = Len(said) /\ status = 1
          /\ \A line \in said[i] :
                line = FatalError \/ line.place[1] = <<"definition", "binary">>[i]

(***************************************************************************)
(* A program that returns 0 has written all the fields of the root and of  *)
(* the objects in it, each once and as the file has it, or null where the  *)
(* file ends or has failed; one that returns 1 has written none.           *)
(***************************************************************************)
OutputIsWhole ==
    /\ Binaries!DumpIsFile
    /\ status = 0 => /\ Binaries!DumpIsWhole
                     /\ Binaries!GetFieldNames(1) \subseteq Binaries!WrittenFields
    /\ status \in {1, Aborted} => written = <<>>

(***************************************************************************)
(* The program ends, whatever fails and however short the reads are.       *)
(***************************************************************************)
ProgramEnds == <>(at = "ended")
=============================================================================
