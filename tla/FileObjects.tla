---------------------------- MODULE FileObjects -----------------------------
(***************************************************************************)
(* FileObject and what it calls: the lazily parsed fields of the objects   *)
(* of one file.  A field is read when first asked for and cached; a field  *)
(* of a defined type is itself an object.  All objects of one ParseFile    *)
(* read through the same BufferedFileReader, so that each call starts from *)
(* wherever the last one, of any object, has left the reader.              *)
(*                                                                         *)
(* The application calls one object at a time.  Seek and Skip are part of  *)
(* the step of their caller, EnsureBuffer and GetBuffer take the steps of  *)
(* BufferedReader's loop, and the call in progress waits for them at pc.   *)
(* The value of an integer field is the bytes it is decoded from; how they *)
(* become a number is IntegerCodec.                                        *)
(***************************************************************************)
EXTENDS BufferedReader

CONSTANTS
    Types,      \* the TypeDefinitions of the definition file
    Root,       \* the one ParseFile is called with
    Fields,     \* the fields of each: a sequence of records [object, size],
                \* object the defined type of the field or NoType if it is an
                \* integer, size its static size in bytes
    NoType,
    MaxObjects  \* bound: the objects made by one ParseFile

\* FieldOffset(t, i): where field i of type t starts, the sum of the sizes before.
FieldOffset(t, i) ==
    LET upto[n \in 1 .. Len(Fields[t]) + 1] ==
            IF n = 1 THEN 0 ELSE upto[n - 1] + Fields[t][n - 1].size
    IN  upto[i]

\* CalculateSize: the static size of a definition.
CalculateSize(t) == FieldOffset(t, Len(Fields[t]) + 1)

ASSUME FieldsAssumption ==
    /\ Root \in Types
    /\ NoType \notin Types
    /\ MaxObjects \in Nat \ {0}
    /\ Fields \in [Types -> Seq([object : Types \cup {NoType}, size : Nat])]
    /\ \A t \in Types : \A i \in 1 .. Len(Fields[t]) :
          LET f == Fields[t][i]
          IN  /\ f.object \in Types => f.size = CalculateSize(f.object)
              /\ f.object = NoType => f.size \in 1 .. K

VARIABLES
    objs,       \* the objects made so far, the root first
    pc,         \* where the call in progress stands
    cur,        \* the field it is for: the object's index and the field's
    result      \* what the last GetFieldValue returned

objectVars == <<objs, pc, cur, result>>
readerAll == <<filePos, ioError, start, offset, buffer, used, lost, call, answer>>
allVars == <<readerAll, objectVars>>

NoValue == [bytes |-> <<>>, object |-> 0]
BytesValue(bytes) == [bytes |-> bytes, object |-> 0]
ObjectValue(o) == [bytes |-> <<>>, object |-> o]
NoField == [obj |-> 0, field |-> 0]
NoResult == [of |-> NoField, error |-> "none", value |-> NoValue]

\* ReparseObject: the fields of the definition laid out from the start.
Layout(t, at) ==
    [i \in 1 .. Len(Fields[t]) |->
        [offset |-> at + FromBytes(FieldOffset(t, i)), value |-> NoValue]]

Object(t, at) == [type |-> t, start |-> at, fields |-> Layout(t, at)]

Info(f) == Fields[objs[f.obj].type][f.field]
Parsed(f) == objs[f.obj].fields[f.field]

\* The FileReader the application passes may stand anywhere in the file.
ObjectsInit ==
    /\ filePos \in 0 .. FileSize
    /\ ioError = FALSE
    /\ NewWindow
    /\ lost = (filePos # 0)
    /\ objs = <<>>
    /\ pc = "unparsed"
    /\ cur = NoField
    /\ result = NoResult
-----------------------------------------------------------------------------
(***************************************************************************)
(* ParseFile: a new reader, and TypeDefinition::ReadValue of the root at   *)
(* its position, which ends by seeking past the object.                    *)
(***************************************************************************)
ParseFile ==
    /\ pc = "unparsed"
    /\ SeekTo(Position + FromBytes(CalculateSize(Root)))
    /\ IF answer'.ok
       THEN objs' = <<Object(Root, Position)>> /\ pc' = "app"
       ELSE objs' = <<>> /\ pc' = "failed"
    /\ UNCHANGED <<cur, result>>

\* The application drops the objects, if it got any, and parses the same
\* FileReader again.
Reopen ==
    /\ pc \in {"app", "failed"}
    /\ start' = 0
    /\ offset' = 0
    /\ buffer' = [i \in 0 .. K - 1 |-> Uninit]
    /\ used' = 0
    /\ lost' = (filePos # 0)
    /\ call' = Idle
    /\ answer' = NoAnswer
    /\ UNCHANGED readerVars
    /\ objs' = <<>>
    /\ pc' = "unparsed"
    /\ result' = NoResult
    /\ UNCHANGED cur
-----------------------------------------------------------------------------
\* A call in progress returns an error, and nothing it did is kept.
Fail(f, error) ==
    /\ pc' = "app"
    /\ cur' = NoField
    /\ result' = [of |-> f, error |-> error, value |-> NoValue]
    /\ UNCHANGED objs

\* EnsureField succeeds: the value is cached and returned; made are the
\* objects ReadValue made for it.
Keep(f, value, made) ==
    /\ pc' = "app"
    /\ cur' = NoField
    /\ result' = [of |-> f, error |-> "none", value |-> value]
    /\ objs' = [objs EXCEPT ![f.obj].fields[f.field].value = value] \o made

\* GetFieldNames: the fields of an object, in the order of an unordered_map.
GetFieldNames(o) == {[obj |-> o, field |-> i] : i \in 1 .. Len(objs[o].fields)}

AllFields == UNION {GetFieldNames(o) : o \in 1 .. Len(objs)}

\* The object of a field of a defined type must be makeable within bounds.
Bounded(f) == Info(f).object = NoType \/ Len(objs) < MaxObjects

\* GetFieldValue of a name the object has no field for: null, no error.
GetUnknown ==
    /\ pc = "app"
    /\ objs # <<>>
    /\ result' = NoResult
    /\ UNCHANGED <<readerAll, objs, pc, cur>>

\* GetFieldValue of a field that is cached.
GetCached(f) ==
    /\ pc = "app"
    /\ Parsed(f).value # NoValue
    /\ result' = [of |-> f, error |-> "none", value |-> Parsed(f).value]
    /\ UNCHANGED <<readerAll, objs, pc, cur>>

\* Bug: fields are taken to be asked for in order, and there is no seek.
EnsureFieldInOrder(f) ==
    /\ pc = "app"
    /\ Parsed(f).value = NoValue
    /\ Bounded(f)
    /\ cur' = f
    /\ pc' = "read"
    /\ result' = NoResult
    /\ UNCHANGED <<readerAll, objs>>

\* Bug: the result of Seek is not looked at.
EnsureFieldUnchecked(f) ==
    /\ pc = "app"
    /\ Parsed(f).value = NoValue
    /\ Bounded(f)
    /\ SeekTo(Parsed(f).offset)
    /\ cur' = f
    /\ pc' = "read"
    /\ result' = NoResult
    /\ UNCHANGED objs

\* GetFieldValue of one that is not: EnsureField seeks to it.
EnsureField(f) ==
    /\ pc = "app"
    /\ Parsed(f).value = NoValue
    /\ Bounded(f)
    /\ SeekTo(Parsed(f).offset)
    /\ IF answer'.ok
       THEN /\ pc' = "read"
            /\ cur' = f
            /\ result' = NoResult
            /\ UNCHANGED objs
       ELSE Fail(f, "io")

\* Bug: only the first bit of the field is buffered.
ReadIntegerFirstBit ==
    /\ pc = "read"
    /\ Info(cur).object = NoType
    /\ Begin("ensure", 1)
    /\ pc' = "ensure"
    /\ UNCHANGED <<objs, cur, result>>

\* IntegerTypeInfo::ReadValue up to EnsureBuffer.
ReadInteger ==
    /\ pc = "read"
    /\ Info(cur).object = NoType
    /\ Begin("ensure", FromBytes(Info(cur).size))
    /\ pc' = "ensure"
    /\ UNCHANGED <<objs, cur, result>>

\* EnsureBuffer has returned: on to GetBuffer.
Ensured ==
    /\ pc = "ensure"
    /\ call = Idle
    /\ IF answer.ok
       THEN /\ Begin("get", 1)
            /\ pc' = "get"
            /\ UNCHANGED <<objs, cur, result>>
       ELSE Fail(cur, "io") /\ UNCHANGED readerAll

\* Bug: the value goes straight into the cache, before the Skip.
GotIntoCache ==
    /\ pc = "get"
    /\ call = Idle
    /\ IF ~answer.ok
       THEN Fail(cur, "io") /\ UNCHANGED readerAll
       ELSE IF Len(answer.bytes) < Info(cur).size
       THEN Fail(cur, "eof") /\ UNCHANGED readerAll
       ELSE /\ SeekTo(Position + FromBytes(Info(cur).size))
            /\ objs' = [objs EXCEPT ![cur.obj].fields[cur.field].value =
                           BytesValue(SubSeq(answer.bytes, 1, Info(cur).size))]
            /\ result' = [of |-> cur, value |-> NoValue,
                          error |-> IF answer'.ok THEN "none" ELSE "io"]
            /\ pc' = "app"
            /\ cur' = NoField

\* GetBuffer has returned: the value is taken from it and skipped.
Got ==
    /\ pc = "get"
    /\ call = Idle
    /\ IF ~answer.ok
       THEN Fail(cur, "io") /\ UNCHANGED readerAll
       ELSE IF Len(answer.bytes) < Info(cur).size
       THEN Fail(cur, "eof") /\ UNCHANGED readerAll
       ELSE /\ SeekTo(Position + FromBytes(Info(cur).size))
            /\ IF answer'.ok
               THEN Keep(cur, BytesValue(SubSeq(answer.bytes, 1, Info(cur).size)),
                         <<>>)
               ELSE Fail(cur, "io")

\* Bug: the object is not kept by its parent's value.
ReadObjectDropped ==
    /\ pc = "read"
    /\ Info(cur).object # NoType
    /\ SeekTo(Position + FromBytes(CalculateSize(Info(cur).object)))
    /\ IF answer'.ok
       THEN Keep(cur, ObjectValue(Len(objs) + 1), <<>>)
       ELSE Fail(cur, "io")

\* TypeDefinition::ReadValue: an object at the position, and a seek past it.
ReadObject ==
    /\ pc = "read"
    /\ Info(cur).object # NoType
    /\ SeekTo(Position + FromBytes(CalculateSize(Info(cur).object)))
    /\ IF answer'.ok
       THEN Keep(cur, ObjectValue(Len(objs) + 1),
                 <<Object(Info(cur).object, Position)>>)
       ELSE Fail(cur, "io")

\* The reader's loop, on behalf of the call in progress.
Loop == Fill /\ UNCHANGED objectVars
-----------------------------------------------------------------------------
ClearCache ==
    /\ pc = "app"
    /\ \E o \in 1 .. Len(objs) :
          objs' = [objs EXCEPT ![o].fields =
                      [i \in DOMAIN @ |-> [@[i] EXCEPT !.value = NoValue]]]
    /\ result' = NoResult
    /\ UNCHANGED <<readerAll, pc, cur>>

ReparseObject ==
    /\ pc = "app"
    /\ \E o \in 1 .. Len(objs) :
          objs' = [objs EXCEPT ![o].fields = Layout(objs[o].type, objs[o].start)]
    /\ result' = NoResult
    /\ UNCHANGED <<readerAll, pc, cur>>

Continue == ReadInteger \/ Ensured \/ Got \/ ReadObject \/ Loop

ObjectsNext ==
    \/ ParseFile
    \/ Reopen
    \/ GetUnknown
    \/ \E f \in AllFields : GetCached(f) \/ EnsureField(f)
    \/ Continue
    \/ ClearCache
    \/ ReparseObject

ObjectsSpec == ObjectsInit /\ [][ObjectsNext]_allVars
-----------------------------------------------------------------------------
ValueType == [bytes : Seq(Byte \cup {Uninit}), object : 0 .. Len(objs)]

ObjectsTypeOK ==
    /\ TypeOK
    /\ Len(objs) <= MaxObjects
    /\ \A o \in 1 .. Len(objs) :
          /\ objs[o].type \in Types
          /\ objs[o].start \in Nat
          /\ objs[o].fields \in Seq([offset : Nat, value : ValueType])
          /\ Len(objs[o].fields) = Len(Fields[objs[o].type])
    /\ pc \in {"unparsed", "failed", "app", "read", "ensure", "get"}
    /\ cur \in AllFields \cup {NoField}
    /\ (cur = NoField) = (pc \in {"unparsed", "failed", "app"})
    /\ result.value \in ValueType

\* Where field f lies in the file, in bytes.
From(f) == ByteCount(Parsed(f).offset)
To(f) == From(f) + Info(f).size

(***************************************************************************)
(* Every value held by a field is the one the file has there: the bytes at *)
(* the field's own offset, whatever other objects have done to the shared  *)
(* reader since, or an object of the field's type that starts there.  No   *)
(* stale, shifted or uninitialised byte is ever cached.                    *)
(***************************************************************************)
ValueCorrect ==
    \A f \in AllFields :
        LET value == Parsed(f).value IN
        value # NoValue =>
            IF Info(f).object = NoType
            THEN /\ To(f) <= FileSize
                 /\ value = BytesValue(FileBytes(From(f), Info(f).size))
            ELSE LET child == objs[value.object]
                 IN  /\ child.type = Info(f).object
                     /\ child.start = Parsed(f).offset

(***************************************************************************)
(* A field is reported to be past the end of the file only if it is: short *)
(* reads, the moving window and other objects' seeks never make it so.     *)
(***************************************************************************)
EofOnlyAtEnd ==
    (result.error = "eof" /\ pc = "app") => To(result.of) > FileSize

(***************************************************************************)
(* The objects never read through a reader whose last seek failed: what    *)
(* FileCursor promises of the bytes holds for every one they get.  (After  *)
(* a failed Seek the window claims the new position while the reader still *)
(* stands at the old one.)                                                 *)
(***************************************************************************)
NeverReadsLost == lost => call = Idle /\ pc \in {"unparsed", "failed", "app"}

(***************************************************************************)
(* A call that fails changes no field of any object, and one that succeeds *)
(* only gives its own field the value it returns: half a read is never     *)
(* cached, though the bytes were already decoded when the Skip fails.      *)
(***************************************************************************)
Returns(f) == pc' = "app" /\ result'.of = f /\ result'.error = "none"

KeepsOthers ==
    \A f \in AllFields :
        IF Returns(f) THEN Parsed(f)'.value = result'.value
                      ELSE Parsed(f)' = Parsed(f)

CacheOnlyAdds ==
    [][(pc \in {"read", "ensure", "get"}) => KeepsOthers]_allVars
=============================================================================
