-------------------------------- MODULE Json ---------------------------------
(***************************************************************************)
(* DumpJsonObject and DumpJsonValue: a walk over an object and the objects *)
(* in it, which asks for every field and writes its value.  The walk sees  *)
(* no errors: a field that cannot be read is written as null, and the next *)
(* is asked for.  Indentation and punctuation are left out.                *)
(*                                                                         *)
(* frames are the calls of DumpJsonObject in progress, the innermost last. *)
(* The application calls nothing else before the walk is over.             *)
(***************************************************************************)
EXTENDS FileObjects, FiniteSets

CONSTANT
    MaxMade     \* bound: a walk makes at most so many objects

ASSUME JsonAssumption == MaxMade \in Nat

VARIABLES
    frames,     \* each the object, and its fields that are still to be written
    asked,      \* the field GetFieldValue was called for
    written,    \* what the last walk has written: fields and their values
    failed      \* history: a read or a seek has failed in the last walk

walkVars == <<frames, asked, written, failed>>
jsonVars == <<allVars, walkVars>>

Frame(o) == [obj |-> o, left |-> GetFieldNames(o)]
Top == frames[Len(frames)]
Below == SubSeq(frames, 1, Len(frames) - 1)

WalkInit ==
    /\ frames = <<>>
    /\ asked = NoField
    /\ written = <<>>
    /\ failed = FALSE

JsonInit == ObjectsInit /\ WalkInit
-----------------------------------------------------------------------------
\* Any other call of the application, or a step of it.
Application ==
    /\ frames = <<>>
    /\ ObjectsNext
    /\ written' = <<>>
    /\ failed' = FALSE
    /\ UNCHANGED <<frames, asked>>

\* The application calls DumpJsonObject.
DumpJsonObject ==
    /\ frames = <<>>
    /\ pc = "app"
    /\ Len(objs) + MaxMade <= MaxObjects
    /\ \E o \in 1 .. Len(objs) : frames' = <<Frame(o)>>
    /\ written' = <<>>
    /\ failed' = FALSE
    /\ UNCHANGED <<allVars, asked>>

\* The loop over the names: GetFieldValue of the next one.
AskField ==
    /\ frames # <<>>
    /\ pc = "app"
    /\ asked = NoField
    /\ \E f \in Top.left :
          /\ GetCached(f) \/ EnsureField(f)
          /\ asked' = f
          /\ frames' = Append(Below, [Top EXCEPT !.left = @ \ {f}])
    /\ UNCHANGED <<written, failed>>

\* GetFieldValue at work.
Reads ==
    /\ frames # <<>>
    /\ Continue
    /\ UNCHANGED walkVars

\* Bug: the value is declared outside the loop and kept when a field fails.
ValueGotKept ==
    IF result.error = "none" \/ written = <<>> THEN result.value
                                               ELSE written[Len(written)].value

\* GetFieldValue without errors: null when it fails.
ValueGot == IF result.error = "none" THEN result.value ELSE NoValue

\* Bug: the inner call takes the place of the outer one.
EnterReplaces(value) ==
    IF value.object = 0 THEN frames ELSE Append(Below, Frame(value.object))

\* An object is walked before the rest of the one it is in.
Enter(value) ==
    IF value.object = 0 THEN frames ELSE Append(frames, Frame(value.object))

DumpJsonValue ==
    /\ asked # NoField
    /\ pc = "app"
    /\ written' = Append(written, [field |-> asked, value |-> ValueGot])
    /\ frames' = Enter(ValueGot)
    /\ failed' = (failed \/ result.error = "io")
    /\ asked' = NoField
    /\ UNCHANGED allVars

EndObject ==
    /\ frames # <<>>
    /\ asked = NoField
    /\ Top.left = {}
    /\ frames' = Below
    /\ UNCHANGED <<allVars, asked, written, failed>>

Walk == AskField \/ Reads \/ DumpJsonValue \/ EndObject

JsonNext == Application \/ DumpJsonObject \/ Walk

JsonSpec == JsonInit /\ [][JsonNext]_jsonVars
-----------------------------------------------------------------------------
WrittenFields == {written[i].field : i \in 1 .. Len(written)}
WrittenObjects == {written[i].value.object : i \in 1 .. Len(written)} \ {0}

(***************************************************************************)
(* A walk that is over has written each field once, and with each object   *)
(* it has written all the fields of that object: of the outermost, which   *)
(* no field of the walk holds, and of those in it.                         *)
(***************************************************************************)
DumpIsWhole ==
    (frames = <<>> /\ written # <<>>) =>
        /\ Cardinality(WrittenFields) = Len(written)
        /\ \E o \in 1 .. Len(objs) :
              WrittenFields =
                  UNION {GetFieldNames(p) : p \in WrittenObjects \cup {o}}

(***************************************************************************)
(* What is written of a field is what the file has there, or null; and it  *)
(* is null only if the field is past the end of the file, unless a call of *)
(* the file has failed.  A failed read shows in no other field.            *)
(***************************************************************************)
DumpIsFile ==
    \A i \in 1 .. Len(written) :
        LET f == written[i].field
            value == written[i].value
        IN  IF value = NoValue
            THEN failed \/ To(f) > FileSize
            ELSE Info(f).object = NoType =>
                     /\ To(f) <= FileSize
                     /\ value = BytesValue(FileBytes(From(f), Info(f).size))
=============================================================================
