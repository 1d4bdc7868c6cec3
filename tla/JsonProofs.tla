----------------------------- MODULE JsonProofs -----------------------------
(***************************************************************************)
(* Proofs about the walk over the objects: it is one of the ways to use    *)
(* them, so that what FileObjectsProofs shows holds for it; what it writes *)
(* is the file, and it writes all of it.                                   *)
(*                                                                         *)
(* DumpIsFile is not inductive: the walk writes what the last call has     *)
(* returned, without a look at the field.  WalkInv says that this is still *)
(* what the field holds, or that the call has failed, and that the fields  *)
(* that are left are those of objects that exist.                          *)
(***************************************************************************)
EXTENDS Json, FileObjectsProofs, FiniteSetTheorems

FieldName == [obj : Nat, field : Nat]
FrameType == [obj : Nat, left : SUBSET FieldName]
Entry == [field : FieldName, value : [bytes : Bytes, object : Nat]]

\* What is written of a field is right.
Right(entry) ==
    /\ entry.field \in AllFields
    /\ IF entry.value = NoValue
       THEN failed \/ To(entry.field) > FileSize
       ELSE Info(entry.field).object = NoType =>
                /\ To(entry.field) <= FileSize
                /\ entry.value = BytesValue(FileBytes(From(entry.field),
                                                      Info(entry.field).size))

FramesInv ==
    /\ frames \in Seq(FrameType)
    /\ \A k \in 1 .. Len(frames) : frames[k].left \subseteq AllFields

WrittenInv ==
    /\ written \in Seq(Entry)
    /\ \A i \in 1 .. Len(written) : Right(written[i])

\* The call that is asked for a field is at work, or has returned: what the
\* field holds now, or an error.
AskedInv ==
    /\ frames = <<>> => asked = NoField
    /\ frames # <<>> => /\ pc \in {"app", "read", "ensure", "get"}
                        /\ pc # "app" => asked = cur
    /\ (asked # NoField /\ pc = "app") =>
           /\ asked \in AllFields
           /\ result.of = asked
           /\ result.error \in {"none", "io", "eof"}
           /\ result.error = "none" => /\ result.value = Parsed(asked).value
                                       /\ result.value # NoValue

WalkInv == FramesInv /\ WrittenInv /\ AskedInv
JsonInv == ObjectsInv /\ WalkInv

-----------------------------------------------------------------------------
\* The objects ns are those of os, maybe with other values, and maybe more.
Grown(ns, os) ==
    /\ Len(ns) >= Len(os)
    /\ \A o \in 1 .. Len(os) :
          /\ ns[o].type = os[o].type
          /\ Len(ns[o].fields) = Len(os[o].fields)
          /\ \A i \in 1 .. Len(os[o].fields) :
                ns[o].fields[i].offset = os[o].fields[i].offset

\* The fields stay where they are while objects only come up.
LEMMA FieldsStay ==
  ASSUME GoodObjects(objs), GoodObjects(objs'), Grown(objs', objs), NEW f \in AllFields
  PROVE  /\ f \in AllFields' /\ f \in FieldName
         /\ Info(f)' = Info(f) /\ From(f)' = From(f) /\ To(f)' = To(f)
<1>1. /\ f.obj \in 1 .. Len(objs) /\ f.field \in 1 .. Len(objs[f.obj].fields)
      /\ f = [obj |-> f.obj, field |-> f.field]
  BY FieldsOfObjects
<1>2. Len(objs) \in Nat /\ Len(objs') \in Nat
  BY LenProperties DEF GoodObjects
<1>3. f.obj \in 1 .. Len(objs') /\ f.field \in 1 .. Len(objs'[f.obj].fields)
  BY <1>1, <1>2 DEF Grown
<1>4. f \in AllFields'
  BY <1>1, <1>3 DEF AllFields, GetFieldNames
<1>5. f \in FieldName
  <2>1. Len(objs[f.obj].fields) \in Nat
    BY <1>1, FieldFacts, LenProperties
  <2>2. f.obj \in Nat /\ f.field \in Nat
    BY <1>1, <1>2, <2>1
  <2> QED BY <1>1, <2>2 DEF FieldName
<1>6. Info(f)' = Info(f)
  BY <1>1 DEF Info, Grown
<1>7. From(f)' = From(f)
  BY <1>1 DEF From, Parsed, Grown
<1> QED BY <1>4, <1>5, <1>6, <1>7 DEF To

\* What is right of a field stays right.
LEMMA RightStays ==
  ASSUME GoodObjects(objs), GoodObjects(objs'), Grown(objs', objs),
         failed => failed', NEW entry, Right(entry)
  PROVE  Right(entry)'
BY FieldsStay DEF Right

\* All that is written stays right.
LEMMA WrittenStays ==
  ASSUME GoodObjects(objs), GoodObjects(objs'), Grown(objs', objs),
         WrittenInv, written' = written, failed' = failed
  PROVE  WrittenInv'
BY RightStays DEF WrittenInv

\* The fields that are left stay fields.
LEMMA FramesStay ==
  ASSUME GoodObjects(objs), GoodObjects(objs'), Grown(objs', objs),
         FramesInv, frames' = frames
  PROVE  FramesInv'
BY FieldsStay DEF FramesInv

\* The innermost call of the walk, and those around it.
LEMMA TopAndBelow ==
  ASSUME FramesInv, frames # <<>>
  PROVE  /\ Top \in FrameType /\ Top.left \subseteq AllFields
         /\ Below \in Seq(FrameType)
         /\ \A k \in 1 .. Len(Below) : Below[k].left \subseteq AllFields
         /\ Len(Below) = Len(frames) - 1 /\ Len(frames) \in Nat \ {0}
         /\ \A k \in 1 .. Len(frames) - 1 : Below[k] = frames[k]
<1>1. Len(frames) \in Nat \ {0} /\ frames \in Seq(FrameType)
  BY EmptySeq DEF FramesInv
<1> DEFINE n == Len(frames)
<1>2. n \in 1 .. n /\ n - 1 \in Int /\ 1 \in Int
      /\ \A k \in 1 .. n - 1 : k \in 1 .. n
  BY <1>1
<1>3. Top \in FrameType /\ Top.left \subseteq AllFields
  BY <1>1, <1>2, ElementOfSeq DEF Top, FramesInv
<1>4. \A k \in 1 .. n - 1 : frames[k] \in FrameType
  BY <1>1, <1>2, ElementOfSeq
<1>5. /\ Below \in Seq(FrameType)
      /\ Len(Below) = IF 1 <= n - 1 THEN (n - 1) - 1 + 1 ELSE 0
      /\ \A k \in 1 .. (n - 1) - 1 + 1 : Below[k] = frames[1 + k - 1]
  BY <1>2, <1>4, SubSeqProperties DEF Below
<1>6. \A k \in 1 .. Len(Below) : k \in 1 .. n /\ Below[k] = frames[k]
  <2>1. \A k \in 1 .. n - 1 : k \in 1 .. (n - 1) - 1 + 1 /\ 1 + k - 1 = k
    BY <1>1
  <2>2. \A k \in 1 .. Len(Below) : k \in 1 .. n - 1
    BY <1>1, <1>5
  <2> QED BY <1>2, <1>5, <2>1, <2>2
<1>7. Len(Below) = n - 1
  <2>1. Len(Below) = IF 1 <= n - 1 THEN (n - 1) - 1 + 1 ELSE 0
    BY <1>5
  <2>2. n \in Nat \ {0}
    BY <1>1
  <2> HIDE DEF n
  <2> QED BY ONLY <2>1, <2>2
<1> QED BY <1>1, <1>3, <1>5, <1>6, <1>7 DEF FramesInv

\* A call of the walk more, or another one in place of the innermost.
LEMMA FrameAdded ==
  ASSUME NEW fs \in Seq(FrameType), NEW frame \in FrameType,
         \A k \in 1 .. Len(fs) : fs[k].left \subseteq AllFields,
         frame.left \subseteq AllFields,
         frames' = Append(fs, frame), UNCHANGED objs
  PROVE  FramesInv' /\ frames' # <<>>
<1>1. /\ frames' \in Seq(FrameType) /\ Len(frames') = Len(fs) + 1
      /\ \A k \in 1 .. Len(fs) : frames'[k] = fs[k]
      /\ frames'[Len(fs) + 1] = frame
  BY AppendProperties
<1>2. Len(fs) \in Nat
  BY LenProperties
<1>3. \A k \in 1 .. Len(frames') : k \in 1 .. Len(fs) \/ k = Len(fs) + 1
  BY <1>1, <1>2
<1>4. \A k \in 1 .. Len(frames') : frames'[k].left \subseteq AllFields
  BY <1>1, <1>3
<1>5. AllFields' = AllFields
  BY DEF AllFields, GetFieldNames
<1>6. frames' # <<>>
  BY <1>1, <1>2
<1> QED BY <1>1, <1>4, <1>5, <1>6 DEF FramesInv

\* The first call of the walk, or one that an object is entered with.
LEMMA FrameOfObject ==
  ASSUME GoodObjects(objs), NEW o \in 1 .. Len(objs)
  PROVE  Frame(o) \in FrameType /\ Frame(o).left \subseteq AllFields
<1>1. Frame(o).left = GetFieldNames(o) /\ Frame(o).obj = o
  BY DEF Frame
<1>2. GetFieldNames(o) \subseteq AllFields
  BY DEF AllFields
<1>3. AllFields \subseteq FieldName
  <2> SUFFICES ASSUME NEW f \in AllFields PROVE f \in FieldName
    OBVIOUS
  <2>1. Grown(objs, objs) /\ Len(objs) \in Nat
    BY LenProperties DEF Grown, GoodObjects
  <2>2. /\ f.obj \in 1 .. Len(objs) /\ f.field \in 1 .. Len(objs[f.obj].fields)
        /\ f = [obj |-> f.obj, field |-> f.field]
    BY FieldsOfObjects
  <2>3. Len(objs[f.obj].fields) \in Nat
    BY <2>2, FieldFacts, LenProperties
  <2> QED BY <2>1, <2>2, <2>3 DEF FieldName
<1>4. o \in Nat
  BY LenProperties DEF GoodObjects
<1>5. Frame(o) \in FrameType
  BY <1>2, <1>3, <1>4 DEF Frame, FrameType
<1> QED BY <1>1, <1>2, <1>5

-----------------------------------------------------------------------------
\* A walk asks for fields that there are: all it does are calls of the objects.
LEMMA WalkStepsAreCalls ==
  ASSUME WalkInv, [JsonNext]_jsonVars
  PROVE  [ObjectsNext]_allVars
<1>1. CASE AskField
  <2>1. PICK f \in Top.left : GetCached(f) \/ EnsureField(f)
    BY <1>1 DEF AskField
  <2>2. f \in AllFields
    BY <1>1, <2>1, TopAndBelow DEF WalkInv, AskField
  <2> QED BY <2>1, <2>2 DEF ObjectsNext
<1>2. CASE Reads
  BY <1>2 DEF Reads, ObjectsNext
<1>3. CASE DumpJsonObject \/ DumpJsonValue \/ EndObject
  BY <1>3 DEF DumpJsonObject, DumpJsonValue, EndObject
<1>4. CASE Application
  BY <1>4 DEF Application
<1>5. CASE UNCHANGED jsonVars
  BY <1>5 DEF jsonVars
<1> QED BY <1>1, <1>2, <1>3, <1>4, <1>5 DEF JsonNext, Walk

-----------------------------------------------------------------------------
(***************************************************************************)
(* Every step of the walk keeps WalkInv.                                   *)
(***************************************************************************)

\* The state a walk is in, as FileObjectsProofs has it.
LEMMA WalkAtWork ==
  ASSUME JsonInv
  PROVE  ObjectsInv /\ GoodObjects(objs) /\ FramesInv /\ WrittenInv /\ AskedInv
BY DEF JsonInv, WalkInv, ObjectsInv

\* A step of a call in progress is for its field, and changes the objects only
\* by the value it gives the field and the object that comes with it.
LEMMA ContinueGrows ==
  ASSUME ObjectsInv, Continue
  PROVE  pc # "app" /\ Grown(objs', objs)
<1>1. pc # "app"
  BY DEF ObjectsInv, CallInv, Reading, Continue, ReadInteger, Ensured, Got,
         ReadObject, Loop, Fill, FillRead, FillEof, FillFails, FillDone
<1>2. Len(objs) \in Nat
  BY LenProperties DEF ObjectsInv, GoodObjects
<1>3. objs' = objs => Grown(objs', objs)
  BY <1>2 DEF Grown
<1>4. ASSUME NEW value, Len(objs') >= Len(objs),
             ValueGiven(objs', objs, cur.obj, cur.field, value)
      PROVE  Grown(objs', objs)
  BY <1>4 DEF Grown, ValueGiven
<1> QED BY <1>1, <1>3, <1>4, StepOfCall DEF Fail

\* Outside a walk nothing is written.
LEMMA ApplicationKeepsWalkInv ==
  ASSUME JsonInv, Application
  PROVE  WalkInv'
<1>1. frames' = <<>> /\ written' = <<>> /\ asked' = NoField
  BY WalkAtWork DEF Application, AskedInv
<1>2. <<>> \in Seq(FrameType) /\ <<>> \in Seq(Entry) /\ Len(<<>>) = 0
  OBVIOUS
<1>3. FramesInv' /\ WrittenInv'
  BY <1>1, <1>2 DEF FramesInv, WrittenInv
<1>4. AskedInv'
  BY <1>1 DEF AskedInv
<1> QED BY <1>3, <1>4 DEF WalkInv

\* A walk begins with the fields of an object that exists.
LEMMA DumpJsonObjectKeepsWalkInv ==
  ASSUME JsonInv, DumpJsonObject
  PROVE  WalkInv'
<1>1. PICK o \in 1 .. Len(objs) : frames' = <<Frame(o)>>
  BY DEF DumpJsonObject
<1>2. Frame(o) \in FrameType /\ Frame(o).left \subseteq AllFields
  BY WalkAtWork, FrameOfObject
<1>3. /\ pc' = "app" /\ asked' = NoField /\ objs' = objs /\ written' = <<>>
  BY WalkAtWork DEF DumpJsonObject, AskedInv, allVars, objectVars
<1>4. FramesInv' /\ frames' # <<>>
  <2>1. <<>> \in Seq(FrameType) /\ Len(<<>>) = 0 /\ frames' = Append(<<>>, Frame(o))
    BY <1>1, <1>2
  <2>2. \A k \in 1 .. Len(<<>>) : <<>>[k].left \subseteq AllFields
    BY <2>1
  <2>3. UNCHANGED objs
    BY <1>3
  <2> QED BY <1>2, <2>1, <2>2, <2>3, FrameAdded
<1>5. WrittenInv'
  <2>1. <<>> \in Seq(Entry) /\ Len(<<>>) = 0
    OBVIOUS
  <2> QED BY <1>3, <2>1 DEF WrittenInv
<1>6. AskedInv'
  BY <1>3, <1>4 DEF AskedInv
<1> QED BY <1>4, <1>5, <1>6 DEF WalkInv

\* The objects are as they were.
LEMMA SameGrown ==
  ASSUME GoodObjects(objs), objs' = objs
  PROVE  GoodObjects(objs') /\ Grown(objs', objs)
<1>1. Len(objs) \in Nat
  BY LenProperties DEF GoodObjects
<1>2. Grown(objs', objs)
  BY <1>1 DEF Grown
<1> QED BY <1>2

\* A field that is left is asked for: cached, sought, or failed.
LEMMA AskFieldKeepsWalkInv ==
  ASSUME JsonInv, AskField
  PROVE  WalkInv'
<1>1. PICK f \in Top.left :
         /\ GetCached(f) \/ EnsureField(f)
         /\ asked' = f
         /\ frames' = Append(Below, [Top EXCEPT !.left = @ \ {f}])
  BY DEF AskField
<1>2. /\ frames # <<>> /\ written' = written /\ failed' = failed
  BY DEF AskField
<1>3. /\ Top \in FrameType /\ Top.left \subseteq AllFields
      /\ Below \in Seq(FrameType)
      /\ \A k \in 1 .. Len(Below) : Below[k].left \subseteq AllFields
  BY <1>2, WalkAtWork, TopAndBelow
<1>4. objs' = objs /\ GoodObjects(objs') /\ Grown(objs', objs)
  <2>1. objs' = objs
    BY <1>1 DEF GetCached, EnsureField, Fail
  <2> QED BY <2>1, WalkAtWork, SameGrown
<1>5. FramesInv' /\ frames' # <<>>
  <2> DEFINE frame == [Top EXCEPT !.left = @ \ {f}]
  <2>1. frame \in FrameType /\ frame.left \subseteq AllFields
    BY <1>3 DEF FrameType
  <2> QED BY <1>1, <1>3, <1>4, <2>1, FrameAdded
<1>6. WrittenInv'
  BY <1>2, <1>4, WalkAtWork, WrittenStays
<1>7. AskedInv'
  <2>1. f \in AllFields'
    BY <1>1, <1>3, <1>4, WalkAtWork, FieldsStay
  <2>2. CASE GetCached(f)
    <3>1. /\ pc' = "app" /\ Parsed(f).value # NoValue
          /\ result' = [of |-> f, error |-> "none", value |-> Parsed(f).value]
      BY <2>2 DEF GetCached
    <3>2. Parsed(f)' = Parsed(f)
      BY <1>4 DEF Parsed
    <3> QED BY <1>1, <1>5, <2>1, <3>1, <3>2 DEF AskedInv
  <2>3. CASE EnsureField(f) /\ pc' = "app"
    <3>1. result' = [of |-> f, error |-> "io", value |-> NoValue]
      BY <2>3 DEF EnsureField, Fail
    <3> QED BY <1>1, <1>5, <2>1, <2>3, <3>1 DEF AskedInv
  <2>4. CASE EnsureField(f) /\ pc' # "app"
    <3>1. pc' = "read" /\ cur' = f
      BY <2>4 DEF EnsureField, Fail
    <3> QED BY <1>1, <1>5, <3>1 DEF AskedInv
  <2> QED BY <1>1, <2>2, <2>3, <2>4
<1> QED BY <1>5, <1>6, <1>7 DEF WalkInv

\* The call for it goes on, and returns what the field holds then.
LEMMA ReadsKeepsWalkInv ==
  ASSUME JsonInv, Reads, GoodObjects(objs')
  PROVE  WalkInv'
<1>1. /\ frames # <<>> /\ Continue /\ frames' = frames /\ asked' = asked
      /\ written' = written /\ failed' = failed
  BY DEF Reads, walkVars
<1>2. pc # "app" /\ Grown(objs', objs)
  BY <1>1, WalkAtWork, ContinueGrows
<1>3. FramesInv' /\ WrittenInv'
  BY <1>1, <1>2, WalkAtWork, FramesStay, WrittenStays
<1>4. asked = cur /\ cur \in AllFields
  <2>1. pc \in {"read", "ensure", "get"} /\ asked = cur
    BY <1>1, <1>2, WalkAtWork DEF AskedInv
  <2> QED BY <2>1, WalkAtWork, InTheCall DEF Reading
<1>5. asked' \in AllFields'
  BY <1>1, <1>2, <1>4, WalkAtWork, FieldsStay
<1>6. AskedInv'
  <2>1. CASE pc' \in {"ensure", "get"} /\ cur' = cur
    BY <1>1, <1>4, <2>1 DEF AskedInv
  <2>2. ASSUME NEW error \in {"io", "eof"}, Fail(cur, error) PROVE AskedInv'
    BY <1>1, <1>4, <1>5, <2>2 DEF AskedInv, Fail
  <2>3. CASE /\ pc' = "app"
             /\ result' = [of |-> cur, error |-> "none", value |-> result'.value]
             /\ result'.value # NoValue
             /\ ValueGiven(objs', objs, cur.obj, cur.field, result'.value)
    <3>1. Parsed(asked)'.value = result'.value
      BY <1>1, <1>4, <2>3 DEF ValueGiven, Parsed
    <3> QED BY <1>1, <1>4, <1>5, <2>3, <3>1 DEF AskedInv
  <2> QED BY <1>1, <2>1, <2>2, <2>3, StepOfCall, WalkAtWork
<1> QED BY <1>3, <1>6 DEF WalkInv

\* What is written of the field asked for is what the file has.
LEMMA WrittenIsRight ==
  ASSUME JsonInv, DumpJsonValue,
         NEW f, f = asked, NEW value, value = ValueGot
  PROVE  LET entry == [field |-> f, value |-> value]
         IN  entry \in Entry /\ Right(entry)'
<1> DEFINE entry == [field |-> f, value |-> value]
<1>1. /\ asked # NoField /\ pc = "app" /\ objs' = objs
      /\ failed' = (failed \/ result.error = "io")
  BY DEF DumpJsonValue, allVars, objectVars
<1>2. /\ f \in AllFields /\ result.of = f
      /\ result.error \in {"none", "io", "eof"}
      /\ result.error = "none" => /\ result.value = Parsed(f).value
                                  /\ result.value # NoValue
  BY <1>1, WalkAtWork DEF AskedInv
<1>3. /\ f \in AllFields' /\ f \in FieldName /\ Info(f)' = Info(f)
      /\ From(f)' = From(f) /\ To(f)' = To(f)
  BY <1>1, <1>2, WalkAtWork, SameGrown, FieldsStay
<1>4. entry.field = f /\ entry.value = value
  OBVIOUS
<1>5. CASE result.error = "none"
  <2>1. value = Parsed(f).value /\ value # NoValue
    BY <1>2, <1>5 DEF ValueGot
  <2>2. value \in [bytes : Bytes, object : Nat]
    <3>1. Parsed(f) \in ParsedField
      BY <1>2, WalkAtWork, FieldsOfObjects, FieldFacts DEF Parsed
    <3> QED BY <2>1, <3>1 DEF ParsedField
  <2>3. Holds(objs, Info(f), Parsed(f))
    BY <1>2, WalkAtWork, FieldsOfObjects
  <2>4. Info(f).object = NoType =>
           /\ To(f) <= FileSize
           /\ value = BytesValue(FileBytes(From(f), Info(f).size))
    BY <2>1, <2>3 DEF Holds, To, From
  <2>5. Right(entry)'
    BY <1>3, <1>4, <2>1, <2>4 DEF Right
  <2> QED BY <1>3, <2>2, <2>5 DEF Entry
<1>6. CASE result.error # "none"
  <2>1. value = NoValue
    BY <1>6 DEF ValueGot
  <2>2. value \in [bytes : Bytes, object : Nat]
    BY <2>1, NoValueType
  <2>3. failed' \/ To(f) > FileSize
    <3>1. CASE result.error = "io"
      BY <1>1, <3>1, Zenon
    <3>2. CASE result.error = "eof"
      BY <1>2, <3>2, WalkAtWork DEF ObjectsInv, ResultInv
    <3> QED BY <1>2, <1>6, <3>1, <3>2
  <2>4. Right(entry)'
    BY <1>3, <1>4, <2>1, <2>3 DEF Right
  <2> QED BY <1>3, <2>2, <2>4 DEF Entry
<1> QED BY <1>5, <1>6

\* Its value is written, and the object it may be is entered.
LEMMA DumpJsonValueKeepsWalkInv ==
  ASSUME JsonInv, DumpJsonValue
  PROVE  WalkInv'
<1>1. PICK f, value : f = asked /\ value = ValueGot
  OBVIOUS
<1> DEFINE entry == [field |-> f, value |-> value]
<1>2. /\ asked # NoField /\ pc = "app"
      /\ written' = Append(written, entry)
      /\ frames' = Enter(ValueGot)
      /\ failed' = (failed \/ result.error = "io")
      /\ asked' = NoField /\ objs' = objs /\ pc' = pc
  BY <1>1 DEF DumpJsonValue, allVars, objectVars
<1>3. frames # <<>>
  BY <1>2, WalkAtWork DEF AskedInv
<1>4. entry \in Entry /\ Right(entry)'
  BY <1>1, WrittenIsRight
<1> HIDE DEF entry
<1>5. GoodObjects(objs') /\ Grown(objs', objs)
  BY <1>2, WalkAtWork, SameGrown
<1>6. WrittenInv'
  <2>1. written \in Seq(Entry) /\ \A i \in 1 .. Len(written) : Right(written[i])
    BY WalkAtWork DEF WrittenInv
  <2>2. failed => failed'
    BY <1>2, Zenon
  <2>3. \A old : Right(old) => Right(old)'
    BY <1>5, <2>2, WalkAtWork, RightStays
  <2>4. /\ written' \in Seq(Entry) /\ Len(written') = Len(written) + 1
        /\ \A i \in 1 .. Len(written) : written'[i] = written[i]
        /\ written'[Len(written) + 1] = entry
    BY <1>2, <1>4, <2>1, AppendProperties
  <2>5. \A i \in 1 .. Len(written') : i \in 1 .. Len(written) \/ i = Len(written) + 1
    BY <2>1, <2>4, LenProperties
  <2> QED BY <1>4, <2>1, <2>3, <2>4, <2>5 DEF WrittenInv
<1>7. FramesInv' /\ frames' # <<>>
  <2>1. CASE ValueGot.object = 0
    BY <1>2, <1>3, <1>5, <2>1, WalkAtWork, FramesStay DEF Enter
  <2>2. CASE ValueGot.object # 0
    <3>1. ValueGot = result.value /\ frames' = Append(frames, Frame(ValueGot.object))
      BY <1>2, <2>2 DEF Enter, ValueGot, NoValue
    <3>2. ValueGot.object \in 1 .. Len(objs)
      <4>1. result.value.object \in 0 .. Len(objs) /\ Len(objs) \in Nat
        BY WalkAtWork, LenProperties DEF ObjectsInv, ResultInv, GoodObjects
      <4> QED BY <2>2, <3>1, <4>1
    <3>3. /\ Frame(ValueGot.object) \in FrameType
          /\ Frame(ValueGot.object).left \subseteq AllFields
      BY <3>2, WalkAtWork, FrameOfObject
    <3>4. /\ frames \in Seq(FrameType)
          /\ \A k \in 1 .. Len(frames) : frames[k].left \subseteq AllFields
      BY WalkAtWork DEF FramesInv
    <3> QED BY <1>2, <3>1, <3>3, <3>4, FrameAdded
  <2> QED BY <2>1, <2>2
<1>8. AskedInv'
  BY <1>2, <1>7 DEF AskedInv
<1> QED BY <1>6, <1>7, <1>8 DEF WalkInv

\* The walk goes on with the object around.
LEMMA EndObjectKeepsWalkInv ==
  ASSUME JsonInv, EndObject
  PROVE  WalkInv'
<1>1. /\ frames # <<>> /\ asked = NoField /\ asked' = NoField
      /\ frames' = Below /\ objs' = objs /\ pc' = pc /\ cur' = cur
      /\ written' = written /\ failed' = failed
  BY DEF EndObject, allVars, objectVars
<1>2. GoodObjects(objs') /\ Grown(objs', objs)
  BY <1>1, WalkAtWork, SameGrown
<1>3. WrittenInv'
  BY <1>1, <1>2, WalkAtWork, WrittenStays
<1>4. FramesInv'
  <2>1. /\ Below \in Seq(FrameType)
        /\ \A k \in 1 .. Len(Below) : Below[k].left \subseteq AllFields
    BY <1>1, WalkAtWork, TopAndBelow
  <2>2. AllFields' = AllFields
    BY <1>1 DEF AllFields, GetFieldNames
  <2> QED BY <1>1, <2>1, <2>2 DEF FramesInv
<1>5. AskedInv'
  BY <1>1, WalkAtWork DEF AskedInv
<1> QED BY <1>3, <1>4, <1>5 DEF WalkInv

\* No step breaks the invariant.
LEMMA NextKeepsJsonInv == JsonInv /\ [JsonNext]_jsonVars => JsonInv'
<1> SUFFICES ASSUME JsonInv, [JsonNext]_jsonVars PROVE JsonInv'
  OBVIOUS
<1>1. ObjectsInv' /\ GoodObjects(objs')
  <2>1. [ObjectsNext]_allVars
    BY WalkStepsAreCalls DEF JsonInv
  <2>2. ObjectsInv'
    BY <2>1, NextKeepsObjectsInv DEF JsonInv
  <2> QED BY <2>2 DEF ObjectsInv, GoodObjects, GoodObject, Holds
<1>2. WalkInv'
  <2>1. CASE UNCHANGED jsonVars
    <3>1. /\ objs' = objs /\ pc' = pc /\ cur' = cur /\ result' = result
          /\ frames' = frames /\ asked' = asked
          /\ written' = written /\ failed' = failed
      BY <2>1 DEF jsonVars, allVars, objectVars, walkVars
    <3>2. FramesInv' /\ WrittenInv'
      BY <3>1, WalkAtWork, SameGrown, FramesStay, WrittenStays
    <3>3. AskedInv'
      BY <3>1, WalkAtWork
      DEF AskedInv, AllFields, GetFieldNames, Parsed
    <3> QED BY <3>2, <3>3 DEF WalkInv
  <2> QED BY <1>1, <2>1, ApplicationKeepsWalkInv, DumpJsonObjectKeepsWalkInv,
             AskFieldKeepsWalkInv, ReadsKeepsWalkInv, DumpJsonValueKeepsWalkInv,
             EndObjectKeepsWalkInv DEF JsonNext, Walk
<1> QED BY <1>1, <1>2 DEF JsonInv

\* Nothing is walked at first.
LEMMA InitJsonInv == JsonInit => JsonInv
<1> SUFFICES ASSUME JsonInit PROVE JsonInv
  OBVIOUS
<1>1. ObjectsInv /\ frames = <<>> /\ asked = NoField /\ written = <<>>
  BY InitObjectsInv DEF JsonInit, WalkInit
<1>2. <<>> \in Seq(FrameType) /\ <<>> \in Seq(Entry) /\ Len(<<>>) = 0
  OBVIOUS
<1>3. FramesInv /\ WrittenInv
  BY <1>1, <1>2 DEF FramesInv, WrittenInv
<1>4. AskedInv
  BY <1>1 DEF AskedInv
<1> QED BY <1>1, <1>3, <1>4 DEF JsonInv, WalkInv

\* The invariant of the objects and of the walk over them.
LEMMA JsonInvariant == JsonSpec => []JsonInv
<1>1. JsonInit => JsonInv
  BY InitJsonInv
<1> QED BY <1>1, NextKeepsJsonInv, PTL DEF JsonSpec

-----------------------------------------------------------------------------
\* A program that writes objects makes no other use of them than an
\* application may: it asks only for fields that there are, one at a time, and
\* what the objects promise every application they promise the walk.
THEOREM WalksAreCalls == JsonSpec => ObjectsSpec
<1>1. JsonInit => ObjectsInit
  BY DEF JsonInit
<1>2. JsonInv /\ [JsonNext]_jsonVars => [ObjectsNext]_allVars
  BY WalkStepsAreCalls DEF JsonInv
<1> QED BY <1>1, <1>2, JsonInvariant, PTL DEF JsonSpec, ObjectsSpec

LEMMA WrittenIsFile == JsonInv => DumpIsFile
BY WalkAtWork DEF WrittenInv, Right, DumpIsFile

\* What a walk writes of a field is what the file has there, and null only if
\* the field is past its end or a call of the file has failed.
THEOREM DumpShowsFile == JsonSpec => []DumpIsFile
BY WrittenIsFile, JsonInvariant, PTL

-----------------------------------------------------------------------------
(***************************************************************************)
(* That a walk writes everything, and nothing twice.                       *)
(*                                                                         *)
(* WholeFrom(o) is the walk that began at o: a field of o, or of an object *)
(* that has been written, is in one and only one of four places.  It is    *)
(* written, asked for, or left in one of the calls.  Since the objects are *)
(* a tree, an object that is entered has been in none of them before.      *)
(***************************************************************************)
Left(k) == frames[k].left
Waiting(f) == \E k \in 1 .. Len(frames) : f \in Left(k)

Visited(o) == WrittenObjects \cup {o}

\* The objects come after o, and are there.
VisitedInv(o) == \A p \in Visited(o) : p \in o .. Len(objs)

\* The fields of the objects, and no others, have a place.
PlaceInv(o) ==
    \A f \in AllFields :
        f.obj \in Visited(o) <=> f \in WrittenFields \/ f = asked \/ Waiting(f)

\* They have one place.
ApartInv ==
    /\ asked \notin WrittenFields
    /\ \A k \in 1 .. Len(frames) :
          /\ asked \notin Left(k)
          /\ \A f \in Left(k) :
                /\ f \notin WrittenFields
                /\ \A l \in 1 .. Len(frames) : f \in Left(l) => l = k

\* What is written is written once, and is still there.
OnceInv ==
    \A i \in 1 .. Len(written) :
        /\ \A j \in 1 .. Len(written) : written[j].field = written[i].field => j = i
        /\ written[i].value.object # 0 =>
              Parsed(written[i].field).value.object = written[i].value.object

WholeFrom(o) ==
    /\ o \in 1 .. Len(objs)
    /\ VisitedInv(o)
    /\ PlaceInv(o)
    /\ ApartInv
    /\ OnceInv

WholeInv == (frames # <<>> \/ written # <<>>) => \E o \in 1 .. Len(objs) : WholeFrom(o)

\* What is written is written of fields, and no field is NoField.
LEMMA PlacesAreFields ==
  ASSUME JsonInv
  PROVE  /\ WrittenFields \subseteq AllFields
         /\ \A f : Waiting(f) => f \in AllFields
         /\ NoField \notin AllFields
<1>1. WrittenFields \subseteq AllFields
  BY WalkAtWork DEF WrittenInv, Right, WrittenFields
<1>2. \A f : Waiting(f) => f \in AllFields
  BY WalkAtWork DEF FramesInv, Waiting, Left
<1>3. NoField \notin AllFields
  <2>1. NoField.obj = 0
    BY DEF NoField
  <2> QED BY <2>1, WalkAtWork, FieldsOfObjects
<1> QED BY <1>1, <1>2, <1>3

\* The fields of an object are the fields that are in it.
LEMMA FieldsIn ==
  ASSUME GoodObjects(objs), NEW p \in 1 .. Len(objs), NEW f
  PROVE  f \in GetFieldNames(p) <=> f \in AllFields /\ f.obj = p
<1>1. ASSUME f \in GetFieldNames(p) PROVE f \in AllFields /\ f.obj = p
  BY <1>1 DEF GetFieldNames, AllFields
<1>2. ASSUME f \in AllFields, f.obj = p PROVE f \in GetFieldNames(p)
  BY <1>2, FieldsOfObjects DEF GetFieldNames
<1> QED BY <1>1, <1>2

\* Neither the objects nor what is written changes.
LEMMA SameWritten ==
  ASSUME objs' = objs, written' = written, NEW o, WholeFrom(o)
  PROVE  /\ WrittenFields' = WrittenFields /\ AllFields' = AllFields
         /\ Visited(o)' = Visited(o)
         /\ o \in 1 .. Len(objs') /\ VisitedInv(o)' /\ OnceInv'
<1>1. WrittenFields' = WrittenFields /\ WrittenObjects' = WrittenObjects
  BY DEF WrittenFields, WrittenObjects
<1>2. AllFields' = AllFields
  BY DEF AllFields, GetFieldNames
<1>3. OnceInv'
  BY DEF WholeFrom, OnceInv, Parsed
<1>4. Visited(o)' = Visited(o)
  BY <1>1 DEF Visited
<1>5. VisitedInv(o)' /\ o \in 1 .. Len(objs')
  BY <1>4 DEF WholeFrom, VisitedInv
<1> QED BY <1>1, <1>2, <1>3, <1>4, <1>5

\* Nothing is written, and the fields of one object are left.
LEMMA WholeBegins ==
  ASSUME JsonInv, NEW o \in 1 .. Len(objs), frames' = <<Frame(o)>>,
         written' = <<>>, asked' = NoField, objs' = objs
  PROVE  WholeFrom(o)'
<1>1. Len(<<Frame(o)>>) = 1 /\ <<Frame(o)>>[1] = Frame(o) /\ Frame(o).left = GetFieldNames(o)
  BY DEF Frame
<1>2. Len(frames') = 1 /\ frames'[1].left = GetFieldNames(o)
  BY <1>1
<1>3. Len(<<>>) = 0
  OBVIOUS
<1>4. WrittenFields' = {} /\ WrittenObjects' = {} /\ OnceInv'
  BY <1>3 DEF WrittenFields, WrittenObjects, OnceInv
<1>5. Visited(o)' = {o}
  BY <1>4 DEF Visited
<1>6. VisitedInv(o)'
  BY <1>5, WalkAtWork, LenProperties DEF VisitedInv, GoodObjects
<1>7. AllFields' = AllFields /\ NoField \notin AllFields
  BY PlacesAreFields DEF AllFields, GetFieldNames
<1>8. \A f \in AllFields : f.obj = o <=> f \in GetFieldNames(o)
  BY WalkAtWork, FieldsIn
<1>9. PlaceInv(o)'
  BY <1>2, <1>4, <1>5, <1>7, <1>8 DEF PlaceInv, Waiting, Left
<1>10. NoField \notin GetFieldNames(o)
  BY <1>7, WalkAtWork, FieldsIn
<1>11. ApartInv'
  BY <1>2, <1>4, <1>10 DEF ApartInv, Left
<1> QED BY <1>4, <1>6, <1>9, <1>11 DEF WholeFrom

\* A field that was left is asked for.
LEMMA AskFieldKeepsWhole ==
  ASSUME JsonInv, AskField, NEW o, WholeFrom(o)
  PROVE  WholeFrom(o)'
<1> DEFINE n == Len(frames)
<1>1. PICK f \in Top.left :
         /\ GetCached(f) \/ EnsureField(f)
         /\ asked' = f
         /\ frames' = Append(Below, [Top EXCEPT !.left = @ \ {f}])
  BY DEF AskField
<1>2. /\ frames # <<>> /\ written' = written /\ asked = NoField
  BY DEF AskField
<1>3. objs' = objs
  BY <1>1 DEF GetCached, EnsureField, Fail
<1>4. /\ n \in Nat \ {0} /\ Len(frames') = n
      /\ frames'[n].left = Left(n) \ {f} /\ f \in Left(n)
      /\ \A k \in 1 .. n - 1 : frames'[k] = frames[k]
  <2>1. /\ Top \in FrameType /\ Below \in Seq(FrameType) /\ Len(Below) = n - 1
        /\ n \in Nat \ {0}
        /\ \A k \in 1 .. n - 1 : Below[k] = frames[k]
    BY <1>2, WalkAtWork, TopAndBelow
  <2> DEFINE frame == [Top EXCEPT !.left = @ \ {f}]
  <2>2. frame \in FrameType /\ frame.left = Left(n) \ {f}
    BY <2>1 DEF FrameType, Top, Left
  <2> HIDE DEF frame
  <2>3. /\ Len(frames') = Len(Below) + 1
        /\ \A k \in 1 .. Len(Below) : frames'[k] = Below[k]
        /\ frames'[Len(Below) + 1] = frame
    BY <1>1, <2>1, <2>2, AppendProperties DEF frame
  <2> QED BY <1>1, <2>1, <2>2, <2>3 DEF Top, Left
<1> HIDE DEF n
<1>5. WrittenFields' = WrittenFields /\ AllFields' = AllFields /\ OnceInv'
  BY <1>2, <1>3, SameWritten
<1>6. VisitedInv(o)' /\ Visited(o)' = Visited(o) /\ o \in 1 .. Len(objs')
  BY <1>2, <1>3, SameWritten
<1>7. \A k \in 1 .. n : k \in 1 .. n - 1 \/ k = n
  BY <1>4
<1>8. \A k \in 1 .. n : \A g : g \in frames'[k].left <=> g \in Left(k) /\ g # f
  <2> SUFFICES ASSUME NEW k \in 1 .. n, NEW g
               PROVE  g \in frames'[k].left <=> g \in Left(k) /\ g # f
    OBVIOUS
  <2>1. CASE k = n
    BY <1>4, <2>1
  <2>2. CASE k # n
    <3>1. k \in 1 .. n - 1 /\ n \in 1 .. n
      BY <1>4, <1>7, <2>2
    <3>2. f \notin Left(k)
      BY <1>4, <2>2, <3>1 DEF WholeFrom, ApartInv, n
    <3> QED BY <1>4, <3>1, <3>2 DEF Left
  <2> QED BY <2>1, <2>2
<1>9. ApartInv'
  <2>1. f \notin WrittenFields
    <3>1. n \in 1 .. n
      BY <1>4
    <3> QED BY <1>4, <3>1 DEF WholeFrom, ApartInv, n
  <2>2. ApartInv
    BY DEF WholeFrom
  <2> QED BY <1>1, <1>4, <1>5, <1>8, <2>1, <2>2 DEF ApartInv, Left, n
<1>10. PlaceInv(o)'
  <2>1. \A g : Waiting(g)' <=> Waiting(g) /\ g # f
    BY <1>4, <1>8 DEF Waiting, Left, n
  <2>2. Waiting(f)
    <3>1. n \in 1 .. n
      BY <1>4
    <3> QED BY <1>4, <3>1 DEF Waiting, n
  <2>3. NoField \notin AllFields
    BY PlacesAreFields
  <2>4. PlaceInv(o)
    BY DEF WholeFrom
  <2> QED BY <1>1, <1>2, <1>5, <1>6, <2>1, <2>2, <2>3, <2>4 DEF PlaceInv
<1> QED BY <1>5, <1>6, <1>9, <1>10 DEF WholeFrom

\* Objects come up, and only the field asked for is given a value.
LEMMA ReadsKeepsWhole ==
  ASSUME JsonInv, Reads, GoodObjects(objs'), NEW o, WholeFrom(o)
  PROVE  WholeFrom(o)'
<1>1. /\ frames # <<>> /\ Continue /\ frames' = frames /\ asked' = asked
      /\ written' = written
  BY DEF Reads, walkVars
<1>2. pc # "app" /\ Grown(objs', objs) /\ Len(objs) \in Nat /\ Len(objs') \in Nat
  BY <1>1, WalkAtWork, ContinueGrows, LenProperties DEF GoodObjects
<1>3. asked = cur /\ cur \in AllFields
  <2>1. pc \in {"read", "ensure", "get"} /\ asked = cur
    BY <1>1, <1>2, WalkAtWork DEF AskedInv
  <2> QED BY <2>1, WalkAtWork, InTheCall DEF Reading
<1>4. /\ WrittenFields' = WrittenFields /\ WrittenObjects' = WrittenObjects
      /\ Visited(o)' = Visited(o) /\ \A f : Waiting(f)' <=> Waiting(f)
  BY <1>1 DEF WrittenFields, WrittenObjects, Visited, Waiting, Left
<1>5. ApartInv'
  BY <1>1, <1>4 DEF WholeFrom, ApartInv, Left
<1>6. VisitedInv(o)' /\ o \in 1 .. Len(objs')
  BY <1>2, <1>4 DEF WholeFrom, VisitedInv, Grown
<1>7. \A f \in AllFields \ {cur} : Parsed(f)' = Parsed(f)
  <2>1. CASE objs' = objs
    BY <2>1 DEF Parsed
  <2>2. CASE ValueGiven(objs', objs, cur.obj, cur.field, result'.value)
    <3> SUFFICES ASSUME NEW f \in AllFields \ {cur} PROVE Parsed(f)' = Parsed(f)
      OBVIOUS
    <3>1. /\ f.obj \in 1 .. Len(objs) /\ f.field \in 1 .. Len(objs[f.obj].fields)
          /\ f = [obj |-> f.obj, field |-> f.field]
          /\ cur = [obj |-> cur.obj, field |-> cur.field]
      BY <1>3, WalkAtWork, FieldsOfObjects
    <3>2. <<f.obj, f.field>> # <<cur.obj, cur.field>>
      BY <3>1
    <3> QED BY <2>2, <3>1, <3>2 DEF ValueGiven, Parsed
  <2> QED BY <1>1, <2>1, <2>2, WalkAtWork, StepOfCall DEF Fail
<1>8. OnceInv'
  <2>1. \A i \in 1 .. Len(written) : written[i].field \in AllFields \ {cur}
    BY <1>3, PlacesAreFields DEF WholeFrom, ApartInv, WrittenFields
  <2>2. \A i \in 1 .. Len(written) :
           Parsed(written[i].field)' = Parsed(written[i].field)
    BY <1>1, <1>7, <2>1
  <2> QED BY <1>1, <2>2 DEF WholeFrom, OnceInv
<1>9. PlaceInv(o)'
  <2> SUFFICES ASSUME NEW f \in AllFields'
               PROVE  f.obj \in Visited(o) <=> f \in WrittenFields \/ f = asked \/ Waiting(f)
    BY <1>1, <1>4 DEF PlaceInv
  <2>1. PICK p \in 1 .. Len(objs') :
           \E i \in 1 .. Len(objs'[p].fields) : f = [obj |-> p, field |-> i]
    BY DEF AllFields, GetFieldNames
  <2>2. PICK i \in 1 .. Len(objs'[p].fields) : f = [obj |-> p, field |-> i]
    BY <2>1
  <2>3. CASE p \in 1 .. Len(objs)
    <3>1. Len(objs'[p].fields) = Len(objs[p].fields)
      BY <1>2, <2>3 DEF Grown
    <3>2. f \in AllFields
      BY <2>2, <2>3, <3>1 DEF AllFields, GetFieldNames
    <3> QED BY <3>2 DEF WholeFrom, PlaceInv
  <2>4. CASE p \notin 1 .. Len(objs)
    <3>1. f.obj = p
      BY <2>2
    <3>2. f \notin AllFields
      BY <2>4, <3>1, WalkAtWork, FieldsOfObjects
    <3>3. p \notin Visited(o)
      BY <1>2, <2>4 DEF WholeFrom, VisitedInv
    <3> QED BY <1>3, <3>1, <3>2, <3>3, PlacesAreFields
  <2> QED BY <2>3, <2>4
<1> QED BY <1>5, <1>6, <1>8, <1>9 DEF WholeFrom

\* An entry more.
LEMMA EntryAdded ==
  ASSUME written \in Seq(Entry), NEW entry \in Entry, written' = Append(written, entry)
  PROVE  /\ Len(written') = Len(written) + 1 /\ Len(written) \in Nat
         /\ \A i \in 1 .. Len(written) : written'[i] = written[i]
         /\ written'[Len(written) + 1] = entry
         /\ \A i \in 1 .. Len(written') : i \in 1 .. Len(written) \/ i = Len(written) + 1
         /\ WrittenFields' = WrittenFields \cup {entry.field}
         /\ WrittenObjects' = WrittenObjects \cup ({entry.value.object} \ {0})
<1>1. /\ Len(written') = Len(written) + 1 /\ Len(written) \in Nat
      /\ \A i \in 1 .. Len(written) : written'[i] = written[i]
      /\ written'[Len(written) + 1] = entry
  BY AppendProperties, LenProperties
<1>2. /\ \A i \in 1 .. Len(written') : i \in 1 .. Len(written) \/ i = Len(written) + 1
      /\ \A i \in 1 .. Len(written) : i \in 1 .. Len(written')
      /\ Len(written) + 1 \in 1 .. Len(written')
  BY <1>1
<1>3. \A f : f \in WrittenFields' <=> f \in WrittenFields \/ f = entry.field
  BY <1>1, <1>2 DEF WrittenFields
<1>4. \A p : p \in WrittenObjects' <=> \/ p \in WrittenObjects
                                       \/ p = entry.value.object /\ p # 0
  BY <1>1, <1>2 DEF WrittenObjects
<1> QED BY <1>1, <1>2, <1>3, <1>4

\* A field is written; the object that it may hold is entered, and has not been
\* before, since no other field holds it.
LEMMA DumpJsonValueKeepsWhole ==
  ASSUME JsonInv, Tree(objs), DumpJsonValue, NEW o, WholeFrom(o)
  PROVE  WholeFrom(o)'
<1>1. PICK f, value : f = asked /\ value = ValueGot
  OBVIOUS
<1> DEFINE entry == [field |-> f, value |-> value]
           c == value.object
<1>2. /\ asked # NoField /\ pc = "app"
      /\ written' = Append(written, entry)
      /\ frames' = Enter(value)
      /\ asked' = NoField /\ objs' = objs
  BY <1>1 DEF DumpJsonValue, allVars, objectVars
<1>3. entry \in Entry /\ entry.field = f /\ entry.value = value
  BY <1>1, WrittenIsRight
<1> HIDE DEF entry
<1>4. /\ Len(written') = Len(written) + 1 /\ Len(written) \in Nat
      /\ \A i \in 1 .. Len(written) : written'[i] = written[i]
      /\ written'[Len(written) + 1] = entry
      /\ \A i \in 1 .. Len(written') : i \in 1 .. Len(written) \/ i = Len(written) + 1
      /\ WrittenFields' = WrittenFields \cup {f}
      /\ WrittenObjects' = WrittenObjects \cup ({c} \ {0})
  BY <1>2, <1>3, WalkAtWork, EntryAdded DEF WrittenInv
<1>5. f \in AllFields /\ (c # 0 => c = Parsed(f).value.object)
  <2>1. /\ f \in AllFields
        /\ result.error = "none" => result.value = Parsed(f).value
    BY <1>1, <1>2, WalkAtWork DEF AskedInv
  <2> QED BY <1>1, <2>1 DEF ValueGot, NoValue
<1>6. AllFields' = AllFields /\ \A g : Parsed(g)' = Parsed(g)
  BY <1>2 DEF AllFields, GetFieldNames, Parsed
<1>7. /\ o \in 1 .. Len(objs) /\ VisitedInv(o) /\ PlaceInv(o) /\ ApartInv /\ OnceInv
      /\ NoField \notin AllFields
  BY PlacesAreFields DEF WholeFrom
<1>8. OnceInv'
  <2>1. \A i \in 1 .. Len(written) : written[i].field # f
    BY <1>1, <1>7 DEF ApartInv, WrittenFields
  <2> SUFFICES ASSUME NEW i \in 1 .. Len(written')
               PROVE  /\ \A j \in 1 .. Len(written') :
                            written'[j].field = written'[i].field => j = i
                      /\ written'[i].value.object # 0 =>
                            Parsed(written'[i].field).value.object =
                               written'[i].value.object
    BY <1>6 DEF OnceInv
  <2>2. CASE i \in 1 .. Len(written)
    BY <1>3, <1>4, <1>7, <2>1, <2>2 DEF OnceInv
  <2>3. CASE i = Len(written) + 1
    BY <1>3, <1>4, <1>5, <2>1, <2>3
  <2> QED BY <1>4, <2>2, <2>3
<1>9. CASE c = 0
  <2>1. frames' = frames /\ WrittenObjects' = WrittenObjects
    BY <1>2, <1>4, <1>9 DEF Enter
  <2>2. Visited(o)' = Visited(o) /\ VisitedInv(o)' /\ \A g : Waiting(g)' <=> Waiting(g)
    BY <1>2, <1>7, <2>1 DEF Visited, VisitedInv, Waiting, Left
  <2>3. PlaceInv(o)'
    BY <1>1, <1>2, <1>4, <1>6, <1>7, <2>2 DEF PlaceInv
  <2>4. ApartInv'
    <3>1. NoField \notin WrittenFields \cup {f}
      BY <1>5, <1>7, PlacesAreFields
    <3>2. \A k \in 1 .. Len(frames) : NoField \notin Left(k)
      BY <1>7, PlacesAreFields DEF Waiting
    <3> QED BY <1>1, <1>2, <1>4, <1>7, <2>1, <3>1, <3>2 DEF ApartInv, Left
  <2> QED BY <1>2, <1>7, <1>8, <2>2, <2>3, <2>4 DEF WholeFrom
<1>10. CASE c # 0
  <2> DEFINE n == Len(frames)
  <2>1. f.obj \in 1 .. Len(objs) /\ f.field \in 1 .. Len(objs[f.obj].fields)
        /\ c = Held(objs, f.obj, f.field) /\ Len(objs) \in Nat
    BY <1>5, <1>10, WalkAtWork, FieldsOfObjects, LenProperties
    DEF Held, Parsed, GoodObjects
  <2>2. c > f.obj /\ c \in 1 .. Len(objs)
    <3>1. c \in 0 .. Len(objs)
      BY <2>1, WalkAtWork, HeldExists
    <3> QED BY <1>10, <2>1, <3>1 DEF Tree
  <2>3. f.obj \in Visited(o)
    BY <1>1, <1>5, <1>7 DEF PlaceInv
  <2>4. o < c /\ c \in o .. Len(objs)
    BY <1>7, <2>1, <2>2, <2>3 DEF VisitedInv
  <2>5. c \notin Visited(o)
    <3> SUFFICES ASSUME c \in WrittenObjects PROVE FALSE
      BY <1>7, <2>1, <2>4 DEF Visited
    <3>1. PICK i \in 1 .. Len(written) : written[i].value.object = c
      BY DEF WrittenObjects
    <3> DEFINE g == written[i].field
    <3>2. g \in WrittenFields /\ Parsed(g).value.object = c
      BY <1>7, <1>10, <3>1 DEF OnceInv, WrittenFields
    <3> HIDE DEF g
    <3>3. /\ g \in AllFields /\ g.obj \in 1 .. Len(objs)
          /\ g.field \in 1 .. Len(objs[g.obj].fields)
          /\ g = [obj |-> g.obj, field |-> g.field]
          /\ f = [obj |-> f.obj, field |-> f.field]
      BY <1>5, <3>2, WalkAtWork, PlacesAreFields, FieldsOfObjects
    <3>4. Held(objs, g.obj, g.field) = c
      BY <3>2 DEF Held, Parsed
    <3>5. g.obj = f.obj /\ g.field = f.field
      BY <1>10, <2>1, <3>3, <3>4 DEF Tree
    <3> QED BY <1>1, <1>7, <3>2, <3>3, <3>5 DEF ApartInv
  <2>6. Visited(o)' = Visited(o) \cup {c} /\ VisitedInv(o)'
    <3>1. Visited(o)' = Visited(o) \cup {c}
      BY <1>4, <1>10 DEF Visited
    <3> QED BY <1>2, <1>7, <2>4, <3>1 DEF VisitedInv
  <2>7. /\ Len(frames') = n + 1 /\ n \in Nat
        /\ \A k \in 1 .. n : frames'[k] = frames[k]
        /\ frames'[n + 1].left = GetFieldNames(c)
    <3>1. frames \in Seq(FrameType) /\ Frame(c) \in FrameType
      BY <2>2, WalkAtWork, FrameOfObject DEF FramesInv
    <3>2. frames' = Append(frames, Frame(c)) /\ Frame(c).left = GetFieldNames(c)
      BY <1>2, <1>10 DEF Enter, Frame
    <3> QED BY <3>1, <3>2, AppendProperties, LenProperties
  <2>8. /\ \A k \in 1 .. Len(frames') : k \in 1 .. n \/ k = n + 1
        /\ \A k \in 1 .. n : k \in 1 .. Len(frames') /\ k # n + 1
        /\ n + 1 \in 1 .. Len(frames')
    BY <2>7
  <2> HIDE DEF n
  <2>9. \A g \in AllFields : g \in GetFieldNames(c) <=> g.obj = c
    BY <2>2, WalkAtWork, FieldsIn
  <2>10. \A g : Waiting(g)' <=> Waiting(g) \/ g \in GetFieldNames(c)
    BY <2>7, <2>8 DEF Waiting, Left, n
  <2>11. PlaceInv(o)'
    BY <1>1, <1>2, <1>4, <1>6, <1>7, <2>6, <2>9, <2>10 DEF PlaceInv
  <2>12. \A g \in GetFieldNames(c) :
            g \in AllFields /\ g \notin WrittenFields /\ g # f /\ ~Waiting(g)
    <3> SUFFICES ASSUME NEW g \in GetFieldNames(c)
                 PROVE  g \in AllFields /\ g \notin WrittenFields /\ g # f /\ ~Waiting(g)
      OBVIOUS
    <3>1. g \in AllFields /\ g.obj = c
      BY <2>2, WalkAtWork, FieldsIn
    <3> QED BY <1>1, <1>7, <2>5, <3>1 DEF PlaceInv
  <2>13. ApartInv'
    <3>1. NoField \notin WrittenFields \cup {f}
      BY <1>5, <1>7, PlacesAreFields
    <3>2. ASSUME NEW k \in 1 .. Len(frames')
          PROVE  /\ NoField \notin frames'[k].left
                 /\ \A g \in frames'[k].left :
                       /\ g \notin WrittenFields \cup {f}
                       /\ \A l \in 1 .. Len(frames') : g \in frames'[l].left => l = k
      <4>1. CASE k \in 1 .. n
        <5>1. frames'[k].left = Left(k) /\ \A g \in Left(k) : Waiting(g)
          BY <2>7, <4>1 DEF Left, Waiting, n
        <5>2. NoField \notin Left(k)
          BY <1>7, <5>1, PlacesAreFields
        <5>3. ASSUME NEW g \in Left(k)
              PROVE  /\ g \notin WrittenFields /\ g # f /\ g \notin GetFieldNames(c)
                     /\ \A l \in 1 .. n : g \in Left(l) => l = k
          BY <1>1, <1>7, <2>12, <4>1, <5>1 DEF ApartInv, n
        <5> QED BY <2>7, <2>8, <5>1, <5>2, <5>3 DEF Left
      <4>2. CASE k = n + 1
        <5>1. frames'[k].left = GetFieldNames(c)
          BY <2>7, <4>2
        <5>2. NoField \notin GetFieldNames(c)
          BY <1>7, <2>12
        <5>3. ASSUME NEW g \in GetFieldNames(c), NEW l \in 1 .. n
              PROVE  g \notin frames'[l].left
          BY <2>7, <2>12 DEF Waiting, Left, n
        <5> QED BY <2>8, <2>12, <4>2, <5>1, <5>2, <5>3
      <4> QED BY <2>8, <4>1, <4>2
    <3> QED BY <1>2, <1>4, <3>1, <3>2 DEF ApartInv, Left
  <2> QED BY <1>2, <1>7, <1>8, <2>6, <2>11, <2>13 DEF WholeFrom
<1> QED BY <1>9, <1>10

\* A call ends with nothing left.
LEMMA EndObjectKeepsWhole ==
  ASSUME JsonInv, EndObject, NEW o, WholeFrom(o)
  PROVE  WholeFrom(o)'
<1> DEFINE n == Len(frames)
<1>1. /\ frames # <<>> /\ asked' = asked /\ Top.left = {}
      /\ frames' = Below /\ objs' = objs /\ written' = written
  BY DEF EndObject, allVars, objectVars
<1>2. /\ n \in Nat \ {0} /\ Len(frames') = n - 1 /\ Left(n) = {}
      /\ \A k \in 1 .. n - 1 : frames'[k] = frames[k]
  BY <1>1, WalkAtWork, TopAndBelow DEF Top, Left
<1> HIDE DEF n
<1>3. \A k \in 1 .. n : k \in 1 .. n - 1 \/ k = n
  BY <1>2
<1>4. \A k \in 1 .. n - 1 : k \in 1 .. n
  BY <1>2
<1>5. \A f : Waiting(f)' <=> Waiting(f)
  BY <1>2, <1>3, <1>4 DEF Waiting, Left, n
<1>6. WrittenFields' = WrittenFields /\ AllFields' = AllFields /\ OnceInv'
  BY <1>1, SameWritten
<1>7. VisitedInv(o)' /\ Visited(o)' = Visited(o) /\ o \in 1 .. Len(objs')
  BY <1>1, SameWritten
<1>8. PlaceInv(o)'
  BY <1>1, <1>5, <1>6, <1>7 DEF PlaceInv, WholeFrom
<1>9. ApartInv'
  <2>1. asked' = asked /\ Len(frames') = n - 1
    BY <1>1, <1>2
  <2>2. \A k \in 1 .. n - 1 : k \in 1 .. n /\ frames'[k].left = Left(k)
    BY <1>2, <1>4 DEF Left
  <2>3. /\ asked \notin WrittenFields
        /\ \A k \in 1 .. n :
              /\ asked \notin Left(k)
              /\ \A f \in Left(k) :
                    /\ f \notin WrittenFields
                    /\ \A l \in 1 .. n : f \in Left(l) => l = k
    BY DEF ApartInv, WholeFrom, n
  <2> QED BY <1>6, <2>1, <2>2, <2>3 DEF ApartInv, Left
<1> QED BY <1>6, <1>7, <1>8, <1>9 DEF WholeFrom

\* No step of a walk breaks it.
LEMMA WalkKeepsWhole ==
  ASSUME JsonInv, Tree(objs), GoodObjects(objs'), Walk, NEW o, WholeFrom(o)
  PROVE  WholeFrom(o)'
BY AskFieldKeepsWhole, ReadsKeepsWhole, DumpJsonValueKeepsWhole, EndObjectKeepsWhole
DEF Walk

\* Neither the walk nor the objects go on.
LEMMA StutterKeepsWhole ==
  ASSUME UNCHANGED <<objs, frames, asked, written>>, NEW o, WholeFrom(o)
  PROVE  WholeFrom(o)'
<1>1. /\ WrittenFields' = WrittenFields /\ AllFields' = AllFields
      /\ Visited(o)' = Visited(o)
      /\ o \in 1 .. Len(objs') /\ VisitedInv(o)' /\ OnceInv'
  BY SameWritten
<1>2. ApartInv'
  BY <1>1 DEF WholeFrom, ApartInv, Left
<1>3. PlaceInv(o)'
  BY <1>1 DEF WholeFrom, PlaceInv, Waiting, Left
<1> QED BY <1>1, <1>2, <1>3 DEF WholeFrom

\* Nor does any other step.
LEMMA NextKeepsWhole ==
  ASSUME JsonInv, JsonInv', Tree(objs), WholeInv, [JsonNext]_jsonVars
  PROVE  WholeInv'
<1>1. GoodObjects(objs')
  BY DEF JsonInv, ObjectsInv, GoodObjects, GoodObject, Holds
<1>2. CASE Walk
  <2>1. frames # <<>>
    BY <1>2, WalkAtWork DEF Walk, AskField, Reads, DumpJsonValue, EndObject, AskedInv
  <2>2. PICK o \in 1 .. Len(objs) : WholeFrom(o)
    BY <2>1 DEF WholeInv
  <2>3. WholeFrom(o)'
    BY <1>1, <1>2, <2>2, WalkKeepsWhole
  <2>4. o \in 1 .. Len(objs')
    BY <2>3 DEF WholeFrom
  <2> QED BY <2>3, <2>4 DEF WholeInv
<1>3. CASE DumpJsonObject
  <2>1. PICK o \in 1 .. Len(objs) : frames' = <<Frame(o)>>
    BY <1>3 DEF DumpJsonObject
  <2>2. written' = <<>> /\ asked' = NoField /\ objs' = objs
    BY <1>3, WalkAtWork DEF DumpJsonObject, AskedInv, allVars, objectVars
  <2>3. WholeFrom(o)'
    BY <2>1, <2>2, WholeBegins
  <2>4. o \in 1 .. Len(objs')
    BY <2>2
  <2> QED BY <2>3, <2>4 DEF WholeInv
<1>4. CASE Application
  BY <1>4 DEF Application, WholeInv
<1>5. CASE UNCHANGED jsonVars
  <2>1. UNCHANGED <<objs, frames, asked, written>>
    BY <1>5 DEF jsonVars, allVars, objectVars, walkVars
  <2>2. ASSUME NEW o, WholeFrom(o) PROVE o \in 1 .. Len(objs') /\ WholeFrom(o)'
    BY <2>1, <2>2, StutterKeepsWhole DEF WholeFrom
  <2> QED BY <2>1, <2>2 DEF WholeInv
<1> QED BY <1>2, <1>3, <1>4, <1>5 DEF JsonNext

\* Where the walk is over, everything is in the first place.
LEMMA WholeAtTheEnd ==
  ASSUME JsonInv, frames = <<>>, NEW o, WholeFrom(o)
  PROVE  /\ Cardinality(WrittenFields) = Len(written)
         /\ WrittenFields = UNION {GetFieldNames(p) : p \in WrittenObjects \cup {o}}
<1>1. /\ asked = NoField /\ Len(frames) = 0 /\ \A f : ~Waiting(f)
      /\ NoField \notin AllFields
  <2>1. asked = NoField /\ Len(frames) = 0
    BY WalkAtWork DEF AskedInv
  <2> QED BY <2>1, PlacesAreFields DEF Waiting
<1>2. \A f \in AllFields : f.obj \in Visited(o) <=> f \in WrittenFields
  BY <1>1 DEF WholeFrom, PlaceInv
<1>3. \A p \in Visited(o) : p \in 1 .. Len(objs)
  BY WalkAtWork, LenProperties DEF WholeFrom, VisitedInv, GoodObjects
<1>4. WrittenFields = UNION {GetFieldNames(p) : p \in Visited(o)}
  <2>1. ASSUME NEW f \in WrittenFields PROVE f \in GetFieldNames(f.obj) /\ f.obj \in Visited(o)
    BY <1>2, <1>3, WalkAtWork, PlacesAreFields, FieldsIn
  <2>2. ASSUME NEW p \in Visited(o), NEW f \in GetFieldNames(p) PROVE f \in WrittenFields
    BY <1>2, <1>3, WalkAtWork, FieldsIn
  <2> QED BY <2>1, <2>2
<1>5. Cardinality(WrittenFields) = Len(written)
  <2> DEFINE n == Len(written)
             b == [i \in 1 .. n |-> written[i].field]
  <2>1. n \in Nat
    BY WalkAtWork, LenProperties DEF WrittenInv
  <2>2. \A i, j \in 1 .. n : written[j].field = written[i].field => j = i
    BY DEF WholeFrom, OnceInv
  <2>3. b \in Bijection(1 .. n, WrittenFields)
    <3>1. b \in [1 .. n -> WrittenFields]
      BY DEF WrittenFields
    <3>2. \A i, j \in 1 .. n : b[i] = b[j] => i = j
      BY <2>2
    <3>3. \A f \in WrittenFields : \E i \in 1 .. n : b[i] = f
      BY DEF WrittenFields
    <3> HIDE DEF b, n
    <3> QED BY <3>1, <3>2, <3>3 DEF Bijection, Injection, Surjection, IsInjective
  <2>4. ExistsBijection(1 .. n, WrittenFields)
    BY <2>3 DEF ExistsBijection
  <2> QED BY <2>1, <2>4, FS_CountingElements
<1> QED BY <1>4, <1>5 DEF Visited

\* A dump makes objects, and they stay a tree.
LEMMA JsonKeepsTree ==
  ASSUME JsonInv, Tree(objs), [JsonNext]_jsonVars
  PROVE  Tree(objs')
<1>1. [ObjectsNext]_allVars /\ ObjectsInv
  BY WalkStepsAreCalls DEF JsonInv
<1> QED BY <1>1, NextKeepsTree

\* What a program that only walks over the first object needs to know.
LEMMA RootDumpBegins ==
  ASSUME JsonInv, Tree(objs), Len(objs) = 1, DumpJsonObject
  PROVE  JsonInv' /\ Tree(objs') /\ WholeFrom(1)'
<1>1. PICK o \in 1 .. Len(objs) : frames' = <<Frame(o)>>
  BY DEF DumpJsonObject
<1>2. o = 1
  OBVIOUS
<1>3. written' = <<>> /\ asked' = NoField /\ objs' = objs
  BY WalkAtWork DEF DumpJsonObject, AskedInv, allVars, objectVars
<1>4. WholeFrom(1)'
  BY <1>1, <1>2, <1>3, WholeBegins
<1> QED BY <1>4, NextKeepsJsonInv, JsonKeepsTree DEF JsonNext

LEMMA RootDumpGoesOn ==
  ASSUME JsonInv, Tree(objs), WholeFrom(1), Walk
  PROVE  JsonInv' /\ Tree(objs') /\ WholeFrom(1)'
<1>1. JsonInv' /\ Tree(objs')
  BY NextKeepsJsonInv, JsonKeepsTree DEF JsonNext
<1>2. GoodObjects(objs')
  BY <1>1 DEF JsonInv, ObjectsInv, GoodObjects, GoodObject, Holds
<1> QED BY <1>1, <1>2, WalkKeepsWhole

LEMMA RootDumpEnds ==
  ASSUME JsonInv, WholeFrom(1), frames = <<>>
  PROVE  DumpIsWhole /\ GetFieldNames(1) \subseteq WrittenFields
<1>1. /\ Cardinality(WrittenFields) = Len(written)
      /\ WrittenFields = UNION {GetFieldNames(p) : p \in WrittenObjects \cup {1}}
  BY WholeAtTheEnd
<1>2. 1 \in 1 .. Len(objs)
  BY DEF WholeFrom
<1> QED BY <1>1, <1>2 DEF DumpIsWhole

\* A walk that is over has written every field of the object it began with, and
\* of the objects it has written, and none of them twice, however often a call
\* of the file failed and whatever was cached before.
THEOREM DumpWritesAll == JsonSpec => []DumpIsWhole
<1>1. JsonInit => WholeInv /\ Tree(objs)
  BY NoTree DEF JsonInit, WalkInit, ObjectsInit, WholeInv
<1>2. JsonInv /\ JsonInv' /\ Tree(objs) /\ WholeInv /\ [JsonNext]_jsonVars
        => (WholeInv /\ Tree(objs))'
  BY NextKeepsWhole, JsonKeepsTree
<1>3. JsonInv /\ WholeInv => DumpIsWhole
  BY WholeAtTheEnd DEF WholeInv, DumpIsWhole
<1> QED BY <1>1, <1>2, <1>3, JsonInvariant, PTL DEF JsonSpec

=============================================================================
