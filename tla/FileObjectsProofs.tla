------------------------- MODULE FileObjectsProofs --------------------------
(***************************************************************************)
(* Proofs that the lazily parsed objects hold what the file has, for every *)
(* file, every set of definitions and every order in which their fields    *)
(* are asked for.                                                          *)
(*                                                                         *)
(* ValueCorrect is not inductive: a value is taken from the bytes that     *)
(* GetBuffer returned two steps after the seek, so that the invariant has  *)
(* to say where the shared reader stands while a call is in progress, what *)
(* EnsureBuffer has left ahead of it, and that the fields still lie where  *)
(* the definition puts them.  ObjectsInv puts this on top of WindowInv.    *)
(***************************************************************************)
EXTENDS FileObjects, BufferedReaderProofs, Induction

FieldInfo == [object : Types \cup {NoType}, size : Nat]
Bytes == Seq(Byte \cup {Uninit})
ParsedField == [offset : Nat, value : [bytes : Bytes, object : Nat]]
ObjectType == [type : Types, start : Nat, fields : Seq(ParsedField)]

\* field, of a definition's field info, holds nothing or what the file has at
\* its offset; os are the objects there are.
Holds(os, info, field) ==
    field.value # NoValue =>
        IF info.object = NoType
        THEN /\ ByteCount(field.offset) + info.size <= FileSize
             /\ field.value = BytesValue(FileBytes(ByteCount(field.offset), info.size))
        ELSE /\ field.value = ObjectValue(field.value.object)
             /\ field.value.object \in 1 .. Len(os)
             /\ os[field.value.object].type = info.object
             /\ os[field.value.object].start = field.offset

\* The fields of object o lie where its definition lays them out from a whole
\* byte on, and hold what they should.
GoodObject(os, o) ==
    /\ Len(os[o].fields) = Len(Fields[os[o].type])
    /\ os[o].start % 8 = 0
    /\ \A i \in 1 .. Len(os[o].fields) :
          /\ os[o].fields[i].offset =
                 os[o].start + FromBytes(FieldOffset(os[o].type, i))
          /\ Holds(os, Fields[os[o].type][i], os[o].fields[i])

GoodObjects(os) ==
    /\ os \in Seq(ObjectType)
    /\ \A o \in 1 .. Len(os) : GoodObject(os, o)

-----------------------------------------------------------------------------
(***************************************************************************)
(* Where the fields lie.                                                   *)
(***************************************************************************)

\* Each field of a definition starts where the one before it ends.
LEMMA OffsetsAddUp ==
  ASSUME NEW t \in Types
  PROVE  /\ \A i \in 1 .. Len(Fields[t]) + 1 : FieldOffset(t, i) \in Nat
         /\ FieldOffset(t, 1) = 0
         /\ \A i \in 1 .. Len(Fields[t]) :
               FieldOffset(t, i + 1) = FieldOffset(t, i) + Fields[t][i].size
<1> DEFINE L == Len(Fields[t])
           size == [i \in 1 .. L |-> Fields[t][i].size]
           Sums(u) == u = [n \in 1 .. L + 1 |->
                             IF n = 1 THEN 0 ELSE u[n - 1] + Fields[t][n - 1].size]
           step == [p \in Nat \X (1 .. L) |-> p[1] + size[p[2]]]
<1>1. L \in Nat /\ \A i \in 1 .. L : Fields[t][i].size \in Nat
  <2>1. Fields[t] \in Seq(FieldInfo)
    BY FieldsAssumption DEF FieldInfo
  <2>2. L \in Nat
    BY <2>1, LenProperties
  <2>3. \A i \in 1 .. L : Fields[t][i] \in FieldInfo
    BY <2>1, ElementOfSeq
  <2> QED BY <2>2, <2>3 DEF FieldInfo
<1>2. step \in [Nat \X (1 .. L) -> Nat]
  BY <1>1
<1>3. \A v \in Nat, i \in 1 .. L : step[<<v, i>>] = v + Fields[t][i].size
  BY <1>1
<1>a. L = Len(Fields[t])
  OBVIOUS
<1> HIDE DEF step, L
<1>4. PICK f \in [0 .. L -> Nat] : Recursion(f, 0, step, L)
  <2>1. 0 \in Nat
    OBVIOUS
  <2> QED BY <1>1, <1>2, <2>1, RecursionExists, Zenon
<1> DEFINE g == [n \in 1 .. L + 1 |-> f[n - 1]]
<1>5. Sums(g)
  <2>1. ASSUME NEW n \in 1 .. L + 1, n # 1
        PROVE  f[n - 1] = g[n - 1] + Fields[t][n - 1].size
    <3>1. n - 1 \in 1 .. L /\ n - 1 \in 1 .. L + 1 /\ n - 2 \in 0 .. L
      BY <1>1, <2>1
    <3>2. g[n - 1] = f[n - 2]
      BY <3>1
    <3>3. f[n - 1] = step[<<f[n - 2], n - 1>>]
      BY <1>4, <3>1 DEF Recursion
    <3> QED BY <1>3, <1>4, <3>1, <3>2, <3>3
  <2>2. f[0] = 0 /\ 1 - 1 = 0
    BY <1>4 DEF Recursion
  <2> QED BY <2>1, <2>2
<1> HIDE DEF g
<1> DEFINE U == CHOOSE u : Sums(u)
<1>6. Sums(U)
  BY <1>5, Zenon
<1>7. \A i : FieldOffset(t, i) = U[i]
  BY Zenon DEF FieldOffset, L
<1> HIDE DEF U
<1>8. \A i \in 1 .. L + 1 :
         U[i] = IF i = 1 THEN 0 ELSE U[i - 1] + Fields[t][i - 1].size
  BY <1>6
<1>9. \A i \in 0 .. L : U[i + 1] \in Nat
  <2> DEFINE T == {n \in 0 .. L : U[n + 1] \in Nat}
  <2>1. 0 \in T
    BY <1>1, <1>8
  <2>2. ASSUME NEW n \in 0 .. L - 1, n \in T PROVE n + 1 \in T
    <3>1. n + 1 \in 1 .. L /\ n + 2 \in 1 .. L + 1 /\ n + 2 # 1 /\ (n + 2) - 1 = n + 1
      BY <1>1
    <3>2. U[n + 2] = U[n + 1] + Fields[t][n + 1].size
      BY <1>8, <3>1
    <3>3. n + 1 \in 0 .. L /\ (n + 1) + 1 = n + 2
      BY <3>1
    <3> QED BY <1>1, <2>2, <3>1, <3>2, <3>3
  <2> HIDE DEF T
  <2>3. \A n \in 0 .. L : n \in T
    BY <1>1, <2>1, <2>2, IntervalInduction
  <2> QED BY <2>3 DEF T
<1>10. \A i \in 1 .. L + 1 : U[i] \in Nat
  <2>1. \A i \in 1 .. L + 1 : i - 1 \in 0 .. L /\ (i - 1) + 1 = i
    BY <1>1
  <2> QED BY <1>9, <2>1
<1>11. U[1] = 0
  BY <1>1, <1>8
<1>12. \A i \in 1 .. L : U[i + 1] = U[i] + Fields[t][i].size
  <2>1. \A i \in 1 .. L : i + 1 \in 1 .. L + 1 /\ i + 1 # 1 /\ (i + 1) - 1 = i
    BY <1>1
  <2> QED BY <1>8, <2>1
<1> QED BY <1>7, <1>10, <1>11, <1>12, <1>a

-----------------------------------------------------------------------------
(***************************************************************************)
(* What may be done to the objects.                                        *)
(***************************************************************************)

\* What is known of a field of an object.
LEMMA FieldFacts ==
  ASSUME NEW os, GoodObjects(os), NEW o \in 1 .. Len(os),
         NEW i \in 1 .. Len(os[o].fields)
  PROVE  /\ os[o].type \in Types /\ os[o].start \in Nat
         /\ os[o].fields \in Seq(ParsedField)
         /\ i \in 1 .. Len(Fields[os[o].type])
         /\ Fields[os[o].type][i] \in FieldInfo
         /\ os[o].fields[i] \in ParsedField
         /\ os[o].fields[i].offset \in Nat /\ os[o].fields[i].offset % 8 = 0
         /\ Holds(os, Fields[os[o].type][i], os[o].fields[i])
<1>1. os[o] \in ObjectType
  BY ElementOfSeq DEF GoodObjects
<1>2. os[o].type \in Types /\ os[o].start \in Nat /\ os[o].fields \in Seq(ParsedField)
  BY <1>1 DEF ObjectType
<1>3. GoodObject(os, o)
  BY DEF GoodObjects
<1>4. i \in 1 .. Len(Fields[os[o].type])
  BY <1>3 DEF GoodObject
<1>5. Fields[os[o].type][i] \in FieldInfo
  <2>1. Fields[os[o].type] \in Seq(FieldInfo)
    BY <1>2, FieldsAssumption DEF FieldInfo
  <2> QED BY <1>4, <2>1, ElementOfSeq
<1>6. os[o].fields[i] \in ParsedField
  BY <1>2, ElementOfSeq
<1>7. os[o].fields[i].offset \in Nat /\ os[o].fields[i].offset % 8 = 0
  <2>1. i \in 1 .. Len(Fields[os[o].type]) + 1
    <3>1. Fields[os[o].type] \in Seq(FieldInfo)
      BY <1>2, FieldsAssumption DEF FieldInfo
    <3>2. Len(Fields[os[o].type]) \in Nat
      BY <3>1, LenProperties
    <3> QED BY <1>4, <3>2
  <2>2. FieldOffset(os[o].type, i) \in Nat
    BY <1>2, <2>1, OffsetsAddUp
  <2>3. os[o].fields[i].offset = os[o].start + FromBytes(FieldOffset(os[o].type, i))
    BY <1>3 DEF GoodObject
  <2> QED BY <1>2, <1>3, <2>2, <2>3 DEF GoodObject, FromBytes
<1>8. Holds(os, Fields[os[o].type][i], os[o].fields[i])
  BY <1>3 DEF GoodObject
<1> QED BY <1>2, <1>4, <1>5, <1>6, <1>7, <1>8

\* What a field holds stays right while objects are only added.
LEMMA HoldsStays ==
  ASSUME NEW os \in Seq(ObjectType), NEW ns \in Seq(ObjectType),
         Len(os) <= Len(ns),
         \A o \in 1 .. Len(os) : ns[o].type = os[o].type /\ ns[o].start = os[o].start,
         NEW info, NEW field, Holds(os, info, field)
  PROVE  Holds(ns, info, field)
<1>1. Len(os) \in Nat /\ Len(ns) \in Nat
  BY LenProperties
<1>2. \A o \in 1 .. Len(os) : o \in 1 .. Len(ns)
  BY <1>1
<1> QED BY <1>2, Zenon DEF Holds

\* fields, as those of object o, lie where those do and hold what they should.
Fit(os, o, fields) ==
    /\ fields \in Seq(ParsedField)
    /\ Len(fields) = Len(os[o].fields)
    /\ \A i \in 1 .. Len(fields) :
          /\ fields[i].offset = os[o].fields[i].offset
          /\ Holds(os, Fields[os[o].type][i], fields[i])

\* ns are the objects os with the fields of one of them replaced.
Replaced(ns, os, o, fields) ==
    /\ Len(ns) = Len(os)
    /\ ns[o].fields = fields
    /\ \A q \in 1 .. Len(os) :
          /\ ns[q].type = os[q].type
          /\ ns[q].start = os[q].start
          /\ q # o => ns[q] = os[q]

\* The fields of one object are replaced by others in the same places.
LEMMA FieldsReplaced ==
  ASSUME NEW os, GoodObjects(os), NEW o \in 1 .. Len(os), NEW fields, Fit(os, o, fields)
  PROVE  /\ GoodObjects([os EXCEPT ![o].fields = fields])
         /\ Replaced([os EXCEPT ![o].fields = fields], os, o, fields)
<1> USE DEF Fit
<1> DEFINE new == [os[o] EXCEPT !.fields = fields]
           ns == [os EXCEPT ![o] = new]
<1>1. os \in Seq(ObjectType) /\ os[o] \in ObjectType
  BY ElementOfSeq DEF GoodObjects
<1>2. /\ new \in ObjectType /\ new.fields = fields
      /\ new.type = os[o].type /\ new.start = os[o].start
  BY <1>1 DEF ObjectType
<1> HIDE DEF new
<1>3. /\ ns \in Seq(ObjectType) /\ Len(ns) = Len(os)
      /\ \A q \in 1 .. Len(os) : ns[q] = IF q = o THEN new ELSE os[q]
  BY <1>1, <1>2, ExceptSeq
<1>4. ns = [os EXCEPT ![o].fields = fields]
  BY <1>1 DEF new
<1> HIDE DEF ns
<1>5. \A q \in 1 .. Len(os) : ns[q].type = os[q].type /\ ns[q].start = os[q].start
  BY <1>2, <1>3
<1>6. ASSUME NEW q \in 1 .. Len(ns) PROVE GoodObject(ns, q)
  <2>1. q \in 1 .. Len(os) /\ GoodObject(os, q)
    BY <1>3 DEF GoodObjects
  <2>2. Len(ns) \in Nat /\ Len(os) <= Len(ns)
    BY <1>3, LenProperties
  <2>3. ASSUME NEW i, Holds(os, Fields[os[q].type][i], ns[q].fields[i])
        PROVE  Holds(ns, Fields[os[q].type][i], ns[q].fields[i])
    BY <1>1, <1>3, <1>5, <2>2, <2>3, HoldsStays
  <2>4. CASE q = o
    <3>1. ns[q].fields = fields /\ ns[q].type = os[q].type /\ ns[q].start = os[q].start
      BY <1>2, <1>3, <2>1, <2>4
    <3> QED BY <2>1, <2>3, <2>4, <3>1 DEF GoodObject
  <2>5. CASE q # o
    <3>1. ns[q] = os[q]
      BY <1>3, <2>1, <2>5
    <3> QED BY <2>1, <2>3, <3>1 DEF GoodObject
  <2> QED BY <2>4, <2>5
<1>7. GoodObjects(ns)
  BY <1>3, <1>6 DEF GoodObjects
<1>8. ns[o].fields = fields
  BY <1>2, <1>3
<1>9. \A q \in 1 .. Len(os) : /\ ns[q].type = os[q].type
                              /\ ns[q].start = os[q].start
                              /\ q # o => ns[q] = os[q]
  BY <1>3, <1>5
<1> QED BY <1>3, <1>4, <1>7, <1>8, <1>9, Zenon DEF Replaced

\* The fields of a definition, laid out from a whole byte on and empty.
LEMMA LayoutIsEmpty ==
  ASSUME NEW t \in Types, NEW at \in Nat
  PROVE  /\ Layout(t, at) \in Seq(ParsedField)
         /\ Len(Layout(t, at)) = Len(Fields[t])
         /\ \A i \in 1 .. Len(Fields[t]) :
               /\ Layout(t, at)[i].offset = at + FromBytes(FieldOffset(t, i))
               /\ Layout(t, at)[i].value = NoValue
<1>1. Len(Fields[t]) \in Nat
  <2>1. Fields[t] \in Seq(FieldInfo)
    BY FieldsAssumption DEF FieldInfo
  <2> QED BY <2>1, LenProperties
<1>2. \A i \in 1 .. Len(Fields[t]) : at + FromBytes(FieldOffset(t, i)) \in Nat
  <2>1. \A i \in 1 .. Len(Fields[t]) : i \in 1 .. Len(Fields[t]) + 1
    BY <1>1
  <2>2. \A i \in 1 .. Len(Fields[t]) : FieldOffset(t, i) \in Nat
    BY <2>1, OffsetsAddUp
  <2> QED BY <2>2 DEF FromBytes
<1>3. NoValue \in [bytes : Bytes, object : Nat]
  <2>1. <<>> \in Bytes
    BY DEF Bytes
  <2> QED BY <2>1 DEF NoValue
<1>4. Layout(t, at) \in [1 .. Len(Fields[t]) -> ParsedField]
  BY <1>2, <1>3 DEF Layout, ParsedField
<1>5. Layout(t, at) \in Seq(ParsedField) /\ Len(Layout(t, at)) = Len(Fields[t])
  BY <1>1, <1>4, SequenceFromFunction
<1> QED BY <1>5 DEF Layout

\* An object is added behind the others.
LEMMA ObjectAdded ==
  ASSUME NEW os, GoodObjects(os), NEW t \in Types, NEW at \in Nat, at % 8 = 0
  PROVE  /\ GoodObjects(os \o <<Object(t, at)>>)
         /\ Len(os \o <<Object(t, at)>>) = Len(os) + 1
         /\ Len(os) \in Nat
         /\ \A o \in 1 .. Len(os) : (os \o <<Object(t, at)>>)[o] = os[o]
         /\ (os \o <<Object(t, at)>>)[Len(os) + 1].type = t
         /\ (os \o <<Object(t, at)>>)[Len(os) + 1].start = at
         /\ (os \o <<Object(t, at)>>)[Len(os) + 1].fields = Layout(t, at)
<1> DEFINE new == Object(t, at)
           ns  == os \o <<new>>
<1>1. /\ new \in ObjectType /\ new.type = t /\ new.start = at
      /\ new.fields = Layout(t, at)
  BY LayoutIsEmpty DEF Object, ObjectType
<1> HIDE DEF new
<1>2. os \in Seq(ObjectType) /\ Len(os) \in Nat
  BY LenProperties DEF GoodObjects
<1>3. /\ ns \in Seq(ObjectType) /\ Len(ns) = Len(os) + 1
      /\ \A o \in 1 .. Len(os) : ns[o] = os[o]
      /\ ns[Len(os) + 1] = new
  <2>1. <<new>> \in Seq(ObjectType) /\ Len(<<new>>) = 1 /\ <<new>>[1] = new
    BY <1>1
  <2>2. /\ ns \in Seq(ObjectType) /\ Len(ns) = Len(os) + 1
        /\ \A o \in 1 .. Len(os) + 1 :
              ns[o] = IF o <= Len(os) THEN os[o] ELSE <<new>>[o - Len(os)]
    BY <1>2, <2>1, ConcatProperties
  <2> HIDE DEF ns
  <2>3. (Len(os) + 1) - Len(os) = 1 /\ Len(os) + 1 \in 1 .. Len(os) + 1
    BY <1>2
  <2>4. ns[Len(os) + 1] = new
    BY <1>2, <2>1, <2>2, <2>3
  <2>5. \A o \in 1 .. Len(os) : ns[o] = os[o]
    BY <1>2, <2>2
  <2> QED BY <2>2, <2>4, <2>5
<1> HIDE DEF ns
<1>4. ASSUME NEW o \in 1 .. Len(ns) PROVE GoodObject(ns, o)
  <2>1. CASE o \in 1 .. Len(os)
    <3>1. GoodObject(os, o) /\ ns[o] = os[o]
      BY <1>3, <2>1 DEF GoodObjects
    <3>2. Len(os) <= Len(ns)
      BY <1>2, <1>3
    <3>3. ASSUME NEW i, Holds(os, Fields[os[o].type][i], os[o].fields[i])
          PROVE  Holds(ns, Fields[os[o].type][i], os[o].fields[i])
      BY <1>2, <1>3, <3>2, <3>3, HoldsStays
    <3> QED BY <3>1, <3>3 DEF GoodObject
  <2>2. CASE o = Len(os) + 1
    <3>1. ns[o].type = t /\ ns[o].start = at /\ ns[o].fields = Layout(t, at)
      BY <1>1, <1>3, <2>2
    <3> QED BY <3>1, LayoutIsEmpty DEF GoodObject, Holds
  <2>3. o \in 1 .. Len(os) \/ o = Len(os) + 1
    BY <1>2, <1>3
  <2> QED BY <2>1, <2>2, <2>3
<1>5. GoodObjects(ns)
  BY <1>3, <1>4 DEF GoodObjects
<1> QED BY <1>1, <1>2, <1>3, <1>5 DEF ns, new

\* The first bytes of a part of the file.
LEMMA FirstBytes ==
  ASSUME NEW from \in Nat, NEW n \in Nat, from + n <= FileSize,
         NEW size \in Nat, size <= n
  PROVE  /\ SubSeq(FileBytes(from, n), 1, size) = FileBytes(from, size)
         /\ FileBytes(from, size) \in Bytes
         /\ Len(FileBytes(from, size)) = size
<1>1. FileSize \in Nat /\ File \in [0 .. FileSize - 1 -> Byte]
  BY FileAssumption
<1>2. \A i \in 1 .. n : from + i - 1 \in 0 .. FileSize - 1
  BY <1>1
<1>3. \A i \in 1 .. n : File[from + i - 1] \in Byte
  BY <1>1, <1>2
<1>4. \A i \in 1 .. size : i \in 1 .. n
  OBVIOUS
<1>5. FileBytes(from, size) \in [1 .. size -> Byte \cup {Uninit}]
  BY <1>3, <1>4 DEF FileBytes
<1>6. FileBytes(from, size) \in Bytes /\ Len(FileBytes(from, size)) = size
  BY <1>5, SequenceFromFunction DEF Bytes
<1> DEFINE s == FileBytes(from, n)
<1>7. /\ \A i \in 1 .. size : s[i] \in Byte \cup {Uninit}
      /\ \A i \in 1 .. size : s[i] = File[from + i - 1]
  BY <1>3, <1>4 DEF FileBytes
<1>8. \A i \in 1 .. size : FileBytes(from, size)[i] = File[from + i - 1]
  BY DEF FileBytes
<1> HIDE DEF s
<1>9. /\ SubSeq(s, 1, size) \in Bytes /\ Len(SubSeq(s, 1, size)) = size
      /\ \A i \in 1 .. size : SubSeq(s, 1, size)[i] = s[i]
  <2>1. size - 1 + 1 = size /\ size \in Int /\ 1 \in Int /\ (~(1 <= size) => size = 0)
    OBVIOUS
  <2>2. /\ SubSeq(s, 1, size) \in Seq(Byte \cup {Uninit})
        /\ Len(SubSeq(s, 1, size)) = IF 1 <= size THEN size - 1 + 1 ELSE 0
        /\ \A i \in 1 .. size - 1 + 1 : SubSeq(s, 1, size)[i] = s[1 + i - 1]
    BY <1>7, <2>1, SubSeqProperties
  <2>3. \A i \in 1 .. size : 1 + i - 1 = i
    OBVIOUS
  <2> QED BY <2>1, <2>2, <2>3 DEF Bytes
<1>10. SubSeq(s, 1, size) = FileBytes(from, size)
  BY <1>6, <1>7, <1>8, <1>9, SeqEqual DEF Bytes
<1> QED BY <1>6, <1>10 DEF s

\* ns are the objects os, and maybe more, with a value for a field of one.
ValueGiven(ns, os, o, i, value) ==
    /\ ns[o].fields[i].value = value
    /\ \A q \in 1 .. Len(os) :
          /\ ns[q].type = os[q].type /\ ns[q].start = os[q].start
          /\ Len(ns[q].fields) = Len(os[q].fields)
          /\ \A j \in 1 .. Len(os[q].fields) :
                /\ ns[q].fields[j].offset = os[q].fields[j].offset
                /\ <<q, j>> # <<o, i>> => ns[q].fields[j] = os[q].fields[j]

\* One field of an object is given a value.
LEMMA ValueSet ==
  ASSUME NEW os, GoodObjects(os), NEW o \in 1 .. Len(os),
         NEW i \in 1 .. Len(os[o].fields),
         NEW value \in [bytes : Bytes, object : Nat],
         Holds(os, Fields[os[o].type][i],
               [offset |-> os[o].fields[i].offset, value |-> value])
  PROVE  LET ns == [os EXCEPT ![o].fields[i].value = value]
         IN  /\ GoodObjects(ns) /\ Len(ns) = Len(os)
             /\ ValueGiven(ns, os, o, i, value)
<1> DEFINE field  == [offset |-> os[o].fields[i].offset, value |-> value]
           fields == [os[o].fields EXCEPT ![i] = field]
           ns     == [os EXCEPT ![o].fields = fields]
<1>1. /\ os \in Seq(ObjectType) /\ os[o] \in ObjectType
      /\ os[o].fields \in Seq(ParsedField)
      /\ os[o].fields[i] \in ParsedField
  <2>1. os \in Seq(ObjectType) /\ os[o] \in ObjectType
    BY ElementOfSeq DEF GoodObjects
  <2> QED BY <2>1, FieldFacts
<1>2. field \in ParsedField /\ field.value = value
      /\ field.offset = os[o].fields[i].offset
  BY <1>1 DEF ParsedField
<1>3. field = [os[o].fields[i] EXCEPT !.value = value]
  <2> DEFINE Values == [bytes : Bytes, object : Nat]
  <2>1. os[o].fields[i] \in [offset : Nat, value : Values]
    BY <1>1 DEF ParsedField
  <2> HIDE DEF Values
  <2> QED BY <2>1
<1> HIDE DEF field
<1>4. /\ fields \in Seq(ParsedField) /\ Len(fields) = Len(os[o].fields)
      /\ \A j \in 1 .. Len(os[o].fields) :
            fields[j] = IF j = i THEN field ELSE os[o].fields[j]
  BY <1>1, <1>2, ExceptSeq
<1>5. ns = [os EXCEPT ![o].fields[i].value = value]
  <2>1. [os EXCEPT ![o].fields[i].value = value] =
           [os EXCEPT ![o] = [os[o] EXCEPT !.fields =
              [os[o].fields EXCEPT ![i] = [os[o].fields[i] EXCEPT !.value = value]]]]
    BY Zenon
  <2>2. ns = [os EXCEPT ![o] = [os[o] EXCEPT !.fields =
                [os[o].fields EXCEPT ![i] = field]]]
    BY Zenon
  <2> QED BY <1>3, <2>1, <2>2, Zenon
<1> HIDE DEF fields
<1>6. \A j \in 1 .. Len(fields) :
         /\ fields[j].offset = os[o].fields[j].offset
         /\ Holds(os, Fields[os[o].type][j], fields[j])
  BY <1>2, <1>4, FieldFacts DEF field
<1>7. /\ GoodObjects(ns) /\ Len(ns) = Len(os) /\ ns[o].fields = fields
      /\ \A q \in 1 .. Len(os) : /\ ns[q].type = os[q].type
                                 /\ ns[q].start = os[q].start
                                 /\ q # o => ns[q] = os[q]
  <2>1. Fit(os, o, fields)
    BY <1>4, <1>6 DEF Fit
  <2>2. GoodObjects(ns) /\ Replaced(ns, os, o, fields)
    BY <2>1, FieldsReplaced
  <2> QED BY <2>2 DEF Replaced
<1> HIDE DEF ns
<1>8. ns[o].fields[i].value = value
  BY <1>2, <1>4, <1>7
<1>9. ASSUME NEW q \in 1 .. Len(os)
      PROVE  /\ Len(ns[q].fields) = Len(os[q].fields)
             /\ \A j \in 1 .. Len(os[q].fields) :
                   /\ ns[q].fields[j].offset = os[q].fields[j].offset
                   /\ <<q, j>> # <<o, i>> => ns[q].fields[j] = os[q].fields[j]
  <2>1. CASE q = o
    BY <1>4, <1>6, <1>7, <2>1
  <2>2. CASE q # o
    BY <1>7, <2>2
  <2> QED BY <2>1, <2>2
<1> QED BY <1>5, <1>7, <1>8, <1>9 DEF ValueGiven

\* The objects after EnsureField, with the value it keeps and the object it
\* may have made.
LEMMA ValueKept ==
  ASSUME NEW os, GoodObjects(os), NEW o \in 1 .. Len(os),
         NEW i \in 1 .. Len(os[o].fields),
         NEW value \in [bytes : Bytes, object : Nat],
         NEW t \in Types, NEW at \in Nat, at % 8 = 0,
         Holds(os \o <<Object(t, at)>>, Fields[os[o].type][i],
               [offset |-> os[o].fields[i].offset, value |-> value])
  PROVE  LET ns == [os EXCEPT ![o].fields[i].value = value] \o <<Object(t, at)>>
         IN  /\ GoodObjects(ns) /\ Len(ns) = Len(os) + 1
             /\ ValueGiven(ns, os, o, i, value)
             /\ ns[Len(os) + 1].fields = Layout(t, at)
<1> DEFINE x    == Object(t, at)
           base == os \o <<x>>
           e    == [os[o] EXCEPT !.fields =
                      [os[o].fields EXCEPT ![i] =
                         [os[o].fields[i] EXCEPT !.value = value]]]
           ns   == [base EXCEPT ![o].fields[i].value = value]
<1>1. /\ GoodObjects(base) /\ Len(base) = Len(os) + 1 /\ Len(os) \in Nat
      /\ \A q \in 1 .. Len(os) : base[q] = os[q]
      /\ base[Len(os) + 1].fields = Layout(t, at)
  BY ObjectAdded
<1>2. os \in Seq(ObjectType) /\ os[o] \in ObjectType /\ x \in ObjectType
  <2>1. os \in Seq(ObjectType)
    BY DEF GoodObjects
  <2>2. x \in ObjectType
    BY LayoutIsEmpty DEF Object, ObjectType
  <2> QED BY <2>1, <2>2, ElementOfSeq
<1> HIDE DEF x, base
<1>3. /\ GoodObjects(ns) /\ Len(ns) = Len(base)
      /\ ValueGiven(ns, base, o, i, value)
  <2>1. o \in 1 .. Len(base) /\ base[o] = os[o]
    BY <1>1
  <2>2. Holds(base, Fields[base[o].type][i],
              [offset |-> base[o].fields[i].offset, value |-> value])
    BY <2>1, Zenon DEF base, x
  <2>3. i \in 1 .. Len(base[o].fields)
    BY <2>1
  <2> QED BY <1>1, <2>1, <2>2, <2>3, ValueSet, Zenon
<1>4. e \in ObjectType
  <2> DEFINE Values == [bytes : Bytes, object : Nat]
             field  == [os[o].fields[i] EXCEPT !.value = value]
             fields == [os[o].fields EXCEPT ![i] = field]
  <2>1. os[o].fields \in Seq(ParsedField) /\ os[o].fields[i] \in ParsedField
    BY FieldFacts
  <2>2. os[o].fields[i] \in [offset : Nat, value : Values] /\ value \in Values
    BY <2>1 DEF ParsedField
  <2> HIDE DEF Values
  <2>3. field \in [offset : Nat, value : Values]
    BY <2>2
  <2>4. field \in ParsedField
    BY <2>3 DEF ParsedField, Values
  <2> HIDE DEF field
  <2>5. fields \in Seq(ParsedField)
    BY <2>1, <2>4, ExceptSeq
  <2> HIDE DEF fields
  <2>6. [os[o] EXCEPT !.fields = fields] \in ObjectType
    BY <1>2, <2>5 DEF ObjectType
  <2> QED BY <2>6 DEF fields, field
<1>5. ns = [os EXCEPT ![o].fields[i].value = value] \o <<x>>
  <2>1. ns = [base EXCEPT ![o] = [base[o] EXCEPT !.fields =
               [base[o].fields EXCEPT ![i] = [base[o].fields[i] EXCEPT !.value = value]]]]
    BY Zenon
  <2>2. base[o] = os[o]
    BY <1>1
  <2>3. ns = [base EXCEPT ![o] = e]
    BY <2>1, <2>2, Zenon
  <2>4. [os EXCEPT ![o].fields[i].value = value] = [os EXCEPT ![o] = e]
    BY Zenon
  <2> HIDE DEF ns, e
  <2>5. [base EXCEPT ![o] = e] = [os EXCEPT ![o] = e] \o <<x>>
    <3> DEFINE s == [os EXCEPT ![o] = e]
               u == [base EXCEPT ![o] = e]
    <3>1. s \in Seq(ObjectType) /\ Len(s) = Len(os)
          /\ \A q \in 1 .. Len(os) : s[q] = IF q = o THEN e ELSE os[q]
      BY <1>2, <1>4, ExceptSeq
    <3>2. u \in Seq(ObjectType) /\ Len(u) = Len(base)
          /\ \A q \in 1 .. Len(base) : u[q] = IF q = o THEN e ELSE base[q]
      <4>1. base \in Seq(ObjectType) /\ o \in 1 .. Len(base)
        BY <1>1 DEF GoodObjects
      <4> QED BY <1>4, <4>1, ExceptSeq
    <3>3. <<x>> \in Seq(ObjectType) /\ Len(<<x>>) = 1 /\ <<x>>[1] = x
      BY <1>2
    <3> HIDE DEF s, u
    <3>4. /\ s \o <<x>> \in Seq(ObjectType) /\ Len(s \o <<x>>) = Len(os) + 1
          /\ \A q \in 1 .. Len(os) + 1 :
                (s \o <<x>>)[q] = IF q <= Len(os) THEN s[q] ELSE <<x>>[q - Len(os)]
      BY <3>1, <3>3, ConcatProperties
    <3>5. \A q \in 1 .. Len(os) + 1 :
             base[q] = IF q <= Len(os) THEN os[q] ELSE <<x>>[q - Len(os)]
      BY <1>2, <3>3, ConcatProperties DEF base
    <3>6. \A q \in 1 .. Len(u) : u[q] = (s \o <<x>>)[q]
      BY <1>1, <3>1, <3>2, <3>4, <3>5
    <3>7. Len(u) = Len(s \o <<x>>)
      BY <1>1, <3>2, <3>4
    <3> QED BY <3>2, <3>4, <3>6, <3>7, SeqEqual DEF s, u
  <2> QED BY <2>3, <2>4, <2>5
<1> HIDE DEF ns
<1>6. ValueGiven(ns, os, o, i, value)
  <2>1. \A q \in 1 .. Len(os) : q \in 1 .. Len(base) /\ base[q] = os[q]
    BY <1>1
  <2>2. ns[o].fields[i].value = value
    BY <1>3 DEF ValueGiven
  <2>3. ASSUME NEW q \in 1 .. Len(os)
        PROVE  /\ ns[q].type = os[q].type /\ ns[q].start = os[q].start
               /\ Len(ns[q].fields) = Len(os[q].fields)
               /\ \A j \in 1 .. Len(os[q].fields) :
                     /\ ns[q].fields[j].offset = os[q].fields[j].offset
                     /\ <<q, j>> # <<o, i>> => ns[q].fields[j] = os[q].fields[j]
    <3>1. q \in 1 .. Len(base) /\ base[q] = os[q]
      BY <2>1
    <3>2. /\ ns[q].type = base[q].type /\ ns[q].start = base[q].start
          /\ Len(ns[q].fields) = Len(base[q].fields)
          /\ \A j \in 1 .. Len(base[q].fields) :
                /\ ns[q].fields[j].offset = base[q].fields[j].offset
                /\ <<q, j>> # <<o, i>> => ns[q].fields[j] = base[q].fields[j]
      BY <1>3, <3>1, Zenon DEF ValueGiven
    <3> QED BY <3>1, <3>2
  <2> QED BY <2>2, <2>3, Zenon DEF ValueGiven
<1>7. ns[Len(os) + 1].fields = Layout(t, at)
  <2>1. Len(os) + 1 \in 1 .. Len(base) /\ Len(os) + 1 # o
    BY <1>1
  <2>2. base \in Seq(ObjectType) /\ o \in 1 .. Len(base)
    BY <1>1 DEF GoodObjects
  <2>3. ns[Len(os) + 1] = base[Len(os) + 1]
    BY <2>1, <2>2 DEF ns
  <2> QED BY <1>1, <2>3
<1> QED BY <1>1, <1>3, <1>5, <1>6, <1>7 DEF x

-----------------------------------------------------------------------------
(***************************************************************************)
(* What a call of the shared reader does.                                  *)
(***************************************************************************)

\* The bytes ahead of the read position.
Ahead == used - ByteCount(offset)

\* A seek that succeeds has found the file, and one that does not has left
\* the window empty.
LEMMA SeekFinds ==
  ASSUME WindowInv, lost => used = 0, NEW p \in Nat, SeekTo(p)
  PROVE  /\ WindowInv' /\ Position' = p /\ call' = Idle
         /\ answer'.ok => ~lost'
         /\ lost' => used' = 0
<1>1. WindowInv'
  BY SeekKeepsWindowInv
<1>2. call' = Idle
  BY DEF SeekTo, Idle
<1>3. start \in Nat /\ used \in Nat
  BY CursorOfWindow
<1>4. CASE SeekInWindow(p)
  <2>1. /\ used # 0 /\ start' = start /\ offset' = p - start
        /\ used' = used /\ lost' = lost
    BY <1>3, <1>4 DEF SeekInWindow, InWindow, FromBytes
  <2>2. Position' = p
    BY <1>3, <2>1 DEF Position
  <2> QED BY <1>1, <1>2, <2>1, <2>2
<1>5. CASE SeekReader(p) \/ SeekFails(p)
  <2>1. /\ start' = ClipToByte(p) /\ offset' = BitOffset(p) /\ used' = 0
        /\ (answer'.ok => ~lost')
    BY <1>5 DEF SeekReader, SeekFails, MoveWindow, Answer
  <2>2. Position' = p
    BY <2>1 DEF Position, ClipToByte, BitOffset
  <2> QED BY <1>1, <1>2, <2>1, <2>2
<1> QED BY <1>4, <1>5 DEF SeekTo

\* A step of the loop reads or returns; it never moves the read position.
LEMMA FillStays ==
  ASSUME WindowInv, Fill
  PROVE  /\ WindowInv' /\ Position' = Position /\ lost' = lost
         /\ used' >= used /\ Ahead' >= Ahead
         /\ \/ call' = call /\ call # Idle
            \/ /\ call # Idle /\ call' = Idle /\ Ahead' = Ahead
               /\ answer'.op = call.op
               /\ (answer'.ok /\ call.op = "ensure") => Cursor!Ensure(call.need)
               /\ (answer'.ok /\ call.op = "get") => Cursor!Get
<1>1. WindowInv'
  BY FillReadKeepsWindowInv, FillEofKeepsWindowInv, FillFailsKeepsWindowInv,
     FillDoneKeepsWindowInv DEF Fill
<1>2. start' = start /\ offset' = offset /\ lost' = lost /\ call # Idle
  BY DEF Fill, FillRead, FillEof, FillFails, FillDone
<1>3. Position' = Position
  BY <1>2 DEF Position
<1>4. used \in Nat /\ ByteCount(offset) \in Nat
  BY CursorOfWindow
<1>5. CASE FillRead
  <2>1. PICK n \in 1 .. K - used : used' = used + n
    BY <1>5 DEF FillRead
  <2>2. ByteCount(offset)' = ByteCount(offset)
    BY <1>2
  <2>3. used' >= used /\ Ahead' >= Ahead
    BY <1>4, <2>1, <2>2 DEF Ahead
  <2>4. call' = call
    BY <1>5 DEF FillRead
  <2> QED BY <1>1, <1>2, <1>3, <2>3, <2>4
<1>6. CASE FillEof \/ FillFails \/ FillDone
  <2>1. call' = Idle /\ used' = used /\ answer'.op = call.op
    BY <1>6 DEF FillEof, FillFails, FillDone, Return, Answer
  <2>2. Ahead' = Ahead /\ Ahead \in Int
    BY <1>2, <1>4, <2>1 DEF Ahead
  <2>3. \/ call.op = "ensure" /\ Cursor!Ensure(call.need)
        \/ call.op = "get" /\ Cursor!Get
        \/ Cursor!Fail(call.op)
    BY <1>1, <1>6, ReturnIsAnswer
  <2>4. Cursor!Fail(call.op) => ~answer'.ok
    BY DEF Cursor!Fail, Cursor!Answers
  <2> QED BY <1>1, <1>2, <1>3, <1>4, <2>1, <2>2, <2>3, <2>4
<1> QED BY <1>5, <1>6 DEF Fill

-----------------------------------------------------------------------------
(***************************************************************************)
(* The inductive invariant.  A call in progress reads at the offset of its *)
(* field through a reader that is not lost, because its seek has found the *)
(* file: a lost reader has an empty window, and no seek stays in that.     *)
(* Once EnsureBuffer is done, the field is ahead or the file ends, and     *)
(* GetBuffer returns all there is ahead.                                   *)
(***************************************************************************)
Reading == pc \in {"read", "ensure", "get"}

CallInv ==
    /\ pc \in {"unparsed", "failed", "app", "read", "ensure", "get"}
    /\ pc \notin {"ensure", "get"} => call = Idle
    /\ (pc = "ensure" /\ call # Idle) =>
           call = [op |-> "ensure", need |-> FromBytes(Info(cur).size)]
    /\ (pc = "get" /\ call # Idle) => call = [op |-> "get", need |-> 1]
    /\ (pc = "get" /\ call = Idle) => answer.op = "get"

CursorInv ==
    /\ lost => used = 0
    /\ ~Reading => cur = NoField
    /\ Reading =>
          /\ cur \in AllFields
          /\ ~lost
          /\ Position = Parsed(cur).offset
          /\ Info(cur).object = NoType \/ (pc = "read" /\ Len(objs) < MaxObjects)

Enough == Info(cur).size <= Ahead \/ From(cur) + Ahead >= FileSize

AheadInv ==
    /\ (pc = "get" \/ (pc = "ensure" /\ call = Idle /\ answer.ok)) => Enough
    /\ (pc = "get" /\ call = Idle /\ answer.ok) => Len(answer.bytes) = Ahead

ResultInv ==
    /\ result.value \in [bytes : Bytes, object : 0 .. Len(objs)]
    /\ result.error = "eof" => pc = "app" /\ To(result.of) > FileSize
    /\ pc = "unparsed" => Position = 0 /\ objs = <<>> /\ result.error = "none"

ObjectsInv ==
    /\ WindowInv
    /\ GoodObjects(objs)
    /\ Len(objs) <= MaxObjects
    /\ CallInv
    /\ CursorInv
    /\ AheadInv
    /\ ResultInv

\* What is known of a field, by its name in the model.
LEMMA FieldsOfObjects ==
  ASSUME GoodObjects(objs), NEW f \in AllFields
  PROVE  /\ f.obj \in 1 .. Len(objs) /\ f.field \in 1 .. Len(objs[f.obj].fields)
         /\ f = [obj |-> f.obj, field |-> f.field]
         /\ Info(f) \in FieldInfo /\ Info(f).size \in Nat
         /\ Parsed(f).offset \in Nat /\ Parsed(f).offset % 8 = 0
         /\ Holds(objs, Info(f), Parsed(f))
         /\ Info(f).object = NoType => Info(f).size \in 1 .. K
         /\ Info(f).object # NoType =>
               Info(f).object \in Types /\ CalculateSize(Info(f).object) \in Nat
<1>1. PICK o \in 1 .. Len(objs) : f \in GetFieldNames(o)
  BY DEF AllFields
<1>2. PICK i \in 1 .. Len(objs[o].fields) : f = [obj |-> o, field |-> i]
  BY <1>1 DEF GetFieldNames
<1>3. f.obj = o /\ f.field = i
  BY <1>2
<1>4. /\ objs[o].type \in Types /\ i \in 1 .. Len(Fields[objs[o].type])
      /\ Fields[objs[o].type][i] \in FieldInfo
      /\ objs[o].fields[i].offset \in Nat /\ objs[o].fields[i].offset % 8 = 0
      /\ Holds(objs, Fields[objs[o].type][i], objs[o].fields[i])
  BY <1>1, <1>2, FieldFacts
<1>5. Info(f) \in FieldInfo /\ Info(f).size \in Nat
  BY <1>3, <1>4 DEF Info, FieldInfo
<1>6. Info(f).object = NoType => Info(f).size \in 1 .. K
  BY <1>3, <1>4, FieldsAssumption DEF Info
<1>7. Info(f).object # NoType =>
         Info(f).object \in Types /\ CalculateSize(Info(f).object) \in Nat
  <2>1. Info(f).object \in Types \cup {NoType}
    BY <1>5 DEF FieldInfo
  <2>2. Info(f).object \in Types => CalculateSize(Info(f).object) = Info(f).size
    BY <1>3, <1>4, FieldsAssumption DEF Info
  <2> QED BY <1>5, <2>1, <2>2
<1> QED BY <1>2, <1>3, <1>4, <1>5, <1>6, <1>7 DEF Info, Parsed

\* Where no call is in progress, there is little to show.
LEMMA Settled ==
  ASSUME WindowInv', GoodObjects(objs)', Len(objs') <= MaxObjects,
         pc' \in {"unparsed", "failed", "app"}, cur' = NoField, call' = Idle,
         lost' => used' = 0, ResultInv'
  PROVE  ObjectsInv'
<1>1. CallInv'
  BY DEF CallInv
<1>2. CursorInv'
  BY DEF CursorInv, Reading
<1>3. AheadInv'
  BY DEF AheadInv
<1> QED BY <1>1, <1>2, <1>3 DEF ObjectsInv

\* A call that fails leaves everything but its result as it was.
LEMMA FailKeepsInv ==
  ASSUME ObjectsInv, WindowInv', call' = Idle, lost' => used' = 0,
         NEW f, NEW error, Fail(f, error),
         error = "eof" => To(f) > FileSize
  PROVE  ObjectsInv'
<1>1. /\ pc' = "app" /\ cur' = NoField /\ objs' = objs
      /\ result' = [of |-> f, error |-> error, value |-> NoValue]
  BY DEF Fail
<1>2. GoodObjects(objs)' /\ Len(objs') <= MaxObjects /\ Len(objs) \in Nat
  <2>1. GoodObjects(objs) /\ Len(objs) <= MaxObjects
    BY DEF ObjectsInv
  <2>2. GoodObjects(objs') /\ Len(objs') <= MaxObjects
    BY <1>1, <2>1
  <2>3. Len(objs) \in Nat
    BY <2>1, LenProperties DEF GoodObjects
  <2> QED BY <2>2, <2>3
<1>3. NoValue \in [bytes : Bytes, object : 0 .. Len(objs)]
  <2>1. <<>> \in Bytes
    BY DEF Bytes
  <2> QED BY <1>2, <2>1 DEF NoValue
<1>4. ResultInv'
  <2>1. error = "eof" => To(f)' > FileSize
    BY <1>1 DEF To, From, Info, Parsed
  <2> QED BY <1>1, <1>3, <2>1 DEF ResultInv
<1> QED BY <1>1, <1>2, <1>4, Settled

-----------------------------------------------------------------------------
(***************************************************************************)
(* Every operation keeps it.                                               *)
(***************************************************************************)

\* Null is a value.
LEMMA NoValueType == NoValue \in [bytes : Bytes, object : {0}]
<1>1. <<>> \in Bytes
  BY DEF Bytes
<1> QED BY <1>1 DEF NoValue

\* Before a file is parsed there are no objects.
LEMMA NoObjects == GoodObjects(<<>>)
<1>1. <<>> \in Seq(ObjectType) /\ Len(<<>>) = 0
  OBVIOUS
<1> QED BY <1>1 DEF GoodObjects

\* A new reader over a file at any position.
LEMMA InitObjectsInv == ObjectsInit => ObjectsInv
<1> SUFFICES ASSUME ObjectsInit PROVE ObjectsInv
  OBVIOUS
<1>1. /\ NewWindow /\ filePos \in 0 .. FileSize /\ ioError = FALSE
      /\ lost = (filePos # 0)
      /\ objs = <<>> /\ pc = "unparsed" /\ cur = NoField /\ result = NoResult
      /\ call = Idle /\ used = 0
  BY DEF ObjectsInit, NewWindow
<1>2. lost \in BOOLEAN /\ ioError \in BOOLEAN /\ (~lost => filePos = 0)
  BY <1>1, Zenon
<1>3. WindowInv
  BY <1>1, <1>2, NewWindowInv
<1>4. GoodObjects(objs) /\ Len(objs) <= MaxObjects
  BY <1>1, NoObjects, FieldsAssumption
<1>5. CallInv /\ CursorInv /\ AheadInv
  BY <1>1 DEF CallInv, CursorInv, AheadInv, Reading
<1>6. ResultInv
  BY <1>1, NoValueType DEF ResultInv, NoResult, NewWindow, Position
<1> QED BY <1>3, <1>4, <1>5, <1>6 DEF ObjectsInv

\* The root is laid out where a new reader stands.
LEMMA ParseFileKeepsInv == ObjectsInv /\ ParseFile => ObjectsInv'
<1> SUFFICES ASSUME ObjectsInv, ParseFile PROVE ObjectsInv'
  OBVIOUS
<1>1. /\ WindowInv /\ (lost => used = 0) /\ cur = NoField
      /\ Position = 0 /\ objs = <<>> /\ result.error = "none"
      /\ result.value \in [bytes : Bytes, object : 0 .. Len(objs)]
  BY DEF ParseFile, ObjectsInv, CursorInv, ResultInv, Reading
<1> DEFINE p == Position + FromBytes(CalculateSize(Root))
<1>2. p \in Nat
  <2>1. Fields[Root] \in Seq(FieldInfo)
    BY FieldsAssumption DEF FieldInfo
  <2>2. Len(Fields[Root]) + 1 \in 1 .. Len(Fields[Root]) + 1
    BY <2>1, LenProperties
  <2>3. CalculateSize(Root) \in Nat
    BY <2>2, FieldsAssumption, OffsetsAddUp DEF CalculateSize
  <2> QED BY <1>1, <2>3 DEF FromBytes
<1>3. SeekTo(p)
  BY DEF ParseFile
<1> HIDE DEF p
<1>4. WindowInv' /\ call' = Idle /\ (lost' => used' = 0)
  BY <1>1, <1>2, <1>3, SeekFinds
<1>5. /\ \/ objs' = <<>> /\ pc' = "failed"
         \/ objs' = <<>> \o <<Object(Root, 0)>> /\ pc' = "app"
      /\ cur' = NoField /\ result' = result
  BY <1>1 DEF ParseFile
<1>6. GoodObjects(objs') /\ Len(objs') \in 0 .. 1
  <2>1. Len(<<>>) = 0 /\ 0 % 8 = 0 /\ 0 \in Nat /\ Root \in Types
    BY FieldsAssumption
  <2>2. /\ GoodObjects(<<>> \o <<Object(Root, 0)>>)
        /\ Len(<<>> \o <<Object(Root, 0)>>) = Len(<<>>) + 1
    BY <2>1, NoObjects, ObjectAdded, Zenon
  <2> QED BY <1>5, <2>1, <2>2, NoObjects
<1>7. GoodObjects(objs)' /\ Len(objs') <= MaxObjects
  <2>1. MaxObjects \in Nat /\ MaxObjects >= 1
    BY FieldsAssumption
  <2>2. Len(objs') <= MaxObjects
    <3> DEFINE n == Len(objs')
    <3>1. n \in 0 .. 1
      BY <1>6
    <3> HIDE DEF n
    <3>2. n <= MaxObjects
      BY ONLY <2>1, <3>1
    <3> QED BY <3>2 DEF n
  <2> QED BY <1>6, <2>2
<1>8. ResultInv'
  <2>1. result.value \in [bytes : Bytes, object : 0 .. Len(objs')]
    BY <1>1, <1>6
  <2> QED BY <1>1, <1>5, <2>1 DEF ResultInv
<1> QED BY <1>4, <1>5, <1>7, <1>8, Settled

\* A parse begins again, with a reader of its own.
LEMMA ReopenKeepsInv == ObjectsInv /\ Reopen => ObjectsInv'
<1> SUFFICES ASSUME ObjectsInv, Reopen PROVE ObjectsInv'
  OBVIOUS
<1>1. /\ NewWindow' /\ filePos' \in 0 .. FileSize /\ ioError' \in BOOLEAN
      /\ lost' \in BOOLEAN /\ (~lost' => filePos' = 0)
  <2>1. ReaderTypeOK /\ filePos' = filePos /\ ioError' = ioError
    BY DEF Reopen, readerVars, ObjectsInv, WindowInv, TypeOK
  <2>2. lost' = (filePos # 0)
    BY DEF Reopen
  <2>3. NewWindow'
    BY DEF Reopen, NewWindow
  <2>4. lost' \in BOOLEAN /\ (~lost' => filePos = 0)
    BY <2>2, Zenon
  <2> QED BY <2>1, <2>3, <2>4 DEF ReaderTypeOK
<1>2. WindowInv'
  <2>1. (/\ NewWindow /\ filePos \in 0 .. FileSize /\ ioError \in BOOLEAN
         /\ lost \in BOOLEAN /\ (~lost => filePos = 0))'
    BY <1>1
  <2> QED BY <2>1, NewWindowInv, PTL
<1>3. /\ objs' = <<>> /\ pc' = "unparsed" /\ result' = NoResult
      /\ call' = Idle /\ used' = 0 /\ cur' = NoField /\ Position' = 0
  BY DEF Reopen, ObjectsInv, CursorInv, Reading, Position
<1>4. GoodObjects(objs)' /\ Len(objs') <= MaxObjects
  BY <1>3, NoObjects, FieldsAssumption
<1>5. ResultInv'
  BY <1>3, NoValueType DEF ResultInv, NoResult
<1> QED BY <1>2, <1>3, <1>4, <1>5, Settled


\* A step that leaves the reader alone keeps the window.
LEMMA ReaderAlone ==
  ASSUME WindowInv, UNCHANGED readerAll
  PROVE  WindowInv' /\ call' = call /\ lost' = lost /\ used' = used
<1>1. UNCHANGED vars
  BY DEF readerAll, vars
<1>2. WindowInv'
  BY <1>1, NextKeepsWindowInv
<1> QED BY <1>2 DEF readerAll

\* What the application knows between two calls.
LEMMA AtTheApplication ==
  ASSUME ObjectsInv, pc = "app"
  PROVE  /\ WindowInv /\ GoodObjects(objs) /\ Len(objs) <= MaxObjects
         /\ Len(objs) \in Nat
         /\ call = Idle /\ (lost => used = 0) /\ cur = NoField
BY LenProperties DEF ObjectsInv, CallInv, CursorInv, Reading, GoodObjects

\* Null for a name that no field has.
LEMMA GetUnknownKeepsInv == ObjectsInv /\ GetUnknown => ObjectsInv'
<1> SUFFICES ASSUME ObjectsInv, GetUnknown PROVE ObjectsInv'
  OBVIOUS
<1>1. /\ pc = "app" /\ pc' = "app" /\ objs' = objs /\ cur' = cur
      /\ UNCHANGED readerAll /\ result' = NoResult
  BY DEF GetUnknown
<1>2. ResultInv'
  BY <1>1, AtTheApplication, NoValueType DEF ResultInv, NoResult
<1> QED BY <1>1, <1>2, AtTheApplication, ReaderAlone, Settled

\* A cached value is returned as it is.
LEMMA GetCachedKeepsInv ==
  ASSUME ObjectsInv, NEW f \in AllFields, GetCached(f)
  PROVE  ObjectsInv'
<1>1. /\ pc = "app" /\ pc' = "app" /\ objs' = objs /\ cur' = cur
      /\ UNCHANGED readerAll
      /\ result' = [of |-> f, error |-> "none", value |-> Parsed(f).value]
      /\ Parsed(f).value # NoValue
  BY DEF GetCached
<1>2. Parsed(f).value \in [bytes : Bytes, object : 0 .. Len(objs)]
  <2>1. Holds(objs, Info(f), Parsed(f)) /\ Len(objs) \in Nat
    BY <1>1, AtTheApplication, FieldsOfObjects
  <2>2. Parsed(f).value \in [bytes : Bytes, object : Nat]
    <3>1. Parsed(f) \in ParsedField
      BY <1>1, AtTheApplication, FieldsOfObjects, FieldFacts DEF Parsed
    <3> QED BY <3>1 DEF ParsedField
  <2>3. Parsed(f).value.object \in 0 .. Len(objs)
    BY <1>1, <2>1 DEF Holds, BytesValue
  <2> QED BY <2>2, <2>3
<1>3. ResultInv'
  BY <1>1, <1>2 DEF ResultInv
<1> QED BY <1>1, <1>3, AtTheApplication, ReaderAlone, Settled

\* A field is read only after a seek that has found its offset.
LEMMA EnsureFieldKeepsInv ==
  ASSUME ObjectsInv, NEW f \in AllFields, EnsureField(f)
  PROVE  ObjectsInv'
<1>1. /\ pc = "app" /\ SeekTo(Parsed(f).offset) /\ Bounded(f)
      /\ Parsed(f).offset \in Nat
  BY AtTheApplication, FieldsOfObjects DEF EnsureField
<1>2. /\ WindowInv' /\ Position' = Parsed(f).offset /\ call' = Idle
      /\ (answer'.ok => ~lost')
      /\ (lost' => used' = 0)
  BY <1>1, AtTheApplication, SeekFinds
<1>3. CASE answer'.ok
  <2>1. pc' = "read" /\ cur' = f /\ result' = NoResult /\ objs' = objs
    BY <1>3 DEF EnsureField
  <2>2. GoodObjects(objs)' /\ (Len(objs) <= MaxObjects)'
    BY <1>1, <2>1, AtTheApplication
  <2>3. CallInv' /\ AheadInv'
    BY <1>2, <2>1 DEF CallInv, AheadInv
  <2>4. CursorInv'
    <3>1. /\ AllFields' = AllFields /\ Parsed(cur)' = Parsed(f)
          /\ Info(cur)' = Info(f) /\ Len(objs') = Len(objs)
      BY <2>1 DEF AllFields, GetFieldNames, Parsed, Info
    <3>2. Info(f).object = NoType \/ Len(objs) < MaxObjects
      BY <1>1 DEF Bounded
    <3>3. ~lost' /\ Reading'
      BY <1>2, <1>3, <2>1 DEF Reading
    <3> QED BY <1>2, <2>1, <3>1, <3>2, <3>3 DEF CursorInv
  <2>5. ResultInv'
    BY <1>1, <2>1, AtTheApplication, NoValueType DEF ResultInv, NoResult
  <2> QED BY <1>2, <2>2, <2>3, <2>4, <2>5 DEF ObjectsInv
<1>4. CASE ~answer'.ok
  <2>1. Fail(f, "io")
    BY <1>4 DEF EnsureField
  <2> QED BY <1>2, <2>1, FailKeepsInv
<1> QED BY <1>3, <1>4

\* What is known in the middle of a call.
LEMMA InTheCall ==
  ASSUME ObjectsInv, Reading
  PROVE  /\ WindowInv /\ GoodObjects(objs) /\ Len(objs) \in Nat
         /\ Len(objs) <= MaxObjects
         /\ cur \in AllFields /\ ~lost
         /\ Position = Parsed(cur).offset /\ Position \in Nat /\ Position % 8 = 0
         /\ ByteCount(Position) = From(cur) /\ From(cur) \in Nat
         /\ Info(cur).size \in Nat
         /\ Info(cur).object = NoType => Info(cur).size \in 1 .. K
         /\ Ahead \in Nat /\ FileSize \in Nat /\ K \in Nat
<1>1. /\ WindowInv /\ GoodObjects(objs) /\ Len(objs) \in Nat
      /\ Len(objs) <= MaxObjects
      /\ cur \in AllFields /\ ~lost /\ Position = Parsed(cur).offset
  BY LenProperties DEF ObjectsInv, CursorInv, GoodObjects
<1>2. /\ Parsed(cur).offset \in Nat /\ Parsed(cur).offset % 8 = 0
      /\ Info(cur).size \in Nat
      /\ Info(cur).object = NoType => Info(cur).size \in 1 .. K
  BY <1>1, FieldsOfObjects
<1>3. From(cur) \in Nat /\ ByteCount(Position) = From(cur)
  BY <1>1, <1>2, ByteArithmetic DEF From
<1>4. Ahead \in Nat /\ FileSize \in Nat /\ K \in Nat
  <2>1. used - ByteCount(offset) \in 0 .. used /\ used \in Nat /\ FileSize \in Nat
        /\ K \in Nat
    BY <1>1, CursorOfWindow
  <2> QED BY <2>1 DEF Ahead
<1> QED BY <1>1, <1>2, <1>3, <1>4

\* A step within a call.
LEMMA StillReading ==
  ASSUME ObjectsInv, Reading, WindowInv', Position' = Position, lost' = lost,
         UNCHANGED <<objs, cur, result>>, pc' \in {"ensure", "get"},
         Info(cur).object = NoType, CallInv', AheadInv'
  PROVE  ObjectsInv'
<1>1. GoodObjects(objs)' /\ (Len(objs) <= MaxObjects)'
  BY InTheCall
<1>2. CursorInv'
  <2>1. /\ AllFields' = AllFields /\ Parsed(cur)' = Parsed(cur)
        /\ Info(cur)' = Info(cur) /\ cur' = cur
    BY DEF AllFields, GetFieldNames, Parsed, Info
  <2>2. /\ cur \in AllFields /\ ~lost' /\ Position' = Parsed(cur).offset
        /\ Reading'
    BY InTheCall DEF Reading
  <2> QED BY <2>1, <2>2 DEF CursorInv
<1>3. ResultInv'
  <2>1. ResultInv /\ pc # "app"
    BY DEF ObjectsInv, Reading
  <2> QED BY <2>1 DEF ResultInv
<1> QED BY <1>1, <1>2, <1>3 DEF ObjectsInv

\* An integer field asks for its bytes.
LEMMA ReadIntegerKeepsInv == ObjectsInv /\ ReadInteger => ObjectsInv'
<1> SUFFICES ASSUME ObjectsInv, ReadInteger PROVE ObjectsInv'
  OBVIOUS
<1> DEFINE need == FromBytes(Info(cur).size)
<1>1. /\ pc = "read" /\ Info(cur).object = NoType /\ Begin("ensure", need)
      /\ pc' = "ensure" /\ UNCHANGED <<objs, cur, result>> /\ Reading
  BY DEF ReadInteger, Reading
<1>2. need \in Nat \ {0} /\ WindowInv
  BY <1>1, InTheCall DEF FromBytes
<1>3. call' = [op |-> "ensure", need |-> need] /\ lost' = lost
  BY <1>1 DEF Begin
<1>a. call' = [op |-> "ensure", need |-> FromBytes(Info(cur).size)] /\ call' # Idle
  BY <1>3 DEF Idle
<1> HIDE DEF need
<1>4. WindowInv' /\ Position' = Position
  BY <1>1, <1>2, BeginKeepsWindowInv, BeginStays
<1>5. CallInv' /\ AheadInv'
  BY <1>1, <1>a DEF CallInv, AheadInv, Info
<1> QED BY <1>1, <1>3, <1>4, <1>5, StillReading

\* What EnsureBuffer has left ahead is what GetBuffer will return.
LEMMA EnsuredKeepsInv == ObjectsInv /\ Ensured => ObjectsInv'
<1> SUFFICES ASSUME ObjectsInv, Ensured PROVE ObjectsInv'
  OBVIOUS
<1>1. pc = "ensure" /\ call = Idle /\ Reading /\ WindowInv /\ ~lost
      /\ Info(cur).object = NoType
  BY InTheCall DEF Ensured, Reading, ObjectsInv, CursorInv
<1>2. CASE answer.ok
  <2>1. /\ Begin("get", 1) /\ pc' = "get" /\ UNCHANGED <<objs, cur, result>>
    BY <1>2 DEF Ensured
  <2>2. call' = [op |-> "get", need |-> 1] /\ lost' = lost /\ call' # Idle
    BY <2>1 DEF Begin, Idle
  <2>3. WindowInv' /\ Position' = Position /\ Ahead' = Ahead
    BY <1>1, <2>1, BeginKeepsWindowInv, BeginStays DEF Ahead
  <2>4. Enough'
    <3>1. Enough
      BY <1>1, <1>2 DEF ObjectsInv, AheadInv
    <3> QED BY <2>1, <2>3, <3>1 DEF Enough, Info, From, Parsed
  <2>5. CallInv' /\ AheadInv'
    BY <2>1, <2>2, <2>4 DEF CallInv, AheadInv
  <2> QED BY <1>1, <2>1, <2>2, <2>3, <2>5, StillReading
<1>3. CASE ~answer.ok
  <2>1. Fail(cur, "io") /\ UNCHANGED readerAll
    BY <1>3 DEF Ensured
  <2> QED BY <1>1, <2>1, ReaderAlone, FailKeepsInv
<1> QED BY <1>2, <1>3

\* The reader's loop: what it ends with is what the field needs.
LEMMA LoopKeepsInv == ObjectsInv /\ Loop => ObjectsInv'
<1> SUFFICES ASSUME ObjectsInv, Loop PROVE ObjectsInv'
  OBVIOUS
<1>1. Fill /\ objs' = objs /\ pc' = pc /\ cur' = cur /\ result' = result
  BY DEF Loop, objectVars
<1>2. WindowInv /\ CallInv /\ AheadInv
  BY DEF ObjectsInv
<1>3. /\ WindowInv' /\ Position' = Position /\ lost' = lost
      /\ call # Idle /\ Ahead' >= Ahead
  BY <1>1, <1>2, FillStays
<1>4. pc \in {"ensure", "get"} /\ Reading /\ Info(cur).object = NoType
  BY <1>2, <1>3 DEF CallInv, Reading, ObjectsInv, CursorInv
<1>5. /\ Info(cur)' = Info(cur) /\ From(cur)' = From(cur)
      /\ ByteCount(Position) = From(cur) /\ Position % 8 = 0
      /\ Info(cur).size \in 1 .. K
      /\ From(cur) \in Nat /\ FileSize \in Nat /\ K \in Nat /\ Ahead \in Nat /\ ~lost
  BY <1>1, <1>4, InTheCall DEF Info, From, Parsed
<1>6. Ahead' \in Nat
  <2>1. (used - ByteCount(offset) \in 0 .. used)' /\ (used \in Nat)'
    BY <1>3, CursorOfWindow, PTL
  <2> QED BY <2>1 DEF Ahead
<1>7. Enough => Enough'
  <2> DEFINE a == Ahead'
  <2>1. a \in Nat /\ a >= Ahead
    BY <1>3, <1>6
  <2> HIDE DEF a
  <2>2. Enough => Info(cur).size <= a \/ From(cur) + a >= FileSize
    BY <1>5, <2>1 DEF Enough
  <2> QED BY <1>5, <2>2 DEF a, Enough
<1>8. CASE call' = call
  <2>1. CallInv'
    BY <1>1, <1>2, <1>3, <1>5, <1>8 DEF CallInv
  <2>2. AheadInv'
    BY <1>1, <1>2, <1>3, <1>7, <1>8 DEF AheadInv
  <2> QED BY <1>1, <1>3, <1>4, <2>1, <2>2, StillReading
<1>9. CASE call' # call
  <2>1. /\ call' = Idle /\ Ahead' = Ahead /\ answer'.op = call.op
        /\ (answer'.ok /\ call.op = "ensure") => Cursor!Ensure(call.need)
        /\ (answer'.ok /\ call.op = "get") => Cursor!Get
    BY <1>1, <1>2, <1>9, FillStays
  <2>2. CASE pc = "ensure"
    <3>1. call.op = "ensure" /\ call.need = FromBytes(Info(cur).size)
      BY <1>2, <1>3, <2>2 DEF CallInv
    <3>2. answer'.ok => Enough
      <4>1. ASSUME Cursor!Ensure(call.need)
            PROVE  \/ 8 * Info(cur).size <= 8 * Ahead
                   \/ From(cur) + Ahead >= FileSize
                   \/ 8 * Info(cur).size > 8 * K
        BY <1>5, <3>1, <4>1
        DEF Cursor!Ensure, Cursor!BitOffset, Cursor!ByteCount, Cursor!FromBytes,
            FromBytes, ByteCount, Ahead
      <4> QED BY <1>5, <2>1, <3>1, <4>1 DEF Enough
    <3>3. CallInv' /\ AheadInv'
      BY <1>1, <1>7, <2>1, <2>2, <3>2 DEF CallInv, AheadInv
    <3> QED BY <1>1, <1>3, <1>4, <3>3, StillReading
  <2>3. CASE pc = "get"
    <3>1. call.op = "get" /\ Enough
      BY <1>2, <1>3, <2>3 DEF CallInv, AheadInv
    <3>2. answer'.ok => Len(answer'.bytes) = Ahead
      BY <2>1, <3>1 DEF Cursor!Get, Ahead
    <3>3. CallInv' /\ AheadInv'
      BY <1>1, <1>7, <2>1, <2>3, <3>1, <3>2 DEF CallInv, AheadInv
    <3> QED BY <1>1, <1>3, <1>4, <3>3, StillReading
  <2> QED BY <1>4, <2>2, <2>3
<1> QED BY <1>8, <1>9

\* A call that succeeds: its value, and the object that it may have made, are
\* all that is new.
LEMMA KeepKeepsInv ==
  ASSUME ObjectsInv, Reading, WindowInv', call' = Idle, lost' => used' = 0,
         NEW value, NEW made, Keep(cur, value, made),
         GoodObjects(objs'), Len(objs') \in Nat, Len(objs') <= MaxObjects,
         value \in [bytes : Bytes, object : 0 .. Len(objs')]
  PROVE  ObjectsInv'
<1>1. /\ pc' = "app" /\ cur' = NoField
      /\ result' = [of |-> cur, error |-> "none", value |-> value]
  BY DEF Keep
<1>2. ResultInv'
  BY <1>1 DEF ResultInv
<1>3. GoodObjects(objs)'
  OBVIOUS
<1> QED BY <1>1, <1>2, <1>3, Settled

\* What Got keeps, and that it does no harm to the other fields.
LEMMA GotKeeps ==
  ASSUME ObjectsInv, pc = "get", call = Idle, answer.ok,
         ~(Len(answer.bytes) < Info(cur).size),
         Keep(cur, BytesValue(SubSeq(answer.bytes, 1, Info(cur).size)), <<>>)
  PROVE  LET value == BytesValue(SubSeq(answer.bytes, 1, Info(cur).size))
         IN  /\ value \in [bytes : Bytes, object : {0}] /\ value # NoValue
             /\ GoodObjects(objs') /\ Len(objs') = Len(objs)
             /\ ValueGiven(objs', objs, cur.obj, cur.field, value)
<1> DEFINE value == BytesValue(SubSeq(answer.bytes, 1, Info(cur).size))
           size  == Info(cur).size
           from  == From(cur)
           n     == Len(answer.bytes)
<1>1. /\ Reading /\ WindowInv /\ GoodObjects(objs) /\ cur \in AllFields /\ ~lost
      /\ ByteCount(Position) = from /\ from \in Nat /\ FileSize \in Nat
      /\ Ahead \in Nat
  BY InTheCall DEF Reading
<1>2. Info(cur).object = NoType /\ size \in 1 .. K /\ K \in Nat
  BY <1>1, InTheCall DEF ObjectsInv, CursorInv
<1>3. n = Ahead /\ answer.op = "get"
  BY DEF ObjectsInv, AheadInv, CallInv
<1>4. n \in Nat /\ size <= n /\ n > 0 /\ size \in Nat
  BY <1>1, <1>2, <1>3
<1>5. from + n <= FileSize /\ answer.bytes = FileBytes(from, n)
  BY <1>1, <1>3, <1>4 DEF WindowInv, GetIsFile
<1>6. /\ value = BytesValue(FileBytes(from, size)) /\ FileBytes(from, size) \in Bytes
      /\ Len(FileBytes(from, size)) = size
  <2>1. value = BytesValue(SubSeq(FileBytes(from, n), 1, size))
    BY <1>5
  <2> HIDE DEF value, size, from, n
  <2>2. /\ SubSeq(FileBytes(from, n), 1, size) = FileBytes(from, size)
        /\ FileBytes(from, size) \in Bytes /\ Len(FileBytes(from, size)) = size
    BY <1>1, <1>4, <1>5, FirstBytes
  <2> QED BY <2>1, <2>2
<1>7. value \in [bytes : Bytes, object : {0}] /\ value # NoValue
  <2>1. value.bytes = FileBytes(from, size) /\ Len(value.bytes) # 0
    BY <1>2, <1>6 DEF BytesValue
  <2>2. Len(<<>>) = 0
    OBVIOUS
  <2> QED BY <1>6, <2>1, <2>2 DEF BytesValue, NoValue
<1>8. /\ cur.obj \in 1 .. Len(objs) /\ cur.field \in 1 .. Len(objs[cur.obj].fields)
      /\ Parsed(cur).offset \in Nat
  BY <1>1, FieldsOfObjects
<1>9. from + size <= FileSize
  BY <1>1, <1>4, <1>5
<1> DEFINE o  == cur.obj
           i  == cur.field
           ns == [objs EXCEPT ![o].fields[i].value = value]
<1>10. objs' = ns \o <<>>
  BY DEF Keep
<1>11. Holds(objs, Fields[objs[o].type][i],
             [offset |-> objs[o].fields[i].offset, value |-> value])
  BY <1>2, <1>6, <1>9 DEF Holds, Info, From, Parsed
<1>12. value \in [bytes : Bytes, object : Nat]
  BY <1>7
<1> HIDE DEF value, size, from, n
<1>13. /\ GoodObjects(ns) /\ Len(ns) = Len(objs) /\ ValueGiven(ns, objs, o, i, value)
  BY <1>1, <1>8, <1>11, <1>12, ValueSet, Zenon
<1> HIDE DEF ns
<1>14. objs' = ns
  BY <1>10, <1>13, ConcatEmptySeq DEF GoodObjects
<1> QED BY <1>7, <1>13, <1>14 DEF value

\* The bytes of the field are its value once they are skipped.
LEMMA GotKeepsInv == ObjectsInv /\ Got => ObjectsInv'
<1> SUFFICES ASSUME ObjectsInv, Got PROVE ObjectsInv'
  OBVIOUS
<1>1. /\ pc = "get" /\ call = Idle /\ Reading /\ WindowInv /\ ~lost
      /\ Info(cur).size \in Nat /\ Position \in Nat
      /\ Len(objs) \in Nat /\ Len(objs) <= MaxObjects
  BY InTheCall DEF Got, Reading
<1>2. CASE ~answer.ok
  <2>1. Fail(cur, "io") /\ UNCHANGED readerAll
    BY <1>2 DEF Got
  <2> QED BY <1>1, <2>1, ReaderAlone, FailKeepsInv
<1>3. CASE answer.ok /\ Len(answer.bytes) < Info(cur).size
  <2>1. Fail(cur, "eof") /\ UNCHANGED readerAll
    BY <1>3 DEF Got
  <2>2. Enough /\ Len(answer.bytes) = Ahead
    BY <1>1, <1>3 DEF ObjectsInv, AheadInv
  <2>3. To(cur) > FileSize
    <3>1. From(cur) \in Nat /\ FileSize \in Nat /\ Ahead \in Nat
      BY <1>1, InTheCall
    <3> QED BY <1>1, <1>3, <2>2, <3>1 DEF Enough, To
  <2> QED BY <1>1, <2>1, <2>3, ReaderAlone, FailKeepsInv
<1>4. CASE answer.ok /\ ~(Len(answer.bytes) < Info(cur).size)
  <2> DEFINE p     == Position + FromBytes(Info(cur).size)
             value == BytesValue(SubSeq(answer.bytes, 1, Info(cur).size))
  <2>1. SeekTo(p) /\ (IF answer'.ok THEN Keep(cur, value, <<>>) ELSE Fail(cur, "io"))
    BY <1>4 DEF Got
  <2>2. p \in Nat
    BY <1>1 DEF FromBytes
  <2>3. WindowInv' /\ call' = Idle /\ (lost' => used' = 0)
    BY <1>1, <2>1, <2>2, SeekFinds
  <2>4. CASE answer'.ok
    <3>1. /\ value \in [bytes : Bytes, object : {0}]
          /\ GoodObjects(objs') /\ Len(objs') = Len(objs)
      BY <1>1, <1>4, <2>1, <2>4, GotKeeps
    <3>2. value \in [bytes : Bytes, object : 0 .. Len(objs')]
      BY <1>1, <3>1
    <3> QED BY <1>1, <2>1, <2>3, <2>4, <3>1, <3>2, KeepKeepsInv
  <2>5. CASE ~answer'.ok
    BY <2>1, <2>3, <2>5, FailKeepsInv
  <2> QED BY <2>4, <2>5
<1> QED BY <1>2, <1>3, <1>4

\* What ReadObject keeps: an object that starts where its field does.
LEMMA ReadObjectKeeps ==
  ASSUME ObjectsInv, pc = "read", Info(cur).object # NoType,
         Keep(cur, ObjectValue(Len(objs) + 1), <<Object(Info(cur).object, Position)>>)
  PROVE  LET value == ObjectValue(Len(objs) + 1)
         IN  /\ value \in [bytes : Bytes, object : {Len(objs) + 1}]
             /\ value # NoValue
             /\ GoodObjects(objs') /\ Len(objs') = Len(objs) + 1
             /\ ValueGiven(objs', objs, cur.obj, cur.field, value)
             /\ objs'[Len(objs) + 1].fields = Layout(Info(cur).object, Position)
<1> DEFINE value == ObjectValue(Len(objs) + 1)
           t  == Info(cur).object
           o  == cur.obj
           i  == cur.field
           x  == Object(t, Position)
<1>1. /\ Reading /\ GoodObjects(objs) /\ cur \in AllFields /\ Len(objs) \in Nat
      /\ Position = Parsed(cur).offset /\ Position \in Nat /\ Position % 8 = 0
  BY InTheCall DEF Reading
<1>2. /\ o \in 1 .. Len(objs) /\ i \in 1 .. Len(objs[o].fields) /\ t \in Types
  BY <1>1, FieldsOfObjects
<1>3. value \in [bytes : Bytes, object : {Len(objs) + 1}] /\ value # NoValue
  <2>1. <<>> \in Bytes
    BY DEF Bytes
  <2>2. value.object # NoValue.object
    BY <1>1 DEF ObjectValue, NoValue
  <2> QED BY <2>1, <2>2 DEF ObjectValue
<1>4. value \in [bytes : Bytes, object : Nat]
  BY <1>1, <1>3
<1>5. Holds(objs \o <<x>>, Fields[objs[o].type][i],
            [offset |-> objs[o].fields[i].offset, value |-> value])
  <2> DEFINE os == objs \o <<x>>
  <2>1. /\ Len(os) = Len(objs) + 1
        /\ os[Len(objs) + 1].type = t /\ os[Len(objs) + 1].start = Position
    BY <1>1, <1>2, ObjectAdded
  <2> HIDE DEF os, x
  <2>2. value.object = Len(objs) + 1 /\ Len(objs) + 1 \in 1 .. Len(os)
    BY <1>1, <2>1 DEF ObjectValue
  <2>3. t = Fields[objs[o].type][i].object /\ t # NoType
        /\ Position = objs[o].fields[i].offset
    BY <1>1 DEF Info, Parsed
  <2>4. Holds(os, Fields[objs[o].type][i],
              [offset |-> objs[o].fields[i].offset, value |-> value])
    BY <2>1, <2>2, <2>3 DEF Holds
  <2> QED BY <2>4 DEF os
<1>6. objs' = [objs EXCEPT ![o].fields[i].value = value] \o <<x>>
  BY DEF Keep
<1> DEFINE at == Position
<1>7. LET ns == [objs EXCEPT ![o].fields[i].value = value] \o <<x>>
      IN  /\ GoodObjects(ns) /\ Len(ns) = Len(objs) + 1
          /\ ValueGiven(ns, objs, o, i, value)
          /\ ns[Len(objs) + 1].fields = Layout(t, at)
  <2>1. GoodObjects(objs) /\ t \in Types /\ at \in Nat /\ at % 8 = 0
    BY <1>1, <1>2
  <2>2. Holds(objs \o <<Object(t, at)>>, Fields[objs[o].type][i],
              [offset |-> objs[o].fields[i].offset, value |-> value])
    BY <1>5, Zenon
  <2>3. x = Object(t, at)
    OBVIOUS
  <2> HIDE DEF value, t, o, i, at, x
  <2> QED BY <1>2, <1>4, <2>1, <2>2, <2>3, ValueKept, ZenonT(60)
<1> QED BY <1>3, <1>6, <1>7, Zenon

\* The new object starts at the offset of its field.
LEMMA ReadObjectKeepsInv == ObjectsInv /\ ReadObject => ObjectsInv'
<1> SUFFICES ASSUME ObjectsInv, ReadObject PROVE ObjectsInv'
  OBVIOUS
<1> DEFINE t == Info(cur).object
           p == Position + FromBytes(CalculateSize(t))
<1>1. /\ pc = "read" /\ t # NoType /\ Reading /\ WindowInv /\ ~lost
      /\ SeekTo(p) /\ p \in Nat /\ cur \in AllFields
      /\ Len(objs) \in Nat /\ Len(objs) < MaxObjects
  <2>1. pc = "read" /\ t # NoType /\ Reading /\ SeekTo(p)
    BY DEF ReadObject, Reading
  <2>2. /\ WindowInv /\ GoodObjects(objs) /\ ~lost /\ cur \in AllFields
        /\ Len(objs) \in Nat /\ Position \in Nat
    BY <2>1, InTheCall
  <2>3. CalculateSize(t) \in Nat
    BY <2>1, <2>2, FieldsOfObjects
  <2>4. Len(objs) < MaxObjects
    BY <2>1 DEF ObjectsInv, CursorInv
  <2> QED BY <2>1, <2>2, <2>3, <2>4 DEF FromBytes
<1>2. WindowInv' /\ call' = Idle /\ (lost' => used' = 0)
  BY <1>1, SeekFinds
<1>3. CASE answer'.ok
  <2>1. Keep(cur, ObjectValue(Len(objs) + 1), <<Object(t, Position)>>)
    BY <1>3 DEF ReadObject
  <2>2. /\ ObjectValue(Len(objs) + 1) \in [bytes : Bytes, object : {Len(objs) + 1}]
        /\ GoodObjects(objs') /\ Len(objs') = Len(objs) + 1
    BY <1>1, <2>1, ReadObjectKeeps
  <2>3. /\ ObjectValue(Len(objs) + 1) \in [bytes : Bytes, object : 0 .. Len(objs')]
        /\ Len(objs') \in Nat /\ Len(objs') <= MaxObjects
    BY <1>1, <2>2, FieldsAssumption
  <2> QED BY <1>1, <1>2, <2>1, <2>2, <2>3, KeepKeepsInv
<1>4. CASE ~answer'.ok
  <2>1. Fail(cur, "io")
    BY <1>4 DEF ReadObject
  <2> QED BY <1>2, <2>1, FailKeepsInv
<1> QED BY <1>3, <1>4

\* The fields of one object are empty, and all else is as it was.
Emptied(ns, os) ==
    \E o \in 1 .. Len(os) : \E fields :
        /\ Fit(os, o, fields)
        /\ \A i \in 1 .. Len(fields) : fields[i].value = NoValue
        /\ ns = [os EXCEPT ![o].fields = fields]

\* ClearCache and ReparseObject empty the fields of an object.
LEMMA EmptiedKeepsInv ==
  ASSUME ObjectsInv, pc = "app", UNCHANGED <<readerAll, pc, cur>>,
         result' = NoResult, Emptied(objs', objs)
  PROVE  ObjectsInv'
<1>1. GoodObjects(objs') /\ Len(objs') = Len(objs)
  <2> PICK o \in 1 .. Len(objs) : \E fields :
              Fit(objs, o, fields) /\ objs' = [objs EXCEPT ![o].fields = fields]
    BY DEF Emptied
  <2> PICK fields : Fit(objs, o, fields) /\ objs' = [objs EXCEPT ![o].fields = fields]
    OBVIOUS
  <2>1. GoodObjects(objs)
    BY AtTheApplication
  <2>2. GoodObjects(objs') /\ Replaced(objs', objs, o, fields)
    BY <2>1, FieldsReplaced, Zenon
  <2> QED BY <2>2 DEF Replaced
<1>2. GoodObjects(objs)' /\ Len(objs') <= MaxObjects /\ Len(objs') \in Nat
  BY <1>1, AtTheApplication
<1>3. ResultInv'
  BY <1>2, NoValueType DEF ResultInv, NoResult
<1> QED BY <1>2, <1>3, AtTheApplication, ReaderAlone, Settled

\* ClearCache takes the values of the fields of an object.
LEMMA ClearCacheEmpties ==
  ASSUME ObjectsInv, ClearCache
  PROVE  Emptied(objs', objs)
<1>1. PICK o \in 1 .. Len(objs) :
         objs' = [objs EXCEPT ![o].fields =
                    [i \in DOMAIN @ |-> [@[i] EXCEPT !.value = NoValue]]]
  BY DEF ClearCache
<1>2. GoodObjects(objs)
  BY AtTheApplication DEF ClearCache
<1> DEFINE old    == objs[o].fields
           fields == [i \in DOMAIN old |-> [old[i] EXCEPT !.value = NoValue]]
<1>3. old \in Seq(ParsedField)
  <2>1. objs[o] \in ObjectType
    BY <1>2, ElementOfSeq DEF GoodObjects
  <2> QED BY <2>1 DEF ObjectType
<1>4. DOMAIN old = 1 .. Len(old) /\ Len(old) \in Nat
  BY <1>3, LenProperties
<1>5. \A i \in 1 .. Len(old) : old[i] \in ParsedField
  BY <1>3, ElementOfSeq
<1> HIDE DEF old
<1>6. \A i \in 1 .. Len(old) :
         /\ fields[i] = [old[i] EXCEPT !.value = NoValue]
         /\ fields[i] \in ParsedField
         /\ fields[i].offset = old[i].offset /\ fields[i].value = NoValue
  <2> DEFINE Values == [bytes : Bytes, object : Nat]
  <2>1. NoValue \in Values
    BY NoValueType
  <2>2. \A i \in 1 .. Len(old) : old[i] \in [offset : Nat, value : Values]
    BY <1>5 DEF ParsedField
  <2> HIDE DEF Values
  <2>3. \A i \in 1 .. Len(old) :
           /\ fields[i] = [old[i] EXCEPT !.value = NoValue]
           /\ fields[i] \in [offset : Nat, value : Values]
           /\ fields[i].offset = old[i].offset /\ fields[i].value = NoValue
    BY <1>4, <2>1, <2>2
  <2> QED BY <2>3 DEF ParsedField, Values
<1>7. fields \in [1 .. Len(old) -> ParsedField]
  BY <1>4, <1>6
<1>8. objs' = [objs EXCEPT ![o].fields = fields]
  BY <1>1 DEF old
<1> HIDE DEF fields
<1>9. Fit(objs, o, fields)
  <2>1. fields \in Seq(ParsedField) /\ Len(fields) = Len(old)
    BY <1>4, <1>7, SequenceFromFunction
  <2> QED BY <1>6, <2>1 DEF Fit, Holds, old
<1>10. \A i \in 1 .. Len(fields) : fields[i].value = NoValue
  BY <1>6, <1>9 DEF Fit, old
<1> QED BY <1>8, <1>9, <1>10 DEF Emptied

\* ReparseObject lays them out again, where they were.
LEMMA ReparseObjectEmpties ==
  ASSUME ObjectsInv, ReparseObject
  PROVE  Emptied(objs', objs)
<1>1. PICK o \in 1 .. Len(objs) :
         objs' = [objs EXCEPT ![o].fields = Layout(objs[o].type, objs[o].start)]
  BY DEF ReparseObject
<1>2. GoodObjects(objs)
  BY AtTheApplication DEF ReparseObject
<1>3. objs[o].type \in Types /\ objs[o].start \in Nat /\ GoodObject(objs, o)
  <2>1. objs[o] \in ObjectType
    BY <1>2, ElementOfSeq DEF GoodObjects
  <2> QED BY <1>2, <2>1 DEF ObjectType, GoodObjects
<1> DEFINE fields == Layout(objs[o].type, objs[o].start)
<1>4. /\ fields \in Seq(ParsedField) /\ Len(fields) = Len(Fields[objs[o].type])
      /\ \A i \in 1 .. Len(fields) :
            /\ fields[i].offset =
                  objs[o].start + FromBytes(FieldOffset(objs[o].type, i))
            /\ fields[i].value = NoValue
  BY <1>3, LayoutIsEmpty
<1> HIDE DEF fields
<1>5. Fit(objs, o, fields)
  BY <1>3, <1>4 DEF Fit, Holds, GoodObject
<1> QED BY <1>1, <1>4, <1>5 DEF Emptied, fields

\* No operation breaks the invariant.
LEMMA NextKeepsObjectsInv == ObjectsInv /\ [ObjectsNext]_allVars => ObjectsInv'
<1> SUFFICES ASSUME ObjectsInv, [ObjectsNext]_allVars PROVE ObjectsInv'
  OBVIOUS
<1>1. CASE UNCHANGED allVars
  <2>1. UNCHANGED <<readerAll, objs, pc, cur, result>>
    BY <1>1 DEF allVars, objectVars
  <2>2. WindowInv' /\ call' = call /\ answer' = answer /\ lost' = lost /\ used' = used
        /\ Position' = Position /\ Ahead' = Ahead
    BY <2>1, ReaderAlone DEF ObjectsInv, readerAll, Position, Ahead
  <2>3. (GoodObjects(objs) /\ Len(objs) <= MaxObjects)'
    BY <2>1 DEF ObjectsInv
  <2>4. CallInv'
    BY <2>1, <2>2 DEF ObjectsInv, CallInv, Info
  <2>5. CursorInv'
    BY <2>1, <2>2
    DEF ObjectsInv, CursorInv, Reading, Info, Parsed, AllFields, GetFieldNames
  <2>6. AheadInv'
    BY <2>1, <2>2 DEF ObjectsInv, AheadInv, Enough, Info, From, Parsed
  <2>7. ResultInv'
    BY <2>1, <2>2 DEF ObjectsInv, ResultInv, To, Info, From, Parsed
  <2> QED BY <2>2, <2>3, <2>4, <2>5, <2>6, <2>7 DEF ObjectsInv
<1>2. CASE ObjectsNext
  <2>1. ASSUME NEW f \in AllFields, GetCached(f) \/ EnsureField(f) PROVE ObjectsInv'
    BY <2>1, GetCachedKeepsInv, EnsureFieldKeepsInv
  <2>2. CASE Continue
    BY <2>2, ReadIntegerKeepsInv, EnsuredKeepsInv, GotKeepsInv, ReadObjectKeepsInv,
       LoopKeepsInv DEF Continue
  <2>3. CASE ParseFile \/ Reopen \/ GetUnknown
    BY <2>3, ParseFileKeepsInv, ReopenKeepsInv, GetUnknownKeepsInv
  <2>4. CASE ClearCache
    BY <2>4, ClearCacheEmpties, EmptiedKeepsInv DEF ClearCache
  <2>5. CASE ReparseObject
    BY <2>5, ReparseObjectEmpties, EmptiedKeepsInv DEF ReparseObject
  <2> QED BY <1>2, <2>1, <2>2, <2>3, <2>4, <2>5 DEF ObjectsNext
<1> QED BY <1>1, <1>2

\* It holds in every reachable state.
LEMMA ObjectsInvariant == ObjectsSpec => []ObjectsInv
BY InitObjectsInv, NextKeepsObjectsInv, PTL DEF ObjectsSpec

-----------------------------------------------------------------------------
\* A value of a field is of the type.
LEMMA FieldsTyped ==
  ASSUME ObjectsInv, NEW o \in 1 .. Len(objs)
  PROVE  /\ objs[o].type \in Types /\ objs[o].start \in Nat
         /\ objs[o].fields \in Seq([offset : Nat, value : ValueType])
         /\ Len(objs[o].fields) = Len(Fields[objs[o].type])
<1> DEFINE fields == objs[o].fields
<1>1. GoodObjects(objs)
  BY DEF ObjectsInv
<1>2. /\ objs[o].type \in Types /\ objs[o].start \in Nat /\ fields \in Seq(ParsedField)
      /\ GoodObject(objs, o) /\ Len(objs) \in Nat
  <2>1. objs[o] \in ObjectType
    BY <1>1, ElementOfSeq DEF GoodObjects
  <2> QED BY <1>1, <2>1, LenProperties DEF ObjectType, GoodObjects
<1>3. ASSUME NEW i \in 1 .. Len(fields)
      PROVE  fields[i] \in [offset : Nat, value : ValueType]
  <2>1. Holds(objs, Fields[objs[o].type][i], fields[i]) /\ fields[i] \in ParsedField
    BY <1>1, FieldFacts
  <2>2. fields[i].value.object \in 0 .. Len(objs)
    <3> DEFINE info == Fields[objs[o].type][i]
    <3>1. CASE fields[i].value = NoValue
      BY <1>2, <3>1 DEF NoValue
    <3>2. CASE fields[i].value # NoValue /\ info.object = NoType
      <4>1. fields[i].value =
               BytesValue(FileBytes(ByteCount(fields[i].offset), info.size))
        BY <2>1, <3>2 DEF Holds
      <4> QED BY <1>2, <4>1 DEF BytesValue
    <3>3. CASE fields[i].value # NoValue /\ info.object # NoType
      <4>1. fields[i].value.object \in 1 .. Len(objs)
        BY <2>1, <3>3 DEF Holds
      <4> QED BY <1>2, <4>1
    <3> QED BY <3>1, <3>2, <3>3
  <2>3. fields[i].value \in [bytes : Bytes, object : Nat]
    BY <2>1 DEF ParsedField
  <2>4. fields[i].value \in ValueType
    BY <2>2, <2>3 DEF ValueType, Bytes
  <2> DEFINE Values == [bytes : Bytes, object : Nat]
             V == ValueType
  <2>5. fields[i] \in [offset : Nat, value : Values]
    BY <2>1 DEF ParsedField
  <2> HIDE DEF Values, V, fields
  <2>6. fields[i] \in [offset : Nat, value : V]
    BY <2>4, <2>5 DEF V
  <2> QED BY <2>6 DEF V
<1>4. fields \in [1 .. Len(fields) -> [offset : Nat, value : ValueType]]
      /\ Len(fields) \in Nat
  <2>1. fields \in [1 .. Len(fields) -> ParsedField] /\ Len(fields) \in Nat
    BY <1>2, LenProperties
  <2> HIDE DEF fields
  <2> QED BY <1>3, <2>1
<1>5. fields \in Seq([offset : Nat, value : ValueType])
  BY <1>4, SequenceFromFunction
<1> QED BY <1>2, <1>5 DEF GoodObject

\* Every reachable state of the objects is of the declared types.
THEOREM ObjectsTypeCorrect == ObjectsSpec => []ObjectsTypeOK
<1>1. ASSUME ObjectsInv PROVE ObjectsTypeOK
  <2>1. /\ TypeOK /\ Len(objs) <= MaxObjects
        /\ pc \in {"unparsed", "failed", "app", "read", "ensure", "get"}
    BY <1>1 DEF ObjectsInv, WindowInv, CallInv
  <2>2. result.value \in ValueType
    BY <1>1 DEF ObjectsInv, ResultInv, ValueType, Bytes
  <2>3. cur \in AllFields \cup {NoField} /\ (cur = NoField <=> ~Reading)
    <3>1. CASE Reading
      <4>1. cur \in AllFields /\ cur.obj \in 1 .. Len(objs)
        BY <1>1, <3>1, InTheCall, FieldsOfObjects
      <4>2. cur # NoField
        BY <4>1 DEF NoField
      <4> QED BY <3>1, <4>1, <4>2
    <3>2. CASE ~Reading
      BY <1>1, <3>2 DEF ObjectsInv, CursorInv
    <3> QED BY <3>1, <3>2
  <2>4. ~Reading <=> pc \in {"unparsed", "failed", "app"}
    BY <2>1 DEF Reading
  <2>5. (cur = NoField) = (pc \in {"unparsed", "failed", "app"})
    BY <2>3, <2>4
  <2>6. \A o \in 1 .. Len(objs) :
           /\ objs[o].type \in Types
           /\ objs[o].start \in Nat
           /\ objs[o].fields \in Seq([offset : Nat, value : ValueType])
           /\ Len(objs[o].fields) = Len(Fields[objs[o].type])
    BY <1>1, FieldsTyped
  <2> QED BY <2>1, <2>2, <2>3, <2>5, <2>6, Zenon DEF ObjectsTypeOK
<1> QED BY <1>1, ObjectsInvariant, PTL

\* Whatever was read before, through this object or another, every field that
\* is cached holds what the file has at its offset, or an object that starts
\* there.
THEOREM ValuesAreTheFile == ObjectsSpec => []ValueCorrect
<1>1. ASSUME ObjectsInv PROVE ValueCorrect
  <2> SUFFICES ASSUME NEW f \in AllFields, Parsed(f).value # NoValue
               PROVE  LET value == Parsed(f).value
                      IN  IF Info(f).object = NoType
                          THEN /\ To(f) <= FileSize
                               /\ value = BytesValue(FileBytes(From(f), Info(f).size))
                          ELSE LET child == objs[value.object]
                               IN  /\ child.type = Info(f).object
                                   /\ child.start = Parsed(f).offset
    BY DEF ValueCorrect
  <2>1. Holds(objs, Info(f), Parsed(f))
    BY <1>1, FieldsOfObjects DEF ObjectsInv
  <2> QED BY <2>1 DEF Holds, To, From
<1> QED BY <1>1, ObjectsInvariant, PTL

\* No short read, window or seek of another object makes a field seem to be
\* past the end of the file when it is not.
THEOREM EndOfFileIsTrue == ObjectsSpec => []EofOnlyAtEnd
<1>1. ObjectsInv => EofOnlyAtEnd
  BY DEF ObjectsInv, ResultInv, EofOnlyAtEnd
<1> QED BY <1>1, ObjectsInvariant, PTL

\* The objects do not read after a seek that has failed.
THEOREM LostIsNotRead == ObjectsSpec => []NeverReadsLost
<1>1. ASSUME ObjectsInv PROVE NeverReadsLost
  <2>1. CASE Reading
    BY <1>1, <2>1, InTheCall DEF NeverReadsLost
  <2>2. CASE ~Reading
    BY <1>1, <2>2 DEF NeverReadsLost, ObjectsInv, CallInv, Reading
  <2> QED BY <2>1, <2>2
<1> QED BY <1>1, ObjectsInvariant, PTL

-----------------------------------------------------------------------------
\* A step of a call in progress goes on, fails, or gives the field its value.
LEMMA StepOfCall ==
  ASSUME ObjectsInv, Continue
  PROVE  \/ pc' \in {"ensure", "get"} /\ cur' = cur /\ objs' = objs
         \/ \E error \in {"io", "eof"} : Fail(cur, error)
         \/ /\ pc' = "app"
            /\ result' = [of |-> cur, error |-> "none", value |-> result'.value]
            /\ result'.value # NoValue
            /\ Len(objs') >= Len(objs)
            /\ ValueGiven(objs', objs, cur.obj, cur.field, result'.value)
<1>1. CASE ReadInteger
  BY <1>1 DEF ReadInteger
<1>2. CASE Ensured
  BY <1>2 DEF Ensured
<1>3. CASE Loop
  <2>1. call # Idle /\ pc' = pc /\ cur' = cur /\ objs' = objs
    BY <1>3 DEF Loop, objectVars, Fill, FillRead, FillEof, FillFails, FillDone
  <2> QED BY <2>1 DEF ObjectsInv, CallInv
<1>4. ASSUME NEW value, NEW made, Keep(cur, value, made), value # NoValue,
             Len(objs') >= Len(objs),
             ValueGiven(objs', objs, cur.obj, cur.field, value)
      PROVE  /\ pc' = "app"
             /\ result' = [of |-> cur, error |-> "none", value |-> result'.value]
             /\ result'.value # NoValue
             /\ Len(objs') >= Len(objs)
             /\ ValueGiven(objs', objs, cur.obj, cur.field, result'.value)
  BY <1>4 DEF Keep
<1>5. CASE Got
  <2> DEFINE value == BytesValue(SubSeq(answer.bytes, 1, Info(cur).size))
  <2>1. CASE Fail(cur, "io") \/ Fail(cur, "eof")
    BY <2>1
  <2>2. CASE ~(Fail(cur, "io") \/ Fail(cur, "eof"))
    <3>1. /\ pc = "get" /\ call = Idle /\ answer.ok
          /\ ~(Len(answer.bytes) < Info(cur).size)
          /\ Keep(cur, value, <<>>)
      BY <1>5, <2>2 DEF Got
    <3>2. /\ value # NoValue /\ Len(objs') = Len(objs)
          /\ ValueGiven(objs', objs, cur.obj, cur.field, value)
      BY <3>1, GotKeeps
    <3>3. Len(objs') >= Len(objs)
      BY <3>2, LenProperties DEF ObjectsInv, GoodObjects
    <3> HIDE DEF value
    <3> QED BY <1>4, <3>1, <3>2, <3>3
  <2> QED BY <2>1, <2>2
<1>6. CASE ReadObject
  <2> DEFINE value == ObjectValue(Len(objs) + 1)
  <2>1. CASE Fail(cur, "io")
    BY <2>1
  <2>2. CASE ~Fail(cur, "io")
    <3>1. /\ pc = "read" /\ Info(cur).object # NoType
          /\ Keep(cur, value, <<Object(Info(cur).object, Position)>>)
      BY <1>6, <2>2 DEF ReadObject
    <3>2. /\ value # NoValue /\ Len(objs') = Len(objs) + 1
          /\ ValueGiven(objs', objs, cur.obj, cur.field, value)
      BY <3>1, ReadObjectKeeps
    <3>3. Len(objs') >= Len(objs)
      BY <3>2, LenProperties DEF ObjectsInv, GoodObjects
    <3> HIDE DEF value
    <3> QED BY <1>4, <3>1, <3>2, <3>3
  <2> QED BY <2>1, <2>2
<1> QED BY <1>1, <1>2, <1>3, <1>5, <1>6 DEF Continue

\* A step of a call that keeps a value keeps nothing else.
LEMMA KeepAddsOne ==
  ASSUME GoodObjects(objs), cur \in AllFields, NEW value, pc' = "app",
         ValueGiven(objs', objs, cur.obj, cur.field, value),
         result' = [of |-> cur, error |-> "none", value |-> value]
  PROVE  KeepsOthers
<1> SUFFICES ASSUME NEW f \in AllFields
             PROVE  IF Returns(f) THEN Parsed(f)'.value = result'.value
                                  ELSE Parsed(f)' = Parsed(f)
  BY DEF KeepsOthers
<1>1. /\ f.obj \in 1 .. Len(objs) /\ f.field \in 1 .. Len(objs[f.obj].fields)
      /\ f = [obj |-> f.obj, field |-> f.field]
      /\ cur = [obj |-> cur.obj, field |-> cur.field]
  BY FieldsOfObjects
<1>2. Parsed(f)' = objs'[f.obj].fields[f.field]
  BY DEF Parsed
<1>3. CASE f = cur
  <2>1. Returns(f)
    BY <1>3 DEF Returns
  <2> QED BY <1>2, <1>3, <2>1 DEF ValueGiven
<1>4. CASE f # cur
  <2>1. ~Returns(f)
    BY <1>4 DEF Returns
  <2>2. <<f.obj, f.field>> # <<cur.obj, cur.field>>
    BY <1>1, <1>4
  <2>3. objs'[f.obj].fields[f.field] = objs[f.obj].fields[f.field]
    BY <1>1, <2>2 DEF ValueGiven
  <2> QED BY <1>2, <2>1, <2>3 DEF Parsed
<1> QED BY <1>3, <1>4

\* A step that fails, or leaves the call in progress, keeps all fields.
LEMMA SameObjectsKept ==
  ASSUME objs' = objs, pc' # "app" \/ result'.error # "none"
  PROVE  KeepsOthers
BY DEF KeepsOthers, Returns, Parsed

\* A call that fails changes nothing that is cached, and one that succeeds adds
\* its own value and no other.
THEOREM FailedCallsCacheNothing == ObjectsSpec => CacheOnlyAdds
<1>1. ASSUME ObjectsInv, ObjectsNext, pc \in {"read", "ensure", "get"}
      PROVE  KeepsOthers
  <2>1. GoodObjects(objs) /\ cur \in AllFields
    BY <1>1, InTheCall DEF Reading
  <2>2. Continue
    BY <1>1 DEF ObjectsNext, ParseFile, Reopen, GetUnknown, GetCached, EnsureField,
                ClearCache, ReparseObject
  <2>3. CASE pc' \in {"ensure", "get"} /\ objs' = objs
    BY <2>3, SameObjectsKept
  <2>4. ASSUME NEW error \in {"io", "eof"}, Fail(cur, error) PROVE KeepsOthers
    BY <2>4, SameObjectsKept DEF Fail
  <2>5. CASE /\ pc' = "app"
             /\ result' = [of |-> cur, error |-> "none", value |-> result'.value]
             /\ ValueGiven(objs', objs, cur.obj, cur.field, result'.value)
    BY <2>1, <2>5, KeepAddsOne
  <2> QED BY <1>1, <2>2, <2>3, <2>4, <2>5, StepOfCall
<1>2. ObjectsInv /\ [ObjectsNext]_allVars =>
        [(pc \in {"read", "ensure", "get"}) => KeepsOthers]_allVars
  BY <1>1
<1> QED BY <1>2, ObjectsInvariant, PTL DEF ObjectsSpec, CacheOnlyAdds

-----------------------------------------------------------------------------
(***************************************************************************)
(* The objects and the fields that hold them.                              *)
(***************************************************************************)

\* The object that a field holds, or 0.
Held(os, o, i) == os[o].fields[i].value.object

\* A field holds an object made after its own, which no other field holds.
Tree(os) ==
    \A o \in 1 .. Len(os) : \A i \in 1 .. Len(os[o].fields) :
        Held(os, o, i) # 0 =>
            /\ Held(os, o, i) > o
            /\ \A q \in 1 .. Len(os) : \A j \in 1 .. Len(os[q].fields) :
                  Held(os, q, j) = Held(os, o, i) => q = o /\ j = i

\* What a step may do to what a field holds: nothing, empty it, or make an
\* object for it, which only the field i of o may be given.
HeldAfter(ns, os, o, i, q, j) ==
    \/ Held(ns, q, j) = 0
    \/ /\ q \in 1 .. Len(os) /\ j \in 1 .. Len(os[q].fields)
       /\ Held(ns, q, j) = Held(os, q, j)
    \/ q = o /\ j = i /\ o \in 1 .. Len(os) /\ Held(ns, q, j) = Len(os) + 1

\* A field holds an object that there is.
LEMMA HeldExists ==
  ASSUME NEW os, GoodObjects(os), NEW o \in 1 .. Len(os),
         NEW i \in 1 .. Len(os[o].fields)
  PROVE  Held(os, o, i) \in 0 .. Len(os)
<1> DEFINE value == os[o].fields[i].value
<1>1. Holds(os, Fields[os[o].type][i], os[o].fields[i]) /\ Len(os) \in Nat
  BY FieldFacts, LenProperties DEF GoodObjects
<1>2. value.object = 0 \/ value.object \in 1 .. Len(os)
  <2>1. NoValue.object = 0 /\ \A bytes : BytesValue(bytes).object = 0
    BY DEF NoValue, BytesValue
  <2> HIDE DEF value
  <2>2. \/ value = NoValue
        \/ \E bytes : value = BytesValue(bytes)
        \/ value.object \in 1 .. Len(os)
    BY <1>1 DEF Holds, value
  <2> QED BY <2>1, <2>2
<1> QED BY <1>1, <1>2 DEF Held

\* Such steps keep the tree.
LEMMA TreeGrows ==
  ASSUME NEW os, GoodObjects(os), Tree(os), NEW ns, NEW o, NEW i,
         \A q \in 1 .. Len(ns) : \A j \in 1 .. Len(ns[q].fields) :
            HeldAfter(ns, os, o, i, q, j)
  PROVE  Tree(ns)
<1>1. Len(os) \in Nat
  BY LenProperties DEF GoodObjects
<1> SUFFICES ASSUME NEW q \in 1 .. Len(ns), NEW j \in 1 .. Len(ns[q].fields),
                    Held(ns, q, j) # 0
             PROVE  /\ Held(ns, q, j) > q
                    /\ \A p \in 1 .. Len(ns) : \A k \in 1 .. Len(ns[p].fields) :
                          Held(ns, p, k) = Held(ns, q, j) => p = q /\ k = j
  BY DEF Tree
<1>2. CASE /\ q \in 1 .. Len(os) /\ j \in 1 .. Len(os[q].fields)
           /\ Held(ns, q, j) = Held(os, q, j)
  <2>1. Held(os, q, j) \in 0 .. Len(os)
    BY <1>2, HeldExists
  <2>2. /\ Held(os, q, j) > q
        /\ \A p \in 1 .. Len(os) : \A k \in 1 .. Len(os[p].fields) :
              Held(os, p, k) = Held(os, q, j) => p = q /\ k = j
    BY <1>2 DEF Tree
  <2>3. ASSUME NEW p \in 1 .. Len(ns), NEW k \in 1 .. Len(ns[p].fields),
               Held(ns, p, k) = Held(ns, q, j)
        PROVE  p = q /\ k = j
    <3>1. HeldAfter(ns, os, o, i, p, k)
      OBVIOUS
    <3>2. Held(ns, p, k) # Len(os) + 1
      BY <1>1, <1>2, <2>1, <2>3
    <3> QED BY <1>2, <2>2, <2>3, <3>1, <3>2 DEF HeldAfter
  <2> QED BY <1>2, <2>2, <2>3
<1>3. CASE q = o /\ j = i /\ o \in 1 .. Len(os) /\ Held(ns, q, j) = Len(os) + 1
  <2>1. Held(ns, q, j) > q
    BY <1>1, <1>3
  <2>2. ASSUME NEW p \in 1 .. Len(ns), NEW k \in 1 .. Len(ns[p].fields),
               Held(ns, p, k) = Held(ns, q, j)
        PROVE  p = q /\ k = j
    <3>1. HeldAfter(ns, os, o, i, p, k)
      OBVIOUS
    <3>2. CASE /\ p \in 1 .. Len(os) /\ k \in 1 .. Len(os[p].fields)
               /\ Held(ns, p, k) = Held(os, p, k)
      BY <1>1, <1>3, <2>2, <3>2, HeldExists
    <3> QED BY <1>3, <2>2, <3>1, <3>2 DEF HeldAfter
  <2> QED BY <2>1, <2>2
<1>4. HeldAfter(ns, os, o, i, q, j)
  OBVIOUS
<1> QED BY <1>2, <1>3, <1>4 DEF HeldAfter

\* No field of a new object holds one.
LEMMA LayoutHoldsNone ==
  ASSUME NEW os, NEW o, NEW t \in Types, NEW at \in Nat, os[o].fields = Layout(t, at),
         NEW i \in 1 .. Len(os[o].fields)
  PROVE  Held(os, o, i) = 0
BY LayoutIsEmpty DEF Held, NoValue

\* A field is given a value and an object may be added.
LEMMA GivenKeepsTree ==
  ASSUME NEW os, GoodObjects(os), Tree(os), NEW ns, NEW o \in 1 .. Len(os), NEW i,
         NEW value, ValueGiven(ns, os, o, i, value),
         value.object = 0 \/ value.object = Len(os) + 1,
         \A q \in 1 .. Len(ns) : q \in 1 .. Len(os) \/
            \A j \in 1 .. Len(ns[q].fields) : Held(ns, q, j) = 0
  PROVE  Tree(ns)
<1>1. ASSUME NEW q \in 1 .. Len(ns), NEW j \in 1 .. Len(ns[q].fields)
      PROVE  HeldAfter(ns, os, o, i, q, j)
  <2>1. CASE q \in 1 .. Len(os)
    <3>1. j \in 1 .. Len(os[q].fields)
      BY <2>1 DEF ValueGiven
    <3>2. CASE q = o /\ j = i
      <4>1. Held(ns, q, j) = value.object
        BY <3>2 DEF Held, ValueGiven
      <4> QED BY <3>2, <4>1 DEF HeldAfter
    <3>3. CASE <<q, j>> # <<o, i>>
      <4>1. Held(ns, q, j) = Held(os, q, j)
        BY <2>1, <3>1, <3>3 DEF Held, ValueGiven
      <4> QED BY <2>1, <3>1, <4>1 DEF HeldAfter
    <3> QED BY <3>2, <3>3
  <2>2. CASE q \notin 1 .. Len(os)
    BY <2>2 DEF HeldAfter
  <2> QED BY <2>1, <2>2
<1> QED BY <1>1, TreeGrows, Zenon

\* The fields of one object are emptied.
LEMMA EmptiedKeepsTree ==
  ASSUME NEW os, GoodObjects(os), Tree(os), NEW ns, Emptied(ns, os)
  PROVE  Tree(ns)
<1> PICK o \in 1 .. Len(os) : \E fields :
            /\ Fit(os, o, fields)
            /\ \A i \in 1 .. Len(fields) : fields[i].value = NoValue
            /\ ns = [os EXCEPT ![o].fields = fields]
  BY DEF Emptied
<1> PICK fields : /\ Fit(os, o, fields)
                  /\ \A i \in 1 .. Len(fields) : fields[i].value = NoValue
                  /\ ns = [os EXCEPT ![o].fields = fields]
  OBVIOUS
<1>1. Replaced(ns, os, o, fields)
  BY FieldsReplaced, Zenon
<1>2. ASSUME NEW q \in 1 .. Len(ns), NEW j \in 1 .. Len(ns[q].fields)
      PROVE  HeldAfter(ns, os, 0, 0, q, j)
  <2>1. q \in 1 .. Len(os)
    BY <1>1 DEF Replaced
  <2>2. CASE q = o
    <3>1. ns[q].fields = fields
      BY <1>1, <2>2 DEF Replaced
    <3>2. Held(ns, q, j) = 0
      BY <3>1 DEF Held, NoValue
    <3> QED BY <3>2 DEF HeldAfter
  <2>3. CASE q # o
    <3>1. ns[q] = os[q]
      BY <1>1, <2>1, <2>3 DEF Replaced
    <3>2. Held(ns, q, j) = Held(os, q, j)
      BY <3>1 DEF Held
    <3> QED BY <2>1, <3>1, <3>2 DEF HeldAfter
  <2> QED BY <2>2, <2>3
<1> QED BY <1>2, TreeGrows, Zenon

\* Before the first object there is no field.
LEMMA NoTree == Tree(<<>>)
<1>1. Len(<<>>) = 0
  OBVIOUS
<1> QED BY <1>1 DEF Tree

\* An integer is no object, and a new object is nobody's but the field's that
\* it is made for.
LEMMA ContinueKeepsTree ==
  ASSUME ObjectsInv, Tree(objs), Continue
  PROVE  Tree(objs')
<1>1. CASE objs' = objs
  BY <1>1
<1>2. CASE Got /\ ~(objs' = objs)
  <2> DEFINE value == BytesValue(SubSeq(answer.bytes, 1, Info(cur).size))
  <2>1. /\ pc = "get" /\ call = Idle /\ answer.ok
        /\ ~(Len(answer.bytes) < Info(cur).size)
        /\ Keep(cur, value, <<>>)
    BY <1>2 DEF Got, Fail
  <2>2. /\ value \in [bytes : Bytes, object : {0}] /\ Len(objs') = Len(objs)
        /\ ValueGiven(objs', objs, cur.obj, cur.field, value)
    BY <2>1, GotKeeps
  <2>3. GoodObjects(objs) /\ cur.obj \in 1 .. Len(objs)
    BY <2>1, InTheCall, FieldsOfObjects DEF Reading
  <2> HIDE DEF value
  <2>4. value.object = 0
    BY <2>2
  <2>5. \A q \in 1 .. Len(objs') : q \in 1 .. Len(objs)
    BY <2>2
  <2> QED BY <2>2, <2>3, <2>4, <2>5, GivenKeepsTree
<1>3. CASE ReadObject /\ ~(objs' = objs)
  <2> DEFINE value == ObjectValue(Len(objs) + 1)
             t == Info(cur).object
  <2>1. /\ pc = "read" /\ t # NoType
        /\ Keep(cur, value, <<Object(t, Position)>>)
    BY <1>3 DEF ReadObject, Fail
  <2>2. /\ Len(objs') = Len(objs) + 1
        /\ ValueGiven(objs', objs, cur.obj, cur.field, value)
        /\ objs'[Len(objs) + 1].fields = Layout(t, Position)
    BY <2>1, ReadObjectKeeps
  <2>3. /\ GoodObjects(objs) /\ cur.obj \in 1 .. Len(objs) /\ Len(objs) \in Nat
        /\ t \in Types /\ Position \in Nat
    BY <2>1, InTheCall, FieldsOfObjects DEF Reading
  <2>4. value.object = Len(objs) + 1
    BY DEF ObjectValue
  <2> HIDE DEF value, t
  <2>5. \A q \in 1 .. Len(objs') : q \in 1 .. Len(objs) \/ q = Len(objs) + 1
    BY <2>2, <2>3
  <2>6. \A j \in 1 .. Len(objs'[Len(objs) + 1].fields) : Held(objs', Len(objs) + 1, j) = 0
    BY <2>2, <2>3, LayoutHoldsNone
  <2> QED BY <2>2, <2>3, <2>4, <2>5, <2>6, GivenKeepsTree
<1>4. CASE ReadInteger \/ Ensured \/ Loop
  BY <1>1, <1>4 DEF ReadInteger, Ensured, Loop, Fail, objectVars
<1> QED BY <1>1, <1>2, <1>3, <1>4 DEF Continue

\* No operation of the objects makes anything but a tree of them.
LEMMA NextKeepsTree ==
  ASSUME ObjectsInv, Tree(objs), [ObjectsNext]_allVars
  PROVE  Tree(objs')
<1>1. CASE objs' = objs
  BY <1>1
<1>2. CASE Continue
  BY <1>2, ContinueKeepsTree
<1>3. CASE ClearCache \/ ReparseObject
  BY <1>3, ClearCacheEmpties, ReparseObjectEmpties, EmptiedKeepsTree
  DEF ObjectsInv
<1>4. CASE ParseFile
  <2>1. Position = 0 /\ Root \in Types
    BY <1>4, FieldsAssumption DEF ParseFile, ObjectsInv, ResultInv
  <2>2. objs' = <<>> \/ objs' = <<Object(Root, 0)>>
    BY <1>4, <2>1 DEF ParseFile
  <2>3. CASE objs' = <<Object(Root, 0)>>
    <3>1. Len(objs') = 1 /\ objs'[1].fields = Layout(Root, 0)
      BY <2>3 DEF Object
    <3>2. ASSUME NEW q \in 1 .. Len(objs'), NEW j \in 1 .. Len(objs'[q].fields)
          PROVE  HeldAfter(objs', objs, 0, 0, q, j)
      <4>1. q = 1
        BY <3>1
      <4>2. Held(objs', q, j) = 0
        BY <2>1, <3>1, <4>1, LayoutHoldsNone
      <4> QED BY <4>2 DEF HeldAfter
    <3> QED BY <3>2, TreeGrows DEF ObjectsInv
  <2> QED BY <2>2, <2>3, NoTree
<1>5. CASE Reopen
  BY <1>5, NoTree DEF Reopen
<1>6. ASSUME NEW f \in AllFields, GetCached(f) \/ EnsureField(f) PROVE objs' = objs
  BY <1>6 DEF GetCached, EnsureField, Fail
<1>7. CASE GetUnknown \/ UNCHANGED allVars
  BY <1>1, <1>7 DEF GetUnknown, allVars, objectVars
<1> QED BY <1>1, <1>2, <1>3, <1>4, <1>5, <1>6, <1>7 DEF ObjectsNext

\* However the fields are asked for, emptied and read again, no object is in
\* itself, and none is the value of two fields: a walk over an object and those
\* in it comes to each of them once.
THEOREM ObjectsAreATree == ObjectsSpec => []Tree(objs)
<1>1. ObjectsInit => Tree(objs)
  BY NoTree DEF ObjectsInit
<1>2. ObjectsInv /\ Tree(objs) /\ [ObjectsNext]_allVars => Tree(objs)'
  BY NextKeepsTree
<1> QED BY <1>1, <1>2, ObjectsInvariant, PTL DEF ObjectsSpec
=============================================================================
