----------------------- MODULE DefinitionParserProofs -----------------------
(***************************************************************************)
(* Proofs about the definition parser, for files of any length and lists   *)
(* of options and digits of any length.                                    *)
(*                                                                         *)
(* What the visitor has of the file is said by FileInv and StackInv: each  *)
(* type and each member that it has entered is made of the one that is     *)
(* written there.  FaultInv says that what it has seen has the errors of   *)
(* its faults, AcceptInv that a parser comes of a good file.  The rest is  *)
(* about the functions that are used on the way, each of them a recursion  *)
(* over a sequence: the options of a use, the value of a number, the size  *)
(* of a type.                                                              *)
(***************************************************************************)
EXTENDS DefinitionParser, Induction, SequenceTheorems, FiniteSetTheorems

IsSeq(s) == s \in Seq({s[i] : i \in 1 .. Len(s)})

\* A sequence with one element more.
LEMMA AppendIsSeq ==
  ASSUME NEW s, IsSeq(s), NEW e
  PROVE  /\ IsSeq(Append(s, e)) /\ Len(s) \in Nat
         /\ Len(Append(s, e)) = Len(s) + 1
         /\ \A i \in 1 .. Len(s) : Append(s, e)[i] = s[i]
         /\ Append(s, e)[Len(s) + 1] = e
<1> DEFINE S == {s[i] : i \in 1 .. Len(s)} \cup {e}
           t == Append(s, e)
<1>1. s \in Seq(S)
  BY SeqMonotonic DEF IsSeq
<1> HIDE DEF S
<1>2. /\ t \in Seq(S) /\ Len(t) = Len(s) + 1
      /\ \A i \in 1 .. Len(s) : t[i] = s[i]
      /\ t[Len(s) + 1] = e
  BY <1>1, AppendProperties DEF S
<1>3. Len(s) \in Nat
  BY <1>1, LenProperties
<1>4. IsSeq(t)
  <2> HIDE DEF t
  <2>1. t \in [1 .. Len(t) -> {t[i] : i \in 1 .. Len(t)}] /\ Len(t) \in Nat
    BY <1>2, LenProperties
  <2> QED BY <2>1 DEF IsSeq
<1> QED BY <1>2, <1>3, <1>4

\* The least of a set of numbers.
LEMMA MinIsLeast ==
  ASSUME NEW I, I \subseteq Nat, I # {}
  PROVE  Min(I) \in I /\ \A y \in I : Min(I) <= y
BY LeastNumber DEF Min

\* GetType finds the first of the types with the name, or the built-in one.
LEMMA GetTypeIs ==
  ASSUME IsSeq(types), NEW name
  PROVE  /\ Defined(name) =>
              \E k \in 1 .. Len(types) :
                 /\ types[k].name = name /\ GetType(name) = types[k]
                 /\ \A l \in 1 .. k - 1 : types[l].name # name
         /\ ~Defined(name) =>
              GetType(name) = IF name \in DOMAIN BuiltIns
                              THEN IntegerType(name, BuiltIns[name].sign, "Unset")
                              ELSE NoType
<1> DEFINE I == {i \in 1 .. Len(types) : types[i].name = name}
<1>1. Defined(name) => I # {} /\ GetType(name) = types[Min(I)]
  BY DEF Defined, GetType, SelectInSeq
<1>2. Len(types) \in Nat
  BY LenProperties DEF IsSeq
<1>3. CASE Defined(name)
  <2>0. I \subseteq Nat /\ I # {}
    BY <1>1, <1>2, <1>3
  <2>1. Min(I) \in I /\ \A y \in I : Min(I) <= y
    BY <2>0, MinIsLeast, Zenon
  <2>2. \A l \in 1 .. Min(I) - 1 : l \in 1 .. Len(types) /\ ~(Min(I) <= l)
    BY <1>2, <2>1
  <2>3. \A l \in 1 .. Min(I) - 1 : types[l].name # name
    BY <2>1, <2>2
  <2>4. Min(I) \in 1 .. Len(types) /\ types[Min(I)].name = name
    BY <2>1
  <2> QED BY <1>1, <1>3, <2>3, <2>4
<1>4. CASE ~Defined(name)
  BY <1>4 DEF GetType
<1> QED BY <1>3, <1>4

-----------------------------------------------------------------------------
\* An integer type with what the options of its use say.
Resolved(name, list) ==
    LET options == BuildStaticOptions(OptionsOf(list), OptionTypes)
    IN  IntegerType(name, GetOption(options, "Signedness", BuiltIns[name].sign),
                    GetOption(options, "ByteOrder", "Unset"))

\* k is the first of the types of the file ws with the name.
FirstNamed(ws, k, name) ==
    /\ ws[k].name = name
    /\ \A l \in 1 .. k - 1 : ws[l].name # name

\* f is made of member m of type i of the file ws, with the types ts before.
FieldOf(ws, ts, i, m, f) ==
    /\ f.name = m.name
    /\ f.expected = Literal(m.number)
    /\ \/ \E k \in 1 .. i - 1 : FirstNamed(ws, k, m.type) /\ f.type = ts[k]
       \/ /\ \A k \in 1 .. i - 1 : ws[k].name # m.type
          /\ f.type = IF m.type \in DOMAIN BuiltIns
                      THEN Resolved(m.type, m.options) ELSE NoType

\* fields are made of the members of type i.
Entered(ws, ts, i, fields) ==
    /\ IsSeq(fields)
    /\ Len(fields) = Len(ws[i].members)
    /\ \A j \in 1 .. Len(fields) : FieldOf(ws, ts, i, ws[i].members[j], fields[j])

\* A name is not empty.
HasText(name) == name # ""

\* A member as it is written.
WrittenMember(m) ==
    m.options \in OptionLists /\ m.number \in Numbers \cup {NoNumber}

\* A type as it is written.
WrittenType(t) ==
    /\ t = [name |-> t.name, members |-> t.members] /\ HasText(t.name)
    /\ IsSeq(t.members)
    /\ \A j \in 1 .. Len(t.members) : WrittenMember(t.members[j])

\* The part of the file that is read so far is one that the grammar takes.
FileInv ==
    /\ IsSeq(written)
    /\ \A i \in 1 .. Len(written) : WrittenType(written[i])

\* The last type is not visited to its end.
InType == stage \in {"members", "threw"}

\* The scopes of the visitor (definition_parser.h:72): each type is made of the
\* members of its own, and the statements are those of the type it is in.
StackInv ==
    /\ stage \in {"types", "members", "returned", "threw"}
    /\ IsSeq(types) /\ IsSeq(statements)
    /\ InType => Len(written) = Len(types) + 1
    /\ ~InType => Len(written) = Len(types) /\ statements = <<>>
    /\ \A i \in 1 .. Len(types) :
          /\ types[i] = Definition(written[i].name, types[i].fields)
          /\ Entered(written, types, i, types[i].fields)
    /\ stage = "members" => Entered(written, types, Len(written), statements)

\* A parser has a type, and the root it found is the one it was asked for.
RootInv ==
    /\ parser => stage = "returned" /\ types # <<>>
    /\ root # NoRoot =>
          /\ parser
          /\ root.type = RootType(root.asked)
          /\ root.type = NoType => errors.has_error

-----------------------------------------------------------------------------
\* The other types and members stay when one is written.
LEMMA EnteredStays ==
  ASSUME NEW ws, NEW ts, NEW vs, NEW us, NEW i \in Nat, NEW fields,
         Entered(ws, ts, i, fields),
         \A k \in 1 .. i : vs[k].name = ws[k].name,
         vs[i].members = ws[i].members,
         \A k \in 1 .. i - 1 : us[k] = ts[k]
  PROVE  Entered(vs, us, i, fields)
<1>1. \A k \in 1 .. i - 1 : k \in 1 .. i /\ \A l \in 1 .. k - 1 : l \in 1 .. i
  OBVIOUS
<1>2. ASSUME NEW name, NEW k \in 1 .. i - 1, FirstNamed(ws, k, name)
      PROVE  FirstNamed(vs, k, name)
  BY <1>1, <1>2 DEF FirstNamed
<1>3. ASSUME NEW m, NEW f, FieldOf(ws, ts, i, m, f) PROVE FieldOf(vs, us, i, m, f)
  <2>1. CASE \E k \in 1 .. i - 1 : FirstNamed(ws, k, m.type) /\ f.type = ts[k]
    BY <1>2, <1>3, <2>1 DEF FieldOf
  <2>2. CASE \A k \in 1 .. i - 1 : ws[k].name # m.type
    <3>1. \A k \in 1 .. i - 1 : vs[k].name # m.type
      BY <1>1, <2>2
    <3>2. ~ \E k \in 1 .. i - 1 : FirstNamed(ws, k, m.type)
      BY <2>2 DEF FirstNamed
    <3> QED BY <1>3, <3>1, <3>2 DEF FieldOf
  <2> QED BY <1>3, <2>1, <2>2 DEF FieldOf
<1> QED BY <1>3 DEF Entered

\* A type is not the null pointer.
LEMMA TypesAreNotNull ==
  /\ \A name, fields : Definition(name, fields) # NoType
  /\ \A name, sign, order : IntegerType(name, sign, order) # NoType
BY DEF Definition, IntegerType, NoType

\* What the visitor makes of a use of a type.
LEMMA CompleteTypeIs ==
  ASSUME IsSeq(types), NEW use, NEW list,
         \A i \in 1 .. Len(types) : types[i] = Definition(types[i].name, types[i].fields)
  PROVE  \/ \E k \in 1 .. Len(types) :
               /\ types[k].name = use /\ CompleteType(use, list) = types[k]
               /\ \A l \in 1 .. k - 1 : types[l].name # use
         \/ /\ \A k \in 1 .. Len(types) : types[k].name # use
            /\ CompleteType(use, list) = IF use \in DOMAIN BuiltIns
                                         THEN Resolved(use, list) ELSE NoType
<1>1. CASE Defined(use)
  <2>1. PICK k \in 1 .. Len(types) :
           /\ types[k].name = use /\ GetType(use) = types[k]
           /\ \A l \in 1 .. k - 1 : types[l].name # use
    BY <1>1, GetTypeIs
  <2>2. types[k] # NoType
    BY TypesAreNotNull
  <2>3. ~IsInteger(types[k])
    BY <1>1, <2>1 DEF IsInteger
  <2>4. CompleteType(use, list) = types[k]
    BY <2>1, <2>2, <2>3 DEF CompleteType, Instantiate
  <2> QED BY <2>1, <2>4
<1>2. CASE ~Defined(use)
  <2>1. \A k \in 1 .. Len(types) : types[k].name # use
    BY <1>2 DEF Defined
  <2>2. CASE use \in DOMAIN BuiltIns
    <3> DEFINE type == IntegerType(use, BuiltIns[use].sign, "Unset")
    <3>1. GetType(use) = type
      BY <1>2, <2>2, GetTypeIs
    <3>2. type # NoType /\ type.name = use
          /\ type.sign = BuiltIns[use].sign /\ type.order = "Unset"
      BY TypesAreNotNull DEF IntegerType
    <3>3. IsInteger(type) /\ GetOptionTypes(type) = OptionTypes
      BY <1>2, <2>2, <3>2 DEF IsInteger, GetOptionTypes
    <3> HIDE DEF type
    <3>4. CompleteType(use, list) = Instantiate(type, BuildStaticOptions(OptionsOf(list), OptionTypes))
      BY <3>1, <3>2, <3>3 DEF CompleteType
    <3>5. CompleteType(use, list) = Resolved(use, list)
      BY <3>2, <3>3, <3>4, Zenon DEF Instantiate, Resolved
    <3> QED BY <2>1, <2>2, <3>5
  <2>3. CASE use \notin DOMAIN BuiltIns
    <3>1. GetType(use) = NoType
      BY <1>2, <2>3, GetTypeIs
    <3> QED BY <2>1, <2>3, <3>1 DEF CompleteType
  <2> QED BY <2>2, <2>3
<1> QED BY <1>1, <1>2

\* The empty sequence.
LEMMA EmptyIsSeq == IsSeq(<<>>) /\ Len(<<>>) = 0
<1>1. <<>> \in Seq({}) /\ Len(<<>>) = 0
  OBVIOUS
<1> QED BY <1>1, SeqMonotonic DEF IsSeq

\* The length of a sequence.
LEMMA LengthOfSeq ==
  ASSUME NEW s, IsSeq(s)
  PROVE  Len(s) \in Nat /\ (s = <<>> <=> Len(s) = 0)
BY LenProperties, EmptySeq DEF IsSeq

-----------------------------------------------------------------------------
(***************************************************************************)
(* The scopes of the visitor.                                              *)
(***************************************************************************)

\* Only a type is added to the file.
LEMMA TypeBegun ==
  ASSUME FileInv, NEW name, HasText(name), BeginType(name)
  PROVE  /\ FileInv' /\ Len(written') = Len(written) + 1 /\ Len(written) \in Nat
         /\ \A i \in 1 .. Len(written) : written'[i] = written[i]
         /\ written'[Len(written')] = [name |-> name, members |-> <<>>]
<1> DEFINE type == [name |-> name, members |-> <<>>]
<1>1. IsSeq(written) /\ written' = Append(written, type)
  BY DEF FileInv, BeginType
<1>2. /\ IsSeq(written') /\ Len(written') = Len(written) + 1 /\ Len(written) \in Nat
      /\ \A i \in 1 .. Len(written) : written'[i] = written[i]
      /\ written'[Len(written) + 1] = type
  BY <1>1, AppendIsSeq
<1>3. \A i \in 1 .. Len(written') : i \in 1 .. Len(written) \/ i = Len(written) + 1
  BY <1>2
<1>4. WrittenType(type)
  BY EmptyIsSeq DEF WrittenType
<1> HIDE DEF type
<1>5. FileInv'
  <2>1. \A i \in 1 .. Len(written) : WrittenType(written[i])
    BY DEF FileInv
  <2>2. \A i \in 1 .. Len(written') : WrittenType(written'[i])
    BY <1>2, <1>3, <1>4, <2>1
  <2> QED BY <1>2, <2>2 DEF FileInv
<1> QED BY <1>2, <1>5 DEF type

\* Only a member is added to the last type.
LEMMA MemberWritten ==
  ASSUME FileInv, written # <<>>, NEW use, NEW m, NEW name,
         m \in [options : OptionLists, number : Numbers \cup {NoNumber}],
         Write(use, m, name)
  PROVE  LET n == Len(written)
             member == [type |-> use, options |-> m.options, name |-> name,
                        number |-> m.number]
         IN  /\ FileInv' /\ Len(written') = n /\ n \in Nat \ {0}
             /\ \A i \in 1 .. n - 1 : written'[i] = written[i]
             /\ written'[n].name = written[n].name
             /\ written'[n].members = Append(written[n].members, member)
             /\ Len(written[n].members) \in Nat
             /\ Len(written'[n].members) = Len(written[n].members) + 1
             /\ \A j \in 1 .. Len(written[n].members) :
                   written'[n].members[j] = written[n].members[j]
             /\ written'[n].members[Len(written[n].members) + 1] = member
<1> DEFINE n == Len(written)
           member == [type |-> use, options |-> m.options, name |-> name,
                      number |-> m.number]
           members == Append(written[n].members, member)
           S == {written[i] : i \in 1 .. n} \cup {[written[n] EXCEPT !.members = members]}
<1>1. n \in Nat \ {0} /\ IsSeq(written)
  BY LengthOfSeq DEF FileInv
<1>2. WrittenType(written[n]) /\ IsSeq(written[n].members)
  <2>1. n \in 1 .. Len(written)
    BY <1>1
  <2> QED BY <2>1 DEF FileInv, WrittenType
<1>3. /\ IsSeq(members) /\ Len(written[n].members) \in Nat
      /\ Len(members) = Len(written[n].members) + 1
      /\ \A j \in 1 .. Len(written[n].members) : members[j] = written[n].members[j]
      /\ members[Len(written[n].members) + 1] = member
  BY <1>2, AppendIsSeq
<1>4. written' = [written EXCEPT ![n] = [written[n] EXCEPT !.members = members]]
  BY Zenon DEF Write
<1>5. WrittenMember(member)
  BY DEF WrittenMember
<1> HIDE DEF member, members
<1>6. /\ written' \in Seq(S) /\ Len(written') = n
      /\ \A i \in 1 .. n : written'[i] = IF i = n THEN [written[n] EXCEPT !.members = members]
                                         ELSE written[i]
  <2>1. written \in Seq(S)
    BY <1>1, SeqMonotonic DEF IsSeq
  <2>2. n \in 1 .. Len(written) /\ [written[n] EXCEPT !.members = members] \in S
    BY <1>1
  <2> HIDE DEF S
  <2> QED BY <1>4, <2>1, <2>2, ExceptSeq
<1>7. IsSeq(written')
  <2>1. written' \in [1 .. Len(written') -> {written'[i] : i \in 1 .. Len(written')}]
        /\ Len(written') \in Nat
    BY <1>6, LenProperties
  <2> QED BY <2>1 DEF IsSeq
<1>8. written[n] = [name |-> written[n].name, members |-> written[n].members]
  BY <1>2 DEF WrittenType
<1>9. [written[n] EXCEPT !.members = members] =
         [name |-> written[n].name, members |-> members]
  BY <1>8
<1>10. /\ written'[n].name = written[n].name
       /\ written'[n].members = members
       /\ \A i \in 1 .. n - 1 : written'[i] = written[i]
  BY <1>1, <1>6, <1>9
<1>11. FileInv'
  <2>1. \A j \in 1 .. Len(members) :
           j \in 1 .. Len(written[n].members) \/ j = Len(written[n].members) + 1
    BY <1>3
  <2>2. \A j \in 1 .. Len(members) : WrittenMember(members[j])
    BY <1>2, <1>3, <1>5, <2>1 DEF WrittenType
  <2>3. WrittenType(written'[n])
    <3>1. written'[n] = [name |-> written[n].name, members |-> members]
      BY <1>1, <1>6, <1>9
    <3>2. HasText(written[n].name)
      BY <1>2 DEF WrittenType
    <3> QED BY <1>3, <2>2, <3>1, <3>2 DEF WrittenType
  <2>4. \A i \in 1 .. n : i # n => i \in 1 .. n - 1
    BY <1>1
  <2>5. \A i \in 1 .. n : WrittenType(written[i])
    BY DEF FileInv
  <2>6. \A i \in 1 .. n : WrittenType(written'[i])
    BY <1>10, <2>3, <2>4, <2>5
  <2> QED BY <1>6, <1>7, <2>6 DEF FileInv
<1> QED BY <1>1, <1>3, <1>6, <1>10, <1>11 DEF member, members

\* The types that are entered stay.
LEMMA TypesStay ==
  ASSUME StackInv, \A i \in 1 .. Len(types) : written'[i] = written[i]
  PROVE  \A i \in 1 .. Len(types) :
            /\ types[i] = Definition(written'[i].name, types[i].fields)
            /\ Entered(written', types, i, types[i].fields)
<1> SUFFICES ASSUME NEW i \in 1 .. Len(types)
             PROVE  /\ types[i] = Definition(written'[i].name, types[i].fields)
                    /\ Entered(written', types, i, types[i].fields)
  OBVIOUS
<1>1. i \in Nat /\ \A k \in 1 .. i : k \in 1 .. Len(types)
  BY LengthOfSeq DEF StackInv
<1>2. Entered(written, types, i, types[i].fields)
  BY DEF StackInv
<1>3. Entered(written', types, i, types[i].fields)
  BY <1>1, <1>2, EnteredStays
<1> QED BY <1>3 DEF StackInv

\* A type that begins has no members, and none of another type.
LEMMA BeginTypeKeepsStack ==
  ASSUME FileInv, StackInv, NEW name, HasText(name), BeginType(name)
  PROVE  FileInv' /\ StackInv'
<1>1. /\ stage = "types" /\ stage' = "members" /\ types' = types
      /\ statements' = <<>> /\ Len(written) = Len(types) /\ Len(types) \in Nat
  BY LengthOfSeq DEF BeginType, StackInv, InType
<1>2. /\ FileInv' /\ Len(written') = Len(types) + 1
      /\ \A i \in 1 .. Len(types) : written'[i] = written[i]
      /\ written'[Len(written')].members = <<>>
  <2>1. /\ FileInv' /\ Len(written') = Len(written) + 1
        /\ \A i \in 1 .. Len(written) : written'[i] = written[i]
        /\ written'[Len(written')] = [name |-> name, members |-> <<>>]
    BY TypeBegun
  <2> QED BY <1>1, <2>1
<1>3. Entered(written', types', Len(written'), statements')
  BY <1>1, <1>2, EmptyIsSeq DEF Entered
<1>4. \A i \in 1 .. Len(types') :
         /\ types'[i] = Definition(written'[i].name, types'[i].fields)
         /\ Entered(written', types', i, types'[i].fields)
  BY <1>1, <1>2, TypesStay
<1>5. IsSeq(types') /\ IsSeq(statements')
  BY <1>1, EmptyIsSeq DEF StackInv
<1> QED BY <1>1, <1>2, <1>3, <1>4, <1>5 DEF StackInv, InType

\* A member becomes a field of the type that is visited.
LEMMA VisitMemberKeepsStack ==
  ASSUME FileInv, StackInv, NEW use, NEW m, NEW name,
         m \in [options : OptionLists, number : Numbers \cup {NoNumber}],
         VisitMember(use, m, name)
  PROVE  FileInv' /\ StackInv'
<1> DEFINE n == Len(written)
           member == [type |-> use, options |-> m.options, name |-> name,
                      number |-> m.number]
           field == [name |-> name, type |-> CompleteType(use, m.options),
                     expected |-> Literal(m.number)]
<1>1. /\ stage = "members" /\ stage' = "members" /\ types' = types
      /\ Write(use, m, name) /\ statements' = Append(statements, field)
      /\ n = Len(types) + 1 /\ Len(types) \in Nat
      /\ IsSeq(types) /\ IsSeq(statements)
      /\ Entered(written, types, n, statements)
  BY LengthOfSeq DEF VisitMember, StackInv, InType
<1>2. written # <<>>
  BY <1>1, LengthOfSeq DEF FileInv
<1>3. /\ FileInv' /\ Len(written') = n
      /\ \A i \in 1 .. n - 1 : written'[i] = written[i]
      /\ written'[n].name = written[n].name
      /\ Len(written[n].members) \in Nat
      /\ Len(written'[n].members) = Len(written[n].members) + 1
      /\ \A j \in 1 .. Len(written[n].members) :
            written'[n].members[j] = written[n].members[j]
      /\ written'[n].members[Len(written[n].members) + 1] = member
  BY <1>1, <1>2, MemberWritten
<1>4. /\ IsSeq(statements') /\ Len(statements') = Len(statements) + 1
      /\ \A j \in 1 .. Len(statements) : statements'[j] = statements[j]
      /\ statements'[Len(statements) + 1] = field
      /\ Len(statements) = Len(written[n].members)
  BY <1>1, AppendIsSeq DEF Entered
<1>5. n - 1 = Len(types) /\ \A k \in 1 .. n - 1 : written'[k].name = written[k].name
  BY <1>1, <1>3
<1>6. \A k \in 1 .. Len(types) : types[k].name = written[k].name
                              /\ types[k] = Definition(types[k].name, types[k].fields)
  <2>1. \A k \in 1 .. Len(types) : types[k] = Definition(written[k].name, types[k].fields)
    BY DEF StackInv
  <2>2. \A e, fields : Definition(e, fields).name = e
    BY DEF Definition
  <2> QED BY <2>1, <2>2
<1>7. FieldOf(written, types, n, member, field)
  <2>1. CASE \E k \in 1 .. Len(types) :
               /\ types[k].name = use /\ CompleteType(use, m.options) = types[k]
               /\ \A l \in 1 .. k - 1 : types[l].name # use
    <3>1. PICK k \in 1 .. Len(types) :
               /\ types[k].name = use /\ CompleteType(use, m.options) = types[k]
               /\ \A l \in 1 .. k - 1 : types[l].name # use
      BY <2>1
    <3>2. \A l \in 1 .. k - 1 : l \in 1 .. Len(types)
      BY <1>1
    <3>3. FirstNamed(written, k, use)
      BY <1>6, <3>1, <3>2 DEF FirstNamed
    <3> QED BY <1>5, <3>1, <3>3 DEF FieldOf
  <2>2. CASE /\ \A k \in 1 .. Len(types) : types[k].name # use
             /\ CompleteType(use, m.options) = IF use \in DOMAIN BuiltIns
                                               THEN Resolved(use, m.options) ELSE NoType
    BY <1>5, <1>6, <2>2 DEF FieldOf
  <2> QED BY <1>1, <1>6, <2>1, <2>2, CompleteTypeIs
<1> HIDE DEF member, field
<1>8. Entered(written', types, n, statements')
  <2>1. \A f, e :
           FieldOf(written, types, n, e, f) => FieldOf(written', types, n, e, f)
    <3>1. \A k \in 1 .. n - 1 : \A l \in 1 .. k - 1 : l \in 1 .. n - 1
      BY <1>1
    <3>2. \A k \in 1 .. n - 1 : \A e :
             FirstNamed(written, k, e) => FirstNamed(written', k, e)
      BY <1>5, <3>1 DEF FirstNamed
    <3> QED BY <1>5, <3>2 DEF FieldOf
  <2>2. \A j \in 1 .. Len(statements') :
           j \in 1 .. Len(statements) \/ j = Len(statements) + 1
    BY <1>3, <1>4
  <2>3. \A j \in 1 .. Len(statements) :
           FieldOf(written', types, n, written'[n].members[j], statements'[j])
    BY <1>1, <1>3, <1>4, <2>1 DEF Entered
  <2>4. \A j \in 1 .. Len(statements') :
           FieldOf(written', types, n, written'[n].members[j], statements'[j])
    BY <1>3, <1>4, <1>7, <2>1, <2>2, <2>3
  <2> QED BY <1>3, <1>4, <2>4 DEF Entered
<1>9. \A i \in 1 .. Len(types) :
         /\ types[i] = Definition(written'[i].name, types[i].fields)
         /\ Entered(written', types, i, types[i].fields)
  BY <1>3, <1>5, TypesStay
<1> QED BY <1>1, <1>3, <1>4, <1>8, <1>9 DEF StackInv, InType

\* A number that cannot be read leaves the types as they are.
LEMMA ThrowNumberKeepsStack ==
  ASSUME FileInv, StackInv, NEW use, NEW m, NEW name,
         m \in [options : OptionLists, number : Numbers \cup {NoNumber}],
         ThrowNumber(use, m, name)
  PROVE  FileInv' /\ StackInv'
<1>1. /\ stage = "members" /\ stage' = "threw" /\ types' = types
      /\ Write(use, m, name) /\ statements' = statements
      /\ Len(written) = Len(types) + 1 /\ Len(types) \in Nat
      /\ IsSeq(types) /\ IsSeq(statements)
  BY LengthOfSeq DEF ThrowNumber, StackInv, InType
<1>2. written # <<>>
  BY <1>1, LengthOfSeq DEF FileInv
<1>3. /\ FileInv' /\ Len(written') = Len(written)
      /\ \A i \in 1 .. Len(written) - 1 : written'[i] = written[i]
  BY <1>1, <1>2, MemberWritten
<1>4. Len(written) - 1 = Len(types)
  BY <1>1
<1>5. \A i \in 1 .. Len(types) :
         /\ types[i] = Definition(written'[i].name, types[i].fields)
         /\ Entered(written', types, i, types[i].fields)
  BY <1>3, <1>4, TypesStay
<1> QED BY <1>1, <1>3, <1>5 DEF StackInv, InType

\* The members become the fields of a type.
LEMMA EndTypeKeepsStack ==
  ASSUME FileInv, StackInv, EndType
  PROVE  FileInv' /\ StackInv'
<1> DEFINE n == Len(written)
           type == Definition(Current.name, statements)
<1>1. /\ stage = "members" /\ stage' = "types" /\ types' = Append(types, type)
      /\ written' = written /\ statements' = <<>>
      /\ n = Len(types) + 1 /\ Len(types) \in Nat /\ IsSeq(types)
      /\ Entered(written, types, n, statements)
  BY LengthOfSeq DEF EndType, StackInv, InType
<1>2. type = Definition(written[n].name, type.fields) /\ type.fields = statements
  BY DEF Definition, Current
<1> HIDE DEF type
<1>3. /\ IsSeq(types') /\ Len(types') = n
      /\ \A i \in 1 .. Len(types) : types'[i] = types[i]
      /\ types'[n] = type
  BY <1>1, AppendIsSeq
<1>4. FileInv'
  BY <1>1 DEF FileInv
<1>5. ASSUME NEW i \in 1 .. n
      PROVE  /\ types'[i] = Definition(written[i].name, types'[i].fields)
             /\ Entered(written, types', i, types'[i].fields)
  <2>1. i \in Nat /\ \A k \in 1 .. i - 1 : k \in 1 .. Len(types)
    BY <1>1
  <2>2. \A k \in 1 .. i - 1 : types'[k] = types[k]
    BY <1>3, <2>1
  <2>3. CASE i = n
    <3>1. Entered(written, types, i, types'[i].fields)
      BY <1>1, <1>2, <1>3, <2>3
    <3>2. Entered(written, types', i, types'[i].fields)
      BY <2>1, <2>2, <3>1, EnteredStays
    <3> QED BY <1>2, <1>3, <2>3, <3>2
  <2>4. CASE i # n
    <3>1. i \in 1 .. Len(types)
      BY <1>1, <2>4
    <3>2. Entered(written, types, i, types'[i].fields)
      BY <1>3, <3>1 DEF StackInv
    <3>3. Entered(written, types', i, types'[i].fields)
      BY <2>1, <2>2, <3>2, EnteredStays
    <3> QED BY <1>3, <3>1, <3>3 DEF StackInv
  <2> QED BY <2>3, <2>4
<1> QED BY <1>1, <1>3, <1>4, <1>5, EmptyIsSeq DEF StackInv, InType

\* The invariants of the scopes are inductive.
LEMMA NextKeepsStack ==
  ASSUME FileInv, StackInv, [ParserNext]_parserVars
  PROVE  FileInv' /\ StackInv'
<1>1. CASE \E name \in TypeNames : BeginType(name)
  <2>1. PICK name : BeginType(name) /\ HasText(name)
    BY <1>1, DefinitionAssumption DEF HasText
  <2> QED BY <2>1, BeginTypeKeepsStack
<1>2. CASE \E m \in Fitting : \E use \in TypeUses, name \in MemberNames :
              VisitMember(use, m, name) \/ ThrowNumber(use, m, name)
  <2>1. Fitting \subseteq [options : OptionLists, number : Numbers \cup {NoNumber}]
    BY Zenon DEF Fitting
  <2> QED BY <1>2, <2>1, VisitMemberKeepsStack, ThrowNumberKeepsStack
<1>3. CASE EndType
  BY <1>3, EndTypeKeepsStack
<1>4. CASE EndFile \/ \E type \in {""} \cup TypeNames : ParseFile(type)
  <2>1. /\ UNCHANGED <<types, statements, written>>
        /\ \/ stage \in {"types", "returned"} /\ stage' \in {"types", "returned"}
           \/ stage' = stage
    BY <1>4 DEF EndFile, ParseFile
  <2>2. InType' = InType /\ (stage' = "members" => stage = "members")
    BY <2>1 DEF InType
  <2> QED BY <2>1, <2>2 DEF FileInv, StackInv
<1>5. CASE UNCHANGED parserVars
  BY <1>5 DEF parserVars, FileInv, StackInv, InType
<1> QED BY <1>1, <1>2, <1>3, <1>4, <1>5 DEF ParserNext

\* They hold of the empty file.
LEMMA InitStack ==
  ParserInit => FileInv /\ StackInv
<1> SUFFICES ASSUME ParserInit PROVE FileInv /\ StackInv
  OBVIOUS
<1>1. types = <<>> /\ statements = <<>> /\ written = <<>> /\ stage = "types"
  BY DEF ParserInit
<1>2. \A i \in 1 .. Len(<<>>) : FALSE
  BY EmptyIsSeq
<1> QED BY <1>1, <1>2, EmptyIsSeq DEF FileInv, StackInv, InType

\* They hold of all that the parser can reach.
LEMMA StackHolds == ParserSpec => [](FileInv /\ StackInv)
<1>1. ParserInit => FileInv /\ StackInv
  BY InitStack
<1>2. FileInv /\ StackInv /\ [ParserNext]_parserVars => (FileInv /\ StackInv)'
  BY NextKeepsStack
<1> QED BY <1>1, <1>2, PTL DEF ParserSpec

\* The fields have the names of the members.
LEMMA EnteredNames ==
  ASSUME NEW ws, NEW ts, NEW i, NEW fields, Entered(ws, ts, i, fields)
  PROVE  NamesOf(fields) = NamesOf(ws[i].members)
<1>1. \A j \in 1 .. Len(fields) : fields[j].name = ws[i].members[j].name
  BY DEF Entered, FieldOf
<1> QED BY <1>1 DEF Entered, NamesOf

\* The types have the names that are written.
LEMMA TypeNamesAre ==
  ASSUME StackInv
  PROVE  \A i \in 1 .. Len(types) : types[i].name = written[i].name
<1>1. \A i \in 1 .. Len(types) : types[i] = Definition(written[i].name, types[i].fields)
  BY DEF StackInv
<1>2. \A name, fields : Definition(name, fields).name = name
  BY DEF Definition
<1> QED BY <1>1, <1>2

\* The scopes that the invariants describe are those of the file.
LEMMA ScopesFollow ==
  ASSUME FileInv, StackInv
  PROVE  ScopesFollowFile
<1>1. /\ Len(types) \in Nat
      /\ \A i \in 1 .. Len(types) : types[i].name = written[i].name
  BY TypeNamesAre, LengthOfSeq DEF StackInv
<1>2. CASE stage = "members"
  <2>1. Len(written) = Len(types) + 1 /\ Entered(written, types, Len(written), statements)
    BY <1>2 DEF StackInv, InType
  <2>2. NamesOf(statements) = NamesOf(Current.members)
    BY <2>1, EnteredNames DEF Current
  <2> DEFINE front == SubSeq(written, 1, Len(written) - 1)
  <2>3. /\ Len(front) = Len(types)
        /\ \A i \in 1 .. Len(types) : front[i] = written[i]
    <3>1. written \in Seq({written[i] : i \in 1 .. Len(written)})
      BY DEF FileInv, IsSeq
    <3>2. \A i \in 1 .. Len(written) - 1 : i \in 1 .. Len(written)
      BY <1>1, <2>1
    <3>3. Len(front) = Len(written) - 1 /\ \A i \in 1 .. Len(written) - 1 : front[i] = written[i]
      BY <1>1, <2>1, <3>1, <3>2, SubSeqProperties
    <3> QED BY <1>1, <2>1, <3>3
  <2> HIDE DEF front
  <2>4. NamesOf(types) = NamesOf(front)
    BY <1>1, <2>3 DEF NamesOf
  <2> QED BY <1>2, <2>2, <2>4 DEF ScopesFollowFile, Front, front
<1>3. CASE stage \in {"types", "returned"}
  <2>1. Len(written) = Len(types) /\ statements = <<>>
    BY <1>3 DEF StackInv, InType
  <2>2. NamesOf(types) = NamesOf(written)
    BY <1>1, <2>1 DEF NamesOf
  <2> QED BY <1>3, <2>1, <2>2 DEF ScopesFollowFile
<1>4. CASE stage = "threw"
  BY <1>4 DEF ScopesFollowFile
<1> QED BY <1>2, <1>3, <1>4 DEF StackInv

\* What GetType and ParseFile see are the types of the file in its order, and
\* never the members of another type.
THEOREM ScopesCorrect == ParserSpec => []ScopesFollowFile
<1>1. FileInv /\ StackInv => ScopesFollowFile
  BY ScopesFollow
<1> QED BY <1>1, StackHolds, PTL

-----------------------------------------------------------------------------
(***************************************************************************)
(* The type that ParseFile starts with.                                    *)
(***************************************************************************)

\* An error makes has_error true, and no addition makes it false.
LEMMA AddKeepsErrors ==
  ASSUME NEW c, NEW infos
  PROVE  /\ c.has_error => Add(c, infos).has_error
         /\ (\E e \in infos : e.level = "Error") => Add(c, infos).has_error
         /\ Add(c, infos).errors = c.errors \cup infos
BY DEF Add

\* No type is asked for at first.
LEMMA InitRoot == ParserInit => RootInv
BY DEF ParserInit, RootInv

\* A look into the types sees no other variable.
LEMMA SameTypesSameRoot ==
  ASSUME types' = types, NEW type
  PROVE  RootType(type)' = RootType(type)
<1>1. Defined(type)' = Defined(type)
  BY DEF Defined
<1>2. GetType(type)' = GetType(type)
  BY <1>1 DEF GetType, SelectInSeq, Min
<1> QED BY <1>1, <1>2 DEF RootType

\* What was found stays what would be found.
LEMMA NextKeepsRoot ==
  ASSUME RootInv, [ParserNext]_parserVars
  PROVE  RootInv'
<1>1. ASSUME stage # "returned", parser' = parser, root' = root PROVE RootInv'
  BY <1>1 DEF RootInv
<1>2. CASE \/ \E name \in TypeNames : BeginType(name)
           \/ \E m \in Fitting : \E use \in TypeUses, name \in MemberNames :
                 VisitMember(use, m, name) \/ ThrowNumber(use, m, name)
           \/ EndType
  BY <1>1, <1>2 DEF BeginType, VisitMember, ThrowNumber, EndType
<1>3. CASE EndFile
  <2>1. stage = "types" /\ stage' = "returned" /\ root' = root /\ types' = types
        /\ (parser' => types # <<>>)
    BY <1>3 DEF EndFile
  <2>2. root = NoRoot
    BY <2>1 DEF RootInv
  <2> QED BY <2>1, <2>2 DEF RootInv
<1>4. CASE \E type \in {""} \cup TypeNames : ParseFile(type)
  <2>1. PICK type : ParseFile(type)
    BY <1>4
  <2>2. /\ parser' = parser /\ parser /\ types' = types /\ stage' = stage
        /\ root' = [asked |-> type, type |-> RootType(type)]
    BY <2>1 DEF ParseFile
  <2>3. RootType(type)' = RootType(type)
    BY <2>2, SameTypesSameRoot
  <2>4. root'.type = NoType => errors'.has_error
    <3>1. Error(<<>>, "UnknownType", <<type>>).level = "Error"
      BY DEF Error, ErrorInfo
    <3>2. root'.type = NoType =>
             errors' = Add(errors, {Error(<<>>, "UnknownType", <<type>>)})
      BY <2>1 DEF ParseFile
    <3> QED BY <3>1, <3>2, AddKeepsErrors
  <2>5. root'.asked = type /\ root'.type = RootType(type)'
    BY <2>2, <2>3
  <2>6. (root.type = RootType(root.asked))'
    BY <2>5
  <2>7. stage' = "returned" /\ types' # <<>>
    BY <2>2 DEF RootInv
  <2> QED BY <2>2, <2>4, <2>6, <2>7 DEF RootInv
<1>5. CASE UNCHANGED parserVars
  <2>1. /\ parser' = parser /\ stage' = stage /\ types' = types /\ root' = root
        /\ errors' = errors
    BY <1>5 DEF parserVars
  <2>2. (root.type = RootType(root.asked))' = (root.type = RootType(root.asked))
    <3> DEFINE asked == root.asked
    <3>1. RootType(root.asked)' = RootType(root.asked)
      BY <2>1 DEF RootType, Defined, GetType, SelectInSeq, Min
    <3> QED BY <2>1, <3>1
  <2> QED BY <2>1, <2>2 DEF RootInv
<1> QED BY <1>2, <1>3, <1>4, <1>5 DEF ParserNext

\* The type asked for is always that of RootType.
LEMMA RootHolds == ParserSpec => []RootInv
<1>1. RootInv /\ [ParserNext]_parserVars => RootInv'
  BY NextKeepsRoot
<1> QED BY <1>1, InitRoot, PTL DEF ParserSpec

\* RootType finds the type of the file that has the name.
LEMMA RootFollows ==
  ASSUME FileInv, StackInv, RootInv
  PROVE  RootAsNamed
<1> SUFFICES ASSUME root # NoRoot PROVE RootAsNamed
  BY DEF RootAsNamed
<1> DEFINE asked == root.asked
           declared == {i \in 1 .. Len(written) : written[i].name = asked}
<1>1. /\ stage = "returned" /\ types # <<>> /\ root.type = RootType(asked)
      /\ root.type = NoType => errors.has_error
  BY DEF RootInv
<1>2. Len(written) = Len(types) /\ Len(types) \in Nat \ {0} /\ IsSeq(types)
  BY <1>1, LengthOfSeq DEF StackInv, InType
<1>3. \A i \in 1 .. Len(written) :
         /\ types[i].name = written[i].name
         /\ NamesOf(types[i].fields) = NamesOf(written[i].members)
  <2>1. \A i \in 1 .. Len(types) : Entered(written, types, i, types[i].fields)
    BY DEF StackInv
  <2> QED BY <1>2, <2>1, TypeNamesAre, EnteredNames
<1>4. CASE asked = ""
  <2>1. RootType("") = types[Len(types)]
    BY DEF RootType
  <2>2. root.type = types[Len(written)]
    BY <1>1, <1>2, <1>4, <2>1
  <2>3. Len(written) \in 1 .. Len(written)
    BY <1>2
  <2>4. /\ root.type.name = Last(written).name
        /\ NamesOf(root.type.fields) = NamesOf(Last(written).members)
    BY <1>3, <2>2, <2>3 DEF Last
  <2> QED BY <1>4, <2>4 DEF RootAsNamed
<1>5. CASE asked # "" /\ declared # {}
  <2>1. Defined(asked)
    BY <1>2, <1>3, <1>5 DEF Defined
  <2>2. root.type = GetType(asked)
    BY <1>1, <1>5, <2>1 DEF RootType
  <2>3. PICK k \in 1 .. Len(types) : types[k].name = asked /\ root.type = types[k]
    BY <1>2, <2>1, <2>2, GetTypeIs
  <2>4. k \in declared /\ root.type.name = asked
        /\ NamesOf(root.type.fields) = NamesOf(written[k].members)
    BY <1>2, <1>3, <2>3
  <2> QED BY <1>5, <2>4 DEF RootAsNamed
<1>6. CASE asked # "" /\ declared = {}
  <2>1. ~Defined(asked)
    BY <1>2, <1>3, <1>6 DEF Defined
  <2>2. root.type = NoType
    BY <1>1, <1>6, <2>1 DEF RootType
  <2>3. asked \notin Range(GetTypeNames)
    BY <2>1 DEF Defined, GetTypeNames, Range
  <2> QED BY <1>1, <1>6, <2>2, <2>3 DEF RootAsNamed
<1> QED BY <1>4, <1>5, <1>6

\* ParseFile starts with the type of the name, or the last one, and no type
\* is found only with an error in the collection.
THEOREM RootCorrect == ParserSpec => []RootAsNamed
<1>1. FileInv /\ StackInv /\ RootInv => RootAsNamed
  BY RootFollows
<1> QED BY <1>1, StackHolds, RootHolds, PTL

-----------------------------------------------------------------------------
(***************************************************************************)
(* The options of a type use.                                              *)
(***************************************************************************)

\* u has what the visitor has of the options of list after each of them.
Adds(list, u) ==
    u = [n \in 0 .. Len(list) |->
            IF n = 0 THEN <<>> ELSE AddStatic(u[n - 1], Visited(list, n))]

\* OptionsOf is what AddStatic makes of one option after the other.
LEMMA OptionsAreAdded ==
  ASSUME NEW list, IsSeq(list)
  PROVE  \E u : Adds(list, u) /\ OptionsOf(list) = u[Len(list)]
<1> DEFINE L == Len(list)
           S == Seq({Visited(list, k) : k \in 1 .. L})
           step == [p \in S \X (1 .. L) |-> AddStatic(p[1], Visited(list, p[2]))]
<1>1. L \in Nat
  BY LengthOfSeq
<1>2. <<>> \in S
  OBVIOUS
<1>3. step \in [S \X (1 .. L) -> S]
  <2>1. ASSUME NEW s \in S, NEW n \in 1 .. L PROVE AddStatic(s, Visited(list, n)) \in S
    BY AppendProperties DEF AddStatic
  <2> HIDE DEF S
  <2> QED BY <2>1
<1>4. \A s \in S, n \in 1 .. L : step[<<s, n>>] = AddStatic(s, Visited(list, n))
  <2> HIDE DEF S
  <2> QED OBVIOUS
<1> HIDE DEF step
<1>5. PICK f \in [0 .. L -> S] : Recursion(f, <<>>, step, L)
  <2> HIDE DEF S, L
  <2> QED BY <1>1, <1>2, <1>3, RecursionExists, Zenon
<1>6. ASSUME NEW n \in 0 .. L
      PROVE  f[n] = IF n = 0 THEN <<>> ELSE AddStatic(f[n - 1], Visited(list, n))
  <2> HIDE DEF S
  <2>1. CASE n = 0
    BY <1>5, <2>1 DEF Recursion
  <2>2. CASE n # 0
    <3>1. n \in 1 .. L /\ n - 1 \in 0 .. L
      BY <1>1, <2>2
    <3>2. f[n] = step[<<f[n - 1], n>>]
      BY <1>5, <3>1 DEF Recursion
    <3>3. f[n - 1] \in S
      BY <1>5, <3>1
    <3> QED BY <1>4, <2>2, <3>1, <3>2, <3>3
  <2> QED BY <2>1, <2>2
<1>7. Adds(list, f)
  BY <1>5, <1>6 DEF Adds
<1> DEFINE U == CHOOSE u : Adds(list, u)
<1>8. Adds(list, U)
  BY <1>7, Zenon
<1>9. OptionsOf(list) = U[L]
  BY Zenon DEF OptionsOf, Adds
<1> QED BY <1>8, <1>9

\* An option before k sets what option k sets.
SetBefore(list, k) ==
    /\ Visited(list, k).type # "Unknown"
    /\ \E l \in 1 .. k - 1 : Visited(list, l).type = Visited(list, k).type

\* set has the options of list up to n, but those that set what is set already.
FirstOnes(list, n, set) ==
    /\ IsSeq(set)
    /\ \A i \in 1 .. Len(set) : \E k \in 1 .. n :
          set[i] = Visited(list, k) /\ ~SetBefore(list, k)
    /\ \A k \in 1 .. n : ~SetBefore(list, k) =>
          \E i \in 1 .. Len(set) : set[i] = Visited(list, k)

\* Of the options of one type, the first is in the set.
LEMMA FirstIsThere ==
  ASSUME NEW list, NEW n \in Nat, NEW set, FirstOnes(list, n, set),
         NEW k \in 1 .. n, Visited(list, k).type # "Unknown"
  PROVE  \E i \in 1 .. Len(set) : set[i].type = Visited(list, k).type
<1> DEFINE I == {l \in 1 .. k : Visited(list, l).type = Visited(list, k).type}
<1>1. I \subseteq Nat /\ k \in I
  OBVIOUS
<1>2. PICK l \in I : \A m \in I : l <= m
  <2> HIDE DEF I
  <2> QED BY <1>1, LeastNumber
<1>3. l \in 1 .. n /\ l \in 1 .. k /\ Visited(list, l).type = Visited(list, k).type
  BY <1>2
<1>4. ASSUME NEW m \in 1 .. l - 1 PROVE Visited(list, m).type # Visited(list, l).type
  <2>1. m \in 1 .. k /\ ~(l <= m)
    BY <1>3
  <2> QED BY <1>2, <1>3, <2>1
<1>5. ~SetBefore(list, l)
  BY <1>4 DEF SetBefore
<1> QED BY <1>3, <1>5 DEF FirstOnes

\* AddStatic keeps the first option of each type.
LEMMA AddStaticKeepsFirst ==
  ASSUME NEW list, NEW n \in Nat, NEW set, FirstOnes(list, n, set)
  PROVE  FirstOnes(list, n + 1, AddStatic(set, Visited(list, n + 1)))
<1> DEFINE opt == Visited(list, n + 1)
<1>1. /\ IsSeq(set) /\ Len(set) \in Nat
      /\ \A k \in 1 .. n + 1 : k \in 1 .. n \/ k = n + 1
      /\ \A k \in 1 .. n : k \in 1 .. n + 1
      /\ n + 1 \in 1 .. n + 1 /\ (n + 1) - 1 = n
  BY LengthOfSeq DEF FirstOnes
<1>2. CASE SetBefore(list, n + 1)
  <2>1. opt.type # "Unknown" /\ \E k \in 1 .. n : Visited(list, k).type = opt.type
    BY <1>1, <1>2 DEF SetBefore
  <2>2. \E i \in 1 .. Len(set) : set[i].type = opt.type
    BY <2>1, FirstIsThere
  <2>3. AddStatic(set, opt) = set
    BY <2>1, <2>2 DEF AddStatic, IsDuplicate
  <2> HIDE DEF opt
  <2> QED BY <1>1, <1>2, <2>3 DEF FirstOnes, opt
<1>3. CASE ~SetBefore(list, n + 1)
  <2>1. ~IsDuplicate(set, opt)
    <3> SUFFICES ASSUME opt.type # "Unknown",
                        NEW i \in 1 .. Len(set), set[i].type = opt.type
                 PROVE  FALSE
      BY DEF IsDuplicate
    <3>1. PICK k \in 1 .. n : set[i] = Visited(list, k)
      BY DEF FirstOnes
    <3> QED BY <1>1, <1>3, <3>1 DEF SetBefore
  <2>2. AddStatic(set, opt) = Append(set, opt)
    BY <2>1 DEF AddStatic
  <2> DEFINE more == Append(set, opt)
  <2>3. /\ IsSeq(more) /\ Len(more) = Len(set) + 1
        /\ \A i \in 1 .. Len(set) : more[i] = set[i]
        /\ more[Len(set) + 1] = opt
    BY <1>1, AppendIsSeq
  <2> HIDE DEF more
  <2>4. \A i \in 1 .. Len(more) : i \in 1 .. Len(set) \/ i = Len(set) + 1
    BY <1>1, <2>3
  <2>5. (\A i \in 1 .. Len(set) : i \in 1 .. Len(more)) /\ Len(set) + 1 \in 1 .. Len(more)
    BY <1>1, <2>3
  <2>6. \A i \in 1 .. Len(more) : \E k \in 1 .. n + 1 :
           more[i] = Visited(list, k) /\ ~SetBefore(list, k)
    <3>1. \A i \in 1 .. Len(set) : \E k \in 1 .. n :
             set[i] = Visited(list, k) /\ ~SetBefore(list, k)
      BY DEF FirstOnes
    <3> QED BY <1>1, <1>3, <2>3, <2>4, <3>1
  <2>7. \A k \in 1 .. n + 1 : ~SetBefore(list, k) =>
           \E i \in 1 .. Len(more) : more[i] = Visited(list, k)
    <3>1. \A k \in 1 .. n : ~SetBefore(list, k) =>
             \E i \in 1 .. Len(set) : set[i] = Visited(list, k)
      BY DEF FirstOnes
    <3> QED BY <1>1, <2>3, <2>5, <3>1
  <2>8. FirstOnes(list, n + 1, more)
    BY <2>3, <2>6, <2>7 DEF FirstOnes
  <2> QED BY <2>2, <2>8 DEF more
<1> QED BY <1>2, <1>3

\* The visitor has of a list the first option of each type.
LEMMA OptionsAreFirst ==
  ASSUME NEW list, IsSeq(list)
  PROVE  FirstOnes(list, Len(list), OptionsOf(list))
<1>1. PICK u : Adds(list, u) /\ OptionsOf(list) = u[Len(list)]
  BY OptionsAreAdded
<1> DEFINE L == Len(list)
           T == {n \in 0 .. L : FirstOnes(list, n, u[n])}
<1>2. L \in Nat
  BY LengthOfSeq
<1>3. 0 \in T
  <2>1. u[0] = <<>>
    BY <1>1, <1>2 DEF Adds
  <2>2. FirstOnes(list, 0, <<>>)
    BY EmptyIsSeq DEF FirstOnes
  <2> QED BY <1>2, <2>1, <2>2
<1>4. ASSUME NEW n \in 0 .. L - 1, n \in T PROVE n + 1 \in T
  <2>1. n \in Nat /\ n + 1 \in 0 .. L /\ n + 1 # 0 /\ (n + 1) - 1 = n
    BY <1>2
  <2>2. u[n + 1] = AddStatic(u[n], Visited(list, n + 1))
    BY <1>1, <2>1 DEF Adds
  <2>3. FirstOnes(list, n, u[n])
    BY <1>4
  <2>4. FirstOnes(list, n + 1, u[n + 1])
    BY <2>1, <2>2, <2>3, AddStaticKeepsFirst
  <2> QED BY <2>1, <2>4
<1>5. L \in T
  <2> HIDE DEF T
  <2>1. \A n \in 0 .. L : n \in T
    BY <1>2, <1>3, <1>4, IntervalInduction
  <2> QED BY <1>2, <2>1
<1> QED BY <1>1, <1>5

\* The options that are left out are those that set what is set already.
LEMMA DuplicatesAre ==
  ASSUME NEW list, IsSeq(list)
  PROVE  Duplicates(list) =
           {Flaw(k, "DuplicateOption", <<to_string(GetOptionType(list[k].name))>>) :
               k \in {l \in 1 .. Len(list) : SetBefore(list, l)}}
<1> DEFINE set == OptionsOf(list)
           ats == {set[i].at : i \in 1 .. Len(set)}
<1>1. FirstOnes(list, Len(list), set)
  BY OptionsAreFirst
<1>2. \A k : Visited(list, k).at = k
  BY DEF Visited
<1> HIDE DEF set
<1>3. \A k \in 1 .. Len(list) : k \in ats <=> ~SetBefore(list, k)
  <2>1. ASSUME NEW k \in 1 .. Len(list), ~SetBefore(list, k) PROVE k \in ats
    <3>1. PICK i \in 1 .. Len(set) : set[i] = Visited(list, k)
      BY <1>1, <2>1 DEF FirstOnes
    <3>2. set[i].at = k
      BY <1>2, <3>1
    <3> QED BY <3>2
  <2>2. ASSUME NEW k \in ats PROVE ~SetBefore(list, k)
    <3>1. PICK i \in 1 .. Len(set) : k = set[i].at
      OBVIOUS
    <3>2. PICK l \in 1 .. Len(list) : set[i] = Visited(list, l) /\ ~SetBefore(list, l)
      BY <1>1 DEF FirstOnes
    <3>3. k = l
      BY <1>2, <3>1, <3>2
    <3> QED BY <3>2, <3>3
  <2> QED BY <2>1, <2>2
<1>4. (1 .. Len(list)) \ ats = {l \in 1 .. Len(list) : SetBefore(list, l)}
  BY <1>3
<1> QED BY <1>4, Zenon DEF Duplicates, set

\* A name is that of one option type, or of none.
LEMMA NamedTypes ==
  ASSUME NEW name
  PROVE  /\ GetOptionType(name) \in OptionTypes \cup {"Unknown"}
         /\ GetOptionType(name) # "Unknown" => name # ""
         /\ "Unknown" \notin OptionTypes
BY DEF GetOptionType, OptionTypes

\* No value is one of two option types.
LEMMA ValuesOfOneType ==
  ASSUME NEW t \in OptionTypes, NEW u \in OptionTypes, NEW value,
         value \in DOMAIN OptionData[t], value \in DOMAIN OptionData[u]
  PROVE  t = u
<1>1. DOMAIN OptionData["Signedness"] = {"signed", "unsigned"}
  BY DEF OptionData
<1>2. DOMAIN OptionData["ByteOrder"] = {"big", "network", "little"}
  BY DEF OptionData
<1> QED BY <1>1, <1>2 DEF OptionTypes

\* What a type takes: all of the options, or those that it names, which are all.
Takes(valid) == valid = {} \/ valid = OptionTypes

\* The option types that an option can be for.
LEMMA FoundAre ==
  ASSUME NEW list, NEW k, NEW valid, Takes(valid)
  PROVE  LET opt == Visited(list, k)
         IN  Found(opt, valid) =
               {t \in OptionTypes : /\ opt.type = "Unknown" \/ t = opt.type
                                    /\ opt.value \in DOMAIN OptionData[t]}
BY DEF Found, ParseOption, Takes

\* AddOption adds no error exactly if it finds what the option is for.
LEMMA FlawsOfOption ==
  ASSUME NEW list, NEW k, NEW valid, Takes(valid)
  PROVE  LET opt == Visited(list, k)
         IN  OptionFlaws(opt, valid) =
               IF Found(opt, valid) # {} THEN {}
               ELSE IF opt.type = "Unknown"
                    THEN {Flaw(k, "UnknownOptionValue", <<opt.value>>)}
                    ELSE {Flaw(k, "UnknownOptionValueTyped",
                               <<opt.value, to_string(opt.type)>>)}
<1> DEFINE opt == Visited(list, k)
           found == Found(opt, valid)
<1>1. found \subseteq OptionTypes /\ \A t, u \in found : t = u
  <2>1. found = {t \in OptionTypes : /\ opt.type = "Unknown" \/ t = opt.type
                                     /\ opt.value \in DOMAIN OptionData[t]}
    BY FoundAre
  <2> HIDE DEF found, opt
  <2>2. ASSUME NEW t \in found, NEW u \in found PROVE t = u
    <3>1. /\ t \in OptionTypes /\ opt.value \in DOMAIN OptionData[t]
          /\ u \in OptionTypes /\ opt.value \in DOMAIN OptionData[u]
      BY <2>1
    <3> QED BY <3>1, ValuesOfOneType
  <2> QED BY <2>1, <2>2
<1>2. opt.at = k
  BY DEF Visited
<1> HIDE DEF opt, found
<1>3. CASE found = {}
  <2>1. OptionFlaws(opt, valid) =
           IF opt.type = "Unknown"
           THEN {Flaw(opt.at, "UnknownOptionValue", <<opt.value>>)}
           ELSE {Flaw(opt.at, "UnknownOptionValueTyped",
                      <<opt.value, to_string(opt.type)>>)}
    <3>1. Found(opt, valid) = {} /\ Cardinality({}) = 0
      BY <1>3, FS_EmptySet DEF found
    <3>2. ~(0 > 1) /\ {} \subseteq valid
      OBVIOUS
    <3> QED BY <3>1, <3>2 DEF OptionFlaws
  <2> QED BY <1>2, <1>3, <2>1 DEF opt, found
<1>4. CASE found # {}
  <2>1. PICK t \in found : found = {t}
    BY <1>1, <1>4
  <2>2. Cardinality(found) = 1
    BY <2>1, FS_Singleton
  <2>3. valid = {} \/ found \subseteq valid
    BY <1>1 DEF Takes
  <2>4. OptionFlaws(opt, valid) = {}
    BY <1>4, <2>2, <2>3 DEF OptionFlaws, found
  <2> QED BY <1>4, <2>4 DEF opt, found
<1> QED BY <1>3, <1>4

\* What an option means is what AddOption finds, unless it has an unknown name.
LEMMA MeaningIsFound ==
  ASSUME NEW list, NEW k, NEW valid, Takes(valid)
  PROVE  LET opt == Visited(list, k)
         IN  /\ list[k].name = "" \/ opt.type # "Unknown" =>
                   Found(opt, valid) = {t \in OptionTypes : Means(list[k], t)}
             /\ ~(list[k].name = "" \/ opt.type # "Unknown") =>
                   \A t \in OptionTypes : ~Means(list[k], t)
<1>1. /\ Visited(list, k).type = GetOptionType(list[k].name)
      /\ Visited(list, k).value = list[k].value
  BY DEF Visited
<1>2. list[k].name = "" => GetOptionType(list[k].name) = "Unknown"
  BY NamedTypes
<1>3. "Unknown" \notin OptionTypes
  BY NamedTypes
<1> DEFINE opt == Visited(list, k)
<1>4. Found(opt, valid) =
        {t \in OptionTypes : /\ opt.type = "Unknown" \/ t = opt.type
                             /\ opt.value \in DOMAIN OptionData[t]}
  BY FoundAre
<1> HIDE DEF opt
<1>5. ASSUME list[k].name = "" \/ opt.type # "Unknown", NEW t \in OptionTypes
      PROVE  Means(list[k], t) <=> /\ opt.type = "Unknown" \/ t = opt.type
                                   /\ opt.value \in DOMAIN OptionData[t]
  BY <1>1, <1>2, <1>5, NamedTypes DEF Means, opt
<1>6. list[k].name = "" \/ opt.type # "Unknown" =>
         Found(opt, valid) = {t \in OptionTypes : Means(list[k], t)}
  BY <1>4, <1>5
<1>7. ~(list[k].name = "" \/ opt.type # "Unknown") =>
         \A t \in OptionTypes : ~Means(list[k], t)
  BY <1>1, <1>3 DEF Means, opt
<1> QED BY <1>6, <1>7 DEF opt

\* The list has no errors exactly if it means something.
LEMMA GoodOptionsAre ==
  ASSUME NEW list, IsSeq(list), NEW valid, Takes(valid)
  PROVE  ListFlaws(list) \cup BuildFlaws(OptionsOf(list), valid) = {}
            <=> GoodOptions(list)
<1> DEFINE set == OptionsOf(list)
           L == Len(list)
           Named(k) == list[k].name = "" \/ Visited(list, k).type # "Unknown"
<1>1. /\ \A k, l \in 1 .. L : k # l => k \in 1 .. l - 1 \/ l \in 1 .. k - 1
      /\ \A k \in 1 .. L : \A l \in 1 .. k - 1 : l \in 1 .. L /\ k # l
  <2>1. L \in Nat
    BY LengthOfSeq
  <2> QED BY <2>1
<1>2. \A k : Visited(list, k).type = GetOptionType(list[k].name)
  BY DEF Visited
<1>3. FirstOnes(list, L, set)
  BY OptionsAreFirst
<1>4. ListFlaws(list) = {} <=>
         /\ \A k \in 1 .. L : ~SetBefore(list, k)
         /\ \A k \in 1 .. L : Named(k)
  <2>1. Duplicates(list) = {} <=> \A k \in 1 .. L : ~SetBefore(list, k)
    <3>1. Duplicates(list) =
            {Flaw(k, "DuplicateOption", <<to_string(GetOptionType(list[k].name))>>) :
               k \in {l \in 1 .. L : SetBefore(list, l)}}
      BY DuplicatesAre
    <3> QED BY <3>1
  <2>2. {Flaw(k, "UnknownOptionType", <<list[k].name>>) :
           k \in {i \in 1 .. L :
                     list[i].name # "" /\ GetOptionType(list[i].name) = "Unknown"}} = {}
        <=> \A k \in 1 .. L : Named(k)
    BY <1>2
  <2> QED BY <2>1, <2>2 DEF ListFlaws
<1>5. (\A k \in 1 .. L : ~SetBefore(list, k)) =>
         (BuildFlaws(set, valid) = {} <=> \A k \in 1 .. L : Found(Visited(list, k), valid) # {})
  <2>1. \A k : OptionFlaws(Visited(list, k), valid) = {} <=> Found(Visited(list, k), valid) # {}
    <3> SUFFICES ASSUME NEW k
                 PROVE  OptionFlaws(Visited(list, k), valid) = {}
                           <=> Found(Visited(list, k), valid) # {}
      OBVIOUS
    <3> DEFINE opt == Visited(list, k)
    <3>1. OptionFlaws(opt, valid) =
               IF Found(opt, valid) # {} THEN {}
               ELSE IF opt.type = "Unknown"
                    THEN {Flaw(k, "UnknownOptionValue", <<opt.value>>)}
                    ELSE {Flaw(k, "UnknownOptionValueTyped",
                               <<opt.value, to_string(opt.type)>>)}
      BY FlawsOfOption
    <3> HIDE DEF opt
    <3> QED BY <3>1 DEF opt
  <2>2. BuildFlaws(set, valid) = {} <=> \A i \in 1 .. Len(set) : OptionFlaws(set[i], valid) = {}
    BY DEF BuildFlaws
  <2> HIDE DEF set, L
  <2> QED BY <1>3, <2>1, <2>2 DEF FirstOnes
<1>6. \A k : /\ Named(k) => Found(Visited(list, k), valid) = {t \in OptionTypes : Means(list[k], t)}
             /\ ~Named(k) => \A t \in OptionTypes : ~Means(list[k], t)
  BY MeaningIsFound
<1>7. /\ (\A k \in 1 .. L : Named(k)) =>
            ((\A k \in 1 .. L : Found(Visited(list, k), valid) # {})
                <=> \A k \in 1 .. L : \E t \in OptionTypes : Means(list[k], t))
      /\ (\A k \in 1 .. L : \E t \in OptionTypes : Means(list[k], t)) =>
            \A k \in 1 .. L : Named(k)
  <2> HIDE DEF Named, L
  <2> QED BY <1>6
<1>8. (\A k \in 1 .. L : Named(k)) =>
         ((\A k \in 1 .. L : ~SetBefore(list, k)) <=>
             \A k, l \in 1 .. L :
                k # l /\ list[k].name # "" /\ list[l].name # ""
                    => GetOptionType(list[k].name) # GetOptionType(list[l].name))
  <2> SUFFICES ASSUME \A k \in 1 .. L : Named(k)
               PROVE  (\A k \in 1 .. L : ~SetBefore(list, k)) <=>
                         \A k, l \in 1 .. L :
                            k # l /\ list[k].name # "" /\ list[l].name # ""
                                => GetOptionType(list[k].name) # GetOptionType(list[l].name)
    OBVIOUS
  <2>1. ASSUME \A k \in 1 .. L : ~SetBefore(list, k),
               NEW k \in 1 .. L, NEW l \in 1 .. L, k # l,
               list[k].name # "", list[l].name # ""
        PROVE  GetOptionType(list[k].name) # GetOptionType(list[l].name)
    <3>1. Visited(list, k).type # "Unknown" /\ Visited(list, l).type # "Unknown"
      BY <2>1
    <3>2. k \in 1 .. l - 1 \/ l \in 1 .. k - 1
      BY <1>1, <2>1
    <3> QED BY <1>2, <2>1, <3>1, <3>2 DEF SetBefore
  <2>2. ASSUME \A k, l \in 1 .. L :
                  k # l /\ list[k].name # "" /\ list[l].name # ""
                      => GetOptionType(list[k].name) # GetOptionType(list[l].name),
               NEW k \in 1 .. L, SetBefore(list, k)
        PROVE  FALSE
    <3>1. PICK l \in 1 .. k - 1 : Visited(list, l).type = Visited(list, k).type
      BY <2>2 DEF SetBefore
    <3>2. l \in 1 .. L /\ k # l
      BY <1>1, <3>1
    <3>3. GetOptionType(list[k].name) # "Unknown" /\ GetOptionType(list[l].name) # "Unknown"
      BY <1>2, <2>2, <3>1 DEF SetBefore
    <3>4. list[k].name # "" /\ list[l].name # ""
      BY <3>3, NamedTypes
    <3> QED BY <1>2, <2>2, <3>1, <3>2, <3>4
  <2> QED BY <2>1, <2>2
<1>9. GoodOptions(list) <=>
         /\ \A k \in 1 .. L : \E t \in OptionTypes : Means(list[k], t)
         /\ \A k, l \in 1 .. L :
                k # l /\ list[k].name # "" /\ list[l].name # ""
                    => GetOptionType(list[k].name) # GetOptionType(list[l].name)
  BY Zenon DEF GoodOptions
<1>10. ListFlaws(list) \cup BuildFlaws(set, valid) = {} <=>
          ListFlaws(list) = {} /\ BuildFlaws(set, valid) = {}
  OBVIOUS
<1> HIDE DEF set, L, Named
<1> QED BY <1>4, <1>5, <1>7, <1>8, <1>9, <1>10, Zenon DEF set

-----------------------------------------------------------------------------
(***************************************************************************)
(* What is wrong with a use of a type, and the words of its errors.        *)
(***************************************************************************)

\* The types that are entered are those of definitions.
TypesDefined ==
    \A i \in 1 .. Len(types) : types[i] = Definition(types[i].name, types[i].fields)

\* A use has an error exactly if its type is unknown or its options are bad.
LEMMA FlawsOfUse ==
  ASSUME IsSeq(types), TypesDefined, NEW use, NEW list, IsSeq(list)
  PROVE  TypeFlaws(use, list) = {} <=>
            (Defined(use) \/ use \in DOMAIN BuiltIns) /\ GoodOptions(list)
<1>1. CASE GetType(use) = NoType
  <2>1. ~Defined(use) /\ use \notin DOMAIN BuiltIns
    <3>1. ~Defined(use)
      <4> SUFFICES ASSUME Defined(use) PROVE FALSE
        OBVIOUS
      <4>1. PICK k \in 1 .. Len(types) : GetType(use) = types[k]
        BY GetTypeIs
      <4>2. types[k] = Definition(types[k].name, types[k].fields)
        BY DEF TypesDefined
      <4> QED BY <1>1, <4>1, <4>2, TypesAreNotNull
    <3>2. use \in DOMAIN BuiltIns => GetType(use) # NoType
      BY <3>1, GetTypeIs, TypesAreNotNull
    <3> QED BY <1>1, <3>1, <3>2
  <2> QED BY <1>1, <2>1 DEF TypeFlaws
<1>2. CASE GetType(use) # NoType
  <2>1. Defined(use) \/ use \in DOMAIN BuiltIns
    BY <1>2, GetTypeIs
  <2>2. Takes(GetOptionTypes(GetType(use)))
    BY DEF Takes, GetOptionTypes
  <2>3. TypeFlaws(use, list) =
           ListFlaws(list) \cup BuildFlaws(OptionsOf(list), GetOptionTypes(GetType(use)))
    BY <1>2 DEF TypeFlaws
  <2> QED BY <2>1, <2>2, <2>3, GoodOptionsAre
<1> QED BY <1>1, <1>2

\* The gaps of the message of a flaw.
GapsOf(flaw) == Range(FormatMessage(flaw.kind, flaw.args).gaps)

\* A message with one gap has the argument in it.
LEMMA OneGap ==
  ASSUME NEW at, NEW word,
         NEW kind \in {"ShadowingType", "ShadowingMember", "UnknownType",
                       "UnknownOptionValue", "DuplicateOption", "UnknownOptionType"}
  PROVE  /\ GapsOf(Flaw(at, kind, <<word>>)) = {word}
         /\ Range(FormatMessage(kind, <<word>>).gaps) = {word}
<1>1. FormatCount(kind) = 1
  BY DEF FormatCount
<1>2. FormatMessage(kind, <<word>>).gaps = [i \in 1 .. 1 |-> word]
  BY <1>1 DEF FormatMessage
<1>3. Range([i \in 1 .. 1 |-> word]) = {word}
  BY DEF Range
<1> QED BY <1>2, <1>3 DEF GapsOf, Flaw

\* A message with two gaps has both arguments in them.
LEMMA TwoGaps ==
  ASSUME NEW at, NEW word, NEW other
  PROVE  GapsOf(Flaw(at, "UnknownOptionValueTyped", <<word, other>>)) = {word, other}
<1>1. FormatCount("UnknownOptionValueTyped") = 2
  BY DEF FormatCount
<1>2. FormatMessage("UnknownOptionValueTyped", <<word, other>>).gaps =
         [i \in 1 .. 2 |-> IF i = 1 THEN word ELSE other]
  <2> DEFINE args == <<word, other>>
  <2>1. Len(args) = 2 /\ args[1] = word /\ args[2] = other
    OBVIOUS
  <2> HIDE DEF args
  <2>2. \A i \in 1 .. 2 : (IF i <= Len(args) THEN args[i] ELSE "")
                            = IF i = 1 THEN word ELSE other
    <3> SUFFICES ASSUME NEW i \in 1 .. 2
                 PROVE  (IF i <= Len(args) THEN args[i] ELSE "")
                            = IF i = 1 THEN word ELSE other
      OBVIOUS
    <3>1. i <= Len(args) /\ (i = 1 \/ i = 2)
      BY <2>1
    <3> QED BY <2>1, <3>1, Zenon
  <2>3. FormatMessage("UnknownOptionValueTyped", args).gaps =
           [i \in 1 .. 2 |-> IF i <= Len(args) THEN args[i] ELSE ""]
    BY <1>1 DEF FormatMessage
  <2>4. [i \in 1 .. 2 |-> IF i <= Len(args) THEN args[i] ELSE ""] =
           [i \in 1 .. 2 |-> IF i = 1 THEN word ELSE other]
    BY <2>2
  <2> QED BY <2>3, <2>4 DEF args
<1>3. Range([i \in 1 .. 2 |-> IF i = 1 THEN word ELSE other]) = {word, other}
  <2>1. 1 .. 2 = {1, 2}
    OBVIOUS
  <2> DEFINE gap(i) == IF i = 1 THEN word ELSE other
  <2>2. gap(1) = word /\ gap(2) = other
    OBVIOUS
  <2> HIDE DEF gap
  <2>3. Range([i \in {1, 2} |-> gap(i)]) = {gap(1), gap(2)}
    BY DEF Range
  <2> QED BY <2>1, <2>2, <2>3 DEF gap
<1> QED BY <1>2, <1>3 DEF GapsOf, Flaw

\* The flaw is of the use or of an option, and its gaps have words of that.
FlawSpeaks(flaw, use, list) ==
    /\ "" \notin GapsOf(flaw)
    /\ \/ flaw.at = 0 /\ GapsOf(flaw) \subseteq {use}
       \/ /\ flaw.at \in 1 .. Len(list)
          /\ GapsOf(flaw) \subseteq
                {list[flaw.at].name, list[flaw.at].value,
                 to_string(GetOptionType(list[flaw.at].name))}

\* The gaps of the error e are filled with some of the words.
Says(e, words) == Range(e.message.gaps) \subseteq words \ {""}

\* The values of a list's options are not empty.
HasValues(list) == \A k \in 1 .. Len(list) : HasText(list[k].value)

\* The names of option types are not empty.
LEMMA OptionTypeHasName == \A t : to_string(t) # ""
BY DEF to_string

\* A flaw that an option has speaks of it.
LEMMA OptionSpeaks ==
  ASSUME NEW use, NEW list, NEW k \in 1 .. Len(list), NEW flaw, flaw.at = k,
         GapsOf(flaw) \subseteq {list[k].name, list[k].value,
                                to_string(GetOptionType(list[k].name))},
         "" \notin GapsOf(flaw)
  PROVE  FlawSpeaks(flaw, use, list)
BY Zenon DEF FlawSpeaks

\* Every flaw that is found speaks of what is written.
LEMMA FlawsSpeak ==
  ASSUME NEW use, HasText(use), NEW list, IsSeq(list), HasValues(list)
  PROVE  \A flaw \in TypeFlaws(use, list) : FlawSpeaks(flaw, use, list)
<1> DEFINE word(k) == to_string(GetOptionType(list[k].name))
<1>1. \A at, kind, args : Flaw(at, kind, args).at = at
  BY DEF Flaw
<1>2. FlawSpeaks(Flaw(0, "UnknownType", <<use>>), use, list)
  <2>1. GapsOf(Flaw(0, "UnknownType", <<use>>)) = {use}
    BY OneGap
  <2> QED BY <1>1, <2>1 DEF FlawSpeaks, HasText
<1>3. \A k \in 1 .. Len(list) : FlawSpeaks(Flaw(k, "DuplicateOption", <<word(k)>>), use, list)
  <2> SUFFICES ASSUME NEW k \in 1 .. Len(list)
               PROVE  FlawSpeaks(Flaw(k, "DuplicateOption", <<word(k)>>), use, list)
    OBVIOUS
  <2>1. GapsOf(Flaw(k, "DuplicateOption", <<word(k)>>)) = {word(k)} /\ word(k) # ""
    BY OneGap, OptionTypeHasName
  <2> DEFINE flaw == Flaw(k, "DuplicateOption", <<word(k)>>)
  <2>2. flaw.at = k /\ "" \notin GapsOf(flaw) /\ GapsOf(flaw) \subseteq {word(k)}
    BY <1>1, <2>1, Zenon
  <2> HIDE DEF flaw
  <2>3. GapsOf(flaw) \subseteq {list[k].name, list[k].value, word(k)}
    BY <2>2, Zenon
  <2>4. FlawSpeaks(flaw, use, list)
    BY <2>2, <2>3, OptionSpeaks, Zenon
  <2> QED BY <2>4 DEF flaw
<1>4. \A k \in 1 .. Len(list) : list[k].name # "" =>
         FlawSpeaks(Flaw(k, "UnknownOptionType", <<list[k].name>>), use, list)
  <2> SUFFICES ASSUME NEW k \in 1 .. Len(list), list[k].name # ""
               PROVE  FlawSpeaks(Flaw(k, "UnknownOptionType", <<list[k].name>>), use, list)
    OBVIOUS
  <2>1. GapsOf(Flaw(k, "UnknownOptionType", <<list[k].name>>)) = {list[k].name}
    BY OneGap
  <2> DEFINE flaw == Flaw(k, "UnknownOptionType", <<list[k].name>>)
  <2>2. flaw.at = k /\ "" \notin GapsOf(flaw) /\ GapsOf(flaw) \subseteq {list[k].name}
    BY <1>1, <2>1, Zenon
  <2> HIDE DEF flaw
  <2>3. GapsOf(flaw) \subseteq {list[k].name, list[k].value, word(k)}
    BY <2>2, Zenon
  <2>4. FlawSpeaks(flaw, use, list)
    BY <2>2, <2>3, OptionSpeaks, Zenon
  <2> QED BY <2>4 DEF flaw
<1>5. \A flaw \in ListFlaws(list) : FlawSpeaks(flaw, use, list)
  <2>1. \A flaw \in Duplicates(list) : FlawSpeaks(flaw, use, list)
    <3>1. Duplicates(list) =
            {Flaw(k, "DuplicateOption", <<word(k)>>) :
               k \in {l \in 1 .. Len(list) : SetBefore(list, l)}}
      BY DuplicatesAre
    <3> QED BY <1>3, <3>1
  <2>2. \A flaw \in ListFlaws(list) \ Duplicates(list) :
           \E k \in 1 .. Len(list) :
              list[k].name # "" /\ flaw = Flaw(k, "UnknownOptionType", <<list[k].name>>)
    BY DEF ListFlaws
  <2> QED BY <1>4, <2>1, <2>2
<1>6. ASSUME NEW valid, Takes(valid), NEW flaw \in BuildFlaws(OptionsOf(list), valid)
      PROVE  FlawSpeaks(flaw, use, list)
  <2>1. PICK i \in 1 .. Len(OptionsOf(list)) : flaw \in OptionFlaws(OptionsOf(list)[i], valid)
    BY <1>6 DEF BuildFlaws
  <2>2. PICK k \in 1 .. Len(list) : OptionsOf(list)[i] = Visited(list, k)
    BY OptionsAreFirst DEF FirstOnes
  <2> DEFINE opt == Visited(list, k)
  <2>3. OptionFlaws(opt, valid) =
               IF Found(opt, valid) # {} THEN {}
               ELSE IF opt.type = "Unknown"
                    THEN {Flaw(k, "UnknownOptionValue", <<opt.value>>)}
                    ELSE {Flaw(k, "UnknownOptionValueTyped",
                               <<opt.value, to_string(opt.type)>>)}
    BY <1>6, FlawsOfOption
  <2>4. opt.value = list[k].value /\ to_string(opt.type) = word(k)
    BY DEF Visited
  <2> HIDE DEF opt
  <2>5. flaw = Flaw(k, "UnknownOptionValue", <<list[k].value>>)
        \/ flaw = Flaw(k, "UnknownOptionValueTyped", <<list[k].value, word(k)>>)
    <3>1. flaw \in OptionFlaws(opt, valid)
      BY <2>1, <2>2 DEF opt
    <3> QED BY <2>3, <2>4, <3>1
  <2>6. GapsOf(Flaw(k, "UnknownOptionValue", <<list[k].value>>)) = {list[k].value}
    BY OneGap
  <2>7. GapsOf(Flaw(k, "UnknownOptionValueTyped", <<list[k].value, word(k)>>))
           = {list[k].value, word(k)}
    BY TwoGaps
  <2>8. list[k].value # "" /\ word(k) # "" /\ flaw.at = k
    <3>1. list[k].value # ""
      BY Zenon DEF HasValues, HasText
    <3>2. flaw.at = k
      BY <1>1, <2>5, Zenon
    <3> QED BY <3>1, <3>2, OptionTypeHasName, Zenon
  <2>9. GapsOf(flaw) \subseteq {list[k].value, word(k)}
    BY <2>5, <2>6, <2>7
  <2>10. "" \notin GapsOf(flaw)
         /\ GapsOf(flaw) \subseteq {list[k].name, list[k].value, word(k)}
    BY <2>8, <2>9, Zenon
  <2> QED BY <2>8, <2>10, OptionSpeaks, Zenon
<1>7. Takes(GetOptionTypes(GetType(use)))
  BY DEF Takes, GetOptionTypes
<1> HIDE DEF word
<1> QED BY <1>2, <1>5, <1>6, <1>7 DEF TypeFlaws

-----------------------------------------------------------------------------
(***************************************************************************)
(* The errors and what they are about.                                     *)
(***************************************************************************)

\* e is an error of member j of type i, or of its name if j is 0.
At(e, i, j) ==
    e.level = "Error" /\ e.place # <<>> /\ SubSeq(e.place, 1, 2) = <<i, j>>

\* The place of an error tells type and member apart.
LEMMA PlaceIs ==
  ASSUME NEW i, NEW j, NEW k, NEW e, e.place = <<i, j, k>>, e.level = "Error"
  PROVE  \A a, b : At(e, a, b) <=> a = i /\ b = j
<1> DEFINE place == <<i, j, k>>
<1>1. place \in Seq({i, j, k}) /\ Len(place) = 3 /\ place[1] = i /\ place[2] = j
  OBVIOUS
<1>2. place # <<>>
  BY <1>1
<1> HIDE DEF place
<1>3. /\ SubSeq(place, 1, 2) \in Seq({i, j, k})
      /\ Len(SubSeq(place, 1, 2)) = 2
      /\ SubSeq(place, 1, 2)[1] = i /\ SubSeq(place, 1, 2)[2] = j
  <2>1. /\ 1 \in 1 .. Len(place) + 1 /\ 2 \in 1 - 1 .. Len(place) /\ 1 \in 1 .. 2 - 1 + 1
        /\ 2 \in 1 .. 2 - 1 + 1 /\ 2 - 1 + 1 = 2 /\ 1 + 1 - 1 = 1 /\ 1 + 2 - 1 = 2
        /\ \A l \in 1 .. 2 : l \in 1 .. Len(place)
    BY <1>1
  <2> QED BY <1>1, <2>1, SubSeqProperties
<1>4. SubSeq(place, 1, 2) = <<i, j>>
  <2> DEFINE pair == <<i, j>>
             head == SubSeq(place, 1, 2)
  <2>1. pair \in Seq({i, j, k}) /\ Len(pair) = 2 /\ pair[1] = i /\ pair[2] = j
    OBVIOUS
  <2> HIDE DEF pair, head
  <2>2. \A l \in 1 .. 2 : l = 1 \/ l = 2
    OBVIOUS
  <2>3. \A l \in 1 .. Len(head) : head[l] = pair[l]
    BY <1>3, <2>1, <2>2 DEF head
  <2>4. head \in Seq({i, j, k}) /\ Len(head) = 2
    BY <1>3 DEF head
  <2>5. head = pair
    BY <2>1, <2>3, <2>4, SeqEqual
  <2> QED BY <2>5 DEF head, pair
<1>5. \A a, b : <<i, j>> = <<a, b>> <=> a = i /\ b = j
  OBVIOUS
<1> QED BY <1>2, <1>4, <1>5 DEF At, place

\* The visitor has been there.
Seen(i, j) ==
    /\ i \in 1 .. Len(written)
    /\ IF j = 0 THEN i < Len(written) \/ stage # "members"
       ELSE j \in 1 .. Len(written[i].members)

\* e is about the file, before its tree, or about what is seen.
Placed(e) ==
    e.place = <<>> \/ e = SyntaxError \/ \E i, j : Seen(i, j) /\ At(e, i, j)

\* Nothing is wrong there.
GoodAt(i, j) == IF j = 0 THEN GoodTypeName(i) ELSE GoodMember(i, j)

\* The errors of what is seen are those of its faults.
Reported(i, j) == (ErrorsAt(i, j) = {} <=> GoodAt(i, j)) /\ Speaks(i, j)

\* What is seen has its errors, and no error is about anything else; the flag
\* says whether there are any.  An error before the tree is visited has no place.
FaultInv ==
    stage # "threw" =>
        /\ \A e \in errors.errors : e.level = "Error" => Placed(e)
        /\ errors.has_error <=> \E e \in errors.errors : e.level = "Error"
        /\ stage # "returned" /\ ~hadErrors =>
              \A e \in errors.errors : e.level = "Error" => e.place # <<>>
        /\ \A i, j : Seen(i, j) => Reported(i, j)

\* The errors that the property counts are those of At.
LEMMA ErrorsAtAre == \A i, j : ErrorsAt(i, j) = {e \in errors.errors : At(e, i, j)}
BY DEF ErrorsAt, At

\* At has one value.
LEMMA AtOnePlace ==
  ASSUME NEW e, NEW i, NEW j, NEW a, NEW b, At(e, i, j), At(e, a, b)
  PROVE  a = i /\ b = j
<1>1. <<i, j>> = <<a, b>>
  BY DEF At
<1> QED BY <1>1

\* What the visitor has not seen has no errors.
LEMMA UnseenHasNone ==
  ASSUME FaultInv, stage # "threw", NEW i, i \in Nat \ {0}, NEW j, ~Seen(i, j)
  PROVE  ErrorsAt(i, j) = {}
<1> SUFFICES ASSUME NEW e \in errors.errors, At(e, i, j) PROVE FALSE
  BY ErrorsAtAre
<1>1. Placed(e) /\ e.place # <<>>
  BY DEF FaultInv, At
<1>2. e # SyntaxError
  <2> SUFFICES ASSUME e = SyntaxError PROVE FALSE
    OBVIOUS
  <2>1. e.place = <<0, 0, 0>> /\ e.level = "Error"
    BY DEF SyntaxError, OwnMessage
  <2>2. i = 0
    BY <2>1, PlaceIs
  <2> QED BY <2>2
<1> QED BY <1>1, <1>2, AtOnePlace DEF Placed

\* The property is what the invariant says of what is seen.
LEMMA FaultsAreReported ==
  ASSUME FaultInv
  PROVE  FaultsReported
<1> SUFFICES ASSUME stage # "threw", NEW i \in 1 .. Len(written)
             PROVE  /\ i < Len(written) \/ stage # "members" =>
                          (ErrorsAt(i, 0) = {} <=> GoodTypeName(i))
                    /\ Speaks(i, 0)
                    /\ \A j \in 1 .. Len(written[i].members) :
                          /\ (ErrorsAt(i, j) = {} <=> GoodMember(i, j))
                          /\ Speaks(i, j)
  BY DEF FaultsReported
<1>1. \A a, b : Seen(a, b) => Reported(a, b)
  BY DEF FaultInv
<1>2. i < Len(written) \/ stage # "members" => Seen(i, 0)
  BY DEF Seen
<1>3. i < Len(written) \/ stage # "members" => (ErrorsAt(i, 0) = {} <=> GoodTypeName(i))
  BY <1>1, <1>2 DEF Reported, GoodAt
<1>4. Speaks(i, 0)
  <2>1. CASE Seen(i, 0)
    BY <1>1, <2>1 DEF Reported
  <2>2. CASE ~Seen(i, 0)
    <3>1. ErrorsAt(i, 0) = {}
      BY <2>2, UnseenHasNone
    <3> QED BY <3>1 DEF Speaks
  <2> QED BY <2>1, <2>2
<1>5. ASSUME NEW j \in 1 .. Len(written[i].members)
      PROVE  /\ ErrorsAt(i, j) = {} <=> GoodMember(i, j)
             /\ Speaks(i, j)
  <2>1. Seen(i, j) /\ j # 0
    BY DEF Seen
  <2> QED BY <1>1, <2>1 DEF Reported, GoodAt
<1> QED BY <1>3, <1>4, <1>5

\* What is seen stays good, or not, when nothing before it changes.
LEMMA GoodStays ==
  ASSUME NEW i \in Nat, NEW j \in Nat,
         \A k \in 1 .. i : written'[k].name = written[k].name,
         \A k \in 1 .. j : written'[i].members[k] = written[i].members[k],
         i # 0
  PROVE  /\ GoodAt(i, j)' <=> GoodAt(i, j)
         /\ \A k : WordsAt(i, j, k)' = WordsAt(i, j, k)
<1>1. /\ i \in 1 .. i /\ \A k \in 1 .. i - 1 : k \in 1 .. i
      /\ j # 0 => j \in 1 .. j
      /\ \A k \in 1 .. j - 1 : k \in 1 .. j
  OBVIOUS
<1>2. \A name : DeclaredBefore(i, name)' <=> DeclaredBefore(i, name)
  BY <1>1 DEF DeclaredBefore
<1>3. GoodTypeName(i)' <=> GoodTypeName(i)
  BY <1>1, <1>2 DEF GoodTypeName
<1>4. j # 0 => (GoodMember(i, j)' <=> GoodMember(i, j))
  <2> SUFFICES ASSUME j # 0 PROVE GoodMember(i, j)' <=> GoodMember(i, j)
    OBVIOUS
  <2>1. written'[i].members[j] = written[i].members[j]
    BY <1>1
  <2>2. \A k \in 1 .. j - 1 : written'[i].members[k] = written[i].members[k]
    BY <1>1
  <2> QED BY <1>2, <2>1, <2>2 DEF GoodMember
<1>5. \A k : WordsAt(i, j, k)' = WordsAt(i, j, k)
  BY <1>1 DEF WordsAt
<1> QED BY <1>3, <1>4, <1>5 DEF GoodAt

\* What a step makes of what is seen already, if it leaves it as it is.
LEMMA ReportedStays ==
  ASSUME NEW i, NEW j, Reported(i, j),
         {e \in errors'.errors : At(e, i, j)} = {e \in errors.errors : At(e, i, j)},
         GoodAt(i, j)' <=> GoodAt(i, j),
         \A k : WordsAt(i, j, k)' = WordsAt(i, j, k)
  PROVE  Reported(i, j)'
<1>1. ErrorsAt(i, j)' = {e \in errors'.errors : At(e, i, j)}
  BY DEF ErrorsAt, At
<1>2. ErrorsAt(i, j)' = ErrorsAt(i, j)
  BY <1>1, ErrorsAtAre
<1>3. Speaks(i, j)'
  BY <1>2 DEF Speaks, Reported
<1> QED BY <1>2, <1>3 DEF Reported

\* Errors about the file.
LEMMA FaultsKept ==
  ASSUME FaultInv, stage # "threw", stage' # "threw",
         NEW infos, errors'.errors = errors.errors \cup infos,
         errors'.has_error <=> errors.has_error \/ \E e \in infos : e.level = "Error",
         \A e \in infos : e.place = <<>>,
         stage' # "returned" => stage # "returned" /\ infos = {},
         hadErrors' = hadErrors,
         \A i, j : Seen(i, j)' <=> Seen(i, j),
         \A i, j : Seen(i, j) => /\ GoodAt(i, j)' <=> GoodAt(i, j)
                                 /\ \A k : WordsAt(i, j, k)' = WordsAt(i, j, k)
  PROVE  FaultInv'
<1>1. errors'.errors = errors.errors \cup infos
  OBVIOUS
<1>2. \A e \in errors'.errors : e.level = "Error" => Placed(e)'
  <2>1. \A e \in errors.errors : e.level = "Error" => Placed(e)
    BY DEF FaultInv
  <2>2. \A e : Placed(e) => Placed(e)'
    BY DEF Placed
  <2>3. \A e \in infos : Placed(e)'
    BY DEF Placed
  <2> QED BY <1>1, <2>1, <2>2, <2>3
<1>3. errors'.has_error <=> \E e \in errors'.errors : e.level = "Error"
  BY <1>1 DEF FaultInv
<1>4. stage' # "returned" /\ ~hadErrors' =>
         \A e \in errors'.errors : e.level = "Error" => e.place # <<>>
  BY <1>1 DEF FaultInv
<1>5. ASSUME NEW i, NEW j, Seen(i, j)' PROVE Reported(i, j)'
  <2>1. Seen(i, j) /\ Reported(i, j)
    BY <1>5 DEF FaultInv
  <2>2. {e \in errors'.errors : At(e, i, j)} = {e \in errors.errors : At(e, i, j)}
    BY <1>1 DEF At
  <2>3. /\ GoodAt(i, j)' <=> GoodAt(i, j)
        /\ \A k : WordsAt(i, j, k)' = WordsAt(i, j, k)
    BY <2>1
  <2> QED BY <2>1, <2>2, <2>3, ReportedStays
<1> QED BY <1>2, <1>3, <1>4, <1>5 DEF FaultInv

\* Errors about member m of type n, or its name, which is seen now.
LEMMA FaultsAdded ==
  ASSUME FaultInv, stage \notin {"threw", "returned"}, stage' # "threw",
         NEW infos, errors' = Add(errors, infos), hadErrors' = hadErrors,
         NEW n, n \in Nat \ {0}, NEW m, ~Seen(n, m),
         \A i, j : Seen(i, j)' <=> Seen(i, j) \/ (i = n /\ j = m),
         \A i, j : Seen(i, j) => /\ GoodAt(i, j)' <=> GoodAt(i, j)
                                 /\ \A k : WordsAt(i, j, k)' = WordsAt(i, j, k),
         \A e \in infos : e.level = "Error" =>
            At(e, n, m) /\ Says(e, WordsAt(n, m, e.place[3])'),
         GoodAt(n, m)' <=> \A e \in infos : e.level # "Error"
  PROVE  FaultInv'
<1>1. errors'.errors = errors.errors \cup infos
  BY AddKeepsErrors
<1>2. \A e \in errors'.errors : e.level = "Error" => Placed(e)'
  <2>1. \A e \in errors.errors : e.level = "Error" => Placed(e)
    BY DEF FaultInv
  <2>2. \A e : Placed(e) => Placed(e)'
    BY DEF Placed
  <2>3. \A e \in infos : e.level = "Error" => Placed(e)'
    <3>1. Seen(n, m)'
      OBVIOUS
    <3>2. \A e \in infos : e.level = "Error" => At(e, n, m)'
      BY DEF At
    <3> QED BY <3>1, <3>2, Zenon DEF Placed
  <2> QED BY <1>1, <2>1, <2>2, <2>3
<1>3. errors'.has_error <=> \E e \in errors'.errors : e.level = "Error"
  BY <1>1 DEF FaultInv, Add
<1>4. stage' # "returned" /\ ~hadErrors' =>
         \A e \in errors'.errors : e.level = "Error" => e.place # <<>>
  BY <1>1 DEF FaultInv, At
<1>5. ASSUME NEW i, NEW j, Seen(i, j)' PROVE Reported(i, j)'
  <2>1. CASE Seen(i, j)
    <3>1. Reported(i, j) /\ ~(i = n /\ j = m)
      BY <2>1 DEF FaultInv
    <3>2. \A e \in infos : ~At(e, i, j)
      <4> SUFFICES ASSUME NEW e \in infos, At(e, i, j) PROVE FALSE
        OBVIOUS
      <4>1. At(e, n, m)
        BY DEF At
      <4> QED BY <3>1, <4>1, AtOnePlace
    <3>3. {e \in errors'.errors : At(e, i, j)} = {e \in errors.errors : At(e, i, j)}
      BY <1>1, <3>2
    <3>4. /\ GoodAt(i, j)' <=> GoodAt(i, j)
          /\ \A k : WordsAt(i, j, k)' = WordsAt(i, j, k)
      BY <2>1
    <3> QED BY <3>1, <3>3, <3>4, ReportedStays
  <2>2. CASE i = n /\ j = m
    <3>1. ErrorsAt(n, m) = {}
      BY UnseenHasNone
    <3>2. \A e \in errors.errors : ~At(e, n, m)
      BY <3>1, ErrorsAtAre
    <3>3. ErrorsAt(n, m)' = {e \in errors'.errors : At(e, n, m)}
      BY DEF ErrorsAt, At
    <3>4. ErrorsAt(n, m)' = {e \in infos : At(e, n, m)}
      BY <1>1, <3>2, <3>3
    <3>5. ErrorsAt(n, m)' = {} <=> GoodAt(n, m)'
      BY <3>4 DEF At
    <3>6. Speaks(n, m)'
      <4>1. \A e \in ErrorsAt(n, m)' :
               Range(e.message.gaps) \subseteq WordsAt(n, m, e.place[3])' \ {""}
        BY <3>4 DEF At, Says
      <4> QED BY <4>1 DEF Speaks
    <3> QED BY <2>2, <3>5, <3>6 DEF Reported
  <2> QED BY <1>5, <2>1, <2>2
<1> QED BY <1>2, <1>3, <1>4, <1>5 DEF FaultInv

-----------------------------------------------------------------------------
\* Nothing is seen at first.
LEMMA InitFaults == ParserInit => FaultInv
<1> SUFFICES ASSUME ParserInit PROVE FaultInv
  OBVIOUS
<1>1. PICK infos \in {{}, {SyntaxError}, {EarlierError}} :
         /\ errors = Add(NoErrors, infos)
         /\ infos = {EarlierError} => hadErrors
  <2>1. CASE hadErrors
    BY <2>1 DEF ParserInit
  <2>2. CASE ~hadErrors
    <3>1. PICK syntax \in {{}, {SyntaxError}} : errors = Add(NoErrors, syntax)
      BY <2>2 DEF ParserInit
    <3>2. syntax # {EarlierError}
      <4>1. SyntaxError.place = <<0, 0, 0>> /\ EarlierError.place = <<>>
        BY DEF SyntaxError, OwnMessage, EarlierError, Error, ErrorInfo
      <4>2. <<0, 0, 0>> # <<>>
        OBVIOUS
      <4> QED BY <4>1, <4>2
    <3> QED BY <3>1, <3>2
  <2> QED BY <2>1, <2>2
<1>2. /\ SyntaxError.level = "Error" /\ SyntaxError.place = <<0, 0, 0>>
      /\ EarlierError.level = "Error" /\ EarlierError.place = <<>>
  BY DEF SyntaxError, OwnMessage, EarlierError, Error, ErrorInfo
<1>3. errors.errors = infos /\ (errors.has_error <=> \E e \in infos : e.level = "Error")
  BY <1>1 DEF Add, NoErrors
<1>4. <<0, 0, 0>> # <<>>
  OBVIOUS
<1>5. \A e \in errors.errors : Placed(e)
  BY <1>1, <1>2, <1>3 DEF Placed
<1>6. ~hadErrors => \A e \in errors.errors : e.place # <<>>
  BY <1>1, <1>2, <1>3, <1>4
<1>7. \A i, j : ~Seen(i, j)
  <2>1. Len(written) = 0
    BY EmptyIsSeq DEF ParserInit
  <2> QED BY <2>1 DEF Seen
<1> QED BY <1>3, <1>5, <1>6, <1>7 DEF FaultInv

\* The types of the visitor are those that the file has declared.
LEMMA DefinedAre ==
  ASSUME StackInv
  PROVE  /\ TypesDefined
         /\ \A name : Defined(name) <=> DeclaredBefore(Len(types) + 1, name)
<1>1. Len(types) \in Nat /\ (Len(types) + 1) - 1 = Len(types)
  BY LengthOfSeq DEF StackInv
<1>2. \A i \in 1 .. Len(types) :
         types[i].name = written[i].name
         /\ types[i] = Definition(written[i].name, types[i].fields)
  BY TypeNamesAre DEF StackInv
<1> QED BY <1>1, <1>2 DEF TypesDefined, Defined, DeclaredBefore

\* A name has a type if it is built in or defined.
LEMMA HasType ==
  ASSUME StackInv, NEW name
  PROVE  GetType(name) # NoType <=>
            name \in DOMAIN BuiltIns \/ DeclaredBefore(Len(types) + 1, name)
<1>1. CASE Defined(name)
  <2>1. PICK k \in 1 .. Len(types) : GetType(name) = types[k]
    BY <1>1, GetTypeIs DEF StackInv
  <2>2. types[k] = Definition(types[k].name, types[k].fields)
    BY DefinedAre DEF TypesDefined
  <2>3. GetType(name) # NoType
    BY <2>1, <2>2, TypesAreNotNull
  <2> QED BY <1>1, <2>3, DefinedAre
<1>2. CASE ~Defined(name)
  <2>1. GetType(name) = IF name \in DOMAIN BuiltIns
                        THEN IntegerType(name, BuiltIns[name].sign, "Unset")
                        ELSE NoType
    BY <1>2, GetTypeIs DEF StackInv
  <2> QED BY <1>2, <2>1, DefinedAre, TypesAreNotNull
<1> QED BY <1>1, <1>2

\* A type that begins is not seen before its end.
LEMMA BeginTypeKeepsFaults ==
  ASSUME FileInv, StackInv, FaultInv, NEW name, HasText(name), BeginType(name)
  PROVE  FaultInv'
<1> DEFINE n == Len(written)
<1>1. /\ stage = "types" /\ stage' = "members" /\ errors' = errors
      /\ hadErrors' = hadErrors
  BY DEF BeginType
<1>2. /\ n \in Nat /\ Len(written') = n + 1
      /\ \A i \in 1 .. n : written'[i] = written[i]
      /\ written'[n + 1].members = <<>>
  <2>1. /\ Len(written') = Len(written) + 1 /\ Len(written) \in Nat
        /\ \A i \in 1 .. Len(written) : written'[i] = written[i]
        /\ written'[Len(written')] = [name |-> name, members |-> <<>>]
    BY TypeBegun
  <2> QED BY <2>1
<1> HIDE DEF n
<1>3. ASSUME NEW i, NEW j PROVE Seen(i, j)' <=> Seen(i, j)
  <2>1. CASE i \in 1 .. n
    <3>1. i < n + 1 /\ i \in 1 .. n + 1 /\ written'[i] = written[i]
      BY <1>2, <2>1
    <3>2. Seen(i, j) <=> (j = 0 \/ j \in 1 .. Len(written[i].members))
      BY <1>1, <2>1 DEF Seen, n
    <3>3. Seen(i, j)' <=> (j = 0 \/ j \in 1 .. Len(written[i].members))
      BY <1>1, <1>2, <3>1 DEF Seen
    <3> QED BY <3>2, <3>3
  <2>2. CASE i = n + 1
    <3>1. ~(i \in 1 .. n) /\ ~(i < n + 1)
      BY <1>2, <2>2
    <3>2. ~Seen(i, j)
      BY <3>1 DEF Seen, n
    <3>3. ~Seen(i, j)'
      BY <1>1, <1>2, <2>2, <3>1, EmptyIsSeq DEF Seen
    <3> QED BY <3>2, <3>3
  <2>3. CASE i \notin 1 .. n + 1
    <3>1. i \notin 1 .. n
      BY <1>2, <2>3
    <3> QED BY <1>2, <2>3, <3>1 DEF Seen, n
  <2> QED BY <1>2, <2>1, <2>2, <2>3
<1>4. ASSUME NEW i, NEW j, Seen(i, j)
      PROVE  /\ GoodAt(i, j)' <=> GoodAt(i, j)
             /\ \A k : WordsAt(i, j, k)' = WordsAt(i, j, k)
  <2>1. i \in 1 .. n /\ (j = 0 \/ j \in 1 .. Len(written[i].members))
    BY <1>4 DEF Seen, n
  <2>2. i \in Nat /\ i # 0 /\ \A k \in 1 .. i : k \in 1 .. n
    BY <1>2, <2>1
  <2>3. j \in Nat
    <3>1. IsSeq(written[i].members)
      BY <2>1 DEF FileInv, WrittenType, n
    <3> QED BY <2>1, <3>1, LengthOfSeq
  <2>4. /\ \A k \in 1 .. i : written'[k].name = written[k].name
        /\ written'[i].members = written[i].members
    BY <1>2, <2>1, <2>2
  <2> QED BY <2>2, <2>3, <2>4, GoodStays
<1>5. /\ errors'.errors = errors.errors \cup {}
      /\ errors'.has_error <=> errors.has_error \/ \E e \in {} : e.level = "Error"
  BY <1>1
<1> QED BY <1>1, <1>3, <1>4, <1>5, FaultsKept

\* The file and what is seen of it stay.
LEMMA SameFileKeepsFaults ==
  ASSUME FaultInv, stage # "threw", stage' # "threw",
         NEW infos, errors'.errors = errors.errors \cup infos,
         errors'.has_error <=> errors.has_error \/ \E e \in infos : e.level = "Error",
         \A e \in infos : e.place = <<>>,
         stage' # "returned" => stage # "returned" /\ infos = {},
         stage # "members", stage' # "members",
         hadErrors' = hadErrors, written' = written
  PROVE  FaultInv'
<1>1. \A i, j : Seen(i, j)' <=> Seen(i, j)
  BY DEF Seen
<1>2. \A i, j : /\ GoodAt(i, j)' <=> GoodAt(i, j)
                /\ \A k : WordsAt(i, j, k)' = WordsAt(i, j, k)
  <2>1. \A i, j : GoodAt(i, j)' <=> GoodAt(i, j)
    BY DEF GoodAt, GoodTypeName, GoodMember, DeclaredBefore
  <2>2. \A i, j, k : WordsAt(i, j, k)' = WordsAt(i, j, k)
    BY DEF WordsAt
  <2> QED BY <2>1, <2>2
<1> QED BY <1>1, <1>2, FaultsKept

\* The error of a file without types is about no type.
LEMMA EndFileKeepsFaults ==
  ASSUME FaultInv, EndFile
  PROVE  FaultInv'
<1> DEFINE infos == IF ~errors.has_error /\ types = <<>>
                    THEN {Error(<<>>, "NoTypes", <<>>)} ELSE {}
<1>1. /\ stage = "types" /\ stage' = "returned" /\ hadErrors' = hadErrors
      /\ written' = written
      /\ errors'.errors = errors.errors \cup infos
      /\ errors'.has_error <=> errors.has_error \/ \E e \in infos : e.level = "Error"
  BY DEF EndFile, Add
<1>2. \A e \in infos : e.place = <<>>
  BY DEF Error, ErrorInfo
<1> HIDE DEF infos
<1> QED BY <1>1, <1>2, SameFileKeepsFaults

\* The error of an unknown root type is about no type of the file.
LEMMA ParseFileKeepsFaults ==
  ASSUME FaultInv, RootInv, NEW type, ParseFile(type)
  PROVE  FaultInv'
<1> DEFINE infos == IF root'.type # NoType THEN {}
                    ELSE {Error(<<>>, "UnknownType", <<type>>)}
<1>1. /\ stage = "returned" /\ stage' = "returned" /\ hadErrors' = hadErrors
      /\ written' = written
      /\ errors'.errors = errors.errors \cup infos
      /\ errors'.has_error <=> errors.has_error \/ \E e \in infos : e.level = "Error"
  BY DEF ParseFile, Add, RootInv
<1>2. \A e \in infos : e.place = <<>>
  BY DEF Error, ErrorInfo
<1> HIDE DEF infos
<1> QED BY <1>1, <1>2, SameFileKeepsFaults

\* The type's name is seen last, at its end.
LEMMA EndTypeKeepsFaults ==
  ASSUME FileInv, StackInv, FaultInv, EndType
  PROVE  FaultInv'
<1>0. PICK n, infos : n = Len(written) /\ infos = TypeNameErrors
  OBVIOUS
<1>1. /\ stage = "members" /\ stage' = "types" /\ errors' = Add(errors, infos)
      /\ hadErrors' = hadErrors /\ written' = written
      /\ n = Len(types) + 1 /\ n \in Nat \ {0}
  BY <1>0, LengthOfSeq DEF EndType, StackInv, InType
<1>2. HasText(written[n].name) /\ \A i \in 1 .. n : IsSeq(written[i].members)
  <2>1. n \in 1 .. Len(written)
    BY <1>0, <1>1
  <2> QED BY <1>0, <2>1 DEF FileInv, WrittenType
<1>3. /\ ~Seen(n, 0)
      /\ \A i, j : Seen(i, j)' <=> Seen(i, j) \/ (i = n /\ j = 0)
  <2>1. \A i \in 1 .. n : i < n \/ i = n
    BY <1>1
  <2>2. n \in 1 .. n /\ ~(n < n)
    BY <1>1
  <2> QED BY <1>0, <1>1, <2>1, <2>2 DEF Seen
<1>4. ASSUME NEW i, NEW j
      PROVE  /\ GoodAt(i, j)' <=> GoodAt(i, j)
             /\ \A k : WordsAt(i, j, k)' = WordsAt(i, j, k)
  <2>1. GoodAt(i, j)' <=> GoodAt(i, j)
    BY <1>1 DEF GoodAt, GoodTypeName, GoodMember, DeclaredBefore
  <2>2. \A k : WordsAt(i, j, k)' = WordsAt(i, j, k)
    BY <1>1 DEF WordsAt
  <2> QED BY <2>1, <2>2
<1>e. PICK error : error = Error(<<n, 0, 0>>, "ShadowingType", <<written[n].name>>)
  OBVIOUS
<1>5. infos = IF GetType(written[n].name) = NoType THEN {} ELSE {error}
  BY <1>0, <1>e DEF TypeNameErrors, Current, Token
<1>6. /\ error.place = <<n, 0, 0>> /\ error.level = "Error"
      /\ Range(error.message.gaps) = {written[n].name}
  <2>1. error.message = FormatMessage("ShadowingType", <<written[n].name>>)
    BY <1>e DEF Error, ErrorInfo
  <2>2. error.place = <<n, 0, 0>> /\ error.level = "Error"
    BY <1>e DEF Error, ErrorInfo
  <2>3. Range(FormatMessage("ShadowingType", <<written[n].name>>).gaps) = {written[n].name}
    BY OneGap
  <2> QED BY <2>1, <2>2, <2>3
<1>7. At(error, n, 0)
  BY <1>6, PlaceIs
<1>8. WordsAt(n, 0, error.place[3])' = {written[n].name}
  BY <1>1 DEF WordsAt
<1>9. \A e \in infos : e.level = "Error" =>
         At(e, n, 0) /\ Says(e, WordsAt(n, 0, e.place[3])')
  <2>1. Says(error, WordsAt(n, 0, error.place[3])')
    BY <1>2, <1>6, <1>8 DEF Says, HasText
  <2> QED BY <1>5, <1>7, <2>1
<1>10. GoodAt(n, 0)' <=> \A e \in infos : e.level # "Error"
  <2>1. GetType(written[n].name) # NoType <=>
           written[n].name \in DOMAIN BuiltIns \/ DeclaredBefore(n, written[n].name)
    BY <1>1, HasType
  <2>2. GoodAt(n, 0) <=> GetType(written[n].name) = NoType
    BY <2>1 DEF GoodAt, GoodTypeName
  <2>3. GoodAt(n, 0)' <=> GoodAt(n, 0)
    BY <1>4
  <2>4. (\A e \in infos : e.level # "Error") <=> GetType(written[n].name) = NoType
    BY <1>5, <1>6
  <2> QED BY <2>2, <2>3, <2>4
<1>11. stage \notin {"threw", "returned"} /\ stage' # "threw"
  BY <1>1
<1> QED BY <1>1, <1>3, <1>4, <1>9, <1>10, <1>11, FaultsAdded

\* The errors of a member, m of type n, that has the use of a type and the name.
MemberErrors(n, m, use, list, name) ==
    /\ \A e \in TypeErrors(use, list) :
          /\ e.level = "Error"
          /\ \/ e.place = <<n, m, 0>> /\ Says(e, {use})
             \/ \E k \in 1 .. Len(list) :
                   /\ e.place = <<n, m, k>>
                   /\ Says(e, {list[k].name, list[k].value,
                               to_string(GetOptionType(list[k].name))})
    /\ TypeErrors(use, list) = {} <=>
          (use \in DOMAIN BuiltIns \/ DeclaredBefore(n, use)) /\ GoodOptions(list)
    /\ \A e \in NameErrors(name) : e.level = "Error" =>
          e.place = <<n, m, 0>> /\ Says(e, {name})
    /\ (\A e \in NameErrors(name) : e.level # "Error") <=>
          \A k \in 1 .. m - 1 : written[n].members[k].name # name

\* What the visitor adds for a member.
LEMMA MemberErrorsAre ==
  ASSUME FileInv, StackInv, stage = "members", NEW use, NEW list, NEW name,
         HasText(use), HasText(name), IsSeq(list), HasValues(list),
         NEW n, n = Len(written), NEW m, m = Len(written[n].members) + 1
  PROVE  MemberErrors(n, m, use, list, name)
<1>1. /\ n = Len(types) + 1 /\ IsSeq(types) /\ n \in Nat \ {0}
      /\ m = NextMember /\ Len(written[n].members) \in Nat
      /\ Len(statements) = Len(written[n].members)
      /\ \A j \in 1 .. Len(statements) : statements[j].name = written[n].members[j].name
  <2>1. n = Len(types) + 1 /\ IsSeq(types) /\ n \in Nat \ {0}
    BY LengthOfSeq DEF StackInv, InType
  <2>2. Entered(written, types, n, statements)
    BY DEF StackInv
  <2>3. Len(statements) \in Nat
    BY <2>2, LengthOfSeq DEF Entered
  <2> QED BY <2>1, <2>2, <2>3 DEF Entered, FieldOf, NextMember, Current
<1>2. \A place, kind, args :
         /\ Error(place, kind, args).place = place
         /\ Error(place, kind, args).level = "Error"
         /\ Error(place, kind, args).message = FormatMessage(kind, args)
  BY DEF Error, ErrorInfo
<1>3. ASSUME NEW e \in TypeErrors(use, list)
      PROVE  /\ e.level = "Error"
             /\ \/ e.place = <<n, m, 0>> /\ Says(e, {use})
                \/ \E k \in 1 .. Len(list) :
                      /\ e.place = <<n, m, k>>
                      /\ Says(e, {list[k].name, list[k].value,
                                  to_string(GetOptionType(list[k].name))})
  <2>1. PICK flaw \in TypeFlaws(use, list) :
           e = Error(Token(NextMember, flaw.at), flaw.kind, flaw.args)
    BY DEF TypeErrors
  <2>2. e.level = "Error" /\ e.place = <<n, m, flaw.at>>
        /\ Range(e.message.gaps) = GapsOf(flaw)
    <3>1. Token(NextMember, flaw.at) = <<n, m, flaw.at>>
      BY <1>1 DEF Token
    <3> QED BY <1>2, <2>1, <3>1 DEF GapsOf
  <2>3. FlawSpeaks(flaw, use, list)
    BY FlawsSpeak
  <2> QED BY <2>2, <2>3 DEF FlawSpeaks, Says
<1>4. TypeErrors(use, list) = {} <=>
         (use \in DOMAIN BuiltIns \/ DeclaredBefore(n, use)) /\ GoodOptions(list)
  <2>1. TypeErrors(use, list) = {} <=> TypeFlaws(use, list) = {}
    BY DEF TypeErrors
  <2>2. TypeFlaws(use, list) = {} <=>
           (Defined(use) \/ use \in DOMAIN BuiltIns) /\ GoodOptions(list)
    BY <1>1, DefinedAre, FlawsOfUse
  <2>3. Defined(use) <=> DeclaredBefore(n, use)
    BY <1>1, DefinedAre
  <2> QED BY <2>1, <2>2, <2>3
<1>5. FindMember(name) <=> \E k \in 1 .. m - 1 : written[n].members[k].name = name
  <2>1. m \in Nat /\ m - 1 = Len(statements)
    <3>1. m = Len(statements) + 1 /\ Len(statements) \in Nat
      BY <1>1
    <3> QED BY <3>1
  <2> QED BY <1>1, <2>1 DEF FindMember
<1> DEFINE error == Error(Token(NextMember, 0), "ShadowingMember", <<name>>)
           warning == Warning(Token(NextMember, 0), "ShadowingType", <<name>>)
<1>6. /\ FindMember(name) => NameErrors(name) = {error}
      /\ ~FindMember(name) => NameErrors(name) \subseteq {warning}
  BY DEF NameErrors
<1>7. error.level = "Error" /\ error.place = <<n, m, 0>> /\ Says(error, {name})
  <2>1. Range(FormatMessage("ShadowingMember", <<name>>).gaps) = {name}
    BY OneGap
  <2>2. error.level = "Error" /\ error.place = <<n, m, 0>>
        /\ error.message = FormatMessage("ShadowingMember", <<name>>)
    BY <1>1, <1>2 DEF Token
  <2>3. Says(error, {name})
    BY <2>1, <2>2 DEF Says, HasText
  <2> QED BY <2>2, <2>3
<1>8. warning.level # "Error"
  BY DEF Warning, ErrorInfo
<1> HIDE DEF error, warning
<1>9. \A e \in NameErrors(name) : e.level = "Error" =>
         e.place = <<n, m, 0>> /\ Says(e, {name})
  BY <1>6, <1>7, <1>8
<1>10. (\A e \in NameErrors(name) : e.level # "Error") <=> ~FindMember(name)
  BY <1>6, <1>7, <1>8
<1> QED BY <1>3, <1>4, <1>5, <1>9, <1>10 DEF MemberErrors

\* What a file may have for a member.
LEMMA MembersHaveText ==
  ASSUME NEW use \in TypeUses, NEW name \in MemberNames,
         NEW m \in [options : OptionLists, number : Numbers \cup {NoNumber}]
  PROVE  /\ HasText(use) /\ HasText(name)
         /\ IsSeq(m.options) /\ HasValues(m.options)
<1>1. /\ m.options \in Seq([name : STRING, value : STRING])
      /\ \A k \in 1 .. Len(m.options) : HasText(m.options[k].value)
  BY DefinitionAssumption DEF HasText
<1>2. /\ m.options \in [1 .. Len(m.options) -> {m.options[k] : k \in 1 .. Len(m.options)}]
      /\ Len(m.options) \in Nat
  BY <1>1, LenProperties
<1>3. IsSeq(m.options)
  BY <1>2 DEF IsSeq
<1>4. HasText(use) /\ HasText(name)
  BY DefinitionAssumption DEF HasText
<1> QED BY <1>1, <1>3, <1>4 DEF HasValues

\* A member has the errors of its type, its options and its name.
LEMMA VisitMemberKeepsFaults ==
  ASSUME FileInv, StackInv, FaultInv, NEW use \in TypeUses, NEW name \in MemberNames,
         NEW m \in [options : OptionLists, number : Numbers \cup {NoNumber}],
         VisitMember(use, m, name)
  PROVE  FaultInv'
<1> DEFINE member == [type |-> use, options |-> m.options, name |-> name,
                      number |-> m.number]
<1>0. PICK n, j, infos :
         /\ n = Len(written) /\ j = Len(written[n].members) + 1
         /\ infos = TypeErrors(use, m.options) \cup NameErrors(name)
  OBVIOUS
<1>1. /\ stage = "members" /\ stage' = "members" /\ errors' = Add(errors, infos)
      /\ hadErrors' = hadErrors /\ Write(use, m, name)
      /\ n = Len(types) + 1 /\ n \in Nat \ {0}
  BY <1>0, LengthOfSeq DEF VisitMember, StackInv, InType
<1>2. written # <<>>
  BY <1>0, <1>1, LengthOfSeq DEF FileInv
<1>3. /\ Len(written') = n
      /\ \A i \in 1 .. n - 1 : written'[i] = written[i]
      /\ written'[n].name = written[n].name
      /\ j \in Nat \ {0} /\ Len(written[n].members) = j - 1
      /\ Len(written'[n].members) = j
      /\ \A k \in 1 .. j - 1 : written'[n].members[k] = written[n].members[k]
      /\ written'[n].members[j] = member
  <2>1. /\ Len(written') = Len(written)
        /\ \A i \in 1 .. Len(written) - 1 : written'[i] = written[i]
        /\ written'[Len(written)].name = written[Len(written)].name
        /\ Len(written[Len(written)].members) \in Nat
        /\ Len(written'[Len(written)].members) = Len(written[Len(written)].members) + 1
        /\ \A k \in 1 .. Len(written[Len(written)].members) :
              written'[Len(written)].members[k] = written[Len(written)].members[k]
        /\ written'[Len(written)].members[Len(written[Len(written)].members) + 1] = member
    BY <1>1, <1>2, MemberWritten
  <2>2. j - 1 = Len(written[n].members)
    BY <1>0, <2>1
  <2> QED BY <1>0, <2>1, <2>2
<1> HIDE DEF member
<1>4. /\ \A i \in 1 .. n : i \in 1 .. n - 1 \/ i = n
      /\ \A i \in 1 .. n - 1 : i \in 1 .. n /\ i # n /\ i < n
      /\ n \in 1 .. n /\ ~(n < n)
      /\ \A k \in 1 .. j : k \in 1 .. j - 1 \/ k = j
      /\ \A k \in 1 .. j - 1 : k \in 1 .. j
      /\ j \in 1 .. j /\ j \notin 1 .. j - 1 /\ j # 0
  BY <1>1, <1>3
<1>5. /\ ~Seen(n, j)
      /\ \A i, k : Seen(i, k)' <=> Seen(i, k) \/ (i = n /\ k = j)
  <2>1. \A i, k : Seen(i, k) <=>
           /\ i \in 1 .. n
           /\ IF k = 0 THEN i < n ELSE k \in 1 .. Len(written[i].members)
    BY <1>0, <1>1 DEF Seen
  <2>2. \A i, k : Seen(i, k)' <=>
           /\ i \in 1 .. n
           /\ IF k = 0 THEN i < n ELSE k \in 1 .. Len(written'[i].members)
    BY <1>1, <1>3 DEF Seen
  <2>3. \A i \in 1 .. n - 1 : written'[i] = written[i]
    BY <1>3
  <2>4. ASSUME NEW i, NEW k PROVE Seen(i, k)' <=> Seen(i, k) \/ (i = n /\ k = j)
    <3>1. CASE i = n
      BY <1>3, <1>4, <2>1, <2>2, <3>1
    <3>2. CASE i # n
      BY <1>4, <2>1, <2>2, <2>3, <3>2
    <3> QED BY <3>1, <3>2
  <2>5. ~Seen(n, j)
    BY <1>3, <1>4, <2>1
  <2> QED BY <2>4, <2>5
<1>6. ASSUME NEW i, NEW k, Seen(i, k)
      PROVE  /\ GoodAt(i, k)' <=> GoodAt(i, k)
             /\ \A l : WordsAt(i, k, l)' = WordsAt(i, k, l)
  <2>1. i \in 1 .. n /\ i \in Nat /\ i # 0
        /\ (k = 0 \/ k \in 1 .. Len(written[i].members))
    BY <1>0, <1>1, <1>6 DEF Seen
  <2>2. k \in Nat
    <3>1. IsSeq(written[i].members)
      BY <1>0, <2>1 DEF FileInv, WrittenType
    <3> QED BY <2>1, <3>1, LengthOfSeq
  <2>3. \A l \in 1 .. i : written'[l].name = written[l].name
    <3>1. \A l \in 1 .. i : l \in 1 .. n
      BY <1>1, <2>1
    <3> QED BY <1>3, <1>4, <3>1
  <2>4. \A l \in 1 .. k : written'[i].members[l] = written[i].members[l]
    <3>1. CASE i = n
      <4>1. \A l \in 1 .. k : l \in 1 .. j - 1
        <5>1. k \in 1 .. j - 1 \/ k = 0
          BY <1>3, <2>1, <3>1
        <5> QED BY <1>3, <5>1
      <4> QED BY <1>3, <3>1, <4>1
    <3>2. CASE i # n
      BY <1>3, <1>4, <2>1, <3>2
    <3> QED BY <3>1, <3>2
  <2> QED BY <2>1, <2>2, <2>3, <2>4, GoodStays
<1>7. /\ HasText(use) /\ HasText(name)
      /\ IsSeq(m.options) /\ HasValues(m.options)
  BY MembersHaveText
<1> DEFINE words(k) == {m.options[k].name, m.options[k].value,
                        to_string(GetOptionType(m.options[k].name))}
<1>8. /\ \A e \in TypeErrors(use, m.options) :
            /\ e.level = "Error"
            /\ \/ e.place = <<n, j, 0>> /\ Says(e, {use})
               \/ \E k \in 1 .. Len(m.options) : e.place = <<n, j, k>> /\ Says(e, words(k))
      /\ TypeErrors(use, m.options) = {} <=>
            (use \in DOMAIN BuiltIns \/ DeclaredBefore(n, use)) /\ GoodOptions(m.options)
      /\ \A e \in NameErrors(name) : e.level = "Error" =>
            e.place = <<n, j, 0>> /\ Says(e, {name})
      /\ (\A e \in NameErrors(name) : e.level # "Error") <=>
            \A k \in 1 .. j - 1 : written[n].members[k].name # name
  <2>1. n = Len(written) /\ j = Len(written[n].members) + 1 /\ stage = "members"
    BY <1>0, <1>1
  <2>2. MemberErrors(n, j, use, m.options, name)
    BY <1>7, <2>1, MemberErrorsAre
  <2> QED BY <2>2 DEF MemberErrors
<1>9. /\ WordsAt(n, j, 0)' = {name, use}
      /\ \A k \in 1 .. Len(m.options) : WordsAt(n, j, k)' = words(k)
  <2>1. \A k \in 1 .. Len(m.options) : k # 0
    OBVIOUS
  <2>2. member.name = name /\ member.type = use /\ member.options = m.options
    BY DEF member
  <2>3. WordsAt(n, j, 0)' = {member.name, member.type}
    BY <1>3, <1>4 DEF WordsAt
  <2>4. \A k : k # 0 => WordsAt(n, j, k)' =
           {member.options[k].name, member.options[k].value,
            to_string(GetOptionType(member.options[k].name))}
    BY <1>3, <1>4 DEF WordsAt
  <2> QED BY <2>1, <2>2, <2>3, <2>4
<1>10. ASSUME NEW e \in infos, e.level = "Error"
       PROVE  At(e, n, j) /\ Says(e, WordsAt(n, j, e.place[3])')
  <2>1. \/ e.place = <<n, j, 0>> /\ (Says(e, {use}) \/ Says(e, {name}))
        \/ \E k \in 1 .. Len(m.options) : e.place = <<n, j, k>> /\ Says(e, words(k))
    BY <1>0, <1>8, <1>10
  <2>2. CASE e.place = <<n, j, 0>> /\ (Says(e, {use}) \/ Says(e, {name}))
    <3>1. At(e, n, j) /\ e.place[3] = 0
      BY <1>10, <2>2, PlaceIs
    <3>2. Says(e, {name, use})
      BY <2>2 DEF Says
    <3> QED BY <1>9, <3>1, <3>2
  <2>3. CASE \E k \in 1 .. Len(m.options) : e.place = <<n, j, k>> /\ Says(e, words(k))
    <3>1. PICK k \in 1 .. Len(m.options) : e.place = <<n, j, k>> /\ Says(e, words(k))
      BY <2>3
    <3>2. At(e, n, j) /\ e.place[3] = k
      BY <1>10, <3>1, PlaceIs
    <3> QED BY <1>9, <3>1, <3>2
  <2> QED BY <2>1, <2>2, <2>3
<1>11. GoodAt(n, j)' <=> \A e \in infos : e.level # "Error"
  <2>1. GoodAt(n, j)' <=>
           /\ use \in DOMAIN BuiltIns \/ DeclaredBefore(n, use)'
           /\ GoodOptions(m.options)
           /\ \A k \in 1 .. j - 1 : written'[n].members[k].name # name
    <3>1. member.name = name /\ member.type = use /\ member.options = m.options
      BY DEF member
    <3>2. GoodAt(n, j)' <=>
           /\ member.type \in DOMAIN BuiltIns \/ DeclaredBefore(n, member.type)'
           /\ GoodOptions(member.options)
           /\ \A k \in 1 .. j - 1 : written'[n].members[k].name # member.name
      BY <1>3, <1>4 DEF GoodAt, GoodMember
    <3> QED BY <3>1, <3>2
  <2>2. DeclaredBefore(n, use)' <=> DeclaredBefore(n, use)
    BY <1>3 DEF DeclaredBefore
  <2>3. \A k \in 1 .. j - 1 : written'[n].members[k].name = written[n].members[k].name
    BY <1>3
  <2>4. (\A e \in infos : e.level # "Error") <=>
           /\ TypeErrors(use, m.options) = {}
           /\ \A e \in NameErrors(name) : e.level # "Error"
    BY <1>0, <1>8
  <2> QED BY <1>8, <2>1, <2>2, <2>3, <2>4
<1>12. stage \notin {"threw", "returned"} /\ stage' # "threw"
  BY <1>1
<1> HIDE DEF words
<1> QED BY <1>1, <1>5, <1>6, <1>10, <1>11, <1>12, FaultsAdded

\* The invariant of the errors is inductive.
LEMMA NextKeepsFaults ==
  ASSUME FileInv, StackInv, RootInv, FaultInv, [ParserNext]_parserVars
  PROVE  FaultInv'
<1>1. CASE \E name \in TypeNames : BeginType(name)
  <2>1. PICK name : BeginType(name) /\ HasText(name)
    BY <1>1, DefinitionAssumption DEF HasText
  <2> QED BY <2>1, BeginTypeKeepsFaults
<1>2. CASE \E m \in Fitting : \E use \in TypeUses, name \in MemberNames :
              VisitMember(use, m, name) \/ ThrowNumber(use, m, name)
  <2>1. Fitting \subseteq [options : OptionLists, number : Numbers \cup {NoNumber}]
    BY Zenon DEF Fitting
  <2>2. ASSUME NEW m, NEW use, NEW name, ThrowNumber(use, m, name) PROVE FaultInv'
    BY <2>2 DEF ThrowNumber, FaultInv
  <2> QED BY <1>2, <2>1, <2>2, VisitMemberKeepsFaults
<1>3. CASE EndType
  BY <1>3, EndTypeKeepsFaults
<1>4. CASE EndFile
  BY <1>4, EndFileKeepsFaults
<1>5. CASE \E type \in {""} \cup TypeNames : ParseFile(type)
  BY <1>5, ParseFileKeepsFaults
<1>6. CASE UNCHANGED parserVars
  <2>1. stage' = stage /\ errors' = errors /\ hadErrors' = hadErrors /\ written' = written
    BY <1>6 DEF parserVars
  <2>2. \A i, j : (Seen(i, j)' <=> Seen(i, j)) /\ (Reported(i, j)' <=> Reported(i, j))
    BY <2>1 DEF Seen, Reported, ErrorsAt, GoodAt, Speaks, WordsAt, GoodTypeName, GoodMember,
                DeclaredBefore
  <2>3. \A e : Placed(e)' <=> Placed(e)
    BY <2>1, <2>2 DEF Placed, At
  <2> QED BY <2>1, <2>2, <2>3 DEF FaultInv
<1> QED BY <1>1, <1>2, <1>3, <1>4, <1>5, <1>6 DEF ParserNext

\* The errors are always those of the faults seen.
LEMMA FaultsHold == ParserSpec => []FaultInv
<1>1. FaultInv /\ FileInv /\ StackInv /\ RootInv /\ [ParserNext]_parserVars => FaultInv'
  BY NextKeepsFaults
<1> QED BY <1>1, InitFaults, StackHolds, RootHolds, PTL DEF ParserSpec

\* The errors of a type or a member are those of what is wrong with it: none
\* is lost behind another, and none is there without a reason.
THEOREM FaultsCorrect == ParserSpec => []FaultsReported
<1>1. FaultInv => FaultsReported
  BY FaultsAreReported
<1> QED BY <1>1, FaultsHold, PTL

-----------------------------------------------------------------------------
(***************************************************************************)
(* Numbers.                                                                *)
(***************************************************************************)

\* v has the values of the digits up to each of them.
Values(v, digits, base) ==
    v = [n \in 0 .. Len(digits) |->
            IF n = 0 THEN 0 ELSE base * v[n - 1] + digits[n]]

\* ValueOf is found one digit after the other.
LEMMA ValueIs ==
  ASSUME NEW digits \in Seq(Nat), NEW base \in Nat
  PROVE  \E v \in [0 .. Len(digits) -> Nat] :
            /\ v[0] = 0
            /\ \A n \in 1 .. Len(digits) : v[n] = base * v[n - 1] + digits[n]
            /\ ValueOf(digits, base) = v[Len(digits)]
<1> DEFINE L == Len(digits)
           step == [p \in Nat \X (1 .. L) |-> base * p[1] + digits[p[2]]]
<1>1. L \in Nat /\ \A n \in 1 .. L : digits[n] \in Nat
  BY LenProperties, ElementOfSeq
<1>2. /\ step \in [Nat \X (1 .. L) -> Nat]
      /\ \A x \in Nat, n \in 1 .. L : step[<<x, n>>] = base * x + digits[n]
  <2>1. \A x \in Nat, n \in 1 .. L : base * x + digits[n] \in Nat
    BY <1>1
  <2> QED BY <2>1
<1> HIDE DEF step
<1>3. PICK f \in [0 .. L -> Nat] : Recursion(f, 0, step, L)
  <2>1. 0 \in Nat
    OBVIOUS
  <2> HIDE DEF L
  <2> QED BY <1>1, <1>2, <2>1, RecursionExists, Zenon
<1>4. \A n \in 1 .. L : n \in 0 .. L /\ n - 1 \in 0 .. L /\ n # 0
  BY <1>1
<1>5. /\ f[0] = 0
      /\ \A n \in 1 .. L : f[n] = base * f[n - 1] + digits[n]
  <2>1. \A n \in 1 .. L : f[n - 1] \in Nat
    BY <1>3, <1>4
  <2> QED BY <1>2, <1>3, <2>1 DEF Recursion
<1>6. Values(f, digits, base)
  <2>1. \A n \in 0 .. L : f[n] = IF n = 0 THEN 0 ELSE base * f[n - 1] + digits[n]
    <3>1. \A n \in 0 .. L : n = 0 \/ n \in 1 .. L
      BY <1>1
    <3> QED BY <1>4, <1>5, <3>1
  <2> QED BY <1>3, <2>1 DEF Values
<1> DEFINE V == CHOOSE v : Values(v, digits, base)
<1>7. Values(V, digits, base)
  BY <1>6, Zenon
<1>8. ValueOf(digits, base) = V[L]
  BY Zenon DEF ValueOf, Values
<1> HIDE DEF V
<1>9. /\ V[0] = 0
      /\ \A n \in 1 .. L : V[n] = base * V[n - 1] + digits[n]
      /\ V = [n \in 0 .. L |-> V[n]]
  <2>1. 0 \in 0 .. L
    BY <1>1
  <2> QED BY <1>4, <1>7, <2>1 DEF Values
<1>10. \A n \in 0 .. L : V[n] \in Nat
  <2> DEFINE T == {n \in 0 .. L : V[n] \in Nat}
  <2>1. 0 \in T
    BY <1>1, <1>9
  <2>2. ASSUME NEW n \in 0 .. L - 1, n \in T PROVE n + 1 \in T
    <3>1. n + 1 \in 1 .. L /\ n + 1 \in 0 .. L /\ (n + 1) - 1 = n
      BY <1>1
    <3>2. V[n + 1] = base * V[n] + digits[n + 1]
      BY <1>9, <3>1
    <3>3. V[n] \in Nat /\ digits[n + 1] \in Nat
      BY <1>1, <2>2, <3>1
    <3>4. V[n + 1] \in Nat
      BY <3>2, <3>3, DigitAdded
    <3> QED BY <3>1, <3>4
  <2> HIDE DEF T
  <2>3. \A n \in 0 .. L : n \in T
    BY <1>1, <2>1, <2>2, IntervalInduction
  <2> QED BY <2>3 DEF T
<1>11. V \in [0 .. L -> Nat]
  BY <1>9, <1>10
<1> QED BY <1>8, <1>9, <1>11

\* What is behind the first digits makes a number no smaller.
LEMMA PrefixIsSmaller ==
  ASSUME NEW digits \in Seq(Nat), NEW base \in Nat \ {0}, NEW n \in 0 .. Len(digits)
  PROVE  ValueOf(SubSeq(digits, 1, n), base) <= ValueOf(digits, base)
<1> DEFINE L == Len(digits)
           prefix == SubSeq(digits, 1, n)
<1>1. L \in Nat /\ n \in Nat /\ n <= L /\ \A k \in 1 .. L : digits[k] \in Nat
  BY LenProperties, ElementOfSeq
<1>2. /\ prefix \in Seq(Nat) /\ Len(prefix) = n
      /\ \A k \in 1 .. n : prefix[k] = digits[k]
  <2>1. /\ n - 1 + 1 = n
        /\ \A k \in 1 .. n : 1 + k - 1 = k
        /\ 1 \in 1 .. L + 1 /\ n \in 1 - 1 .. L
    BY <1>1
  <2>2. \A k \in 1 .. L : digits[k] \in Nat
    BY <1>1
  <2>3. Len(prefix) = n /\ \A k \in 1 .. n : prefix[k] = digits[k]
    BY <1>1, <2>1, SubSeqProperties
  <2>4. prefix \in Seq(Nat)
    BY <1>1, <2>1, SubSeqProperties
  <2> QED BY <2>3, <2>4
<1> HIDE DEF prefix
<1>3. PICK v \in [0 .. L -> Nat] :
         /\ v[0] = 0
         /\ \A k \in 1 .. L : v[k] = base * v[k - 1] + digits[k]
         /\ ValueOf(digits, base) = v[L]
  BY ValueIs
<1>4. PICK w \in [0 .. n -> Nat] :
         /\ w[0] = 0
         /\ \A k \in 1 .. n : w[k] = base * w[k - 1] + digits[k]
         /\ ValueOf(prefix, base) = w[n]
  <2>1. PICK w \in [0 .. Len(prefix) -> Nat] :
           /\ w[0] = 0
           /\ \A k \in 1 .. Len(prefix) : w[k] = base * w[k - 1] + prefix[k]
           /\ ValueOf(prefix, base) = w[Len(prefix)]
    BY <1>2, ValueIs
  <2>2. \A k \in 1 .. n : w[k] = base * w[k - 1] + digits[k]
    BY <1>2, <2>1
  <2> QED BY <1>2, <2>1, <2>2
<1>5. v[n] = w[n]
  <2> DEFINE T == {k \in 0 .. n : v[k] = w[k]}
  <2>1. 0 \in T
    BY <1>1, <1>3, <1>4
  <2>2. ASSUME NEW k \in 0 .. n - 1, k \in T PROVE k + 1 \in T
    <3>1. k + 1 \in 1 .. n /\ k + 1 \in 1 .. L /\ k + 1 \in 0 .. n /\ (k + 1) - 1 = k
      BY <1>1
    <3>2. v[k + 1] = base * v[k] + digits[k + 1] /\ w[k + 1] = base * w[k] + digits[k + 1]
      BY <1>3, <1>4, <3>1
    <3> QED BY <2>2, <3>1, <3>2
  <2> HIDE DEF T
  <2>3. \A k \in 0 .. n : k \in T
    BY <1>1, <2>1, <2>2, IntervalInduction
  <2>4. n \in T
    BY <1>1, <2>3
  <2> QED BY <2>4 DEF T
<1>6. v[n] <= v[L]
  <2> DEFINE T == {k \in 0 .. L - n : v[n] <= v[n + k]}
  <2>1. 0 \in T
    <3>1. n \in 0 .. L /\ L - n \in Nat /\ n + 0 = n
      BY <1>1
    <3>2. v[n] \in Nat /\ 0 \in 0 .. L - n
      BY <3>1
    <3> HIDE DEF L
    <3>3. v[n] <= v[n + 0]
      BY <3>1, <3>2
    <3> QED BY <3>2, <3>3
  <2>2. ASSUME NEW k \in 0 .. (L - n) - 1, k \in T PROVE k + 1 \in T
    <3>1. /\ n + k + 1 \in 1 .. L /\ k + 1 \in 0 .. L - n /\ (n + k + 1) - 1 = n + k
          /\ n + (k + 1) = n + k + 1 /\ n + k \in 0 .. L /\ n \in 0 .. L
      BY <1>1
    <3>2. v[n + k + 1] = base * v[n + k] + digits[n + k + 1]
      BY <1>3, <3>1
    <3>3. v[n + k] \in Nat /\ v[n] \in Nat /\ digits[n + k + 1] \in Nat /\ v[n] <= v[n + k]
      BY <1>1, <2>2, <3>1
    <3>5. v[n + k] <= v[n + k + 1] /\ v[n + k + 1] \in Nat
      <4> DEFINE x == v[n + k]
                 d == digits[n + k + 1]
      <4>1. x \in Nat /\ d \in Nat /\ base \in Nat /\ base # 0
        BY <3>3
      <4> HIDE DEF x, d
      <4>2. base * x + d \in Nat /\ x <= base * x + d
        BY <4>1, DigitAdded
      <4> QED BY <3>2, <4>2 DEF x, d
    <3>6. v[n] <= v[n + (k + 1)]
      BY <3>1, <3>3, <3>5
    <3> QED BY <3>1, <3>6
  <2> HIDE DEF T
  <2>3. L - n \in Nat
    BY <1>1
  <2>4. \A k \in 0 .. L - n : k \in T
    BY <2>1, <2>2, <2>3, IntervalInduction
  <2>5. L - n \in T /\ n + (L - n) = L
    BY <1>1, <2>3, <2>4
  <2> QED BY <2>5 DEF T
<1> QED BY <1>3, <1>4, <1>5, <1>6 DEF prefix

\* p has the powers of the base up to n.
Powers(p, base, n) == p = [k \in 0 .. n |-> IF k = 0 THEN 1 ELSE base * p[k - 1]]

\* u has the sums of the digits, each with its power of the base.
Sums(u, p, digits, n) ==
    u = [k \in 0 .. n |-> IF k = 0 THEN 0 ELSE u[k - 1] + digits[k] * p[n - k]]

\* The powers of a base are natural numbers.
LEMMA PowersAre ==
  ASSUME NEW base \in Nat, NEW L \in Nat
  PROVE  LET p == CHOOSE q : Powers(q, base, L)
         IN  /\ p \in [0 .. L -> Nat] /\ p[0] = 1
             /\ \A k \in 1 .. L : p[k] = base * p[k - 1]
<1> DEFINE step == [x \in Nat \X (1 .. L) |-> base * x[1]]
<1>1. /\ step \in [Nat \X (1 .. L) -> Nat]
      /\ \A x \in Nat, k \in 1 .. L : step[<<x, k>>] = base * x
  <2>1. \A x \in Nat : base * x \in Nat
    OBVIOUS
  <2> QED BY <2>1
<1> HIDE DEF step
<1>2. PICK f \in [0 .. L -> Nat] : Recursion(f, 1, step, L)
  <2>1. 1 \in Nat
    OBVIOUS
  <2> QED BY <1>1, <2>1, RecursionExists, Zenon
<1>3. \A k \in 1 .. L : k \in 0 .. L /\ k - 1 \in 0 .. L /\ k # 0
  OBVIOUS
<1>4. /\ f[0] = 1
      /\ \A k \in 1 .. L : f[k] = base * f[k - 1]
  <2>1. \A k \in 1 .. L : f[k - 1] \in Nat
    BY <1>2, <1>3
  <2> QED BY <1>1, <1>2, <2>1 DEF Recursion
<1>5. Powers(f, base, L)
  <2>1. \A k \in 0 .. L : f[k] = IF k = 0 THEN 1 ELSE base * f[k - 1]
    <3>1. \A k \in 0 .. L : k = 0 \/ k \in 1 .. L
      OBVIOUS
    <3> QED BY <1>3, <1>4, <3>1
  <2> QED BY <1>2, <2>1 DEF Powers
<1> DEFINE P == CHOOSE q : Powers(q, base, L)
<1>6. Powers(P, base, L)
  BY <1>5, Zenon
<1> HIDE DEF P
<1>7. /\ P[0] = 1
      /\ \A k \in 1 .. L : P[k] = base * P[k - 1]
      /\ P = [k \in 0 .. L |-> P[k]]
  <2>1. 0 \in 0 .. L
    OBVIOUS
  <2> QED BY <1>3, <1>6, <2>1 DEF Powers
<1>8. \A k \in 0 .. L : P[k] \in Nat
  <2> DEFINE T == {k \in 0 .. L : P[k] \in Nat}
  <2>1. 0 \in T
    BY <1>7
  <2>2. ASSUME NEW k \in 0 .. L - 1, k \in T PROVE k + 1 \in T
    <3>1. k + 1 \in 1 .. L /\ k + 1 \in 0 .. L /\ (k + 1) - 1 = k
      OBVIOUS
    <3>2. P[k + 1] = base * P[k] /\ P[k] \in Nat
      BY <1>7, <2>2, <3>1
    <3>3. \A x \in Nat : base * x \in Nat
      OBVIOUS
    <3> QED BY <3>1, <3>2, <3>3
  <2> HIDE DEF T
  <2>3. \A k \in 0 .. L : k \in T
    BY <2>1, <2>2, IntervalInduction
  <2> QED BY <2>3 DEF T
<1> QED BY <1>7, <1>8 DEF P

\* Horner's rule and the sum of the powers have one value.
LEMMA MagnitudeIs ==
  ASSUME NEW number, number.digits \in Seq(Nat), Radix(number) \in Nat
  PROVE  Magnitude(number) = ValueOf(number.digits, Radix(number))
<1> DEFINE digits == number.digits
           base == Radix(number)
           L == Len(digits)
           P == CHOOSE q : Powers(q, base, L)
<1>1. L \in Nat /\ base \in Nat /\ \A n \in 1 .. L : digits[n] \in Nat
  BY LenProperties, ElementOfSeq
<1>2. PICK v \in [0 .. L -> Nat] :
         /\ v[0] = 0
         /\ \A n \in 1 .. L : v[n] = base * v[n - 1] + digits[n]
         /\ ValueOf(digits, base) = v[L]
  BY ValueIs
<1> DEFINE U == CHOOSE u : Sums(u, P, digits, L)
<1>3. Magnitude(number) = U[L]
  BY Zenon DEF Magnitude, Powers, Sums
<1> HIDE DEF digits, base, L
<1>4. /\ P \in [0 .. L -> Nat] /\ P[0] = 1
      /\ \A k \in 1 .. L : P[k] = base * P[k - 1]
  BY <1>1, PowersAre
<1> HIDE DEF P
<1>5. /\ \A k \in 1 .. L : k \in 0 .. L /\ k - 1 \in 0 .. L /\ k # 0 /\ L - k \in 0 .. L
                           /\ L - (k - 1) \in 1 .. L /\ (L - (k - 1)) - 1 = L - k
      /\ 0 \in 0 .. L /\ L \in 0 .. L /\ L - L = 0
      /\ \A k \in 0 .. L : k = 0 \/ k \in 1 .. L
  BY <1>1
\* The sums are the values, with the powers that are left.
<1> DEFINE f == [k \in 0 .. L |-> v[k] * P[L - k]]
<1>6. ASSUME NEW k \in 1 .. L PROVE f[k] = f[k - 1] + digits[k] * P[L - k]
  <2>1. /\ v[k] = base * v[k - 1] + digits[k]
        /\ P[L - (k - 1)] = base * P[L - k]
    BY <1>2, <1>4, <1>5
  <2>2. v[k - 1] \in Nat /\ digits[k] \in Nat /\ P[L - k] \in Nat
    BY <1>1, <1>4, <1>5
  <2>3. DigitMoves(base, v[k - 1], digits[k], P[L - k])
    <3>1. base \in Nat
      BY <1>1
    <3> QED BY <2>2, <3>1, DigitsMove
  <2>4. (base * v[k - 1] + digits[k]) * P[L - k] =
           v[k - 1] * (base * P[L - k]) + digits[k] * P[L - k]
    BY <2>3, Zenon DEF DigitMoves
  <2>5. f[k] = v[k] * P[L - k] /\ f[k - 1] = v[k - 1] * P[L - (k - 1)]
    BY <1>5
  <2> HIDE DEF f
  <2> QED BY <2>1, <2>4, <2>5
<1>7. f[0] = 0
  <2>1. f[0] = 0 * P[L - 0]
    BY <1>2, <1>5
  <2>2. P[L - 0] \in Nat
    BY <1>1, <1>4, <1>5
  <2>3. \A p \in Nat : 0 * p = 0
    OBVIOUS
  <2> HIDE DEF f
  <2> QED BY <2>1, <2>2, <2>3
<1>8. f[L] = v[L]
  <2>1. f[L] = v[L] * 1 /\ v[L] \in Nat
    BY <1>4, <1>5
  <2> HIDE DEF f
  <2> QED BY <2>1
<1>9. DOMAIN f = 0 .. L /\ f = [k \in 0 .. L |-> f[k]]
  OBVIOUS
<1> HIDE DEF f
<1>10. Sums(f, P, digits, L)
  <2>1. \A k \in 0 .. L : f[k] = IF k = 0 THEN 0 ELSE f[k - 1] + digits[k] * P[L - k]
    BY <1>5, <1>6, <1>7
  <2> QED BY <1>9, <2>1 DEF Sums
<1>11. Sums(U, P, digits, L)
  BY <1>10, Zenon
<1> HIDE DEF U
<1>12. /\ U[0] = 0
       /\ \A k \in 1 .. L : U[k] = U[k - 1] + digits[k] * P[L - k]
  BY <1>5, <1>11 DEF Sums
<1>13. U[L] = f[L]
  <2> DEFINE T == {k \in 0 .. L : U[k] = f[k]}
  <2>1. 0 \in T
    BY <1>5, <1>7, <1>12
  <2>2. ASSUME NEW k \in 0 .. L - 1, k \in T PROVE k + 1 \in T
    <3>1. k + 1 \in 1 .. L /\ k + 1 \in 0 .. L /\ (k + 1) - 1 = k
      BY <1>1
    <3>2. U[k + 1] = U[k] + digits[k + 1] * P[L - (k + 1)]
      BY <1>12, <3>1
    <3>3. f[k + 1] = f[k] + digits[k + 1] * P[L - (k + 1)]
      BY <1>6, <3>1
    <3> QED BY <2>2, <3>1, <3>2, <3>3
  <2> HIDE DEF T
  <2>3. \A k \in 0 .. L : k \in T
    BY <1>1, <2>1, <2>2, IntervalInduction
  <2> QED BY <1>5, <2>3 DEF T
<1> QED BY <1>2, <1>3, <1>8, <1>13 DEF digits, base, L

\* The numbers of the file, and what is taken of them.
LEMMA TakenIs ==
  ASSUME NEW number \in Numbers
  PROVE  LET digits == number.digits
         IN  /\ digits \in Seq(Nat) /\ Len(digits) \in Nat \ {0}
             /\ number.form \in {"plain", "hex", "real"}
             /\ Head(digits) = digits[1]
             /\ Base(number) = Radix(number) /\ Radix(number) \in {8, 10, 16}
             /\ \/ Taken(number) = digits
                \/ \E k \in 1 .. Len(digits) :
                      digits[k] >= Radix(number) /\ Taken(number) = SubSeq(digits, 1, k - 1)
             /\ Proper(number) => Taken(number) = digits
<1> DEFINE digits == number.digits
           other == {k \in 1 .. Len(digits) : digits[k] >= Base(number)}
<1>1. /\ digits \in Seq(Nat) /\ digits # <<>>
      /\ number.form \in {"plain", "hex", "real"}
  BY DefinitionAssumption
<1>2. Len(digits) \in Nat \ {0} /\ Head(digits) = digits[1]
      /\ \A k \in 1 .. Len(digits) : digits[k] \in Nat
  <2> HIDE DEF digits
  <2>1. Len(digits) \in Nat /\ Len(digits) # 0
    BY <1>1, LenProperties, EmptySeq
  <2>2. Head(digits) = digits[1]
    BY <1>1
  <2>3. \A k \in 1 .. Len(digits) : digits[k] \in Nat
    BY <1>1, ElementOfSeq
  <2> QED BY <2>1, <2>2, <2>3
<1>3. Base(number) = Radix(number) /\ Radix(number) \in {8, 10, 16}
  BY <1>1, <1>2 DEF Base, Radix
<1>4. Taken(number) = IF other = {} THEN digits ELSE SubSeq(digits, 1, Min(other) - 1)
  BY Zenon DEF Taken
<1>5. other # {} => Min(other) \in other
  <2>1. other \subseteq Nat
    BY <1>2
  <2> HIDE DEF other
  <2> QED BY <2>1, MinIsLeast
<1>6. \/ Taken(number) = digits
      \/ \E k \in 1 .. Len(digits) :
            digits[k] >= Radix(number) /\ Taken(number) = SubSeq(digits, 1, k - 1)
  <2>1. CASE other = {}
    BY <1>4, <2>1
  <2>2. CASE other # {}
    <3> DEFINE k == Min(other)
    <3>1. k \in 1 .. Len(digits) /\ digits[k] >= Radix(number)
      BY <1>3, <1>5, <2>2
    <3>2. Taken(number) = SubSeq(digits, 1, k - 1)
      BY <1>4, <2>2
    <3> HIDE DEF k
    <3> QED BY <3>1, <3>2
  <2> QED BY <2>1, <2>2
<1>7. Proper(number) => Taken(number) = digits
  <2> SUFFICES ASSUME Proper(number) PROVE other = {}
    BY <1>4
  <2>1. \A k \in 1 .. Len(digits) : digits[k] < Base(number) /\ digits[k] \in Nat
    BY <1>2, <1>3 DEF Proper
  <2>2. Base(number) \in Nat
    BY <1>3
  <2> HIDE DEF digits
  <2> QED BY <2>1, <2>2
<1> HIDE DEF other
<1> QED BY <1>1, <1>2, <1>3, <1>6, <1>7

\* A number that cannot be read is none, or too much.
LEMMA UnreadableNumber ==
  ASSUME NEW number \in Numbers, ~Readable(number)
  PROVE  \/ Head(number.digits) >= Radix(number)
         \/ Magnitude(number) > MaxInt
<1> DEFINE digits == number.digits
           base == Radix(number)
<1>1. /\ digits \in Seq(Nat) /\ Len(digits) \in Nat \ {0}
      /\ number.form \in {"plain", "hex", "real"}
      /\ Head(digits) = digits[1]
      /\ Base(number) = base /\ base \in {8, 10, 16}
      /\ \/ Taken(number) = digits
         \/ \E k \in 1 .. Len(digits) :
               digits[k] >= base /\ Taken(number) = SubSeq(digits, 1, k - 1)
  BY TakenIs
<1>2. base \in Nat \ {0}
  BY <1>1
<1>3. Magnitude(number) = ValueOf(digits, base)
  BY <1>1, <1>2, MagnitudeIs
<1>4. ValueOf(digits, base) \in Nat
  <2>1. PICK v \in [0 .. Len(digits) -> Nat] : ValueOf(digits, base) = v[Len(digits)]
    BY <1>1, <1>2, ValueIs
  <2> HIDE DEF digits, base
  <2>2. Len(digits) \in 0 .. Len(digits)
    BY <1>1
  <2> QED BY <2>1, <2>2
<1>5. ValueOf(Taken(number), base) \in Nat /\ ValueOf(Taken(number), base) <= ValueOf(digits, base)
  <2>1. CASE Taken(number) = digits
    BY <1>4, <2>1
  <2>2. CASE \E k \in 1 .. Len(digits) : Taken(number) = SubSeq(digits, 1, k - 1)
    <3>1. PICK k \in 1 .. Len(digits) : Taken(number) = SubSeq(digits, 1, k - 1)
      BY <2>2
    <3>2. k - 1 \in 0 .. Len(digits)
      BY <1>1
    <3>3. ValueOf(SubSeq(digits, 1, k - 1), base) <= ValueOf(digits, base)
      BY <1>1, <1>2, <3>2, PrefixIsSmaller
    <3> DEFINE prefix == SubSeq(digits, 1, k - 1)
    <3>4. prefix \in Seq(Nat)
      <4>1. \A i \in 1 .. k - 1 : digits[i] \in Nat
        <5>1. \A i \in 1 .. k - 1 : i \in 1 .. Len(digits)
          BY <1>1
        <5>2. \A i \in 1 .. Len(digits) : digits[i] \in Nat
          BY <1>1, ElementOfSeq, Zenon
        <5> QED BY <5>1, <5>2, Zenon
      <4> QED BY <3>2, <4>1, SubSeqProperties
    <3> HIDE DEF prefix
    <3>5. PICK v \in [0 .. Len(prefix) -> Nat] : ValueOf(prefix, base) = v[Len(prefix)]
      BY <1>2, <3>4, ValueIs
    <3>6. Len(prefix) \in 0 .. Len(prefix)
      <4>1. Len(prefix) \in Nat
        BY <3>4, LenProperties
      <4> QED BY <4>1
    <3>7. ValueOf(prefix, base) \in Nat
      BY <3>5, <3>6
    <3> QED BY <3>1, <3>3, <3>7 DEF prefix
  <2> QED BY <1>1, <2>1, <2>2
<1>6. CASE Taken(number) = <<>> /\ number.form # "hex"
  <2>1. Taken(number) # digits
    <3>1. Len(<<>>) = 0
      BY EmptyIsSeq
    <3> HIDE DEF digits
    <3> QED BY <1>1, <1>6, <3>1
  <2>2. PICK k \in 1 .. Len(digits) : digits[k] >= base /\ Taken(number) = SubSeq(digits, 1, k - 1)
    BY <1>1, <2>1
  <2>3. k = 1
    <3>1. k \in Nat /\ \A i \in 1 .. k - 1 : digits[i] \in Nat
      BY <1>1, ElementOfSeq
    <3>2. Len(SubSeq(digits, 1, k - 1)) = IF 1 <= k - 1 THEN k - 1 - 1 + 1 ELSE 0
      BY <3>1, SubSeqProperties
    <3>3. Len(SubSeq(digits, 1, k - 1)) = 0
      BY <1>6, <2>2, EmptyIsSeq
    <3> HIDE DEF digits
    <3> QED BY <3>1, <3>2, <3>3
  <2> QED BY <1>1, <2>2, <2>3
<1>7. CASE ~(Taken(number) = <<>> /\ number.form # "hex")
  <2> DEFINE limit == IF number.form = "real" THEN MaxReal ELSE MaxInt
  <2>1. limit \in Nat /\ MaxInt \in Nat /\ MaxInt <= limit
    <3>1. MaxInt \in Nat /\ MaxReal \in Nat /\ MaxInt <= MaxReal
      BY DefinitionAssumption, Zenon
    <3>2. limit = MaxReal \/ limit = MaxInt
      OBVIOUS
    <3> HIDE DEF limit
    <3> QED BY <3>1, <3>2
  <2>2. ~(ValueOf(Taken(number), base) <= limit)
    <3>1. (Taken(number) # <<>> \/ number.form = "hex")
             /\ ValueOf(Taken(number), Base(number)) <= limit => Readable(number)
      BY Zenon DEF Readable
    <3> HIDE DEF limit
    <3>2. ~(ValueOf(Taken(number), Base(number)) <= limit)
      BY <1>7, <3>1, Zenon
    <3> QED BY <1>1, <3>2
  <2> HIDE DEF limit, digits, base
  <2>3. MaxInt < ValueOf(digits, base)
    BY <1>4, <1>5, <2>1, <2>2
  <2>4. ValueOf(digits, base) > MaxInt
    BY <1>4, <2>1, <2>3
  <2> QED BY <1>3, <2>4
<1> QED BY <1>6, <1>7

-----------------------------------------------------------------------------
(***************************************************************************)
(* The files that make a parser.                                           *)
(***************************************************************************)

\* How the visit ended is said by the file: GoodFile, or the number it stopped at.
AcceptInv ==
    /\ parser => GoodFile
    /\ stage = "returned" =>
          parser \/ hadErrors \/ SyntaxError \in errors.errors \/ ~GoodFile
    /\ stage = "threw" =>
          /\ ~parser
          /\ Last(Current.members).number \in Numbers
          /\ ~Readable(Last(Current.members).number)

\* A file whose types are all seen is good if all that is seen is.
LEMMA GoodFileIs ==
  ASSUME FileInv, stage = "types"
  PROVE  GoodFile <=> written # <<>> /\ \A i, j : Seen(i, j) => GoodAt(i, j)
<1>1. \A i, j : Seen(i, j) <=>
         i \in 1 .. Len(written) /\ (j = 0 \/ j \in 1 .. Len(written[i].members))
  BY DEF Seen
<1>2. \A i \in 1 .. Len(written) : \A j \in 1 .. Len(written[i].members) : j # 0
  OBVIOUS
<1> QED BY <1>1, <1>2 DEF GoodFile, GoodAt

\* The visitor comes to the end with a parser exactly if nothing is wrong.
LEMMA EndFileAccepts ==
  ASSUME FileInv, StackInv, FaultInv, EndFile
  PROVE  AcceptInv'
<1>1. /\ stage = "types" /\ stage' = "returned" /\ hadErrors' = hadErrors
      /\ written' = written /\ (parser' <=> ~errors.has_error /\ types # <<>>)
  BY DEF EndFile
<1>2. errors.errors \subseteq errors'.errors
  BY DEF EndFile, Add
<1>3. types # <<>> <=> written # <<>>
  <2>1. Len(types) = Len(written) /\ IsSeq(types) /\ IsSeq(written)
    BY <1>1 DEF StackInv, InType, FileInv
  <2> QED BY <2>1, LengthOfSeq
<1>4. GoodFile' <=> GoodFile
  BY <1>1 DEF GoodFile, GoodTypeName, GoodMember, DeclaredBefore
<1>5. /\ \A e \in errors.errors : e.level = "Error" => Placed(e)
      /\ errors.has_error <=> \E e \in errors.errors : e.level = "Error"
      /\ ~hadErrors => \A e \in errors.errors : e.level = "Error" => e.place # <<>>
      /\ \A i, j : Seen(i, j) => (ErrorsAt(i, j) = {} <=> GoodAt(i, j))
  BY <1>1 DEF FaultInv, Reported
<1>6. ASSUME parser' PROVE GoodFile
  <2>1. \A e \in errors.errors : e.level # "Error"
    BY <1>1, <1>5, <1>6
  <2>2. \A i, j : ErrorsAt(i, j) = {}
    BY <2>1 DEF ErrorsAt
  <2> QED BY <1>1, <1>3, <1>5, <1>6, <2>2, GoodFileIs
<1>7. ASSUME ~parser', ~hadErrors, SyntaxError \notin errors.errors, GoodFile
      PROVE  FALSE
  <2>1. types # <<>> /\ \A i, j : Seen(i, j) => GoodAt(i, j)
    BY <1>1, <1>3, <1>7, GoodFileIs
  <2>2. PICK e \in errors.errors : e.level = "Error" /\ Placed(e) /\ e.place # <<>>
    BY <1>1, <1>5, <1>7, <2>1
  <2>3. PICK i, j : Seen(i, j) /\ At(e, i, j)
    BY <1>7, <2>2 DEF Placed
  <2>4. e \in ErrorsAt(i, j)
    BY <2>3, ErrorsAtAre
  <2> QED BY <1>5, <2>1, <2>3, <2>4
<1>8. parser' \/ hadErrors' \/ SyntaxError \in errors'.errors \/ ~GoodFile'
  BY <1>1, <1>2, <1>4, <1>7
<1> QED BY <1>1, <1>4, <1>6, <1>8 DEF AcceptInv

\* An exception leaves no parser behind, and the number that it is about.
LEMMA ThrowNumberAccepts ==
  ASSUME FileInv, StackInv, RootInv, NEW use, NEW m, NEW name,
         m \in [options : OptionLists, number : Numbers \cup {NoNumber}],
         ThrowNumber(use, m, name)
  PROVE  AcceptInv'
<1>1. /\ stage = "members" /\ stage' = "threw" /\ ~Readable(m.number) /\ ~parser
      /\ parser' = parser /\ Write(use, m, name)
      /\ Len(written) = Len(types) + 1 /\ Len(types) \in Nat
  BY LengthOfSeq DEF ThrowNumber, RootInv, StackInv, InType
<1>2. m.number \in Numbers
  <2>1. Readable(NoNumber)
    BY DEF Readable, NoNumber
  <2> QED BY <1>1, <2>1
<1>3. written # <<>>
  BY <1>1, LengthOfSeq DEF FileInv
<1> DEFINE member == [type |-> use, options |-> m.options, name |-> name,
                      number |-> m.number]
<1>4. /\ Len(written') = Len(written)
      /\ Len(written'[Len(written)].members) = Len(written[Len(written)].members) + 1
      /\ written'[Len(written)].members[Len(written[Len(written)].members) + 1] = member
  BY <1>1, <1>3, MemberWritten
<1>5. (Last(Current.members))' = member
  BY <1>4 DEF Last, Current
<1>6. (Last(Current.members).number)' = m.number
  BY <1>5
<1> QED BY <1>1, <1>2, <1>6 DEF AcceptInv

\* There is no parser at first.
LEMMA InitAccepts == ParserInit => AcceptInv
BY DEF ParserInit, AcceptInv

\* The invariant of what is accepted is inductive.
LEMMA NextKeepsAccept ==
  ASSUME FileInv, StackInv, RootInv, FaultInv, AcceptInv, [ParserNext]_parserVars
  PROVE  AcceptInv'
<1>1. ASSUME stage' \in {"types", "members"}, ~parser' PROVE AcceptInv'
  BY <1>1 DEF AcceptInv
<1>2. CASE \/ \E name \in TypeNames : BeginType(name)
           \/ \E m \in Fitting : \E use \in TypeUses, name \in MemberNames :
                 VisitMember(use, m, name)
           \/ EndType
  <2>1. stage \in {"types", "members"} /\ stage' \in {"types", "members"} /\ parser' = parser
    BY <1>2 DEF BeginType, VisitMember, EndType
  <2>2. ~parser
    BY <2>1 DEF RootInv
  <2> QED BY <1>1, <2>1, <2>2
<1>3. CASE \E m \in Fitting : \E use \in TypeUses, name \in MemberNames :
              ThrowNumber(use, m, name)
  <2>1. Fitting \subseteq [options : OptionLists, number : Numbers \cup {NoNumber}]
    BY Zenon DEF Fitting
  <2> QED BY <1>3, <2>1, ThrowNumberAccepts
<1>4. CASE EndFile
  BY <1>4, EndFileAccepts
<1>5. ASSUME written' = written PROVE GoodFile' <=> GoodFile
  BY <1>5 DEF GoodFile, GoodTypeName, GoodMember, DeclaredBefore
<1>6. CASE \E type \in {""} \cup TypeNames : ParseFile(type)
  <2>1. PICK type : ParseFile(type)
    BY <1>6
  <2>2. /\ parser /\ parser' = parser /\ stage' = stage /\ written' = written
    BY <2>1 DEF ParseFile
  <2>3. stage = "returned"
    BY <2>2 DEF RootInv
  <2> QED BY <1>5, <2>2, <2>3 DEF AcceptInv
<1>7. CASE UNCHANGED parserVars
  BY <1>5, <1>7 DEF AcceptInv, parserVars, Current
<1> QED BY <1>2, <1>3, <1>4, <1>6, <1>7 DEF ParserNext

\* A parser always stands for a good file.
LEMMA AcceptHolds == ParserSpec => []AcceptInv
<1>1. AcceptInv /\ FileInv /\ StackInv /\ RootInv /\ FaultInv /\ [ParserNext]_parserVars
         => AcceptInv'
  BY NextKeepsAccept
<1> QED BY <1>1, InitAccepts, StackHolds, RootHolds, FaultsHold, PTL DEF ParserSpec

\* A parser comes out of the good files, and an exception only of a number
\* that is none or too much.
THEOREM AcceptanceCorrect == ParserSpec => []AcceptsGoodFiles
<1>1. AcceptInv => AcceptsGoodFiles
  <2> SUFFICES ASSUME AcceptInv PROVE AcceptsGoodFiles
    OBVIOUS
  <2> DEFINE number == Last(Current.members).number
  <2>1. stage = "threw" => /\ ~parser
                           /\ Head(number.digits) >= Radix(number) \/ Magnitude(number) > MaxInt
    BY UnreadableNumber DEF AcceptInv
  <2> HIDE DEF number
  <2> QED BY <2>1 DEF AcceptInv, AcceptsGoodFiles, number
<1> QED BY <1>1, AcceptHolds, PTL

-----------------------------------------------------------------------------
(***************************************************************************)
(* The fields of good files.                                               *)
(***************************************************************************)

\* No option of a good list sets what another one sets.
LEMMA GoodListHasNoSecond ==
  ASSUME NEW list, IsSeq(list), GoodOptions(list), NEW k \in 1 .. Len(list)
  PROVE  ~SetBefore(list, k)
<1> SUFFICES ASSUME SetBefore(list, k) PROVE FALSE
  OBVIOUS
<1>1. PICK l \in 1 .. k - 1 : /\ Visited(list, k).type # "Unknown"
                              /\ Visited(list, l).type = Visited(list, k).type
  BY DEF SetBefore
<1>2. l \in 1 .. Len(list) /\ l # k
  <2>1. Len(list) \in Nat
    BY LengthOfSeq
  <2> QED BY <2>1
<1>3. /\ GetOptionType(list[k].name) = GetOptionType(list[l].name)
      /\ GetOptionType(list[k].name) # "Unknown"
  BY <1>1 DEF Visited
<1>4. list[k].name # "" /\ list[l].name # ""
  BY <1>3, NamedTypes
<1> QED BY <1>2, <1>3, <1>4 DEF GoodOptions

\* Of a good list, the visitor has all options.
LEMMA GoodListIsVisited ==
  ASSUME NEW list, IsSeq(list), GoodOptions(list)
  PROVE  /\ Len(OptionsOf(list)) = Len(list)
         /\ \A k \in 1 .. Len(list) : OptionsOf(list)[k] = Visited(list, k)
<1>1. PICK u : Adds(list, u) /\ OptionsOf(list) = u[Len(list)]
  BY OptionsAreAdded
<1> DEFINE L == Len(list)
           All(n, s) == /\ IsSeq(s) /\ Len(s) = n
                        /\ \A k \in 1 .. n : s[k] = Visited(list, k)
           T == {n \in 0 .. L : All(n, u[n])}
<1>2. L \in Nat
  BY LengthOfSeq
<1>3. 0 \in T
  <2>1. u[0] = <<>>
    BY <1>1, <1>2 DEF Adds
  <2> QED BY <1>2, <2>1, EmptyIsSeq
<1>4. ASSUME NEW n \in 0 .. L - 1, n \in T PROVE n + 1 \in T
  <2>1. /\ n \in Nat /\ n + 1 \in 0 .. L /\ n + 1 \in 1 .. L /\ n + 1 # 0 /\ (n + 1) - 1 = n
        /\ \A k \in 1 .. n + 1 : k \in 1 .. n \/ k = n + 1
        /\ \A k \in 1 .. n : k \in 1 .. L /\ k \in 1 .. (n + 1) - 1
    BY <1>2
  <2>2. u[n + 1] = AddStatic(u[n], Visited(list, n + 1))
    BY <1>1, <2>1 DEF Adds
  <2>3. All(n, u[n])
    BY <1>4
  <2>4. ~IsDuplicate(u[n], Visited(list, n + 1))
    <3>1. ~SetBefore(list, n + 1)
      BY <2>1, GoodListHasNoSecond
    <3> QED BY <2>1, <2>3, <3>1 DEF IsDuplicate, SetBefore
  <2>5. u[n + 1] = Append(u[n], Visited(list, n + 1))
    BY <2>2, <2>4 DEF AddStatic
  <2>6. All(n + 1, u[n + 1])
    <3> DEFINE s == u[n]
               e == Visited(list, n + 1)
    <3>1. /\ IsSeq(Append(s, e)) /\ Len(Append(s, e)) = n + 1
          /\ \A i \in 1 .. n : Append(s, e)[i] = s[i]
          /\ Append(s, e)[n + 1] = e
      BY <2>3, AppendIsSeq
    <3> HIDE DEF s
    <3> QED BY <2>1, <2>3, <2>5, <3>1 DEF s
  <2> HIDE DEF All
  <2> QED BY <2>1, <2>6
<1>5. L \in T
  <2> HIDE DEF T
  <2>1. \A n \in 0 .. L : n \in T
    BY <1>2, <1>3, <1>4, IntervalInduction
  <2> QED BY <1>2, <2>1
<1> QED BY <1>1, <1>5

\* An option of a good list sets the one option type that it means.
LEMMA GoodOptionSets ==
  ASSUME NEW list, GoodOptions(list), NEW k \in 1 .. Len(list), NEW options
  PROVE  \E t \in OptionTypes :
            /\ Means(list[k], t)
            /\ \A u \in OptionTypes : Means(list[k], u) => u = t
            /\ AddOption(options, Visited(list, k), OptionTypes) =
                  SetOption(options, t, OptionData[t][list[k].value])
<1> DEFINE opt == Visited(list, k)
           found == Found(opt, OptionTypes)
<1>1. PICK t \in OptionTypes : Means(list[k], t)
  BY DEF GoodOptions
<1>2. \A u \in OptionTypes : Means(list[k], u) => u = t
  <2>1. \A u \in OptionTypes : Means(list[k], u) => list[k].value \in DOMAIN OptionData[u]
    BY DEF Means
  <2> QED BY <1>1, <2>1, ValuesOfOneType
<1>3. Takes(OptionTypes)
  BY DEF Takes
<1>4. found = {u \in OptionTypes : Means(list[k], u)}
  BY <1>1, <1>3, MeaningIsFound
<1>5. found = {t}
  <2> HIDE DEF found
  <2> QED BY <1>1, <1>2, <1>4
<1>6. OptionFlaws(opt, OptionTypes) = {}
  BY <1>3, <1>5, FlawsOfOption
<1>7. (CHOOSE u \in found : TRUE) = t
  <2> HIDE DEF found
  <2> QED BY <1>5
<1>8. opt.value = list[k].value
  BY DEF Visited
<1>9. AddOption(options, opt, OptionTypes) = SetOption(options, t, OptionData[t][list[k].value])
  BY <1>6, <1>7, <1>8 DEF AddOption
<1> QED BY <1>1, <1>2, <1>9

\* x is the setting of t after the first n options of list.
SettingOf(list, n, t, x) ==
    \/ x = "Unset" /\ \A k \in 1 .. n : ~Means(list[k], t)
    \/ \E k \in 1 .. n :
          /\ Means(list[k], t) /\ x = OptionData[t][list[k].value]
          /\ \A l \in 1 .. n : Means(list[l], t) => l <= k

\* AddOption sets what the option means, and leaves the rest.
LEMMA AddOptionSets ==
  ASSUME NEW list, GoodOptions(list), NEW n \in Nat, n + 1 \in 1 .. Len(list),
         NEW options, DOMAIN options = OptionTypes,
         \A t \in OptionTypes : SettingOf(list, n, t, options[t])
  PROVE  LET more == AddOption(options, Visited(list, n + 1), OptionTypes)
         IN  /\ DOMAIN more = OptionTypes
             /\ \A t \in OptionTypes : SettingOf(list, n + 1, t, more[t])
<1> DEFINE more == AddOption(options, Visited(list, n + 1), OptionTypes)
<1>1. PICK t \in OptionTypes :
         /\ Means(list[n + 1], t)
         /\ \A u \in OptionTypes : Means(list[n + 1], u) => u = t
         /\ more = SetOption(options, t, OptionData[t][list[n + 1].value])
  BY GoodOptionSets
<1> HIDE DEF more
<1>2. /\ DOMAIN more = OptionTypes /\ more[t] = OptionData[t][list[n + 1].value]
      /\ \A u \in OptionTypes : u # t => more[u] = options[u]
  BY <1>1 DEF SetOption
<1>3. /\ n + 1 \in 1 .. n + 1
      /\ \A l \in 1 .. n + 1 : l <= n + 1 /\ (l \in 1 .. n \/ l = n + 1)
      /\ \A l \in 1 .. n : l \in 1 .. n + 1
  OBVIOUS
<1>4. SettingOf(list, n + 1, t, more[t])
  BY <1>1, <1>2, <1>3 DEF SettingOf
<1>5. ASSUME NEW u \in OptionTypes, u # t PROVE SettingOf(list, n + 1, u, more[u])
  <2>1. ~Means(list[n + 1], u)
    BY <1>1, <1>5
  <2>2. SettingOf(list, n, u, more[u])
    BY <1>2, <1>5
  <2> QED BY <1>3, <2>1, <2>2 DEF SettingOf
<1> QED BY <1>2, <1>4, <1>5 DEF more

\* b has what BuildStaticOptions has of set after each of its options.
Builds(set, valid, b) ==
    b = [n \in 0 .. Len(set) |->
            IF n = 0 THEN Unset ELSE AddOption(b[n - 1], set[n], valid)]

\* BuildStaticOptions is the last of its steps.
LEMMA BuiltBySteps ==
  ASSUME NEW set, NEW valid
  PROVE  BuildStaticOptions(set, valid) = (CHOOSE b : Builds(set, valid, b))[Len(set)]
BY Zenon DEF BuildStaticOptions, Builds

\* BuildStaticOptions is what AddOption makes of one option after the other.
LEMMA OptionsAreBuilt ==
  ASSUME NEW list, IsSeq(list), GoodOptions(list), NEW set,
         Len(set) = Len(list), \A k \in 1 .. Len(list) : set[k] = Visited(list, k)
  PROVE  \E b : Builds(set, OptionTypes, b)
                /\ BuildStaticOptions(set, OptionTypes) = b[Len(list)]
<1> DEFINE L == Len(list)
           V == {"Unset"} \cup {OptionData[t][list[k].value] : t \in OptionTypes, k \in 1 .. L}
           S == [OptionTypes -> V]
           step == [p \in S \X (1 .. L) |-> AddOption(p[1], set[p[2]], OptionTypes)]
<1>1. L \in Nat
  BY LengthOfSeq
<1>2. Unset \in S
  BY DEF Unset
<1>3. ASSUME NEW s \in S, NEW n \in 1 .. L PROVE AddOption(s, set[n], OptionTypes) \in S
  <2>1. PICK t \in OptionTypes :
           AddOption(s, Visited(list, n), OptionTypes) =
              SetOption(s, t, OptionData[t][list[n].value])
    BY GoodOptionSets
  <2>2. OptionData[t][list[n].value] \in V
    OBVIOUS
  <2> HIDE DEF V
  <2> QED BY <2>1, <2>2 DEF SetOption
<1>4. /\ step \in [S \X (1 .. L) -> S]
      /\ \A s \in S, n \in 1 .. L : step[<<s, n>>] = AddOption(s, set[n], OptionTypes)
  <2> HIDE DEF S
  <2> QED BY <1>3
<1> HIDE DEF step
<1>5. PICK f \in [0 .. L -> S] : Recursion(f, Unset, step, L)
  <2> HIDE DEF S, L
  <2> QED BY <1>1, <1>2, <1>4, RecursionExists, Zenon
<1>6. ASSUME NEW n \in 0 .. L
      PROVE  f[n] = IF n = 0 THEN Unset ELSE AddOption(f[n - 1], set[n], OptionTypes)
  <2> HIDE DEF S
  <2>1. CASE n = 0
    BY <1>5, <2>1 DEF Recursion
  <2>2. CASE n # 0
    <3>1. n \in 1 .. L /\ n - 1 \in 0 .. L
      BY <1>1, <2>2
    <3>2. f[n] = step[<<f[n - 1], n>>]
      BY <1>5, <3>1 DEF Recursion
    <3>3. f[n - 1] \in S
      BY <1>5, <3>1
    <3> QED BY <1>4, <2>2, <3>1, <3>2, <3>3
  <2> QED BY <2>1, <2>2
<1>7. Builds(set, OptionTypes, f)
  <2> HIDE DEF S
  <2>1. f = [n \in 0 .. L |-> IF n = 0 THEN Unset ELSE AddOption(f[n - 1], set[n], OptionTypes)]
    BY <1>5, <1>6
  <2> HIDE DEF L
  <2> QED BY <2>1 DEF Builds, L
<1>8. \E b : Builds(set, OptionTypes, b)
  BY <1>7
<1>9. PICK b : Builds(set, OptionTypes, b) /\ b = CHOOSE c : Builds(set, OptionTypes, c)
  <2> HIDE DEF S, L, V
  <2> QED BY <1>8
<1>10. BuildStaticOptions(set, OptionTypes) = b[Len(set)]
  BY <1>9, BuiltBySteps
<1>11. BuildStaticOptions(set, OptionTypes) = b[L]
  BY <1>10
<1> HIDE DEF S, L, V
<1> QED BY <1>9, <1>11 DEF L

\* A good list sets what its options mean, the last of them for each type.
LEMMA GoodListSets ==
  ASSUME NEW list, IsSeq(list), GoodOptions(list), NEW t \in OptionTypes
  PROVE  SettingOf(list, Len(list), t,
                   BuildStaticOptions(OptionsOf(list), OptionTypes)[t])
<1> DEFINE L == Len(list)
           set == OptionsOf(list)
<1>1. Len(set) = L /\ \A k \in 1 .. L : set[k] = Visited(list, k)
  BY GoodListIsVisited
<1>2. L \in Nat
  BY LengthOfSeq
<1> HIDE DEF set
<1>3. PICK b : Builds(set, OptionTypes, b)
               /\ BuildStaticOptions(set, OptionTypes) = b[L]
  BY <1>1, OptionsAreBuilt
<1> DEFINE Set(n, o) == /\ DOMAIN o = OptionTypes
                        /\ \A u \in OptionTypes : SettingOf(list, n, u, o[u])
           T == {n \in 0 .. L : Set(n, b[n])}
<1>4. 0 \in T
  <2>1. b[0] = Unset
    BY <1>1, <1>2, <1>3 DEF Builds
  <2>2. Set(0, Unset)
    BY DEF Unset, SettingOf
  <2> QED BY <1>2, <2>1, <2>2
<1>5. ASSUME NEW n \in 0 .. L - 1, n \in T PROVE n + 1 \in T
  <2>1. n \in Nat /\ n + 1 \in 0 .. L /\ n + 1 \in 1 .. L /\ n + 1 # 0 /\ (n + 1) - 1 = n
    BY <1>2
  <2>2. b[n + 1] = AddOption(b[n], Visited(list, n + 1), OptionTypes)
    BY <1>1, <1>3, <2>1 DEF Builds
  <2>3. Set(n, b[n])
    BY <1>5
  <2>4. Set(n + 1, b[n + 1])
    BY <2>1, <2>2, <2>3, AddOptionSets
  <2> HIDE DEF Set
  <2> QED BY <2>1, <2>4
<1>6. L \in T
  <2> HIDE DEF T
  <2>1. \A n \in 0 .. L : n \in T
    BY <1>2, <1>4, <1>5, IntervalInduction
  <2> QED BY <1>2, <2>1
<1> QED BY <1>3, <1>6 DEF set

\* LastOption is the setting, or else the type's own.
LEMMA LastOptionIs ==
  ASSUME NEW list, IsSeq(list), NEW t \in OptionTypes, NEW x, NEW own,
         SettingOf(list, Len(list), t, x)
  PROVE  LastOption(list, t, own) = IF x = "Unset" THEN own ELSE x
<1> DEFINE I == {k \in 1 .. Len(list) : Means(list[k], t)}
<1>0. \A s \in OptionTypes : \A v \in DOMAIN OptionData[s] : OptionData[s][v] # "Unset"
  BY DEF OptionTypes, OptionData
<1>1. CASE I = {}
  <2>1. x = "Unset"
    BY <1>1 DEF SettingOf
  <2> QED BY <1>1, <2>1 DEF LastOption
<1>2. CASE I # {}
  <2>1. PICK k \in 1 .. Len(list) :
           /\ Means(list[k], t) /\ x = OptionData[t][list[k].value]
           /\ \A l \in 1 .. Len(list) : Means(list[l], t) => l <= k
    BY <1>2 DEF SettingOf
  <2>2. x # "Unset"
    BY <1>0, <2>1 DEF Means
  <2>3. I \subseteq Nat /\ k \in I /\ \A l \in I : l <= k
    <3>1. Len(list) \in Nat
      BY LengthOfSeq
    <3> QED BY <2>1, <3>1
  <2>4. Max(I) = k
    <3> HIDE DEF I
    <3>1. \A m \in I : (\A l \in I : m >= l) <=> m = k
      BY <2>3
    <3> QED BY <2>3, <3>1 DEF Max
  <2>5. SelectLastInSeq(list, LAMBDA o : Means(o, t)) = k
    BY <1>2, <2>4 DEF SelectLastInSeq
  <2>6. LastOption(list, t, own) = OptionData[t][list[k].value]
    BY <1>2, <2>5 DEF LastOption
  <2> QED BY <2>1, <2>2, <2>6
<1> QED BY <1>1, <1>2

\* An integer type has the sign and the order that the options of its use say.
LEMMA ResolvedAsWritten ==
  ASSUME NEW list, IsSeq(list), GoodOptions(list), NEW name
  PROVE  Resolved(name, list) =
           IntegerType(name, LastOption(list, "Signedness", BuiltIns[name].sign),
                             LastOption(list, "ByteOrder", "Unset"))
<1> DEFINE options == BuildStaticOptions(OptionsOf(list), OptionTypes)
           sign == BuiltIns[name].sign
<1>1. "Signedness" \in OptionTypes /\ "ByteOrder" \in OptionTypes
  BY DEF OptionTypes
<1>2. \A t \in OptionTypes : \A own : GetOption(options, t, own) = LastOption(list, t, own)
  <2> SUFFICES ASSUME NEW t \in OptionTypes, NEW own
               PROVE  GetOption(options, t, own) = LastOption(list, t, own)
    OBVIOUS
  <2>1. SettingOf(list, Len(list), t, options[t])
    BY GoodListSets
  <2> HIDE DEF options
  <2>2. LastOption(list, t, own) = IF options[t] = "Unset" THEN own ELSE options[t]
    BY <2>1, LastOptionIs
  <2> QED BY <2>2, Zenon DEF GetOption
<1> HIDE DEF options, sign
<1>3. Resolved(name, list) =
         IntegerType(name, GetOption(options, "Signedness", sign),
                     GetOption(options, "ByteOrder", "Unset"))
  BY Zenon DEF Resolved, options, sign
<1> QED BY <1>1, <1>2, <1>3 DEF sign

\* The value that is expected of a field is that of the number.
LEMMA LiteralIs ==
  /\ Literal(NoNumber) = NoExpected
  /\ \A number \in Numbers : Proper(number) => Literal(number).value = Magnitude(number)
<1>1. Literal(NoNumber) = NoExpected
  BY DEF Literal, NoNumber
<1>2. ASSUME NEW number \in Numbers, Proper(number)
      PROVE  Literal(number).value = Magnitude(number)
  <2>1. /\ number.digits \in Seq(Nat) /\ number.form \in {"plain", "hex", "real"}
        /\ Base(number) = Radix(number) /\ Radix(number) \in {8, 10, 16}
        /\ Taken(number) = number.digits
    BY <1>2, TakenIs
  <2>2. number.form # "none"
    BY <2>1
  <2>3. Literal(number).value = ValueOf(Taken(number), Base(number))
    BY <2>2 DEF Literal
  <2>4. Radix(number) \in Nat
    BY <2>1
  <2>5. Magnitude(number) = ValueOf(number.digits, Radix(number))
    BY <2>1, <2>4, MagnitudeIs
  <2> QED BY <2>1, <2>3, <2>5
<1> QED BY <1>1, <1>2

\* A member as it is written has the options of a list, which are a sequence.
LEMMA OptionsAreSeq ==
  ASSUME NEW list \in OptionLists
  PROVE  IsSeq(list)
<1>1. PICK S : list \in Seq(S)
  BY DefinitionAssumption
<1>2. list \in [1 .. Len(list) -> {list[k] : k \in 1 .. Len(list)}] /\ Len(list) \in Nat
  BY <1>1, LenProperties
<1> QED BY <1>2 DEF IsSeq

\* The types and members of a parser.
LEMMA ParserIs ==
  ASSUME FileInv, StackInv, RootInv, AcceptInv, parser
  PROVE  /\ GoodFile /\ Len(written) = Len(types)
         /\ \A i \in 1 .. Len(written) :
               /\ types[i] = Definition(written[i].name, types[i].fields)
               /\ Len(types[i].fields) = Len(written[i].members)
               /\ IsSeq(types[i].fields)
         /\ \A i \in 1 .. Len(written) : \A j \in 1 .. Len(written[i].members) :
               /\ WrittenMember(written[i].members[j])
               /\ FieldOf(written, types, i, written[i].members[j], types[i].fields[j])
<1>1. GoodFile /\ stage = "returned"
  BY DEF RootInv, AcceptInv
<1>2. Len(written) = Len(types)
  BY <1>1 DEF StackInv, InType
<1>3. \A i \in 1 .. Len(written) :
         /\ types[i] = Definition(written[i].name, types[i].fields)
         /\ Entered(written, types, i, types[i].fields)
  BY <1>2 DEF StackInv
<1>4. \A i \in 1 .. Len(written) : \A j \in 1 .. Len(written[i].members) :
         WrittenMember(written[i].members[j])
  BY DEF FileInv, WrittenType
<1> QED BY <1>1, <1>2, <1>3, <1>4 DEF Entered

\* The type of a field of a good file: an integer that is resolved, or the one
\* type that the file declares before.
TypedAs(i, m, f) ==
    \/ m.type \in DOMAIN BuiltIns /\ f.type = Resolved(m.type, m.options)
    \/ /\ m.type \notin DOMAIN BuiltIns
       /\ \E k \in 1 .. i - 1 : FirstNamed(written, k, m.type) /\ f.type = types[k]

LEMMA GoodFieldIs ==
  ASSUME FileInv, GoodFile, NEW i \in 1 .. Len(written),
         NEW j \in 1 .. Len(written[i].members), NEW f,
         FieldOf(written, types, i, written[i].members[j], f)
  PROVE  TypedAs(i, written[i].members[j], f)
<1>0. PICK m : m = written[i].members[j]
  OBVIOUS
<1>1. m.type \in DOMAIN BuiltIns \/ DeclaredBefore(i, m.type)
  BY <1>0 DEF GoodFile, GoodMember
<1>2. CASE \E k \in 1 .. i - 1 : FirstNamed(written, k, m.type) /\ f.type = types[k]
  <2>1. PICK k \in 1 .. i - 1 : FirstNamed(written, k, m.type) /\ f.type = types[k]
    BY <1>2
  <2>2. k \in 1 .. Len(written)
    <3>1. Len(written) \in Nat
      BY LengthOfSeq DEF FileInv
    <3> QED BY <3>1
  <2>3. m.type \notin DOMAIN BuiltIns
    BY <2>1, <2>2 DEF GoodFile, GoodTypeName, FirstNamed
  <2> QED BY <1>0, <2>1, <2>3, Zenon DEF TypedAs
<1>3. CASE /\ \A k \in 1 .. i - 1 : written[k].name # m.type
           /\ f.type = IF m.type \in DOMAIN BuiltIns
                       THEN Resolved(m.type, m.options) ELSE NoType
  <2>1. m.type \in DOMAIN BuiltIns
    BY <1>1, <1>3 DEF DeclaredBefore
  <2> QED BY <1>0, <1>3, <2>1, Zenon DEF TypedAs
<1> QED BY <1>0, <1>2, <1>3, Zenon DEF FieldOf

\* Field f is what member m of type i says.
FieldShows(i, m, f) ==
    /\ f.name = m.name
    /\ IF m.number = NoNumber THEN f.expected = NoExpected
       ELSE Proper(m.number) => f.expected.value = Magnitude(m.number)
    /\ IF m.type \in DOMAIN BuiltIns
       THEN f.type = IntegerType(m.type,
                LastOption(m.options, "Signedness", BuiltIns[m.type].sign),
                LastOption(m.options, "ByteOrder", "Unset"))
       ELSE \E k \in 1 .. i - 1 : written[k].name = m.type /\ f.type = types[k]

\* The fields of a parser's types are those of the file: their names, their
\* types with the sign and order that is written, and the values expected.
THEOREM FieldsCorrect == ParserSpec => []FieldsAsWritten
<1>1. FileInv /\ StackInv /\ RootInv /\ AcceptInv => FieldsAsWritten
  <2> SUFFICES ASSUME FileInv, StackInv, RootInv, AcceptInv, parser,
                      NEW i \in 1 .. Len(written), NEW j \in 1 .. Len(written[i].members)
               PROVE  FieldShows(i, written[i].members[j], types[i].fields[j])
    BY Zenon DEF FieldsAsWritten, FieldShows
  <2>0. PICK m, f : m = written[i].members[j] /\ f = types[i].fields[j]
    OBVIOUS
  <2>1. GoodFile /\ WrittenMember(m) /\ FieldOf(written, types, i, m, f)
    BY <2>0, ParserIs
  <2>2. f.name = m.name /\ f.expected = Literal(m.number)
    BY <2>1 DEF FieldOf
  <2>3. IF m.number = NoNumber THEN f.expected = NoExpected
        ELSE Proper(m.number) => f.expected.value = Magnitude(m.number)
    BY <2>1, <2>2, LiteralIs DEF WrittenMember
  <2>4. GoodOptions(m.options) /\ IsSeq(m.options)
    <3>1. IsSeq(m.options)
      BY <2>1, OptionsAreSeq DEF WrittenMember
    <3> QED BY <2>0, <2>1, <3>1 DEF GoodFile, GoodMember
  <2>5. \/ m.type \in DOMAIN BuiltIns /\ f.type = Resolved(m.type, m.options)
        \/ /\ m.type \notin DOMAIN BuiltIns
           /\ \E k \in 1 .. i - 1 : FirstNamed(written, k, m.type) /\ f.type = types[k]
    <3>1. TypedAs(i, written[i].members[j], f)
      BY <2>0, <2>1, GoodFieldIs, Zenon
    <3> QED BY <2>0, <3>1, Zenon DEF TypedAs
  <2>6. Resolved(m.type, m.options) =
           IntegerType(m.type, LastOption(m.options, "Signedness", BuiltIns[m.type].sign),
                       LastOption(m.options, "ByteOrder", "Unset"))
    BY <2>4, ResolvedAsWritten
  <2>7. IF m.type \in DOMAIN BuiltIns
        THEN f.type = IntegerType(m.type,
                 LastOption(m.options, "Signedness", BuiltIns[m.type].sign),
                 LastOption(m.options, "ByteOrder", "Unset"))
        ELSE \E k \in 1 .. i - 1 : written[k].name = m.type /\ f.type = types[k]
    BY <2>5, <2>6 DEF FirstNamed
  <2> QED BY <2>0, <2>2, <2>3, <2>7 DEF FieldShows
<1> QED BY <1>1, StackHolds, RootHolds, AcceptHolds, PTL

-----------------------------------------------------------------------------
(***************************************************************************)
(* The sizes of good files.                                                *)
(***************************************************************************)

\* u has the sums of the sizes of fields up to each of them.
SizeSums(u, fields) ==
    u = [n \in 0 .. Len(fields) |->
            IF n = 0 THEN 0 ELSE (u[n - 1] + fields[n].type.size) % 2 ^ SizeBits]

\* Where all sizes are known, they are added up.
LEMMA SizeIsSum ==
  ASSUME NEW fields, Len(fields) \in Nat,
         \A n \in 1 .. Len(fields) : fields[n].type # NoType /\ fields[n].type.size \in Nat
  PROVE  CalculateSize(fields) = (CHOOSE u : SizeSums(u, fields))[Len(fields)]
<1>1. NoSize \notin Nat
  BY DEF NoSize
<1>2. ~ \E i \in 1 .. Len(fields) : fields[i].type = NoType \/ fields[i].type.size = NoSize
  BY <1>1
<1> QED BY <1>2, Zenon DEF CalculateSize, SizeSums

\* The static size of a type, where those of its fields are known.
LEMMA SizeIs ==
  ASSUME NEW fields, Len(fields) \in Nat,
         \A n \in 1 .. Len(fields) : fields[n].type # NoType /\ fields[n].type.size \in Nat,
         NEW M, M = 2 ^ SizeBits
  PROVE  \E u \in [0 .. Len(fields) -> Nat] :
            /\ u[0] = 0
            /\ \A n \in 1 .. Len(fields) : u[n] = (u[n - 1] + fields[n].type.size) % M
            /\ CalculateSize(fields) = u[Len(fields)]
<1> DEFINE L == Len(fields)
           step == [p \in Nat \X (1 .. L) |-> (p[1] + fields[p[2]].type.size) % M]
<1>0. M \in Nat \ {0}
  BY DefinitionAssumption, Zenon
<1>1. /\ step \in [Nat \X (1 .. L) -> Nat]
      /\ \A x \in Nat, n \in 1 .. L : step[<<x, n>>] = (x + fields[n].type.size) % M
  <2>1. \A x \in Nat, y \in Nat : (x + y) % M \in Nat
    BY <1>0
  <2>2. \A x \in Nat, n \in 1 .. L : (x + fields[n].type.size) % M \in Nat
    BY <2>1
  <2> QED BY <2>2
<1> HIDE DEF step
<1>2. PICK f \in [0 .. L -> Nat] : Recursion(f, 0, step, L)
  <2>1. 0 \in Nat /\ L \in Nat
    OBVIOUS
  <2> HIDE DEF L
  <2> QED BY <1>1, <2>1, RecursionExists, Zenon
<1>3. \A n \in 1 .. L : n \in 0 .. L /\ n - 1 \in 0 .. L /\ n # 0
  OBVIOUS
<1>4. /\ f[0] = 0
      /\ \A n \in 1 .. L : f[n] = (f[n - 1] + fields[n].type.size) % M
  <2>1. \A n \in 1 .. L : f[n - 1] \in Nat
    BY <1>2, <1>3
  <2> QED BY <1>1, <1>2, <2>1 DEF Recursion
<1>5. \A n \in 0 .. L : f[n] = IF n = 0 THEN 0 ELSE (f[n - 1] + fields[n].type.size) % M
  <2>1. \A n \in 0 .. L : n # 0 => n \in 1 .. L
    OBVIOUS
  <2> QED BY <1>4, <2>1
<1>6. SizeSums(f, fields)
  <2>1. f = [n \in 0 .. L |-> IF n = 0 THEN 0 ELSE (f[n - 1] + fields[n].type.size) % M]
    <3>1. f = [n \in 0 .. L |-> f[n]]
      BY <1>2
    <3> QED BY <1>5, <3>1
  <2> QED BY <2>1, Zenon DEF SizeSums
<1>7. PICK u : SizeSums(u, fields) /\ u = CHOOSE v : SizeSums(v, fields)
  <2>1. \E v : SizeSums(v, fields)
    BY <1>6
  <2> HIDE DEF L
  <2> QED BY <2>1
<1>8. CalculateSize(fields) = u[L]
  BY <1>7, SizeIsSum
<1>9. \A n \in 0 .. L : u[n] = IF n = 0 THEN 0 ELSE (u[n - 1] + fields[n].type.size) % M
  <2>1. u = [n \in 0 .. L |-> IF n = 0 THEN 0 ELSE (u[n - 1] + fields[n].type.size) % M]
    BY <1>7, Zenon DEF SizeSums
  <2> QED BY <2>1, Zenon
<1>10. u = f
  <2> DEFINE T == {n \in 0 .. L : u[n] = f[n]}
  <2>0. L \in Nat /\ 0 \in 0 .. L
    OBVIOUS
  <2>1. 0 \in T
    BY <1>4, <1>9, <2>0
  <2>2. ASSUME NEW n \in 0 .. L - 1, n \in T PROVE n + 1 \in T
    <3>1. n + 1 \in 0 .. L /\ n + 1 \in 1 .. L /\ n + 1 # 0 /\ (n + 1) - 1 = n
      OBVIOUS
    <3> QED BY <1>4, <1>9, <2>2, <3>1
  <2> HIDE DEF T
  <2>3. \A n \in 0 .. L : n \in T
    BY <2>0, <2>1, <2>2, IntervalInduction
  <2>4. \A n \in 0 .. L : u[n] = f[n]
    BY <2>3 DEF T
  <2>5. u = [n \in 0 .. L |-> u[n]] /\ f = [n \in 0 .. L |-> f[n]]
    BY <1>2, <1>7 DEF SizeSums
  <2> QED BY <2>4, <2>5
<1> QED BY <1>2, <1>4, <1>8, <1>10

\* The size of a use of a type, where s has the sizes of the file's types.
UseSize(s, use) ==
    IF use \in DOMAIN BuiltIns THEN BuiltIns[use].size
    ELSE s[SelectInSeq(written, LAMBDA t : t.name = use)]

\* The sizes of the members of type i.
MemberSizes(s, i) ==
    [j \in 1 .. Len(written[i].members) |-> UseSize(s, written[i].members[j].type)]

\* s has the sizes of all types.
Sizes(s) == s = [i \in 1 .. Len(written) |-> Total(MemberSizes(s, i))]

\* An integer has a size.
LEMMA IntegerSizes ==
  \A name \in DOMAIN BuiltIns : BuiltIns[name].size \in Nat
BY DEF BuiltIns

\* A good file uses integers, and types that it has before.
LEMMA GoodUses ==
  ASSUME FileInv, GoodFile, NEW i \in 1 .. Len(written),
         NEW j \in 1 .. Len(written[i].members)
  PROVE  LET use == written[i].members[j].type
         IN  \/ use \in DOMAIN BuiltIns /\ \A s : UseSize(s, use) = BuiltIns[use].size
             \/ /\ use \notin DOMAIN BuiltIns
                /\ \E k \in 1 .. i - 1 : /\ FirstNamed(written, k, use)
                                         /\ \A s : UseSize(s, use) = s[k]
<1> PICK use : use = written[i].members[j].type
  OBVIOUS
<1> DEFINE I == {k \in 1 .. Len(written) : written[k].name = use}
<1>1. use \in DOMAIN BuiltIns \/ \E k \in 1 .. i - 1 : written[k].name = use
  BY DEF GoodFile, GoodMember, DeclaredBefore
<1>2. CASE use \in DOMAIN BuiltIns
  BY <1>2 DEF UseSize
<1>3. CASE use \notin DOMAIN BuiltIns
  <2>0. Len(written) \in Nat
    BY LengthOfSeq DEF FileInv
  <2>1. PICK l \in 1 .. i - 1 : written[l].name = use
    BY <1>1, <1>3
  <2>2. I \subseteq Nat /\ l \in I
    BY <2>0, <2>1
  <2>3. PICK k : k = Min(I) /\ k \in I /\ \A m \in I : k <= m
    <3> HIDE DEF I
    <3> QED BY <2>2, MinIsLeast, Zenon
  <2>4. k \in 1 .. Len(written) /\ written[k].name = use /\ k <= l
    BY <2>2, <2>3
  <2>5. k \in 1 .. i - 1
    BY <2>0, <2>1, <2>4
  <2>6. ASSUME NEW m \in 1 .. k - 1 PROVE written[m].name # use
    <3>1. m \in 1 .. Len(written) /\ ~(k <= m)
      BY <2>0, <2>4
    <3> QED BY <2>3, <3>1
  <2>7. SelectInSeq(written, LAMBDA t : t.name = use) = k
    BY <2>2, <2>3 DEF SelectInSeq
  <2>8. \A s : UseSize(s, use) = s[k]
    BY <1>3, <2>7 DEF UseSize
  <2> HIDE DEF I
  <2> QED BY <1>3, <2>4, <2>5, <2>6, <2>8 DEF FirstNamed
<1> QED BY <1>2, <1>3

\* The sizes of the members of a type are numbers, if those before it are; and
\* depend on no others.
LEMMA MemberSizesAre ==
  ASSUME FileInv, GoodFile, NEW i \in 1 .. Len(written), NEW s,
         \A k \in 1 .. i - 1 : s[k] \in Nat
  PROVE  /\ Len(MemberSizes(s, i)) = Len(written[i].members)
         /\ Len(written[i].members) \in Nat
         /\ \A j \in 1 .. Len(written[i].members) :
               /\ MemberSizes(s, i)[j] = UseSize(s, written[i].members[j].type)
               /\ MemberSizes(s, i)[j] \in Nat
         /\ \A t : (\A k \in 1 .. i - 1 : t[k] = s[k]) => MemberSizes(t, i) = MemberSizes(s, i)
<1>1. Len(written[i].members) \in Nat
  BY LengthOfSeq DEF FileInv, WrittenType
<1>2. \A r : Len(MemberSizes(r, i)) = Len(written[i].members)
  BY <1>1 DEF MemberSizes
<1>3. ASSUME NEW j \in 1 .. Len(written[i].members)
      PROVE  /\ MemberSizes(s, i)[j] = UseSize(s, written[i].members[j].type)
             /\ MemberSizes(s, i)[j] \in Nat
  <2>1. MemberSizes(s, i)[j] = UseSize(s, written[i].members[j].type)
    BY DEF MemberSizes
  <2>2. UseSize(s, written[i].members[j].type) \in Nat
    <3>1. PICK use : use = written[i].members[j].type
      OBVIOUS
    <3>2. \/ use \in DOMAIN BuiltIns /\ \A r : UseSize(r, use) = BuiltIns[use].size
          \/ \E k \in 1 .. i - 1 : \A r : UseSize(r, use) = r[k]
      BY <3>1, GoodUses
    <3>3. UseSize(s, use) \in Nat
      BY <3>2, IntegerSizes
    <3> QED BY <3>1, <3>3
  <2> QED BY <2>1, <2>2
<1>4. ASSUME NEW t, \A k \in 1 .. i - 1 : t[k] = s[k]
      PROVE  MemberSizes(t, i) = MemberSizes(s, i)
  <2>1. ASSUME NEW j \in 1 .. Len(written[i].members)
        PROVE  UseSize(t, written[i].members[j].type) = UseSize(s, written[i].members[j].type)
    <3>1. PICK use : use = written[i].members[j].type
      OBVIOUS
    <3>2. \/ \A r : UseSize(r, use) = BuiltIns[use].size
          \/ \E k \in 1 .. i - 1 : \A r : UseSize(r, use) = r[k]
      BY <3>1, GoodUses
    <3>3. UseSize(t, use) = UseSize(s, use)
      BY <1>4, <3>2
    <3> QED BY <3>1, <3>3
  <2> QED BY <2>1 DEF MemberSizes
<1> QED BY <1>1, <1>2, <1>3, <1>4

\* The total of the sizes of the members is a number.
LEMMA TotalOfMembers ==
  ASSUME FileInv, GoodFile, NEW i \in 1 .. Len(written), NEW s,
         \A k \in 1 .. i - 1 : s[k] \in Nat
  PROVE  Total(MemberSizes(s, i)) \in Nat
<1> PICK seq : seq = MemberSizes(s, i)
  OBVIOUS
<1>1. Len(seq) \in Nat /\ \A n \in 1 .. Len(seq) : seq[n] \in Nat
  BY MemberSizesAre
<1>2. PICK t \in [0 .. Len(seq) -> Nat] : Total(seq) = t[Len(seq)]
  BY <1>1, TotalIs
<1> QED BY <1>1, <1>2

\* A good file has sizes: they are found one type after the other.
LEMMA SizesExist ==
  ASSUME FileInv, GoodFile
  PROVE  \E s : Sizes(s)
<1> DEFINE N == Len(written)
           S == [1 .. N -> Nat]
           step == [p \in S \X (1 .. N) |->
                       [p[1] EXCEPT ![p[2]] = Total(MemberSizes(p[1], p[2]))]]
           none == [i \in 1 .. N |-> 0]
<1>1. N \in Nat
  BY LengthOfSeq DEF FileInv
<1>2. ASSUME NEW s \in S, NEW i \in 1 .. N
      PROVE  /\ step[<<s, i>>] = [s EXCEPT ![i] = Total(MemberSizes(s, i))]
             /\ Total(MemberSizes(s, i)) \in Nat
             /\ step[<<s, i>>] \in S
  <2>1. \A k \in 1 .. i - 1 : s[k] \in Nat
    BY <1>1
  <2>2. Total(MemberSizes(s, i)) \in Nat
    BY <2>1, TotalOfMembers
  <2>3. step[<<s, i>>] = [s EXCEPT ![i] = Total(MemberSizes(s, i))]
    OBVIOUS
  <2>4. [s EXCEPT ![i] = Total(MemberSizes(s, i))] \in S
    BY <2>2
  <2> HIDE DEF step, S
  <2> QED BY <2>2, <2>3, <2>4
<1>3. step \in [S \X (1 .. N) -> S]
  <2>1. \A s \in S, i \in 1 .. N : [s EXCEPT ![i] = Total(MemberSizes(s, i))] \in S
    BY <1>2
  <2> HIDE DEF S
  <2> QED BY <2>1
<1>4. none \in S
  OBVIOUS
<1> HIDE DEF step
<1>5. PICK f \in [0 .. N -> S] : Recursion(f, none, step, N)
  <2> HIDE DEF N, S, none
  <2> QED BY <1>1, <1>3, <1>4, RecursionExists, Zenon
<1>6. ASSUME NEW i \in 1 .. N
      PROVE  /\ f[i - 1] \in S /\ f[i] \in S
             /\ f[i] = [f[i - 1] EXCEPT ![i] = Total(MemberSizes(f[i - 1], i))]
  <2>1. i \in 0 .. N /\ i - 1 \in 0 .. N
    BY <1>1
  <2>2. f[i - 1] \in S /\ f[i] \in S
    BY <2>1
  <2>3. f[i] = step[<<f[i - 1], i>>]
    BY <1>5 DEF Recursion
  <2> HIDE DEF S
  <2> QED BY <1>2, <2>2, <2>3
<1>7. ASSUME NEW k \in 1 .. N PROVE \A d \in 0 .. N - k : f[k + d][k] = f[k][k]
  <2> DEFINE T == {d \in 0 .. N - k : f[k + d][k] = f[k][k]}
  <2>0. N - k \in Nat /\ k + 0 = k
    BY <1>1
  <2>1. 0 \in T
    BY <2>0
  <2>2. ASSUME NEW d \in 0 .. (N - k) - 1, d \in T PROVE d + 1 \in T
    <3>1. /\ k + (d + 1) \in 1 .. N /\ k # k + (d + 1) /\ d + 1 \in 0 .. N - k
          /\ (k + (d + 1)) - 1 = k + d
      BY <1>1
    <3>2. PICK m \in 1 .. N : m = k + (d + 1)
      BY <3>1
    <3>3. /\ f[m - 1] \in S /\ f[m] = [f[m - 1] EXCEPT ![m] = Total(MemberSizes(f[m - 1], m))]
      BY <1>6
    <3>4. f[m][k] = f[m - 1][k]
      BY <3>1, <3>2, <3>3
    <3> QED BY <2>2, <3>1, <3>2, <3>4
  <2> HIDE DEF T
  <2>3. \A d \in 0 .. N - k : d \in T
    BY <2>0, <2>1, <2>2, IntervalInduction
  <2> QED BY <2>3 DEF T
<1>8. ASSUME NEW k \in 1 .. N, NEW n \in k .. N PROVE f[n][k] = f[k][k]
  <2>1. n - k \in 0 .. N - k /\ k + (n - k) = n
    BY <1>1
  <2> QED BY <1>7, <2>1
<1> DEFINE s == f[N]
<1>9. s \in S
  BY <1>1
<1>10. ASSUME NEW i \in 1 .. N PROVE s[i] = Total(MemberSizes(s, i))
  <2>1. \A k \in 1 .. i - 1 : /\ k \in 1 .. N /\ i - 1 \in k .. N
                              /\ N \in k .. N
    BY <1>1
  <2>2. \A k \in 1 .. i - 1 : s[k] = f[i - 1][k] /\ f[i - 1][k] \in Nat
    <3>1. \A k \in 1 .. i - 1 : s[k] = f[i - 1][k]
      BY <1>8, <2>1
    <3> QED BY <1>6, <2>1, <3>1
  <2>3. PICK r : r = f[i - 1]
    OBVIOUS
  <2>4. MemberSizes(s, i) = MemberSizes(r, i)
    BY <2>2, <2>3, MemberSizesAre
  <2>5. s[i] = f[i][i]
    <3>1. N \in i .. N
      BY <1>1
    <3> QED BY <1>8, <3>1
  <2>6. f[i][i] = Total(MemberSizes(r, i))
    BY <1>6, <2>3
  <2> QED BY <2>4, <2>5, <2>6
<1>11. Sizes(s)
  <2>1. s = [i \in 1 .. N |-> s[i]]
    BY <1>9
  <2> HIDE DEF s
  <2> QED BY <1>10, <2>1 DEF Sizes
<1> QED BY <1>11

\* M is what sizes wrap at; and the types before i have the sizes s.
WrapsAt(M) == M = 2 ^ SizeBits
SizesBefore(s, i, M) ==
    \A k \in 1 .. i - 1 : s[k] \in Nat /\ types[k].size = s[k] % M

\* The size of a type, where s has the sizes of those before it.
LEMMA TypeSizeIs ==
  ASSUME FileInv, StackInv, RootInv, AcceptInv, parser, NEW M, WrapsAt(M),
         NEW s, NEW i \in 1 .. Len(written), SizesBefore(s, i, M)
  PROVE  types[i].size = Total(MemberSizes(s, i)) % M
<1> PICK seq, fields : seq = MemberSizes(s, i) /\ fields = types[i].fields
  OBVIOUS
<1> DEFINE L == Len(fields)
<1>0. M \in Nat \ {0} /\ \A k \in 1 .. i - 1 : s[k] \in Nat
  BY DefinitionAssumption, Zenon DEF WrapsAt, SizesBefore
<1>1. /\ GoodFile /\ types[i] = Definition(written[i].name, fields)
      /\ L = Len(written[i].members)
      /\ \A k \in 1 .. Len(written) :
            types[k] = Definition(written[k].name, types[k].fields)
  BY ParserIs
<1>2. L \in Nat /\ Len(seq) = L
  BY <1>0, <1>1, MemberSizesAre
<1>3. ASSUME NEW j \in 1 .. L
      PROVE  /\ seq[j] \in Nat
             /\ fields[j].type # NoType /\ fields[j].type.size \in Nat
             /\ fields[j].type.size % M = seq[j] % M
  <2>0. PICK m, f : m = written[i].members[j] /\ f = fields[j] /\ j \in 1 .. Len(written[i].members)
    BY <1>1
  <2>1. seq[j] = UseSize(s, m.type) /\ seq[j] \in Nat
    <3>1. MemberSizes(s, i)[j] = UseSize(s, written[i].members[j].type)
          /\ MemberSizes(s, i)[j] \in Nat
      BY <1>0, <1>1, <2>0, MemberSizesAre
    <3> QED BY <2>0, <3>1
  <2>2. FieldOf(written, types, i, m, f)
    BY <2>0, ParserIs
  <2>3. \/ m.type \in DOMAIN BuiltIns /\ f.type = Resolved(m.type, m.options)
        \/ /\ m.type \notin DOMAIN BuiltIns
           /\ \E k \in 1 .. i - 1 : FirstNamed(written, k, m.type) /\ f.type = types[k]
    <3>1. FieldOf(written, types, i, written[i].members[j], f)
      BY <2>0, <2>2, Zenon
    <3>2. TypedAs(i, written[i].members[j], f)
      BY <1>1, <2>0, <3>1, GoodFieldIs, Zenon
    <3> QED BY <2>0, <3>2, Zenon DEF TypedAs
  <2>4. \/ m.type \in DOMAIN BuiltIns /\ UseSize(s, m.type) = BuiltIns[m.type].size
        \/ /\ m.type \notin DOMAIN BuiltIns
           /\ \E k \in 1 .. i - 1 : FirstNamed(written, k, m.type) /\ UseSize(s, m.type) = s[k]
    BY <1>1, <2>0, GoodUses
  <2>5. CASE m.type \in DOMAIN BuiltIns
    <3>1. f.type # NoType /\ f.type.size = BuiltIns[m.type].size
      <4>1. f.type = Resolved(m.type, m.options)
        BY <2>3, <2>5
      <4>2. \A sign, order : IntegerType(m.type, sign, order).size = BuiltIns[m.type].size
        BY DEF IntegerType
      <4> QED BY <4>1, <4>2, TypesAreNotNull DEF Resolved
    <3> QED BY <2>0, <2>1, <2>4, <2>5, <3>1, IntegerSizes
  <2>6. CASE m.type \notin DOMAIN BuiltIns
    <3>1. PICK k \in 1 .. i - 1 : FirstNamed(written, k, m.type) /\ f.type = types[k]
      BY <2>3, <2>6
    <3>2. PICK l \in 1 .. i - 1 : FirstNamed(written, l, m.type) /\ UseSize(s, m.type) = s[l]
      BY <2>4, <2>6
    <3>3. k = l
      <4>1. k \in 1 .. l - 1 \/ l \in 1 .. k - 1 \/ k = l
        OBVIOUS
      <4> QED BY <3>1, <3>2, <4>1 DEF FirstNamed
    <3>4. seq[j] = s[k] /\ f.type.size = s[k] % M /\ s[k] \in Nat
      BY <2>1, <3>1, <3>2, <3>3 DEF SizesBefore
    <3>5. f.type # NoType
      <4>1. k \in 1 .. Len(written)
        BY LengthOfSeq DEF FileInv
      <4> QED BY <1>1, <3>1, <4>1, TypesAreNotNull
    <3>6. PICK x \in Nat : x = s[k]
      BY <3>4
    <3>7. x % M \in Nat /\ (x % M) % M = x % M
      BY <1>0, RemainderTwice
    <3>8. seq[j] = x /\ f.type.size = x % M
      BY <3>4, <3>6
    <3> QED BY <2>0, <3>5, <3>7, <3>8
  <2> QED BY <2>5, <2>6
<1>4. PICK t \in [0 .. L -> Nat] : SumsOf(t, seq, L) /\ Total(seq) = t[L]
  <2>1. Len(seq) \in Nat /\ \A n \in 1 .. Len(seq) : seq[n] \in Nat
    BY <1>2, <1>3
  <2>2. PICK t \in [0 .. Len(seq) -> Nat] :
           /\ t[0] = 0 /\ \A n \in 1 .. Len(seq) : t[n] = t[n - 1] + seq[n]
           /\ Total(seq) = t[Len(seq)]
    BY <2>1, TotalIs
  <2> HIDE DEF L
  <2> QED BY <1>2, <2>2 DEF SumsOf
<1> DEFINE x == [n \in 1 .. L |-> fields[n].type.size]
<1>5. PICK u \in [0 .. L -> Nat] :
         WrappedSumsOf(u, x, L, M) /\ CalculateSize(fields) = u[L]
  <2>1. PICK u \in [0 .. L -> Nat] :
           /\ u[0] = 0
           /\ \A n \in 1 .. L : u[n] = (u[n - 1] + fields[n].type.size) % M
           /\ CalculateSize(fields) = u[L]
    BY <1>2, <1>3, SizeIs DEF WrapsAt
  <2>2. \A n \in 1 .. L : x[n] = fields[n].type.size
    OBVIOUS
  <2> HIDE DEF x, L
  <2>3. WrappedSumsOf(u, x, L, M)
    BY <2>1, <2>2 DEF WrappedSumsOf
  <2> QED BY <2>1, <2>3
<1>6. u[L] = t[L] % M
  <2>1. AllSameRemainders(x, seq, L, M)
    BY <1>3 DEF AllSameRemainders
  <2> HIDE DEF x, L
  <2> QED BY <1>0, <1>2, <1>4, <1>5, <2>1, SumsWrapOnce, ZenonT(40)
<1>7. types[i].size = CalculateSize(fields)
  BY <1>1 DEF Definition
<1> QED BY <1>4, <1>5, <1>6, <1>7

\* The sizes of a parser's types are those that the file has.
LEMMA SizesFollow ==
  ASSUME FileInv, StackInv, RootInv, AcceptInv, parser, NEW M, WrapsAt(M),
         NEW s, Sizes(s)
  PROVE  \A i \in 1 .. Len(written) : s[i] \in Nat /\ types[i].size = s[i] % M
<1> DEFINE I == {i \in 1 .. Len(written) : ~(s[i] \in Nat /\ types[i].size = s[i] % M)}
<1> SUFFICES ASSUME I # {} PROVE FALSE
  OBVIOUS
<1>1. GoodFile /\ Len(written) \in Nat
  BY LengthOfSeq DEF AcceptInv, FileInv
<1>2. I \subseteq Nat
  BY <1>1
<1>3. PICK i \in I : \A k \in I : i <= k
  <2> HIDE DEF I
  <2> QED BY <1>2, LeastNumber
<1>4. SizesBefore(s, i, M)
  <2>1. \A k \in 1 .. i - 1 : k \in 1 .. Len(written) /\ ~(i <= k)
    BY <1>1
  <2> QED BY <1>3, <2>1 DEF SizesBefore
<1>5. i \in 1 .. Len(written)
  OBVIOUS
<1>6. s[i] = Total(MemberSizes(s, i))
  BY <1>5 DEF Sizes
<1>7. s[i] \in Nat
  <2>1. \A k \in 1 .. i - 1 : s[k] \in Nat
    BY <1>4 DEF SizesBefore
  <2> QED BY <1>1, <1>5, <1>6, <2>1, TotalOfMembers
<1>8. types[i].size = s[i] % M
  BY <1>4, <1>5, <1>6, TypeSizeIs
<1> QED BY <1>7, <1>8

\* Every type of a parser has a static size, that of the integers in it.
THEOREM SizesCorrect == ParserSpec => []SizesAsWritten
<1>1. FileInv /\ StackInv /\ RootInv /\ AcceptInv => SizesAsWritten
  <2> SUFFICES ASSUME FileInv, StackInv, RootInv, AcceptInv PROVE SizesAsWritten
    OBVIOUS
  <2> DEFINE s == CHOOSE r : Sizes(r)
  <2>1. ASSUME parser, NEW i \in 1 .. Len(written)
        PROVE  types[i].size = s[i] % 2 ^ SizeBits
    <3>1. GoodFile
      BY <2>1 DEF AcceptInv
    <3>2. Sizes(s)
      BY <3>1, SizesExist
    <3> HIDE DEF s
    <3> QED BY <2>1, <3>2, SizesFollow DEF WrapsAt
  <2> QED BY <2>1, Zenon DEF SizesAsWritten, Sizes, MemberSizes, UseSize
<1> QED BY <1>1, StackHolds, RootHolds, AcceptHolds, PTL
=============================================================================
