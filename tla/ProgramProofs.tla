---------------------------- MODULE ProgramProofs ---------------------------
(***************************************************************************)
(* Theorems about the program: that the definition it parses is the whole  *)
(* file, that it says why it fails, and that what it writes is whole.      *)
(*                                                                         *)
(* The first part is about ReadFully alone, for every file, size of reads  *)
(* and content of the caller's buffer.                                     *)
(***************************************************************************)
EXTENDS Program, SequenceTheorems, TLAPS

(***************************************************************************)
(* That nothing arrives means the end of the file only because something   *)
(* was asked for, unless the file is empty.                                *)
(***************************************************************************)
FullyInv ==
    /\ filePos \in 0 .. FileSize
    /\ asked \in Nat
    /\ stage \in {"open", "seek"} => ret = <<>>
    /\ stage = "read" /\ asked = 0 => FileSize = 0
    /\ stage = "parse" => filePos = FileSize
    /\ ReadSoFar
    /\ ParsesWholeFile
    /\ FailsWithoutTrace

(***************************************************************************)
(* Bytes of the file appended to those before them are bytes of the file.  *)
(***************************************************************************)
LEMMA BytesJoin ==
    ASSUME NEW p \in Nat, NEW n \in Nat
    PROVE  FileBytes(0, p) \o FileBytes(p, n) = FileBytes(0, p + n)
<1>1. FileBytes(0, p) = [i \in 1 .. p |-> File[0 + i - 1]]
    BY DEF FileBytes
<1>2. FileBytes(p, n) = [i \in 1 .. n |-> File[p + i - 1]]
    BY DEF FileBytes
<1>3. FileBytes(0, p + n) = [i \in 1 .. p + n |-> File[0 + i - 1]]
    BY DEF FileBytes
<1>4. [i \in 1 .. p |-> File[0 + i - 1]] \o [i \in 1 .. n |-> File[p + i - 1]]
        = [i \in 1 .. p + n |-> File[0 + i - 1]]
    OBVIOUS
<1> QED
    BY <1>1, <1>2, <1>3, <1>4

LEMMA InitInv == FullyInit => FullyInv
    BY FileAssumption
    DEF FullyInit, FullyInv, ReadSoFar, ParsesWholeFile, FailsWithoutTrace

LEMMA SeekKeeps == FullyInv /\ Seek => FullyInv'
<1> SUFFICES ASSUME FullyInv, Seek PROVE FullyInv'
    OBVIOUS
<1>1. filePos' = 0 /\ stage' = "read" /\ buffer' = buffer /\ ret' = ret
      /\ stage = "seek"
    BY FileAssumption DEF Seek, ReaderSeek, Clamp
<1>2. asked' \in Nat /\ (asked' = 0 => FileSize = 0)
    BY FileAssumption, ReadSizeAssumption DEF Seek
<1>3. FileBytes(0, 0) = <<>>
    BY DEF FileBytes
<1> QED
    BY <1>1, <1>2, <1>3, FileAssumption
    DEF FullyInv, ReadSoFar, ParsesWholeFile, FailsWithoutTrace

LEMMA ReadKeeps == FullyInv /\ Read => FullyInv'
<1> SUFFICES ASSUME FullyInv, Read PROVE FullyInv'
    OBVIOUS
<1>1. PICK n \in 0 .. asked :
          /\ ReaderRead(asked, n)
          /\ ret' = ret \o FileBytes(filePos, n)
          /\ IF AtEnd(n) THEN stage' = "parse" /\ buffer' = ret'
             ELSE UNCHANGED <<stage, buffer>>
    BY DEF Read
<1>2. filePos \in 0 .. FileSize /\ asked \in Nat /\ FileSize \in Nat
      /\ n \in Nat /\ stage = "read"
    BY FileAssumption DEF FullyInv, Read
<1>3. filePos' = filePos + n /\ filePos' \in 0 .. FileSize
    BY <1>1, <1>2 DEF ReaderRead, Available
<1>4. asked' \in Nat /\ asked' # 0
    BY ReadSizeAssumption DEF Read
<1>5. ret' = FileBytes(0, filePos')
    <2>1. filePos \in Nat
        BY <1>2
    <2>2. FileBytes(0, filePos) \o FileBytes(filePos, n)
            = FileBytes(0, filePos + n)
        BY <1>2, <2>1, BytesJoin
    <2>3. ret = FileBytes(0, filePos)
        BY <1>2 DEF FullyInv, ReadSoFar
    <2> QED
        BY <1>1, <1>3, <2>2, <2>3
<1>6. CASE n = 0
    <2>1. filePos = FileSize
        BY <1>1, <1>2, <1>6 DEF ReaderRead, Available, FullyInv
    <2>2. stage' = "parse" /\ buffer' = ret' /\ filePos' = FileSize
        BY <1>1, <1>2, <1>3, <1>6, <2>1 DEF AtEnd
    <2> QED
        BY <1>3, <1>4, <1>5, <2>2
        DEF FullyInv, ReadSoFar, ParsesWholeFile, FailsWithoutTrace
<1>7. CASE n # 0
    <2>1. stage' = "read" /\ buffer' = buffer
        BY <1>1, <1>2, <1>7 DEF AtEnd
    <2>2. buffer = Old
        BY <1>2 DEF FullyInv, FailsWithoutTrace
    <2> QED
        BY <1>3, <1>4, <1>5, <2>1, <2>2
        DEF FullyInv, ReadSoFar, ParsesWholeFile, FailsWithoutTrace
<1> QED
    BY <1>6, <1>7

\* A failed read may have moved the reader, which matters to none any more.
LEMMA ReadFailsKeeps == FullyInv /\ ReadFails => FullyInv'
<1> SUFFICES ASSUME FullyInv, ReadFails PROVE FullyInv'
    OBVIOUS
<1>1. PICK n \in 0 .. asked : ReaderReadFails(asked, n)
    BY DEF ReadFails
<1>2. filePos \in 0 .. FileSize /\ asked \in Nat /\ FileSize \in Nat
    BY FileAssumption DEF FullyInv
<1>3. filePos' \in 0 .. FileSize
    BY <1>1, <1>2 DEF ReaderReadFails, Available
<1>4. stage' \in {"null", "crash"} /\ asked' = asked /\ buffer' = buffer
    BY DEF ReadFails, Failed
<1>5. buffer = Old
    BY DEF ReadFails, FullyInv, FailsWithoutTrace
<1> QED
    BY <1>2, <1>3, <1>4, <1>5
    DEF FullyInv, ReadSoFar, ParsesWholeFile, FailsWithoutTrace

LEMMA StepKeeps == FullyInv /\ [Step]_fullyVars => FullyInv'
<1> SUFFICES ASSUME FullyInv, [Step]_fullyVars PROVE FullyInv'
    OBVIOUS
<1> USE DEF FullyInv, ReadSoFar, ParsesWholeFile, FailsWithoutTrace
<1>1. CASE Open
    BY <1>1 DEF Open, readerVars
<1>2. CASE OpenFails
    BY <1>2 DEF OpenFails, readerVars
<1>3. CASE SeekFails
    BY <1>3 DEF SeekFails, ReaderSeekFails, readerVars, Failed
<1>4. CASE UNCHANGED fullyVars
    BY <1>4 DEF fullyVars
<1> QED
    BY <1>1, <1>2, <1>3, <1>4, SeekKeeps, ReadKeeps, ReadFailsKeeps DEF Step

(***************************************************************************)
(* What ReadFully has read is at all times the beginning of the file.      *)
(***************************************************************************)
THEOREM ReadsFromBeginning == FullySpec => []ReadSoFar
<1>1. FullyInv => ReadSoFar
    BY DEF FullyInv
<1> QED
    BY InitInv, StepKeeps, <1>1, PTL DEF FullySpec

(***************************************************************************)
(* The definition CreateFromFile parses is the whole file, however it was  *)
(* read.                                                                   *)
(***************************************************************************)
THEOREM WholeFileParsed == FullySpec => []ParsesWholeFile
<1>1. FullyInv => ParsesWholeFile
    BY DEF FullyInv
<1> QED
    BY InitInv, StepKeeps, <1>1, PTL DEF FullySpec

(***************************************************************************)
(* A ReadFully that fails does not touch the caller's buffer.              *)
(***************************************************************************)
THEOREM FailureKeepsBuffer == FullySpec => []FailsWithoutTrace
<1>1. FullyInv => FailsWithoutTrace
    BY DEF FullyInv
<1> QED
    BY InitInv, StepKeeps, <1>1, PTL DEF FullySpec

-----------------------------------------------------------------------------
(***************************************************************************)
(* What main says.  SaysWhy is about the end; SaysInv is about what the    *)
(* errors of the call that main is in, and what it has said before, are    *)
(* until then.                                                             *)
(***************************************************************************)
About(infos, file) == \A info \in infos : info.place[1] = file

\* What was said of a call that went well.
Quiet(lines, file) == Errors(lines) = {} /\ About(lines, file)

SaidInv ==
    CASE at \in {"arguments", "definition"} -> said = <<>>
      [] at = "file" -> \E a : said = <<a>> /\ Quiet(a, "definition")
      [] at = "dump" -> \E a, b : /\ said = <<a, b>>
                                  /\ Quiet(a, "definition") /\ Quiet(b, "binary")
      [] OTHER -> at = "ended"

CollectedInv ==
    /\ collection.has_error <=> \E info \in collection.errors : info.level = "Error"
    /\ returned = "value" => ~collection.has_error
    /\ returned = "null" => collection.has_error
    /\ at = "arguments" => returned = "nothing"
    /\ at = "definition" => About(collection.errors, "definition")
    /\ at = "file" => About(collection.errors, "binary")
    /\ (returned = "nothing" /\ at \in {"arguments", "definition", "file"}) =>
           collection = NoErrors

SaysInv ==
    /\ SaidInv
    /\ CollectedInv
    /\ at # "ended" => status = Running
    /\ SaysWhy

\* The errors of a call that returns are those it adds, and it returns null if
\* there is one.
LEMMA ReturnsKeeps ==
  ASSUME SaysInv, at \in {"definition", "file"}, returned = "nothing",
         NEW infos, About(infos, IF at = "definition" THEN "definition" ELSE "binary"),
         NEW value,
         value = "value" => \A info \in infos : info.level # "Error",
         value = "null" => \E info \in infos : info.level = "Error",
         value # "nothing",
         Returns(value, infos)
  PROVE  SaysInv'
<1>1. collection.errors = {} /\ collection.has_error = FALSE
  BY DEF SaysInv, CollectedInv, NoErrors
<1>2. /\ returned' = value /\ at' = at /\ said' = said /\ status' = status
      /\ collection' = Add(collection, infos)
  BY DEF Returns
<1>3. /\ collection'.errors = infos
      /\ collection'.has_error <=> \E info \in infos : info.level = "Error"
  BY <1>1, <1>2 DEF Add
<1>4. CollectedInv'
  BY <1>2, <1>3 DEF CollectedInv
<1>5. SaidInv' /\ SaysWhy'
  BY <1>2 DEF SaysInv, SaidInv, SaysWhy
<1> QED BY <1>2, <1>4, <1>5 DEF SaysInv

\* The lines of the errors of a call.
LEMMA LinesOfErrors ==
  ASSUME NEW infos, NEW file, About(infos, file)
  PROVE  LET lines == {Line(info) : info \in infos}
         IN  /\ About(lines, file)
             /\ (\E info \in infos : info.level = "Error") <=> Errors(lines) # {}
<1> DEFINE lines == {Line(info) : info \in infos}
<1>1. \A info : Line(info).place = info.place /\ Line(info).level = info.level
  BY DEF Line
<1>2. About(lines, file)
  BY <1>1 DEF About
<1>3. \A info \in infos : info.level = "Error" => Line(info) \in Errors(lines)
  BY <1>1 DEF Errors
<1>4. ASSUME NEW line \in Errors(lines) PROVE \E info \in infos : info.level = "Error"
  BY <1>1 DEF Errors
<1> QED BY <1>2, <1>3, <1>4

\* What is said next comes behind what was said.
LEMMA SecondSaid ==
  ASSUME NEW a, NEW b
  PROVE  Append(<<a>>, b) = <<a, b>>
<1> DEFINE S == {a, b}
<1>1. a \in S /\ b \in S
  OBVIOUS
<1> HIDE DEF S
<1>2. /\ <<a>> \in Seq(S) /\ Len(<<a>>) = 1 /\ <<a>>[1] = a
      /\ <<a, b>> \in Seq(S) /\ Len(<<a, b>>) = 2
      /\ <<a, b>>[1] = a /\ <<a, b>>[2] = b
  BY <1>1
<1>3. /\ Append(<<a>>, b) \in Seq(S) /\ Len(Append(<<a>>, b)) = 2
      /\ Append(<<a>>, b)[1] = a /\ Append(<<a>>, b)[2] = b
  BY <1>1, <1>2, AppendProperties
<1>4. \A i \in 1 .. 2 : Append(<<a>>, b)[i] = <<a, b>>[i]
  BY <1>2, <1>3
<1> QED BY <1>2, <1>3, <1>4, SeqEqual

\* main reports a call that went well, and goes on.
LEMMA ReportKeeps ==
  ASSUME SaysInv, NEW stop \in {"definition", "file"}, Report(stop),
         returned = "value", at' = IF stop = "definition" THEN "file" ELSE "dump",
         stop = "definition" => collection' = NoErrors,
         stop = "file" => collection' = collection, status' = status
  PROVE  SaysInv'
<1> DEFINE lines == {Line(info) : info \in collection.errors}
           file == IF stop = "definition" THEN "definition" ELSE "binary"
<1>1. at = stop /\ returned' = "nothing" /\ said' = Append(said, lines)
  BY DEF Report
<1>2. Quiet(lines, file)
  <2>1. About(collection.errors, file) /\ ~ \E info \in collection.errors : info.level = "Error"
    BY <1>1 DEF SaysInv, CollectedInv
  <2> QED BY <2>1, LinesOfErrors DEF Quiet
<1> HIDE DEF lines
<1>3. CollectedInv'
  BY <1>1 DEF SaysInv, CollectedInv, NoErrors, About
<1>4. status' = Running
  BY <1>1 DEF SaysInv
<1>5. CASE stop = "definition"
  <2>1. said' = <<lines>> /\ at' = "file"
    BY <1>1, <1>5 DEF SaysInv, SaidInv
  <2>2. SaidInv'
    BY <1>2, <1>5, <2>1 DEF SaidInv
  <2>3. SaysWhy'
    BY <1>2, <1>4, <1>5, <2>1 DEF SaysWhy, Quiet, About, Running
  <2> QED BY <1>3, <1>4, <2>2, <2>3 DEF SaysInv
<1>6. CASE stop = "file"
  <2>1. PICK a : said = <<a>> /\ Quiet(a, "definition")
    BY <1>1, <1>6 DEF SaysInv, SaidInv
  <2>2. said' = <<a, lines>> /\ at' = "dump"
    <3>1. Append(<<a>>, lines) = <<a, lines>>
      BY SecondSaid
    <3> QED BY <1>1, <1>6, <2>1, <3>1
  <2>3. SaidInv'
    BY <1>2, <1>6, <2>1, <2>2 DEF SaidInv
  <2>4. SaysWhy'
    <3>1. \A i \in 1 .. Len(said') : i = 1 \/ i = 2
      BY <2>2
    <3>2. said'[1] = a /\ said'[2] = lines
      BY <2>2
    <3> QED BY <1>2, <1>4, <1>6, <2>1, <3>1, <3>2 DEF SaysWhy, Quiet, About, Running
  <2> QED BY <1>3, <1>4, <2>3, <2>4 DEF SaysInv
<1> QED BY <1>5, <1>6

\* main reports a call that returned null, and returns 1.
LEMMA ReportNullKeeps ==
  ASSUME SaysInv, NEW stop \in {"definition", "file"}, ReportNull(stop)
  PROVE  SaysInv'
<1> DEFINE lines == {Line(info) : info \in collection.errors}
           file == IF stop = "definition" THEN "definition" ELSE "binary"
<1>1. /\ at = stop /\ returned = "null" /\ returned' = "nothing" /\ at' = "ended"
      /\ said' = Append(said, lines) /\ status' = 1 /\ collection' = collection
  BY DEF ReportNull, Report
<1>2. Errors(lines) # {} /\ About(lines, file)
  <2>1. About(collection.errors, file) /\ \E info \in collection.errors : info.level = "Error"
    BY <1>1 DEF SaysInv, CollectedInv
  <2> QED BY <2>1, LinesOfErrors
<1> HIDE DEF lines
<1>3. CollectedInv' /\ SaidInv'
  BY <1>1 DEF SaysInv, CollectedInv, SaidInv
<1>4. CASE stop = "definition"
  <2>1. said' = <<lines>>
    BY <1>1, <1>4 DEF SaysInv, SaidInv
  <2>2. SaysWhy'
    BY <1>1, <1>2, <1>4, <2>1 DEF SaysWhy, About
  <2> QED BY <1>1, <1>3, <2>2 DEF SaysInv
<1>5. CASE stop = "file"
  <2>1. PICK a : said = <<a>> /\ Quiet(a, "definition")
    BY <1>1, <1>5 DEF SaysInv, SaidInv
  <2>2. said' = <<a, lines>>
    <3>1. Append(<<a>>, lines) = <<a, lines>>
      BY SecondSaid
    <3> QED BY <1>1, <2>1, <3>1
  <2>3. SaysWhy'
    <3>1. /\ Len(said') = 2 /\ said'[1] = a /\ said'[2] = lines
          /\ \A i \in 1 .. Len(said') : i = 1 \/ i = 2
      BY <2>2
    <3> QED BY <1>1, <1>2, <1>5, <2>1, <3>1 DEF SaysWhy, Quiet, About
  <2> QED BY <1>1, <1>3, <2>3 DEF SaysInv
<1> QED BY <1>4, <1>5

\* Nothing that main has to do with changes.
LEMMA MainAlone ==
  ASSUME SaysInv, UNCHANGED mainVars
  PROVE  SaysInv'
BY DEF mainVars, SaysInv, SaidInv, CollectedInv, SaysWhy

\* What the definition can be wrong in.
LEMMA DefinitionErrorsAbout ==
  ASSUME NEW infos \in DefinitionErrors
  PROVE  About(infos, "definition")
BY DEF DefinitionErrors, About, OwnMessage, Error, Warning, ErrorInfo

\* An error has its place and its level.
LEMMA ErrorFacts ==
  ASSUME NEW place, NEW kind, NEW args
  PROVE  /\ Error(place, kind, args).place = place
         /\ Error(place, kind, args).level = "Error"
BY DEF Error, ErrorInfo

\* An error alone is what a call that returns null adds.
LEMMA OneError ==
  ASSUME SaysInv, at \in {"definition", "file"}, returned = "nothing",
         NEW kind, NEW args, NEW file,
         file = IF at = "definition" THEN "definition" ELSE "binary",
         Returns("null", {Error(<<file>>, kind, args)})
  PROVE  SaysInv'
<1> DEFINE infos == {Error(<<file>>, kind, args)}
<1>1. About(infos, file) /\ \E info \in infos : info.level = "Error"
  BY ErrorFacts DEF About
<1>2. Returns("null", infos)
  OBVIOUS
<1> HIDE DEF infos
<1> QED BY <1>1, <1>2, ReturnsKeeps

\* Every step of the program keeps the errors and what is said of them together.
LEMMA NextKeepsSaysInv == SaysInv /\ [ProgramNext]_programVars => SaysInv'
<1> SUFFICES ASSUME SaysInv, [ProgramNext]_programVars PROVE SaysInv'
  OBVIOUS
<1>1. CASE ArgumentsGood
  <2>1. at = "arguments" /\ at' = "definition"
        /\ UNCHANGED <<returned, collection, said, status>>
    BY <1>1 DEF ArgumentsGood
  <2>2. collection = NoErrors /\ returned = "nothing" /\ said = <<>> /\ status = Running
    BY <2>1 DEF SaysInv, CollectedInv, SaidInv
  <2>3. About({}, "definition")
    BY DEF About
  <2>4. CollectedInv'
    BY <2>1, <2>2, <2>3 DEF CollectedInv, NoErrors
  <2>5. SaidInv' /\ SaysWhy'
    BY <2>1, <2>2 DEF SaidInv, SaysWhy, Running
  <2> QED BY <2>1, <2>2, <2>4, <2>5 DEF SaysInv
<1>2. CASE ArgumentsBad
  <2>1. /\ at = "arguments" /\ at' = "ended" /\ said' = <<{FatalError}>> /\ status' = 1
        /\ UNCHANGED <<returned, collection>>
    BY <1>2 DEF ArgumentsBad
  <2>2. SaysWhy'
    <3>1. FatalError.level = "Error"
      BY DEF FatalError
    <3> HIDE DEF FatalError
    <3> QED BY <2>1, <3>1 DEF SaysWhy, Errors
  <2>3. SaidInv' /\ CollectedInv'
    BY <2>1 DEF SaysInv, SaidInv, CollectedInv
  <2> QED BY <2>1, <2>2, <2>3 DEF SaysInv
<1>3. CASE ReadDefinition \/ Dump
  BY <1>3, MainAlone DEF ReadDefinition, Dump
<1>4. CASE ReadDefinitionFails
  <2>1. at = "definition" /\ returned = "nothing"
    BY <1>4 DEF ReadDefinitionFails, Calls
  <2> QED BY <1>4, <2>1, OneError DEF ReadDefinitionFails, CannotOpen, IoError
<1>5. CASE CreateFromDefinition
  <2>1. at = "definition" /\ returned = "nothing" /\ collection = NoErrors
    BY <1>5 DEF CreateFromDefinition, Calls, SaysInv, CollectedInv
  <2>2. PICK infos \in DefinitionErrors :
           Returns(IF Add(collection, infos).has_error THEN "null" ELSE "value", infos)
    BY <1>5 DEF CreateFromDefinition
  <2>3. Add(collection, infos).has_error <=> \E info \in infos : info.level = "Error"
    BY <2>1 DEF Add, NoErrors
  <2> QED BY <2>1, <2>2, <2>3, DefinitionErrorsAbout, ReturnsKeeps
<1>6. CASE DefinitionThrows
  <2>1. /\ at = "definition" /\ at' = "ended" /\ status' = Aborted
        /\ UNCHANGED <<returned, collection, said>>
    BY <1>6 DEF DefinitionThrows, Calls
  <2> QED BY <2>1 DEF SaysInv, SaidInv, CollectedInv, SaysWhy, Aborted
<1>7. CASE ReportParser
  BY <1>7, ReportKeeps DEF ReportParser
<1>8. CASE ReportNull("definition") \/ ReportNull("file")
  BY <1>8, ReportNullKeeps
<1>9. CASE ParseFile
  <2>1. at = "file" /\ returned = "nothing"
    BY <1>9 DEF ParseFile, Calls
  <2>2. CASE Returns("value", {})
    BY <2>1, <2>2, ReturnsKeeps DEF About
  <2>3. CASE Returns("null", IoError("binary"))
    BY <2>1, <2>3, OneError DEF IoError
  <2> QED BY <1>9, <2>2, <2>3 DEF ParseFile
<1>10. CASE ParseFileFails
  <2>1. at = "file" /\ returned = "nothing"
    BY <1>10 DEF ParseFileFails, Calls
  <2> QED BY <1>10, <2>1, OneError DEF ParseFileFails, CannotOpen
<1>11. CASE ReportFile
  BY <1>11, ReportKeeps DEF ReportFile
<1>12. CASE ReturnZero
  <2>1. /\ at = "dump" /\ at' = "ended" /\ status' = 0
        /\ UNCHANGED <<returned, collection, said>>
    BY <1>12 DEF ReturnZero
  <2> QED BY <2>1 DEF SaysInv, SaidInv, CollectedInv, SaysWhy, Running
<1>13. CASE UNCHANGED programVars
  BY <1>13, MainAlone DEF programVars
<1> QED BY <1>1, <1>2, <1>3, <1>4, <1>5, <1>6, <1>7, <1>8, <1>9, <1>10, <1>11,
           <1>12, <1>13 DEF ProgramNext

\* main begins with nothing to say.
LEMMA InitSaysInv == ProgramInit => SaysInv
<1> SUFFICES ASSUME ProgramInit PROVE SaysInv
  OBVIOUS
<1>1. at = "arguments" /\ returned = "nothing" /\ collection = NoErrors
      /\ said = <<>> /\ status = Running
  BY DEF ProgramInit
<1>2. SaidInv /\ CollectedInv
  BY <1>1 DEF SaidInv, CollectedInv, NoErrors
<1>3. SaysWhy
  BY <1>1 DEF SaysWhy, Running
<1> QED BY <1>1, <1>2, <1>3 DEF SaysInv

\* Whatever fails, a program that returns 1 has said an error of the call that
\* failed, about the file of that call, and none before that.
THEOREM ProgramSaysWhy == ProgramSpec => []SaysWhy
<1>1. SaysInv => SaysWhy
  BY DEF SaysInv
<1> QED BY InitSaysInv, NextKeepsSaysInv, <1>1, PTL DEF ProgramSpec
-----------------------------------------------------------------------------
(***************************************************************************)
(* What main writes.  The theorems about Json are those of JsonProofs, for *)
(* the binary file of the program.  What follows first is that the program *)
(* takes the steps that they are about.                                    *)
(***************************************************************************)
Proofs == INSTANCE JsonProofs WITH
    FileSize <- BinarySize, File <- Binary,
    Positions <- {}, Requests <- {}, MaxPos <- 0, MaxMade <- MaxObjects - 1,
    filePos <- binaryPos, ioError <- binaryError, buffer <- window, asked <- asks

\* Binaries and Proofs!Json are one module under the same substitution: their
\* definitions, all of them expanded here, are the same formulas.
LEMMA SameModule ==
  /\ Binaries!JsonInit => Proofs!JsonInit
  /\ Binaries!ParseFile => Proofs!ParseFile
  /\ Binaries!DumpJsonObject => Proofs!DumpJsonObject
  /\ Binaries!Walk => Proofs!Walk
  /\ UNCHANGED binaryVars <=> UNCHANGED Proofs!jsonVars
  /\ Proofs!JsonNext => Binaries!JsonNext
  /\ UNCHANGED binaryVars => UNCHANGED Binaries!jsonVars
  /\ Proofs!DumpIsFile => Binaries!DumpIsFile
  /\ Proofs!DumpIsWhole => Binaries!DumpIsWhole
  /\ Proofs!GetFieldNames(1) \subseteq Proofs!WrittenFields
        => Binaries!GetFieldNames(1) \subseteq Binaries!WrittenFields
  /\ Proofs!FileAssumption /\ Proofs!BufferAssumption
  /\ Proofs!FieldsAssumption /\ Proofs!JsonAssumption
BY BinaryAssumption
DEF binaryVars, BinaryAssumption,
    Binaries!JsonInit, Binaries!ObjectsInit, Binaries!NewWindow,
    Binaries!Idle, Binaries!NoAnswer, Binaries!NoField, Binaries!NoResult,
    Binaries!NoValue, Binaries!WalkInit, Binaries!ParseFile,
    Binaries!SeekTo, Binaries!SeekInWindow, Binaries!InWindow,
    Binaries!FromBytes, Binaries!Answer, Binaries!SeekReader,
    Binaries!MoveWindow, Binaries!ClipToByte, Binaries!BitOffset,
    Binaries!ReaderSeek, Binaries!Clamp, Binaries!ByteCount,
    Binaries!SeekFails, Binaries!ReaderSeekFails, Binaries!readerVars,
    Binaries!Position, Binaries!CalculateSize, Binaries!FieldOffset,
    Binaries!Object, Binaries!Layout, Binaries!DumpJsonObject,
    Binaries!Frame, Binaries!GetFieldNames, Binaries!allVars,
    Binaries!readerAll, Binaries!objectVars, Binaries!Walk,
    Binaries!AskField, Binaries!Top, Binaries!GetCached, Binaries!Parsed,
    Binaries!EnsureField, Binaries!Bounded, Binaries!Info, Binaries!Fail,
    Binaries!Below, Binaries!Reads, Binaries!Continue, Binaries!ReadInteger,
    Binaries!Begin, Binaries!MakeRoom, Binaries!Compact,
    Binaries!windowVars, Binaries!Ensured, Binaries!Got, Binaries!Keep,
    Binaries!BytesValue, Binaries!ReadObject, Binaries!ObjectValue,
    Binaries!Loop, Binaries!Fill, Binaries!FillRead, Binaries!Short,
    Binaries!ReaderRead, Binaries!Available, Binaries!Received,
    Binaries!FillEof, Binaries!Return, Binaries!Buffered,
    Binaries!FillFails, Binaries!ReaderReadFails, Binaries!FillDone,
    Binaries!walkVars, Binaries!DumpJsonValue, Binaries!ValueGot,
    Binaries!Enter, Binaries!EndObject, Binaries!DumpIsFile, Binaries!To,
    Binaries!From, Binaries!FileBytes, Binaries!DumpIsWhole,
    Binaries!WrittenFields, Binaries!WrittenObjects, Binaries!jsonVars,
    Binaries!JsonNext, Binaries!Application, Binaries!ObjectsNext,
    Binaries!Reopen, Binaries!GetUnknown, Binaries!AllFields,
    Binaries!ClearCache, Binaries!ReparseObject, Binaries!Cardinality,
    Binaries!FileAssumption, Binaries!BufferAssumption,
    Binaries!FieldsAssumption, Binaries!JsonAssumption, Proofs!JsonInit,
    Proofs!ObjectsInit, Proofs!NewWindow, Proofs!Idle, Proofs!NoAnswer,
    Proofs!NoField, Proofs!NoResult, Proofs!NoValue, Proofs!WalkInit,
    Proofs!ParseFile, Proofs!SeekTo, Proofs!SeekInWindow, Proofs!InWindow,
    Proofs!FromBytes, Proofs!Answer, Proofs!SeekReader, Proofs!MoveWindow,
    Proofs!ClipToByte, Proofs!BitOffset, Proofs!ReaderSeek, Proofs!Clamp,
    Proofs!ByteCount, Proofs!SeekFails, Proofs!ReaderSeekFails,
    Proofs!readerVars, Proofs!Position, Proofs!CalculateSize,
    Proofs!FieldOffset, Proofs!Object, Proofs!Layout, Proofs!DumpJsonObject,
    Proofs!Frame, Proofs!GetFieldNames, Proofs!allVars, Proofs!readerAll,
    Proofs!objectVars, Proofs!Walk, Proofs!AskField, Proofs!Top,
    Proofs!GetCached, Proofs!Parsed, Proofs!EnsureField, Proofs!Bounded,
    Proofs!Info, Proofs!Fail, Proofs!Below, Proofs!Reads, Proofs!Continue,
    Proofs!ReadInteger, Proofs!Begin, Proofs!MakeRoom, Proofs!Compact,
    Proofs!windowVars, Proofs!Ensured, Proofs!Got, Proofs!Keep,
    Proofs!BytesValue, Proofs!ReadObject, Proofs!ObjectValue, Proofs!Loop,
    Proofs!Fill, Proofs!FillRead, Proofs!Short, Proofs!ReaderRead,
    Proofs!Available, Proofs!Received, Proofs!FillEof, Proofs!Return,
    Proofs!Buffered, Proofs!FillFails, Proofs!ReaderReadFails,
    Proofs!FillDone, Proofs!walkVars, Proofs!DumpJsonValue, Proofs!ValueGot,
    Proofs!Enter, Proofs!EndObject, Proofs!DumpIsFile, Proofs!To,
    Proofs!From, Proofs!FileBytes, Proofs!DumpIsWhole, Proofs!WrittenFields,
    Proofs!WrittenObjects, Proofs!jsonVars, Proofs!JsonNext,
    Proofs!Application, Proofs!ObjectsNext, Proofs!Reopen,
    Proofs!GetUnknown, Proofs!AllFields, Proofs!ClearCache,
    Proofs!ReparseObject, Proofs!Cardinality, Proofs!FileAssumption,
    Proofs!BufferAssumption, Proofs!FieldsAssumption, Proofs!JsonAssumption

\* Until a file is parsed nothing is written, the object that is dumped is the
\* first, and whatever of the dump is not yet written is still to be asked for.
DumpInv ==
    /\ Proofs!JsonInv
    /\ Proofs!Tree(objs)
    /\ at \in {"arguments", "definition", "file"} =>
           frames = <<>> /\ asks = Proofs!NoField /\ written = <<>> /\ failed = FALSE
    /\ at = "file" /\ returned = "value" => Len(objs) = 1
    /\ at = "dump" \/ status = 0 => Proofs!WholeFrom(1)
    /\ status = 0 => at = "ended" /\ frames = <<>>
    /\ status \in {1, Aborted} => at = "ended" /\ written = <<>>
    /\ at = "ended" \/ status = Running

LEMMA InitDumpInv == ProgramInit => DumpInv
<1> SUFFICES ASSUME ProgramInit PROVE DumpInv
  OBVIOUS
<1>1. Proofs!JsonInit /\ at = "arguments" /\ status = Running
  BY SameModule DEF ProgramInit
<1>2. Proofs!JsonInv
  BY <1>1, SameModule, Proofs!InitJsonInv
<1>3. frames = <<>> /\ asks = Proofs!NoField /\ written = <<>> /\ failed = FALSE
      /\ objs = <<>>
  BY <1>1 DEF Proofs!JsonInit, Proofs!WalkInit, Proofs!ObjectsInit
<1>4. Proofs!Tree(objs)
  BY <1>3, SameModule, Proofs!NoTree
<1> QED BY <1>1, <1>2, <1>3, <1>4 DEF DumpInv, Running, Aborted

\* A step that leaves the binary file and its dump alone.
LEMMA DumpAlone ==
  ASSUME DumpInv, UNCHANGED binaryVars
  PROVE  /\ Proofs!JsonInv' /\ Proofs!Tree(objs')
         /\ UNCHANGED <<frames, asks, written, failed, objs>>
         /\ Proofs!WholeFrom(1) => Proofs!WholeFrom(1)'
<1>1. UNCHANGED Proofs!jsonVars
  BY SameModule
<1>2. Proofs!JsonInv'
  BY <1>1, SameModule, Proofs!NextKeepsJsonInv DEF DumpInv
<1>3. UNCHANGED <<frames, asks, written, failed, objs>>
  BY DEF binaryVars
<1>4. Proofs!Tree(objs')
  BY <1>3 DEF DumpInv
<1>5. Proofs!WholeFrom(1) => Proofs!WholeFrom(1)'
  BY <1>3, SameModule, Proofs!StutterKeepsWhole
<1> QED BY <1>2, <1>3, <1>4, <1>5

\* main on its way to the dump, or to an end without one.
LEMMA OnTheWay ==
  ASSUME DumpInv, UNCHANGED binaryVars,
         at \in {"arguments", "definition", "file"},
         \/ at' \in {"arguments", "definition", "file"} /\ status' = status
            /\ (at' = "file" /\ returned' = "value" => at = "file" /\ returned = "value")
         \/ at' = "ended" /\ status' \in {1, Aborted}
  PROVE  DumpInv'
<1>1. status = Running
  BY DEF DumpInv
<1>2. Proofs!NoField' = Proofs!NoField
  BY DEF Proofs!NoField
<1>3. /\ frames = <<>> /\ asks = Proofs!NoField /\ written = <<>> /\ failed = FALSE
      /\ at = "file" /\ returned = "value" => Len(objs) = 1
  BY DEF DumpInv
<1>4. /\ Proofs!JsonInv' /\ Proofs!Tree(objs')
      /\ frames' = frames /\ asks' = asks /\ written' = written /\ failed' = failed
      /\ objs' = objs
  BY DumpAlone
<1>5. CASE /\ at' \in {"arguments", "definition", "file"} /\ status' = status
           /\ (at' = "file" /\ returned' = "value" => at = "file" /\ returned = "value")
  BY <1>1, <1>2, <1>3, <1>4, <1>5 DEF DumpInv, Running, Aborted
<1>6. CASE at' = "ended" /\ status' \in {1, Aborted}
  BY <1>3, <1>4, <1>6 DEF DumpInv, Running, Aborted
<1> QED BY <1>5, <1>6

\* ParseFile makes one object, if it returns one.
LEMMA ParseFileKeepsDump == DumpInv /\ ParseFile => DumpInv'
<1> SUFFICES ASSUME DumpInv, ParseFile PROVE DumpInv'
  OBVIOUS
<1>1. /\ Proofs!ParseFile /\ at = "file" /\ at' = "file" /\ status' = status
      /\ UNCHANGED <<frames, asks, written, failed>>
      /\ returned' = "value" => pc' = "app"
  BY SameModule DEF ParseFile, Calls, Returns
<1>2. frames = <<>> /\ asks = Proofs!NoField /\ written = <<>> /\ failed = FALSE
      /\ status = Running
  BY <1>1 DEF DumpInv
<1>3. Proofs!JsonNext
  BY <1>1, <1>2 DEF Proofs!JsonNext, Proofs!Application, Proofs!ObjectsNext
<1>4. Proofs!JsonInv' /\ Proofs!Tree(objs')
  BY <1>3, SameModule, Proofs!NextKeepsJsonInv, Proofs!JsonKeepsTree DEF DumpInv
<1>5. pc' = "app" => Len(objs') = 1
  BY <1>1 DEF Proofs!ParseFile
<1>6. Proofs!NoField' = Proofs!NoField
  BY DEF Proofs!NoField
<1> QED BY <1>1, <1>2, <1>4, <1>5, <1>6 DEF DumpInv, Running, Aborted

\* The dump, from its begin to its end.
LEMMA DumpKeeps ==
  DumpInv /\ (ReportFile \/ Dump \/ ReturnZero) => DumpInv'
<1> SUFFICES ASSUME DumpInv, ReportFile \/ Dump \/ ReturnZero PROVE DumpInv'
  OBVIOUS
<1>1. CASE ReportFile
  <2>1. /\ at = "file" /\ returned = "value" /\ at' = "dump" /\ status' = status
        /\ Proofs!DumpJsonObject
    BY <1>1, SameModule DEF ReportFile, Report
  <2>2. Len(objs) = 1 /\ status = Running
    BY <2>1 DEF DumpInv
  <2>3. Proofs!JsonInv' /\ Proofs!Tree(objs') /\ Proofs!WholeFrom(1)'
    BY <2>1, <2>2, SameModule, Proofs!RootDumpBegins DEF DumpInv
  <2> QED BY <2>1, <2>2, <2>3 DEF DumpInv, Running, Aborted
<1>2. CASE Dump
  <2>1. at = "dump" /\ at' = "dump" /\ status' = status /\ Proofs!Walk
    BY <1>2, SameModule DEF Dump, mainVars
  <2>2. Proofs!WholeFrom(1) /\ status = Running
    BY <2>1 DEF DumpInv
  <2>3. Proofs!JsonInv' /\ Proofs!Tree(objs') /\ Proofs!WholeFrom(1)'
    BY <2>1, <2>2, SameModule, Proofs!RootDumpGoesOn DEF DumpInv
  <2> QED BY <2>1, <2>2, <2>3 DEF DumpInv, Running, Aborted
<1>3. CASE ReturnZero
  <2>1. at = "dump" /\ frames = <<>> /\ at' = "ended" /\ status' = 0 /\ UNCHANGED binaryVars
    BY <1>3 DEF ReturnZero
  <2> QED BY <2>1, DumpAlone DEF DumpInv, Running, Aborted
<1> QED BY <1>1, <1>2, <1>3

LEMMA NextKeepsDumpInv == DumpInv /\ [ProgramNext]_programVars => DumpInv'
<1> SUFFICES ASSUME DumpInv, [ProgramNext]_programVars PROVE DumpInv'
  OBVIOUS
<1>1. CASE ArgumentsGood \/ ArgumentsBad
  BY <1>1, OnTheWay DEF ArgumentsGood, ArgumentsBad
<1>2. CASE ReadDefinition
  BY <1>2, OnTheWay DEF ReadDefinition, Calls, mainVars
<1>3. CASE ReadDefinitionFails
  BY <1>3, OnTheWay DEF ReadDefinitionFails, Calls, Returns
<1>4. CASE CreateFromDefinition
  BY <1>4, OnTheWay DEF CreateFromDefinition, Calls, Returns
<1>5. CASE DefinitionThrows
  BY <1>5, OnTheWay DEF DefinitionThrows, Calls
<1>6. CASE ReportParser
  BY <1>6, OnTheWay DEF ReportParser, Report
<1>7. CASE ReportNull("definition") \/ ReportNull("file")
  BY <1>7, OnTheWay DEF ReportNull, Report
<1>8. CASE ParseFileFails
  BY <1>8, OnTheWay DEF ParseFileFails, Calls, Returns
<1>9. CASE UNCHANGED programVars
  <2>1. UNCHANGED <<at, returned, status>> /\ UNCHANGED binaryVars
    BY <1>9 DEF programVars, mainVars
  <2>2. Proofs!NoField' = Proofs!NoField
    BY DEF Proofs!NoField
  <2> QED BY <2>1, <2>2, DumpAlone DEF DumpInv
<1> QED BY <1>1, <1>2, <1>3, <1>4, <1>5, <1>6, <1>7, <1>8, <1>9, ParseFileKeepsDump,
           DumpKeeps DEF ProgramNext

(***************************************************************************)
(* What the program writes is what the file has, or null where it ends or  *)
(* fails; a program that returns 0 has written each field of the root and  *)
(* of the objects in it once, and one that fails has written none.         *)
(***************************************************************************)
THEOREM ProgramOutputIsWhole == ProgramSpec => []OutputIsWhole
<1>1. DumpInv => OutputIsWhole
  <2> SUFFICES ASSUME DumpInv PROVE OutputIsWhole
    OBVIOUS
  <2>1. Binaries!DumpIsFile
    BY SameModule, Proofs!WrittenIsFile DEF DumpInv
  <2>2. status = 0 => /\ Binaries!DumpIsWhole
                      /\ Binaries!GetFieldNames(1) \subseteq Binaries!WrittenFields
    BY SameModule, Proofs!RootDumpEnds DEF DumpInv
  <2> QED BY <2>1, <2>2 DEF DumpInv, OutputIsWhole
<1> QED BY InitDumpInv, NextKeepsDumpInv, <1>1, PTL DEF ProgramSpec

\* The program does to the binary file, and to the walk over it, only what Json does.
LEMMA NextIsJsonStep ==
  DumpInv /\ [ProgramNext]_programVars => [Binaries!JsonNext]_(Binaries!jsonVars)
<1> SUFFICES ASSUME DumpInv, [ProgramNext]_programVars
             PROVE  Proofs!JsonNext \/ UNCHANGED binaryVars
  BY SameModule
<1>1. CASE ParseFile
  <2>1. /\ Proofs!ParseFile /\ at = "file" /\ UNCHANGED <<frames, asks, written, failed>>
    BY <1>1, SameModule DEF ParseFile, Calls
  <2> QED BY <2>1 DEF DumpInv, Proofs!JsonNext, Proofs!Application, Proofs!ObjectsNext
<1>2. CASE ReportFile \/ Dump
  BY <1>2, SameModule DEF ReportFile, Dump, Proofs!JsonNext
<1>3. CASE ArgumentsGood \/ ArgumentsBad \/ ReturnZero
  BY <1>3 DEF ArgumentsGood, ArgumentsBad, ReturnZero
<1>4. CASE \/ ReadDefinition \/ ReadDefinitionFails \/ CreateFromDefinition
           \/ DefinitionThrows \/ ParseFileFails
  BY <1>4 DEF ReadDefinition, ReadDefinitionFails, CreateFromDefinition,
     DefinitionThrows, ParseFileFails
<1>5. CASE ReportParser \/ ReportNull("definition") \/ ReportNull("file")
  BY <1>5 DEF ReportParser, ReportNull
<1>6. CASE UNCHANGED programVars
  BY <1>6 DEF programVars
<1> QED BY <1>1, <1>2, <1>3, <1>4, <1>5, <1>6 DEF ProgramNext

\* And to the definition file, only what ReadFully does.
LEMMA NextIsFullyStep == [ProgramNext]_programVars => [Step]_fullyVars
<1> SUFFICES ASSUME [ProgramNext]_programVars PROVE Step \/ UNCHANGED fullyVars
  OBVIOUS
<1>1. CASE ReadDefinition \/ ReadDefinitionFails
  BY <1>1 DEF ReadDefinition, ReadDefinitionFails, Step
<1>2. CASE \/ ArgumentsGood \/ ArgumentsBad \/ CreateFromDefinition \/ DefinitionThrows
           \/ ReportParser \/ ReportNull("definition") \/ ReportNull("file")
           \/ ParseFile \/ ParseFileFails \/ ReportFile \/ Dump \/ ReturnZero
  BY <1>2 DEF ArgumentsGood, ArgumentsBad, CreateFromDefinition, DefinitionThrows,
     ReportParser, ReportNull, ParseFile, ParseFileFails, ReportFile, Dump, ReturnZero
<1>3. CASE UNCHANGED programVars
  BY <1>3 DEF programVars
<1> QED BY <1>1, <1>2, <1>3 DEF ProgramNext

(***************************************************************************)
(* main only composes: each of its runs is one of ReadFully on the         *)
(* definition file and one of Json on the binary file, so that all that is *)
(* proved of the two holds in the program.                                 *)
(***************************************************************************)
THEOREM ProgramComposes ==
  ProgramSpec => FullySpec /\ Binaries!JsonSpec
<1>1. ProgramInit => FullyInit /\ Binaries!JsonInit
  BY DEF ProgramInit
<1> QED BY <1>1, InitDumpInv, NextKeepsDumpInv, NextIsJsonStep, NextIsFullyStep, PTL
        DEF ProgramSpec, FullySpec, Binaries!JsonSpec
=============================================================================
