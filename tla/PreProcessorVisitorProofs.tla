--------------------- MODULE PreProcessorVisitorProofs ---------------------
(***************************************************************************)
(* Proofs about PreProcessorVisitor, for any headers, versions of Qt and      *)
(* number of steps.                                                        *)
(***************************************************************************)
EXTENDS PreProcessorVisitor, TLAPS

Pair == [begin : Locations, end : Locations \cup {NoLocation}]
Include == [fileName : Headers, IsAngled : BOOLEAN, end : Locations]
Function == [loc : Locations, between : BOOLEAN]

\* The files that are open: the main file is the first of them.
FilesInv ==
    /\ steps \in 0..MaxSteps
    /\ fileCount \in 1..steps + 1
    /\ open \in Seq(FileIds) /\ Len(open) > 0
    /\ open[1] = 1
    /\ unclosed \subseteq FileIds

\* What is known of the version: nothing, or the truth.
VersionInv ==
    /\ qt \in Versions
    /\ part \in [Parts -> Int]
    /\ \A name \in Parts : part[name] \in {Unknown, stringToNumber(qt, name)}
    /\ m_qtVersion \in {Unknown, Encoded(qt[1], qt[2], qt[3])}

\* All pairs of a file are closed, but for the last one of a file that has an
\* open namespace, and all of it happened before now.
PairsInv ==
    /\ m_q_namespace_macro_locations \in [FileIds -> Seq(Pair)]
    /\ \A f \in FileIds : \A i \in 1..Len(m_q_namespace_macro_locations[f]) :
        LET pair == m_q_namespace_macro_locations[f][i] IN
          /\ pair.begin.file = f
          /\ pair.begin.at <= steps /\ pair.end.at <= steps
          /\ pair.end = NoLocation <=> f \in unclosed /\ i = Len(m_q_namespace_macro_locations[f])
    /\ \A f \in unclosed : Len(m_q_namespace_macro_locations[f]) > 0

\* A location is behind the begin of a pair and not behind its end.
Around(pairs, at) ==
    \E i \in 1..Len(pairs) :
        /\ pairs[i].begin.at < at
        /\ pairs[i].end = NoLocation \/ at < pairs[i].end.at

FunctionsInv ==
    \A g \in functions :
        /\ g \in Function
        /\ g.loc.at <= steps
        /\ g.between <=> Around(m_q_namespace_macro_locations[g.loc.file], g.loc.at)

IncludesInv ==
    /\ m_includeInfo \in Seq(Include)
    /\ \A i \in 1..Len(m_includeInfo) :
        /\ m_includeInfo[i].end.file = 1
        /\ m_includeInfo[i].end.at <= steps
        /\ \A j \in i..Len(m_includeInfo) : m_includeInfo[i].end.at <= m_includeInfo[j].end.at

FlagsInv == plan \in Plans /\ {predefined, definedInCode, m_isQtNoKeywords, m_OSMacroExists} \subseteq BOOLEAN

IInv == FilesInv /\ VersionInv /\ PairsInv /\ FunctionsInv /\ IncludesInv /\ FlagsInv

-----------------------------------------------------------------------------
\* The invariant holds of a translation unit of which nothing was read.
LEMMA InitInv == Init => IInv
<1> SUFFICES ASSUME Init PROVE IInv
  OBVIOUS
<1> USE DEF Init
<1>1. FilesInv
  BY BoundAssumption DEF FilesInv, FileIds
<1>2. VersionInv
  BY DEF VersionInv, Unknown
<1>3. PairsInv
  <2>1. <<>> \in Seq(Pair) /\ Len(<<>>) = 0
    OBVIOUS
  <2>2. \A f \in FileIds : m_q_namespace_macro_locations[f] = <<>>
    OBVIOUS
  <2>3. m_q_namespace_macro_locations \in [FileIds -> Seq(Pair)]
    BY <2>1
  <2>4. \A f \in FileIds : 1..Len(m_q_namespace_macro_locations[f]) = {}
    BY <2>1, <2>2
  <2> QED BY <2>3, <2>4 DEF PairsInv
<1>4. FunctionsInv
  BY DEF FunctionsInv
<1>5. IncludesInv
  <2>1. m_includeInfo = <<>> /\ Len(m_includeInfo) = 0
    OBVIOUS
  <2> QED BY <2>1 DEF IncludesInv
<1>6. FlagsInv
  BY DEF FlagsInv
<1> QED BY <1>1, <1>2, <1>3, <1>4, <1>5, <1>6 DEF IInv

\* The file that is read, and the place in it.
LEMMA HereType ==
    ASSUME FilesInv, steps < MaxSteps
    PROVE  /\ File \in FileIds
           /\ Here \in Locations
           /\ Here.file = File /\ Here.at = steps + 1
           /\ isInPrimaryFile => File = 1
           /\ Here # NoLocation
<1>1. Len(open) \in DOMAIN open
  BY DEF FilesInv
<1>2. File \in FileIds
  BY <1>1 DEF FilesInv, File, Last
<1> QED BY <1>2, BoundAssumption DEF FilesInv, File, Last, Here, Locations, isInPrimaryFile, NoLocation, FileIds

\* A step opens a file, closes the last one that was opened, or keeps them.
LEMMA FilesStep == ASSUME FilesInv, Next PROVE FilesInv'
<1>1. steps' \in 0..MaxSteps /\ steps' = steps + 1
  BY BoundAssumption DEF Next, FilesInv
<1>2. CASE UNCHANGED files
  BY <1>1, <1>2 DEF FilesInv, files
<1>3. CASE handleQtNamespaceMacro
  <2>1. File \in FileIds
    BY HereType DEF Next
  <2> QED BY <1>1, <1>3, <2>1 DEF FilesInv, handleQtNamespaceMacro
<1>4. CASE InclusionDirective
  <2>1. fileCount' \in FileIds
    BY <1>4, BoundAssumption DEF InclusionDirective, FilesInv, FileIds, Next
  <2>2. open' = Append(open, fileCount') /\ fileCount' = fileCount + 1 /\ unclosed' = unclosed
    BY <1>4 DEF InclusionDirective
  <2> QED BY <1>1, <2>1, <2>2 DEF FilesInv
<1>5. CASE EndOfFile
  <2>1. open' = SubSeq(open, 1, Len(open) - 1)
    BY <1>5 DEF EndOfFile, Front
  <2>2. Len(open) \in Nat /\ Len(open) > 1
    <3>1. Len(open) # 1
      BY <1>5 DEF EndOfFile, isInPrimaryFile
    <3>2. Len(open) \in Nat
      BY DEF FilesInv
    <3>3. Len(open) > 0
      BY DEF FilesInv
    <3> QED BY <3>1, <3>2, <3>3
  <2>3. open' \in Seq(FileIds) /\ Len(open') > 0 /\ open'[1] = 1
    BY <2>1, <2>2 DEF FilesInv
  <2>4. fileCount' = fileCount /\ unclosed' = unclosed
    BY <1>5 DEF EndOfFile
  <2> QED BY <1>1, <2>3, <2>4 DEF FilesInv
<1>6. UNCHANGED files \/ handleQtNamespaceMacro \/ InclusionDirective \/ EndOfFile
  BY DEF Next, files, ExpandVersion, DeclareFunction, DefineNoKeywords, ExpandNoKeywords,
         UseKeyword, DefineOs, TestOs
<1> QED BY <1>2, <1>3, <1>4, <1>5, <1>6

\* The parts are those of Qt, and so is what they are put together to.
LEMMA VersionStep == ASSUME VersionInv, Next PROVE VersionInv'
<1>1. qt' = qt
  BY DEF Next, unit
<1>2. CASE UNCHANGED version
  BY <1>1, <1>2 DEF VersionInv, version
<1>3. CASE ExpandVersion /\ m_qtVersion = Unknown
  <2>1. PICK name \in Parts : part' = [part EXCEPT ![name] = stringToNumber(qt, name)]
    BY <1>3 DEF ExpandVersion
  <2>2. m_qtVersion' = updateQtVersion(part')
    BY <1>3 DEF ExpandVersion
  <2>3. \A n \in Parts : stringToNumber(qt, n) \in Nat
    BY VersionsAssumption DEF VersionInv, stringToNumber
  <2>4. part' \in [Parts -> Int] /\ \A n \in Parts : part'[n] \in {Unknown, stringToNumber(qt, n)}
    BY <2>1, <2>3 DEF VersionInv
  <2>5. CASE \E n \in Parts : part'[n] = Unknown
    BY <1>1, <2>2, <2>4, <2>5 DEF VersionInv, updateQtVersion
  <2>6. CASE \A n \in Parts : part'[n] # Unknown
    <3>1. /\ part'["QT_VERSION_MAJOR"] = qt[1]
          /\ part'["QT_VERSION_MINOR"] = qt[2]
          /\ part'["QT_VERSION_PATCH"] = qt[3]
      BY <2>4, <2>6 DEF Parts, stringToNumber
    <3>2. m_qtVersion' = Encoded(qt[1], qt[2], qt[3])
      BY <2>2, <2>6, <3>1 DEF updateQtVersion
    <3> QED BY <1>1, <2>4, <3>2 DEF VersionInv
  <2> QED BY <2>5, <2>6
<1>4. UNCHANGED version \/ (ExpandVersion /\ m_qtVersion = Unknown)
  BY DEF Next, version, ExpandVersion, handleQtNamespaceMacro, DeclareFunction, InclusionDirective,
         EndOfFile, DefineNoKeywords, ExpandNoKeywords, UseKeyword, DefineOs, TestOs
<1> QED BY <1>2, <1>3, <1>4

\* A begin opens the last pair of the file that is read, an end closes it.
LEMMA PairsStep == ASSUME FilesInv, PairsInv, Next PROVE PairsInv'
<1> DEFINE locs == m_q_namespace_macro_locations
<1>1. /\ steps \in Nat /\ steps' = steps + 1
      /\ File \in FileIds /\ Here \in Locations
      /\ Here.file = File /\ Here.at = steps + 1 /\ Here # NoLocation
  BY HereType, BoundAssumption DEF Next, FilesInv
<1>2. \A f \in FileIds : \A i \in 1..Len(locs[f]) :
        locs[f][i].begin.at \in Int /\ locs[f][i].end.at \in Int
  <2> SUFFICES ASSUME NEW f \in FileIds, NEW i \in 1..Len(locs[f])
               PROVE  locs[f][i].begin.at \in Int /\ locs[f][i].end.at \in Int
    OBVIOUS
  <2>1. locs[f] \in Seq(Pair)
    BY DEF PairsInv
  <2>2. locs[f][i] \in Pair
    BY <2>1
  <2> QED BY <2>2, BoundAssumption DEF Pair, Locations, NoLocation
<1>3. CASE UNCHANGED <<locs, unclosed>>
  BY <1>1, <1>2, <1>3 DEF PairsInv
<1>4. CASE File \notin unclosed /\ unclosed' = unclosed \cup {File}
           /\ locs' = [locs EXCEPT ![File] = BeginAt(@, Here)]
  <2> DEFINE new == [begin |-> Here, end |-> NoLocation]
  <2>1. new \in Pair
    BY <1>1 DEF Pair
  <2>2. locs \in [FileIds -> Seq(Pair)]
    BY DEF PairsInv
  <2>3. locs'[File] = Append(locs[File], new)
    BY <1>1, <1>4, <2>2 DEF BeginAt
  <2>4. \A f \in FileIds \ {File} : locs'[f] = locs[f]
    BY <1>4, <2>2
  <2>5. locs' \in [FileIds -> Seq(Pair)]
    <3>1. locs[File] \in Seq(Pair)
      BY <1>1, <2>2
    <3>2. BeginAt(locs[File], Here) \in Seq(Pair)
      BY <2>1, <3>1 DEF BeginAt
    <3> QED BY <1>4, <2>2, <3>2
  <2>6. /\ Len(locs'[File]) = Len(locs[File]) + 1
        /\ Len(locs[File]) \in Nat
        /\ locs'[File][Len(locs[File]) + 1] = new
        /\ \A i \in 1..Len(locs[File]) : locs'[File][i] = locs[File][i]
    BY <1>1, <2>1, <2>2, <2>3
  <2>7. \A f \in FileIds : \A i \in 1..Len(locs'[f]) :
          LET pair == locs'[f][i] IN
            /\ pair.begin.file = f
            /\ pair.begin.at <= steps' /\ pair.end.at <= steps'
            /\ pair.end = NoLocation <=> f \in unclosed' /\ i = Len(locs'[f])
    <3> SUFFICES ASSUME NEW f \in FileIds, NEW i \in 1..Len(locs'[f])
                 PROVE  LET pair == locs'[f][i] IN
                          /\ pair.begin.file = f
                          /\ pair.begin.at <= steps' /\ pair.end.at <= steps'
                          /\ pair.end = NoLocation <=> f \in unclosed' /\ i = Len(locs'[f])
      OBVIOUS
    <3>1. CASE f # File
      BY <1>1, <1>2, <1>4, <2>4, <3>1 DEF PairsInv
    <3>2. CASE f = File /\ i = Len(locs[File]) + 1
      BY <1>1, <1>4, <2>6, <3>2 DEF NoLocation
    <3>3. CASE f = File /\ i \in 1..Len(locs[File])
      <4>1. locs'[f][i] = locs[f][i] /\ locs[f][i].end # NoLocation /\ i # Len(locs'[f])
        BY <1>4, <2>6, <3>3 DEF PairsInv
      <4> QED BY <1>1, <1>2, <3>3, <4>1 DEF PairsInv
    <3> QED BY <2>6, <3>1, <3>2, <3>3
  <2>8. \A f \in unclosed' : Len(locs'[f]) > 0
    BY <1>1, <1>4, <2>4, <2>6 DEF PairsInv, FilesInv
  <2> QED BY <2>5, <2>7, <2>8 DEF PairsInv
<1>5. CASE File \in unclosed /\ unclosed' = unclosed \ {File}
           /\ locs' = [locs EXCEPT ![File] = EndAt(@, Here)]
  <2> DEFINE last == Len(locs[File])
             new == [locs[File][last] EXCEPT !.end = Here]
  <2>1. locs \in [FileIds -> Seq(Pair)] /\ locs[File] \in Seq(Pair)
    BY <1>1 DEF PairsInv
  <2>2. last \in Nat /\ last > 0 /\ last \in 1..last
    BY <1>5, <2>1 DEF PairsInv
  <2>3. locs[File][last] \in Pair
    BY <2>1, <2>2
  <2>4. new \in Pair /\ new.begin = locs[File][last].begin /\ new.end = Here
    BY <1>1, <2>3 DEF Pair
  <2>5. locs'[File] = [locs[File] EXCEPT ![last] = new]
    <3>1. locs[File] # <<>>
      BY <2>2
    <3> QED BY <1>1, <1>5, <2>1, <3>1 DEF EndAt
  <2>6. /\ locs'[File] \in Seq(Pair)
        /\ Len(locs'[File]) = last
        /\ locs'[File][last] = new
        /\ \A i \in 1..last : i # last => locs'[File][i] = locs[File][i]
    BY <2>1, <2>2, <2>4, <2>5
  <2>7. \A f \in FileIds \ {File} : locs'[f] = locs[f]
    BY <1>5, <2>1
  <2>8. locs' \in [FileIds -> Seq(Pair)]
    <3>1. locs' = [locs EXCEPT ![File] = locs'[File]]
      BY <1>1, <1>5, <2>1
    <3> QED BY <2>1, <2>6, <3>1
  <2>9. \A f \in FileIds : \A i \in 1..Len(locs'[f]) :
          LET pair == locs'[f][i] IN
            /\ pair.begin.file = f
            /\ pair.begin.at <= steps' /\ pair.end.at <= steps'
            /\ pair.end = NoLocation <=> f \in unclosed' /\ i = Len(locs'[f])
    <3> SUFFICES ASSUME NEW f \in FileIds, NEW i \in 1..Len(locs'[f])
                 PROVE  LET pair == locs'[f][i] IN
                          /\ pair.begin.file = f
                          /\ pair.begin.at <= steps' /\ pair.end.at <= steps'
                          /\ pair.end = NoLocation <=> f \in unclosed' /\ i = Len(locs'[f])
      OBVIOUS
    <3>1. CASE f # File
      <4>1. locs'[f] = locs[f] /\ (f \in unclosed' <=> f \in unclosed)
        BY <1>5, <2>7, <3>1
      <4>2. /\ locs[f][i].begin.file = f
            /\ locs[f][i].begin.at <= steps /\ locs[f][i].end.at <= steps
            /\ locs[f][i].end = NoLocation <=> f \in unclosed /\ i = Len(locs[f])
        BY <4>1 DEF PairsInv
      <4>3. locs[f][i].begin.at <= steps' /\ locs[f][i].end.at <= steps'
        BY <1>1, <1>2, <4>1, <4>2
      <4>4. locs'[f][i].end = NoLocation <=> f \in unclosed' /\ i = Len(locs'[f])
        BY <4>1, <4>2
      <4>5. locs'[f][i].begin.file = f
        BY <4>1, <4>2
      <4> QED BY <4>1, <4>3, <4>4, <4>5
    <3>2. CASE f = File /\ i = last
      <4>1. locs'[f][i].begin = locs[f][i].begin /\ locs'[f][i].end = Here
        BY <2>4, <2>6, <3>2
      <4>2. locs[f][i].begin.file = f /\ locs[f][i].begin.at <= steps /\ locs[f][i].begin.at \in Int
        BY <1>2, <2>2, <3>2 DEF PairsInv
      <4>3. locs'[f][i].begin.at <= steps' /\ locs'[f][i].end.at <= steps'
        BY <1>1, <4>1, <4>2
      <4>4. f \notin unclosed' /\ locs'[f][i].end # NoLocation
        BY <1>1, <1>5, <3>2, <4>1
      <4> QED BY <4>1, <4>2, <4>3, <4>4
    <3>3. CASE f = File /\ i # last
      BY <1>1, <1>2, <1>5, <2>2, <2>6, <3>3 DEF PairsInv
    <3> QED BY <3>1, <3>2, <3>3
  <2>10. \A f \in unclosed' : Len(locs'[f]) > 0
    BY <1>5, <2>7 DEF PairsInv, FilesInv
  <2> QED BY <2>8, <2>9, <2>10 DEF PairsInv
<1>6. \/ UNCHANGED <<locs, unclosed>>
      \/ handleQtNamespaceMacro
  BY DEF Next, files, ExpandVersion, DeclareFunction, InclusionDirective, EndOfFile,
         DefineNoKeywords, ExpandNoKeywords, UseKeyword, DefineOs, TestOs
<1>7. handleQtNamespaceMacro =>
        \/ /\ File \notin unclosed /\ unclosed' = unclosed \cup {File}
           /\ locs' = [locs EXCEPT ![File] = BeginAt(@, Here)]
        \/ /\ File \in unclosed /\ unclosed' = unclosed \ {File}
           /\ locs' = [locs EXCEPT ![File] = EndAt(@, Here)]
  BY DEF handleQtNamespaceMacro, KeyOf
<1> QED BY <1>3, <1>4, <1>5, <1>6, <1>7

\* A pair that opens or closes now neither adds nor takes away an earlier
\* function; a function that is declared now is in the open pair or in none.
LEMMA FunctionsStep == ASSUME FilesInv, PairsInv, FunctionsInv, Next PROVE FunctionsInv'
<1> DEFINE locs == m_q_namespace_macro_locations
<1>1. /\ steps \in Nat /\ steps' = steps + 1
      /\ File \in FileIds /\ Here \in Locations
      /\ Here.file = File /\ Here.at = steps + 1 /\ Here # NoLocation
  BY HereType, BoundAssumption DEF Next, FilesInv
<1>2. \A f \in FileIds : /\ locs[f] \in Seq(Pair)
                         /\ Len(locs[f]) \in Nat
                         /\ \A i \in 1..Len(locs[f]) :
                                locs[f][i].begin.at \in Int /\ locs[f][i].end.at \in Int
  <2> SUFFICES ASSUME NEW f \in FileIds
               PROVE  /\ locs[f] \in Seq(Pair)
                      /\ Len(locs[f]) \in Nat
                      /\ \A i \in 1..Len(locs[f]) :
                                locs[f][i].begin.at \in Int /\ locs[f][i].end.at \in Int
    OBVIOUS
  <2>1. locs[f] \in Seq(Pair)
    BY DEF PairsInv
  <2>2. \A i \in 1..Len(locs[f]) : locs[f][i] \in Pair
    BY <2>1
  <2> QED BY <2>1, <2>2, BoundAssumption DEF Pair, Locations, NoLocation
<1>3. \A g \in functions : g \in Function /\ g.loc.file \in FileIds /\ g.loc.at \in Int
                           /\ g.loc.at <= steps /\ g.loc.at <= steps'
  BY <1>1, BoundAssumption DEF FunctionsInv, Function, Locations
<1>4. CASE UNCHANGED <<locs, functions>>
  BY <1>3, <1>4 DEF FunctionsInv
<1>5. CASE DeclareFunction
  <2> DEFINE new == [loc |-> Here, between |-> File \in unclosed]
  <2>1. functions' = functions \cup {new} /\ locs' = locs
    BY <1>5 DEF DeclareFunction
  <2>2. new \in Function
    BY <1>1 DEF Function
  <2>3. ASSUME File \in unclosed <=> Around(locs[File], steps + 1)
        PROVE  FunctionsInv'
    <3> SUFFICES ASSUME NEW g \in functions'
                 PROVE  /\ g \in Function
                        /\ g.loc.at <= steps'
                        /\ g.between <=> Around(locs'[g.loc.file], g.loc.at)
      BY DEF FunctionsInv
    <3>1. CASE g = new
      <4>1. g.loc = Here /\ g.between = (File \in unclosed)
        BY <3>1
      <4>2. g.loc.file = File /\ g.loc.at = steps + 1
        BY <1>1, <4>1
      <4>3. Around(locs'[g.loc.file], g.loc.at) <=> Around(locs[File], steps + 1)
        BY <2>1, <4>2
      <4>4. g.between <=> Around(locs'[g.loc.file], g.loc.at)
        BY <2>3, <4>1, <4>3
      <4>5. g.loc.at <= steps'
        BY <1>1, <4>2
      <4> QED BY <2>2, <3>1, <4>4, <4>5
    <3>2. CASE g \in functions
      BY <1>3, <2>1, <3>2 DEF FunctionsInv
    <3> QED BY <2>1, <3>1, <3>2
  <2>4. CASE File \in unclosed
    <3>1. Len(locs[File]) \in 1..Len(locs[File])
      BY <1>1, <1>2, <2>4 DEF PairsInv
    <3>2. locs[File][Len(locs[File])].end = NoLocation /\ locs[File][Len(locs[File])].begin.at <= steps
      BY <1>1, <2>4, <3>1 DEF PairsInv
    <3>3. Around(locs[File], steps + 1)
      BY <1>1, <1>2, <3>1, <3>2 DEF Around
    <3> QED BY <2>4, <2>3, <3>3
  <2>5. CASE File \notin unclosed
    <3>1. \A i \in 1..Len(locs[File]) : locs[File][i].end # NoLocation /\ locs[File][i].end.at <= steps
      BY <1>1, <2>5 DEF PairsInv
    <3>2. ~Around(locs[File], steps + 1)
      BY <1>1, <1>2, <3>1 DEF Around
    <3> QED BY <2>5, <2>3, <3>2
  <2> QED BY <2>4, <2>5
<1>6. ASSUME functions' = functions,
             \A f \in FileIds, at \in 0..steps : Around(locs'[f], at) <=> Around(locs[f], at)
      PROVE  FunctionsInv'
  <2> SUFFICES ASSUME NEW g \in functions
               PROVE  /\ g \in Function
                      /\ g.loc.at <= steps'
                      /\ g.between <=> Around(locs'[g.loc.file], g.loc.at)
    BY <1>6 DEF FunctionsInv
  <2>1. g.loc.file \in FileIds /\ g.loc.at \in 0..steps
    BY <1>1, <1>3, BoundAssumption DEF Function, Locations
  <2> QED BY <1>3, <1>6, <2>1 DEF FunctionsInv
<1>7. CASE handleQtNamespaceMacro /\ File \notin unclosed
  <2> DEFINE new == [begin |-> Here, end |-> NoLocation]
             old == locs[File]
  <2>1. locs' = [locs EXCEPT ![File] = Append(old, new)] /\ functions' = functions
    BY <1>7 DEF handleQtNamespaceMacro, KeyOf, BeginAt, history
  <2>2. locs \in [FileIds -> Seq(Pair)]
    BY DEF PairsInv
  <2>3. /\ locs'[File] = Append(old, new)
        /\ \A f \in FileIds \ {File} : locs'[f] = locs[f]
    BY <1>1, <2>1, <2>2
  <2>4. /\ Len(locs'[File]) = Len(old) + 1
        /\ locs'[File][Len(old) + 1] = new
        /\ \A i \in 1..Len(old) : locs'[File][i] = old[i]
    BY <1>1, <1>2, <2>3
  <2>5. ASSUME NEW at \in 0..steps
        PROVE  Around(locs'[File], at) <=> Around(old, at)
    <3>1. \A i \in 1..Len(old) + 1 : i \in 1..Len(old) \/ i = Len(old) + 1
      BY <1>1, <1>2
    <3>2. ~(new.begin.at < at)
      BY <1>1
    <3>3. \A i \in 1..Len(old) : i \in 1..Len(old) + 1
      BY <1>1, <1>2
    <3> QED BY <2>4, <3>1, <3>2, <3>3 DEF Around
  <2> QED BY <1>6, <2>1, <2>3, <2>5
<1>8. CASE handleQtNamespaceMacro /\ File \in unclosed
  <2> DEFINE old == locs[File]
             last == Len(old)
             new == [old[last] EXCEPT !.end = Here]
  <2>1. locs \in [FileIds -> Seq(Pair)] /\ old \in Seq(Pair)
    BY <1>1 DEF PairsInv
  <2>2. last \in 1..last /\ old # <<>> /\ old[last] \in Pair /\ old[last].end = NoLocation
    <3>1. last > 0 /\ last \in Nat
      BY <1>1, <1>2, <1>8 DEF PairsInv
    <3>2. last \in 1..last
      BY <3>1
    <3>3. old[last] \in Pair
      BY <2>1, <3>2
    <3>4. old[last].end = NoLocation
      BY <1>1, <1>8, <3>2 DEF PairsInv
    <3>5. old # <<>>
      BY <3>1
    <3> QED BY <3>2, <3>3, <3>4, <3>5
  <2>3. new.begin = old[last].begin /\ new.end = Here
    BY <2>2 DEF Pair
  <2>4. locs' = [locs EXCEPT ![File] = [old EXCEPT ![last] = new]] /\ functions' = functions
    BY <1>8, <2>2 DEF handleQtNamespaceMacro, KeyOf, EndAt, history
  <2>5. /\ locs'[File] = [old EXCEPT ![last] = new]
        /\ \A f \in FileIds \ {File} : locs'[f] = locs[f]
    BY <1>1, <2>1, <2>4
  <2>6. /\ Len(locs'[File]) = last
        /\ locs'[File][last] = new
        /\ \A i \in 1..last : i # last => locs'[File][i] = old[i]
    BY <2>1, <2>2, <2>5
  <2>7. ASSUME NEW at \in 0..steps
        PROVE  Around(locs'[File], at) <=> Around(old, at)
    <3>1. at < new.end.at
      BY <1>1, <2>3
    <3> QED BY <2>2, <2>3, <2>6, <3>1 DEF Around
  <2> QED BY <1>6, <2>4, <2>5, <2>7
<1>9. UNCHANGED <<locs, functions>> \/ DeclareFunction \/ handleQtNamespaceMacro
  BY DEF Next, history, ExpandVersion, InclusionDirective, EndOfFile,
         DefineNoKeywords, ExpandNoKeywords, UseKeyword, DefineOs, TestOs
<1> QED BY <1>4, <1>5, <1>7, <1>8, <1>9

\* An include is remembered while the main file is read, behind all others.
LEMMA IncludesStep == ASSUME FilesInv, IncludesInv, Next PROVE IncludesInv'
<1>1. /\ steps \in Nat /\ steps' = steps + 1
      /\ Here \in Locations /\ Here.file = File /\ Here.at = steps + 1
      /\ isInPrimaryFile => File = 1
  BY HereType, BoundAssumption DEF Next, FilesInv
<1>2. Len(m_includeInfo) \in Nat /\ \A i \in 1..Len(m_includeInfo) : m_includeInfo[i].end.at \in Int
  <2>1. \A i \in 1..Len(m_includeInfo) : m_includeInfo[i] \in Include
    BY DEF IncludesInv
  <2> QED BY <2>1, BoundAssumption DEF IncludesInv, Include, Locations
<1>3. CASE m_includeInfo' = m_includeInfo
  BY <1>1, <1>2, <1>3 DEF IncludesInv
<1>4. CASE InclusionDirective /\ m_includeInfo' # m_includeInfo
  <2>1. PICK name \in Headers \cup {Moc}, IsAngled \in BOOLEAN :
            /\ m_includeInfo' = Append(m_includeInfo, [fileName |-> name, IsAngled |-> IsAngled, end |-> Here])
            /\ isInPrimaryFile /\ name # Moc
    BY <1>4 DEF InclusionDirective, Records
  <2> DEFINE new == [fileName |-> name, IsAngled |-> IsAngled, end |-> Here]
             n == Len(m_includeInfo)
  <2>2. new \in Include /\ new.end.file = 1 /\ new.end.at = steps + 1
    BY <1>1, <2>1 DEF Include
  <2>3. /\ m_includeInfo' \in Seq(Include) /\ Len(m_includeInfo') = n + 1
        /\ m_includeInfo'[n + 1] = new
        /\ \A i \in 1..n : m_includeInfo'[i] = m_includeInfo[i]
    BY <2>1, <2>2 DEF IncludesInv
  <2>4. ASSUME NEW i \in 1..n + 1
        PROVE  /\ m_includeInfo'[i].end.file = 1
               /\ m_includeInfo'[i].end.at <= steps'
               /\ \A j \in i..n + 1 : m_includeInfo'[i].end.at <= m_includeInfo'[j].end.at
    <3>1. CASE i = n + 1
      BY <1>1, <1>2, <2>2, <2>3, <3>1
    <3>2. CASE i \in 1..n
      <4>1. m_includeInfo'[i] = m_includeInfo[i] /\ m_includeInfo[i].end.file = 1
            /\ m_includeInfo[i].end.at <= steps /\ m_includeInfo[i].end.at \in Int
        BY <1>2, <2>3, <3>2 DEF IncludesInv
      <4>2. ASSUME NEW j \in i..n + 1
            PROVE  m_includeInfo'[i].end.at <= m_includeInfo'[j].end.at
        <5>1. CASE j = n + 1
          BY <1>1, <2>2, <2>3, <4>1, <5>1
        <5>2. CASE j # n + 1
          <6>1. j \in 1..n /\ j \in i..n
            BY <1>2, <3>2, <5>2
          <6> QED BY <2>3, <3>2, <4>1, <6>1 DEF IncludesInv
        <5> QED BY <5>1, <5>2
      <4> QED BY <1>1, <4>1, <4>2
    <3> QED BY <1>2, <3>1, <3>2
  <2> QED BY <2>3, <2>4 DEF IncludesInv
<1>5. m_includeInfo' = m_includeInfo \/ InclusionDirective
  BY DEF Next, ExpandVersion, handleQtNamespaceMacro, DeclareFunction, EndOfFile,
         DefineNoKeywords, ExpandNoKeywords, UseKeyword, DefineOs, TestOs
<1> QED BY <1>3, <1>4, <1>5

\* The flags stay flags.
LEMMA FlagsStep == ASSUME FlagsInv, Next PROVE FlagsInv'
BY DEF FlagsInv, Next, unit, ExpandVersion, handleQtNamespaceMacro, DeclareFunction,
       InclusionDirective, EndOfFile, DefineNoKeywords, ExpandNoKeywords, UseKeyword, DefineOs, TestOs

\* The invariant only speaks of the variables.
LEMMA StutterInv == ASSUME IInv, UNCHANGED vars PROVE IInv'
<1> USE DEF vars, unit, files, version, history
<1>1. FilesInv' /\ VersionInv' /\ FlagsInv'
  BY DEF IInv, FilesInv, VersionInv, FlagsInv
<1>2. PairsInv' /\ FunctionsInv' /\ IncludesInv'
  BY DEF IInv, PairsInv, FunctionsInv, IncludesInv
<1> QED BY <1>1, <1>2 DEF IInv

\* IInv is inductive: the lemmas above have one part of it each.
THEOREM Invariance == Spec => []IInv
<1>1. IInv /\ Next => IInv'
  BY FilesStep, VersionStep, PairsStep, FunctionsStep, IncludesStep, FlagsStep DEF IInv
<1>2. IInv /\ UNCHANGED vars => IInv'
  BY StutterInv
<1> QED BY InitInv, <1>1, <1>2, PTL DEF Spec

-----------------------------------------------------------------------------
\* VersionIsThatOfQt: updateQtVersion() never puts a version together from
\* parts that are not all known, whatever is expanded in whatever order.
THEOREM VersionCorrect == Spec => []VersionIsThatOfQt
<1>1. IInv => VersionIsThatOfQt
  BY DEF IInv, VersionInv, VersionIsThatOfQt
<1> QED BY Invariance, <1>1, PTL

\* FunctionsAreBetweenTheirMacros: isBetweenQtNamespaceMacros() tells the
\* functions that QT_BEGIN_NAMESPACE and QT_END_NAMESPACE surround in their own
\* file, however the files include each other.
THEOREM NamespacesCorrect == Spec => []FunctionsAreBetweenTheirMacros
<1> DEFINE locs == m_q_namespace_macro_locations
<1>1. ASSUME IInv PROVE FunctionsAreBetweenTheirMacros
  <2> SUFFICES ASSUME NEW g \in functions, g.loc.file \notin unclosed
               PROVE  isBetweenQtNamespaceMacros(g.loc) <=> g.between
    BY DEF FunctionsAreBetweenTheirMacros
  <2> DEFINE pairs == locs[g.loc.file]
  <2>1. g.loc.file \in FileIds /\ (g.between <=> Around(pairs, g.loc.at))
    BY <1>1 DEF IInv, FunctionsInv, Function, Locations
  <2>2. pairs \in Seq(Pair) /\ \A i \in 1..Len(pairs) : pairs[i].end # NoLocation
    BY <1>1, <2>1 DEF IInv, PairsInv
  <2>3. ToSet(pairs) = {pairs[i] : i \in 1..Len(pairs)}
    BY <2>2 DEF ToSet
  <2>4. isBetweenQtNamespaceMacros(g.loc) <=> Around(pairs, g.loc.at)
    BY <2>2, <2>3 DEF isBetweenQtNamespaceMacros, Around, KeyOf
  <2> QED BY <2>1, <2>4
<1> QED BY Invariance, <1>1, PTL

\* IncludeSectionIsInTheMainFile: a fix-it that adds an #include behind
\* endOfIncludeSection() writes into the main file, behind its last #include.
THEOREM IncludesCorrect == Spec => []IncludeSectionIsInTheMainFile
<1>1. ASSUME IInv PROVE IncludeSectionIsInTheMainFile
  <2> SUFFICES ASSUME m_includeInfo # <<>>
               PROVE  /\ endOfIncludeSection.file = 1
                      /\ \A i \in ToSet(m_includeInfo) : i.end.at <= endOfIncludeSection.at
    BY DEF IncludeSectionIsInTheMainFile
  <2>1. m_includeInfo \in Seq(Include)
    BY <1>1 DEF IInv, IncludesInv
  <2>2. Len(m_includeInfo) \in 1..Len(m_includeInfo)
    BY <2>1
  <2>3. endOfIncludeSection = m_includeInfo[Len(m_includeInfo)].end
    BY DEF endOfIncludeSection, Last
  <2>4. ToSet(m_includeInfo) = {m_includeInfo[i] : i \in 1..Len(m_includeInfo)}
    BY <2>1 DEF ToSet
  <2>5. \A i \in 1..Len(m_includeInfo) : Len(m_includeInfo) \in i..Len(m_includeInfo)
    BY <2>2
  <2>6. \A i \in 1..Len(m_includeInfo) : m_includeInfo[i].end.at <= m_includeInfo[Len(m_includeInfo)].end.at
    BY <1>1, <2>5 DEF IInv, IncludesInv
  <2>7. m_includeInfo[Len(m_includeInfo)].end.file = 1
    BY <1>1, <2>2 DEF IInv, IncludesInv
  <2> QED BY <2>3, <2>4, <2>6, <2>7
<1> QED BY Invariance, <1>1, PTL

\* TypeOK: every variable stays in its type.
THEOREM TypeCorrect == Spec => []TypeOK
<1>1. ASSUME IInv PROVE TypeOK
  <2>1. /\ steps \in 0..MaxSteps /\ open \in Seq(FileIds) /\ fileCount \in 1..steps + 1
        /\ unclosed \subseteq FileIds
    BY <1>1 DEF IInv, FilesInv
  <2>2. fileCount \in FileIds
    BY <2>1, BoundAssumption DEF FileIds
  <2>3. qt \in Versions /\ part \in [Parts -> Int]
        /\ m_qtVersion \in {Unknown, Encoded(qt[1], qt[2], qt[3])}
    BY <1>1 DEF IInv, VersionInv
  <2>4. m_qtVersion \in Int
    BY <2>3, VersionsAssumption DEF Encoded, Unknown
  <2>5. plan \in Plans /\ {predefined, definedInCode, m_isQtNoKeywords, m_OSMacroExists} \subseteq BOOLEAN
    BY <1>1 DEF IInv, FlagsInv
  <2>6. DOMAIN m_q_namespace_macro_locations = FileIds
    BY <1>1 DEF IInv, PairsInv
  <2>7. ASSUME NEW f \in FileIds, NEW pair \in ToSet(m_q_namespace_macro_locations[f])
        PROVE  /\ pair.begin \in Locations /\ pair.end \in Locations \cup {NoLocation}
               /\ pair.begin.file = f
    <3> DEFINE pairs == m_q_namespace_macro_locations[f]
    <3>1. pairs \in Seq(Pair)
      BY <1>1 DEF IInv, PairsInv
    <3>2. PICK i \in 1..Len(pairs) : pair = pairs[i]
      BY <3>1 DEF ToSet
    <3>3. pair \in Pair
      BY <3>1, <3>2
    <3> QED BY <1>1, <3>2, <3>3 DEF IInv, PairsInv, Pair
  <2>8. ASSUME NEW i \in ToSet(m_includeInfo)
        PROVE  i.fileName \in Headers /\ i.IsAngled \in BOOLEAN /\ i.end \in Locations
    <3>1. m_includeInfo \in Seq(Include)
      BY <1>1 DEF IInv, IncludesInv
    <3>2. i \in Include
      BY <3>1 DEF ToSet
    <3> QED BY <3>2 DEF Include
  <2> QED BY <2>1, <2>2, <2>3, <2>4, <2>5, <2>6, <2>7, <2>8 DEF TypeOK
<1> QED BY Invariance, <1>1, PTL

-----------------------------------------------------------------------------
(* The tests of Q_OS_ macros.                                               *)

\* What was said about a test follows from what was known when it was read.
TestsInv ==
    \A t \in tests :
        /\ t.version \in {Unknown, Encoded(qt[1], qt[2], qt[3])}
        /\ t.warning =
            IF t.how = "ifndef" \/ usingPreCompiledHeaders THEN "nothing"
            ELSE IF TooOldForWindows(t.version) /\ t.macro = "Q_OS_WINDOWS" THEN "use Q_OS_WIN"
            ELSE IF t.early THEN "include qglobal.h" ELSE "nothing"

\* The version and the macros of a test are those of the moment it is read.
LEMMA TestsStep ==
    ASSUME VersionInv, TestsInv, Next
    PROVE  TestsInv'
<1>1. qt' = qt /\ (usingPreCompiledHeaders' <=> usingPreCompiledHeaders)
  BY DEF Next, unit, usingPreCompiledHeaders
<1>2. CASE tests' = tests
  BY <1>1, <1>2 DEF TestsInv
<1>3. CASE TestOs
  <2>1. PICK macro \in {"Q_OS_WINDOWS", "Q_OS_LINUX"}, how \in {"ifdef", "ifndef", "defined"} :
          tests' = tests \cup
            {[macro |-> macro, how |-> how, at |-> Here, early |-> ~m_OSMacroExists,
              version |-> m_qtVersion,
              warning |-> VisitTest(how, macro)]}
    BY <1>3 DEF TestOs
  <2> DEFINE new == [macro |-> macro, how |-> how, at |-> Here, early |-> ~m_OSMacroExists,
                     version |-> m_qtVersion,
                     warning |-> VisitTest(how, macro)]
  <2>2. /\ new.macro = macro /\ new.how = how /\ new.version = m_qtVersion
        /\ new.early = ~m_OSMacroExists
        /\ new.warning = VisitTest(how, macro)
    OBVIOUS
  <2>3. tests' = tests \cup {new}
    BY <2>1
  <2> HIDE DEF new
  <2>4. new.warning =
            IF new.how = "ifndef" \/ usingPreCompiledHeaders THEN "nothing"
            ELSE IF TooOldForWindows(new.version) /\ new.macro = "Q_OS_WINDOWS" THEN "use Q_OS_WIN"
            ELSE IF new.early THEN "include qglobal.h" ELSE "nothing"
    BY <2>2 DEF VisitTest, checkIfDef
  <2>5. new.version \in {Unknown, Encoded(qt[1], qt[2], qt[3])}
    BY <2>2 DEF VersionInv
  <2> QED BY <1>1, <2>3, <2>4, <2>5 DEF TestsInv
<1>4. tests' = tests \/ TestOs
  BY DEF Next, history, ExpandVersion, handleQtNamespaceMacro, DeclareFunction, InclusionDirective,
         EndOfFile, DefineNoKeywords, ExpandNoKeywords, UseKeyword, DefineOs
<1> QED BY <1>2, <1>3, <1>4

\* OsTestsAreJudged: QtMacros::checkIfDef never passes over a test of a Q_OS_
\* macro that comes before qglobal.h, and with a known version it complains
\* about Q_OS_WINDOWS for the Qts that lack it and for no other.
THEOREM OsTestsCorrect == Spec => []OsTestsAreJudged
<1>1. Init => TestsInv
  BY DEF Init, TestsInv
<1>2. IInv /\ TestsInv /\ [Next]_vars => TestsInv'
  <2>1. ASSUME TestsInv, UNCHANGED vars PROVE TestsInv'
    BY <2>1 DEF TestsInv, vars, unit, history, usingPreCompiledHeaders
  <2> QED BY <2>1, TestsStep DEF IInv
<1>3. IInv /\ TestsInv => OsTestsAreJudged
  <2> SUFFICES ASSUME IInv, TestsInv, NEW t \in tests, t.how # "ifndef"
               PROVE  /\ t.early => (t.warning = "nothing" <=> usingPreCompiledHeaders)
                      /\ ~t.early /\ t.macro = "Q_OS_WINDOWS" /\ t.version # Unknown
                            /\ ~usingPreCompiledHeaders =>
                          (t.warning = "use Q_OS_WIN"
                           <=> Encoded(qt[1], qt[2], qt[3]) < Encoded(5, 12, 4))
    BY DEF OsTestsAreJudged
  <2>1. /\ t.version \in {Unknown, Encoded(qt[1], qt[2], qt[3])}
        /\ t.warning =
              IF usingPreCompiledHeaders THEN "nothing"
              ELSE IF TooOldForWindows(t.version) /\ t.macro = "Q_OS_WINDOWS" THEN "use Q_OS_WIN"
              ELSE IF t.early THEN "include qglobal.h" ELSE "nothing"
    BY DEF TestsInv
  <2>2. \A v : TooOldForWindows(v) <=> v < Encoded(5, 12, 4)
    <3>1. Encoded(5, 12, 4) = 51204
      BY DEF Encoded
    <3> HIDE DEF Encoded
    <3> QED BY <3>1 DEF TooOldForWindows
  <2>3. t.early => (t.warning = "nothing" <=> usingPreCompiledHeaders)
    BY <2>1
  <2>4. ASSUME ~t.early, t.macro = "Q_OS_WINDOWS", t.version # Unknown, ~usingPreCompiledHeaders
        PROVE  t.warning = "use Q_OS_WIN" <=> Encoded(qt[1], qt[2], qt[3]) < Encoded(5, 12, 4)
    <3>1. t.version = Encoded(qt[1], qt[2], qt[3])
      BY <2>1, <2>4
    <3>2. t.warning = "use Q_OS_WIN" <=> TooOldForWindows(t.version)
      BY <2>1, <2>4
    <3> QED BY <2>2, <3>1, <3>2
  <2> QED BY <2>3, <2>4
<1> QED BY <1>1, <1>2, <1>3, Invariance, PTL DEF Spec
=============================================================================
