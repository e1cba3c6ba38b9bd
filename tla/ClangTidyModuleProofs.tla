------------------------ MODULE ClangTidyModuleProofs ------------------------
(***************************************************************************)
(* Theorems about ClangTidyModule for any checks, any requested ones and any *)
(* list of files.                                                          *)
(***************************************************************************)
EXTENDS ClangTidyModule, FiniteSetTheorems, SequenceTheorems, TLAPS

\* A sequence with one element replaced.
LEMMA ReplacedElement ==
    ASSUME NEW S, NEW s \in Seq(S), NEW i \in DOMAIN s, NEW e \in S
    PROVE  /\ [s EXCEPT ![i] = e] \in Seq(S) /\ Len([s EXCEPT ![i] = e]) = Len(s)
           /\ DOMAIN [s EXCEPT ![i] = e] = DOMAIN s
           /\ [s EXCEPT ![i] = e][i] = e
           /\ \A j \in DOMAIN s : j # i => [s EXCEPT ![i] = e][j] = s[j]
BY ExceptSeq

\* The objects after one of them has registered.
LEMMA RegisteredObject ==
    ASSUME objects \in Seq(Object), NEW i \in DOMAIN objects,
           NEW checks \in SUBSET Checks, NEW context \in {"none", "preprocessor", "ast"}
    PROVE  objects' = [objects EXCEPT ![i].m_allChecks = checks, ![i].context = context] =>
             /\ objects' \in Seq(Object) /\ DOMAIN objects' = DOMAIN objects
             /\ Len(objects') = Len(objects)
             /\ \A j \in DOMAIN objects : j # i => objects'[j] = objects[j]
             /\ objects'[i].name = objects[i].name
             /\ objects'[i].m_shouldRunClazyChecks = objects[i].m_shouldRunClazyChecks
             /\ objects'[i].m_allChecks = checks
             /\ objects'[i].context = context
<1> DEFINE o == [objects[i] EXCEPT !.m_allChecks = checks, !.context = context]
<1>1. objects[i] \in Object
  OBVIOUS
<1>2. /\ o \in Object
      /\ o.name = objects[i].name
      /\ o.m_shouldRunClazyChecks = objects[i].m_shouldRunClazyChecks
      /\ o.m_allChecks = checks
      /\ o.context = context
  BY <1>1 DEF Object
<1>3. [objects EXCEPT ![i].m_allChecks = checks, ![i].context = context]
        = [objects EXCEPT ![i] = o]
  OBVIOUS
<1> HIDE DEF o
<1>4. ASSUME objects' = [objects EXCEPT ![i] = o]
      PROVE  /\ objects' \in Seq(Object) /\ DOMAIN objects' = DOMAIN objects
             /\ Len(objects') = Len(objects)
             /\ objects'[i] = o
             /\ \A j \in DOMAIN objects : j # i => objects'[j] = objects[j]
  BY <1>2, <1>4, ReplacedElement
<1> QED BY <1>2, <1>3, <1>4

\* The objects after one of them got its AST.
LEMMA MatchedObject ==
    ASSUME objects \in Seq(Object), NEW i \in DOMAIN objects,
           objects' = [objects EXCEPT ![i].context = "ast"]
    PROVE  /\ objects' \in Seq(Object) /\ DOMAIN objects' = DOMAIN objects
           /\ Len(objects') = Len(objects)
           /\ \A j \in DOMAIN objects :
                 /\ objects'[j].name = objects[j].name
                 /\ objects'[j].m_shouldRunClazyChecks = objects[j].m_shouldRunClazyChecks
                 /\ objects'[j].m_allChecks = objects[j].m_allChecks
                 /\ objects'[j].context = IF j = i THEN "ast" ELSE objects[j].context
<1> DEFINE o == [objects[i] EXCEPT !.context = "ast"]
<1>1. objects[i] \in Object
  OBVIOUS
<1>2. /\ o \in Object
      /\ o.name = objects[i].name
      /\ o.m_shouldRunClazyChecks = objects[i].m_shouldRunClazyChecks
      /\ o.m_allChecks = objects[i].m_allChecks
      /\ o.context = "ast"
  BY <1>1 DEF Object
<1>3. objects' = [objects EXCEPT ![i] = o]
  OBVIOUS
<1> HIDE DEF o
<1> QED BY <1>2, <1>3

\* The object that ClazyCheck::ClazyCheck makes.
LEMMA ConstructedObject ==
    ASSUME TypeOK, NEW c \in Checks, ConstructCheck(c)
    PROVE  LET n == Len(objects) IN
           /\ objects' \in Seq(Object) /\ s_enabledChecks' \in Seq(Checks)
           /\ Len(objects') = n + 1 /\ Len(s_enabledChecks') = Len(s_enabledChecks) + 1
           /\ DOMAIN objects' = 1..(n + 1)
           /\ \A i \in DOMAIN objects : objects'[i] = objects[i]
           /\ objects'[n + 1].name = c
           /\ objects'[n + 1].m_shouldRunClazyChecks = ShouldRun(file[1])
           /\ objects'[n + 1].m_allChecks = {} /\ objects'[n + 1].context = "none"
           /\ \A i \in DOMAIN s_enabledChecks : s_enabledChecks'[i] = s_enabledChecks[i]
           /\ s_enabledChecks'[Len(s_enabledChecks) + 1] = c
<1> DEFINE o == [name |-> c, m_shouldRunClazyChecks |-> ShouldRun(file[1]),
                 m_allChecks |-> {}, context |-> "none"]
<1>1. ShouldRun(file[1]) \in BOOLEAN
  BY DEF ShouldRun
<1>2. o \in Object
  BY <1>1 DEF Object
<1>3. /\ o.name = c /\ o.m_shouldRunClazyChecks = ShouldRun(file[1])
      /\ o.m_allChecks = {} /\ o.context = "none"
  OBVIOUS
<1>4. /\ objects' = Append(objects, o) /\ s_enabledChecks' = Append(s_enabledChecks, c)
      /\ objects \in Seq(Object) /\ s_enabledChecks \in Seq(Checks)
  BY DEF ConstructCheck, TypeOK
<1> HIDE DEF o
<1>5. /\ objects' \in Seq(Object) /\ Len(objects') = Len(objects) + 1
      /\ \A i \in DOMAIN objects : objects'[i] = objects[i]
      /\ objects'[Len(objects) + 1] = o
      /\ DOMAIN objects' = 1..(Len(objects) + 1)
  BY <1>2, <1>4
<1>6. /\ s_enabledChecks' \in Seq(Checks) /\ Len(s_enabledChecks') = Len(s_enabledChecks) + 1
      /\ \A i \in DOMAIN s_enabledChecks : s_enabledChecks'[i] = s_enabledChecks[i]
      /\ s_enabledChecks'[Len(s_enabledChecks) + 1] = c
  BY <1>4
<1> QED BY <1>3, <1>5, <1>6

-----------------------------------------------------------------------------
\* Between the start and the end of a file there is a file.
FileIsThere == phase \notin {"between", "done"} => Len(file) = 1

\* Every variable keeps its type, for any list of files: a finished visit has
\* a file, because checks are only destroyed when there is one.
THEOREM TypeCorrect == Spec => [](TypeOK /\ FileIsThere)
<1>1. Init => TypeOK /\ FileIsThere
  <2> SUFFICES ASSUME Init PROVE TypeOK /\ FileIsThere
    OBVIOUS
  <2>1. Cardinality(Files) \in Nat
    BY FS_CardinalityType, FilesAssumption
  <2>2. queue \in [1..Cardinality(Files) -> Files]
    BY DEF Init
  <2>3. queue \in Seq(Files)
    BY <2>1, <2>2
  <2>4. walked \in [Checks -> Nat]
    BY DEF Init
  <2> QED BY <2>3, <2>4 DEF Init, TypeOK, Phases, FileIsThere
<1>2. TypeOK /\ FileIsThere /\ [Next]_vars => TypeOK'
  <2> SUFFICES ASSUME TypeOK, FileIsThere, [Next]_vars PROVE TypeOK'
    OBVIOUS
  <2>1. CASE NextFile
    <3>1. CASE queue = << >>
      BY <2>1, <3>1 DEF NextFile, TypeOK, Phases
    <3>2. CASE queue # << >>
      <4>1. Head(queue) \in Files /\ Tail(queue) \in Seq(Files)
        BY <3>2 DEF TypeOK
      <4>2. <<Head(queue)>> \in Seq(Files) /\ Len(<<Head(queue)>>) <= 1
        BY <4>1
      <4> QED BY <2>1, <3>2, <4>1, <4>2 DEF NextFile, TypeOK, Phases
    <3> QED BY <3>1, <3>2
  <2>2. CASE StartRegistering
    BY <2>2 DEF StartRegistering, TypeOK, Phases
  <2>3. CASE RegisterCheck
    <3> DEFINE i == registering + 1
    <3>1. i \in DOMAIN objects /\ registering' = i
      BY <2>3 DEF RegisterCheck, TypeOK
    <3>2. CASE objects[i].m_shouldRunClazyChecks
      <4>1. /\ objects' = [objects EXCEPT ![i].m_allChecks = ChecksToRun,
                                          ![i].context = "preprocessor"]
            /\ heard' = heard \cup (ChecksToRun \cap CallbackChecks)
        BY <2>3, <3>2 DEF RegisterCheck, ContextAfterRegistering
      <4>2. ChecksToRun \in SUBSET Checks
        BY DEF ChecksToRun
      <4>3. objects' \in Seq(Object) /\ Len(objects') = Len(objects)
        BY <3>1, <4>1, <4>2, RegisteredObject DEF TypeOK
      <4>4. i \in 0..Len(objects')
        BY <3>1, <4>3 DEF TypeOK
      <4> HIDE DEF i
      <4> QED BY <2>3, <3>1, <4>1, <4>3, <4>4 DEF RegisterCheck, TypeOK
    <3>3. CASE ~objects[i].m_shouldRunClazyChecks
      <4>1. objects' = objects /\ heard' = heard
        BY <2>3, <3>3 DEF RegisterCheck
      <4>2. i \in 0..Len(objects)
        BY <3>1 DEF TypeOK
      <4> HIDE DEF i
      <4> QED BY <2>3, <3>1, <4>1, <4>2 DEF RegisterCheck, TypeOK
    <3> QED BY <3>2, <3>3
  <2>4. CASE Parse
    BY <2>4 DEF Parse, TypeOK, Phases
  <2>5. CASE Match
    BY <2>5 DEF Match, TypeOK, Phases
  <2>6. CASE DestroyChecks
    <3> DEFINE v == [file |-> file[1], heard |-> heard, walked |-> walked]
    <3>0. file \in Seq(Files) /\ Len(file) = 1
      BY <2>6 DEF DestroyChecks, FileIsThere, TypeOK
    <3>1. file[1] \in Files
      BY <3>0
    <3>2. v \in [file : Files, heard : SUBSET CallbackChecks, walked : [Checks -> Nat]]
      BY <3>1 DEF TypeOK
    <3>3. visits' \in Seq([file : Files, heard : SUBSET CallbackChecks, walked : [Checks -> Nat]])
      BY <2>6, <3>2 DEF DestroyChecks, TypeOK
    <3>4. walked' \in [Checks -> Nat]
      BY <2>6 DEF DestroyChecks
    <3> QED BY <2>6, <3>3, <3>4 DEF DestroyChecks, TypeOK, Phases
  <2>7. ASSUME NEW c \in Checks, ConstructCheck(c)
        PROVE  TypeOK'
    <3>1. objects' \in Seq(Object) /\ s_enabledChecks' \in Seq(Checks) /\ Len(objects') = Len(objects) + 1
      BY <2>7, ConstructedObject
    <3>2. registering \in 0..Len(objects')
      BY <3>1 DEF TypeOK
    <3> QED BY <2>7, <3>1, <3>2 DEF ConstructCheck, TypeOK
  <2>8. ASSUME NEW i \in DOMAIN objects, CheckTranslationUnit(i)
        PROVE  TypeOK'
    <3>1. CASE objects[i].context = "none"
      <4>1. phase' = "crashed" /\ UNCHANGED <<requested, queue, file, s_enabledChecks, objects,
                                                registering, heard, visits, walked>>
        BY <2>8, <3>1 DEF CheckTranslationUnit
      <4> QED BY <4>1 DEF TypeOK, Phases
    <3>2. CASE objects[i].context # "none"
      <4>1. objects' = [objects EXCEPT ![i].context = "ast"]
        BY <2>8, <3>2 DEF CheckTranslationUnit
      <4>2. objects' \in Seq(Object) /\ Len(objects') = Len(objects)
        BY <4>1, MatchedObject DEF TypeOK
      <4> DEFINE all == objects[i].m_allChecks
      <4>5. walked' = [c \in Checks |-> walked[c] + (IF c \in all THEN 1 ELSE 0)]
        BY <2>8, <3>2 DEF CheckTranslationUnit
      <4> HIDE DEF all
      <4>3. walked' \in [Checks -> Nat]
        BY <4>5 DEF TypeOK
      <4>4. UNCHANGED <<requested, queue, file, phase, s_enabledChecks, registering, heard, visits>>
        BY <2>8, <3>2 DEF CheckTranslationUnit
      <4> QED BY <4>2, <4>3, <4>4 DEF TypeOK
    <3> QED BY <3>1, <3>2
  <2>9. CASE UNCHANGED vars
    BY <2>9 DEF vars, TypeOK
  <2> QED BY <2>1, <2>2, <2>3, <2>4, <2>5, <2>6, <2>7, <2>8, <2>9 DEF Next
<1>3. TypeOK /\ FileIsThere /\ [Next]_vars => FileIsThere'
  <2> SUFFICES ASSUME TypeOK, FileIsThere, [Next]_vars PROVE FileIsThere'
    OBVIOUS
  <2>1. CASE NextFile
    BY <2>1 DEF NextFile, FileIsThere
  <2>2. CASE UNCHANGED file /\ (phase \in {"between", "done"} => phase' = phase)
    BY <2>2 DEF FileIsThere
  <2>3. CASE StartRegistering \/ RegisterCheck \/ Parse \/ Match
    BY <2>2, <2>3 DEF StartRegistering, RegisterCheck, Parse, Match
  <2>4. CASE DestroyChecks
    BY <2>4 DEF DestroyChecks, FileIsThere
  <2>5. ASSUME NEW c \in Checks, ConstructCheck(c)
        PROVE  FileIsThere'
    BY <2>2, <2>5 DEF ConstructCheck
  <2>6. ASSUME NEW i \in DOMAIN objects, CheckTranslationUnit(i)
        PROVE  FileIsThere'
    BY <2>2, <2>6 DEF CheckTranslationUnit
  <2>7. CASE UNCHANGED vars
    BY <2>2, <2>7 DEF vars
  <2> QED BY <2>1, <2>3, <2>4, <2>5, <2>6, <2>7 DEF Next
<1> QED BY <1>1, <1>2, <1>3, PTL DEF Spec

-----------------------------------------------------------------------------
Working(i) == objects[i].m_shouldRunClazyChecks

\* The vector of the process has at least the names of the living objects.
EnabledOutliveObjects ==
    /\ Len(objects) <= Len(s_enabledChecks)
    /\ \A i \in DOMAIN s_enabledChecks : s_enabledChecks[i] \in requested

\* So only the first object of a file can find the vector empty.
OnlyTheFirstWorks ==
    \A i \in DOMAIN objects : Working(i) => i = 1 /\ objects[i].m_allChecks \subseteq requested

\* The traversal is where an object gets its AST, and the checks walk.
WalksNeedAst ==
    /\ phase \notin {"matching", "crashed"} => \A i \in DOMAIN objects : objects[i].context # "ast"
    /\ (\A i \in DOMAIN objects : Working(i) => objects[i].context # "ast")
          => \A c \in Checks : walked[c] = 0

WalkInvariant ==
    /\ TypeOK
    /\ EnabledOutliveObjects
    /\ OnlyTheFirstWorks
    /\ WalksNeedAst
    /\ NoCheckWalksTwice

\* A step that leaves alone what these are about.
LEMMA UnchangedWalks ==
    ASSUME WalkInvariant, TypeOK', phase \notin {"matching", "crashed"},
           UNCHANGED <<requested, s_enabledChecks, objects, walked>>
    PROVE  WalkInvariant'
<1>1. UNCHANGED NoCheckWalksTwice /\ UNCHANGED EnabledOutliveObjects
  BY DEF NoCheckWalksTwice, EnabledOutliveObjects
<1>2. OnlyTheFirstWorks'
  BY DEF WalkInvariant, OnlyTheFirstWorks, Working
<1>3. WalksNeedAst'
  BY DEF WalkInvariant, WalksNeedAst, Working
<1> QED BY <1>1, <1>2, <1>3 DEF WalkInvariant

\* Constructing, registering, walking and destroying preserve it.
LEMMA WalksAreCounted == Spec => []WalkInvariant
<1>1. Init /\ TypeOK => WalkInvariant
  <2> SUFFICES ASSUME Init, TypeOK PROVE WalkInvariant
    OBVIOUS
  <2>1. \A c \in Checks : walked[c] = 0
    BY DEF Init
  <2>2. objects = << >> /\ s_enabledChecks = << >>
    BY DEF Init
  <2> QED BY <2>1, <2>2
           DEF WalkInvariant, EnabledOutliveObjects, OnlyTheFirstWorks, WalksNeedAst, NoCheckWalksTwice
<1>2. WalkInvariant /\ TypeOK' /\ [Next]_vars => WalkInvariant'
  <2> SUFFICES ASSUME WalkInvariant, TypeOK', [Next]_vars PROVE WalkInvariant'
    OBVIOUS
  <2> USE DEF WalkInvariant
  <2>1. CASE NextFile
    BY <2>1, UnchangedWalks DEF NextFile
  <2>2. CASE StartRegistering
    BY <2>2, UnchangedWalks DEF StartRegistering
  <2>3. CASE RegisterCheck
    <3> DEFINE i == registering + 1
    <3>1. i \in DOMAIN objects
      BY <2>3 DEF RegisterCheck, TypeOK
    <3>2. /\ UNCHANGED <<requested, phase, s_enabledChecks, walked>> /\ phase = "registering"
      BY <2>3 DEF RegisterCheck
    <3>3. CASE Working(i)
      <4>1. objects' = [objects EXCEPT ![i].m_allChecks = ChecksToRun,
                                       ![i].context = "preprocessor"]
        BY <2>3, <3>3 DEF RegisterCheck, ContextAfterRegistering, Working
      <4>2. ChecksToRun \in SUBSET Checks /\ ChecksToRun \subseteq requested
        BY DEF ChecksToRun, EnabledOutliveObjects, ToSet
      <4>3. /\ DOMAIN objects' = DOMAIN objects /\ Len(objects') = Len(objects)
            /\ \A j \in DOMAIN objects : j # i => objects'[j] = objects[j]
            /\ objects'[i].m_shouldRunClazyChecks = objects[i].m_shouldRunClazyChecks
            /\ objects'[i].m_allChecks = ChecksToRun
            /\ objects'[i].context = "preprocessor"
        BY <3>1, <4>1, <4>2, RegisteredObject DEF TypeOK
      <4> HIDE DEF i
      <4>4. OnlyTheFirstWorks'
        BY <3>1, <3>2, <4>2, <4>3 DEF OnlyTheFirstWorks, Working
      <4>5. WalksNeedAst'
        BY <3>1, <3>2, <4>3 DEF WalksNeedAst, Working
      <4> QED BY <3>2, <4>3, <4>4, <4>5 DEF EnabledOutliveObjects, NoCheckWalksTwice
    <3>4. CASE ~Working(i)
      <4>1. objects' = objects
        BY <2>3, <3>4 DEF RegisterCheck, Working
      <4> QED BY <3>2, <4>1, UnchangedWalks
    <3> QED BY <3>3, <3>4
  <2>4. CASE Parse
    BY <2>4, UnchangedWalks DEF Parse
  <2>5. CASE Match
    <3>1. UNCHANGED <<requested, s_enabledChecks, objects, walked>>
      BY <2>5 DEF Match
    <3>2. UNCHANGED NoCheckWalksTwice /\ UNCHANGED EnabledOutliveObjects
      BY <3>1 DEF NoCheckWalksTwice, EnabledOutliveObjects
    <3>3. OnlyTheFirstWorks' /\ WalksNeedAst'
      BY <2>5, <3>1 DEF Match, OnlyTheFirstWorks, WalksNeedAst, Working
    <3> QED BY <3>2, <3>3
  <2>6. CASE DestroyChecks
    <3>1. objects' = << >> /\ UNCHANGED <<requested, s_enabledChecks>>
      BY <2>6 DEF DestroyChecks
    <3>2. \A c \in Checks : walked'[c] = 0
      BY <2>6 DEF DestroyChecks
    <3>3. s_enabledChecks \in Seq(Checks) /\ Len(s_enabledChecks) \in Nat
      BY DEF TypeOK
    <3>4. EnabledOutliveObjects'
      BY <3>1, <3>3 DEF EnabledOutliveObjects
    <3> QED BY <3>1, <3>2, <3>4 DEF OnlyTheFirstWorks, WalksNeedAst, NoCheckWalksTwice
  <2>7. ASSUME NEW c \in Checks, ConstructCheck(c)
        PROVE  WalkInvariant'
    <3> DEFINE n == Len(objects)
    <3>1. /\ Len(objects') = n + 1 /\ Len(s_enabledChecks') = Len(s_enabledChecks) + 1
          /\ DOMAIN objects' = 1..(n + 1)
          /\ \A i \in DOMAIN objects : objects'[i] = objects[i]
          /\ objects'[n + 1].m_shouldRunClazyChecks = ShouldRun(file[1])
          /\ objects'[n + 1].m_allChecks = {} /\ objects'[n + 1].context = "none"
          /\ \A i \in DOMAIN s_enabledChecks : s_enabledChecks'[i] = s_enabledChecks[i]
          /\ s_enabledChecks'[Len(s_enabledChecks) + 1] = c
          /\ s_enabledChecks' \in Seq(Checks)
      BY <2>7, ConstructedObject
    <3>2. /\ UNCHANGED <<requested, phase, walked>> /\ phase = "constructing" /\ c \in requested
      BY <2>7 DEF ConstructCheck
    <3>11. n \in Nat /\ DOMAIN objects = 1..n
      BY DEF TypeOK
    <3>12. /\ Len(s_enabledChecks) \in Nat
           /\ DOMAIN s_enabledChecks = 1..Len(s_enabledChecks)
      BY DEF TypeOK
    <3>13. DOMAIN s_enabledChecks' = 1..Len(s_enabledChecks')
      BY <3>1
    <3>3. n \in Nat /\ DOMAIN objects = 1..n /\ Len(s_enabledChecks) \in Nat
          /\ DOMAIN s_enabledChecks = 1..Len(s_enabledChecks)
          /\ DOMAIN s_enabledChecks' = 1..Len(s_enabledChecks')
      BY <3>11, <3>12, <3>13
    <3>4. EnabledOutliveObjects'
      BY <3>1, <3>2, <3>3 DEF EnabledOutliveObjects
    <3>5. ShouldRun(file[1]) => n = 0
      BY <3>3 DEF ShouldRun, EnabledOutliveObjects
    <3> HIDE DEF n
    <3>6. \A j \in DOMAIN objects' : j = n + 1 \/ j \in DOMAIN objects
      BY <3>1, <3>3
    <3>7. OnlyTheFirstWorks'
      BY <3>1, <3>2, <3>3, <3>5, <3>6 DEF OnlyTheFirstWorks, Working
    <3>8. \A j \in DOMAIN objects : objects[j].context # "ast"
      BY <3>2 DEF WalksNeedAst
    <3>9. WalksNeedAst'
      BY <3>1, <3>2, <3>6, <3>8 DEF WalksNeedAst, Working
    <3>10. NoCheckWalksTwice'
      BY <3>2 DEF NoCheckWalksTwice
    <3> QED BY <3>4, <3>7, <3>9, <3>10
  <2>8. ASSUME NEW i \in DOMAIN objects, CheckTranslationUnit(i)
        PROVE  WalkInvariant'
    <3>1. /\ Working(i) /\ objects[i].context # "ast" /\ phase = "matching"
          /\ UNCHANGED <<requested, s_enabledChecks>>
      BY <2>8 DEF CheckTranslationUnit, Working
    <3>2. \A c \in Checks : walked[c] = 0
      BY <3>1 DEF OnlyTheFirstWorks, WalksNeedAst
    <3>3. CASE objects[i].context = "none"
      <4>1. UNCHANGED <<objects, walked>> /\ phase' = "crashed"
        BY <2>8, <3>3 DEF CheckTranslationUnit
      <4>2. UNCHANGED NoCheckWalksTwice /\ UNCHANGED EnabledOutliveObjects
        BY <3>1, <4>1 DEF NoCheckWalksTwice, EnabledOutliveObjects
      <4>3. OnlyTheFirstWorks' /\ WalksNeedAst'
        BY <3>1, <3>2, <4>1 DEF OnlyTheFirstWorks, WalksNeedAst, Working
      <4> QED BY <4>2, <4>3
    <3>4. CASE objects[i].context # "none"
      <4> DEFINE all == objects[i].m_allChecks
      <4>1. objects' = [objects EXCEPT ![i].context = "ast"] /\ phase' = phase
        BY <2>8, <3>4 DEF CheckTranslationUnit
      <4>2. walked' = [c \in Checks |-> walked[c] + (IF c \in all THEN 1 ELSE 0)]
        BY <2>8, <3>4 DEF CheckTranslationUnit
      <4>3. all \subseteq requested
        BY <3>1 DEF OnlyTheFirstWorks
      <4> HIDE DEF all
      <4>4. NoCheckWalksTwice'
        BY <3>1, <3>2, <4>2, <4>3 DEF NoCheckWalksTwice
      <4>5. /\ DOMAIN objects' = DOMAIN objects /\ Len(objects') = Len(objects)
            /\ \A j \in DOMAIN objects :
                  /\ objects'[j].m_shouldRunClazyChecks = objects[j].m_shouldRunClazyChecks
                  /\ objects'[j].m_allChecks = objects[j].m_allChecks
                  /\ objects'[j].context = IF j = i THEN "ast" ELSE objects[j].context
        BY <4>1, MatchedObject DEF TypeOK
      <4>6. OnlyTheFirstWorks' /\ WalksNeedAst'
        BY <3>1, <4>1, <4>5 DEF OnlyTheFirstWorks, WalksNeedAst, Working
      <4> QED BY <3>1, <4>4, <4>5, <4>6 DEF EnabledOutliveObjects
    <3> QED BY <3>3, <3>4
  <2>9. CASE UNCHANGED vars
    <3>1. UNCHANGED <<requested, phase, s_enabledChecks, objects, walked>>
      BY <2>9 DEF vars
    <3>2. UNCHANGED NoCheckWalksTwice /\ UNCHANGED EnabledOutliveObjects
      BY <3>1 DEF NoCheckWalksTwice, EnabledOutliveObjects
    <3>3. OnlyTheFirstWorks' /\ WalksNeedAst'
      BY <3>1 DEF OnlyTheFirstWorks, WalksNeedAst, Working
    <3> QED BY <3>2, <3>3
  <2> QED BY <2>1, <2>2, <2>3, <2>4, <2>5, <2>6, <2>7, <2>8, <2>9 DEF Next
<1> QED BY <1>1, <1>2, TypeCorrect, PTL DEF Spec

\* A check of clazy walks a file at most once, and only when it was asked for,
\* however many objects live at once: s_enabledChecks is never cleared and has
\* the name of every living object, so all but the first find it filled, and
\* the traversal is what takes the first from its context without AST.
THEOREM WalksOnce == Spec => []NoCheckWalksTwice
<1>1. WalkInvariant => NoCheckWalksTwice
  BY DEF WalkInvariant
<1> QED BY <1>1, WalksAreCounted, PTL

-----------------------------------------------------------------------------
\* Before anything matches, every object has registered, and those that work
\* have their context since.
WorkersRegister ==
    /\ phase \in {"parsing", "matching"} => registering = Len(objects)
    /\ \A i \in DOMAIN objects : Working(i) /\ i <= registering => objects[i].context # "none"
    /\ phase # "crashed"

\* Registering, and being given an AST, preserve it.
LEMMA ContextsAreKept == Spec => []WorkersRegister
<1>1. Init => WorkersRegister
  BY DEF Init, WorkersRegister
<1>2. WorkersRegister /\ TypeOK /\ TypeOK' /\ [Next]_vars => WorkersRegister'
  <2> SUFFICES ASSUME WorkersRegister, TypeOK, TypeOK', [Next]_vars PROVE WorkersRegister'
    OBVIOUS
  <2>1. CASE UNCHANGED <<objects, registering>> /\ phase' \notin {"parsing", "matching", "crashed"}
    BY <2>1 DEF WorkersRegister, Working
  <2>2. CASE NextFile \/ StartRegistering
    BY <2>1, <2>2 DEF NextFile, StartRegistering
  <2>3. CASE RegisterCheck
    <3> DEFINE i == registering + 1
    <3>1. i \in DOMAIN objects /\ registering' = i /\ registering \in Nat
      BY <2>3 DEF RegisterCheck, TypeOK
    <3>2. phase' = "registering" /\ phase = "registering"
      BY <2>3 DEF RegisterCheck
    <3>5. \A j \in DOMAIN objects : j \in Nat
      BY DEF TypeOK
    <3>6. \A j \in DOMAIN objects : j <= i => j = i \/ j <= registering
      BY <3>1, <3>5
    <3>3. CASE Working(i)
      <4>1. objects' = [objects EXCEPT ![i].m_allChecks = ChecksToRun,
                                       ![i].context = "preprocessor"]
        BY <2>3, <3>3 DEF RegisterCheck, ContextAfterRegistering, Working
      <4>2. ChecksToRun \in SUBSET Checks
        BY DEF ChecksToRun
      <4>3. /\ DOMAIN objects' = DOMAIN objects
            /\ \A j \in DOMAIN objects : j # i => objects'[j] = objects[j]
            /\ objects'[i].context = "preprocessor"
        BY <3>1, <4>1, <4>2, RegisteredObject DEF TypeOK
      <4> HIDE DEF i
      <4> QED BY <3>1, <3>2, <3>6, <4>3 DEF WorkersRegister, Working
    <3>4. CASE ~Working(i)
      <4>1. objects' = objects
        BY <2>3, <3>4 DEF RegisterCheck, Working
      <4> HIDE DEF i
      <4> QED BY <3>1, <3>2, <3>4, <3>6, <4>1 DEF WorkersRegister, Working
    <3> QED BY <3>3, <3>4
  <2>4. CASE Parse
    BY <2>4 DEF Parse, WorkersRegister, Working
  <2>5. CASE Match
    BY <2>5 DEF Match, WorkersRegister, Working
  <2>6. CASE DestroyChecks
    BY <2>6 DEF DestroyChecks, WorkersRegister
  <2>7. ASSUME NEW c \in Checks, ConstructCheck(c)
        PROVE  WorkersRegister'
    <3> DEFINE n == Len(objects)
    <3>1. /\ DOMAIN objects' = 1..(n + 1)
          /\ \A i \in DOMAIN objects : objects'[i] = objects[i]
      BY <2>7, ConstructedObject
    <3>2. phase' = "constructing" /\ registering' = registering
      BY <2>7 DEF ConstructCheck
    <3>3. n \in Nat /\ DOMAIN objects = 1..n /\ registering \in 0..n
      BY DEF TypeOK
    <3> HIDE DEF n
    <3>4. \A j \in DOMAIN objects' : j <= registering => j \in DOMAIN objects
      BY <3>1, <3>3
    <3> QED BY <3>1, <3>2, <3>4 DEF WorkersRegister, Working
  <2>8. ASSUME NEW i \in DOMAIN objects, CheckTranslationUnit(i)
        PROVE  WorkersRegister'
    <3>1. objects[i].context # "none"
      BY <2>8 DEF CheckTranslationUnit, WorkersRegister, Working, TypeOK
    <3>2. objects' = [objects EXCEPT ![i].context = "ast"] /\ UNCHANGED <<phase, registering>>
      BY <2>8, <3>1 DEF CheckTranslationUnit
    <3>3. /\ DOMAIN objects' = DOMAIN objects /\ Len(objects') = Len(objects)
          /\ \A j \in DOMAIN objects :
                /\ objects'[j].m_shouldRunClazyChecks = objects[j].m_shouldRunClazyChecks
                /\ objects'[j].context = IF j = i THEN "ast" ELSE objects[j].context
      BY <3>2, MatchedObject DEF TypeOK
    <3> QED BY <3>2, <3>3 DEF WorkersRegister, Working
  <2>9. CASE UNCHANGED vars
    BY <2>9 DEF vars, WorkersRegister, Working
  <2> QED BY <2>2, <2>3, <2>4, <2>5, <2>6, <2>7, <2>8, <2>9 DEF Next
<1> QED BY <1>1, <1>2, TypeCorrect, PTL DEF Spec

\* The object that does the work has its context when it is called, whatever
\* was requested: clang-tidy has let all of them register before it parses.
THEOREM ContextIsThere == Spec => []TheWorkerHasItsContext
<1>1. WorkersRegister => TheWorkerHasItsContext
  BY DEF WorkersRegister, TheWorkerHasItsContext
<1> QED BY <1>1, ContextsAreKept, PTL

-----------------------------------------------------------------------------
\* clang-tidy constructs each requested check once.
ObjectsAreDistinct ==
    \A i, j \in DOMAIN objects :
        /\ objects[i].name \in requested
        /\ objects[i].name = objects[j].name => i = j

\* As long as the first file is not finished, the vector has the names of its
\* objects, so the first of them works, finds them all when it registers, and
\* does what a complete visit needs.
FirstVisit ==
    /\ phase \in {"between", "done"} => objects = << >>
    /\ Len(s_enabledChecks) = Len(objects)
    /\ \A i \in DOMAIN objects : s_enabledChecks[i] = objects[i].name
    /\ objects # << >> => Working(1) = shouldCheckFile(file[1])
    /\ phase \in {"registering", "parsing", "matching"} => Len(objects) = Cardinality(requested)
    /\ registering = 0 => heard = {}
    /\ registering > 0 /\ Working(1) =>
          objects[1].m_allChecks = requested /\ heard = requested \cap CallbackChecks
    /\ objects # << >> /\ Working(1) /\ objects[1].context = "ast" =>
          \A c \in Checks : walked[c] = IF c \in requested THEN 1 ELSE 0

\* The requested checks are as many as their objects only when each has one.
LEMMA AllHaveObjects ==
    ASSUME TypeOK, ObjectsAreDistinct, Len(objects) = Cardinality(requested),
           Len(s_enabledChecks) = Len(objects),
           \A i \in DOMAIN objects : s_enabledChecks[i] = objects[i].name,
           EnabledOutliveObjects
    PROVE  ChecksToRun = requested
<1> DEFINE n == Len(objects)
           f == [i \in 1..n |-> objects[i].name]
<1>1. n \in Nat /\ DOMAIN objects = 1..n /\ DOMAIN s_enabledChecks = 1..n
  BY DEF TypeOK
<1>2. f \in Injection(1..n, requested)
  BY <1>1 DEF Injection, IsInjective, ObjectsAreDistinct
<1>3. IsFiniteSet(requested)
  BY FS_Subset, FilesAssumption DEF TypeOK
<1>4. Cardinality(1..n) = n
  BY <1>1, FS_Interval
<1>5. f \in Surjection(1..n, requested)
  BY <1>2, <1>3, <1>4, FS_Injection
<1>6. \A c \in requested : \E i \in 1..n : objects[i].name = c
  BY <1>5 DEF Surjection
<1> HIDE DEF n
<1>7. requested \subseteq ToSet(s_enabledChecks)
  BY <1>1, <1>6 DEF ToSet
<1>8. ToSet(s_enabledChecks) \subseteq requested
  BY DEF ToSet, EnabledOutliveObjects
<1> QED BY <1>7, <1>8 DEF ChecksToRun, TypeOK

\* Only construction changes the names.
LEMMA NamesAreDistinct == Spec => []ObjectsAreDistinct
<1>1. Init => ObjectsAreDistinct
  BY DEF Init, ObjectsAreDistinct
<1>2. ObjectsAreDistinct /\ TypeOK /\ [Next]_vars => ObjectsAreDistinct'
  <2> SUFFICES ASSUME ObjectsAreDistinct, TypeOK, [Next]_vars PROVE ObjectsAreDistinct'
    OBVIOUS
  <2>1. CASE UNCHANGED <<requested, objects>>
    BY <2>1 DEF ObjectsAreDistinct
  <2>2. CASE NextFile \/ StartRegistering \/ Parse \/ Match
    BY <2>1, <2>2 DEF NextFile, StartRegistering, Parse, Match
  <2>3. CASE RegisterCheck
    <3> DEFINE i == registering + 1
    <3>1. i \in DOMAIN objects /\ requested' = requested
      BY <2>3 DEF RegisterCheck, TypeOK
    <3>2. CASE Working(i)
      <4>1. objects' = [objects EXCEPT ![i].m_allChecks = ChecksToRun,
                                       ![i].context = "preprocessor"]
        BY <2>3, <3>2 DEF RegisterCheck, ContextAfterRegistering, Working
      <4>2. ChecksToRun \in SUBSET Checks
        BY DEF ChecksToRun
      <4>3. /\ DOMAIN objects' = DOMAIN objects
            /\ \A j \in DOMAIN objects : j # i => objects'[j] = objects[j]
            /\ objects'[i].name = objects[i].name
        BY <3>1, <4>1, <4>2, RegisteredObject DEF TypeOK
      <4>4. \A j \in DOMAIN objects : objects'[j].name = objects[j].name
        BY <4>3
      <4> QED BY <3>1, <4>3, <4>4 DEF ObjectsAreDistinct
    <3>3. CASE ~Working(i)
      BY <2>1, <2>3, <3>1, <3>3 DEF RegisterCheck, Working
    <3> QED BY <3>2, <3>3
  <2>4. CASE DestroyChecks
    BY <2>4 DEF DestroyChecks, ObjectsAreDistinct
  <2>5. ASSUME NEW c \in Checks, ConstructCheck(c)
        PROVE  ObjectsAreDistinct'
    <3> DEFINE n == Len(objects)
    <3>1. /\ DOMAIN objects' = 1..(n + 1)
          /\ \A i \in DOMAIN objects : objects'[i] = objects[i]
          /\ objects'[n + 1].name = c
      BY <2>5, ConstructedObject
    <3>2. /\ c \in requested /\ requested' = requested
          /\ \A i \in DOMAIN objects : objects[i].name # c
      BY <2>5 DEF ConstructCheck
    <3>3. n \in Nat /\ DOMAIN objects = 1..n
      BY DEF TypeOK
    <3> HIDE DEF n
    <3>4. \A j \in DOMAIN objects' : j = n + 1 \/ j \in DOMAIN objects
      BY <3>1, <3>3
    <3> QED BY <3>1, <3>2, <3>4 DEF ObjectsAreDistinct
  <2>6. ASSUME NEW i \in DOMAIN objects, CheckTranslationUnit(i)
        PROVE  ObjectsAreDistinct'
    <3>1. requested' = requested
      BY <2>6 DEF CheckTranslationUnit
    <3>2. CASE objects' = objects
      BY <2>1, <3>1, <3>2
    <3>3. CASE objects' = [objects EXCEPT ![i].context = "ast"]
      <4>1. /\ DOMAIN objects' = DOMAIN objects
            /\ \A j \in DOMAIN objects : objects'[j].name = objects[j].name
        BY <3>3, MatchedObject DEF TypeOK
      <4> QED BY <3>1, <4>1 DEF ObjectsAreDistinct
    <3> QED BY <2>6, <3>2, <3>3 DEF CheckTranslationUnit
  <2>7. CASE UNCHANGED vars
    BY <2>1, <2>7 DEF vars
  <2> QED BY <2>2, <2>3, <2>4, <2>5, <2>6, <2>7 DEF Next
<1> QED BY <1>1, <1>2, TypeCorrect, PTL DEF Spec

\* What registering does to the first visit.
LEMMA RegisteringTheFirst ==
    ASSUME TypeOK, EnabledOutliveObjects, OnlyTheFirstWorks, WalksNeedAst, ObjectsAreDistinct,
           FirstVisit, RegisterCheck
    PROVE  FirstVisit'
<1> DEFINE i == registering + 1
<1>1. i \in DOMAIN objects /\ registering' = i /\ registering \in Nat
  BY DEF RegisterCheck, TypeOK
<1>2. /\ UNCHANGED <<requested, file, phase, s_enabledChecks, walked>> /\ phase = "registering"
  BY DEF RegisterCheck
<1>3. ChecksToRun = requested
  BY <1>2, AllHaveObjects DEF FirstVisit
<1>4. objects # << >>
  BY <1>1
<1>5. CASE Working(i)
  <2>1. objects' = [objects EXCEPT ![i].m_allChecks = ChecksToRun,
                                   ![i].context = "preprocessor"]
    BY <1>5 DEF RegisterCheck, ContextAfterRegistering, Working
  <2>2. heard' = heard \cup (ChecksToRun \cap CallbackChecks)
    BY <1>5 DEF RegisterCheck, Working
  <2>3. ChecksToRun \in SUBSET Checks
    BY DEF ChecksToRun
  <2>4. /\ DOMAIN objects' = DOMAIN objects /\ Len(objects') = Len(objects)
        /\ \A j \in DOMAIN objects : j # i => objects'[j] = objects[j]
        /\ objects'[i].name = objects[i].name
        /\ objects'[i].m_shouldRunClazyChecks = objects[i].m_shouldRunClazyChecks
        /\ objects'[i].m_allChecks = ChecksToRun
        /\ objects'[i].context = "preprocessor"
    BY <1>1, <2>1, <2>3, RegisteredObject DEF TypeOK
  <2>5. i = 1
    BY <1>1, <1>5 DEF OnlyTheFirstWorks
  <2>6. heard' = requested \cap CallbackChecks
    BY <1>1, <1>3, <2>2, <2>5 DEF FirstVisit
  <2> HIDE DEF i
  <2>7. \A j \in DOMAIN objects : s_enabledChecks[j] = objects'[j].name
    BY <2>4 DEF FirstVisit
  <2> QED BY <1>1, <1>2, <1>3, <1>4, <2>4, <2>5, <2>6, <2>7 DEF FirstVisit, Working
<1>6. CASE ~Working(i)
  <2>1. objects' = objects /\ heard' = heard
    BY <1>6 DEF RegisterCheck, Working
  <2>2. Working(1) => registering > 0
    BY <1>1, <1>6
  <2> HIDE DEF i
  <2>3. registering' # 0
    BY <1>1 DEF i
  <2> QED BY <1>1, <1>2, <2>1, <2>2, <2>3 DEF FirstVisit, Working
<1> QED BY <1>5, <1>6

\* What constructing an object does to it.
LEMMA ConstructingTheFirst ==
    ASSUME TypeOK, FirstVisit, NEW c \in Checks, ConstructCheck(c)
    PROVE  FirstVisit'
<1> DEFINE n == Len(objects)
<1>1. /\ DOMAIN objects' = 1..(n + 1)
      /\ Len(objects') = n + 1 /\ Len(s_enabledChecks') = Len(s_enabledChecks) + 1
      /\ \A i \in DOMAIN objects : objects'[i] = objects[i]
      /\ objects'[n + 1].name = c
      /\ objects'[n + 1].m_shouldRunClazyChecks = ShouldRun(file[1])
      /\ objects'[n + 1].context = "none"
      /\ \A i \in DOMAIN s_enabledChecks : s_enabledChecks'[i] = s_enabledChecks[i]
      /\ s_enabledChecks'[Len(s_enabledChecks) + 1] = c
  BY ConstructedObject
<1>2. /\ UNCHANGED <<requested, file, phase, registering, heard, walked>> /\ phase = "constructing"
  BY DEF ConstructCheck
<1>3. /\ n \in Nat /\ DOMAIN objects = 1..n /\ registering \in 0..n
      /\ Len(s_enabledChecks) = n /\ DOMAIN s_enabledChecks = 1..n
  BY DEF TypeOK, FirstVisit
<1>4. n = 0 <=> s_enabledChecks = << >>
  BY <1>3 DEF TypeOK
<1>5. n = 0 <=> objects = << >>
  BY DEF TypeOK
<1> HIDE DEF n
<1>6. \A j \in DOMAIN objects' : j = n + 1 \/ j \in DOMAIN objects
  BY <1>1, <1>3
<1>7. \A j \in DOMAIN objects' : s_enabledChecks'[j] = objects'[j].name
  BY <1>1, <1>3, <1>6 DEF FirstVisit
<1>8. CASE n = 0
  <2>1. ShouldRun(file[1]) = shouldCheckFile(file[1])
    BY <1>4, <1>8 DEF ShouldRun, shouldCheckFile
  <2>2. registering = 0
    BY <1>3, <1>8
  <2>3. Working(1)' = shouldCheckFile(file[1]) /\ objects'[1].context = "none"
    BY <1>1, <1>8, <2>1 DEF Working
  <2> QED BY <1>1, <1>2, <1>3, <1>7, <2>2, <2>3 DEF FirstVisit
<1>9. CASE n > 0
  <2>1. 1 \in DOMAIN objects /\ objects # << >>
    BY <1>3, <1>5, <1>9
  <2>2. objects'[1] = objects[1] /\ Working(1)' = Working(1)
    BY <1>1, <2>1 DEF Working
  <2> QED BY <1>1, <1>2, <1>3, <1>7, <2>1, <2>2 DEF FirstVisit
<1> QED BY <1>3, <1>8, <1>9

\* What the traversal does to it.
LEMMA WalkingTheFirst ==
    ASSUME TypeOK, OnlyTheFirstWorks, WalksNeedAst, WorkersRegister, FirstVisit,
           NEW i \in DOMAIN objects, CheckTranslationUnit(i)
    PROVE  FirstVisit'
<1>1. objects[i].context # "none"
  BY DEF CheckTranslationUnit, WorkersRegister, Working, TypeOK
<1>2. /\ objects' = [objects EXCEPT ![i].context = "ast"]
      /\ UNCHANGED <<requested, file, phase, s_enabledChecks, registering, heard>>
      /\ phase = "matching"
  BY <1>1 DEF CheckTranslationUnit
<1>3. i = 1 /\ Working(1)
  BY DEF CheckTranslationUnit, OnlyTheFirstWorks, Working
<1>4. registering = Len(objects) /\ Len(objects) \in Nat /\ Len(objects) > 0
  BY <1>2 DEF WorkersRegister, TypeOK
<1>5. objects[1].m_allChecks = requested
  BY <1>3, <1>4 DEF FirstVisit
<1>6. \A c \in Checks : walked[c] = 0
  <2>1. \A j \in DOMAIN objects : Working(j) => objects[j].context # "ast"
    BY <1>3 DEF OnlyTheFirstWorks, CheckTranslationUnit
  <2> QED BY <2>1 DEF WalksNeedAst
<1>7. walked' = [c \in Checks |-> walked[c] + (IF c \in objects[i].m_allChecks THEN 1 ELSE 0)]
  BY <1>1 DEF CheckTranslationUnit
<1>8. \A c \in Checks : walked'[c] = IF c \in requested THEN 1 ELSE 0
  BY <1>3, <1>5, <1>6, <1>7
<1>9. /\ DOMAIN objects' = DOMAIN objects /\ Len(objects') = Len(objects)
      /\ \A j \in DOMAIN objects :
            /\ objects'[j].name = objects[j].name
            /\ objects'[j].m_shouldRunClazyChecks = objects[j].m_shouldRunClazyChecks
            /\ objects'[j].m_allChecks = objects[j].m_allChecks
  BY <1>2, MatchedObject DEF TypeOK
<1>10. objects # << >> /\ 1 \in DOMAIN objects /\ registering # 0
  BY <1>3, <1>4
<1>11. \A j \in DOMAIN objects' : s_enabledChecks'[j] = objects'[j].name
  BY <1>2, <1>9 DEF FirstVisit
<1>12. Working(1)' = Working(1) /\ objects'[1].m_allChecks = objects[1].m_allChecks
  BY <1>9, <1>10 DEF Working
<1> QED BY <1>2, <1>4, <1>8, <1>9, <1>10, <1>11, <1>12 DEF FirstVisit

\* The end of the first visit: it was complete.
LEMMA FinishingTheFirst ==
    ASSUME TypeOK, FileIsThere, OnlyTheFirstWorks, WalksNeedAst, WorkersRegister, FirstVisit,
           visits = << >>, DestroyChecks
    PROVE  FirstFileIsChecked'
<1> DEFINE v == [file |-> file[1], heard |-> heard, walked |-> walked]
<1>1. visits' = Append(visits, v) /\ requested' = requested
  BY DEF DestroyChecks
<1>2. v.file = file[1] /\ v.heard = heard /\ v.walked = walked
  OBVIOUS
<1> HIDE DEF v
<1>3. visits'[1] = v
  BY <1>1
<1>4. registering = Len(objects) /\ Len(objects) = Cardinality(requested)
  BY DEF DestroyChecks, WorkersRegister, FirstVisit
<1>5. ASSUME shouldCheckFile(file[1])
      PROVE  /\ heard = requested \cap CallbackChecks
             /\ \A c \in Checks : walked[c] = IF c \in requested THEN 1 ELSE 0
  <2>1. CASE objects = << >>
    <3>1. registering = 0 /\ Cardinality(requested) = 0
      BY <1>4, <2>1
    <3>2. requested = {}
      BY <3>1, FS_Subset, FS_EmptySet, FilesAssumption DEF TypeOK
    <3>3. \A c \in Checks : walked[c] = 0
      BY <2>1 DEF WalksNeedAst
    <3> QED BY <3>1, <3>2, <3>3 DEF FirstVisit
  <2>2. CASE objects # << >>
    <3>1. 1 \in DOMAIN objects /\ registering > 0
      BY <1>4, <2>2 DEF TypeOK
    <3>2. Working(1)
      BY <1>5, <2>2 DEF FirstVisit
    <3>3. objects[1].context = "ast"
      BY <3>1, <3>2 DEF DestroyChecks, Working
    <3> QED BY <2>2, <3>1, <3>2, <3>3 DEF FirstVisit
  <2> QED BY <2>1, <2>2
<1> QED BY <1>1, <1>2, <1>3, <1>5 DEF FirstFileIsChecked, Complete, shouldCheckFile

\* The first file of the process, unless it is a generated one, is walked once
\* by every requested check and heard by the callback checks among them, in
\* whatever order clang-tidy constructs them.
THEOREM FirstFileIsComplete == Spec => []FirstFileIsChecked
<1> DEFINE Inv == (visits = << >> => FirstVisit) /\ FirstFileIsChecked
<1>1. Init => Inv
  <2> SUFFICES ASSUME Init PROVE Inv
    OBVIOUS
  <2>1. objects = << >> /\ s_enabledChecks = << >> /\ visits = << >>
        /\ heard = {} /\ phase = "between" /\ registering = 0
    BY DEF Init
  <2> QED BY <2>1 DEF FirstVisit, FirstFileIsChecked
<1>2. Inv /\ TypeOK /\ FileIsThere /\ WalkInvariant /\ WorkersRegister /\ ObjectsAreDistinct
        /\ [Next]_vars => Inv'
  <2> SUFFICES ASSUME Inv, TypeOK, FileIsThere, WalkInvariant, WorkersRegister, ObjectsAreDistinct,
                      [Next]_vars
               PROVE  Inv'
    OBVIOUS
  <2> USE DEF WalkInvariant
  <2>1. ASSUME UNCHANGED visits, requested' = requested, visits = << >> => FirstVisit'
        PROVE  Inv'
    BY <2>1 DEF FirstFileIsChecked, Complete
  <2>2. CASE NextFile
    <3>1. visits = << >> => objects = << >> /\ FirstVisit
      BY <2>2 DEF NextFile, FirstVisit
    <3>2. /\ UNCHANGED <<requested, visits, s_enabledChecks, objects, registering, heard, walked>>
          /\ phase' \in {"done", "constructing"}
      BY <2>2 DEF NextFile
    <3>3. registering = 0 \/ objects # << >>
      BY DEF TypeOK
    <3>4. visits = << >> => FirstVisit'
      BY <3>1, <3>2, <3>3 DEF FirstVisit, Working
    <3> QED BY <2>1, <3>2, <3>4
  <2>3. CASE StartRegistering \/ Parse \/ Match
    <3>1. /\ UNCHANGED <<requested, visits, file, s_enabledChecks, objects, registering, heard, walked>>
          /\ phase' \in {"registering", "parsing", "matching"}
      BY <2>3 DEF StartRegistering, Parse, Match
    <3>2. visits = << >> => Len(objects) = Cardinality(requested)
      BY <2>3 DEF StartRegistering, Parse, Match, FirstVisit
    <3>3. visits = << >> => FirstVisit'
      BY <3>1, <3>2 DEF FirstVisit, Working
    <3> QED BY <2>1, <3>1, <3>3
  <2>4. CASE RegisterCheck
    BY <2>1, <2>4, RegisteringTheFirst DEF RegisterCheck
  <2>5. CASE DestroyChecks
    <3>1. /\ visits \in Seq([file : Files, heard : SUBSET CallbackChecks, walked : [Checks -> Nat]])
          /\ visits' = Append(visits, [file |-> file[1], heard |-> heard, walked |-> walked])
          /\ requested' = requested
      BY <2>5 DEF DestroyChecks, TypeOK
    <3>2. visits' # << >>
      BY <3>1
    <3>3. CASE visits = << >>
      BY <2>5, <3>2, <3>3, FinishingTheFirst
    <3>4. CASE visits # << >>
      <4>1. visits'[1] = visits[1]
        BY <3>1, <3>4
      <4> QED BY <3>1, <3>2, <3>4, <4>1 DEF FirstFileIsChecked, Complete
    <3> QED BY <3>3, <3>4
  <2>6. ASSUME NEW c \in Checks, ConstructCheck(c)
        PROVE  Inv'
    BY <2>1, <2>6, ConstructingTheFirst DEF ConstructCheck
  <2>7. ASSUME NEW i \in DOMAIN objects, CheckTranslationUnit(i)
        PROVE  Inv'
    BY <2>1, <2>7, WalkingTheFirst DEF CheckTranslationUnit
  <2>8. CASE UNCHANGED vars
    BY <2>1, <2>8 DEF vars, FirstVisit, Working
  <2> QED BY <2>2, <2>3, <2>4, <2>5, <2>6, <2>7, <2>8 DEF Next
<1>3. Inv => FirstFileIsChecked
  OBVIOUS
<1> QED BY <1>1, <1>2, <1>3, TypeCorrect, WalksAreCounted, ContextsAreKept, NamesAreDistinct,
           PTL DEF Spec
=============================================================================
