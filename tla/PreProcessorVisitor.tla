------------------------ MODULE PreProcessorVisitor ------------------------
(***************************************************************************)
(* PreProcessorVisitor.cpp: what clazy learns of a translation unit from the  *)
(* preprocessor, and the checks that ask it while the file is still being    *)
(* preprocessed: qt-macros and qt-keywords; qhash-namespace asks when it is  *)
(* done.                                                                   *)
(*                                                                         *)
(* The file is written as it is read: every step is one directive or one      *)
(* expansion that a translation unit may have next.  A location is its file  *)
(* and the number of the step, which orders the locations of one file.      *)
(***************************************************************************)
EXTENDS Integers, Sequences, FiniteSets, SequencesExt

CONSTANTS
    Headers,    \* the names of headers, none of them a .moc file
    Moc,        \* the name of a .moc file
    Versions,   \* the versions of Qt, as <<major, minor, patch>>
    Plans,      \* the kinds of steps that the instances look at, and how many
    MaxSteps    \* bound: the steps of a translation unit

ASSUME VersionsAssumption ==
    \A v \in Versions : v \in Nat \X Nat \X Nat /\ v[2] < 100 /\ v[3] < 100

ASSUME BoundAssumption == MaxSteps \in Nat

\* A unit with a precompiled header has no PreProcessorVisitor: all there is to
\* look at are the tests of Q_OS_ macros.
ASSUME PlansAssumption ==
    /\ Plans \subseteq [features : SUBSET {"version", "namespace", "include", "keywords", "os",
                                           "precompiled"},
                        steps : 0..MaxSteps]
    /\ \A p \in Plans : "precompiled" \in p.features => p.features \subseteq {"os", "precompiled"}

Unknown == -1

VARIABLES
    \* the translation unit
    plan,               \* the kinds of its steps
    qt,                 \* the Qt it includes
    predefined,         \* -DQT_NO_KEYWORDS on the command line
    steps,              \* how many steps were read
    open,               \* the files that are being read, the main file first
    fileCount,
    unclosed,           \* files with a QT_BEGIN_NAMESPACE that is still open
    definedInCode,      \* #define QT_NO_KEYWORDS
    \* PreProcessorVisitor
    part,               \* m_qtMajorVersion, m_qtMinorVersion, m_qtPatchVersion
    m_qtVersion,
    m_isQtNoKeywords,
    m_q_namespace_macro_locations,
    m_includeInfo,
    \* QtMacros
    m_OSMacroExists,
    \* history
    functions,          \* the qHash functions: where, and whether the macros surround them
    tests,              \* the tests of Q_OS_ macros and what was said about them
    keywords            \* the uses of Qt keywords that were warned about

unit == <<plan, qt, predefined>>
files == <<open, fileCount, unclosed>>
version == <<part, m_qtVersion>>
history == <<functions, tests, keywords>>
vars == <<unit, steps, files, definedInCode, version, m_isQtNoKeywords,
          m_q_namespace_macro_locations, m_includeInfo, m_OSMacroExists, history>>

Parts == {"QT_VERSION_MAJOR", "QT_VERSION_MINOR", "QT_VERSION_PATCH"}
FileIds == 1..MaxSteps + 1
Locations == [file : FileIds, at : 1..MaxSteps]
NoLocation == [file |-> 0, at |-> 0]

TypeOK ==
    /\ plan \in Plans /\ qt \in Versions /\ predefined \in BOOLEAN
    /\ steps \in 0..MaxSteps
    /\ open \in Seq(FileIds) /\ fileCount \in FileIds
    /\ unclosed \subseteq FileIds
    /\ {definedInCode, m_isQtNoKeywords, m_OSMacroExists} \subseteq BOOLEAN
    /\ part \in [Parts -> Int] /\ m_qtVersion \in Int
    /\ DOMAIN m_q_namespace_macro_locations = FileIds
    /\ \A f \in FileIds : \A pair \in ToSet(m_q_namespace_macro_locations[f]) :
        pair.begin \in Locations /\ pair.end \in Locations \cup {NoLocation} /\ pair.begin.file = f
    /\ \A i \in ToSet(m_includeInfo) :
        i.fileName \in Headers /\ i.IsAngled \in BOOLEAN /\ i.end \in Locations

File == Last(open)
isInPrimaryFile == Len(open) = 1
Here == [file |-> File, at |-> steps + 1]

-----------------------------------------------------------------------------
(* The version of Qt.                                                      *)

\* The body of a version macro, as a number.
stringToNumber(v, name) ==
    IF name = "QT_VERSION_MAJOR" THEN v[1] ELSE IF name = "QT_VERSION_MINOR" THEN v[2] ELSE v[3]

Encoded(major, minor, patch) == patch + minor * 100 + major * 10000

\* Mutant: a version whose patch is not known yet.
updateQtVersion_NoPatch(p) ==
    IF p["QT_VERSION_MAJOR"] = Unknown \/ p["QT_VERSION_MINOR"] = Unknown THEN Unknown
    ELSE Encoded(p["QT_VERSION_MAJOR"], p["QT_VERSION_MINOR"], p["QT_VERSION_PATCH"])

updateQtVersion(p) ==
    IF \E name \in Parts : p[name] = Unknown THEN Unknown
    ELSE Encoded(p["QT_VERSION_MAJOR"], p["QT_VERSION_MINOR"], p["QT_VERSION_PATCH"])

\* A version macro is expanded; the version is put together once.
ExpandVersion ==
    /\ "version" \in plan.features
    /\ \E name \in Parts :
        IF m_qtVersion # Unknown THEN UNCHANGED version
        ELSE /\ part' = [part EXCEPT ![name] = stringToNumber(qt, name)]
             /\ m_qtVersion' = updateQtVersion(part')
    /\ UNCHANGED <<files, definedInCode, m_isQtNoKeywords, m_q_namespace_macro_locations,
                   m_includeInfo, m_OSMacroExists, history>>

-----------------------------------------------------------------------------
(* QT_BEGIN_NAMESPACE and QT_END_NAMESPACE.                                *)

\* Mutant: one list for all files.
KeyOf_One(file) == 1

\* The locations are kept for each inclusion of a file.
KeyOf(file) == file

BeginAt(pairs, loc) == Append(pairs, [begin |-> loc, end |-> NoLocation])

\* An end belongs to the last begin.
EndAt(pairs, loc) ==
    IF pairs = <<>> THEN pairs ELSE [pairs EXCEPT ![Len(pairs)].end = loc]

handleQtNamespaceMacro ==
    /\ "namespace" \in plan.features
    /\ \/ /\ File \notin unclosed
          /\ unclosed' = unclosed \cup {File}
          /\ m_q_namespace_macro_locations' =
                [m_q_namespace_macro_locations EXCEPT ![KeyOf(File)] = BeginAt(@, Here)]
       \/ /\ File \in unclosed
          /\ unclosed' = unclosed \ {File}
          /\ m_q_namespace_macro_locations' =
                [m_q_namespace_macro_locations EXCEPT ![KeyOf(File)] = EndAt(@, Here)]
    /\ UNCHANGED <<open, fileCount, definedInCode, version, m_isQtNoKeywords, m_includeInfo,
                   m_OSMacroExists, history>>

\* A qHash function; who compiles the file sees whether the macros surround it.
DeclareFunction ==
    /\ "namespace" \in plan.features
    /\ functions' = functions \cup {[loc |-> Here, between |-> File \in unclosed]}
    /\ UNCHANGED <<files, definedInCode, version, m_isQtNoKeywords, m_q_namespace_macro_locations,
                   m_includeInfo, m_OSMacroExists, tests, keywords>>

isBetweenQtNamespaceMacros(loc) ==
    \E pair \in ToSet(m_q_namespace_macro_locations[KeyOf(loc.file)]) :
        /\ pair.end # NoLocation
        /\ pair.begin.at < loc.at /\ loc.at < pair.end.at

-----------------------------------------------------------------------------
(* Files.                                                                  *)

\* Mutant: any include of the main file.
Records_Moc(name) == isInPrimaryFile

\* Mutant: the includes of included files, too.
Records_Any(name) == name # Moc

\* Which #include is remembered: moc's file is no place for another one.
Records(name) == isInPrimaryFile /\ name # Moc

InclusionDirective ==
    /\ "include" \in plan.features
    /\ \E name \in Headers \cup {Moc}, IsAngled \in BOOLEAN :
        /\ m_includeInfo' = IF Records(name)
                            THEN Append(m_includeInfo, [fileName |-> name, IsAngled |-> IsAngled, end |-> Here])
                            ELSE m_includeInfo
    /\ fileCount' = fileCount + 1
    /\ open' = Append(open, fileCount')
    /\ UNCHANGED <<unclosed, definedInCode, version, m_isQtNoKeywords,
                   m_q_namespace_macro_locations, m_OSMacroExists, history>>

EndOfFile ==
    /\ "include" \in plan.features
    /\ ~isInPrimaryFile
    /\ File \notin unclosed
    /\ open' = Front(open)
    /\ UNCHANGED <<fileCount, unclosed, definedInCode, version, m_isQtNoKeywords,
                   m_q_namespace_macro_locations, m_includeInfo, m_OSMacroExists, history>>

endOfIncludeSection == IF m_includeInfo = <<>> THEN NoLocation ELSE Last(m_includeInfo).end

-----------------------------------------------------------------------------
(* QT_NO_KEYWORDS and qt-keywords.                                         *)

\* #define QT_NO_KEYWORDS is no expansion of the macro.
DefineNoKeywords ==
    /\ "keywords" \in plan.features
    /\ definedInCode' = TRUE
    /\ UNCHANGED <<files, version, m_isQtNoKeywords, m_q_namespace_macro_locations, m_includeInfo,
                   m_OSMacroExists, history>>

\* A line that expands the macro, which nothing in Qt does.
ExpandNoKeywords ==
    /\ "keywords" \in plan.features
    /\ predefined \/ definedInCode
    /\ m_isQtNoKeywords' = TRUE
    /\ UNCHANGED <<files, definedInCode, version, m_q_namespace_macro_locations, m_includeInfo,
                   m_OSMacroExists, history>>

isQT_NO_KEYWORDS == m_isQtNoKeywords

\* QtKeywords::VisitMacroExpands, for a keyword that a header of Qt defines,
\* read before QT_NO_KEYWORDS was defined.
UseKeyword ==
    /\ "keywords" \in plan.features
    /\ ~predefined
    /\ keywords' = IF isQT_NO_KEYWORDS THEN keywords ELSE keywords \cup {Here}
    /\ UNCHANGED <<files, definedInCode, version, m_isQtNoKeywords, m_q_namespace_macro_locations,
                   m_includeInfo, m_OSMacroExists, functions, tests>>

-----------------------------------------------------------------------------
(* qt-macros.                                                              *)

\* qglobal.h defines the macros of the system it is compiled for.
DefineOs ==
    /\ "os" \in plan.features
    /\ m_OSMacroExists' = TRUE
    /\ UNCHANGED <<files, definedInCode, version, m_isQtNoKeywords, m_q_namespace_macro_locations,
                   m_includeInfo, history>>

\* Mutant: Qt 5.12.4 itself.
TooOldForWindows_OffByOne(v) == v <= 51204

\* Q_OS_WINDOWS was introduced in 5.12.4.
TooOldForWindows(v) == v < 51204

checkIfDef(macro) ==
    IF TooOldForWindows(m_qtVersion) /\ macro = "Q_OS_WINDOWS" THEN "use Q_OS_WIN"
    ELSE IF ~m_OSMacroExists THEN "include qglobal.h" ELSE "nothing"

usingPreCompiledHeaders == "precompiled" \in plan.features

\* #ifdef and defined() reach the check, #ifndef does not; a precompiled header
\* may have defined the macros unseen.
VisitTest(how, macro) ==
    IF how = "ifndef" \/ usingPreCompiledHeaders THEN "nothing" ELSE checkIfDef(macro)

TestOs ==
    /\ "os" \in plan.features
    /\ \E macro \in {"Q_OS_WINDOWS", "Q_OS_LINUX"}, how \in {"ifdef", "ifndef", "defined"} :
        tests' = tests \cup {[macro |-> macro, how |-> how, at |-> Here,
                              early |-> ~m_OSMacroExists, version |-> m_qtVersion,
                              warning |-> VisitTest(how, macro)]}
    /\ UNCHANGED <<files, definedInCode, version, m_isQtNoKeywords, m_q_namespace_macro_locations,
                   m_includeInfo, m_OSMacroExists, functions, keywords>>

-----------------------------------------------------------------------------
\* The constructor looks for -DQT_NO_KEYWORDS.
Init ==
    /\ plan \in Plans /\ qt \in Versions /\ predefined \in BOOLEAN
    /\ steps = 0 /\ open = <<1>> /\ fileCount = 1 /\ unclosed = {} /\ definedInCode = FALSE
    /\ part = [name \in Parts |-> Unknown] /\ m_qtVersion = Unknown
    /\ m_isQtNoKeywords = predefined
    /\ m_q_namespace_macro_locations = [f \in FileIds |-> <<>>]
    /\ m_includeInfo = <<>> /\ m_OSMacroExists = FALSE
    /\ functions = {} /\ tests = {} /\ keywords = {}

Next ==
    /\ steps < MaxSteps /\ steps < plan.steps
    /\ steps' = steps + 1
    /\ UNCHANGED unit
    /\ \/ ExpandVersion \/ handleQtNamespaceMacro \/ DeclareFunction
       \/ InclusionDirective \/ EndOfFile
       \/ DefineNoKeywords \/ ExpandNoKeywords \/ UseKeyword
       \/ DefineOs \/ TestOs

Spec == Init /\ [][Next]_vars

-----------------------------------------------------------------------------
(* Properties.                                                             *)

\* Whatever order a file expands the version macros in, and whoever asks in
\* between: the version is that of Qt or unknown, never one of a part of it.
VersionIsThatOfQt ==
    m_qtVersion \in {Unknown, Encoded(qt[1], qt[2], qt[3])}

\* A qHash function is between the namespace macros when they surround it in
\* its own file, whatever the files that are included between them do.
FunctionsAreBetweenTheirMacros ==
    \A f \in functions :
        f.loc.file \notin unclosed => (isBetweenQtNamespaceMacros(f.loc) <=> f.between)

\* A fix-it that adds an #include puts it into the main file, behind the last
\* one there.
IncludeSectionIsInTheMainFile ==
    m_includeInfo # <<>> =>
        /\ endOfIncludeSection.file = 1
        /\ \A i \in ToSet(m_includeInfo) : i.end.at <= endOfIncludeSection.at

\* An early test is never passed over, and with a Qt that is known to have
\* Q_OS_WINDOWS a test of it behind qglobal.h is fine.  With a precompiled
\* header nobody can tell what is early.
OsTestsAreJudged ==
    \A t \in tests : t.how # "ifndef" =>
        /\ t.early => (t.warning = "nothing" <=> usingPreCompiledHeaders)
        /\ ~t.early /\ t.macro = "Q_OS_WINDOWS" /\ t.version # Unknown /\ ~usingPreCompiledHeaders =>
            (t.warning = "use Q_OS_WIN" <=> Encoded(qt[1], qt[2], qt[3]) < Encoded(5, 12, 4))
=============================================================================
