--------------------------- MODULE ClangTidyModule ---------------------------
(***************************************************************************)
(* ClazyClangTidyModule.cpp: the plugin for clang-tidy.  One clang-tidy      *)
(* process looks at one file after the other; for each it constructs an      *)
(* object of every requested clang-tidy check, lets all of them register,    *)
(* parses and matches the file, and destroys the objects.  clazy registers   *)
(* each of its checks as a clang-tidy check of class ClazyCheck, and lets    *)
(* the first object do the work of all of them: it finds out which others    *)
(* were requested from s_enabledChecks, a vector of the process.             *)
(***************************************************************************)
EXTENDS Naturals, Sequences, SequencesExt, FiniteSets

CONSTANTS
    Checks,         \* the checks of clazy
    CallbackChecks, \* those with Option_PreprocessorCallbacks
    Files           \* the files one process may be given

\* A file: whether its path contains ".rcc/qmlcache".  There is an end to the
\* checks of clazy and to the files of a command line.
ASSUME FilesAssumption ==
    /\ IsFiniteSet(Checks) /\ CallbackChecks \subseteq Checks
    /\ IsFiniteSet(Files) /\ Files \subseteq [id : Nat, qmlcache : BOOLEAN]

VARIABLES
    requested,      \* what clang-tidy was asked for with -checks
    queue,          \* the files it has still to look at
    file,           \* a sequence with the file it looks at, or an empty one
    phase,          \* what clang-tidy does
    s_enabledChecks,
    objects,        \* the ClazyCheck objects of this file, in clang-tidy's order
    registering,    \* how many objects have registered
    heard,          \* the callback checks that hear the preprocessor of this file
    visits,         \* how often each check has walked each finished file
    walked          \* how often each check has walked this file

vars == <<requested, queue, file, phase, s_enabledChecks, objects, registering, heard, visits, walked>>

shouldCheckFile(f) == ~f.qmlcache

\* A ClazyCheck.  context: not created, created without AST, or complete.
Object == [name : Checks, m_shouldRunClazyChecks : BOOLEAN, m_allChecks : SUBSET Checks,
           context : {"none", "preprocessor", "ast"}]

Phases == {"between", "constructing", "registering", "parsing", "matching", "done", "crashed"}

TypeOK ==
    /\ requested \subseteq Checks
    /\ queue \in Seq(Files) /\ file \in Seq(Files) /\ Len(file) <= 1
    /\ phase \in Phases
    /\ s_enabledChecks \in Seq(Checks)
    /\ objects \in Seq(Object)
    /\ registering \in 0..Len(objects)
    /\ heard \subseteq CallbackChecks
    /\ visits \in Seq([file : Files, heard : SUBSET CallbackChecks, walked : [Checks -> Nat]])
    /\ walked \in [Checks -> Nat]

-----------------------------------------------------------------------------
(* The module.                                                             *)

\* Mutant: every object works.
ShouldRun_Always(f) == shouldCheckFile(f)

\* Mutant: the object adds its name before it looks whether it is the first.
ShouldRun_NameFirst(f) == Append(s_enabledChecks, f) = << >> /\ shouldCheckFile(f)

\* Decided when the object is constructed, before it adds its own name.
ShouldRun(f) == s_enabledChecks = << >> /\ shouldCheckFile(f)

\* ClazyCheck::ClazyCheck for a requested check; the order is clang-tidy's.
ConstructCheck(c) ==
    /\ phase = "constructing"
    /\ c \in requested
    /\ \A i \in DOMAIN objects : objects[i].name # c
    /\ objects' = Append(objects, [name |-> c, m_shouldRunClazyChecks |-> ShouldRun(file[1]),
                                   m_allChecks |-> {}, context |-> "none"])
    /\ s_enabledChecks' = Append(s_enabledChecks, c)
    /\ UNCHANGED <<requested, queue, file, phase, registering, heard, visits, walked>>

\* Of availableChecks(ManualCheckLevel), those whose name was added.
ChecksToRun == Checks \cap ToSet(s_enabledChecks)

\* Mutant: the context is only made for checks that hear the preprocessor.
ContextAfterRegistering_OnDemand(checks) ==
    IF checks \cap CallbackChecks = {} THEN "none" ELSE "preprocessor"

\* registerPPCallbacks: the context comes without AST, and only the checks
\* that registerMatchers created are told about it.
ContextAfterRegistering(checks) == "preprocessor"

\* registerMatchers, then registerPPCallbacks, of one object after the other.
RegisterCheck ==
    /\ phase = "registering"
    /\ registering < Len(objects)
    /\ registering' = registering + 1
    /\ LET i == registering + 1 IN
         IF objects[i].m_shouldRunClazyChecks
         THEN /\ objects' = [objects EXCEPT ![i].m_allChecks = ChecksToRun,
                                            ![i].context = ContextAfterRegistering(ChecksToRun)]
              /\ heard' = heard \cup (ChecksToRun \cap CallbackChecks)
         ELSE UNCHANGED <<objects, heard>>
    /\ UNCHANGED <<requested, queue, file, phase, s_enabledChecks, visits, walked>>

\* ClazyCheck::check for the translation unit: the traversal, after which the
\* AST matchers of the checks are called.  Without a context it dereferences
\* a null pointer.
CheckTranslationUnit(i) ==
    /\ phase = "matching"
    /\ i \in DOMAIN objects
    /\ objects[i].m_shouldRunClazyChecks
    /\ objects[i].context # "ast"
    /\ IF objects[i].context = "none"
       THEN phase' = "crashed" /\ UNCHANGED <<objects, walked>>
       ELSE /\ objects' = [objects EXCEPT ![i].context = "ast"]
            /\ walked' = [c \in Checks |-> walked[c] + (IF c \in objects[i].m_allChecks THEN 1 ELSE 0)]
            /\ UNCHANGED phase
    /\ UNCHANGED <<requested, queue, file, s_enabledChecks, registering, heard, visits>>

-----------------------------------------------------------------------------
(* clang-tidy.                                                             *)

NextFile ==
    /\ phase = "between"
    /\ IF queue = << >>
       THEN phase' = "done" /\ UNCHANGED <<queue, file>>
       ELSE phase' = "constructing" /\ file' = <<Head(queue)>> /\ queue' = Tail(queue)
    /\ UNCHANGED <<requested, s_enabledChecks, objects, registering, heard, visits, walked>>

\* All objects exist before the first of them registers.
StartRegistering ==
    /\ phase = "constructing"
    /\ Len(objects) = Cardinality(requested)
    /\ phase' = "registering"
    /\ UNCHANGED <<requested, queue, file, s_enabledChecks, objects, registering, heard, visits, walked>>

Parse ==
    /\ phase = "registering"
    /\ registering = Len(objects)
    /\ phase' = "parsing"
    /\ UNCHANGED <<requested, queue, file, s_enabledChecks, objects, registering, heard, visits, walked>>

Match ==
    /\ phase = "parsing"
    /\ phase' = "matching"
    /\ UNCHANGED <<requested, queue, file, s_enabledChecks, objects, registering, heard, visits, walked>>

\* Mutant: what has registered is not forgotten with the objects.
DestroyChecks_KeepsRegistering ==
    /\ phase = "matching"
    /\ phase' = "between"
    /\ objects' = << >> /\ file' = << >>
    /\ UNCHANGED <<requested, queue, s_enabledChecks, registering, heard, visits, walked>>

\* The consumer of the file is destroyed with its checks, and they with their
\* contexts; s_enabledChecks stays.
DestroyChecks ==
    /\ phase = "matching"
    /\ \A i \in DOMAIN objects : objects[i].m_shouldRunClazyChecks => objects[i].context = "ast"
    /\ phase' = "between"
    /\ objects' = << >> /\ registering' = 0
    /\ visits' = Append(visits, [file |-> file[1], heard |-> heard, walked |-> walked])
    /\ file' = << >>
    /\ heard' = {} /\ walked' = [c \in Checks |-> 0]
    /\ UNCHANGED <<requested, queue, s_enabledChecks>>

Init ==
    /\ requested \in SUBSET Checks
    /\ queue \in {q \in [1..Cardinality(Files) -> Files] : IsInjective(q)}
    /\ file = << >>
    /\ phase = "between"
    /\ s_enabledChecks = << >>
    /\ objects = << >> /\ registering = 0
    /\ heard = {} /\ visits = << >>
    /\ walked = [c \in Checks |-> 0]

Next ==
    \/ NextFile \/ StartRegistering \/ RegisterCheck \/ Parse \/ Match \/ DestroyChecks
    \/ \E c \in Checks : ConstructCheck(c)
    \/ \E i \in DOMAIN objects : CheckTranslationUnit(i)

Spec == Init /\ [][Next]_vars

-----------------------------------------------------------------------------
(* Properties.                                                             *)

\* However many objects of class ClazyCheck live at once, a check of clazy
\* walks a file at most once, and only when it was asked for: no warning is
\* reported twice, and none by a check the user left out.
NoCheckWalksTwice ==
    \A c \in Checks : walked[c] <= (IF c \in requested THEN 1 ELSE 0)

\* The object that does the work has its context when it is called, whatever
\* the requested checks registered.
TheWorkerHasItsContext == phase # "crashed"

Complete(v) ==
    /\ v.heard = requested \cap CallbackChecks
    /\ \A c \in Checks : v.walked[c] = IF c \in requested THEN 1 ELSE 0

\* The first file of the process, when it is not a generated one, is looked
\* at by all requested checks, in whatever order clang-tidy constructs them.
FirstFileIsChecked ==
    visits # << >> /\ shouldCheckFile(visits[1].file) => Complete(visits[1])
=============================================================================
