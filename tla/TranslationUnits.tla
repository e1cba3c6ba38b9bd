-------------------------- MODULE TranslationUnits --------------------------
(***************************************************************************)
(* The translation units of one process, from the arguments to the YAML     *)
(* file: ClazyASTAction (the plugin), ClazyStandaloneASTAction, the         *)
(* ClazyContext they create and destroy, and the exporter it owns.          *)
(*                                                                         *)
(* The plugin may run in several threads of a process (libclang), each on   *)
(* instances of its own; what they share is the CheckManager and its lock,  *)
(* TranslationUnitDiagnostics, the count of destroyed contexts and the      *)
(* cached isQt().  clazy-standalone runs one translation unit after the     *)
(* other.  Which checks are selected is CheckManager's affair: here it is   *)
(* part of the arguments.                                                  *)
(***************************************************************************)
EXTENDS FixItExporter

CONSTANTS
    Configs,        \* the processes the instance looks at
    Nobody          \* the lock is free

\* A process: which action it runs, whether its plugins run in threads, its
\* options, the arguments of each translation unit ("checks", "help", "wrong",
\* and for clazy-standalone "none" for a list without a check, "unreadable"
\* for a file the compiler cannot open), those with a second "export-fixes",
\* those with QT_CORE_LIB, the number of source paths it was called with, and
\* who reports.
Config == [standalone : BOOLEAN, threads : BOOLEAN, exportFixes : BOOLEAN, onlyQt : BOOLEAN,
           args : [TUs -> {"checks", "help", "wrong", "none", "unreadable"}],
           named : SUBSET TUs, qt : SUBSET TUs, paths : Nat,
           reporters : SUBSET {"callbacks", "visitors", "compiler"}, levels : SUBSET Levels]

\* clazy-standalone has one list of checks for all of its files; the plugin has
\* the arguments of each compilation, and is given no source paths.  Whoever
\* asks for the export twice asks for it.
ASSUME ConfigsAssumption ==
    /\ Configs \subseteq Config
    /\ \A c \in Configs :
          IF c.standalone
          THEN \E list \in {"checks", "none"} : \A t \in TUs : c.args[t] \in {list, "unreadable"}
          ELSE c.paths = 0 /\ \A t \in TUs : c.args[t] \in {"checks", "help", "wrong"}
    /\ \A c \in Configs : c.named # {} => c.exportFixes /\ ~c.standalone
    /\ Nobody \notin TUs

VARIABLES
    config,         \* the process
    pc,             \* where each translation unit is
    lock,           \* who holds CheckManager::lock()
    exporting,      \* whether the context of a translation unit has an exporter
    isQt,           \* the static s_isQt, or "unknown"
    count           \* contexts destroyed so far

vars == <<config, pc, lock, exporting, isQt, count, exporterVars>>

Waiting == "waiting"

\* The plugin refused its arguments, or the action created no consumer.
Ended == {"destroyed", "rejected", "failed"}

Places == {Waiting, "constructing", "beforeRequest", "requesting", "beforeHelp", "printingHelp",
           "refused", "beforeCreate", "creating", "parsing", "traversing", "traversed"} \cup Ended

Inside(t) == pc[t] \notin Ended \cup {Waiting}

At(t, place) == pc[t] = place

Go(t, place) == pc' = [pc EXCEPT ![t] = place]

\* Which translation unit is next: clazy-standalone takes its files in some
\* order, and a process without threads one at a time.
MayStart(t) ==
    /\ At(t, Waiting)
    /\ config.threads \/ \A u \in TUs : ~Inside(u)

HasChecks(t) == config.args[t] = "checks"

-----------------------------------------------------------------------------
(* ClazyContext's constructor asks the CheckManager for the checks that are *)
(* errors, and creates the exporter.  The help text comes without options.  *)

WantsExporter(t) == config.exportFixes /\ config.args[t] # "help"

OnlyQt(t) == config.onlyQt /\ config.args[t] # "help"

\* The file of a plugin is named after its main file.  If "export-fixes" is
\* there twice, it is named after the first argument that is left, the same for
\* all who do that; that of clazy-standalone is the one of -export-fixes.
FileOf(t) == IF config.standalone \/ t \in config.named THEN NoTU ELSE t

ConstructContext(t, next) ==
    /\ At(t, "constructing")
    /\ Go(t, next)
    /\ exporting' = [exporting EXCEPT ![t] = WantsExporter(t)]
    /\ IF WantsExporter(t) THEN Construct(t, config.paths # 0) ELSE UNCHANGED exporterVars
    /\ UNCHANGED <<config, lock, isQt, count>>

-----------------------------------------------------------------------------
(* The plugin: ParseArgs and CreateASTConsumer.                             *)

ParseArgs(t) ==
    /\ ~config.standalone
    /\ MayStart(t)
    /\ Go(t, "constructing")
    /\ UNCHANGED <<config, lock, exporting, isQt, count, exporterVars>>

PluginContext(t) ==
    /\ ~config.standalone
    /\ ConstructContext(t, IF config.args[t] = "help" THEN "beforeHelp" ELSE "beforeRequest")

\* A std::lock_guard around what is done at place.
Lock(t, before, place) ==
    /\ At(t, before)
    /\ lock = Nobody
    /\ lock' = t
    /\ Go(t, place)
    /\ UNCHANGED <<config, exporting, isQt, count, exporterVars>>

Unlock(t, place, next) ==
    /\ At(t, place)
    /\ lock' = Nobody
    /\ Go(t, next)
    /\ UNCHANGED <<config, exporting, isQt, count, exporterVars>>

\* Mutant: the help is printed while requestedChecks' lock is still held.
RequestChecks_HelpInside(t) ==
    \/ Lock(t, "beforeRequest", "requesting")
    \/ /\ ~HasChecks(t)
       /\ At(t, "requesting")
       /\ Go(t, "beforeHelp")
       /\ UNCHANGED <<config, lock, exporting, isQt, count, exporterVars>>
    \/ HasChecks(t) /\ Unlock(t, "requesting", "beforeCreate")

RequestChecks(t) ==
    \/ Lock(t, "beforeRequest", "requesting")
    \/ Unlock(t, "requesting", IF HasChecks(t) THEN "beforeCreate" ELSE "beforeHelp")

\* Wrong arguments print the help too; then ParseArgs returns false, and the
\* compiler goes on without the plugin.  Nobody deletes its context.
PrintHelp(t) ==
    \/ Lock(t, "beforeHelp", "printingHelp")
    \/ Unlock(t, "printingHelp", IF config.args[t] = "help" THEN "beforeCreate" ELSE "refused")

EndWithoutPlugin(t) ==
    /\ At(t, "refused")
    /\ Go(t, "rejected")
    /\ UNCHANGED <<config, lock, exporting, isQt, count, exporterVars>>

CreateASTConsumer(t) ==
    \/ Lock(t, "beforeCreate", "creating")
    \/ Unlock(t, "creating", "parsing")

-----------------------------------------------------------------------------
(* clazy-standalone: the tool has no consumer for a file that it cannot     *)
(* read or that nothing checks, and goes on with the next.                  *)

StandaloneStart(t) ==
    /\ config.standalone
    /\ MayStart(t)
    /\ Go(t, IF HasChecks(t) THEN "constructing" ELSE "failed")
    /\ UNCHANGED <<config, lock, exporting, isQt, count, exporterVars>>

StandaloneContext(t) ==
    /\ config.standalone
    /\ ConstructContext(t, "parsing")

-----------------------------------------------------------------------------
(* Both: the preprocessor callbacks report while the file is parsed, the    *)
(* visitors and matchers while its tree is traversed, the compiler always.  *)

\* The callbacks and visitors of the checks report warnings, or errors.
MayReport(t, d) ==
    /\ d.by \in config.reporters /\ d.level \in config.levels
    /\ \/ d.by = "compiler" /\ Inside(t)
       \/ d.by = "callbacks" /\ At(t, "parsing") /\ HasChecks(t) /\ d.level # "Note"
       \/ d.by = "visitors" /\ At(t, "traversing") /\ HasChecks(t) /\ d.level # "Note"

ReportDiagnostic(t) ==
    /\ pc[t] \in {"refused", "parsing", "traversing", "traversed"}
    /\ \E d \in Diagnostic : MayReport(t, d) /\ Report(t, d)
    /\ UNCHANGED <<config, pc, lock, exporting, isQt, count>>

\* -only-qt looks at QT_CORE_LIB once per process.
QtAfter(t) ==
    IF OnlyQt(t) /\ isQt = "unknown" THEN (IF t \in config.qt THEN "yes" ELSE "no") ELSE isQt

HandleTranslationUnit(t) ==
    /\ At(t, "parsing")
    /\ IF exporting[t] THEN BeginSourceFile(t) ELSE UNCHANGED exporterVars
    /\ isQt' = QtAfter(t)
    /\ Go(t, IF OnlyQt(t) /\ QtAfter(t) = "no" THEN "traversed" ELSE "traversing")
    /\ UNCHANGED <<config, lock, exporting, count>>

EndTraversal(t) ==
    /\ At(t, "traversing")
    /\ Go(t, "traversed")
    /\ UNCHANGED <<config, lock, exporting, isQt, count, exporterVars>>

IsLast(n) == n = config.paths

\* Mutant: the exporter is not deleted with the context.
DestroyContext_KeepsExporter(t) ==
    /\ At(t, "traversed")
    /\ count' = count + 1
    /\ yaml' = IF exporting[t] /\ (config.paths = 0 \/ IsLast(count + 1))
               THEN Exported(FileOf(t)) ELSE yaml
    /\ Go(t, "destroyed")
    /\ UNCHANGED <<config, lock, exporting, isQt, client, recordNotes, tuDiag, emitted, shown>>

\* ~ClazyASTConsumer deletes the context, and the context its exporter.
DestroyContext(t) ==
    /\ At(t, "traversed")
    /\ count' = count + 1
    /\ IF exporting[t]
       THEN /\ yaml' = IF config.paths = 0 \/ IsLast(count + 1) THEN Exported(FileOf(t)) ELSE yaml
            /\ client' = Restored(t)
            /\ UNCHANGED <<recordNotes, tuDiag, emitted, shown>>
       ELSE UNCHANGED exporterVars
    /\ exporting' = [exporting EXCEPT ![t] = FALSE]
    /\ Go(t, "destroyed")
    /\ UNCHANGED <<config, lock, isQt>>

-----------------------------------------------------------------------------
Init ==
    /\ config \in Configs
    /\ pc = [t \in TUs |-> Waiting]
    /\ lock = Nobody
    /\ exporting = [t \in TUs |-> FALSE]
    /\ isQt = "unknown"
    /\ count = 0
    /\ client = [t \in TUs |-> "compiler"]
    /\ recordNotes = [t \in TUs |-> FALSE]
    /\ tuDiag = NoFile
    /\ yaml = [f \in TUs \cup {NoTU} |-> NoFile]
    /\ emitted = [t \in TUs |-> <<>>]
    /\ shown = [t \in TUs |-> <<>>]

\* What the thread of a translation unit does next, whatever it reports.
Step(t) ==
    \/ ParseArgs(t) \/ PluginContext(t) \/ RequestChecks(t) \/ PrintHelp(t)
    \/ EndWithoutPlugin(t) \/ CreateASTConsumer(t) \/ StandaloneStart(t) \/ StandaloneContext(t)
    \/ HandleTranslationUnit(t) \/ EndTraversal(t) \/ DestroyContext(t)

Next == \E t \in TUs : Step(t) \/ ReportDiagnostic(t)

\* A thread that can go on does: the operating system runs all of them, and a
\* compilation reports finitely many diagnostics.
Fairness == \A t \in TUs : WF_vars(Step(t))

Spec == Init /\ [][Next]_vars /\ Fairness

-----------------------------------------------------------------------------
Entry == [tu : TUs, number : 1..MaxDiagnostics, fix : SUBSET Nat, notes : {<<>>}]

File == [main : TUs \cup {NoTU}, diagnostics : Seq(Entry)]

TypeOK ==
    /\ config \in Configs
    /\ pc \in [TUs -> Places]
    /\ lock \in TUs \cup {Nobody}
    /\ exporting \in [TUs -> BOOLEAN]
    /\ isQt \in {"unknown", "yes", "no"}
    /\ count \in 0..Cardinality(TUs)
    /\ client \in [TUs -> {"compiler", "exporter"}]
    /\ recordNotes \in [TUs -> BOOLEAN]
    /\ tuDiag \in File
    /\ yaml \in [TUs \cup {NoTU} -> File]
    /\ emitted \in [TUs -> Seq(Diagnostic)]

\* What a file should hold for the diagnostics of some translation units.
WarningsOf(ds) == {[number |-> ds[i].number, tu |-> ds[i].tu] :
                     i \in {k \in 1..Len(ds) : ds[k].level = "Warning"}}

Recorded(file) == {[number |-> e.number, tu |-> e.tu] :
                     e \in {file.diagnostics[i] : i \in 1..Len(file.diagnostics)}}

\* In the plugin, each translation unit's YAML file holds all of its warnings
\* and nothing of another's, once it has ended: the exporter's constructor
\* clears what TranslationUnitDiagnostics kept (FixItExporter.cpp:35).  A file
\* that several translation units name holds those of one of them, never a
\* mixture.  Not in a process with threads, whose exporters share the static.
OwnWarningsInEachFile ==
    \A t \in TUs :
        At(t, "destroyed") /\ ~config.standalone /\ config.exportFixes /\ HasChecks(t)
            /\ ~config.threads /\ WarningsOf(emitted[t]) # {}
        => LET file == yaml[FileOf(t)]
           IN  \E u \in TUs :
                  /\ file.main = u /\ FileOf(u) = FileOf(t) /\ At(u, "destroyed")
                  /\ Recorded(file) = WarningsOf(emitted[u])
                  /\ Len(file.diagnostics) = Cardinality(WarningsOf(emitted[u]))

\* The file that clazy-standalone writes with the last translation unit holds
\* the warnings of all of them (ClazyContext.cpp:149), if every path has one
\* compile command and can be read: the last one is counted, not known.
AllWarningsInOneFile ==
    /\ config.standalone /\ config.exportFixes /\ \A t \in TUs : pc[t] \in Ended
    /\ config.paths = Cardinality(TUs) /\ \A t \in TUs : config.args[t] # "unreadable"
    => Recorded(yaml[NoTU]) = UNION {WarningsOf(emitted[t]) : t \in TUs}

\* No export of fixes loses a warning or has one too many.
FilesHoldTheirWarnings == OwnWarningsInEachFile /\ AllWarningsInOneFile

\* Told has the diagnostics of ds in their order, and nothing else but what the
\* exporter says of its own.
TellsAll(told, ds) ==
    \E at \in [1..Len(ds) -> 1..Len(told)] :
        /\ \A i, j \in 1..Len(ds) : i < j => at[i] < at[j]
        /\ \A i \in 1..Len(ds) : told[at[i]] = ds[i]
        /\ \A k \in 1..Len(told) : "failed" \in DOMAIN told[k] \/ \E i \in 1..Len(ds) : at[i] = k

\* The exporter never keeps a diagnostic from the compiler's own consumer, nor
\* changes their order, and the consumer is the compiler's again once the
\* context is destroyed.
CompilerSeesEverything ==
    \A t \in TUs :
        /\ TellsAll(shown[t], emitted[t])
        /\ At(t, "destroyed") => client[t] = "compiler"

\* A translation unit that was started ends, however the threads take turns at
\* the lock and whatever their arguments are: PrintHelp and CreateASTConsumer
\* take a lock that is not recursive.
EveryTranslationUnitEnds == \A t \in TUs : <>(pc[t] \in Ended)

-----------------------------------------------------------------------------
(* What the documentation says, and the code does not do.                   *)

\* ClazyStandaloneMain.cpp:51: with -only-qt clazy "Won't emit warnings for
\* non-Qt files".
OnlyQtFilesAreWarnedAbout ==
    \A t \in TUs : config.onlyQt /\ t \notin config.qt =>
        \A i \in 1..Len(emitted[t]) : emitted[t][i].by = "compiler"
=============================================================================
