------------------------- MODULE MCTranslationUnits -------------------------
(***************************************************************************)
(* Two translation units of one process.  A plugin process is called        *)
(* without source paths, clazy-standalone with one path per translation     *)
(* unit unless the compilation database says otherwise.                    *)
(***************************************************************************)
EXTENDS TranslationUnits, TLC

CONSTANTS t1, t2

All(what) == [t \in TUs |-> what]

Plugin ==
    [standalone |-> FALSE, threads |-> FALSE, exportFixes |-> TRUE, onlyQt |-> FALSE,
     args |-> All("checks"), named |-> {}, qt |-> {}, paths |-> 0,
     reporters |-> {"callbacks", "visitors"}, levels |-> {"Warning"}]

Standalone == [Plugin EXCEPT !.standalone = TRUE, !.paths = Cardinality(TUs)]

\* All arguments, with -only-qt and without, in one thread.
PluginProcesses ==
    {[Plugin EXCEPT !.args = a, !.exportFixes = e, !.onlyQt = o, !.qt = {t1},
                    !.reporters = {"compiler", "visitors"}] :
        a \in [TUs -> {"checks", "help", "wrong"}], e \in BOOLEAN, o \in BOOLEAN}

\* One of them, or both, name the file of the fixes.
NamingProcesses == {[Plugin EXCEPT !.named = n] : n \in {{t1}, TUs}}

NotesProcesses == {[Plugin EXCEPT !.levels = Levels, !.reporters = {"compiler"}]}

\* Each thread with its own arguments.
Threads(args) ==
    {[Plugin EXCEPT !.threads = TRUE, !.args = a, !.reporters = {"compiler"}] :
        a \in [TUs -> args]}

ThreadProcesses == Threads({"checks", "help", "wrong"})

\* Every file has one compile command, and is read; or no list has a check.
StandaloneProcesses ==
    {Standalone, [Standalone EXCEPT !.onlyQt = TRUE], [Standalone EXCEPT !.args = All("none")],
     [Standalone EXCEPT !.exportFixes = FALSE]}

\* One path with two compile commands, or one of two files is not there.
OtherDatabases ==
    {[Standalone EXCEPT !.paths = 1],
     [Standalone EXCEPT !.args = [All("checks") EXCEPT ![t1] = "unreadable"]]}

Processes ==
    PluginProcesses \cup NamingProcesses \cup NotesProcesses \cup ThreadProcesses \cup StandaloneProcesses
        \cup OtherDatabases

\* Nothing but visitors, the first of two files has QT_CORE_LIB.
QtAndNonQt == {[Standalone EXCEPT !.onlyQt = TRUE, !.qt = {t1}, !.reporters = {"visitors"}]}

NoHints == {<<>>}

SomeHints == {<<>>, <<1>>, <<1, 2, 1>>}
=============================================================================
