--------------------------- MODULE FixItExporter ----------------------------
(***************************************************************************)
(* FixItExporter: the diagnostics consumer that stands between a compiler's *)
(* diagnostics and its own consumer, and records the warnings for the YAML  *)
(* file.  There is one exporter per translation unit, but what they record  *)
(* goes to one function-local static, TranslationUnitDiagnostics.           *)
(*                                                                         *)
(* A translation unit has a compiler of its own.  Each operation below is   *)
(* one call into the exporter; TranslationUnits puts them in order.         *)
(***************************************************************************)
EXTENDS Naturals, Sequences, FiniteSets

CONSTANTS
    TUs,            \* the translation units of a process
    NoTU,           \* no translation unit
    HintLists,      \* the fix-it hints of a diagnostic, each the range it replaces
    MaxDiagnostics  \* bound: diagnostics of a translation unit

ASSUME ExporterAssumption ==
    /\ IsFiniteSet(TUs) /\ NoTU \notin TUs
    /\ \A hints \in HintLists : hints \in Seq(Nat)
    /\ MaxDiagnostics \in Nat

VARIABLES
    client,         \* the consumer of each compiler: its own, or the exporter
    recordNotes,    \* m_recordNotes of each exporter
    tuDiag,         \* getTuDiag(), shared by all exporters
    yaml,           \* the contents of the YAML files, by their name
    emitted,        \* history: the diagnostics of each translation unit
    shown           \* history: what the compiler's own consumer got

exporterVars == <<client, recordNotes, tuDiag, yaml, emitted, shown>>

Levels == {"Note", "Warning", "Error"}

\* A diagnostic: who reports it, and the translation unit and position that
\* tell it from the others.
Diagnostic == [tu : TUs, number : 1..MaxDiagnostics, level : Levels, hints : HintLists,
               by : {"callbacks", "visitors", "compiler"}]

\* note_fixit_failed, which the exporter itself reports.
FixItFailed(d) == [tu |-> d.tu, number |-> d.number, failed |-> TRUE]

NoFile == [main |-> NoTU, diagnostics |-> <<>>]

-----------------------------------------------------------------------------
(* ConvertDiagnostic and ConvertFixIt.                                      *)

\* Replacements::add refuses a replacement that overlaps an earlier one.
Overlaps(hints, i) == \E j \in 1..(i - 1) : hints[j] = hints[i]

Replacements(d) == {d.hints[i] : i \in {k \in 1..Len(d.hints) : ~Overlaps(d.hints, k)}}

Failures(d) == {i \in 1..Len(d.hints) : Overlaps(d.hints, i)}

Converted(d) == [tu |-> d.tu, number |-> d.number, fix |-> Replacements(d), notes |-> <<>>]

-----------------------------------------------------------------------------
(* The operations of the exporter of translation unit t.                    *)

\* Mutant: the constructor does not clear what the last exporter recorded.
Construct_KeepsOld(t, standalone) ==
    /\ client' = [client EXCEPT ![t] = "exporter"]
    /\ recordNotes' = [recordNotes EXCEPT ![t] = FALSE]
    /\ UNCHANGED <<tuDiag, yaml, emitted, shown>>

\* The plugin writes a file per translation unit, and starts it empty.
Construct(t, standalone) ==
    /\ tuDiag' = IF standalone THEN tuDiag ELSE [tuDiag EXCEPT !.diagnostics = <<>>]
    /\ client' = [client EXCEPT ![t] = "exporter"]
    /\ recordNotes' = [recordNotes EXCEPT ![t] = FALSE]
    /\ UNCHANGED <<yaml, emitted, shown>>

BeginSourceFile(t) ==
    /\ tuDiag' = [tuDiag EXCEPT !.main = t]
    /\ UNCHANGED <<client, recordNotes, yaml, emitted, shown>>

\* The compiler's own consumer gets every diagnostic first; a warning is then
\* recorded, with the fix-its that do not conflict.  A note to a recorded
\* warning is added to a copy of that warning, which changes nothing.
HandleDiagnostic(t, d) ==
    IF d.level = "Warning"
    THEN /\ shown' = [shown EXCEPT ![t] =
                        @ \o <<d>> \o [i \in 1..Cardinality(Failures(d)) |-> FixItFailed(d)]]
         /\ tuDiag' = [tuDiag EXCEPT !.diagnostics = Append(@, Converted(d))]
         /\ recordNotes' = [recordNotes EXCEPT ![t] = TRUE]
         /\ UNCHANGED client
    ELSE /\ shown' = [shown EXCEPT ![t] = Append(@, d)]
         /\ recordNotes' = [recordNotes EXCEPT ![t] = @ /\ d.level = "Note"]
         /\ UNCHANGED <<tuDiag, client>>

\* The compiler reports a diagnostic to its consumer.
Report(t, d) ==
    /\ Len(emitted[t]) < MaxDiagnostics
    /\ d.tu = t
    /\ d.number = Len(emitted[t]) + 1
    /\ emitted' = [emitted EXCEPT ![t] = Append(@, d)]
    /\ IF client[t] = "exporter"
       THEN HandleDiagnostic(t, d)
       ELSE /\ shown' = [shown EXCEPT ![t] = Append(@, d)]
            /\ UNCHANGED <<client, recordNotes, tuDiag>>
    /\ UNCHANGED yaml

\* What Export leaves in the file of that name: a file is only written if
\* there is something to write.
Exported(file) ==
    IF tuDiag.diagnostics = <<>> THEN yaml ELSE [yaml EXCEPT ![file] = tuDiag]

\* Mutant: the destructor takes the exporter away and puts nothing in its place.
Restored_Nothing(t) == [client EXCEPT ![t] = "nothing"]

\* The destructor gives the compiler its consumer back.
Restored(t) == [client EXCEPT ![t] = "compiler"]
=============================================================================
