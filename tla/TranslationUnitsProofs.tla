----------------------- MODULE TranslationUnitsProofs -----------------------
(***************************************************************************)
(* Theorems about TranslationUnits, for any number of translation units,     *)
(* any diagnostics and fix-it hints, and any processes ConfigsAssumption     *)
(* admits.                                                                  *)
(***************************************************************************)
EXTENDS TranslationUnits, FiniteSetTheorems, SequenceTheorems, TLAPS

-----------------------------------------------------------------------------
(* What a step can be.                                                      *)

\* Only a translation unit's place changes, and perhaps the lock.
QuietMove(t) ==
    /\ UNCHANGED <<config, exporting, isQt, count, exporterVars>>
    /\ lock' \in {t, Nobody, lock}
    /\ \/ /\ MayStart(t)
          /\ \/ Go(t, "constructing") /\ (config.standalone => HasChecks(t))
             \/ Go(t, "failed") /\ config.standalone /\ ~HasChecks(t)
       \/ /\ pc[t] \in {"beforeRequest", "requesting", "beforeHelp", "printingHelp", "refused",
                        "beforeCreate", "creating"}
          /\ \E next \in {"requesting", "beforeHelp", "printingHelp", "refused", "rejected",
                          "beforeCreate", "creating", "parsing"} :
                /\ Go(t, next)
                /\ pc[t] = "refused" => next = "rejected"
       \/ At(t, "traversing") /\ Go(t, "traversed")

Construction(t) ==
    \/ config.standalone /\ ConstructContext(t, "parsing")
    \/ \E next \in {"beforeHelp", "beforeRequest"} : ~config.standalone /\ ConstructContext(t, next)

LEMMA StepKinds ==
    ASSUME NEW t \in TUs, Step(t)
    PROVE  QuietMove(t) \/ Construction(t) \/ HandleTranslationUnit(t) \/ DestroyContext(t)
<1>1. CASE ParseArgs(t) \/ StandaloneStart(t)
  BY <1>1 DEF ParseArgs, StandaloneStart, QuietMove
<1>2. CASE RequestChecks(t)
  BY <1>2 DEF RequestChecks, Lock, Unlock, QuietMove, At
<1>3. CASE PrintHelp(t)
  BY <1>3 DEF PrintHelp, Lock, Unlock, QuietMove, At
<1>4. CASE CreateASTConsumer(t)
  BY <1>4 DEF CreateASTConsumer, Lock, Unlock, QuietMove, At
<1>5. CASE EndWithoutPlugin(t) \/ EndTraversal(t)
  BY <1>5 DEF EndWithoutPlugin, EndTraversal, QuietMove, At
<1>6. CASE PluginContext(t) \/ StandaloneContext(t)
  BY <1>6 DEF PluginContext, StandaloneContext, Construction
<1> QED BY <1>1, <1>2, <1>3, <1>4, <1>5, <1>6 DEF Step

-----------------------------------------------------------------------------
(* Types.                                                                  *)

\* Each destroyed context was counted.
DestroyedAreCounted == count = Cardinality({t \in TUs : At(t, "destroyed")})

LEMMA CountIsBounded ==
    ASSUME NEW S \in SUBSET TUs
    PROVE  Cardinality(S) \in 0..Cardinality(TUs)
<1>1. Cardinality(TUs) \in Nat
  BY FS_CardinalityType, ExporterAssumption
<1>2. IsFiniteSet(S) /\ Cardinality(S) <= Cardinality(TUs)
  BY FS_Subset, ExporterAssumption
<1>3. Cardinality(S) \in Nat
  BY <1>2, FS_CardinalityType
<1> QED BY <1>1, <1>2, <1>3

\* What a warning adds to the file.
LEMMA ConvertedType ==
    ASSUME NEW d \in Diagnostic
    PROVE  Converted(d) \in Entry /\ Converted(d).number = d.number /\ Converted(d).tu = d.tu
<1>1. d.hints \in Seq(Nat)
  BY ExporterAssumption DEF Diagnostic
<1>2. Replacements(d) \subseteq Nat
  BY <1>1 DEF Replacements
<1>3. d.tu \in TUs /\ d.number \in 1..MaxDiagnostics
  BY DEF Diagnostic
<1> QED BY <1>2, <1>3 DEF Converted, Entry

\* What the exporter records is a file again.
LEMMA RecordingType ==
    ASSUME tuDiag \in File, NEW d \in Diagnostic,
           tuDiag' = [tuDiag EXCEPT !.diagnostics = Append(@, Converted(d))]
    PROVE  /\ tuDiag' \in File /\ tuDiag'.main = tuDiag.main
           /\ tuDiag'.diagnostics = Append(tuDiag.diagnostics, Converted(d))
<1>1. tuDiag.diagnostics \in Seq(Entry)
  BY DEF File
<1>2. Append(tuDiag.diagnostics, Converted(d)) \in Seq(Entry)
  BY <1>1, ConvertedType
<1>3. /\ tuDiag'.main = tuDiag.main
      /\ tuDiag'.diagnostics = Append(tuDiag.diagnostics, Converted(d))
  BY DEF File
<1> QED BY <1>2, <1>3 DEF File

\* Every variable keeps its type.
THEOREM TypeCorrect == Spec => [](TypeOK /\ DestroyedAreCounted)
<1>1. Init => TypeOK /\ DestroyedAreCounted
  <2> SUFFICES ASSUME Init PROVE TypeOK /\ DestroyedAreCounted
    OBVIOUS
  <2>1. {t \in TUs : At(t, "destroyed")} = {}
    BY DEF Init, At, Waiting
  <2>2. DestroyedAreCounted
    BY <2>1, FS_EmptySet DEF Init, DestroyedAreCounted
  <2>3. NoFile \in File
    BY DEF NoFile, File
  <2>4. count \in 0..Cardinality(TUs)
    BY CountIsBounded, <2>1, <2>2 DEF DestroyedAreCounted
  <2> QED BY <2>2, <2>3, <2>4 DEF Init, TypeOK, Places
<1>2. TypeOK /\ DestroyedAreCounted /\ [Next]_vars => (TypeOK /\ DestroyedAreCounted)'
  <2> SUFFICES ASSUME TypeOK, DestroyedAreCounted, [Next]_vars
               PROVE  TypeOK' /\ DestroyedAreCounted'
    OBVIOUS
  <2>0. ASSUME NEW t \in TUs, pc' = [pc EXCEPT ![t] = pc'[t]], pc[t] # "destroyed",
               pc'[t] # "destroyed", count' = count
        PROVE  DestroyedAreCounted' /\ count' \in 0..Cardinality(TUs)
    <3>1. \A u \in TUs : pc'[u] = "destroyed" <=> pc[u] = "destroyed"
      BY <2>0 DEF TypeOK
    <3>2. {u \in TUs : At(u, "destroyed")}' = {u \in TUs : At(u, "destroyed")}
      BY <3>1 DEF At
    <3> QED BY <2>0, <3>2 DEF DestroyedAreCounted, TypeOK
  <2>1. ASSUME NEW t \in TUs, QuietMove(t)
        PROVE  TypeOK' /\ DestroyedAreCounted'
    <3>1. /\ pc' = [pc EXCEPT ![t] = pc'[t]] /\ pc'[t] \in Places
          /\ pc[t] # "destroyed" /\ pc'[t] # "destroyed" /\ count' = count
      BY <2>1 DEF QuietMove, MayStart, At, Go, Waiting, Places, Ended, TypeOK
    <3>2. UNCHANGED <<config, exporting, isQt, exporterVars>> /\ lock' \in TUs \cup {Nobody}
      BY <2>1 DEF QuietMove, TypeOK
    <3> QED BY <2>0, <3>1, <3>2 DEF TypeOK, exporterVars
  <2>2. ASSUME NEW t \in TUs, NEW next \in {"beforeHelp", "beforeRequest", "parsing"},
               ConstructContext(t, next)
        PROVE  TypeOK' /\ DestroyedAreCounted'
    <3>1. /\ pc' = [pc EXCEPT ![t] = pc'[t]] /\ pc'[t] \in Places
          /\ pc[t] # "destroyed" /\ pc'[t] # "destroyed" /\ count' = count
      BY <2>2 DEF ConstructContext, At, Go, Places, Ended, TypeOK
    <3>2. exporting' \in [TUs -> BOOLEAN]
      BY <2>2 DEF ConstructContext, TypeOK, WantsExporter
    <3>3. UNCHANGED <<config, lock, isQt>>
      BY <2>2 DEF ConstructContext
    <3>4. CASE UNCHANGED exporterVars
      BY <2>0, <3>1, <3>2, <3>3, <3>4 DEF TypeOK, exporterVars
    <3>5. CASE Construct(t, config.paths # 0)
      <4>3. <<>> \in Seq(Entry) /\ tuDiag \in File
        BY DEF TypeOK
      <4>4. [tuDiag EXCEPT !.diagnostics = <<>>] \in File
        BY <4>3 DEF File
      <4>1. tuDiag' \in File
        BY <3>5, <4>3, <4>4 DEF Construct
      <4>2. UNCHANGED <<yaml, emitted>> /\ client' = [client EXCEPT ![t] = "exporter"]
            /\ recordNotes' = [recordNotes EXCEPT ![t] = FALSE]
        BY <3>5 DEF Construct
      <4> QED BY <2>0, <3>1, <3>2, <3>3, <4>1, <4>2 DEF TypeOK
    <3> QED BY <2>2, <3>4, <3>5 DEF ConstructContext
  <2>3. ASSUME NEW t \in TUs, HandleTranslationUnit(t)
        PROVE  TypeOK' /\ DestroyedAreCounted'
    <3>1. /\ pc' = [pc EXCEPT ![t] = pc'[t]] /\ pc'[t] \in Places
          /\ pc[t] # "destroyed" /\ pc'[t] # "destroyed" /\ count' = count
      BY <2>3 DEF HandleTranslationUnit, At, Go, Places, Ended, TypeOK
    <3>2. isQt' \in {"unknown", "yes", "no"}
      BY <2>3 DEF HandleTranslationUnit, QtAfter, TypeOK
    <3>3. UNCHANGED <<config, lock, exporting, client, recordNotes, yaml, emitted>>
      BY <2>3 DEF HandleTranslationUnit, BeginSourceFile, exporterVars
    <3>4. tuDiag' \in File
      BY <2>3 DEF HandleTranslationUnit, BeginSourceFile, exporterVars, File, TypeOK
    <3> QED BY <2>0, <3>1, <3>2, <3>3, <3>4 DEF TypeOK
  <2>4. ASSUME NEW t \in TUs, DestroyContext(t)
        PROVE  TypeOK' /\ DestroyedAreCounted'
    <3>1. /\ pc' = [pc EXCEPT ![t] = "destroyed"] /\ pc[t] = "traversed"
          /\ exporting' = [exporting EXCEPT ![t] = FALSE] /\ count' = count + 1
          /\ UNCHANGED <<config, lock, isQt>>
      BY <2>4 DEF DestroyContext, At, Go
    <3> DEFINE D == {u \in TUs : At(u, "destroyed")}
    <3>2. D' = D \cup {t} /\ t \notin D
      BY <3>1 DEF At, TypeOK
    <3>3. D \in SUBSET TUs
      OBVIOUS
    <3>4. IsFiniteSet(D)
      BY <3>3, FS_Subset, ExporterAssumption
    <3>5. Cardinality(D') = Cardinality(D) + 1
      BY <3>2, <3>4, FS_AddElement
    <3>6. DestroyedAreCounted'
      BY <3>1, <3>5 DEF DestroyedAreCounted
    <3>7. count' \in 0..Cardinality(TUs)
      BY <3>2, <3>3, <3>6, CountIsBounded DEF DestroyedAreCounted
    <3>8. FileOf(t) \in TUs \cup {NoTU}
      BY DEF FileOf
    <3>9. yaml' \in [TUs \cup {NoTU} -> File] /\ client' \in [TUs -> {"compiler", "exporter"}]
      BY <2>4, <3>8 DEF DestroyContext, Exported, Restored, exporterVars, TypeOK
    <3>10. UNCHANGED <<recordNotes, tuDiag, emitted>>
      BY <2>4 DEF DestroyContext, exporterVars
    <3>11. pc' \in [TUs -> Places] /\ exporting' \in [TUs -> BOOLEAN]
      BY <3>1 DEF TypeOK, Places, Ended
    <3> QED BY <3>1, <3>6, <3>7, <3>9, <3>10, <3>11 DEF TypeOK
  <2>5. ASSUME NEW t \in TUs, NEW d \in Diagnostic, Report(t, d),
               UNCHANGED <<config, pc, lock, exporting, isQt, count>>
        PROVE  TypeOK' /\ DestroyedAreCounted'
    <3>1. DestroyedAreCounted'
      BY <2>5 DEF DestroyedAreCounted, At
    <3>2. emitted' \in [TUs -> Seq(Diagnostic)] /\ yaml' = yaml
      BY <2>5 DEF Report, TypeOK
    <3>3. /\ client' = client /\ recordNotes' \in [TUs -> BOOLEAN]
          /\ \/ tuDiag' = tuDiag
             \/ tuDiag' = [tuDiag EXCEPT !.diagnostics = Append(@, Converted(d))]
      BY <2>5 DEF Report, HandleDiagnostic, TypeOK
    <3>4. tuDiag' \in File
      BY <3>3, RecordingType DEF TypeOK
    <3> QED BY <2>5, <3>1, <3>2, <3>3, <3>4 DEF TypeOK
  <2>6. CASE UNCHANGED vars
    BY <2>6 DEF vars, exporterVars, TypeOK, DestroyedAreCounted, At
  <2>7. ASSUME NEW t \in TUs, Step(t)
        PROVE  TypeOK' /\ DestroyedAreCounted'
    BY <2>1, <2>2, <2>3, <2>4, <2>7, StepKinds DEF Construction
  <2>8. ASSUME NEW t \in TUs, ReportDiagnostic(t)
        PROVE  TypeOK' /\ DestroyedAreCounted'
    BY <2>5, <2>8 DEF ReportDiagnostic
  <2> QED BY <2>6, <2>7, <2>8 DEF Next
<1> QED BY <1>1, <1>2, PTL DEF Spec

-----------------------------------------------------------------------------
(* The exporter stands between.                                             *)

\* The exporter of a context is the compiler's consumer as long as there is one.
ExporterIsInstalled(t) ==
    /\ exporting[t] <=> client[t] = "exporter"
    /\ pc[t] \in {Waiting, "constructing", "destroyed", "failed"} => ~exporting[t]
    /\ Inside(t) /\ pc[t] # "constructing" => exporting[t] = WantsExporter(t)

LEMMA ExportersAreInstalled == Spec => [](\A t \in TUs : ExporterIsInstalled(t))
<1> DEFINE Inv == \A t \in TUs : ExporterIsInstalled(t)
<1>1. Init => Inv
  BY DEF Init, ExporterIsInstalled, Inside, Waiting
<1>2. TypeOK /\ Inv /\ [Next]_vars => Inv'
  <2> SUFFICES ASSUME TypeOK, Inv, [Next]_vars, NEW u \in TUs
               PROVE  ExporterIsInstalled(u)'
    OBVIOUS
  <2>1. ASSUME UNCHANGED <<exporting, client, config, pc>>
        PROVE  ExporterIsInstalled(u)'
    BY <2>1 DEF ExporterIsInstalled, Inside, WantsExporter
  <2>2. ASSUME pc'[u] = pc[u], exporting'[u] = exporting[u], client'[u] = client[u], config' = config
        PROVE  ExporterIsInstalled(u)'
    BY <2>2 DEF ExporterIsInstalled, Inside, WantsExporter
  <2>3. ASSUME NEW t \in TUs, QuietMove(t)
        PROVE  ExporterIsInstalled(u)'
    <3>1. UNCHANGED <<config, exporting, client>>
      BY <2>3 DEF QuietMove, exporterVars
    <3>2. CASE u # t
      BY <2>2, <2>3, <3>1, <3>2 DEF QuietMove, Go, TypeOK, MayStart
    <3>3. CASE u = t
      <4>1. \/ pc[t] = Waiting /\ pc'[t] \in {"constructing", "failed"}
            \/ /\ Inside(t) /\ pc[t] # "constructing"
               /\ pc'[t] \notin {Waiting, "constructing", "destroyed", "failed"}
        BY <2>3 DEF QuietMove, MayStart, At, Go, Inside, Ended, Waiting, TypeOK
      <4> QED BY <3>1, <3>3, <4>1 DEF ExporterIsInstalled, Inside, Ended, Waiting, WantsExporter
    <3> QED BY <3>2, <3>3
  <2>4. ASSUME NEW t \in TUs, NEW next \in {"beforeHelp", "beforeRequest", "parsing"},
               ConstructContext(t, next)
        PROVE  ExporterIsInstalled(u)'
    <3>1. /\ pc' = [pc EXCEPT ![t] = next] /\ pc[t] = "constructing" /\ config' = config
          /\ exporting' = [exporting EXCEPT ![t] = WantsExporter(t)]
          /\ client' = IF WantsExporter(t) THEN [client EXCEPT ![t] = "exporter"] ELSE client
      BY <2>4 DEF ConstructContext, At, Go, Construct, exporterVars
    <3>2. CASE u # t
      BY <2>2, <3>1, <3>2 DEF TypeOK
    <3>3. CASE u = t
      BY <3>1, <3>3 DEF ExporterIsInstalled, Inside, Ended, Waiting, WantsExporter, TypeOK
    <3> QED BY <3>2, <3>3
  <2>5. ASSUME NEW t \in TUs, HandleTranslationUnit(t)
        PROVE  ExporterIsInstalled(u)'
    <3>1. /\ pc' = [pc EXCEPT ![t] = pc'[t]] /\ pc'[t] \in {"traversed", "traversing"}
          /\ pc[t] = "parsing" /\ UNCHANGED <<config, exporting, client>>
      BY <2>5 DEF HandleTranslationUnit, BeginSourceFile, exporterVars, At, Go, TypeOK
    <3>2. CASE u # t
      BY <2>2, <3>1, <3>2 DEF TypeOK
    <3>3. CASE u = t
      BY <3>1, <3>3 DEF ExporterIsInstalled, Inside, Ended, Waiting, WantsExporter, TypeOK
    <3> QED BY <3>2, <3>3
  <2>6. ASSUME NEW t \in TUs, DestroyContext(t)
        PROVE  ExporterIsInstalled(u)'
    <3>1. /\ pc' = [pc EXCEPT ![t] = "destroyed"] /\ config' = config
          /\ exporting' = [exporting EXCEPT ![t] = FALSE]
          /\ client' = IF exporting[t] THEN [client EXCEPT ![t] = "compiler"] ELSE client
      BY <2>6 DEF DestroyContext, Go, Restored, exporterVars
    <3>2. CASE u # t
      BY <2>2, <3>1, <3>2 DEF TypeOK
    <3>3. CASE u = t
      BY <3>1, <3>3 DEF ExporterIsInstalled, Inside, Ended, Waiting, TypeOK
    <3> QED BY <3>2, <3>3
  <2>7. ASSUME NEW t \in TUs, ReportDiagnostic(t)
        PROVE  ExporterIsInstalled(u)'
    BY <2>1, <2>7 DEF ReportDiagnostic, Report, HandleDiagnostic
  <2>8. CASE UNCHANGED vars
    BY <2>1, <2>8 DEF vars, exporterVars
  <2> QED BY <2>3, <2>4, <2>5, <2>6, <2>7, <2>8, StepKinds DEF Next, Construction
<1> QED BY <1>1, <1>2, TypeCorrect, PTL DEF Spec

\* What the compiler's own consumer gets.
FailedHints == {FixItFailed(d) : d \in Diagnostic}

ShownTypeOK == shown \in [TUs -> Seq(Diagnostic \cup FailedHints)]

\* Two sequences after each other.
LEMMA ConcatParts ==
    ASSUME NEW S, NEW s \in Seq(S), NEW r \in Seq(S)
    PROVE  /\ s \o r \in Seq(S) /\ Len(s \o r) = Len(s) + Len(r)
           /\ \A i \in 1..Len(s) : (s \o r)[i] = s[i]
           /\ \A i \in 1..Len(s \o r) : i > Len(s) => (s \o r)[i] = r[i - Len(s)]
OBVIOUS

\* A diagnostic, and what the exporter adds to it, keep the order.
LEMMA TellingMore ==
    ASSUME NEW told \in Seq(Diagnostic \cup FailedHints), NEW ds \in Seq(Diagnostic),
           TellsAll(told, ds), NEW d \in Diagnostic, NEW n \in Nat, NEW more, NEW all,
           more = Append(told, d) \o [i \in 1..n |-> FixItFailed(d)],
           all = Append(ds, d)
    PROVE  more \in Seq(Diagnostic \cup FailedHints) /\ TellsAll(more, all)
<1> DEFINE failed == [i \in 1..n |-> FixItFailed(d)]
           first == Append(told, d)
<1>1. /\ failed \in Seq(Diagnostic \cup FailedHints) /\ Len(failed) = n
      /\ \A i \in 1..n : "failed" \in DOMAIN failed[i]
  <2>1. FixItFailed(d) \in FailedHints /\ "failed" \in DOMAIN FixItFailed(d)
    BY DEF FailedHints, FixItFailed
  <2>2. \A i \in 1..n : failed[i] = FixItFailed(d)
    OBVIOUS
  <2>3. failed \in [1..n -> Diagnostic \cup FailedHints]
    BY <2>1
  <2> HIDE DEF failed
  <2> QED BY <2>1, <2>2, <2>3
<1>2. /\ first \in Seq(Diagnostic \cup FailedHints) /\ Len(first) = Len(told) + 1
      /\ \A i \in 1..Len(told) : first[i] = told[i]
      /\ first[Len(told) + 1] = d
  OBVIOUS
<1>3. more = first \o failed
  OBVIOUS
<1> HIDE DEF failed, first
<1>4. /\ more \in Seq(Diagnostic \cup FailedHints) /\ Len(more) = Len(told) + 1 + n
      /\ \A i \in 1..(Len(told) + 1) : more[i] = first[i]
      /\ \A i \in 1..Len(more) : i > Len(told) + 1 => more[i] = failed[i - (Len(told) + 1)]
  <2>1. /\ first \o failed \in Seq(Diagnostic \cup FailedHints)
        /\ Len(first \o failed) = Len(first) + Len(failed)
        /\ \A i \in 1..Len(first) : (first \o failed)[i] = first[i]
        /\ \A i \in 1..Len(first \o failed) :
              i > Len(first) => (first \o failed)[i] = failed[i - Len(first)]
    BY <1>1, <1>2, ConcatParts
  <2>2. Len(told) + 1 \in Nat
    OBVIOUS
  <2> QED BY <1>1, <1>2, <1>3, <2>1, <2>2
<1>5. /\ \A i \in 1..Len(told) : more[i] = told[i]
      /\ more[Len(told) + 1] = d
      /\ \A i \in 1..Len(more) : i > Len(told) + 1 => "failed" \in DOMAIN more[i]
  BY <1>1, <1>2, <1>4
<1>6. /\ Len(all) = Len(ds) + 1 /\ \A i \in 1..Len(ds) : all[i] = ds[i]
      /\ all[Len(ds) + 1] = d
  OBVIOUS
<1>7. PICK at \in [1..Len(ds) -> 1..Len(told)] :
        /\ \A i, j \in 1..Len(ds) : i < j => at[i] < at[j]
        /\ \A i \in 1..Len(ds) : told[at[i]] = ds[i]
        /\ \A k \in 1..Len(told) : "failed" \in DOMAIN told[k] \/ \E i \in 1..Len(ds) : at[i] = k
  BY DEF TellsAll
<1> DEFINE l == Len(ds)
           k == Len(told)
           after == [i \in 1..Len(all) |-> IF i = l + 1 THEN k + 1 ELSE at[i]]
<1>8. l \in Nat /\ k \in Nat /\ Len(more) = k + 1 + n /\ Len(all) = l + 1
  BY <1>4, <1>6
<1>9. at \in [1..l -> 1..k]
  BY <1>7
<1>10. /\ \A i \in 1..l : after[i] = at[i] /\ at[i] \in 1..k
       /\ after[l + 1] = k + 1
  <2>1. after = [i \in 1..(l + 1) |-> IF i = l + 1 THEN k + 1 ELSE at[i]]
    BY <1>8
  <2> HIDE DEF after, l, k
  <2>2. \A i \in 1..l : i # l + 1 /\ i \in 1..(l + 1)
    BY <1>8
  <2>3. l + 1 \in 1..(l + 1)
    BY <1>8
  <2> QED BY <1>9, <2>1, <2>2, <2>3
<1>11. /\ \A i \in 1..l : more[at[i]] = all[i]
       /\ more[k + 1] = all[l + 1]
  BY <1>5, <1>6, <1>7, <1>9
<1>12. /\ \A i, j \in 1..l : i < j => at[i] < at[j]
       /\ \A m \in 1..k : "failed" \in DOMAIN more[m] \/ \E i \in 1..l : at[i] = m
       /\ \A m \in 1..Len(more) : m > k + 1 => "failed" \in DOMAIN more[m]
  BY <1>5, <1>7
<1>13. DOMAIN after = 1..(l + 1)
  BY <1>8
<1> HIDE DEF l, k, after
<1>14. after \in [1..Len(all) -> 1..Len(more)]
  <2>2. 1..k \subseteq 1..Len(more) /\ k + 1 \in 1..Len(more)
    BY <1>8
  <2>3. \A i \in 1..(l + 1) : i = l + 1 \/ i \in 1..l
    BY <1>8
  <2>1. \A i \in 1..(l + 1) : after[i] \in 1..Len(more)
    BY <1>10, <2>2, <2>3
  <2> QED BY <1>8, <1>13, <2>1 DEF after
<1>15. \A i, j \in 1..Len(all) : i < j => after[i] < after[j]
  BY <1>8, <1>10, <1>12
<1>16. \A i \in 1..Len(all) : more[after[i]] = all[i]
  <2>1. \A i \in 1..(l + 1) : i = l + 1 \/ i \in 1..l
    BY <1>8
  <2> QED BY <1>8, <1>10, <1>11, <2>1
<1>17. \A m \in 1..Len(more) : "failed" \in DOMAIN more[m] \/ \E i \in 1..Len(all) : after[i] = m
  <2> TAKE m \in 1..Len(more)
  <2>1. m \in 1..k \/ m = k + 1 \/ m > k + 1
    BY <1>8
  <2>2. l + 1 \in 1..Len(all) /\ 1..l \subseteq 1..Len(all)
    BY <1>8
  <2> QED BY <1>10, <1>12, <2>1, <2>2
<1> QED BY <1>4, <1>14, <1>15, <1>16, <1>17 DEF TellsAll

LEMMA TellingOneMore ==
    ASSUME NEW told \in Seq(Diagnostic \cup FailedHints), NEW ds \in Seq(Diagnostic),
           TellsAll(told, ds), NEW d \in Diagnostic
    PROVE  /\ Append(told, d) \in Seq(Diagnostic \cup FailedHints)
           /\ TellsAll(Append(told, d), Append(ds, d))
<1>1. Append(told, d) = Append(told, d) \o [i \in 1..0 |-> FixItFailed(d)]
  OBVIOUS
<1> QED BY <1>1, TellingMore

\* What one report does to both.
LEMMA ReportIsTold ==
    ASSUME TypeOK, ShownTypeOK, NEW t \in TUs, NEW d \in Diagnostic, Report(t, d),
           \A u \in TUs : TellsAll(shown[u], emitted[u])
    PROVE  ShownTypeOK' /\ \A u \in TUs : TellsAll(shown'[u], emitted'[u])
<1> DEFINE n == Cardinality(Failures(d))
<1>1. n \in Nat
  <2>1. Len(d.hints) \in Nat
    BY ExporterAssumption DEF Diagnostic
  <2>2. IsFiniteSet(1..Len(d.hints))
    BY <2>1, FS_Interval
  <2>3. Failures(d) \in SUBSET (1..Len(d.hints))
    BY DEF Failures
  <2> QED BY <2>2, <2>3, FS_Subset, FS_CardinalityType
<1>2. emitted' = [emitted EXCEPT ![t] = Append(emitted[t], d)]
  BY DEF Report
<1>3. \/ shown' = [shown EXCEPT ![t] = Append(shown[t], d)]
      \/ shown' = [shown EXCEPT ![t] = shown[t] \o <<d>> \o [i \in 1..n |-> FixItFailed(d)]]
  BY DEF Report, HandleDiagnostic
<1>4. /\ shown[t] \in Seq(Diagnostic \cup FailedHints) /\ emitted[t] \in Seq(Diagnostic)
      /\ shown \in [TUs -> Seq(Diagnostic \cup FailedHints)] /\ emitted \in [TUs -> Seq(Diagnostic)]
  BY DEF TypeOK, ShownTypeOK
<1> HIDE DEF n
<1>5. shown[t] \o <<d>> = Append(shown[t], d)
  BY <1>4
<1>6. /\ shown'[t] \in Seq(Diagnostic \cup FailedHints)
      /\ TellsAll(shown'[t], emitted'[t])
  <2>1. CASE shown' = [shown EXCEPT ![t] = Append(shown[t], d)]
    BY <1>2, <1>4, <2>1, TellingOneMore
  <2>2. CASE shown' = [shown EXCEPT ![t] = shown[t] \o <<d>> \o [i \in 1..n |-> FixItFailed(d)]]
    <3>1. shown'[t] = Append(shown[t], d) \o [i \in 1..n |-> FixItFailed(d)]
      BY <1>4, <1>5, <2>2
    <3>2. emitted'[t] = Append(emitted[t], d)
      BY <1>2, <1>4
    <3> QED BY <1>1, <1>4, <3>1, <3>2, TellingMore
  <2> QED BY <1>3, <2>1, <2>2
<1>7. \A u \in TUs : u # t => shown'[u] = shown[u] /\ emitted'[u] = emitted[u]
  BY <1>2, <1>3, <1>4
<1>8. shown' \in [TUs -> Seq(Diagnostic \cup FailedHints)]
  BY <1>3, <1>4, <1>6
<1> QED BY <1>6, <1>7, <1>8 DEF ShownTypeOK

\* Nothing but a report changes what was said and shown.
LEMMA StepsAreSilent ==
    ASSUME NEW t \in TUs, Step(t)
    PROVE  UNCHANGED <<emitted, shown, config>>
<1>1. CASE QuietMove(t)
  BY <1>1 DEF QuietMove, exporterVars
<1>2. CASE Construction(t)
  BY <1>2 DEF Construction, ConstructContext, Construct, exporterVars
<1>3. CASE HandleTranslationUnit(t)
  BY <1>3 DEF HandleTranslationUnit, BeginSourceFile, exporterVars
<1>4. CASE DestroyContext(t)
  BY <1>4 DEF DestroyContext, exporterVars
<1> QED BY <1>1, <1>2, <1>3, <1>4, StepKinds

\* The exporter never keeps a diagnostic from the compiler's own consumer, nor
\* changes their order, however many fix-its of it fail, and gives the compiler
\* its consumer back: what it adds comes after the diagnostic it is about.
THEOREM CompilerIsTold == Spec => []CompilerSeesEverything
<1> DEFINE Inv == ShownTypeOK /\ \A t \in TUs : TellsAll(shown[t], emitted[t])
<1>1. Init => Inv
  <2> SUFFICES ASSUME Init PROVE Inv
    OBVIOUS
  <2>1. \A t \in TUs : shown[t] = <<>> /\ emitted[t] = <<>>
    BY DEF Init
  <2>2. TellsAll(<<>>, <<>>)
    <3> DEFINE at == [i \in 1..0 |-> 1]
    <3>1. Len(<<>>) = 0 /\ 1..0 = {}
      OBVIOUS
    <3>2. at \in [1..0 -> 1..0]
      BY <3>1
    <3> HIDE DEF at
    <3> QED BY <3>1, <3>2 DEF TellsAll
  <2>3. ShownTypeOK
    BY DEF Init, ShownTypeOK
  <2> QED BY <2>1, <2>2, <2>3
<1>2. TypeOK /\ Inv /\ [Next]_vars => Inv'
  <2> SUFFICES ASSUME TypeOK, Inv, [Next]_vars PROVE Inv'
    OBVIOUS
  <2>1. CASE UNCHANGED <<emitted, shown>>
    BY <2>1 DEF ShownTypeOK
  <2>2. ASSUME NEW t \in TUs, ReportDiagnostic(t)
        PROVE  Inv'
    BY <2>2, ReportIsTold DEF ReportDiagnostic
  <2> QED BY <2>1, <2>2, StepsAreSilent DEF Next, vars, exporterVars
<1>3. TypeOK /\ Inv /\ (\A t \in TUs : ExporterIsInstalled(t)) => CompilerSeesEverything
  BY DEF CompilerSeesEverything, ExporterIsInstalled, At, TypeOK
<1> QED BY <1>1, <1>2, <1>3, TypeCorrect, ExportersAreInstalled, PTL DEF Spec

-----------------------------------------------------------------------------
(* Whose turn it is.                                                        *)

LEMMA StepMoves ==
    ASSUME TypeOK, NEW t \in TUs, Step(t)
    PROVE  /\ \A u \in TUs : u # t => pc'[u] = pc[u]
           /\ Inside(t) \/ MayStart(t)
           /\ pc[t] # "destroyed"
<1>1. CASE QuietMove(t)
  BY <1>1 DEF QuietMove, Go, MayStart, At, Inside, Ended, Waiting, TypeOK
<1>2. CASE Construction(t)
  BY <1>2 DEF Construction, ConstructContext, Go, At, Inside, Ended, Waiting, TypeOK
<1>3. CASE HandleTranslationUnit(t)
  BY <1>3 DEF HandleTranslationUnit, Go, At, Inside, Ended, Waiting, TypeOK
<1>4. CASE DestroyContext(t)
  BY <1>4 DEF DestroyContext, Go, At, Inside, Ended, Waiting, TypeOK
<1> QED BY <1>1, <1>2, <1>3, <1>4, StepKinds

\* Without threads, one translation unit has started and not ended.
OneAtATime == config.threads \/ \A t, u \in TUs : Inside(t) /\ Inside(u) => t = u

\* clazy-standalone only goes where there are checks.
PlaceIsTheirs(t) ==
    config.standalone =>
        /\ pc[t] \in {Waiting, "constructing", "parsing", "traversing", "traversed", "destroyed", "failed"}
        /\ pc[t] \notin {Waiting, "failed"} => HasChecks(t)
        /\ pc[t] = "failed" => ~HasChecks(t)

\* Where a translation unit has reported nothing yet.
Silent == {Waiting, "constructing", "beforeRequest", "requesting", "beforeHelp", "printingHelp",
           "beforeCreate", "creating", "failed"}

\* Diagnostics are numbered as they are reported, which is not before the
\* context is there.
NumbersAreInOrder(t) ==
    /\ pc[t] \in Silent => emitted[t] = <<>>
    /\ \A i \in DOMAIN emitted[t] : emitted[t][i].number = i
    /\ IsFiniteSet(WarningsOf(emitted[t]))

LEMMA WarningsOfMore ==
    ASSUME NEW ds \in Seq(Diagnostic), NEW d \in Diagnostic, NEW all, all = Append(ds, d)
    PROVE  WarningsOf(all) = IF d.level = "Warning"
                             THEN WarningsOf(ds) \cup {[number |-> d.number, tu |-> d.tu]}
                             ELSE WarningsOf(ds)
<1> DEFINE n == Len(ds)
<1>1. n \in Nat /\ Len(all) = n + 1 /\ all[n + 1] = d /\ \A i \in 1..n : all[i] = ds[i]
  OBVIOUS
<1>2. 1..(n + 1) = 1..n \cup {n + 1}
  BY <1>1
<1> DEFINE x(e) == [number |-> e.number, tu |-> e.tu]
<1>3. \A y : y \in WarningsOf(ds) <=> \E i \in 1..n : ds[i].level = "Warning" /\ y = x(ds[i])
  BY DEF WarningsOf
<1>4. \A y : y \in WarningsOf(all)
                <=> \E i \in 1..(n + 1) : all[i].level = "Warning" /\ y = x(all[i])
  BY <1>1 DEF WarningsOf
<1> HIDE DEF x, n
<1>5. \A y : y \in WarningsOf(all)
                <=> y \in WarningsOf(ds) \/ (d.level = "Warning" /\ y = x(d))
  BY <1>1, <1>2, <1>3, <1>4
<1>6. x(d) = [number |-> d.number, tu |-> d.tu]
  BY DEF x
<1>7. CASE d.level = "Warning"
  <2>1. WarningsOf(all) = WarningsOf(ds) \cup {x(d)}
    BY <1>5, <1>7
  <2> QED BY <1>6, <1>7, <2>1
<1>8. CASE d.level # "Warning"
  <2>1. WarningsOf(all) = WarningsOf(ds)
    <3>1. \A y : y \in WarningsOf(all) <=> y \in WarningsOf(ds)
      BY <1>5, <1>8
    <3> QED BY <3>1
  <2> QED BY <1>8, <2>1
<1> QED BY <1>7, <1>8

LEMMA RecordedMore ==
    ASSUME NEW file \in File, NEW d \in Diagnostic, NEW after,
           after.diagnostics = Append(file.diagnostics, Converted(d))
    PROVE  /\ Recorded(after) = Recorded(file) \cup {[number |-> d.number, tu |-> d.tu]}
           /\ Len(after.diagnostics) = Len(file.diagnostics) + 1
<1> DEFINE n == Len(file.diagnostics)
           c == Converted(d)
           x(e) == [number |-> e.number, tu |-> e.tu]
<1>1. file.diagnostics \in Seq(Entry) /\ c \in Entry /\ c.number = d.number /\ c.tu = d.tu
  BY ConvertedType DEF File
<1>2. /\ n \in Nat /\ Len(after.diagnostics) = n + 1
      /\ after.diagnostics[n + 1] = c /\ \A i \in 1..n : after.diagnostics[i] = file.diagnostics[i]
  BY <1>1
<1>3. 1..(n + 1) = 1..n \cup {n + 1}
  BY <1>2
<1>4. \A y : y \in Recorded(file) <=> \E i \in 1..n : y = x(file.diagnostics[i])
  BY DEF Recorded
<1>5. \A y : y \in Recorded(after) <=> \E i \in 1..(n + 1) : y = x(after.diagnostics[i])
  BY <1>2 DEF Recorded
<1>6. x(c) = [number |-> d.number, tu |-> d.tu]
  BY <1>1
<1> HIDE DEF x, c, n
<1>7. \A y : y \in Recorded(after) <=> y \in Recorded(file) \/ y = x(c)
  BY <1>2, <1>3, <1>4, <1>5
<1>8. Recorded(after) = Recorded(file) \cup {x(c)}
  BY <1>7
<1> QED BY <1>2, <1>6, <1>8 DEF n

\* Only the diagnostics of a file matter for what it records.
LEMMA SameRecorded ==
    ASSUME NEW file, NEW after, after.diagnostics = file.diagnostics
    PROVE  Recorded(after) = Recorded(file)
BY DEF Recorded

Orderly ==
    /\ OneAtATime
    /\ \A t \in TUs : PlaceIsTheirs(t) /\ NumbersAreInOrder(t)

\* A diagnostic gets a number that was not used.
LEMMA ReportIsNumbered ==
    ASSUME TypeOK, NEW t \in TUs, NEW d \in Diagnostic, Report(t, d), NumbersAreInOrder(t)
    PROVE  /\ \A i \in DOMAIN emitted'[t] : emitted'[t][i].number = i
           /\ emitted'[t] = Append(emitted[t], d)
           /\ [number |-> d.number, tu |-> d.tu] \notin WarningsOf(emitted[t])
           /\ IsFiniteSet(WarningsOf(emitted'[t]))
<1>1. emitted'[t] = Append(emitted[t], d) /\ emitted[t] \in Seq(Diagnostic)
  BY DEF Report, TypeOK
<1>2. d.number = Len(emitted[t]) + 1
  BY DEF Report
<1>3. /\ Len(emitted[t]) \in Nat /\ DOMAIN emitted'[t] = 1..(Len(emitted[t]) + 1)
      /\ emitted'[t][Len(emitted[t]) + 1] = d
      /\ \A i \in 1..Len(emitted[t]) : emitted'[t][i] = emitted[t][i]
      /\ DOMAIN emitted[t] = 1..Len(emitted[t])
  BY <1>1
<1>4. \A i \in DOMAIN emitted'[t] : i = Len(emitted[t]) + 1 \/ i \in 1..Len(emitted[t])
  BY <1>3
<1>5. \A i \in DOMAIN emitted'[t] : emitted'[t][i].number = i
  BY <1>2, <1>3, <1>4 DEF NumbersAreInOrder
<1>6. \A y \in WarningsOf(emitted[t]) : y.number \in 1..Len(emitted[t])
  <2> TAKE y \in WarningsOf(emitted[t])
  <2>1. PICK i \in 1..Len(emitted[t]) :
           y = [number |-> emitted[t][i].number, tu |-> emitted[t][i].tu]
    BY DEF WarningsOf
  <2> QED BY <1>3, <2>1 DEF NumbersAreInOrder
<1>7. d.number \notin 1..Len(emitted[t])
  BY <1>2, <1>3
<1>8. [number |-> d.number, tu |-> d.tu] \notin WarningsOf(emitted[t])
  BY <1>6, <1>7
<1>9. IsFiniteSet(WarningsOf(emitted'[t]))
  <2>1. IsFiniteSet(WarningsOf(emitted[t]))
    BY DEF NumbersAreInOrder
  <2>2. IsFiniteSet(WarningsOf(emitted[t]) \cup {[number |-> d.number, tu |-> d.tu]})
    BY <2>1, FS_AddElement
  <2> QED BY <1>1, <2>1, <2>2, WarningsOfMore
<1> QED BY <1>1, <1>5, <1>8, <1>9

\* Starting, moving on and reporting keep the order.
LEMMA OrderIsKept == Spec => []Orderly
<1>1. Init => Orderly
  <2> SUFFICES ASSUME Init PROVE Orderly
    OBVIOUS
  <2>1. \A t \in TUs : pc[t] = Waiting /\ emitted[t] = <<>>
    BY DEF Init
  <2>2. WarningsOf(<<>>) = {}
    BY DEF WarningsOf
  <2>3. OneAtATime
    BY <2>1 DEF OneAtATime, Inside, Waiting
  <2>4. \A t \in TUs : PlaceIsTheirs(t)
    BY <2>1 DEF PlaceIsTheirs, Waiting
  <2>5. \A t \in TUs : DOMAIN emitted[t] = {}
    BY <2>1
  <2>6. IsFiniteSet(WarningsOf(<<>>))
    BY <2>2, FS_EmptySet
  <2>7. \A t \in TUs : NumbersAreInOrder(t)
    BY <2>1, <2>5, <2>6 DEF NumbersAreInOrder
  <2> QED BY <2>3, <2>4, <2>7 DEF Orderly
<1>2. TypeOK /\ Orderly /\ [Next]_vars => Orderly'
  <2> SUFFICES ASSUME TypeOK, Orderly, [Next]_vars PROVE Orderly'
    OBVIOUS
  <2>1. CASE UNCHANGED <<config, pc, emitted>>
    BY <2>1 DEF Orderly, OneAtATime, PlaceIsTheirs, NumbersAreInOrder, Inside, HasChecks
  <2>2. ASSUME NEW t \in TUs, Step(t)
        PROVE  Orderly'
    <3>1. config' = config /\ emitted' = emitted
      BY <2>2, StepsAreSilent
    <3>2. OneAtATime'
      BY <2>2, <3>1, StepMoves DEF Orderly, OneAtATime, Inside, MayStart
    <3>3. ASSUME NEW u \in TUs, u # t
          PROVE  PlaceIsTheirs(u)' /\ NumbersAreInOrder(u)'
      BY <2>2, <3>1, <3>3, StepMoves DEF Orderly, PlaceIsTheirs, NumbersAreInOrder, HasChecks
    <3>4. /\ pc'[t] \in Silent => pc[t] \in Silent
          /\ config.standalone =>
                /\ pc'[t] \in {"constructing", "parsing", "traversing", "traversed", "destroyed", "failed"}
                /\ pc'[t] = "failed" <=> ~HasChecks(t)
      <4>0. PlaceIsTheirs(t)
        BY DEF Orderly
      <4>1. CASE QuietMove(t)
        BY <4>0, <4>1 DEF QuietMove, Go, MayStart, At, PlaceIsTheirs, Silent, Waiting, TypeOK
      <4>2. CASE Construction(t)
        BY <4>0, <4>2 DEF Construction, ConstructContext, Go, At, PlaceIsTheirs, Silent, Waiting, TypeOK
      <4>3. CASE HandleTranslationUnit(t)
        BY <4>0, <4>3 DEF HandleTranslationUnit, Go, At, PlaceIsTheirs, Silent, Waiting, TypeOK
      <4>4. CASE DestroyContext(t)
        BY <4>0, <4>4 DEF DestroyContext, Go, At, PlaceIsTheirs, Silent, Waiting, TypeOK
      <4> QED BY <2>2, <4>1, <4>2, <4>3, <4>4, StepKinds
    <3>5. PlaceIsTheirs(t)' /\ NumbersAreInOrder(t)'
      BY <3>1, <3>4 DEF Orderly, PlaceIsTheirs, NumbersAreInOrder, HasChecks, Waiting
    <3> QED BY <3>2, <3>3, <3>5 DEF Orderly
  <2>3. ASSUME NEW t \in TUs, NEW d \in Diagnostic, Report(t, d), UNCHANGED <<config, pc>>,
               pc[t] \notin Silent
        PROVE  Orderly'
    <3>1. OneAtATime' /\ \A u \in TUs : PlaceIsTheirs(u)'
      BY <2>3 DEF Orderly, OneAtATime, PlaceIsTheirs, Inside, HasChecks
    <3>2. \A u \in TUs : u # t => emitted'[u] = emitted[u]
      BY <2>3 DEF Report, TypeOK
    <3>3. \A u \in TUs : u # t => NumbersAreInOrder(u)'
      BY <2>3, <3>2 DEF Orderly, NumbersAreInOrder
    <3>4. NumbersAreInOrder(t)'
      BY <2>3, ReportIsNumbered DEF Orderly, NumbersAreInOrder
    <3> QED BY <3>1, <3>3, <3>4 DEF Orderly
  <2>4. ASSUME NEW t \in TUs, ReportDiagnostic(t)
        PROVE  Orderly'
    BY <2>3, <2>4 DEF ReportDiagnostic, Silent, Waiting
  <2> QED BY <2>1, <2>2, <2>4 DEF Next, vars, exporterVars
<1> QED BY <1>1, <1>2, TypeCorrect, PTL DEF Spec

-----------------------------------------------------------------------------
(* What the files hold.                                                     *)

Holds(file, t) ==
    /\ Recorded(file) = WarningsOf(emitted[t])
    /\ Len(file.diagnostics) = Cardinality(WarningsOf(emitted[t]))

ExportsItsOwn(t) == ~config.standalone /\ ~config.threads /\ WantsExporter(t)

\* The static holds what the plugin's only translation unit inside reported
\* since its exporter cleared it; in the end its file was written.
RecordsItsOwn(t) ==
    ExportsItsOwn(t) =>
        /\ Inside(t) /\ pc[t] # "constructing" => Holds(tuDiag, t)
        /\ pc[t] \in {"traversing", "traversed"} => tuDiag.main = t
        /\ pc[t] = "destroyed" /\ WarningsOf(emitted[t]) # {} => yaml[FileOf(t)].main \in TUs

\* A file that was written holds the warnings of the one it says.
IsOfOne(f) ==
    ~config.standalone /\ ~config.threads =>
        \A u \in TUs : yaml[f].main = u =>
            FileOf(u) = f /\ pc[u] = "destroyed" /\ Holds(yaml[f], u)

LEMMA HoldsTheSame ==
    ASSUME NEW file, NEW after, NEW t, Holds(file, t), after.diagnostics = file.diagnostics,
           emitted' = emitted
    PROVE  Holds(after, t)'
BY SameRecorded DEF Holds

\* Only who ends writes, and into its own file.
LEMMA StepsWriteTheirFile ==
    ASSUME TypeOK, Orderly, NEW t \in TUs, ExporterIsInstalled(t), RecordsItsOwn(t), Step(t),
           ~config.standalone, ~config.threads
    PROVE  \/ yaml' = yaml
           \/ /\ pc[t] = "traversed" /\ pc'[t] = "destroyed"
              /\ tuDiag.main = t /\ Holds(tuDiag, t) /\ tuDiag.diagnostics # <<>>
              /\ yaml' = [yaml EXCEPT ![FileOf(t)] = tuDiag]
<1>1. CASE QuietMove(t)
  BY <1>1 DEF QuietMove, exporterVars
<1>2. CASE Construction(t)
  BY <1>2 DEF Construction, ConstructContext, Construct, exporterVars
<1>3. CASE HandleTranslationUnit(t)
  BY <1>3 DEF HandleTranslationUnit, BeginSourceFile, exporterVars
<1>4. CASE DestroyContext(t)
  <2>1. pc[t] = "traversed" /\ pc'[t] = "destroyed"
    BY <1>4 DEF DestroyContext, At, Go, TypeOK
  <2>2. CASE ~exporting[t]
    BY <1>4, <2>2 DEF DestroyContext, exporterVars
  <2>3. CASE exporting[t]
    <3>1. Inside(t) /\ pc[t] # "constructing"
      BY <2>1 DEF Inside, Ended, Waiting
    <3>2. WantsExporter(t)
      BY <2>3, <3>1 DEF ExporterIsInstalled
    <3>3. tuDiag.main = t /\ Holds(tuDiag, t)
      BY <2>1, <3>1, <3>2 DEF RecordsItsOwn, ExportsItsOwn
    <3>4. config.paths = 0
      BY ConfigsAssumption DEF TypeOK
    <3>5. yaml' = Exported(FileOf(t))
      BY <1>4, <2>3, <3>4 DEF DestroyContext
    <3> QED BY <2>1, <3>3, <3>5 DEF Exported
  <2> QED BY <2>2, <2>3
<1> QED BY <1>1, <1>2, <1>3, <1>4, StepKinds

\* A step of the translation unit itself.
LEMMA ItsStepIsRecorded ==
    ASSUME TypeOK, TypeOK', Orderly, NEW t \in TUs, ExporterIsInstalled(t), RecordsItsOwn(t), Step(t)
    PROVE  RecordsItsOwn(t)'
<1> SUFFICES ASSUME ExportsItsOwn(t)'
             PROVE  /\ Inside(t)' /\ pc'[t] # "constructing" => Holds(tuDiag, t)'
                    /\ pc'[t] \in {"traversing", "traversed"} => tuDiag'.main = t
                    /\ pc'[t] = "destroyed" /\ WarningsOf(emitted'[t]) # {} =>
                          yaml'[FileOf(t)'].main \in TUs
  BY DEF RecordsItsOwn
<1>1. UNCHANGED <<emitted, config>>
  BY StepsAreSilent
<1>2. /\ ExportsItsOwn(t) /\ WantsExporter(t) /\ config.paths = 0
      /\ ~config.standalone /\ ~config.threads
  <2>1. ExportsItsOwn(t)
    BY <1>1 DEF ExportsItsOwn, WantsExporter
  <2>2. config.paths = 0
    BY <2>1, ConfigsAssumption DEF ExportsItsOwn, TypeOK
  <2> QED BY <2>1, <2>2 DEF ExportsItsOwn
<1>3. /\ Inside(t) /\ pc[t] # "constructing" => Holds(tuDiag, t) /\ exporting[t]
      /\ pc[t] \in {"traversing", "traversed"} => tuDiag.main = t
      /\ tuDiag \in File
  BY <1>2 DEF RecordsItsOwn, ExporterIsInstalled, TypeOK
<1>4. CASE QuietMove(t)
  <2>1. /\ UNCHANGED <<tuDiag, yaml>>
        /\ pc'[t] # "destroyed"
        /\ Inside(t)' /\ pc'[t] # "constructing" => Inside(t) /\ pc[t] # "constructing"
        /\ pc'[t] \in {"traversing", "traversed"} => pc[t] \in {"traversing", "traversed"}
    BY <1>4 DEF QuietMove, MayStart, At, Go, Inside, Ended, Waiting, exporterVars, TypeOK
  <2>2. Holds(tuDiag, t) => Holds(tuDiag, t)'
    BY <1>1, <2>1 DEF Holds
  <2> QED BY <1>3, <2>1, <2>2
<1>5. CASE Construction(t)
  <2>1. PICK next \in {"beforeHelp", "beforeRequest"} : ConstructContext(t, next)
    BY <1>2, <1>5 DEF Construction
  <2>2. /\ pc'[t] \notin {"destroyed", "traversing", "traversed"} /\ pc[t] = "constructing"
        /\ tuDiag' = [tuDiag EXCEPT !.diagnostics = <<>>]
    BY <1>2, <2>1 DEF ConstructContext, At, Go, Construct, TypeOK
  <2>3. tuDiag'.diagnostics = <<>>
    BY <1>3, <2>2 DEF File
  <2>4. emitted[t] = <<>>
    BY <2>2 DEF Orderly, NumbersAreInOrder, Silent
  <2>5. Recorded(tuDiag') = {} /\ WarningsOf(<<>>) = {}
    BY <2>3 DEF Recorded, WarningsOf
  <2>6. Holds(tuDiag, t)'
    BY <1>1, <2>3, <2>4, <2>5, FS_EmptySet DEF Holds
  <2> QED BY <2>2, <2>6
<1>6. CASE HandleTranslationUnit(t)
  <2>1. pc[t] = "parsing" /\ pc'[t] # "destroyed"
    BY <1>6 DEF HandleTranslationUnit, At, Go, TypeOK
  <2>2. exporting[t] /\ Holds(tuDiag, t)
    BY <1>3, <2>1 DEF Inside, Ended, Waiting
  <2>3. tuDiag' = [tuDiag EXCEPT !.main = t]
    BY <1>6, <2>2 DEF HandleTranslationUnit, BeginSourceFile
  <2>4. tuDiag'.main = t /\ tuDiag'.diagnostics = tuDiag.diagnostics
    BY <1>3, <2>3 DEF File
  <2>5. Holds(tuDiag, t)'
    BY <1>1, <2>2, <2>4, SameRecorded DEF Holds
  <2> QED BY <2>1, <2>4, <2>5
<1>7. CASE DestroyContext(t)
  <2>1. pc[t] = "traversed" /\ pc'[t] = "destroyed"
    BY <1>7 DEF DestroyContext, At, Go, TypeOK
  <2>2. exporting[t] /\ Holds(tuDiag, t) /\ tuDiag.main = t
    BY <1>3, <2>1 DEF Inside, Ended, Waiting
  <2>3. FileOf(t)' = FileOf(t)
    BY <1>1 DEF FileOf
  <2>4. CASE tuDiag.diagnostics = <<>>
    <3>1. Recorded(tuDiag) = {}
      BY <2>4 DEF Recorded
    <3>2. WarningsOf(emitted'[t]) = {}
      BY <1>1, <2>2, <3>1 DEF Holds
    <3> QED BY <2>1, <3>2 DEF Inside, Ended
  <2>5. CASE tuDiag.diagnostics # <<>>
    <3>1. yaml' = [yaml EXCEPT ![FileOf(t)] = tuDiag]
      BY <1>2, <1>7, <2>2, <2>5 DEF DestroyContext, Exported
    <3>2. yaml'[FileOf(t)] = tuDiag
      BY <3>1 DEF TypeOK, FileOf
    <3> QED BY <2>1, <2>2, <2>3, <3>2 DEF Inside, Ended
  <2> QED BY <2>4, <2>5
<1> QED BY <1>4, <1>5, <1>6, <1>7, StepKinds

\* A step of another one, which there is only when this one is not inside.
LEMMA AnothersStepIsNot ==
    ASSUME TypeOK, Orderly, NEW t \in TUs, NEW u \in TUs, u # t, RecordsItsOwn(u), Step(t),
           ExporterIsInstalled(t), RecordsItsOwn(t)
    PROVE  RecordsItsOwn(u)'
<1> SUFFICES ASSUME ExportsItsOwn(u)'
             PROVE  /\ Inside(u)' /\ pc'[u] # "constructing" => Holds(tuDiag, u)'
                    /\ pc'[u] \in {"traversing", "traversed"} => tuDiag'.main = u
                    /\ pc'[u] = "destroyed" /\ WarningsOf(emitted'[u]) # {} =>
                          yaml'[FileOf(u)'].main \in TUs
  BY DEF RecordsItsOwn
<1>1. UNCHANGED <<emitted, config>> /\ pc'[u] = pc[u]
  BY StepsAreSilent, StepMoves
<1>2. ExportsItsOwn(u) /\ FileOf(u)' = FileOf(u)
  BY <1>1 DEF ExportsItsOwn, WantsExporter, FileOf
<1>3. ~Inside(u)
  BY <1>2, StepMoves DEF ExportsItsOwn, MayStart, Orderly, OneAtATime
<1>4. yaml' = yaml \/ (tuDiag.main = t /\ yaml' = [yaml EXCEPT ![FileOf(t)] = tuDiag])
  BY <1>2, StepsWriteTheirFile DEF ExportsItsOwn
<1>5. yaml[FileOf(u)].main \in TUs => yaml'[FileOf(u)].main \in TUs
  <2>1. FileOf(u) \in TUs \cup {NoTU}
    BY DEF FileOf
  <2> QED BY <1>4, <2>1 DEF TypeOK
<1>6. ~Inside(u)' /\ pc'[u] \notin {"traversing", "traversed"}
  BY <1>1, <1>3 DEF Inside, Ended, Waiting
<1> QED BY <1>1, <1>2, <1>5, <1>6 DEF RecordsItsOwn

\* What one diagnostic does to the static, if there is an exporter.
LEMMA ReportIsRecorded ==
    ASSUME TypeOK, NEW t \in TUs, NEW d \in Diagnostic, Report(t, d), client[t] = "exporter"
    PROVE  /\ tuDiag'.main = tuDiag.main
           /\ Recorded(tuDiag') = IF d.level = "Warning"
                                  THEN Recorded(tuDiag) \cup {[number |-> d.number, tu |-> d.tu]}
                                  ELSE Recorded(tuDiag)
           /\ Len(tuDiag'.diagnostics) = IF d.level = "Warning"
                                         THEN Len(tuDiag.diagnostics) + 1
                                         ELSE Len(tuDiag.diagnostics)
<1>1. tuDiag \in File
  BY DEF TypeOK
<1>2. CASE d.level = "Warning"
  <2>1. tuDiag' = [tuDiag EXCEPT !.diagnostics = Append(@, Converted(d))]
    BY <1>2 DEF Report, HandleDiagnostic
  <2>2. tuDiag'.main = tuDiag.main /\ tuDiag'.diagnostics = Append(tuDiag.diagnostics, Converted(d))
    BY <1>1, <2>1 DEF File
  <2> QED BY <1>1, <1>2, <2>2, RecordedMore
<1>3. CASE d.level # "Warning"
  BY <1>3 DEF Report, HandleDiagnostic
<1> QED BY <1>2, <1>3

\* A report of the translation unit itself, or of another one.
LEMMA ReportsAreRecorded ==
    ASSUME TypeOK, Orderly, NEW t \in TUs, NEW d \in Diagnostic, Report(t, d),
           UNCHANGED <<config, pc>>, Inside(t), pc[t] # "constructing",
           NEW u \in TUs, ExporterIsInstalled(u), RecordsItsOwn(u)
    PROVE  RecordsItsOwn(u)'
<1> SUFFICES ASSUME ExportsItsOwn(u)'
             PROVE  /\ Inside(u)' /\ pc'[u] # "constructing" => Holds(tuDiag, u)'
                    /\ pc'[u] \in {"traversing", "traversed"} => tuDiag'.main = u
                    /\ pc'[u] = "destroyed" /\ WarningsOf(emitted'[u]) # {} =>
                          yaml'[FileOf(u)'].main \in TUs
  BY DEF RecordsItsOwn
<1>1. ExportsItsOwn(u) /\ WantsExporter(u) /\ FileOf(u)' = FileOf(u)
  BY DEF ExportsItsOwn, WantsExporter, FileOf
<1>2. yaml' = yaml
  BY DEF Report
<1>3. CASE u = t
  <2>1. client[t] = "exporter" /\ Holds(tuDiag, t)
    BY <1>1, <1>3 DEF ExporterIsInstalled, RecordsItsOwn
  <2>2. d.tu = t
    BY DEF Report
  <2>3. emitted'[t] = Append(emitted[t], d) /\ emitted[t] \in Seq(Diagnostic)
    BY DEF Report, TypeOK
  <2>4. /\ [number |-> d.number, tu |-> d.tu] \notin WarningsOf(emitted[t])
        /\ IsFiniteSet(WarningsOf(emitted[t]))
    BY ReportIsNumbered DEF Orderly, NumbersAreInOrder
  <2>5. WarningsOf(emitted'[t]) = IF d.level = "Warning"
                                  THEN WarningsOf(emitted[t]) \cup {[number |-> d.number, tu |-> d.tu]}
                                  ELSE WarningsOf(emitted[t])
    BY <2>3, WarningsOfMore
  <2>6. Cardinality(WarningsOf(emitted[t]) \cup {[number |-> d.number, tu |-> d.tu]})
          = Cardinality(WarningsOf(emitted[t])) + 1
    BY <2>4, FS_AddElement
  <2>7. Holds(tuDiag, t)'
    BY <2>1, <2>5, <2>6, ReportIsRecorded DEF Holds
  <2>8. tuDiag'.main = tuDiag.main
    BY <2>1, ReportIsRecorded
  <2>9. pc'[t] # "destroyed"
    BY DEF Inside, Ended
  <2> QED BY <1>1, <1>3, <2>7, <2>8, <2>9 DEF RecordsItsOwn
<1>4. CASE u # t
  <2>1. ~Inside(u)
    BY <1>1, <1>4 DEF ExportsItsOwn, Orderly, OneAtATime
  <2>2. emitted'[u] = emitted[u]
    BY <1>4 DEF Report, TypeOK
  <2>3. ~Inside(u)' /\ pc'[u] \notin {"traversing", "traversed"}
    BY <2>1 DEF Inside, Ended, Waiting
  <2> QED BY <1>1, <1>2, <2>2, <2>3 DEF RecordsItsOwn
<1> QED BY <1>3, <1>4

\* In a plugin process without threads, the static is that of the translation
\* unit inside, and who ended wrote its warnings, if it had any.
LEMMA FilesAreWritten == Spec => [](\A t \in TUs : RecordsItsOwn(t))
<1> DEFINE Inv == \A t \in TUs : RecordsItsOwn(t)
           Installed == \A t \in TUs : ExporterIsInstalled(t)
<1>1. Init => Inv
  BY DEF Init, RecordsItsOwn, Inside, Ended, Waiting
<1>2. TypeOK /\ TypeOK' /\ Orderly /\ Installed /\ Inv /\ [Next]_vars => Inv'
  <2> SUFFICES ASSUME TypeOK, TypeOK', Orderly, Installed, Inv, [Next]_vars, NEW u \in TUs
               PROVE  RecordsItsOwn(u)'
    OBVIOUS
  <2>1. CASE UNCHANGED vars
    BY <2>1 DEF vars, exporterVars, RecordsItsOwn, ExportsItsOwn, WantsExporter, FileOf, Inside, Holds
  <2>2. ASSUME NEW t \in TUs, Step(t)
        PROVE  RecordsItsOwn(u)'
    BY <2>2, ItsStepIsRecorded, AnothersStepIsNot
  <2>3. ASSUME NEW t \in TUs, ReportDiagnostic(t)
        PROVE  RecordsItsOwn(u)'
    BY <2>3, ReportsAreRecorded DEF ReportDiagnostic, Inside, Ended, Waiting
  <2> QED BY <2>1, <2>2, <2>3 DEF Next
<1> QED BY <1>1, <1>2, TypeCorrect, OrderIsKept, ExportersAreInstalled, PTL DEF Spec

\* Nothing that is told after the end gets into a file.
LEMMA EndedAreSilent ==
    ASSUME TypeOK, NEW t \in TUs, ReportDiagnostic(t), NEW u \in TUs, pc[u] = "destroyed"
    PROVE  emitted'[u] = emitted[u] /\ yaml' = yaml /\ config' = config /\ pc' = pc
BY DEF ReportDiagnostic, Report, TypeOK

\* A file is never a mixture: it holds all of the warnings of one, once each.
LEMMA FilesAreOfOne == Spec => [](\A f \in TUs \cup {NoTU} : IsOfOne(f))
<1> DEFINE Inv == \A f \in TUs \cup {NoTU} : IsOfOne(f)
           Installed == \A t \in TUs : ExporterIsInstalled(t)
           Own == \A t \in TUs : RecordsItsOwn(t)
<1>1. Init => Inv
  BY ExporterAssumption DEF Init, IsOfOne, NoFile
<1>2. TypeOK /\ Orderly /\ Installed /\ Own /\ Inv /\ [Next]_vars => Inv'
  <2> SUFFICES ASSUME TypeOK, Orderly, Installed, Own, Inv, [Next]_vars, NEW f \in TUs \cup {NoTU},
                      ~config'.standalone, ~config'.threads, NEW u \in TUs, yaml'[f].main = u
               PROVE  FileOf(u)' = f /\ pc'[u] = "destroyed" /\ Holds(yaml[f], u)'
    BY DEF IsOfOne
  <2>0. ASSUME config' = config PROVE FileOf(u)' = FileOf(u)
    BY <2>0 DEF FileOf
  <2>1. ASSUME config' = config, yaml'[f] = yaml[f], pc'[u] = pc[u], emitted'[u] = emitted[u]
        PROVE  FileOf(u)' = f /\ pc'[u] = "destroyed" /\ Holds(yaml[f], u)'
    BY <2>0, <2>1 DEF IsOfOne, Holds
  <2>2. CASE UNCHANGED vars
    BY <2>1, <2>2 DEF vars, exporterVars
  <2>3. ASSUME NEW t \in TUs, ReportDiagnostic(t)
        PROVE  FileOf(u)' = f /\ pc'[u] = "destroyed" /\ Holds(yaml[f], u)'
    <3>1. yaml' = yaml /\ config' = config /\ pc' = pc
      BY <2>3 DEF ReportDiagnostic, Report
    <3>2. pc[u] = "destroyed"
      BY <3>1 DEF IsOfOne
    <3>3. emitted'[u] = emitted[u]
      BY <2>3, <3>2, EndedAreSilent
    <3> QED BY <2>1, <3>1, <3>3
  <2>4. ASSUME NEW t \in TUs, Step(t)
        PROVE  FileOf(u)' = f /\ pc'[u] = "destroyed" /\ Holds(yaml[f], u)'
    <3>1. UNCHANGED <<emitted, config>>
      BY <2>4, StepsAreSilent
    <3>2. CASE yaml'[f] = yaml[f]
      <4>1. pc[u] = "destroyed"
        BY <3>1, <3>2 DEF IsOfOne
      <4>2. u # t
        BY <2>4, <4>1, StepMoves
      <4>3. pc'[u] = pc[u]
        BY <2>4, <4>1, <4>2, StepMoves
      <4> QED BY <2>1, <3>1, <3>2, <4>3
    <3>3. CASE yaml'[f] # yaml[f]
      <4>1. /\ pc'[t] = "destroyed" /\ tuDiag.main = t /\ Holds(tuDiag, t)
            /\ yaml' = [yaml EXCEPT ![FileOf(t)] = tuDiag]
        BY <2>4, <3>1, <3>3, StepsWriteTheirFile
      <4>2. f = FileOf(t) /\ yaml'[f] = tuDiag
        BY <3>3, <4>1 DEF TypeOK
      <4>3. u = t
        BY <4>1, <4>2
      <4>4. Holds(yaml[f], t)'
        BY <3>1, <4>1, <4>2 DEF Holds
      <4>5. FileOf(t)' = f
        BY <3>1, <4>2 DEF FileOf
      <4> QED BY <4>1, <4>3, <4>4, <4>5
    <3> QED BY <3>2, <3>3
  <2> QED BY <2>2, <2>3, <2>4 DEF Next
<1> QED BY <1>1, <1>2, TypeCorrect, OrderIsKept, ExportersAreInstalled, FilesAreWritten, PTL DEF Spec

\* The static holds the warnings of all translation units of clazy-standalone,
\* and the one file nothing before the last context is destroyed, and then
\* these.
RecordsAll ==
    config.standalone /\ config.exportFixes /\ config.paths = Cardinality(TUs) =>
        /\ \A x : x \in Recorded(tuDiag) <=> \E t \in TUs : x \in WarningsOf(emitted[t])
        /\ yaml[NoTU].diagnostics = IF count = config.paths THEN tuDiag.diagnostics ELSE <<>>

\* As long as one is not destroyed, the count has not reached them all.
LEMMA CountIsNotThere ==
    ASSUME DestroyedAreCounted, NEW t \in TUs, ~At(t, "destroyed")
    PROVE  count \in Nat /\ count < Cardinality(TUs) /\ Cardinality(TUs) \in Nat
<1> DEFINE D == {u \in TUs : At(u, "destroyed")}
<1>1. D \in SUBSET TUs /\ D # TUs
  OBVIOUS
<1>2. Cardinality(TUs) \in Nat /\ count \in 0..Cardinality(TUs)
  BY <1>1, CountIsBounded, FS_CardinalityType, ExporterAssumption DEF DestroyedAreCounted
<1>3. Cardinality(D) # Cardinality(TUs)
  BY <1>1, FS_Subset, ExporterAssumption
<1> QED BY <1>2, <1>3 DEF DestroyedAreCounted

LEMMA StepsRecordAll ==
    ASSUME TypeOK, Orderly, DestroyedAreCounted, RecordsAll, NEW t \in TUs, ExporterIsInstalled(t),
           Step(t)
    PROVE  RecordsAll'
<1> SUFFICES ASSUME config'.standalone, config'.exportFixes, config'.paths = Cardinality(TUs)
             PROVE  /\ \A x : x \in Recorded(tuDiag') <=> \E u \in TUs : x \in WarningsOf(emitted'[u])
                    /\ yaml'[NoTU].diagnostics
                         = IF count' = config'.paths THEN tuDiag'.diagnostics ELSE <<>>
  BY DEF RecordsAll
<1>1. UNCHANGED <<emitted, config>>
  BY StepsAreSilent
<1>2. ~At(t, "destroyed")
  BY StepMoves DEF At
<1>3. count \in Nat /\ count < config.paths /\ config.paths \in Nat
  BY <1>1, <1>2, CountIsNotThere
<1>4. /\ \A x : x \in Recorded(tuDiag) <=> \E u \in TUs : x \in WarningsOf(emitted[u])
      /\ yaml[NoTU].diagnostics = <<>>
      /\ config.standalone /\ tuDiag \in File
  BY <1>1, <1>3 DEF RecordsAll, TypeOK
<1>5. ASSUME tuDiag'.diagnostics = tuDiag.diagnostics, yaml' = yaml, count' = count
      PROVE  /\ \A x : x \in Recorded(tuDiag') <=> \E u \in TUs : x \in WarningsOf(emitted'[u])
             /\ yaml'[NoTU].diagnostics
                  = IF count' = config'.paths THEN tuDiag'.diagnostics ELSE <<>>
  <2>1. Recorded(tuDiag') = Recorded(tuDiag)
    BY <1>5, SameRecorded
  <2> QED BY <1>1, <1>3, <1>4, <1>5, <2>1
<1>6. CASE QuietMove(t)
  BY <1>5, <1>6 DEF QuietMove, exporterVars
<1>7. CASE Construction(t)
  BY <1>1, <1>3, <1>4, <1>5, <1>7 DEF Construction, ConstructContext, Construct, exporterVars
<1>8. CASE HandleTranslationUnit(t)
  <2>1. tuDiag' = tuDiag \/ tuDiag' = [tuDiag EXCEPT !.main = t]
    BY <1>8 DEF HandleTranslationUnit, BeginSourceFile, exporterVars
  <2>2. tuDiag'.diagnostics = tuDiag.diagnostics
    BY <1>4, <2>1 DEF File
  <2>3. yaml' = yaml /\ count' = count
    BY <1>8 DEF HandleTranslationUnit, BeginSourceFile, exporterVars
  <2> QED BY <1>5, <2>2, <2>3
<1>9. CASE DestroyContext(t)
  <2>1. pc[t] = "traversed" /\ count' = count + 1
    BY <1>9 DEF DestroyContext, At
  <2>2. HasChecks(t)
    BY <1>4, <2>1 DEF Orderly, PlaceIsTheirs, Waiting
  <2>3. exporting[t]
    BY <1>1, <2>1, <2>2 DEF ExporterIsInstalled, Inside, Ended, Waiting, WantsExporter, HasChecks
  <2>4. /\ tuDiag' = tuDiag
        /\ yaml' = IF config.paths = 0 \/ count + 1 = config.paths THEN Exported(NoTU) ELSE yaml
    BY <1>4, <1>9, <2>3 DEF DestroyContext, FileOf, IsLast
  <2>5. config.paths # 0
    BY <1>3
  <2>6. CASE count + 1 = config.paths
    <3>1. yaml' = Exported(NoTU)
      BY <2>4, <2>6
    <3>2. yaml'[NoTU].diagnostics = tuDiag.diagnostics
      <4>1. CASE tuDiag.diagnostics = <<>>
        BY <1>4, <3>1, <4>1 DEF Exported
      <4>2. CASE tuDiag.diagnostics # <<>>
        BY <3>1, <4>2 DEF Exported, TypeOK
      <4> QED BY <4>1, <4>2
    <3> QED BY <1>1, <1>4, <2>1, <2>4, <2>6, <3>2
  <2>7. CASE count + 1 # config.paths
    BY <1>1, <1>4, <2>1, <2>4, <2>5, <2>7
  <2> QED BY <2>6, <2>7
<1> QED BY <1>6, <1>7, <1>8, <1>9, StepKinds

LEMMA ReportsRecordAll ==
    ASSUME TypeOK, Orderly, DestroyedAreCounted, RecordsAll, NEW t \in TUs, ExporterIsInstalled(t),
           NEW d \in Diagnostic, Report(t, d), UNCHANGED <<config, pc, count>>,
           Inside(t), pc[t] # "constructing"
    PROVE  RecordsAll'
<1> SUFFICES ASSUME config'.standalone, config'.exportFixes, config'.paths = Cardinality(TUs)
             PROVE  /\ \A x : x \in Recorded(tuDiag') <=> \E u \in TUs : x \in WarningsOf(emitted'[u])
                    /\ yaml'[NoTU].diagnostics
                         = IF count' = config'.paths THEN tuDiag'.diagnostics ELSE <<>>
  BY DEF RecordsAll
<1>1. ~At(t, "destroyed")
  BY DEF Inside, Ended, At
<1>2. count \in Nat /\ count < config.paths
  BY <1>1, CountIsNotThere
<1>3. /\ \A x : x \in Recorded(tuDiag) <=> \E u \in TUs : x \in WarningsOf(emitted[u])
      /\ yaml[NoTU].diagnostics = <<>>
  BY <1>2 DEF RecordsAll
<1>4. yaml' = yaml
  BY DEF Report
<1>5. HasChecks(t)
  BY DEF Orderly, PlaceIsTheirs, Inside, Ended
<1>6. client[t] = "exporter"
  BY <1>5 DEF ExporterIsInstalled, WantsExporter, HasChecks
<1>7. Recorded(tuDiag') = IF d.level = "Warning"
                          THEN Recorded(tuDiag) \cup {[number |-> d.number, tu |-> d.tu]}
                          ELSE Recorded(tuDiag)
  BY <1>6, ReportIsRecorded
<1>8. emitted'[t] = Append(emitted[t], d) /\ emitted[t] \in Seq(Diagnostic)
      /\ \A u \in TUs : u # t => emitted'[u] = emitted[u]
  BY DEF Report, TypeOK
<1>9. WarningsOf(emitted'[t]) = IF d.level = "Warning"
                                THEN WarningsOf(emitted[t]) \cup {[number |-> d.number, tu |-> d.tu]}
                                ELSE WarningsOf(emitted[t])
  BY <1>8, WarningsOfMore
<1> DEFINE x == [number |-> d.number, tu |-> d.tu]
<1>10. \A y : y \in Recorded(tuDiag') <=> y \in Recorded(tuDiag) \/ (d.level = "Warning" /\ y = x)
  BY <1>7
<1>11. \A y : y \in WarningsOf(emitted'[t])
                 <=> y \in WarningsOf(emitted[t]) \/ (d.level = "Warning" /\ y = x)
  BY <1>9
<1> HIDE DEF x
<1>12. \A y : y \in Recorded(tuDiag') <=> \E u \in TUs : y \in WarningsOf(emitted'[u])
  BY <1>3, <1>8, <1>10, <1>11
<1> QED BY <1>2, <1>3, <1>4, <1>12

\* What clazy-standalone's static and file hold, in whatever order it takes its
\* files.
LEMMA FileHoldsAll == Spec => []RecordsAll
<1> DEFINE Installed == \A t \in TUs : ExporterIsInstalled(t)
<1>1. Init => RecordsAll
  <2> SUFFICES ASSUME Init PROVE RecordsAll
    OBVIOUS
  <2>1. tuDiag.diagnostics = <<>> /\ yaml[NoTU].diagnostics = <<>>
    BY DEF Init, NoFile
  <2>2. Recorded(tuDiag) = {}
    BY <2>1 DEF Recorded
  <2>3. \A t \in TUs : WarningsOf(emitted[t]) = {}
    <3>1. WarningsOf(<<>>) = {}
      BY DEF WarningsOf
    <3> QED BY <3>1 DEF Init
  <2> QED BY <2>1, <2>2, <2>3 DEF RecordsAll
<1>2. TypeOK /\ DestroyedAreCounted /\ Orderly /\ Installed /\ RecordsAll /\ [Next]_vars => RecordsAll'
  <2> SUFFICES ASSUME TypeOK, DestroyedAreCounted, Orderly, Installed, RecordsAll, [Next]_vars
               PROVE  RecordsAll'
    OBVIOUS
  <2>1. CASE UNCHANGED vars
    BY <2>1 DEF vars, exporterVars, RecordsAll
  <2>2. ASSUME NEW t \in TUs, Step(t)
        PROVE  RecordsAll'
    BY <2>2, StepsRecordAll
  <2>3. ASSUME NEW t \in TUs, ReportDiagnostic(t)
        PROVE  RecordsAll'
    BY <2>3, ReportsRecordAll DEF ReportDiagnostic, Inside, Ended, Waiting
  <2> QED BY <2>1, <2>2, <2>3 DEF Next
<1> QED BY <1>1, <1>2, TypeCorrect, OrderIsKept, ExportersAreInstalled, PTL DEF Spec

\* When all have ended, either each was destroyed, or there was no check.
LEMMA AllEnded ==
    ASSUME TypeOK, Orderly, DestroyedAreCounted, RecordsAll,
           config.standalone, config.exportFixes, config.paths = Cardinality(TUs),
           \A t \in TUs : pc[t] \in Ended, \A t \in TUs : config.args[t] # "unreadable"
    PROVE  Recorded(yaml[NoTU]) = UNION {WarningsOf(emitted[t]) : t \in TUs}
<1>1. PICK list \in {"checks", "none"} : \A t \in TUs : config.args[t] = list
  <2>1. config \in Configs
    BY DEF TypeOK
  <2>2. PICK list \in {"checks", "none"} : \A t \in TUs : config.args[t] \in {list, "unreadable"}
    BY <2>1, ConfigsAssumption
  <2> QED BY <2>2
<1>2. \A t \in TUs : IF list = "checks" THEN pc[t] = "destroyed" ELSE pc[t] = "failed"
  BY <1>1 DEF Orderly, PlaceIsTheirs, HasChecks, Ended, Waiting
<1>3. \A x : x \in Recorded(tuDiag) <=> \E t \in TUs : x \in WarningsOf(emitted[t])
  BY DEF RecordsAll
<1>4. CASE list = "checks"
  <2>1. {t \in TUs : At(t, "destroyed")} = TUs
    BY <1>2, <1>4 DEF At
  <2>2. yaml[NoTU].diagnostics = tuDiag.diagnostics
    BY <2>1 DEF RecordsAll, DestroyedAreCounted
  <2>3. Recorded(yaml[NoTU]) = Recorded(tuDiag)
    BY <2>2, SameRecorded
  <2> QED BY <1>3, <2>3
<1>5. CASE list # "checks"
  <2>1. \A t \in TUs : emitted[t] = <<>>
    BY <1>2, <1>5 DEF Orderly, NumbersAreInOrder, Silent
  <2>2. WarningsOf(<<>>) = {}
    BY DEF WarningsOf
  <2>3. \A t \in TUs : WarningsOf(emitted[t]) = {}
    BY <2>1, <2>2
  <2>4. tuDiag \in File /\ tuDiag.diagnostics \in Seq(Entry)
    BY DEF TypeOK, File
  <2>5. tuDiag.diagnostics = <<>>
    <3>1. Recorded(tuDiag) = {}
      BY <1>3, <2>3
    <3>2. 1..Len(tuDiag.diagnostics) = {}
      BY <3>1 DEF Recorded
    <3>3. Len(tuDiag.diagnostics) \in Nat
      BY <2>4
    <3> DEFINE n == Len(tuDiag.diagnostics)
    <3> HIDE DEF n
    <3>5. n \in Nat /\ n # 0 => 1 \in 1..n
      OBVIOUS
    <3>4. Len(tuDiag.diagnostics) = 0
      BY <3>2, <3>3, <3>5 DEF n
    <3> QED BY <2>4, <3>4
  <2>6. Recorded(yaml[NoTU]) = {}
    BY <2>5 DEF RecordsAll, Recorded
  <2> QED BY <2>3, <2>6
<1> QED BY <1>4, <1>5

\* No export of fixes loses a warning or has one too many: in a plugin without
\* threads because an exporter clears what all of them share and no other is
\* there until it wrote its file, in clazy-standalone because nothing is cleared
\* and the count of destroyed contexts tells the last.
THEOREM FilesAreComplete == Spec => []FilesHoldTheirWarnings
<1> DEFINE Own == \A t \in TUs : RecordsItsOwn(t)
           OfOne == \A f \in TUs \cup {NoTU} : IsOfOne(f)
<1>1. Own /\ OfOne => OwnWarningsInEachFile
  <2> SUFFICES ASSUME Own, OfOne, NEW t \in TUs,
                      At(t, "destroyed"), ~config.standalone, config.exportFixes, HasChecks(t),
                      ~config.threads, WarningsOf(emitted[t]) # {}
               PROVE  LET file == yaml[FileOf(t)]
                      IN  \E u \in TUs :
                             /\ file.main = u /\ FileOf(u) = FileOf(t) /\ At(u, "destroyed")
                             /\ Recorded(file) = WarningsOf(emitted[u])
                             /\ Len(file.diagnostics) = Cardinality(WarningsOf(emitted[u]))
    BY DEF OwnWarningsInEachFile
  <2>1. ExportsItsOwn(t)
    BY DEF ExportsItsOwn, WantsExporter, HasChecks
  <2>2. yaml[FileOf(t)].main \in TUs
    BY <2>1 DEF RecordsItsOwn, At
  <2>3. FileOf(t) \in TUs \cup {NoTU}
    BY DEF FileOf
  <2> DEFINE u == yaml[FileOf(t)].main
  <2>4. FileOf(u) = FileOf(t) /\ At(u, "destroyed") /\ Holds(yaml[FileOf(t)], u)
    BY <2>2, <2>3 DEF IsOfOne, At
  <2> QED BY <2>2, <2>4 DEF Holds
<1>2. TypeOK /\ Orderly /\ DestroyedAreCounted /\ RecordsAll => AllWarningsInOneFile
  BY AllEnded DEF AllWarningsInOneFile
<1>3. TypeOK /\ Orderly /\ DestroyedAreCounted /\ RecordsAll /\ Own /\ OfOne => FilesHoldTheirWarnings
  BY <1>1, <1>2 DEF FilesHoldTheirWarnings
<1> QED BY <1>3, TypeCorrect, OrderIsKept, FilesAreWritten, FilesAreOfOne, FileHoldsAll, PTL
=============================================================================
