------------------------ MODULE WarningEmissionProofs ------------------------
(***************************************************************************)
(* Theorems about WarningEmission for any checks, files, comments, options  *)
(* and number of calls.                                                    *)
(***************************************************************************)
EXTENDS WarningEmission, TLAPS

\* What the raw lexer returns is a sequence of comments of the file.
LEMMA LexedType ==
    ASSUME NEW content \in Content
    PROVE  LexedComments(content) \in Seq(Comment)
<1>1. content.comments \in Seq(Comment)
  BY DEF Content
<1>2. content.comments # <<>> =>
         SubSeq(content.comments, 1, Len(content.comments) - 1) \in Seq(Comment)
  BY <1>1
<1> QED BY <1>1, <1>2 DEF LexedComments

\* Bare NOLINTs speak for lines of the file, or for the one after it.
LEMMA BareLinesType ==
    ASSUME NEW content \in Content
    PROVE  BareLines(LexedComments(content)) \subseteq TargetableLine
<1> DEFINE cs == LexedComments(content)
<1>1. cs \in Seq(Comment)
  BY LexedType
<1>2. ASSUME NEW i \in DOMAIN cs
      PROVE  LineNumberToSuppress(cs[i]) \in TargetableLine
  <2>1. cs[i] \in Comment
    BY <1>1
  <2>2. cs[i].line \in 1..MaxLine
    BY <2>1 DEF Comment, Line
  <2> QED BY <2>2, MaxLineAssumption DEF LineNumberToSuppress, TargetableLine
<1>3. Effective(cs) \subseteq DOMAIN cs
  BY DEF Effective
<1> HIDE DEF cs
<1>4. BareLines(cs) \subseteq TargetableLine
  BY <1>2, <1>3 DEF BareLines
<1> QED BY <1>4 DEF cs

\* Two sequences, one behind the other.
LEMMA ConcatParts ==
    ASSUME NEW S, NEW s \in Seq(S), NEW t \in Seq(S)
    PROVE  /\ s \o t \in Seq(S) /\ Len(s \o t) = Len(s) + Len(t)
           /\ \A i \in DOMAIN s : (s \o t)[i] = s[i]
           /\ \A i \in DOMAIN t : (s \o t)[Len(s) + i] = t[i]
OBVIOUS

\* One element and a sequence, behind a sequence.
LEMMA ConcatOneAndMore ==
    ASSUME NEW S, NEW s \in Seq(S), NEW x \in S, NEW t \in Seq(S),
           NEW after, after = s \o (<<x>> \o t)
    PROVE  /\ after \in Seq(S)
           /\ DOMAIN after = 1..(Len(s) + 1 + Len(t))
           /\ \A k \in DOMAIN s : after[k] = s[k]
           /\ after[Len(s) + 1] = x
           /\ \A i \in DOMAIN t : after[Len(s) + 1 + i] = t[i]
<1>a. <<x>> \in Seq(S) /\ Len(<<x>>) = 1 /\ <<x>>[1] = x
  OBVIOUS
<1>1. PICK rest : rest \in Seq(S) /\ rest = <<x>> \o t
  <2>1. <<x>> \o t \in Seq(S)
    BY <1>a, ConcatParts
  <2> QED BY <2>1
<1>2. /\ Len(rest) = 1 + Len(t) /\ rest[1] = x
      /\ \A i \in DOMAIN t : rest[1 + i] = t[i]
  BY <1>a, <1>1, ConcatParts
<1>3. after \in Seq(S) /\ after = s \o rest
  BY <1>1, ConcatParts
<1>4. /\ Len(after) = Len(s) + Len(rest)
      /\ \A i \in DOMAIN s : after[i] = s[i]
      /\ \A i \in DOMAIN rest : after[Len(s) + i] = rest[i]
  BY <1>1, <1>3, ConcatParts
<1>5. Len(s) \in Nat /\ Len(t) \in Nat /\ DOMAIN rest = 1..(1 + Len(t)) /\ DOMAIN t = 1..Len(t)
  BY <1>2
<1>6. DOMAIN after = 1..(Len(s) + 1 + Len(t))
  BY <1>2, <1>4, <1>5
<1>7. after[Len(s) + 1] = x
  BY <1>2, <1>4, <1>5
<1>8. \A i \in DOMAIN t : after[Len(s) + 1 + i] = t[i]
  <2> SUFFICES ASSUME NEW i \in 1..Len(t) PROVE after[Len(s) + 1 + i] = t[i]
    BY <1>5
  <2>1. 1 + i \in DOMAIN rest /\ Len(s) + (1 + i) = Len(s) + 1 + i
    BY <1>5
  <2> QED BY <1>2, <1>4, <1>5, <2>1
<1> QED BY <1>1, <1>3, <1>4, <1>6, <1>7, <1>8

\* What a warning adds to the reports: itself, and what was queued.
LEMMA ReportsAre ==
    ASSUME NEW check \in Checks, NEW loc \in Locations,
           config \in Configs, astContext \in BOOLEAN,
           queued \in [Checks -> Seq(Locations)], reported \in Seq(Report)
    PROVE  LET after == reported \o Reports(check, loc)
               n     == Len(reported)
               q     == queued[check] IN
           /\ after \in Seq(Report)
           /\ DOMAIN after = 1..(n + 1 + Len(q))
           /\ \A k \in DOMAIN reported : after[k] = reported[k]
           /\ after[n + 1] = ReallyEmitWarning(check, loc, "warning")
           /\ \A i \in DOMAIN q : after[n + 1 + i] = ReallyEmitWarning(check, q[i], "manual")
<1> DEFINE first == ReallyEmitWarning(check, loc, "warning")
           manual(l) == ReallyEmitWarning(check, l, "manual")
           q == queued[check]
           manuals == [i \in DOMAIN q |-> manual(q[i])]
<1>1. first \in Report /\ \A l \in Locations : manual(l) \in Report
  BY DEF ReallyEmitWarning, Report, SeverityOf, Severity, Locations
<1>2. q \in Seq(Locations) /\ DOMAIN q = 1..Len(q) /\ Len(q) \in Nat
  OBVIOUS
<1>3. \A i \in DOMAIN q : q[i] \in Locations
  BY <1>2
<1>4. Reports(check, loc) = <<first>> \o manuals
  BY DEF Reports
<1> HIDE DEF first, manual, q
<1>5. manuals \in Seq(Report) /\ Len(manuals) = Len(q)
  <2>1. \A i \in 1..Len(q) : manual(q[i]) \in Report
    BY <1>1, <1>2, <1>3
  <2>2. manuals = [i \in 1..Len(q) |-> manual(q[i])]
    BY <1>2
  <2> QED BY <1>2, <2>1, <2>2
<1>6. \A i \in DOMAIN q : i \in DOMAIN manuals /\ manuals[i] = manual(q[i])
  OBVIOUS
<1> HIDE DEF manuals
<1> DEFINE after == reported \o Reports(check, loc)
<1> after = reported \o (<<first>> \o manuals)
  BY <1>4
<1> HIDE DEF after
<1>7. /\ after \in Seq(Report)
      /\ DOMAIN after = 1..(Len(reported) + 1 + Len(manuals))
      /\ \A k \in DOMAIN reported : after[k] = reported[k]
      /\ after[Len(reported) + 1] = first
      /\ \A i \in DOMAIN manuals : after[Len(reported) + 1 + i] = manuals[i]
  BY <1>1, <1>5, ConcatOneAndMore, SMTT(60)
<1>8. \A i \in DOMAIN q : after[Len(reported) + 1 + i] = manual(q[i])
  BY <1>6, <1>7
<1>9. DOMAIN after = 1..(Len(reported) + 1 + Len(q))
  BY <1>5, <1>7
<1> QED BY <1>7, <1>8, <1>9 DEF first, manual, q, after

-----------------------------------------------------------------------------
\* Every variable keeps its type, whatever the checks report and queue.
THEOREM TypeCorrect == Spec => []TypeOK
<1>1. Init => TypeOK
  <2> SUFFICES ASSUME Init PROVE TypeOK
    OBVIOUS
  <2>1. source \in [Files -> Content]
    BY SourcesAssumption DEF Init
  <2>2. \A f \in Files : BareLines(LexedComments(source[f])) \subseteq TargetableLine
    BY <2>1, BareLinesType
  <2>3. unspent \in [Files -> SUBSET TargetableLine]
    BY <2>2 DEF Init
  <2>4. astContext \in BOOLEAN
    BY DEF Init
  <2> QED BY <2>1, <2>3, <2>4 DEF Init, TypeOK
<1>2. TypeOK /\ [Next]_vars => TypeOK'
  <2> SUFFICES ASSUME TypeOK, [Next]_vars PROVE TypeOK'
    OBVIOUS
  <2>1. ASSUME NEW check \in Checks, NEW loc \in Locations, Called(check, loc)
        PROVE  calls' \in Seq(Call)
    <3>1. [check |-> check, loc |-> loc] \in Call
      BY DEF Call, Locations
    <3> QED BY <2>1, <3>1 DEF Called, TypeOK
  <2>2. ASSUME NEW check \in Checks, NEW loc \in Locations, DropWarning(check, loc)
        PROVE  TypeOK'
    <3>1. unspent' \in [Files -> SUBSET TargetableLine]
      BY <2>2 DEF DropWarning, Unspent, TypeOK
    <3>2. Called(check, loc)
      BY <2>2 DEF DropWarning
    <3> QED BY <2>1, <2>2, <3>1, <3>2 DEF DropWarning, TypeOK
  <2>3. ASSUME NEW check \in Checks, NEW loc \in Locations, EmitWarning(check, loc)
        PROVE  TypeOK'
    <3>1. reported' \in Seq(Report)
      BY <2>3, ReportsAre DEF EmitWarning, TypeOK
    <3>2. queued' \in [Checks -> Seq(Locations)]
      BY <2>3 DEF EmitWarning, TypeOK
    <3>3. emittedInMacro' \in [Checks -> SUBSET Locations]
      BY <2>3 DEF EmitWarning, TypeOK
    <3>4. Called(check, loc)
      BY <2>3 DEF EmitWarning
    <3> QED BY <2>1, <2>3, <3>1, <3>2, <3>3, <3>4 DEF EmitWarning, TypeOK
  <2>4. ASSUME NEW check \in Checks, NEW loc \in Locations,
               QueueManualFixitWarning(check, loc)
        PROVE  TypeOK'
    <3>1. Append(queued[check], loc) \in Seq(Locations)
      BY DEF TypeOK
    <3>2. queued' \in [Checks -> Seq(Locations)]
      BY <2>4, <3>1 DEF QueueManualFixitWarning, TypeOK
    <3>3. manualQueued' \in [Checks -> SUBSET Locations]
      BY <2>4 DEF QueueManualFixitWarning, TypeOK
    <3> QED BY <2>4, <3>2, <3>3 DEF QueueManualFixitWarning, TypeOK
  <2>5. CASE SetAstContext
    BY <2>5 DEF SetAstContext, TypeOK
  <2>6. CASE UNCHANGED vars
    BY <2>6 DEF vars, TypeOK
  <2> QED BY <2>2, <2>3, <2>4, <2>5, <2>6 DEF Next
<1> QED BY <1>1, <1>2, PTL DEF Spec

-----------------------------------------------------------------------------
(* What a step adds to the reports: nothing, or the reports of one warning.  *)

NothingReported == reported' = reported /\ UNCHANGED <<config, source>>

\* A step of the other actions.
LEMMA OnlyEmitReports ==
    ASSUME [Next]_vars
    PROVE  \/ NothingReported /\ emittedInMacro' = emittedInMacro
           \/ \E check \in Checks, loc \in Locations : EmitWarning(check, loc)
BY DEF Next, vars, DropWarning, QueueManualFixitWarning, SetAstContext, NothingReported

\* Each report after a warning is one from before, or the warning, or a manual
\* intervention of its check.
LEMMA ReportsAfter ==
    ASSUME TypeOK, NEW check \in Checks, NEW loc \in Locations, EmitWarning(check, loc),
           NEW k \in DOMAIN reported'
    PROVE  \/ k \in DOMAIN reported /\ reported'[k] = reported[k]
           \/ k = Len(reported) + 1 /\ reported'[k] = ReallyEmitWarning(check, loc, "warning")
           \/ \E i \in DOMAIN queued[check] :
                 /\ k = Len(reported) + 1 + i
                 /\ reported'[k] = ReallyEmitWarning(check, queued[check][i], "manual")
<1> DEFINE n == Len(reported)
           q == queued[check]
<1>1. reported' = reported \o Reports(check, loc)
  BY DEF EmitWarning
<1>2. /\ DOMAIN reported' = 1..(n + 1 + Len(q))
      /\ \A j \in DOMAIN reported : reported'[j] = reported[j]
      /\ reported'[n + 1] = ReallyEmitWarning(check, loc, "warning")
      /\ \A i \in DOMAIN q : reported'[n + 1 + i] = ReallyEmitWarning(check, q[i], "manual")
  BY <1>1, ReportsAre DEF TypeOK
<1>3. n \in Nat /\ DOMAIN reported = 1..n /\ Len(q) \in Nat /\ DOMAIN q = 1..Len(q)
  BY DEF TypeOK
<1> HIDE DEF n, q
<1>4. k \in 1..(n + 1 + Len(q))
  BY <1>2
<1>5. CASE k <= n
  BY <1>2, <1>3, <1>4, <1>5 DEF n
<1>6. CASE k = n + 1
  BY <1>2, <1>6 DEF n
<1>7. CASE k > n + 1
  <2>1. k - n - 1 \in DOMAIN q /\ k = n + 1 + (k - n - 1)
    BY <1>3, <1>4, <1>7
  <2>2. reported'[k] = ReallyEmitWarning(check, q[k - n - 1], "manual")
    BY <1>2, <2>1
  <2> QED BY <2>1, <2>2 DEF n, q
<1> QED BY <1>3, <1>4, <1>5, <1>6, <1>7

-----------------------------------------------------------------------------
(* Severities.  -Werror is heard once the AST is there, which it stays.      *)

SeverityInv ==
    /\ ~config.isClangTidy => astContext
    /\ \A k \in DOMAIN reported :
          reported[k].severity = "Error" /\ ~IsPromoted(reported[k]) => WerrorIsMeant /\ astContext
    /\ SeverityIsTheDocumentedOne

\* What a single report says of the AST.
IsSevereAsAsked(report) ==
    /\ report.severity \in Severity
    /\ IsPromoted(report) => report.severity = "Error"
    /\ ~IsPromoted(report) => (report.severity = "Error" <=> WerrorIsMeant /\ astContext)

LEMMA EmitsAsAsked ==
    ASSUME NEW check, NEW loc, NEW kind
    PROVE  IsSevereAsAsked(ReallyEmitWarning(check, loc, kind))
BY DEF IsSevereAsAsked, ReallyEmitWarning, SeverityOf, Severity, IsPromoted, WerrorIsMeant

\* Whatever the options and the callers are, and in whatever order checks warn,
\* queue interventions and get the AST: a report is an error exactly if the options
\* ask for one, -Werror being heard from the AST on.
THEOREM SeverityCorrect == Spec => []SeverityIsTheDocumentedOne
<1>1. Init => SeverityInv
  <2> SUFFICES ASSUME Init PROVE SeverityInv
    OBVIOUS
  <2>1. DOMAIN reported = {}
    BY DEF Init
  <2>2. ASSUME ~config.isClangTidy PROVE astContext
    <3>1. astContext = ~config.isClangTidy
      BY DEF Init
    <3> QED BY <2>2, <3>1, Zenon
  <2> QED BY <2>1, <2>2 DEF SeverityInv, SeverityIsTheDocumentedOne
<1>2. TypeOK /\ SeverityInv /\ [Next]_vars => SeverityInv'
  <2> SUFFICES ASSUME TypeOK, SeverityInv, [Next]_vars PROVE SeverityInv'
    OBVIOUS
  <2>1. config' = config /\ (astContext => astContext')
    <3>1. ASSUME NEW check \in Checks, NEW loc \in Locations,
                 \/ DropWarning(check, loc)
                 \/ EmitWarning(check, loc)
                 \/ QueueManualFixitWarning(check, loc)
          PROVE  config' = config /\ astContext' = astContext
      BY <3>1 DEF DropWarning, EmitWarning, QueueManualFixitWarning
    <3>2. SetAstContext => config' = config /\ astContext'
      BY DEF SetAstContext
    <3>3. UNCHANGED vars => config' = config /\ astContext' = astContext
      BY DEF vars
    <3> QED BY <3>1, <3>2, <3>3 DEF Next
  <2>2. /\ \A r : IsPromoted(r)' <=> IsPromoted(r)
        /\ WerrorIsMeant' <=> WerrorIsMeant
    BY <2>1 DEF IsPromoted, WerrorIsMeant
  <2>3. ~config'.isClangTidy => astContext'
    BY <2>1 DEF SeverityInv
  <2>4. CASE NothingReported
    BY <2>1, <2>2, <2>3, <2>4 DEF NothingReported, SeverityInv, SeverityIsTheDocumentedOne,
       IsPromoted, WerrorIsMeant
  <2>5. ASSUME NEW check \in Checks, NEW loc \in Locations, EmitWarning(check, loc)
        PROVE  SeverityInv'
    <3> DEFINE n == Len(reported)
    <3>1. astContext' = astContext
      BY <2>5 DEF EmitWarning
    <3>2. n \in Nat /\ DOMAIN reported = 1..n
      BY DEF TypeOK
    <3>3. /\ DOMAIN reported' \subseteq Nat \ {0}
          /\ \A j \in DOMAIN reported : j \in DOMAIN reported' /\ reported'[j] = reported[j]
          /\ \A k \in DOMAIN reported' : \A j \in 1..k : j \in DOMAIN reported'
      <4>1. reported' = reported \o Reports(check, loc)
        BY <2>5 DEF EmitWarning
      <4>2. /\ DOMAIN reported' = 1..(n + 1 + Len(queued[check]))
            /\ \A j \in DOMAIN reported : reported'[j] = reported[j]
        BY <4>1, ReportsAre DEF TypeOK
      <4>3. Len(queued[check]) \in Nat
        BY DEF TypeOK
      <4> DEFINE m == n + 1 + Len(queued[check])
      <4>4. m \in Nat /\ n <= m
        <5>1. \A x, y \in Nat : x + 1 + y \in Nat /\ x <= x + 1 + y
          OBVIOUS
        <5> QED BY <3>2, <4>3, <5>1, Zenon
      <4>5. DOMAIN reported' = 1..m
        BY <4>2
      <4> HIDE DEF m, n
      <4>6. /\ 1..m \subseteq Nat \ {0}
            /\ \A j \in 1..n : j \in 1..m
            /\ \A k \in 1..m : \A j \in 1..k : j \in 1..m
        BY <3>2, <4>4
      <4> QED BY <3>2, <4>2, <4>5, <4>6
    <3>4. ASSUME NEW k \in DOMAIN reported'
          PROVE  \/ k \in DOMAIN reported /\ reported'[k] = reported[k]
                 \/ k > n /\ IsSevereAsAsked(reported'[k])
      <4>1. CASE k \in DOMAIN reported /\ reported'[k] = reported[k]
        BY <4>1
      <4>2. CASE k = n + 1 /\ reported'[k] = ReallyEmitWarning(check, loc, "warning")
        BY <3>2, <4>2, EmitsAsAsked
      <4>3. ASSUME NEW i \in DOMAIN queued[check], k = n + 1 + i,
                   reported'[k] = ReallyEmitWarning(check, queued[check][i], "manual")
            PROVE  k > n /\ IsSevereAsAsked(reported'[k])
        <5>1. i \in Nat
          BY DEF TypeOK
        <5> QED BY <3>2, <4>3, <5>1, EmitsAsAsked
      <4> QED BY <2>5, <4>1, <4>2, <4>3, ReportsAfter
    <3> HIDE DEF n
    <3>5. ASSUME NEW k \in DOMAIN reported', reported'[k].severity = "Error",
                 ~IsPromoted(reported'[k])
          PROVE  WerrorIsMeant /\ astContext
      BY <3>4, <3>5 DEF SeverityInv, IsSevereAsAsked
    <3>6. ASSUME NEW k \in DOMAIN reported', reported'[k].severity = "Warning"
          PROVE  /\ ~IsPromoted(reported'[k])
                 /\ WerrorIsMeant =>
                       /\ config.isClangTidy
                       /\ \A j \in 1..k : reported'[j].severity = "Error"
                                             => IsPromoted(reported'[j])
      <4>1. CASE k \in DOMAIN reported /\ reported'[k] = reported[k]
        <5>1. \A j \in 1..k : j \in DOMAIN reported /\ reported'[j] = reported[j]
          BY <3>2, <3>3, <4>1
        <5> QED BY <3>6, <4>1, <5>1 DEF SeverityInv, SeverityIsTheDocumentedOne
      <4>2. CASE IsSevereAsAsked(reported'[k])
        <5>1. ~IsPromoted(reported'[k])
          BY <3>6, <4>2 DEF IsSevereAsAsked
        <5>2. ~(WerrorIsMeant /\ astContext)
          BY <3>6, <4>2, <5>1 DEF IsSevereAsAsked
        <5>3. WerrorIsMeant => config.isClangTidy
          BY <5>2 DEF SeverityInv
        <5>4. \A j \in 1..k : j \in DOMAIN reported'
          BY <3>3
        <5> QED BY <3>5, <5>1, <5>2, <5>3, <5>4
      <4> QED BY <3>4, <4>1, <4>2
    <3>7. SeverityIsTheDocumentedOne'
      BY <2>1, <2>2, <3>5, <3>6 DEF SeverityIsTheDocumentedOne, IsPromoted, WerrorIsMeant
    <3>8. \A k \in DOMAIN reported' :
            reported'[k].severity = "Error" /\ ~IsPromoted(reported'[k])
              => WerrorIsMeant /\ astContext
      BY <3>5
    <3> QED BY <2>1, <2>2, <2>3, <3>1, <3>7, <3>8 DEF SeverityInv, IsPromoted, WerrorIsMeant
  <2> QED BY <2>4, <2>5, OnlyEmitReports
<1>3. SeverityInv => SeverityIsTheDocumentedOne
  BY DEF SeverityInv
<1> QED BY <1>1, <1>2, <1>3, TypeCorrect, PTL DEF Spec

-----------------------------------------------------------------------------
(* Inside a macro: what a check reported is in its list.                    *)

ReportedInMacroIsListed ==
    \A k \in DOMAIN reported :
        reported[k].kind = "warning" /\ reported[k].loc.macro
            => reported[k].loc \in emittedInMacro[reported[k].check]

\* Two equal warnings inside one macro expansion would need the list not to
\* hold the location after the first: the list holds it forever.
THEOREM MacroWarningsUnique == Spec => []MacroExpansionWarnsOnce
<1> DEFINE IInv == ReportedInMacroIsListed /\ MacroExpansionWarnsOnce
<1>1. Init => IInv
  BY DEF Init, ReportedInMacroIsListed, MacroExpansionWarnsOnce
<1>2. TypeOK /\ IInv /\ [Next]_vars => IInv'
  <2> SUFFICES ASSUME TypeOK, IInv, [Next]_vars PROVE IInv'
    OBVIOUS
  <2>1. CASE NothingReported /\ emittedInMacro' = emittedInMacro
    BY <2>1 DEF NothingReported, ReportedInMacroIsListed, MacroExpansionWarnsOnce
  <2>2. ASSUME NEW check \in Checks, NEW loc \in Locations, EmitWarning(check, loc)
        PROVE  IInv'
    <3> DEFINE n == Len(reported)
    <3>1. /\ ~WarningAlreadyEmitted(check, loc)
          /\ emittedInMacro' = IF loc.macro THEN [emittedInMacro EXCEPT ![check] = @ \cup {loc}]
                               ELSE emittedInMacro
      BY <2>2 DEF EmitWarning
    <3>2. emittedInMacro \in [Checks -> SUBSET Locations] /\ reported \in Seq(Report)
      BY DEF TypeOK
    <3>3. \A c \in Checks : emittedInMacro[c] \subseteq emittedInMacro'[c]
      BY <3>1, <3>2
    <3>4. loc.macro => loc \in emittedInMacro'[check]
      BY <3>1, <3>2
    <3>5. \A k \in DOMAIN reported : reported[k].check \in Checks
      <4>1. \A k \in DOMAIN reported : reported[k] \in Report
        BY <3>2
      <4> QED BY <4>1 DEF Report
    <3>6. ASSUME NEW k \in DOMAIN reported', reported'[k].kind = "warning"
          PROVE  \/ k \in DOMAIN reported /\ reported'[k] = reported[k]
                 \/ k = n + 1 /\ reported'[k].check = check /\ reported'[k].loc = loc
      BY <2>2, <3>6, ReportsAfter DEF ReallyEmitWarning
    <3>7. ReportedInMacroIsListed'
      <4> SUFFICES ASSUME NEW k \in DOMAIN reported', reported'[k].kind = "warning",
                          reported'[k].loc.macro
                   PROVE  reported'[k].loc \in emittedInMacro'[reported'[k].check]
        BY DEF ReportedInMacroIsListed
      <4>1. CASE k \in DOMAIN reported /\ reported'[k] = reported[k]
        BY <3>3, <3>5, <4>1 DEF ReportedInMacroIsListed
      <4>2. CASE reported'[k].check = check /\ reported'[k].loc = loc
        BY <3>4, <4>2
      <4> QED BY <3>6, <4>1, <4>2
    <3>8. MacroExpansionWarnsOnce'
      <4> SUFFICES ASSUME NEW i \in DOMAIN reported', NEW j \in DOMAIN reported',
                          reported'[i].kind = "warning", reported'[j].kind = "warning",
                          reported'[i].check = reported'[j].check,
                          reported'[i].loc.macro, reported'[i].loc = reported'[j].loc
                   PROVE  i = j
        BY DEF MacroExpansionWarnsOnce
      <4>1. ASSUME NEW k \in DOMAIN reported, reported[k].kind = "warning",
                   reported[k].check = check, reported[k].loc = loc, loc.macro
            PROVE  FALSE
        BY <3>1, <4>1 DEF ReportedInMacroIsListed, WarningAlreadyEmitted
      <4>2. CASE i \in DOMAIN reported /\ reported'[i] = reported[i]
                 /\ j \in DOMAIN reported /\ reported'[j] = reported[j]
        BY <4>2 DEF MacroExpansionWarnsOnce
      <4> QED BY <3>6, <4>1, <4>2
    <3> QED BY <3>7, <3>8
  <2> QED BY <2>1, <2>2, OnlyEmitReports
<1> QED BY <1>1, <1>2, TypeCorrect, PTL DEF Spec

-----------------------------------------------------------------------------
(* Manual interventions.                                                    *)

Done(c) == {k \in DOMAIN reported : reported[k].check = c /\ reported[k].kind = "manual"}

Waits(c, loc) == \E i \in DOMAIN queued[c] : queued[c][i] = loc

IsReported(c, loc) == \E k \in Done(c) : reported[k].loc = loc

\* The invariant of one check: what is queued or reported was queued once, so
\* no location with a file is twice in a queue either.
KeptOf(c) ==
    /\ \A loc : loc \in manualQueued[c] <=> Waits(c, loc) \/ IsReported(c, loc)
    /\ \A k \in Done(c) : reported[k].loc.file # NoFile =>
          /\ \A k2 \in Done(c) : reported[k].loc = reported[k2].loc => k = k2
          /\ ~Waits(c, reported[k].loc)
    /\ \A i, j \in DOMAIN queued[c] :
          queued[c][i].file # NoFile /\ queued[c][i] = queued[c][j] => i = j

LEMMA KeptIsKept == (\A c \in Checks : KeptOf(c)) => ManualInterventionsAreKept
<1>1. ASSUME NEW c \in Checks
      PROVE  (\A loc : loc \in manualQueued[c] <=> Waits(c, loc) \/ IsReported(c, loc))
               <=> manualQueued[c] = {reported[k].loc : k \in Done(c)}
                                        \cup {queued[c][i] : i \in DOMAIN queued[c]}
  BY DEF Waits, IsReported
<1> QED BY <1>1 DEF ManualInterventionsAreKept, KeptOf, Done, Waits

\* A warning makes the queue of its check the newest of its manual reports, and
\* changes the manual reports of no other check.
LEMMA DoneAfter ==
    ASSUME TypeOK, NEW check \in Checks, NEW loc \in Locations, EmitWarning(check, loc),
           NEW c \in Checks
    PROVE  LET n == Len(reported)
               q == queued[check] IN
           /\ \A k \in Done(c) : k \in Done(c)' /\ reported'[k] = reported[k] /\ k <= n
           /\ c = check => \A i \in DOMAIN q : /\ n + 1 + i \in Done(c)'
                                              /\ reported'[n + 1 + i].loc = q[i]
           /\ \A k \in Done(c)' : \/ k \in Done(c)
                                  \/ c = check /\ \E i \in DOMAIN q : k = n + 1 + i
<1> DEFINE n == Len(reported)
           q == queued[check]
<1>1. reported' = reported \o Reports(check, loc)
  BY DEF EmitWarning
<1>2. /\ DOMAIN reported' = 1..(n + 1 + Len(q))
      /\ \A j \in DOMAIN reported : reported'[j] = reported[j]
      /\ reported'[n + 1] = ReallyEmitWarning(check, loc, "warning")
      /\ \A i \in DOMAIN q : reported'[n + 1 + i] = ReallyEmitWarning(check, q[i], "manual")
  BY <1>1, ReportsAre DEF TypeOK
<1>3. n \in Nat /\ DOMAIN reported = 1..n /\ Len(q) \in Nat /\ DOMAIN q = 1..Len(q)
  BY DEF TypeOK
<1>4. \A k \in DOMAIN reported' :
         \/ k \in DOMAIN reported
         \/ k = n + 1
         \/ \E i \in DOMAIN q : k = n + 1 + i
  BY ReportsAfter
<1> HIDE DEF n, q
<1>5. \A k \in Done(c) : k \in Done(c)' /\ reported'[k] = reported[k] /\ k <= n
  BY <1>2, <1>3 DEF Done
<1>6. ASSUME c = check, NEW i \in DOMAIN q
      PROVE  n + 1 + i \in Done(c)' /\ reported'[n + 1 + i].loc = q[i]
  <2>1. n + 1 + i \in DOMAIN reported'
    BY <1>2, <1>3
  <2>2. reported'[n + 1 + i] = ReallyEmitWarning(check, q[i], "manual")
    BY <1>2
  <2> QED BY <1>6, <2>1, <2>2 DEF Done, ReallyEmitWarning
<1>7. ASSUME NEW k \in Done(c)'
      PROVE  k \in Done(c) \/ (c = check /\ \E i \in DOMAIN q : k = n + 1 + i)
  <2>1. k \in DOMAIN reported' /\ reported'[k].check = c /\ reported'[k].kind = "manual"
    BY <1>7 DEF Done
  <2>2. CASE k \in DOMAIN reported
    BY <1>2, <2>1, <2>2 DEF Done
  <2>3. k # n + 1
    BY <1>2, <2>1 DEF ReallyEmitWarning
  <2>4. ASSUME NEW i \in DOMAIN q, k = n + 1 + i
        PROVE  c = check
    <3>1. reported'[k] = ReallyEmitWarning(check, q[i], "manual")
      BY <1>2, <2>4
    <3>2. reported'[k].check = check
      BY <3>1 DEF ReallyEmitWarning
    <3> QED BY <2>1, <3>2
  <2> QED BY <1>4, <2>1, <2>2, <2>3, <2>4
<1> QED BY <1>5, <1>6, <1>7 DEF n, q

\* A manual intervention is queued or reported from when it is queued on, once
\* for each place: for any options, comments and order of calls.
THEOREM ManualsKept == Spec => []ManualInterventionsAreKept
<1> DEFINE IInv == \A c \in Checks : KeptOf(c)
<1>1. Init => IInv
  <2> SUFFICES ASSUME Init, NEW c \in Checks PROVE KeptOf(c)
    OBVIOUS
  <2>1. DOMAIN queued[c] = {} /\ DOMAIN reported = {} /\ manualQueued[c] = {}
    BY DEF Init
  <2> QED BY <2>1 DEF KeptOf, Waits, IsReported, Done
<1>2. TypeOK /\ IInv /\ [Next]_vars => IInv'
  <2> SUFFICES ASSUME TypeOK, IInv, [Next]_vars, NEW c \in Checks
               PROVE  KeptOf(c)'
    OBVIOUS
  <2>a. KeptOf(c)
    OBVIOUS
  <2> HIDE DEF IInv
  <2>1. ASSUME reported' = reported, queued'[c] = queued[c], manualQueued'[c] = manualQueued[c]
        PROVE  KeptOf(c)'
    BY <2>1, <2>a DEF KeptOf, Waits, IsReported, Done
  <2>2. ASSUME NEW check \in Checks, NEW loc \in Locations, EmitWarning(check, loc)
        PROVE  KeptOf(c)'
    <3>1. /\ queued' = [queued EXCEPT ![check] = <<>>] /\ manualQueued' = manualQueued
          /\ queued \in [Checks -> Seq(Locations)]
      BY <2>2 DEF EmitWarning, TypeOK
    <3> DEFINE n == Len(reported)
               q == queued[check]
    <3>2. /\ \A k \in Done(c) : k \in Done(c)' /\ reported'[k] = reported[k] /\ k <= n
          /\ c = check => \A i \in DOMAIN q : /\ n + 1 + i \in Done(c)'
                                             /\ reported'[n + 1 + i].loc = q[i]
          /\ \A k \in Done(c)' : \/ k \in Done(c)
                                 \/ c = check /\ \E i \in DOMAIN q : k = n + 1 + i
      BY <2>2, DoneAfter
    <3> HIDE DEF n
    <3>3. CASE c # check
      <4>1. queued'[c] = queued[c]
        BY <3>1, <3>3
      <4>2. \A l : Waits(c, l)' <=> Waits(c, l)
        BY <4>1 DEF Waits
      <4>3. Done(c)' = Done(c) /\ \A k \in Done(c) : reported'[k] = reported[k]
        BY <3>2, <3>3
      <4>4. \A l : IsReported(c, l)' <=> IsReported(c, l)
        BY <4>3 DEF IsReported
      <4>5. ASSUME NEW k \in Done(c)', reported'[k].loc.file # NoFile
            PROVE  /\ \A k2 \in Done(c)' : reported'[k].loc = reported'[k2].loc => k = k2
                   /\ ~Waits(c, reported[k].loc)'
        <5>1. k \in Done(c) /\ reported'[k] = reported[k]
          BY <4>3
        <5>2. \A k2 \in Done(c) : reported[k].loc = reported[k2].loc => k = k2
          BY <2>a, <4>5, <5>1 DEF KeptOf
        <5>3. ~Waits(c, reported[k].loc)
          BY <2>a, <4>5, <5>1 DEF KeptOf
        <5> QED BY <4>2, <4>3, <5>1, <5>2, <5>3
      <4>6. \A l : l \in manualQueued'[c] <=> Waits(c, l)' \/ IsReported(c, l)'
        BY <2>a, <3>1, <4>2, <4>4 DEF KeptOf
      <4>7. \A i, j \in DOMAIN queued'[c] :
               queued'[c][i].file # NoFile /\ queued'[c][i] = queued'[c][j] => i = j
        BY <2>a, <4>1 DEF KeptOf
      <4> QED BY <4>5, <4>6, <4>7 DEF KeptOf
    <3>4. CASE c = check
      <4>1. DOMAIN queued'[c] = {}
        BY <3>1, <3>4
      <4>2. ASSUME NEW l
            PROVE  /\ ~Waits(c, l)'
                   /\ IsReported(c, l)' <=> IsReported(c, l) \/ Waits(c, l)
        <5>1. ~Waits(c, l)'
          BY <4>1 DEF Waits
        <5>2. IsReported(c, l)' => IsReported(c, l) \/ Waits(c, l)
          BY <3>2, <3>4 DEF IsReported, Waits
        <5>3. IsReported(c, l) \/ Waits(c, l) => IsReported(c, l)'
          BY <3>2, <3>4 DEF IsReported, Waits
        <5> QED BY <5>1, <5>2, <5>3
      <4>3. ASSUME NEW k \in Done(c)', NEW k2 \in Done(c)',
                   reported'[k].loc.file # NoFile, reported'[k].loc = reported'[k2].loc
            PROVE  k = k2
        <5>1. CASE k \in Done(c) /\ k2 \in Done(c)
          BY <2>a, <3>2, <4>3, <5>1 DEF KeptOf
        <5>2. ASSUME NEW x \in Done(c), NEW i \in DOMAIN q, reported[x].loc.file # NoFile,
                     reported[x].loc = q[i]
              PROVE  FALSE
          BY <2>a, <3>4, <5>2 DEF KeptOf, Waits
        <5>3. ASSUME NEW i \in DOMAIN q, NEW j \in DOMAIN q, q[i].file # NoFile, q[i] = q[j]
              PROVE  i = j
          BY <2>a, <3>4, <5>3 DEF KeptOf
        <5>4. CASE k \in Done(c) /\ k2 \notin Done(c)
          BY <3>2, <3>4, <4>3, <5>2, <5>4
        <5>5. CASE k \notin Done(c) /\ k2 \in Done(c)
          BY <3>2, <3>4, <4>3, <5>2, <5>5
        <5>6. CASE k \notin Done(c) /\ k2 \notin Done(c)
          BY <3>2, <3>4, <4>3, <5>3, <5>6
        <5> QED BY <5>1, <5>4, <5>5, <5>6
      <4> QED BY <2>a, <3>1, <4>1, <4>2, <4>3 DEF KeptOf
    <3> QED BY <3>3, <3>4
  <2>3. ASSUME NEW check \in Checks, NEW loc \in Locations,
               QueueManualFixitWarning(check, loc)
        PROVE  KeptOf(c)'
    <3>1. /\ loc.file # NoFile => loc \notin manualQueued[check]
          /\ queued' = [queued EXCEPT ![check] = Append(@, loc)]
          /\ manualQueued' = [manualQueued EXCEPT ![check] = @ \cup {loc}]
          /\ reported' = reported
          /\ queued \in [Checks -> Seq(Locations)]
          /\ manualQueued \in [Checks -> SUBSET Locations]
      BY <2>3 DEF QueueManualFixitWarning, TypeOK
    <3>2. CASE c # check
      BY <2>1, <3>1, <3>2
    <3>3. CASE c = check
      <4> DEFINE q == queued[c]
                 m == Len(q)
      <4>1. queued'[c] = Append(q, loc) /\ manualQueued'[c] = manualQueued[c] \cup {loc}
        BY <3>1, <3>3
      <4>2. q \in Seq(Locations)
        BY <3>1
      <4> HIDE DEF q
      <4>3. /\ m \in Nat /\ DOMAIN q = 1..m
            /\ DOMAIN queued'[c] = 1..(m + 1)
            /\ \A i \in DOMAIN q : queued'[c][i] = q[i]
            /\ queued'[c][m + 1] = loc
        BY <4>1, <4>2
      <4> HIDE DEF m
      <4>4. \A l : Waits(c, l)' <=> Waits(c, l) \/ l = loc
        <5>1. \A i \in DOMAIN queued'[c] : i \in DOMAIN q \/ i = m + 1
          BY <4>3
        <5>2. \A i \in DOMAIN q : i \in DOMAIN queued'[c]
          BY <4>3
        <5>3. m + 1 \in DOMAIN queued'[c]
          BY <4>3
        <5> QED BY <4>3, <5>1, <5>2, <5>3 DEF Waits, q
      <4>5. loc.file # NoFile => ~Waits(c, loc) /\ ~IsReported(c, loc)
        BY <2>a, <3>1, <3>3 DEF KeptOf
      <4>6. Done(c)' = Done(c) /\ \A l : IsReported(c, l)' <=> IsReported(c, l)
        BY <3>1 DEF Done, IsReported
      <4>7. ASSUME NEW i \in DOMAIN queued'[c], NEW j \in DOMAIN queued'[c],
                   queued'[c][i].file # NoFile, queued'[c][i] = queued'[c][j]
            PROVE  i = j
        <5>1. (i \in DOMAIN q \/ i = m + 1) /\ (j \in DOMAIN q \/ j = m + 1)
          BY <4>3
        <5>2. ASSUME NEW x \in DOMAIN q, q[x] = loc, loc.file # NoFile PROVE FALSE
          BY <4>5, <5>2 DEF Waits, q
        <5>3. CASE i \in DOMAIN q /\ j \in DOMAIN q
          BY <2>a, <4>3, <4>7, <5>3 DEF KeptOf, q
        <5> QED BY <4>3, <4>7, <5>1, <5>2, <5>3
      <4>8. ASSUME NEW k \in Done(c), reported[k].loc.file # NoFile
            PROVE  ~Waits(c, reported[k].loc)'
        BY <2>a, <3>1, <4>4, <4>5, <4>8 DEF KeptOf, IsReported
      <4> QED BY <2>a, <3>1, <4>1, <4>4, <4>6, <4>7, <4>8 DEF KeptOf
    <3> QED BY <3>2, <3>3
  <2>4. ASSUME NEW check \in Checks, NEW loc \in Locations, DropWarning(check, loc)
        PROVE  KeptOf(c)'
    BY <2>1, <2>4 DEF DropWarning
  <2>5. CASE SetAstContext
    BY <2>1, <2>5 DEF SetAstContext
  <2>6. CASE UNCHANGED vars
    BY <2>1, <2>6 DEF vars
  <2> QED BY <2>2, <2>3, <2>4, <2>5, <2>6 DEF Next
<1>3. IInv => ManualInterventionsAreKept
  BY KeptIsKept
<1> QED BY <1>1, <1>2, <1>3, TypeCorrect, PTL DEF Spec

-----------------------------------------------------------------------------
(* Wanted warnings.                                                         *)

\* A line number that fits stays what it is.
LEMMA AsUnsignedFits ==
    ASSUME NEW n \in 0..(2^UnsignedWidth - 1)
    PROVE  AsUnsigned(n) = n
<1> DEFINE w == 2^UnsignedWidth
<1>1. w \in Nat /\ w > 0 /\ n \in 0..(w - 1)
  BY UnsignedWidthAssumption, MaxLineAssumption
<1> HIDE DEF w
<1>2. n % w = n
  BY <1>1
<1> QED BY <1>2 DEF AsUnsigned, w

\* The line filter as clazy keeps it lets a location through exactly if the
\* options want its line.
LEMMA LineFilterIsWanted ==
    ASSUME config \in Configs, LineNumbersFit, NEW loc \in Locations
    PROVE  LineIsWanted(loc) <=> PassesLineFilter(LineFilter, loc)
<1> DEFINE json == config.lineFilter
           items == {x \in json.items : x.isObject /\ x.hasName}
           ranges(x) == {r \in x.lines : r.twoIntegers}
           kept(r) == [start |-> AsUnsigned(r.start), end |-> AsUnsigned(r.end)]
           lineRanges(x) == {kept(r) : r \in ranges(x)}
           entry(x) == [files |-> x.files, lineRanges |-> lineRanges(x)]
           Wants(x) == /\ loc.file \in x.files
                       /\ ranges(x) # {} => \E r \in ranges(x) : loc.line \in r.start..r.end
           Lets(e) == /\ loc.file \in e.files
                      /\ \/ e.lineRanges = {}
                         \/ \E r \in e.lineRanges : r.start <= loc.line /\ loc.line <= r.end
<1>1. /\ json.isArray \in BOOLEAN
      /\ \A x \in json.items : x \in JsonItem
  BY ConfigsAssumption DEF Config
<1>2. loc.line \in Int
  BY MaxLineAssumption DEF Locations, Location, Line
<1>3. ASSUME NEW x \in items
      PROVE  Wants(x) <=> Lets(entry(x))
  <2>1. \A r \in ranges(x) : /\ AsUnsigned(r.start) = r.start /\ AsUnsigned(r.end) = r.end
                             /\ r.start \in Int /\ r.end \in Int
    <3> SUFFICES ASSUME NEW r \in ranges(x)
                 PROVE  /\ AsUnsigned(r.start) = r.start /\ AsUnsigned(r.end) = r.end
                        /\ r.start \in Int /\ r.end \in Int
      OBVIOUS
    <3>1. {r.start, r.end} \subseteq 0..(2^UnsignedWidth - 1)
      BY DEF LineNumbersFit
    <3>2. r \in JsonRange
      BY <1>1 DEF JsonItem
    <3> QED BY <3>1, <3>2, AsUnsignedFits DEF JsonRange
  <2>2. entry(x).files = x.files /\ entry(x).lineRanges = lineRanges(x)
    OBVIOUS
  <2>3. lineRanges(x) = {} <=> ranges(x) = {}
    OBVIOUS
  <2>4. (\E r \in lineRanges(x) : r.start <= loc.line /\ loc.line <= r.end)
           <=> \E r \in ranges(x) : loc.line \in r.start..r.end
    <3>1. (\E r \in lineRanges(x) : r.start <= loc.line /\ loc.line <= r.end)
             <=> \E r \in ranges(x) : AsUnsigned(r.start) <= loc.line
                                       /\ loc.line <= AsUnsigned(r.end)
      <4>1. \A r : kept(r).start = AsUnsigned(r.start) /\ kept(r).end = AsUnsigned(r.end)
        OBVIOUS
      <4>2. /\ \A r \in ranges(x) : kept(r) \in lineRanges(x)
            /\ \A e \in lineRanges(x) : \E r \in ranges(x) : e = kept(r)
        OBVIOUS
      <4> HIDE DEF ranges, lineRanges, kept
      <4> QED BY <4>1, <4>2
    <3>2. \A r \in ranges(x) : (AsUnsigned(r.start) <= loc.line /\ loc.line <= AsUnsigned(r.end))
                                 <=> loc.line \in r.start..r.end
      BY <1>2, <2>1
    <3> QED BY <3>1, <3>2
  <2> HIDE DEF ranges, lineRanges, entry, kept
  <2> QED BY <2>2, <2>3, <2>4
<1>4. LineFilter = IF ~json.isArray THEN {} ELSE {entry(x) : x \in items}
  BY DEF LineFilter, ParseLineFilter
<1>5. LineIsWanted(loc) <=> ((json.isArray /\ items # {} /\ loc.file # NoFile) => \E x \in items : Wants(x))
  BY DEF LineIsWanted
<1>6. PassesLineFilter(LineFilter, loc)
        <=> LineFilter = {} \/ loc.file = NoFile \/ \E e \in LineFilter : Lets(e)
  BY DEF PassesLineFilter
<1> HIDE DEF items, Wants, Lets, entry, json
<1> QED BY <1>1, <1>3, <1>4, <1>5, <1>6

\* The filters of emitWarning let a location through exactly if the options want
\* it.
LEMMA WantedIsLetThrough ==
    ASSUME config \in Configs, LineNumbersFit, NEW loc \in Locations
    PROVE  IsWanted(loc) <=> ~ShouldIgnoreFile(loc) /\ PassesLineFilter(LineFilter, loc)
<1>1. LineIsWanted(loc) <=> PassesLineFilter(LineFilter, loc)
  BY LineFilterIsWanted
<1>2. (/\ config.ignoreDirs # NoRegex => loc.file \notin config.ignoreDirs
       /\ config.headerFilter # NoRegex =>
             loc.file \in {MainFile, NoFile} \cup config.headerFilter)
        <=> ~ShouldIgnoreFile(loc)
  BY DEF ShouldIgnoreFile, MatchesLoc, IsMainFile
<1> QED BY <1>1, <1>2 DEF IsWanted

\* With more bare NOLINTs left, no less is silenced.
LEMMA SilencedByMore ==
    ASSUME NEW cs, NEW few, NEW more, few \subseteq more, NEW check, NEW line,
           Silenced(cs, few, check, line)
    PROVE  Silenced(cs, more, check, line)
BY DEF Silenced

\* What was reported stays where it is.
LEMMA ReportsStay ==
    ASSUME TypeOK, [Next]_vars, NEW k \in DOMAIN reported
    PROVE  k \in DOMAIN reported' /\ reported'[k] = reported[k]
<1>1. ASSUME NEW check \in Checks, NEW loc \in Locations, EmitWarning(check, loc)
      PROVE  k \in DOMAIN reported' /\ reported'[k] = reported[k]
  <2> DEFINE n == Len(reported)
             m == Len(queued[check])
  <2>1. /\ DOMAIN reported' = 1..(n + 1 + m)
        /\ \A j \in DOMAIN reported : reported'[j] = reported[j]
    BY <1>1, ReportsAre DEF TypeOK, EmitWarning
  <2>2. n \in Nat /\ m \in Nat /\ DOMAIN reported = 1..n
    BY DEF TypeOK
  <2> HIDE DEF n, m
  <2> QED BY <2>1, <2>2
<1> QED BY <1>1, OnlyEmitReports DEF NothingReported

UnspentAreDeclared ==
    \A f \in Files : unspent[f] \subseteq BareLines(LexedComments(source[f]))

WarnedAt(k, check, loc) ==
    reported[k].kind = "warning" /\ reported[k].check = check /\ reported[k].loc = loc

Heard(check, loc) == \E k \in DOMAIN reported : WarnedAt(k, check, loc)

\* What a check is said to have emitted inside macros it did emit.
ListedInMacroIsReported == \A c \in Checks : \A loc \in emittedInMacro[c] : Heard(c, loc)

\* What was heard stays heard, and a warning that is emitted is heard.
LEMMA HeardForever ==
    ASSUME TypeOK, [Next]_vars
    PROVE  /\ \A check, loc : Heard(check, loc) => Heard(check, loc)'
           /\ \A check \in Checks, loc \in Locations : EmitWarning(check, loc) => Heard(check, loc)'
<1>1. \A check, loc : Heard(check, loc) => Heard(check, loc)'
  BY ReportsStay DEF Heard, WarnedAt
<1>2. ASSUME NEW check \in Checks, NEW loc \in Locations, EmitWarning(check, loc)
      PROVE  Heard(check, loc)'
  <2> DEFINE n == Len(reported)
             m == Len(queued[check])
  <2>1. /\ DOMAIN reported' = 1..(n + 1 + m)
        /\ reported'[n + 1] = ReallyEmitWarning(check, loc, "warning")
    BY <1>2, ReportsAre DEF TypeOK, EmitWarning
  <2>2. n \in Nat /\ m \in Nat
    BY DEF TypeOK
  <2> HIDE DEF n, m
  <2>3. n + 1 \in DOMAIN reported'
    BY <2>1, <2>2
  <2> QED BY <2>1, <2>3 DEF Heard, WarnedAt, ReallyEmitWarning
<1> QED BY <1>1, <1>2

\* Nothing but the warnings of emitWarning is added to those lists.
LEMMA ListedIsReported ==
    ASSUME TypeOK, [Next]_vars, ListedInMacroIsReported
    PROVE  ListedInMacroIsReported'
<1>1. CASE emittedInMacro' = emittedInMacro
  BY <1>1, HeardForever DEF ListedInMacroIsReported
<1>2. ASSUME NEW check \in Checks, NEW loc \in Locations, EmitWarning(check, loc)
      PROVE  \A c \in Checks : \A l \in emittedInMacro'[c] : Heard(c, l)'
  <2>1. \A c \in Checks : \A l \in emittedInMacro'[c] :
           l \in emittedInMacro[c] \/ (c = check /\ l = loc)
    BY <1>2 DEF EmitWarning, TypeOK
  <2> QED BY <1>2, <2>1, HeardForever DEF ListedInMacroIsReported
<1> QED BY <1>1, <1>2, OnlyEmitReports DEF ListedInMacroIsReported

\* A wanted warning that no comment silences, as WantedWarningsAreReported has
\* it.
NotSilenced(check, loc) ==
    loc.file # NoFile =>
        ~Silenced(LexedComments(source[loc.file]),
                  BareLines(LexedComments(source[loc.file])), check, loc.line)

\* Such a warning is dropped only for one that was heard before.
LEMMA WantedIsHeard ==
    ASSUME TypeOK, [Next]_vars, UnspentAreDeclared, LineNumbersFit,
           ListedInMacroIsReported, NEW check \in Checks, NEW loc \in Locations,
           DropWarning(check, loc) \/ EmitWarning(check, loc),
           IsWanted(loc), NotSilenced(check, loc)
    PROVE  Heard(check, loc)'
<1>1. CASE EmitWarning(check, loc)
  BY <1>1, HeardForever
<1>2. CASE DropWarning(check, loc)
  <2>1. config \in Configs
    BY DEF TypeOK
  <2>2. ~ShouldIgnoreFile(loc) /\ PassesLineFilter(LineFilter, loc)
    BY <2>1, WantedIsLetThrough
  <2>3. ~IsSuppressed(check, loc)
    <3> SUFFICES ASSUME loc.file # NoFile,
                        Silenced(LexedComments(source[loc.file]), unspent[loc.file], check, loc.line)
                 PROVE  FALSE
      BY DEF IsSuppressed
    <3>1. loc.file \in Files
      BY DEF Locations, Location
    <3>2. unspent[loc.file] \subseteq BareLines(LexedComments(source[loc.file]))
      BY <3>1 DEF UnspentAreDeclared
    <3> QED BY <3>2, SilencedByMore DEF NotSilenced
  <2>4. WarningAlreadyEmitted(check, loc)
    BY <1>2, <2>2, <2>3 DEF DropWarning
  <2> QED BY <2>4, HeardForever DEF WarningAlreadyEmitted, ListedInMacroIsReported
<1> QED BY <1>1, <1>2

\* The calls whose warning the options want and no comment silences are heard.
WantedIsHeardSoFar ==
    LineNumbersFit => \A i \in DOMAIN calls :
        IsWanted(calls[i].loc) /\ NotSilenced(calls[i].check, calls[i].loc)
            => Heard(calls[i].check, calls[i].loc)

\* The two halves of WantedWarningsAreReported, in the words of this module.
LEMMA WantedMeansHeard == WantedIsHeardSoFar => WantedAreReported
BY DEF WantedIsHeardSoFar, WantedAreReported, NotSilenced, Heard, WarnedAt

\* The bare NOLINTs that are left are some of those the comments declare.
LEMMA UnspentShrinks ==
    ASSUME TypeOK, [Next]_vars, UnspentAreDeclared
    PROVE  UnspentAreDeclared'
<1>1. source' = source
  BY DEF Next, vars, DropWarning, EmitWarning, QueueManualFixitWarning, SetAstContext
<1>2. \A f \in Files : unspent'[f] \subseteq unspent[f]
  <2>1. CASE unspent' = unspent
    BY <2>1
  <2>2. ASSUME NEW check \in Checks, NEW loc \in Locations, unspent' = Unspent(check, loc)
        PROVE  \A f \in Files : unspent'[f] \subseteq unspent[f]
    BY <2>2 DEF Unspent, TypeOK
  <2> QED BY <2>1, <2>2
        DEF Next, vars, DropWarning, EmitWarning, QueueManualFixitWarning, SetAstContext
<1> QED BY <1>1, <1>2 DEF UnspentAreDeclared

\* The next call: it is the warning of this step, or there is none.
LEMMA CallsAfter ==
    ASSUME TypeOK, [Next]_vars, NEW i \in DOMAIN calls'
    PROVE  \/ i \in DOMAIN calls /\ calls'[i] = calls[i]
           \/ \E check \in Checks, loc \in Locations :
                 /\ DropWarning(check, loc) \/ EmitWarning(check, loc)
                 /\ calls'[i].check = check /\ calls'[i].loc = loc
<1>1. CASE calls' = calls
  BY <1>1
<1>2. ASSUME NEW check \in Checks, NEW loc \in Locations, Called(check, loc)
      PROVE  \/ i \in DOMAIN calls /\ calls'[i] = calls[i]
             \/ calls'[i].check = check /\ calls'[i].loc = loc
  <2> DEFINE call == [check |-> check, loc |-> loc]
  <2>1. calls' = Append(calls, call) /\ calls \in Seq(Call)
    BY <1>2 DEF Called, TypeOK
  <2>2. call.check = check /\ call.loc = loc
    OBVIOUS
  <2> HIDE DEF call
  <2>3. (i \in DOMAIN calls /\ calls'[i] = calls[i]) \/ calls'[i] = call
    BY <2>1
  <2> QED BY <2>2, <2>3
<1> QED BY <1>1, <1>2
      DEF Next, vars, DropWarning, EmitWarning, QueueManualFixitWarning, SetAstContext

\* The reports are the wanted warnings, no less and no more: for any checks,
\* comments, options and calls in any order.
THEOREM WantedReported == Spec => []WantedWarningsAreReported
<1> DEFINE IInv == /\ UnspentAreDeclared
                   /\ ListedInMacroIsReported
                   /\ WantedIsHeardSoFar
                   /\ OnlyWantedAreReported
<1>1. Init => IInv
  BY DEF Init, UnspentAreDeclared, ListedInMacroIsReported, WantedIsHeardSoFar, OnlyWantedAreReported
<1>2. TypeOK /\ IInv /\ [Next]_vars => IInv'
  <2> SUFFICES ASSUME TypeOK, IInv, [Next]_vars PROVE IInv'
    OBVIOUS
  <2>1. config' = config /\ source' = source
    BY DEF Next, vars, DropWarning, EmitWarning, QueueManualFixitWarning, SetAstContext
  <2>2. UnspentAreDeclared' /\ ListedInMacroIsReported'
    BY UnspentShrinks, ListedIsReported
  <2>3. LineNumbersFit' <=> LineNumbersFit
    BY <2>1 DEF LineNumbersFit
  <2>4. \A loc : IsWanted(loc)' <=> IsWanted(loc)
    BY <2>1 DEF IsWanted, LineIsWanted
  <2>5. \A check, loc : NotSilenced(check, loc)' <=> NotSilenced(check, loc)
    BY <2>1 DEF NotSilenced
  <2>6. WantedIsHeardSoFar'
    <3> SUFFICES ASSUME LineNumbersFit, NEW i \in DOMAIN calls',
                        IsWanted(calls'[i].loc), NotSilenced(calls'[i].check, calls'[i].loc)
                 PROVE  Heard(calls[i].check, calls[i].loc)'
      BY <2>3, <2>4, <2>5 DEF WantedIsHeardSoFar
    <3>1. CASE i \in DOMAIN calls /\ calls'[i] = calls[i]
      BY <3>1, HeardForever DEF WantedIsHeardSoFar
    <3>2. ASSUME NEW check \in Checks, NEW loc \in Locations,
                 DropWarning(check, loc) \/ EmitWarning(check, loc),
                 calls'[i].check = check, calls'[i].loc = loc
          PROVE  Heard(calls[i].check, calls[i].loc)'
      BY <3>2, WantedIsHeard
    <3> QED BY <3>1, <3>2, CallsAfter
  <2>7. OnlyWantedAreReported'
    <3>1. CASE NothingReported
      BY <2>3, <2>4, <3>1 DEF NothingReported, OnlyWantedAreReported
    <3>2. ASSUME NEW check \in Checks, NEW loc \in Locations, EmitWarning(check, loc)
          PROVE  OnlyWantedAreReported'
      <4>1. LineNumbersFit => IsWanted(loc)
        BY <3>2, WantedIsLetThrough DEF EmitWarning, TypeOK
      <4>2. loc.file # NoFile =>
              ~Silenced(LexedComments(source[loc.file]), {}, check, loc.line)
        BY <3>2, SilencedByMore DEF EmitWarning, IsSuppressed
      <4>3. ASSUME NEW k \in DOMAIN reported', reported'[k].kind = "warning"
            PROVE  \/ k \in DOMAIN reported /\ reported'[k] = reported[k]
                   \/ reported'[k].check = check /\ reported'[k].loc = loc
        BY <3>2, <4>3, ReportsAfter DEF ReallyEmitWarning
      <4> SUFFICES ASSUME NEW k \in DOMAIN reported', reported'[k].kind = "warning"
                   PROVE  /\ LineNumbersFit => IsWanted(reported'[k].loc)
                          /\ reported'[k].loc.file # NoFile =>
                                ~Silenced(LexedComments(source[reported'[k].loc.file]), {},
                                          reported'[k].check, reported'[k].loc.line)
        BY <2>1, <2>3, <2>4 DEF OnlyWantedAreReported
      <4> QED BY <4>1, <4>2, <4>3 DEF OnlyWantedAreReported
    <3> QED BY <3>1, <3>2, OnlyEmitReports
  <2> QED BY <2>2, <2>6, <2>7
<1>3. IInv => WantedWarningsAreReported
  BY WantedMeansHeard DEF WantedWarningsAreReported
<1> QED BY <1>1, <1>2, <1>3, TypeCorrect, PTL DEF Spec
=============================================================================
