-------------------------- MODULE WarningEmission --------------------------
(***************************************************************************)
(* CheckBase::emitWarning and queueManualFixitWarning: the way of a warning *)
(* from a check to the compiler's diagnostics, in one translation unit.     *)
(*                                                                         *)
(* A warning passes the comments of its file, the header filter and the     *)
(* ignored directories, the line filter and, inside a macro, the list of    *)
(* what the check already emitted there.  SuppressionManager is used as      *)
(* SuppressionAnswers has it: a question is one step on the lines in         *)
(* unspent.  The checks of a translation unit run one after the other in one *)
(* thread, so a call is one action.                                         *)
(***************************************************************************)
EXTENDS SuppressionComments, Integers

CONSTANTS
    MainFile,       \* the file of the translation unit, of Files
    NoRegex,        \* a regular expression that was not given
    Configs,        \* the option values the instance looks at
    UnsignedWidth,  \* the bits of an unsigned line number
    MaxCalls,       \* bound: calls of emitWarning
    MaxManual       \* bound: manual interventions that a check queues

ASSUME MainFileAssumption == MainFile \in Files

ASSUME BoundsAssumption == MaxCalls \in Nat /\ MaxManual \in Nat

ASSUME UnsignedWidthAssumption ==
    /\ UnsignedWidth \in Nat
    /\ 2^UnsignedWidth \in Nat
    /\ MaxLine + 1 < 2^UnsignedWidth

\* -line-filter as JSON text, before clazy looks at it: an item or a range need
\* not have the fields clazy wants, and a number is a signed one.
JsonRange == [twoIntegers : BOOLEAN, start : Int, end : Int]

JsonItem == [isObject : BOOLEAN, hasName : BOOLEAN, files : SUBSET Files, lines : SUBSET JsonRange]

Config == [ignoreDirs       : {NoRegex} \cup SUBSET Files,
           headerFilter     : {NoRegex} \cup SUBSET Files,
           lineFilter       : [isArray : BOOLEAN, items : SUBSET JsonItem],
           checksAsErrors   : SUBSET Checks,
           warningsAsErrors : BOOLEAN,
           noWerror         : BOOLEAN,
           isClangTidy      : BOOLEAN]

ASSUME ConfigsAssumption == Configs \subseteq Config

VARIABLES
    config,             \* options of the ClazyContext
    source,             \* the content of each file
    unspent,            \* SuppressionManager: the bare NOLINTs not used up
    astContext,         \* whether ClazyContext::astContext is set
    emittedInMacro,     \* m_emittedWarningsInMacro of each check
    queued,             \* m_queuedManualInterventionWarnings of each check
    manualQueued,       \* m_emittedManualFixItsWarningsInMacro of each check
    reported,           \* history: what reached the warning reporter
    calls               \* history: the calls of emitWarning

vars == <<config, source, unspent, astContext, emittedInMacro, queued,
          manualQueued, reported, calls>>

\* A location by its place.  A location inside a macro has the place of the
\* expansion, which all locations of that expansion share.
Location == [file : Files \cup {NoFile}, line : Line, macro : BOOLEAN]

Locations == {loc \in Location : loc.file = NoFile => ~loc.macro}

Severity == {"Warning", "Error"}

Report == [check : Checks, loc : Location, severity : Severity,
           kind : {"warning", "manual"}]

Call == [check : Checks, loc : Location]

-----------------------------------------------------------------------------
(* The -line-filter argument.  A file of the JSON array has the files its   *)
(* name is a suffix of, and the items of its "lines".                       *)

AsUnsigned(n) == n % (2^UnsignedWidth)

\* Items that are not objects, or have no name, are passed over; so are ranges
\* that are not two integers.  A text that is not a JSON array gives nothing.
ParseLineFilter(json) ==
    IF ~json.isArray THEN {}
    ELSE {[files |-> item.files,
           lineRanges |-> {[start |-> AsUnsigned(r.start), end |-> AsUnsigned(r.end)] :
                             r \in {x \in item.lines : x.twoIntegers}}] :
             item \in {x \in json.items : x.isObject /\ x.hasName}}

PassesLineFilter(filter, loc) ==
    \/ filter = {}
    \/ loc.file = NoFile
    \/ \E entry \in filter :
          /\ loc.file \in entry.files
          /\ \/ entry.lineRanges = {}
             \/ \E r \in entry.lineRanges : r.start <= loc.line /\ loc.line <= r.end

-----------------------------------------------------------------------------
(* ClazyContext::shouldIgnoreFile.  A regular expression is the set of the  *)
(* files whose name it matches.                                            *)

MatchesLoc(regex, loc) == regex # NoRegex /\ loc.file \in regex

IsMainFile(loc) == loc.file = MainFile

ShouldIgnoreFile(loc) ==
    \/ MatchesLoc(config.ignoreDirs, loc)
    \/ /\ config.headerFilter # NoRegex
       /\ ~IsMainFile(loc)
       /\ loc.file # NoFile
       /\ ~MatchesLoc(config.headerFilter, loc)

-----------------------------------------------------------------------------
Init ==
    /\ config \in Configs
    /\ source \in Sources
    /\ unspent = [f \in Files |-> BareLines(LexedComments(source[f]))]
    /\ astContext = ~config.isClangTidy
    /\ emittedInMacro = [c \in Checks |-> {}]
    /\ queued = [c \in Checks |-> <<>>]
    /\ manualQueued = [c \in Checks |-> {}]
    /\ reported = <<>>
    /\ calls = <<>>

LineFilter == ParseLineFilter(config.lineFilter)

\* SuppressionManager::isSuppressed, as SuppressionAnswers has it.
IsSuppressed(check, loc) ==
    /\ loc.file # NoFile
    /\ Silenced(LexedComments(source[loc.file]), unspent[loc.file], check, loc.line)

Unspent(check, loc) ==
    IF /\ loc.file # NoFile
       /\ SpendsBareNolint(LexedComments(source[loc.file]), unspent[loc.file], check, loc.line)
    THEN [unspent EXCEPT ![loc.file] = @ \ {loc.line}]
    ELSE unspent

\* Mutant: one list of emitted macro locations for all checks.
WarningAlreadyEmitted_AnyCheck(check, loc) ==
    loc.macro /\ \E c \in Checks : loc \in emittedInMacro[c]

\* Inside one macro expansion a check warns once.
WarningAlreadyEmitted(check, loc) == loc.macro /\ loc \in emittedInMacro[check]

\* Mutant: an error is fatal.
SeverityOf_Fatal(check) == IF astContext THEN "Fatal" ELSE "Warning"

\* CLAZY_CHECKS_AS_ERRORS, or -Werror unless CLAZY_NO_WERROR is set.
SeverityOf(check) ==
    IF \/ check \in config.checksAsErrors
       \/ astContext /\ config.warningsAsErrors /\ ~config.noWerror
    THEN "Error" ELSE "Warning"

ReallyEmitWarning(check, loc, kind) ==
    [check |-> check, loc |-> loc, severity |-> SeverityOf(check), kind |-> kind]

\* Mutant: what is said of a failed fixit is a warning.
Reports_ManualsAreWarnings(check, loc) ==
    <<ReallyEmitWarning(check, loc, "warning")>>
    \o [i \in DOMAIN queued[check] |->
          [ReallyEmitWarning(check, queued[check][i], "manual") EXCEPT !.severity = "Warning"]]

\* The warning, and after it every manual intervention that is queued.
Reports(check, loc) ==
    <<ReallyEmitWarning(check, loc, "warning")>>
    \o [i \in DOMAIN queued[check] |->
          ReallyEmitWarning(check, queued[check][i], "manual")]

Called(check, loc) ==
    /\ Len(calls) < MaxCalls
    /\ calls' = Append(calls, [check |-> check, loc |-> loc])

\* Mutant: the queue is cleared on every way out.
DropWarning_ClearsQueue(check, loc) ==
    /\ Called(check, loc)
    /\ \/ IsSuppressed(check, loc)
       \/ ShouldIgnoreFile(loc)
       \/ ~PassesLineFilter(LineFilter, loc)
       \/ WarningAlreadyEmitted(check, loc)
    /\ unspent' = Unspent(check, loc)
    /\ queued' = [queued EXCEPT ![check] = <<>>]
    /\ UNCHANGED <<config, source, astContext, emittedInMacro, manualQueued, reported>>

\* emitWarning: one of the filters drops the warning.
DropWarning(check, loc) ==
    /\ Called(check, loc)
    /\ \/ IsSuppressed(check, loc)
       \/ ShouldIgnoreFile(loc)
       \/ ~PassesLineFilter(LineFilter, loc)
       \/ WarningAlreadyEmitted(check, loc)
    /\ unspent' = Unspent(check, loc)
    /\ UNCHANGED <<config, source, astContext, emittedInMacro, queued, manualQueued, reported>>

\* Mutant: the macro location is not recorded.
EmitWarning_NotRecorded(check, loc) ==
    /\ Called(check, loc)
    /\ ~IsSuppressed(check, loc)
    /\ ~ShouldIgnoreFile(loc)
    /\ PassesLineFilter(LineFilter, loc)
    /\ ~WarningAlreadyEmitted(check, loc)
    /\ reported' = reported \o Reports(check, loc)
    /\ queued' = [queued EXCEPT ![check] = <<>>]
    /\ UNCHANGED <<config, source, unspent, astContext, emittedInMacro, manualQueued>>

\* emitWarning: the warning is reported.
EmitWarning(check, loc) ==
    /\ Called(check, loc)
    /\ ~IsSuppressed(check, loc)
    /\ ~ShouldIgnoreFile(loc)
    /\ PassesLineFilter(LineFilter, loc)
    /\ ~WarningAlreadyEmitted(check, loc)
    /\ emittedInMacro' = IF loc.macro THEN [emittedInMacro EXCEPT ![check] = @ \cup {loc}]
                         ELSE emittedInMacro
    /\ reported' = reported \o Reports(check, loc)
    /\ queued' = [queued EXCEPT ![check] = <<>>]
    /\ UNCHANGED <<config, source, unspent, astContext, manualQueued>>

IsManual(report) == report.kind = "manual"

\* queueManualFixitWarning: a fixit failed at loc.  Two invalid locations are
\* never equal.
QueueManualFixitWarning(check, loc) ==
    /\ Len(queued[check]) + Len(SelectSeq(reported, IsManual)) < MaxManual
    /\ loc.file # NoFile => loc \notin manualQueued[check]
    /\ queued' = [queued EXCEPT ![check] = Append(@, loc)]
    /\ manualQueued' = [manualQueued EXCEPT ![check] = @ \cup {loc}]
    /\ UNCHANGED <<config, source, unspent, astContext, emittedInMacro, reported, calls>>

\* clang-tidy: the AST is there, check() hands it over.
SetAstContext ==
    /\ ~astContext
    /\ astContext' = TRUE
    /\ UNCHANGED <<config, source, unspent, emittedInMacro, queued, manualQueued, reported, calls>>

Next ==
    \/ \E check \in Checks, loc \in Locations :
          \/ DropWarning(check, loc)
          \/ EmitWarning(check, loc)
          \/ QueueManualFixitWarning(check, loc)
    \/ SetAstContext

Spec == Init /\ [][Next]_vars

-----------------------------------------------------------------------------
(* Properties.                                                              *)

\* The type invariant.
TypeOK ==
    /\ config \in Configs
    /\ source \in [Files -> Content]
    /\ unspent \in [Files -> SUBSET TargetableLine]
    /\ astContext \in BOOLEAN
    /\ emittedInMacro \in [Checks -> SUBSET Locations]
    /\ queued \in [Checks -> Seq(Locations)]
    /\ manualQueued \in [Checks -> SUBSET Locations]
    /\ reported \in Seq(Report)
    /\ calls \in Seq(Call)

\* A check warns at most once inside one macro expansion, whatever happens
\* between its calls: warnings of a macro argument come once for each use of
\* the argument, and the duplicates are to be filtered.
MacroExpansionWarnsOnce ==
    \A i, j \in DOMAIN reported :
        /\ reported[i].kind = "warning" /\ reported[j].kind = "warning"
        /\ reported[i].check = reported[j].check
        /\ reported[i].loc.macro /\ reported[i].loc = reported[j].loc
        => i = j

\* Whether the options want warnings at a location, read off the options: the
\* ignored directories are out, a header has to match the header filter, and a
\* line filter that names a file wants one of its ranges.
LineIsWanted(loc) ==
    LET json  == config.lineFilter
        items == {x \in json.items : x.isObject /\ x.hasName}
        ranges(x) == {r \in x.lines : r.twoIntegers}
    IN (json.isArray /\ items # {} /\ loc.file # NoFile) =>
          \E x \in items :
             /\ loc.file \in x.files
             /\ ranges(x) # {} =>
                   \E r \in ranges(x) : loc.line \in r.start..r.end

\* The numbers of the filter are int64_t, and lines are unsigned.
LineNumbersFit ==
    \A x \in config.lineFilter.items : \A r \in x.lines :
        {r.start, r.end} \subseteq 0..(2^UnsignedWidth - 1)

IsWanted(loc) ==
    /\ config.ignoreDirs # NoRegex => loc.file \notin config.ignoreDirs
    /\ config.headerFilter # NoRegex =>
          loc.file \in {MainFile, NoFile} \cup config.headerFilter
    /\ LineIsWanted(loc)

\* A warning that the options want and no comment silences reaches the user,
\* no matter what any check warned about before, at this or another place; but
\* for a line filter with numbers that are no line numbers.
WantedAreReported ==
    LineNumbersFit => \A i \in DOMAIN calls :
        LET check == calls[i].check
            loc   == calls[i].loc
            cs    == LexedComments(source[loc.file])
        IN (/\ IsWanted(loc)
            /\ loc.file # NoFile => ~Silenced(cs, BareLines(cs), check, loc.line))
           => \E k \in DOMAIN reported :
                 /\ reported[k].kind = "warning"
                 /\ reported[k].check = check /\ reported[k].loc = loc

\* No warning is reported that the options do not want or that a comment with
\* a list of checks silences.
OnlyWantedAreReported ==
    \A k \in DOMAIN reported :
        LET loc == reported[k].loc IN
        reported[k].kind = "warning" =>
            /\ LineNumbersFit => IsWanted(loc)
            /\ loc.file # NoFile =>
                  ~Silenced(LexedComments(source[loc.file]), {}, reported[k].check, loc.line)

\* The reports are the wanted warnings, no less and no more.
WantedWarningsAreReported == WantedAreReported /\ OnlyWantedAreReported

\* What a check queued as manual intervention is queued or reported, once for
\* each place, and under the name of no other check: dropped warnings and the
\* warnings of other checks do not lose or repeat it.
ManualInterventionsAreKept ==
    \A c \in Checks :
        LET done == {k \in DOMAIN reported :
                       reported[k].check = c /\ reported[k].kind = "manual"}
        IN /\ manualQueued[c] =
                {reported[k].loc : k \in done} \cup {queued[c][i] : i \in DOMAIN queued[c]}
           /\ \A k \in done :
                 reported[k].loc.file # NoFile =>
                    /\ \A k2 \in done : reported[k].loc = reported[k2].loc => k = k2
                    /\ \A i \in DOMAIN queued[c] : queued[c][i] # reported[k].loc

\* The options ask for errors (docs/man/clazy.pod:192-197): of a promoted check
\* always, and of every check under -Werror unless CLAZY_NO_WERROR is set.
IsPromoted(report) == report.check \in config.checksAsErrors

WerrorIsMeant == config.warningsAsErrors /\ ~config.noWerror

\* Whatever a check reports, a failed fixit included, is an error if the options
\* ask for errors, and a warning if they do not.  The one exception are the
\* reports of clang-tidy's preprocessor callbacks, which come before the AST is
\* handed over: -Werror is not heard until then, and from then on for good, so
\* that no warning follows the first error that -Werror makes.
SeverityIsTheDocumentedOne ==
    \A k \in DOMAIN reported :
        /\ reported[k].severity = "Error" => IsPromoted(reported[k]) \/ WerrorIsMeant
        /\ reported[k].severity = "Warning" =>
              /\ ~IsPromoted(reported[k])
              /\ WerrorIsMeant =>
                    /\ config.isClangTidy
                    /\ \A j \in 1..k : reported[j].severity = "Error" => IsPromoted(reported[j])

-----------------------------------------------------------------------------
(* What the documentation says, and the code does not do.                   *)

\* Only warnings on the listed lines are emitted (README.md:393).
LineFilterLimitsEveryWarning ==
    \A k \in DOMAIN reported : LineIsWanted(reported[k].loc)
=============================================================================
