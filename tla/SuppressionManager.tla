------------------------- MODULE SuppressionManager -------------------------
(***************************************************************************)
(* SuppressionManager: answers whether a warning is silenced by a comment.  *)
(*                                                                         *)
(* The first question about a file scans it, comment by comment, into a     *)
(* Suppressions record that every later question reads; a question may      *)
(* consume a bare NOLINT of that record.  One thread runs a question from   *)
(* its call to its answer, so a question starts only when pc is "idle".     *)
(***************************************************************************)
EXTENDS SuppressionComments

VARIABLES
    source,     \* the content of each file; the code only reads it
    processed,  \* m_processedFileIDs
    pc,         \* where the running call of isSuppressed is
    query,      \* the arguments of the running call
    cursor,     \* parseFile: the next comment the lexer returns
    stack,      \* parseFile: checkRangeStack, the top at its end
    answers     \* history: the questions answered so far, with their answers

vars == <<source, processed, pc, query, cursor, stack, answers>>

CheckBeginAndEnd ==
    [checksToSkipWildcard : SUBSET SUBSET Checks, begin : Line, end : Line]

\* checkWildcardsToSkipByLine maps a line to one glob.
PartialLineMap == UNION {[D -> SUBSET Checks] : D \in SUBSET TargetableLine}

Suppressions ==
    [skipEntireFile             : BOOLEAN,
     skipNextLine               : SUBSET TargetableLine,
     checksToSkip               : SUBSET Checks,
     checksToSkipByLine         : SUBSET (TargetableLine \X Checks),
     checkWildcardsToSkipByLine : PartialLineMap,
     checkWildcardsRanges       : Seq(CheckBeginAndEnd)]

EmptySuppressions ==
    [skipEntireFile             |-> FALSE,
     skipNextLine               |-> {},
     checksToSkip               |-> {},
     checksToSkipByLine         |-> {},
     checkWildcardsToSkipByLine |-> [l \in {} |-> {}],
     checkWildcardsRanges       |-> <<>>]

OpenRange == [line : Line, text : Seq(Entry)]

\* No call is running.
NoQuery == CHOOSE q \in Query : q.file = NoFile

Init ==
    /\ source \in Sources
    /\ processed = [f \in {} |-> EmptySuppressions]
    /\ pc = "idle"
    /\ query = NoQuery
    /\ cursor = 1
    /\ stack = <<>>
    /\ answers = {}

-----------------------------------------------------------------------------
(* The part of the scan that one comment causes, on the record s.           *)

\* NOLINTEND: the range it closes, if it closes one.
ClosesRange(c) ==
    /\ c.nolint = "end"
    /\ stack # <<>>
    /\ stack[Len(stack)].text = c.text

StackAfter(c) ==
    IF c.nolint = "begin" THEN Append(stack, [line |-> c.line, text |-> c.text])
    ELSE IF ClosesRange(c) THEN SubSeq(stack, 1, Len(stack) - 1)
    ELSE stack

RangesAfter(c, ranges) ==
    IF ClosesRange(c)
    THEN Append(ranges, [checksToSkipWildcard |-> SplitDisabledChecksText(c.text),
                         begin |-> stack[Len(stack)].line,
                         end   |-> c.line])
    ELSE ranges

\* Mutant: operator[] instead of insert(), the last list of a line wins.
LineMapAfter_Overwrites(c, map) ==
    LET line == LineNumberToSuppress(c) IN
    IF IsLineNolint(c) /\ RecognisedEntries(c.text) # {}
    THEN [l \in DOMAIN map \cup {line} |-> IF l = line THEN FirstGlob(c.text) ELSE map[l]]
    ELSE map

\* insert() keeps the entry a line already has, so of a list only the first
\* name clazy recognises gets in.
LineMapAfter(c, map) ==
    LET line == LineNumberToSuppress(c) IN
    IF /\ IsLineNolint(c)
       /\ RecognisedEntries(c.text) # {}
       /\ line \notin DOMAIN map
    THEN [l \in DOMAIN map \cup {line} |-> IF l = line THEN FirstGlob(c.text) ELSE map[l]]
    ELSE map

\* The NOLINT part of the loop body.
AfterNolint(s, c) ==
    [s EXCEPT
        !.skipNextLine = IF IsBareNolint(c) THEN @ \cup {LineNumberToSuppress(c)} ELSE @,
        !.checkWildcardsToSkipByLine = LineMapAfter(c, @),
        !.checkWildcardsRanges = RangesAfter(c, @)]

\* excludeall= is looked for first, then exclude=, then exclude-next-line=.
LineEntriesAfter(c, n) ==
    IF c.excludeall # {} THEN {}
    ELSE IF c.exclude # {} THEN {c.line} \X c.exclude
    ELSE {c.line + n} \X c.excludeNextLine

\* Mutants: exclude-next-line speaks for its own line, or for the line after
\* the next.
AfterDirectives_SameLine(s, c) ==
    IF c.skip THEN [s EXCEPT !.skipEntireFile = TRUE]
    ELSE [s EXCEPT !.checksToSkip = @ \cup c.excludeall,
                   !.checksToSkipByLine = @ \cup LineEntriesAfter(c, 0)]

AfterDirectives_LineAfterNext(s, c) ==
    IF c.skip THEN [s EXCEPT !.skipEntireFile = TRUE]
    ELSE [s EXCEPT !.checksToSkip = @ \cup c.excludeall,
                   !.checksToSkipByLine = @ \cup LineEntriesAfter(c, 2)]

\* The clazy: part of the loop body.
AfterDirectives(s, c) ==
    IF c.skip THEN [s EXCEPT !.skipEntireFile = TRUE]
    ELSE [s EXCEPT !.checksToSkip = @ \cup c.excludeall,
                   !.checksToSkipByLine = @ \cup LineEntriesAfter(c, 1)]

-----------------------------------------------------------------------------
(* The lookup of isSuppressed in a record s.                                *)

\* Mutant: a region is looked for by its first line alone.
RangesAround_OpenEnd(s, line) ==
    {i \in DOMAIN s.checkWildcardsRanges : s.checkWildcardsRanges[i].begin <= line}

\* The first range of the vector that contains the line decides alone.
RangesAround(s, line) ==
    {i \in DOMAIN s.checkWildcardsRanges :
        /\ s.checkWildcardsRanges[i].begin <= line
        /\ line <= s.checkWildcardsRanges[i].end}

RangeMatches(s, check, line) ==
    /\ RangesAround(s, line) # {}
    /\ LET globs == s.checkWildcardsRanges[Least(RangesAround(s, line))].checksToSkipWildcard
       IN  globs = {} \/ \E glob \in globs : check \in glob

\* Mutant: the line is looked up and never erased.
ConsumesSkipNextLine_Never(s, check, line) == FALSE

\* Reached only when the file does not silence the check as a whole.
ConsumesSkipNextLine(s, check, line) ==
    /\ ~s.skipEntireFile
    /\ check \notin s.checksToSkip
    /\ line \in s.skipNextLine

IsSuppressedBy(s, check, line) ==
    \/ s.skipEntireFile
    \/ check \in s.checksToSkip
    \/ line \in s.skipNextLine
    \/ <<line, check>> \in s.checksToSkipByLine
    \/ IF line \in DOMAIN s.checkWildcardsToSkipByLine
       THEN check \in s.checkWildcardsToSkipByLine[line]
       ELSE RangeMatches(s, check, line)

-----------------------------------------------------------------------------
AnswerWith(q, suppressed) ==
    answers' = answers \cup {[query |-> q, suppressed |-> suppressed]}

\* A location without a FileID: answered without a lookup.
InvalidFileID(q) ==
    /\ pc = "idle"
    /\ q.file = NoFile
    /\ AnswerWith(q, FALSE)
    /\ UNCHANGED <<source, processed, pc, query, cursor, stack>>

\* Mutant: only the record of the latest file is kept.
IsSuppressed_OneRecord(q) ==
    /\ pc = "idle"
    /\ q.file \in Files
    /\ query' = q
    /\ IF q.file \in DOMAIN processed
       THEN /\ pc' = "lookup"
            /\ UNCHANGED <<processed, cursor, stack>>
       ELSE /\ pc' = "scan"
            /\ processed' = [f \in {q.file} |-> EmptySuppressions]
            /\ cursor' = 1
            /\ stack' = <<>>
    /\ UNCHANGED <<source, answers>>

\* The call.  A file that has no record gets an empty one and is scanned.
IsSuppressed(q) ==
    /\ pc = "idle"
    /\ q.file \in Files
    /\ query' = q
    /\ IF q.file \in DOMAIN processed
       THEN /\ pc' = "lookup"
            /\ UNCHANGED <<processed, cursor, stack>>
       ELSE /\ pc' = "scan"
            /\ processed' = [f \in DOMAIN processed \cup {q.file} |->
                               IF f = q.file THEN EmptySuppressions ELSE processed[f]]
            /\ cursor' = 1
            /\ stack' = <<>>
    /\ UNCHANGED <<source, answers>>

Comments == LexedComments(source[query.file])

\* parseFile: one round of the loop over the tokens.
ScanComment ==
    LET c == Comments[cursor] IN
    /\ pc = "scan"
    /\ cursor <= Len(Comments)
    /\ processed' = [processed EXCEPT ![query.file] = AfterDirectives(AfterNolint(@, c), c)]
    /\ stack' = StackAfter(c)
    /\ cursor' = cursor + 1
    /\ pc' = IF c.skip THEN "lookup" ELSE "scan"
    /\ UNCHANGED <<source, query, answers>>

\* parseFile: the lexer is at the end of the buffer, or there is no buffer.
EndOfFile ==
    /\ pc = "scan"
    /\ cursor > Len(Comments)
    /\ pc' = "lookup"
    /\ UNCHANGED <<source, processed, query, cursor, stack, answers>>

\* isSuppressed after the record is there, and its return: the arguments and
\* the locals of the call are gone.
Lookup ==
    LET s == processed[query.file] IN
    /\ pc = "lookup"
    /\ AnswerWith(query, IsSuppressedBy(s, query.check, query.line))
    /\ processed' =
         IF ConsumesSkipNextLine(s, query.check, query.line)
         THEN [processed EXCEPT ![query.file].skipNextLine = @ \ {query.line}]
         ELSE processed
    /\ pc' = "idle"
    /\ query' = NoQuery
    /\ cursor' = 1
    /\ stack' = <<>>
    /\ UNCHANGED source

Next ==
    \/ \E q \in Questions : InvalidFileID(q) \/ IsSuppressed(q)
    \/ ScanComment
    \/ EndOfFile
    \/ Lookup

Spec == Init /\ [][Next]_vars

-----------------------------------------------------------------------------
(* Properties.                                                              *)

\* The type invariant: the shape of m_processedFileIDs and of the scan's
\* local state in parseFile.
TypeOK ==
    /\ source \in [Files -> Content]
    /\ DOMAIN processed \subseteq Files
    /\ \A f \in DOMAIN processed : processed[f] \in Suppressions
    /\ pc \in {"idle", "scan", "lookup"}
    /\ query \in Query
    /\ pc # "idle" => query.file \in DOMAIN processed
    /\ cursor \in Nat \ {0}
    /\ stack \in Seq(OpenRange)
    /\ answers \subseteq Answer

\* A warning that was let through is never silenced afterwards: the record of
\* its file would let it through again.  A record that is lost or filled a
\* second time brings a spent NOLINT back.
LetThroughStaysLetThrough ==
    \A a \in answers :
        LET q == a.query IN
        (/\ ~a.suppressed
         /\ q.file \in DOMAIN processed
         /\ (pc = "scan" => q.file # query.file))
        => ~IsSuppressedBy(processed[q.file], q.check, q.line)

\* Two warnings of the same check on the same line get the same answer, unless
\* the line has a bare NOLINT: the order in which checks ask is otherwise
\* irrelevant, although every question goes through a mutable record.
OnlyBareNolintsAreSpent ==
    \A a, b \in answers :
        (a.query = b.query /\ a.suppressed # b.suppressed)
            => a.query.line \in BareLines(LexedComments(source[a.query.file]))

\* What is silenced is declared: whatever was asked before, however the regions
\* of the file nest and whichever list the scan kept, some comment of the file
\* speaks for the check and the line, or they are inside a region.
EverySilenceIsDeclared ==
    \A a \in answers : a.suppressed =>
        /\ a.query.file \in Files
        /\ IsDeclaredSilent(LexedComments(source[a.query.file]), a.query.check, a.query.line)

\* No warning is silenced that the comments of its file do not speak of, and no
\* comment but a bare NOLINT speaks for one warning and not for its repetition.
\* (That a bare NOLINT speaks for one warning only is not what the tests say:
\* SomeDocumentedCommentSilences.)
OnlyDeclaredWarningsAreSilenced == EverySilenceIsDeclared /\ OnlyBareNolintsAreSpent

\* The record of a file that has been scanned holds what the comments declare,
\* but for the bare NOLINTs that are already spent.
RecordsAreDeclared ==
    \A f \in DOMAIN processed :
        LET cs == LexedComments(source[f])
            s  == processed[f] IN
        (pc = "scan" => f # query.file) =>
            /\ s.skipEntireFile = WholeFileSkipped(cs)
            /\ s.skipNextLine \subseteq BareLines(cs)
            /\ s.checksToSkip = SkippedInFile(cs)
            /\ s.checksToSkipByLine = SkippedOnLine(cs)

\* The manager gives its callers the answers of SuppressionAnswers: every
\* question is one step, answered from the comments as clazy reads them, however
\* lazily, and in which order, the files were scanned.  That reading is the code's:
\* where the documentation reads a comment otherwise,
\* SomeDocumentedCommentSilences says so.
AtOnce ==
    INSTANCE SuppressionAnswers WITH
        unspent <- [f \in Files |->
                      IF f \in DOMAIN processed /\ ~(pc = "scan" /\ f = query.file)
                      THEN processed[f].skipNextLine
                      ELSE BareLines(LexedComments(source[f]))]

AnswersAtOnce == AtOnce!Spec

-----------------------------------------------------------------------------
(* What the documentation says, and the code does not do.                   *)

\* What four kinds of comments ask for.  clazy:exclude on a line of its own
\* disables the check in the line that follows (README.md:483-484); clazy:skip
\* counts anywhere in the file (README.md:474), its very end included; a NOLINT
\* without a list disables the linting of its line, not one warning of it
\* (tests/clazy/clang_tidy_suppressions.cpp:7,16, Changelog:90); and of a list
\* every entry counts, those behind ", " included (README.md:486-488).
AsksForSilence(kind, c, check, line) ==
    \/ kind = "exclude" /\ check \in c.exclude /\ line = c.line + 1
    \/ kind = "skip" /\ c.skip
    \/ kind = "bare" /\ IsBareNolint(c) /\ line = LineNumberToSuppress(c)
    \/ /\ kind = "list"
       /\ IsLineNolint(c) /\ line = LineNumberToSuppress(c)
       /\ Names(c.text, check)

IsAsDocumented(kind) ==
    \A a \in answers :
        (/\ a.query.file \in Files
         /\ \E i \in DOMAIN source[a.query.file].comments :
               AsksForSilence(kind, source[a.query.file].comments[i],
                              a.query.check, a.query.line))
        => a.suppressed

\* The documentation says so of each of the four kinds.  This asks for one of
\* them only, so that the trace that violates it shows what becomes of all four.
SomeDocumentedCommentSilences ==
    \E kind \in {"exclude", "skip", "bare", "list"} : IsAsDocumented(kind)
=============================================================================
