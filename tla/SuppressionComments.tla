------------------------ MODULE SuppressionComments ------------------------
(***************************************************************************)
(* The comments of a source file that silence clazy, and what they declare. *)
(*                                                                         *)
(* A file is the sequence of its comments, in the order the raw lexer       *)
(* returns them.  Names and globs are abstracted to what they match: a glob *)
(* is the set of the checks it accepts, a parenthesised list the sequence   *)
(* of its comma separated entries.  Everything below the shapes is the      *)
(* declarative reading of a file: it says which comments matter for a line  *)
(* and never mentions the scan, the stack or the maps of the code, which    *)
(* SuppressionManager models.                                               *)
(***************************************************************************)
EXTENDS Naturals, Sequences

CONSTANTS
    Checks,     \* the names of the checks, without the clazy- prefix
    Files,      \* the files of a translation unit that have a FileID
    NoFile,     \* the file of a location that has no FileID
    MaxLine,    \* comments are on lines 1..MaxLine
    Sources,    \* what the files of the instance hold, in each of its cases
    Questions   \* the questions the callers ask

ASSUME ChecksAssumption == Checks # {}

ASSUME MaxLineAssumption == MaxLine \in Nat \ {0}

Line == 1..MaxLine

\* A comment on the last line may speak for the line after it.
TargetableLine == 1..(MaxLine + 1)

\* One comma separated entry of NOLINT(...): the text in front of the glob is
\* "clazy-" or another tool's prefix, possibly with a space before it.
Entry == [clazyPrefix : BOOLEAN, afterSpace : BOOLEAN, glob : SUBSET Checks]

NolintKind == {"none", "plain", "nextline", "begin", "end"}

\* A directive that is absent is the empty set: its pattern wants a name.
Comment == [line            : Line,
            nolint          : NolintKind,
            text            : Seq(Entry),
            skip            : BOOLEAN,
            excludeall      : SUBSET Checks,
            exclude         : SUBSET Checks,
            excludeNextLine : SUBSET Checks]

\* endsInComment: the file's last byte belongs to its last comment, which has
\* no newline after it.
Content == [readable : BOOLEAN, comments : Seq(Comment), endsInComment : BOOLEAN]

InLineOrder(cs) == \A i, j \in DOMAIN cs : i <= j => cs[i].line <= cs[j].line

ASSUME SourcesAssumption ==
    /\ Sources \subseteq [Files -> Content]
    /\ \A s \in Sources, f \in Files : InLineOrder(s[f].comments)

\* "Is this check silenced at this place?", as CheckBase::emitWarning asks it.
Query == [check : Checks, file : Files \cup {NoFile}, line : Line]

Answer == [query : Query, suppressed : BOOLEAN]

ASSUME QuestionsAssumption == Questions \subseteq Query

ASSUME NoFileAssumption == NoFile \notin Files

-----------------------------------------------------------------------------
\* The comments the loop over the raw lexer sees: LexFromRawLexer says that it
\* reached the end of the buffer together with the token that ends there, so
\* the loop stops before it looks at that token.
LexedComments(content) ==
    IF ~content.readable THEN <<>>
    ELSE IF content.endsInComment /\ content.comments # <<>>
         THEN SubSeq(content.comments, 1, Len(content.comments) - 1)
         ELSE content.comments

\* The entries of a parenthesised list that clazy takes as names of its own.
RecognisedEntries(text) ==
    {i \in DOMAIN text : text[i].clazyPrefix /\ ~text[i].afterSpace}

\* The globs of those entries.
SplitDisabledChecksText(text) == {text[i].glob : i \in RecognisedEntries(text)}

IsLineNolint(c) == c.nolint \in {"plain", "nextline"}

\* The line a NOLINT or NOLINTNEXTLINE comment speaks for.
LineNumberToSuppress(c) == IF c.nolint = "nextline" THEN c.line + 1 ELSE c.line

-----------------------------------------------------------------------------
(* What the comments cs declare.  A comment after a clazy:skip is not read.  *)

Effective(cs) == {i \in DOMAIN cs : \A j \in 1..(i - 1) : ~cs[j].skip}

WholeFileSkipped(cs) == \E i \in DOMAIN cs : cs[i].skip

\* The comments whose other clazy: directives count.
Directives(cs) == {i \in Effective(cs) : ~cs[i].skip}

SkippedInFile(cs) == UNION {cs[i].excludeall : i \in Directives(cs)}

\* excludeall wins over exclude, and exclude over exclude-next-line, when one
\* comment holds several of them.
SkippedByComment(c) ==
    IF c.excludeall # {} THEN {}
    ELSE IF c.exclude # {} THEN {c.line} \X c.exclude
    ELSE {c.line + 1} \X c.excludeNextLine

SkippedOnLine(cs) == UNION {SkippedByComment(cs[i]) : i \in Directives(cs)}

\* The lines that a NOLINT without a list silences, for one warning each.
IsBareNolint(c) == IsLineNolint(c) /\ c.text = <<>>

BareLines(cs) ==
    {LineNumberToSuppress(cs[i]) : i \in {k \in Effective(cs) : IsBareNolint(cs[k])}}

\* The comments that give a line a list of checks, and the glob that counts:
\* the first entry of the first of them.
LineRules(cs, line) ==
    {i \in Effective(cs) : /\ IsLineNolint(cs[i])
                           /\ LineNumberToSuppress(cs[i]) = line
                           /\ RecognisedEntries(cs[i].text) # {}}

Least(S) == CHOOSE x \in S : \A y \in S : x <= y

Greatest(S) == CHOOSE x \in S : \A y \in S : x >= y

FirstGlob(text) == text[Least(RecognisedEntries(text))].glob

RuleOfLine(cs, line) == FirstGlob(cs[Least(LineRules(cs, line))].text)

\* The NOLINTBEGINs in front of the comment n that are still open, when before
\* says which of them the NOLINTENDs in front of it have closed.
OpenBegins(cs, before, n) ==
    {i \in 1..(n - 1) : cs[i].nolint = "begin" /\ \A k \in 1..(n - 1) : before[k] # i}

\* The NOLINTBEGIN that the comment n closes, 0 if it closes none.  A NOLINTEND
\* closes the latest one that is still open, and only if the lists of the two
\* are the same text.
ClosedBy(cs, before, n) ==
    LET open == OpenBegins(cs, before, n) IN
    IF cs[n].nolint = "end" /\ open # {} /\ cs[Greatest(open)].text = cs[n].text
    THEN Greatest(open) ELSE 0

Openers(cs) ==
    LET openers[n \in 0..Len(cs)] ==
          IF n = 0 THEN <<>>
          ELSE Append(openers[n - 1], ClosedBy(cs, openers[n - 1], n))
    IN  openers

\* Opener(cs)[j]: the NOLINTBEGIN that the comment j closes.
Opener(cs) == Openers(cs)[Len(cs)]

\* The NOLINTENDs whose region contains the line; the innermost region is the
\* one that ends first.
RegionsAround(cs, line) ==
    LET opener == Opener(cs) IN
    {j \in DOMAIN cs : /\ opener[j] # 0
                       /\ cs[opener[j]].line <= line
                       /\ line <= cs[j].line}

InnermostRegionSilences(cs, check, line) ==
    LET around == RegionsAround(cs, line) IN
    /\ around # {}
    /\ LET globs == SplitDisabledChecksText(cs[Least(around)].text)
       IN  globs = {} \/ \E glob \in globs : check \in glob

\* Whether a warning of the check on the line is silenced, when the lines in
\* unspent still have their bare NOLINT.
Silenced(cs, unspent, check, line) ==
    \/ WholeFileSkipped(cs)
    \/ check \in SkippedInFile(cs)
    \/ line \in unspent
    \/ <<line, check>> \in SkippedOnLine(cs)
    \/ IF LineRules(cs, line) # {}
       THEN check \in RuleOfLine(cs, line)
       ELSE InnermostRegionSilences(cs, check, line)

\* Whether that warning uses up the bare NOLINT of its line.
SpendsBareNolint(cs, unspent, check, line) ==
    /\ ~WholeFileSkipped(cs)
    /\ check \notin SkippedInFile(cs)
    /\ line \in unspent

-----------------------------------------------------------------------------
(* What the comments say to their reader.  Nothing of this is the scan's: a   *)
(* comment is read alone, and of a list every entry with the prefix counts.  *)

Names(text, check) == \E i \in DOMAIN text : text[i].clazyPrefix /\ check \in text[i].glob

\* The comment c asks for silence of the check on the line.
SpeaksFor(c, check, line) ==
    \/ c.skip
    \/ check \in c.excludeall
    \/ line = c.line /\ check \in c.exclude
    \/ line = c.line + 1 /\ check \in c.excludeNextLine
    \/ /\ IsLineNolint(c)
       /\ line = LineNumberToSuppress(c)
       /\ c.text = <<>> \/ Names(c.text, check)

\* The NOLINTEND j and a NOLINTBEGIN above it with the same list have the line
\* between them.  The list names the check, or nothing that clazy knows.
IsInRegion(cs, check, line, j) ==
    /\ cs[j].nolint = "end"
    /\ line <= cs[j].line
    /\ \E i \in 1..(j - 1) : /\ cs[i].nolint = "begin"
                            /\ cs[i].text = cs[j].text
                            /\ cs[i].line <= line
    /\ RecognisedEntries(cs[j].text) = {} \/ Names(cs[j].text, check)

IsDeclaredSilent(cs, check, line) ==
    \E i \in DOMAIN cs : SpeaksFor(cs[i], check, line) \/ IsInRegion(cs, check, line, i)
=============================================================================
