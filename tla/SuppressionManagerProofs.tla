---------------------- MODULE SuppressionManagerProofs ----------------------
(***************************************************************************)
(* Proofs about SuppressionManager, for any checks, files, contents and     *)
(* questions: what the records hold, that what is let through stays let       *)
(* through, that the manager implements SuppressionAnswers, and that what is *)
(* silenced is declared.                                                    *)
(***************************************************************************)
EXTENDS SuppressionManager, WellFoundedInduction, TLAPS

USE DEF Query, Answer, Line, TargetableLine

\* There is a question to stand for "no call is running".
LEMMA NoQueryType == NoQuery \in Query /\ NoQuery.file = NoFile
<1>1. \E q \in Query : q.file = NoFile
  <2>1. PICK c \in Checks : TRUE
    BY ChecksAssumption
  <2>2. [check |-> c, file |-> NoFile, line |-> 1] \in Query
    BY MaxLineAssumption
  <2> QED BY <2>2
<1> QED BY <1>1 DEF NoQuery

\* What the raw lexer returns is a sequence of comments of the file.
LEMMA LexedType ==
    ASSUME NEW content \in Content
    PROVE  LexedComments(content) \in Seq(Comment)
<1>1. CASE ~content.readable
  BY <1>1 DEF LexedComments
<1>2. CASE content.readable /\ content.endsInComment /\ content.comments # <<>>
  <2>1. LexedComments(content) = SubSeq(content.comments, 1, Len(content.comments) - 1)
    BY <1>2 DEF LexedComments
  <2>2. content.comments \in Seq(Comment)
    BY DEF Content
  <2> QED BY <2>1, <2>2
<1>3. CASE content.readable /\ ~(content.endsInComment /\ content.comments # <<>>)
  <2>1. LexedComments(content) = content.comments
    BY <1>3 DEF LexedComments
  <2> QED BY <2>1 DEF Content
<1> QED BY <1>1, <1>2, <1>3

\* A nonempty set of natural numbers has a least element.
LEMMA LeastExists ==
    ASSUME NEW S \in SUBSET Nat, S # {}
    PROVE  /\ Least(S) \in S
           /\ \A y \in S : Least(S) <= y
<1>1. PICK x \in S : \A y \in S : ~(<<y, x>> \in OpToRel(<, Nat))
  BY NatLessThanWellFounded, WFMin
<1>2. \A y \in S : ~(y < x)
  BY <1>1 DEF OpToRel
<1>3. \A y \in S : x <= y
  BY <1>2
<1> QED BY <1>3 DEF Least

\* The list of a comment: its entries, and the glob of the first one clazy
\* takes as its own.
LEMMA TextType ==
    ASSUME NEW c \in Comment
    PROVE  /\ SplitDisabledChecksText(c.text) \subseteq SUBSET Checks
           /\ RecognisedEntries(c.text) # {} => FirstGlob(c.text) \in SUBSET Checks
<1> DEFINE text == c.text
           entries == RecognisedEntries(text)
<1>1. text \in Seq(Entry)
  BY DEF Comment
<1> HIDE DEF text
<1>2. \A i \in entries : i \in Nat /\ text[i].glob \in SUBSET Checks
  <2>1. \A i \in DOMAIN text : i \in Nat /\ text[i] \in Entry
    BY <1>1
  <2>2. entries \subseteq DOMAIN text
    BY DEF RecognisedEntries
  <2> QED BY <2>1, <2>2 DEF Entry
<1>3. SplitDisabledChecksText(text) \subseteq SUBSET Checks
  BY <1>2 DEF SplitDisabledChecksText
<1>4. ASSUME entries # {}
      PROVE  Least(entries) \in entries
  BY <1>2, <1>4, LeastExists
<1>5. entries # {} => FirstGlob(text) \in SUBSET Checks
  BY <1>2, <1>4 DEF FirstGlob
<1> QED BY <1>3, <1>5 DEF text

-----------------------------------------------------------------------------
(* The type invariant.                                                      *)

\* One comment keeps the shape of the stack, the ranges, the line map and the
\* record.
LEMMA StackType ==
    ASSUME stack \in Seq(OpenRange), NEW c \in Comment
    PROVE  StackAfter(c) \in Seq(OpenRange)
<1>1. [line |-> c.line, text |-> c.text] \in OpenRange
  BY DEF Comment, OpenRange
<1>2. Append(stack, [line |-> c.line, text |-> c.text]) \in Seq(OpenRange)
  BY <1>1
<1>3. ASSUME stack # <<>>
      PROVE  SubSeq(stack, 1, Len(stack) - 1) \in Seq(OpenRange)
  BY <1>3
<1> QED BY <1>2, <1>3 DEF StackAfter, ClosesRange

\* The scan of NOLINTBEGIN and NOLINTEND adds well-formed regions.
LEMMA RangesType ==
    ASSUME stack \in Seq(OpenRange), NEW c \in Comment,
           NEW ranges \in Seq(CheckBeginAndEnd)
    PROVE  RangesAfter(c, ranges) \in Seq(CheckBeginAndEnd)
<1>1. CASE ClosesRange(c)
  <2> DEFINE range == [checksToSkipWildcard |-> SplitDisabledChecksText(c.text),
                       begin |-> stack[Len(stack)].line,
                       end   |-> c.line]
  <2>1. stack[Len(stack)] \in OpenRange
    BY <1>1 DEF ClosesRange
  <2>2. range \in CheckBeginAndEnd
    BY <2>1, TextType DEF CheckBeginAndEnd, OpenRange, Comment
  <2>3. RangesAfter(c, ranges) = Append(ranges, range)
    BY <1>1 DEF RangesAfter
  <2> HIDE DEF range
  <2> QED BY <2>2, <2>3
<1>2. CASE ~ClosesRange(c)
  BY <1>2 DEF RangesAfter
<1> QED BY <1>1, <1>2

\* The line a NOLINT speaks for is its own or the next one.
LEMMA TargetType ==
    ASSUME NEW c \in Comment
    PROVE  /\ c.line \in Line
           /\ c.line \in TargetableLine
           /\ c.line + 1 \in TargetableLine
           /\ LineNumberToSuppress(c) \in TargetableLine
BY MaxLineAssumption DEF Comment, LineNumberToSuppress

\* Giving a line a glob keeps the map from lines to globs well-formed.
LEMMA LineMapType ==
    ASSUME NEW c \in Comment, NEW map \in PartialLineMap
    PROVE  LineMapAfter(c, map) \in PartialLineMap
<1> DEFINE line == LineNumberToSuppress(c)
           new  == [l \in DOMAIN map \cup {line} |->
                      IF l = line THEN FirstGlob(c.text) ELSE map[l]]
<1>1. PICK D \in SUBSET TargetableLine : map \in [D -> SUBSET Checks]
  BY DEF PartialLineMap
<1>2. ASSUME RecognisedEntries(c.text) # {}
      PROVE  new \in PartialLineMap
  <2>1. D \cup {line} \in SUBSET TargetableLine
    BY TargetType
  <2>2. FirstGlob(c.text) \in SUBSET Checks
    BY <1>2, TextType
  <2>3. DOMAIN map = D /\ \A l \in D : map[l] \in SUBSET Checks
    BY <1>1
  <2>4. new \in [D \cup {line} -> SUBSET Checks]
    BY <2>2, <2>3
  <2> QED BY <2>1, <2>4 DEF PartialLineMap
<1>3. LineMapAfter(c, map) \in {new, map}
  BY DEF LineMapAfter
<1>4. RecognisedEntries(c.text) = {} => LineMapAfter(c, map) = map
  BY DEF LineMapAfter
<1> HIDE DEF new
<1> QED BY <1>2, <1>3, <1>4

\* What a NOLINT comment adds leaves a well-formed record.
LEMMA AfterNolintType ==
    ASSUME stack \in Seq(OpenRange), NEW c \in Comment, NEW s \in Suppressions
    PROVE  AfterNolint(s, c) \in Suppressions
<1> DEFINE bare   == IF IsBareNolint(c) THEN s.skipNextLine \cup {LineNumberToSuppress(c)}
                     ELSE s.skipNextLine
           map    == LineMapAfter(c, s.checkWildcardsToSkipByLine)
           ranges == RangesAfter(c, s.checkWildcardsRanges)
<1>1. bare \in SUBSET TargetableLine
  BY TargetType DEF Suppressions
<1>2. map \in PartialLineMap
  BY LineMapType DEF Suppressions
<1>3. ranges \in Seq(CheckBeginAndEnd)
  BY RangesType DEF Suppressions
<1>4. AfterNolint(s, c) = [s EXCEPT !.skipNextLine = bare,
                                    !.checkWildcardsToSkipByLine = map,
                                    !.checkWildcardsRanges = ranges]
  BY DEF AfterNolint, Suppressions
<1> HIDE DEF bare, map, ranges
<1> QED BY <1>1, <1>2, <1>3, <1>4 DEF Suppressions

\* What the clazy: directives of a comment add leaves a well-formed record.
LEMMA AfterDirectivesType ==
    ASSUME NEW c \in Comment, NEW s \in Suppressions
    PROVE  AfterDirectives(s, c) \in Suppressions
<1> DEFINE checks == s.checksToSkip \cup c.excludeall
           lines  == s.checksToSkipByLine \cup LineEntriesAfter(c, 1)
<1>1. checks \in SUBSET Checks
  BY DEF Suppressions, Comment
<1>2. LineEntriesAfter(c, 1) \subseteq TargetableLine \X Checks
  <2>1. {c.line} \X c.exclude \subseteq TargetableLine \X Checks
    BY TargetType DEF Comment
  <2>2. {c.line + 1} \X c.excludeNextLine \subseteq TargetableLine \X Checks
    BY TargetType DEF Comment
  <2> QED BY <2>1, <2>2 DEF LineEntriesAfter
<1>3. lines \in SUBSET (TargetableLine \X Checks)
  BY <1>2 DEF Suppressions
<1>4. AfterDirectives(s, c) =
        IF c.skip THEN [s EXCEPT !.skipEntireFile = TRUE]
        ELSE [s EXCEPT !.checksToSkip = checks, !.checksToSkipByLine = lines]
  BY DEF AfterDirectives, Suppressions
<1> HIDE DEF checks, lines
<1> QED BY <1>1, <1>3, <1>4 DEF Suppressions

\* The comments the lexer returns are comments of the file's content.
LEMMA CommentsType ==
    ASSUME TypeOK, query.file \in Files
    PROVE  Comments \in Seq(Comment)
<1>1. source \in [Files -> Content]
  BY DEF TypeOK
<1>2. source[query.file] \in Content
  BY <1>1
<1> QED BY <1>2, LexedType DEF Comments

\* Every state of the manager has the shape TypeOK says.
THEOREM TypeCorrect == Spec => []TypeOK
<1>1. Init => TypeOK
  <2> SUFFICES ASSUME Init PROVE TypeOK
    OBVIOUS
  <2>1. DOMAIN processed = {}
    BY DEF Init
  <2> QED BY <2>1, NoQueryType, SourcesAssumption DEF Init, TypeOK
<1>2. TypeOK /\ [Next]_vars => TypeOK'
  <2> SUFFICES ASSUME TypeOK, [Next]_vars PROVE TypeOK'
    OBVIOUS
  <2>1. ASSUME NEW q \in Questions, InvalidFileID(q)
        PROVE  TypeOK'
    <3>1. [query |-> q, suppressed |-> FALSE] \in Answer
      BY QuestionsAssumption
    <3> QED BY <2>1, <3>1 DEF TypeOK, InvalidFileID, AnswerWith
  <2>2. ASSUME NEW q \in Questions, IsSuppressed(q)
        PROVE  TypeOK'
    <3>1. q \in Query
      BY QuestionsAssumption
    <3>2. EmptySuppressions \in Suppressions
      <4>1. [l \in {} |-> {}] \in [{} -> SUBSET Checks]
        OBVIOUS
      <4>2. [l \in {} |-> {}] \in PartialLineMap
        BY <4>1 DEF PartialLineMap
      <4> QED BY <4>2 DEF EmptySuppressions, Suppressions
    <3>3. CASE q.file \in DOMAIN processed
      BY <2>2, <3>1, <3>3 DEF TypeOK, IsSuppressed
    <3>4. CASE q.file \notin DOMAIN processed
      <4>1. processed' = [f \in DOMAIN processed \cup {q.file} |->
                            IF f = q.file THEN EmptySuppressions ELSE processed[f]]
        BY <2>2, <3>4 DEF IsSuppressed
      <4>2. DOMAIN processed' \subseteq Files
        BY <2>2, <4>1 DEF TypeOK, IsSuppressed
      <4>3. \A f \in DOMAIN processed' : processed'[f] \in Suppressions
        BY <3>2, <4>1 DEF TypeOK
      <4>4. <<>> \in Seq(OpenRange)
        OBVIOUS
      <4>5. /\ source' = source /\ answers' = answers
            /\ query' = q /\ pc' = "scan" /\ cursor' = 1 /\ stack' = <<>>
            /\ q.file \in DOMAIN processed'
        BY <2>2, <3>4, <4>1 DEF IsSuppressed
      <4> QED BY <3>1, <4>2, <4>3, <4>4, <4>5 DEF TypeOK
    <3> QED BY <3>3, <3>4
  <2>3. CASE ScanComment
    <3> DEFINE c == Comments[cursor]
               s == processed[query.file]
    <3>1. /\ query.file \in DOMAIN processed
          /\ query.file \in Files
          /\ s \in Suppressions
      BY <2>3 DEF TypeOK, ScanComment
    <3>2. c \in Comment
      BY <2>3, <3>1, CommentsType DEF TypeOK, ScanComment
    <3>3. stack \in Seq(OpenRange)
      BY DEF TypeOK
    <3>4. AfterDirectives(AfterNolint(s, c), c) \in Suppressions
      BY <3>1, <3>2, <3>3, AfterNolintType, AfterDirectivesType
    <3>5. stack' \in Seq(OpenRange)
      BY <2>3, <3>2, <3>3, StackType DEF ScanComment
    <3>6. processed' = [processed EXCEPT ![query.file] =
                          AfterDirectives(AfterNolint(s, c), c)]
      BY <2>3 DEF ScanComment
    <3>7. /\ DOMAIN processed' = DOMAIN processed
          /\ \A f \in DOMAIN processed' : processed'[f] \in Suppressions
      BY <3>1, <3>4, <3>6 DEF TypeOK
    <3>8. cursor' \in Nat \ {0} /\ pc' \in {"scan", "lookup"}
      BY <2>3 DEF TypeOK, ScanComment
    <3> QED BY <2>3, <3>1, <3>5, <3>7, <3>8 DEF TypeOK, ScanComment
  <2>4. CASE EndOfFile
    BY <2>4 DEF TypeOK, EndOfFile
  <2>5. CASE Lookup
    <3> DEFINE s == processed[query.file]
               suppressed == IsSuppressedBy(s, query.check, query.line)
    <3>1. query.file \in DOMAIN processed /\ s \in Suppressions
      BY <2>5 DEF TypeOK, Lookup
    <3>2. [s EXCEPT !.skipNextLine = @ \ {query.line}] \in Suppressions
      BY <3>1 DEF Suppressions
    <3>3. /\ DOMAIN processed' = DOMAIN processed
          /\ \A f \in DOMAIN processed' : processed'[f] \in Suppressions
      BY <2>5, <3>1, <3>2 DEF TypeOK, Lookup
    <3>4. suppressed \in BOOLEAN
      BY DEF IsSuppressedBy
    <3>5. answers' \subseteq Answer
      BY <2>5, <3>4 DEF TypeOK, Lookup, AnswerWith
    <3>6. <<>> \in Seq(OpenRange)
      OBVIOUS
    <3>7. /\ source' = source /\ query' = NoQuery
          /\ pc' = "idle" /\ cursor' = 1 /\ stack' = <<>>
      BY <2>5 DEF Lookup
    <3> QED BY <3>3, <3>5, <3>6, <3>7, NoQueryType DEF TypeOK
  <2>6. CASE UNCHANGED vars
    BY <2>6 DEF TypeOK, vars
  <2> QED BY <2>1, <2>2, <2>3, <2>4, <2>5, <2>6 DEF Next
<1> QED BY <1>1, <1>2, PTL DEF Spec

-----------------------------------------------------------------------------
(* A warning that was let through stays let through.  The invariant needs   *)
(* that an answer about a file leaves the file with a record, which no later *)
(* question replaces.                                                      *)

AnsweredFilesHaveRecords ==
    \A a \in answers :
        a.query.file \in Files =>
            /\ a.query.file \in DOMAIN processed
            /\ pc = "scan" => a.query.file # query.file

\* Consuming a bare NOLINT never silences a warning that was not silenced.
LEMMA ConsumingSilencesNothing ==
    ASSUME NEW s \in Suppressions, NEW consumed, NEW check, NEW line,
           ~IsSuppressedBy(s, check, line)
    PROVE  ~IsSuppressedBy([s EXCEPT !.skipNextLine = @ \ {consumed}], check, line)
<1> DEFINE t == [s EXCEPT !.skipNextLine = @ \ {consumed}]
<1>1. /\ t.skipEntireFile = s.skipEntireFile
      /\ t.checksToSkip = s.checksToSkip
      /\ t.checksToSkipByLine = s.checksToSkipByLine
      /\ t.checkWildcardsToSkipByLine = s.checkWildcardsToSkipByLine
      /\ t.checkWildcardsRanges = s.checkWildcardsRanges
      /\ t.skipNextLine = s.skipNextLine \ {consumed}
  BY DEF Suppressions
<1> HIDE DEF t
<1>2. RangeMatches(t, check, line) = RangeMatches(s, check, line)
  BY <1>1 DEF RangeMatches, RangesAround
<1>3. ~IsSuppressedBy(t, check, line)
  BY <1>1, <1>2 DEF IsSuppressedBy
<1> QED BY <1>3 DEF t

\* Whatever the checks ask and in whatever order, once a warning of a check on
\* a line has been let through, the record of its file silences it never again.
THEOREM LetThroughForever == Spec => []LetThroughStaysLetThrough
<1> DEFINE IInv == AnsweredFilesHaveRecords /\ LetThroughStaysLetThrough
<1>1. Init => IInv
  BY DEF Init, AnsweredFilesHaveRecords, LetThroughStaysLetThrough
<1>2. TypeOK /\ IInv /\ [Next]_vars => IInv'
  <2> SUFFICES ASSUME TypeOK, IInv, [Next]_vars PROVE IInv'
    OBVIOUS
  <2> USE DEF AnsweredFilesHaveRecords, LetThroughStaysLetThrough
  <2>1. ASSUME NEW q \in Questions, InvalidFileID(q)
        PROVE  IInv'
    <3>1. answers' = answers \cup {[query |-> q, suppressed |-> FALSE]}
      BY <2>1 DEF InvalidFileID, AnswerWith
    <3>2. q.file \notin Files /\ UNCHANGED <<processed, pc, query>>
      BY <2>1, NoFileAssumption DEF InvalidFileID
    <3>3. DOMAIN processed \subseteq Files
      BY DEF TypeOK
    <3> QED BY <3>1, <3>2, <3>3
  <2>2. ASSUME NEW q \in Questions, IsSuppressed(q)
        PROVE  IInv'
    <3>1. answers' = answers /\ pc = "idle" /\ query' = q
      BY <2>2 DEF IsSuppressed
    <3>2. CASE q.file \in DOMAIN processed
      BY <2>2, <3>1, <3>2 DEF IsSuppressed
    <3>3. CASE q.file \notin DOMAIN processed
      <4>1. processed' = [f \in DOMAIN processed \cup {q.file} |->
                            IF f = q.file THEN EmptySuppressions ELSE processed[f]]
        BY <2>2, <3>3 DEF IsSuppressed
      <4>2. DOMAIN processed' = DOMAIN processed \cup {q.file}
        BY <4>1
      <4>3. \A f \in DOMAIN processed : f # q.file /\ processed'[f] = processed[f]
        BY <3>3, <4>1
      <4>4. \A a \in answers : a.query.file \in Files => a.query.file \in DOMAIN processed
        OBVIOUS
      <4>5. \A a \in answers' : a.query.file \in Files =>
               a.query.file \in DOMAIN processed' /\ a.query.file # q.file
        BY <3>1, <4>2, <4>3, <4>4
      <4>6. q.file \in Files /\ pc' = "scan"
        BY <2>2, <3>3 DEF IsSuppressed
      <4>7. DOMAIN processed \subseteq Files
        BY DEF TypeOK
      <4> QED BY <3>1, <4>2, <4>3, <4>5, <4>6, <4>7
    <3> QED BY <3>2, <3>3
  <2>3. CASE ScanComment
    <3>1. /\ answers' = answers /\ query' = query /\ pc = "scan"
          /\ DOMAIN processed' = DOMAIN processed
          /\ \A f \in DOMAIN processed : f # query.file => processed'[f] = processed[f]
      BY <2>3 DEF TypeOK, ScanComment
    <3>2. \A a \in answers : a.query.file \in DOMAIN processed => a.query.file # query.file
      BY <3>1 DEF TypeOK
    <3> QED BY <3>1, <3>2
  <2>4. CASE EndOfFile
    <3>1. pc = "scan" /\ UNCHANGED <<answers, query, processed>>
      BY <2>4 DEF EndOfFile
    <3>2. \A a \in answers : a.query.file \in DOMAIN processed => a.query.file # query.file
      BY <3>1 DEF TypeOK
    <3>3. pc' = "lookup"
      BY <2>4 DEF EndOfFile
    <3> QED BY <3>1, <3>2, <3>3
  <2>5. CASE Lookup
    <3> DEFINE s == processed[query.file]
               t == [s EXCEPT !.skipNextLine = @ \ {query.line}]
               answer == [query |-> query,
                          suppressed |-> IsSuppressedBy(s, query.check, query.line)]
    <3>1. query.file \in DOMAIN processed /\ s \in Suppressions
      BY <2>5 DEF TypeOK, Lookup
    <3>2. /\ DOMAIN processed' = DOMAIN processed
          /\ \A f \in DOMAIN processed : f # query.file => processed'[f] = processed[f]
          /\ processed'[query.file] \in {s, t}
      BY <2>5, <3>1 DEF Lookup
    <3>3. answers' = answers \cup {answer}
      BY <2>5 DEF Lookup, AnswerWith
    <3>4. pc' = "idle" /\ pc = "lookup"
      BY <2>5 DEF Lookup
    <3>5. \A check, line : ~IsSuppressedBy(s, check, line)
                             => ~IsSuppressedBy(t, check, line)
      BY <3>1, ConsumingSilencesNothing
    <3>6. \A f \in DOMAIN processed : \A check, line :
             ~IsSuppressedBy(processed[f], check, line)
               => ~IsSuppressedBy(processed'[f], check, line)
      <4> SUFFICES ASSUME NEW f \in DOMAIN processed, NEW check, NEW line,
                          ~IsSuppressedBy(processed[f], check, line)
                   PROVE  ~IsSuppressedBy(processed'[f], check, line)
        OBVIOUS
      <4>1. CASE f # query.file
        BY <3>2, <4>1
      <4>2. CASE f = query.file
        <5>1. ~IsSuppressedBy(s, check, line) /\ ~IsSuppressedBy(t, check, line)
          BY <3>5, <4>2
        <5>2. processed'[f] \in {s, t}
          BY <3>2, <4>2
        <5> HIDE DEF s, t
        <5> QED BY <5>1, <5>2
      <4> QED BY <4>1, <4>2
    <3>7. ASSUME NEW a \in answers', ~a.suppressed, a.query.file \in DOMAIN processed'
          PROVE  ~IsSuppressedBy(processed'[a.query.file], a.query.check, a.query.line)
      <4>1. CASE a \in answers
        BY <3>2, <3>4, <3>6, <3>7, <4>1
      <4>2. CASE a = answer
        BY <3>1, <3>6, <3>7, <4>2
      <4> QED BY <3>3, <4>1, <4>2
    <3>8. AnsweredFilesHaveRecords'
      BY <3>1, <3>2, <3>3, <3>4
    <3> QED BY <3>7, <3>8
  <2>6. CASE UNCHANGED vars
    BY <2>6 DEF vars
  <2> QED BY <2>1, <2>2, <2>3, <2>4, <2>5, <2>6 DEF Next
<1>3. IInv => LetThroughStaysLetThrough
  OBVIOUS
<1> QED BY <1>1, <1>2, <1>3, TypeCorrect, PTL DEF Spec

-----------------------------------------------------------------------------
(* The scan computes what the comments declare.  RecordsAreDeclared speaks of *)
(* complete records; ScanIsDeclared says what a record holds halfway: what  *)
(* the comments in front of the cursor declare.                            *)

Seen == 1..(cursor - 1)

ScanIsDeclared ==
    LET cs == Comments
        s  == processed[query.file] IN
    pc = "scan" =>
        /\ Seen \subseteq DOMAIN cs
        /\ \A i \in Seen : ~cs[i].skip
        /\ ~s.skipEntireFile
        /\ s.skipNextLine = {LineNumberToSuppress(cs[i]) : i \in {k \in Seen : IsBareNolint(cs[k])}}
        /\ s.checksToSkip = UNION {cs[i].excludeall : i \in Seen}
        /\ s.checksToSkipByLine = UNION {SkippedByComment(cs[i]) : i \in Seen}

\* Without a clazy:skip every comment counts.
LEMMA EffectiveWithoutSkip ==
    ASSUME NEW cs \in Seq(Comment), \A i \in DOMAIN cs : ~cs[i].skip
    PROVE  /\ Effective(cs) = DOMAIN cs
           /\ Directives(cs) = DOMAIN cs
           /\ ~WholeFileSkipped(cs)
<1>1. \A i \in DOMAIN cs : 1..(i - 1) \subseteq DOMAIN cs
  OBVIOUS
<1>2. Effective(cs) = DOMAIN cs
  BY <1>1 DEF Effective
<1> QED BY <1>2 DEF Directives, WholeFileSkipped

\* The first clazy:skip is the last comment that is read, and only its NOLINT
\* part counts.
LEMMA EffectiveWithSkip ==
    ASSUME NEW cs \in Seq(Comment), NEW k \in DOMAIN cs,
           cs[k].skip, \A i \in 1..(k - 1) : ~cs[i].skip
    PROVE  /\ Effective(cs) = 1..k
           /\ Directives(cs) = 1..(k - 1)
           /\ WholeFileSkipped(cs)
<1>1. k \in Nat /\ 1..k \subseteq DOMAIN cs /\ DOMAIN cs \subseteq Nat \ {0}
  OBVIOUS
<1>2. Effective(cs) = 1..k
  <2>1. ASSUME NEW i \in DOMAIN cs, i \notin 1..k PROVE i \notin Effective(cs)
    <3>1. k \in 1..(i - 1)
      BY <1>1, <2>1
    <3> QED BY <3>1 DEF Effective
  <2>2. ASSUME NEW i \in 1..k PROVE i \in Effective(cs)
    <3>1. 1..(i - 1) \subseteq 1..(k - 1)
      BY <1>1
    <3> QED BY <1>1, <3>1 DEF Effective
  <2> QED BY <1>1, <2>1, <2>2 DEF Effective
<1>3. Directives(cs) = 1..(k - 1)
  BY <1>1, <1>2 DEF Directives
<1> QED BY <1>2, <1>3 DEF WholeFileSkipped

\* What one comment adds to the record.
LEMMA OneCommentAdds ==
    ASSUME NEW s \in Suppressions, NEW c \in Comment, stack \in Seq(OpenRange)
    PROVE  LET t == AfterDirectives(AfterNolint(s, c), c) IN
           /\ t.skipEntireFile = (s.skipEntireFile \/ c.skip)
           /\ t.skipNextLine = s.skipNextLine
                 \cup (IF IsBareNolint(c) THEN {LineNumberToSuppress(c)} ELSE {})
           /\ t.checksToSkip = s.checksToSkip
                 \cup (IF c.skip THEN {} ELSE c.excludeall)
           /\ t.checksToSkipByLine = s.checksToSkipByLine
                 \cup (IF c.skip THEN {} ELSE SkippedByComment(c))
<1> DEFINE n == AfterNolint(s, c)
           t == AfterDirectives(n, c)
<1>1. n \in Suppressions
  BY AfterNolintType
<1>2. /\ n.skipEntireFile = s.skipEntireFile
      /\ n.checksToSkip = s.checksToSkip
      /\ n.checksToSkipByLine = s.checksToSkipByLine
      /\ n.skipNextLine = s.skipNextLine
            \cup (IF IsBareNolint(c) THEN {LineNumberToSuppress(c)} ELSE {})
  BY DEF AfterNolint, Suppressions
<1> HIDE DEF n
<1>3. LineEntriesAfter(c, 1) = SkippedByComment(c)
  BY DEF LineEntriesAfter, SkippedByComment
<1>4. c.skip \in BOOLEAN
  BY DEF Comment
<1>5. CASE c.skip
  <2>1. t = [n EXCEPT !.skipEntireFile = TRUE]
    BY <1>5 DEF AfterDirectives
  <2>2. /\ t.skipEntireFile = TRUE /\ t.skipNextLine = n.skipNextLine
        /\ t.checksToSkip = n.checksToSkip /\ t.checksToSkipByLine = n.checksToSkipByLine
    BY <1>1, <2>1 DEF Suppressions
  <2> HIDE DEF t
  <2>3. t.skipEntireFile = (s.skipEntireFile \/ c.skip)
    BY <1>5, <2>2
  <2> QED BY <1>2, <1>5, <2>2, <2>3 DEF t, n
<1>6. CASE ~c.skip
  <2>1. t = [n EXCEPT !.checksToSkip = @ \cup c.excludeall,
                      !.checksToSkipByLine = @ \cup SkippedByComment(c)]
    BY <1>3, <1>6 DEF AfterDirectives
  <2>2. /\ t.skipEntireFile = n.skipEntireFile /\ t.skipNextLine = n.skipNextLine
        /\ t.checksToSkip = n.checksToSkip \cup c.excludeall
        /\ t.checksToSkipByLine = n.checksToSkipByLine \cup SkippedByComment(c)
    BY <1>1, <2>1 DEF Suppressions
  <2> HIDE DEF t
  <2>3. t.skipEntireFile = (s.skipEntireFile \/ c.skip)
    <3>1. s.skipEntireFile \in BOOLEAN
      BY DEF Suppressions
    <3> QED BY <1>2, <1>6, <2>2, <3>1
  <2> QED BY <1>2, <1>6, <2>2, <2>3 DEF t, n
<1> QED BY <1>4, <1>5, <1>6

\* After the last comment the record is complete.
LEMMA EndOfFileCompletes ==
    ASSUME NEW cs \in Seq(Comment), \A i \in DOMAIN cs : ~cs[i].skip
    PROVE  /\ BareLines(cs) = {LineNumberToSuppress(cs[i]) :
                                  i \in {k \in DOMAIN cs : IsBareNolint(cs[k])}}
           /\ SkippedInFile(cs) = UNION {cs[i].excludeall : i \in DOMAIN cs}
           /\ SkippedOnLine(cs) = UNION {SkippedByComment(cs[i]) : i \in DOMAIN cs}
           /\ ~WholeFileSkipped(cs)
BY EffectiveWithoutSkip DEF BareLines, SkippedInFile, SkippedOnLine

\* The scan keeps to what the comments in front of it declare, and so does the
\* record it leaves.
LEMMA ScanDeclares == Spec => [](ScanIsDeclared /\ RecordsAreDeclared)
<1> DEFINE IInv == ScanIsDeclared /\ RecordsAreDeclared
<1>1. Init => IInv
  BY DEF Init, ScanIsDeclared, RecordsAreDeclared
<1>2. TypeOK /\ TypeOK' /\ IInv /\ [Next]_vars => IInv'
  <2> SUFFICES ASSUME TypeOK, TypeOK', IInv, [Next]_vars PROVE IInv'
    OBVIOUS
  <2>1. ASSUME NEW q \in Questions, InvalidFileID(q)
        PROVE  IInv'
    BY <2>1 DEF InvalidFileID, ScanIsDeclared, RecordsAreDeclared, Comments, Seen
  <2>2. ASSUME NEW q \in Questions, IsSuppressed(q)
        PROVE  IInv'
    <3>1. pc = "idle" /\ query' = q /\ source' = source /\ q.file \in Files
      BY <2>2 DEF IsSuppressed
    <3>2. CASE q.file \in DOMAIN processed
      <4>1. processed' = processed /\ pc' = "lookup"
        BY <2>2, <3>2 DEF IsSuppressed
      <4> QED BY <3>1, <4>1 DEF ScanIsDeclared, RecordsAreDeclared
    <3>3. CASE q.file \notin DOMAIN processed
      <4>1. /\ processed' = [f \in DOMAIN processed \cup {q.file} |->
                               IF f = q.file THEN EmptySuppressions ELSE processed[f]]
            /\ pc' = "scan" /\ cursor' = 1
        BY <2>2, <3>3 DEF IsSuppressed
      <4>2. processed'[q.file] = EmptySuppressions
        BY <4>1
      <4>3. \A f \in DOMAIN processed' : f # q.file =>
               f \in DOMAIN processed /\ processed'[f] = processed[f]
        BY <4>1
      <4>4. RecordsAreDeclared'
        BY <3>1, <4>1, <4>3 DEF RecordsAreDeclared
      <4>5. Seen' = {}
        BY <4>1 DEF Seen
      <4>6. ScanIsDeclared'
        BY <3>1, <4>1, <4>2, <4>5 DEF ScanIsDeclared, EmptySuppressions
      <4> QED BY <4>4, <4>6
    <3> QED BY <3>2, <3>3
  <2>3. CASE ScanComment
    <3> DEFINE cs == Comments
               c == cs[cursor]
               s == processed[query.file]
               t == AfterDirectives(AfterNolint(s, c), c)
    <3>1. /\ query.file \in DOMAIN processed /\ query.file \in Files
          /\ s \in Suppressions /\ stack \in Seq(OpenRange)
          /\ cursor \in Nat \ {0}
      BY <2>3 DEF TypeOK, ScanComment
    <3>2. /\ pc = "scan" /\ cursor <= Len(cs)
          /\ source' = source /\ query' = query /\ cursor' = cursor + 1
          /\ processed' = [processed EXCEPT ![query.file] = t]
          /\ pc' = IF c.skip THEN "lookup" ELSE "scan"
      BY <2>3 DEF ScanComment
    <3>3. cs \in Seq(Comment) /\ cs' = cs
      BY <3>1, <3>2, CommentsType DEF Comments
    <3>4. cursor \in DOMAIN cs /\ c \in Comment
      BY <3>1, <3>2, <3>3
    <3>5. /\ processed'[query.file] = t
          /\ DOMAIN processed' = DOMAIN processed
          /\ \A f \in DOMAIN processed : f # query.file => processed'[f] = processed[f]
      BY <3>1, <3>2
    <3>6. /\ Seen \subseteq DOMAIN cs
          /\ \A i \in Seen : ~cs[i].skip
          /\ ~s.skipEntireFile
          /\ s.skipNextLine = {LineNumberToSuppress(cs[i]) : i \in {k \in Seen : IsBareNolint(cs[k])}}
          /\ s.checksToSkip = UNION {cs[i].excludeall : i \in Seen}
          /\ s.checksToSkipByLine = UNION {SkippedByComment(cs[i]) : i \in Seen}
      BY <3>2 DEF ScanIsDeclared
    <3>7. /\ t.skipEntireFile = (s.skipEntireFile \/ c.skip)
          /\ t.skipNextLine = s.skipNextLine
                \cup (IF IsBareNolint(c) THEN {LineNumberToSuppress(c)} ELSE {})
          /\ t.checksToSkip = s.checksToSkip
                \cup (IF c.skip THEN {} ELSE c.excludeall)
          /\ t.checksToSkipByLine = s.checksToSkipByLine
                \cup (IF c.skip THEN {} ELSE SkippedByComment(c))
      BY <3>1, <3>4, OneCommentAdds
    <3>8. Seen' = Seen \cup {cursor}
      BY <3>1, <3>2 DEF Seen
    <3> HIDE DEF t, cs, s
    <3>9. t.skipNextLine = {LineNumberToSuppress(cs[i]) :
                               i \in {k \in Seen' : IsBareNolint(cs[k])}}
      BY <3>6, <3>7, <3>8
    <3>10. CASE c.skip
      <4>1. /\ Effective(cs) = 1..cursor /\ Directives(cs) = Seen
            /\ WholeFileSkipped(cs)
        BY <3>3, <3>4, <3>6, <3>10, EffectiveWithSkip DEF Seen
      <4>2. Seen' = 1..cursor
        BY <3>1, <3>2 DEF Seen
      <4>3. t.skipEntireFile = WholeFileSkipped(cs)
        BY <3>7, <3>10, <4>1
      <4>4. t.skipNextLine = BareLines(cs)
        BY <3>9, <4>1, <4>2 DEF BareLines
      <4>5. t.checksToSkip = SkippedInFile(cs)
        BY <3>6, <3>7, <3>10, <4>1 DEF SkippedInFile
      <4>6. t.checksToSkipByLine = SkippedOnLine(cs)
        BY <3>6, <3>7, <3>10, <4>1 DEF SkippedOnLine
      <4>7. pc' = "lookup"
        BY <3>2, <3>10
      <4>8. cs = LexedComments(source[query.file])
        BY DEF cs, Comments
      <4>9. RecordsAreDeclared'
        BY <3>2, <3>5, <4>3, <4>4, <4>5, <4>6, <4>7, <4>8 DEF RecordsAreDeclared
      <4> QED BY <4>7, <4>9 DEF ScanIsDeclared
    <3>11. CASE ~c.skip
      <4>1. pc' = "scan"
        BY <3>2, <3>11
      <4>2. RecordsAreDeclared'
        BY <3>2, <3>5, <4>1 DEF RecordsAreDeclared
      <4>3. ~t.skipEntireFile
        BY <3>6, <3>7, <3>11
      <4>4. t.checksToSkip = UNION {cs[i].excludeall : i \in Seen'}
        BY <3>6, <3>7, <3>8, <3>11
      <4>5. t.checksToSkipByLine = UNION {SkippedByComment(cs[i]) : i \in Seen'}
        BY <3>6, <3>7, <3>8, <3>11
      <4>6. Seen' \subseteq DOMAIN cs /\ \A i \in Seen' : ~cs[i].skip
        BY <3>4, <3>6, <3>8, <3>11
      <4>7. Comments' = cs /\ processed'[query'.file] = t
        BY <3>2, <3>3, <3>5 DEF cs
      <4>8. ScanIsDeclared'
        BY <3>9, <4>3, <4>4, <4>5, <4>6, <4>7 DEF ScanIsDeclared
      <4> QED BY <4>2, <4>8
    <3> QED BY <3>10, <3>11
  <2>4. CASE EndOfFile
    <3> DEFINE cs == Comments
    <3>1. /\ pc = "scan" /\ pc' = "lookup" /\ cursor > Len(cs)
          /\ UNCHANGED <<source, processed, query, cursor>>
      BY <2>4 DEF EndOfFile
    <3>2. query.file \in DOMAIN processed /\ query.file \in Files
      BY <3>1 DEF TypeOK
    <3>3. cs \in Seq(Comment)
      BY <3>2, CommentsType
    <3>4. Seen = DOMAIN cs
      <4>1. cursor \in Nat /\ Seen \subseteq DOMAIN cs
        BY <3>1 DEF TypeOK, ScanIsDeclared
      <4>2. DOMAIN cs \subseteq Seen
        BY <3>1, <3>3, <4>1 DEF Seen
      <4> QED BY <4>1, <4>2
    <3>5. LET s == processed[query.file] IN
          /\ s.skipEntireFile = WholeFileSkipped(cs)
          /\ s.skipNextLine \subseteq BareLines(cs)
          /\ s.checksToSkip = SkippedInFile(cs)
          /\ s.checksToSkipByLine = SkippedOnLine(cs)
      <4>1. \A i \in DOMAIN cs : ~cs[i].skip
        BY <3>1, <3>4 DEF ScanIsDeclared
      <4>2. processed[query.file].skipEntireFile \in BOOLEAN
        BY <3>2 DEF TypeOK, Suppressions
      <4> HIDE DEF cs
      <4>3. /\ BareLines(cs) = {LineNumberToSuppress(cs[i]) :
                                  i \in {k \in DOMAIN cs : IsBareNolint(cs[k])}}
            /\ SkippedInFile(cs) = UNION {cs[i].excludeall : i \in DOMAIN cs}
            /\ SkippedOnLine(cs) = UNION {SkippedByComment(cs[i]) : i \in DOMAIN cs}
            /\ ~WholeFileSkipped(cs)
        BY <3>3, <4>1, EndOfFileCompletes
      <4>4. WholeFileSkipped(cs) \in BOOLEAN
        BY DEF WholeFileSkipped
      <4> QED BY <3>1, <3>4, <4>2, <4>3, <4>4 DEF ScanIsDeclared, cs
    <3>6. cs = LexedComments(source[query.file])
      BY DEF Comments
    <3> HIDE DEF cs
    <3>7. RecordsAreDeclared'
      BY <3>1, <3>5, <3>6 DEF RecordsAreDeclared
    <3> QED BY <3>1, <3>7 DEF ScanIsDeclared
  <2>5. CASE Lookup
    <3>1. pc = "lookup" /\ pc' = "idle" /\ source' = source
      BY <2>5 DEF Lookup
    <3>2. query.file \in DOMAIN processed
      BY <3>1 DEF TypeOK
    <3>3. \A f \in DOMAIN processed' :
            /\ f \in DOMAIN processed
            /\ processed'[f].skipEntireFile = processed[f].skipEntireFile
            /\ processed'[f].skipNextLine \subseteq processed[f].skipNextLine
            /\ processed'[f].checksToSkip = processed[f].checksToSkip
            /\ processed'[f].checksToSkipByLine = processed[f].checksToSkipByLine
      BY <2>5, <3>2 DEF Lookup, TypeOK, Suppressions
    <3>4. RecordsAreDeclared'
      BY <3>1, <3>3 DEF RecordsAreDeclared
    <3> QED BY <3>1, <3>4 DEF ScanIsDeclared
  <2>6. CASE UNCHANGED vars
    BY <2>6 DEF vars, ScanIsDeclared, RecordsAreDeclared, Comments, Seen
  <2> QED BY <2>1, <2>2, <2>3, <2>4, <2>5, <2>6 DEF Next
<1> QED BY <1>1, <1>2, TypeCorrect, PTL DEF Spec

\* For every file, whatever its comments are: its record, once it has been
\* scanned, holds exactly the skip, the excluded checks and the excluded lines
\* its comments declare, and no bare NOLINT they do not declare.
THEOREM RecordsDeclared == Spec => []RecordsAreDeclared
BY ScanDeclares, PTL

-----------------------------------------------------------------------------
(* SuppressionManager implements SuppressionAnswers: the record that the scan *)
(* fills answers every question as the comments of the file declare.        *)

\* p numbers the members of S, which are k, in ascending order.
InOrder(p, k, S) ==
    /\ p \in [1..k -> S]
    /\ \A i, j \in 1..k : i < j => p[i] < p[j]
    /\ \A x \in S : \E i \in 1..k : p[i] = x

\* The first n comments of cs have left st on the stack and ranges in the
\* record: the stack holds the NOLINTBEGINs that are open, and the record the
\* regions of the NOLINTENDs that have closed one.
StackIsDeclared(cs, n, st) ==
    LET open == OpenBegins(cs, Openers(cs)[n], n + 1) IN
    \E p \in [1..Len(st) -> open] :
        /\ InOrder(p, Len(st), open)
        /\ \A i \in 1..Len(st) : st[i] = [line |-> cs[p[i]].line, text |-> cs[p[i]].text]

ClosingOnes(m, n) == {j \in 1..n : m[j] # 0}

RangesAreDeclared(cs, n, ranges) ==
    LET m == Openers(cs)[n] IN
    \E e \in [1..Len(ranges) -> ClosingOnes(m, n)] :
        /\ InOrder(e, Len(ranges), ClosingOnes(m, n))
        /\ \A i \in 1..Len(ranges) :
              ranges[i] = [checksToSkipWildcard |-> SplitDisabledChecksText(cs[e[i]].text),
                           begin |-> cs[m[e[i]]].line, end |-> cs[e[i]].line]

\* The comments among the first n that give the line a list of checks.
RulesUpTo(cs, n, line) ==
    {i \in 1..n : /\ IsLineNolint(cs[i])
                  /\ LineNumberToSuppress(cs[i]) = line
                  /\ RecognisedEntries(cs[i].text) # {}}

RulesAreDeclared(cs, n, map) ==
    \A line \in TargetableLine :
        /\ line \in DOMAIN map <=> RulesUpTo(cs, n, line) # {}
        /\ line \in DOMAIN map => map[line] = FirstGlob(cs[Least(RulesUpTo(cs, n, line))].text)

\* Halfway through a file.
ScanKnowsRegions ==
    pc = "scan" =>
        /\ RulesAreDeclared(Comments, cursor - 1, processed[query.file].checkWildcardsToSkipByLine)
        /\ Openers(Comments)[cursor - 1] \in [1..cursor - 1 -> 0..cursor - 1]
        /\ StackIsDeclared(Comments, cursor - 1, stack)
        /\ RangesAreDeclared(Comments, cursor - 1, processed[query.file].checkWildcardsRanges)

\* The lists and regions of the record s silence what those of cs silence.
ListsSilenceAlike(s, cs) ==
    \A check \in Checks, line \in Line :
        (IF line \in DOMAIN s.checkWildcardsToSkipByLine
         THEN check \in s.checkWildcardsToSkipByLine[line]
         ELSE RangeMatches(s, check, line))
        <=> (IF LineRules(cs, line) # {}
             THEN check \in RuleOfLine(cs, line)
             ELSE InnermostRegionSilences(cs, check, line))

\* All files that were read; in a file that is skipped the lists do not count.
RecordsSilenceAlike ==
    \A f \in DOMAIN processed :
        LET cs == LexedComments(source[f]) IN
        (pc = "scan" => f # query.file) =>
            WholeFileSkipped(cs) \/ ListsSilenceAlike(processed[f], cs)

\* A running call answers a question.
CallsAreQuestions == pc # "idle" => query \in Questions /\ query.file \in Files

-----------------------------------------------------------------------------
(* Numbers.                                                                 *)

\* The least member of a set is the one that is not above any other.
LEMMA LeastIs ==
    ASSUME NEW S \in SUBSET Nat, NEW x \in S, \A y \in S : x <= y
    PROVE  Least(S) = x
<1> DEFINE l == Least(S)
<1>1. l \in S /\ l <= x
  BY LeastExists
<1>2. x <= l /\ l \in Nat /\ x \in Nat
  BY <1>1
<1> HIDE DEF l
<1>3. l = x
  BY <1>1, <1>2
<1> QED BY <1>3 DEF l

\* The greatest one is not below any other.
LEMMA GreatestIs ==
    ASSUME NEW S \in SUBSET Nat, NEW x \in S, \A y \in S : x >= y
    PROVE  Greatest(S) = x
<1>1. \E g \in S : \A y \in S : g >= y
  OBVIOUS
<1> DEFINE g == Greatest(S)
<1>2. g \in S /\ \A y \in S : g >= y
  BY <1>1 DEF Greatest
<1> HIDE DEF g
<1>3. g = x
  <2>1. g >= x /\ x >= g /\ g \in Nat /\ x \in Nat
    BY <1>2
  <2> QED BY <2>1
<1> QED BY <1>3 DEF g

\* A sequence without its last element.
LEMMA WithoutLast ==
    ASSUME NEW S, NEW s \in Seq(S), Len(s) # 0
    PROVE  /\ Len(SubSeq(s, 1, Len(s) - 1)) = Len(s) - 1
           /\ \A i \in 1..Len(s) - 1 : SubSeq(s, 1, Len(s) - 1)[i] = s[i]
<1> DEFINE k == Len(s) - 1
<1>1. k \in Nat /\ k + 1 = Len(s)
  OBVIOUS
<1>2. Len(SubSeq(s, 1, k)) = k
  BY <1>1
<1>3. \A i \in 1..k : SubSeq(s, 1, k)[i] = s[i]
  BY <1>1
<1> QED BY <1>2, <1>3

\* A greater member goes to the end.
LEMMA OneMore ==
    ASSUME NEW S \in SUBSET Nat, NEW k \in Nat, NEW p, InOrder(p, k, S),
           NEW x \in Nat, \A y \in S : y < x
    PROVE  InOrder([i \in 1..k + 1 |-> IF i = k + 1 THEN x ELSE p[i]], k + 1, S \cup {x})
<1> DEFINE q == [i \in 1..k + 1 |-> IF i = k + 1 THEN x ELSE p[i]]
<1>1. /\ \A i \in 1..k : q[i] = p[i] /\ p[i] \in S
      /\ q[k + 1] = x
      /\ \A i \in 1..k + 1 : i \in 1..k \/ i = k + 1
      /\ k + 1 \in 1..k + 1 /\ \A i \in 1..k : i \in 1..k + 1
  BY DEF InOrder
<1>2. q \in [1..k + 1 -> S \cup {x}]
  BY <1>1
<1>3. ASSUME NEW i \in 1..k + 1, NEW j \in 1..k + 1, i < j PROVE q[i] < q[j]
  <2>1. i \in 1..k
    BY <1>3
  <2>2. CASE j = k + 1
    BY <1>1, <2>1, <2>2
  <2>3. CASE j \in 1..k
    BY <1>1, <1>3, <2>1, <2>3 DEF InOrder
  <2> QED BY <1>1, <2>2, <2>3
<1>4. ASSUME NEW y \in S \cup {x} PROVE \E i \in 1..k + 1 : q[i] = y
  <2>1. CASE y = x
    BY <1>1, <2>1
  <2>2. CASE y \in S
    <3>1. PICK i \in 1..k : p[i] = y
      BY <2>2 DEF InOrder
    <3> QED BY <1>1, <3>1
  <2> QED BY <2>1, <2>2
<1> QED BY <1>2, <1>3, <1>4 DEF InOrder

\* Without the greatest member the others keep their numbers.
LEMMA OneLess ==
    ASSUME NEW S \in SUBSET Nat, NEW k \in Nat, NEW p, InOrder(p, k, S), S # {}
    PROVE  /\ k \in 1..k
           /\ Greatest(S) = p[k] /\ p[k] \in S
           /\ InOrder([i \in 1..k - 1 |-> p[i]], k - 1, S \ {p[k]})
<1>1. k \in 1..k
  <2>1. PICK i \in 1..k : TRUE
    BY DEF InOrder
  <2> QED BY <2>1
<1>2. /\ p[k] \in S
      /\ \A i \in 1..k : p[i] \in S /\ p[i] \in Nat
  BY <1>1 DEF InOrder
<1>3. \A i \in 1..k : i # k => p[i] < p[k]
  BY <1>1 DEF InOrder
<1>4. Greatest(S) = p[k]
  <2>1. ASSUME NEW y \in S PROVE p[k] >= y
    <3>1. PICK i \in 1..k : p[i] = y
      BY DEF InOrder
    <3> QED BY <1>2, <1>3, <3>1
  <2> QED BY <1>2, <2>1, GreatestIs
<1> DEFINE q == [i \in 1..k - 1 |-> p[i]]
<1>5. \A i \in 1..k - 1 : i \in 1..k /\ i # k /\ q[i] = p[i]
  OBVIOUS
<1>6. q \in [1..k - 1 -> S \ {p[k]}]
  <2>1. \A i \in 1..k - 1 : p[i] \in S /\ p[i] # p[k]
    BY <1>2, <1>3, <1>5
  <2> QED BY <2>1
<1>7. \A i, j \in 1..k - 1 : i < j => q[i] < q[j]
  BY <1>5 DEF InOrder
<1>8. ASSUME NEW y \in S \ {p[k]} PROVE \E i \in 1..k - 1 : q[i] = y
  <2>1. PICK i \in 1..k : p[i] = y
    BY DEF InOrder
  <2>2. i \in 1..k - 1
    BY <2>1
  <2> QED BY <1>5, <2>1, <2>2
<1> QED BY <1>1, <1>2, <1>4, <1>6, <1>7, <1>8 DEF InOrder

\* The order of the numbers is that of the members.
LEMMA LeastOfThose ==
    ASSUME NEW S \in SUBSET Nat, NEW k \in Nat, NEW p, InOrder(p, k, S),
           NEW I \in SUBSET (1..k), I # {}
    PROVE  Least(I) \in I /\ Least({p[i] : i \in I}) = p[Least(I)]
<1>1. I \in SUBSET Nat
  OBVIOUS
<1>2. Least(I) \in I /\ \A i \in I : Least(I) <= i
  BY <1>1, LeastExists
<1> DEFINE P == {p[i] : i \in I}
           x == Least(I)
<1>3. P \in SUBSET Nat
  BY DEF InOrder
<1>4. p[x] \in P
  BY <1>2
<1>5. ASSUME NEW i \in I PROVE p[x] <= p[i]
  <2>1. x \in 1..k /\ i \in 1..k /\ x <= i /\ p[x] \in Nat /\ p[i] \in Nat
    BY <1>2 DEF InOrder
  <2> HIDE DEF x
  <2>2. x = i \/ x < i
    BY <2>1
  <2> QED BY <2>1, <2>2 DEF InOrder
<1>6. \A y \in P : p[x] <= y
  BY <1>5
<1> HIDE DEF P, x
<1>7. Least(P) = p[x]
  BY <1>3, <1>4, <1>6, LeastIs
<1> QED BY <1>2, <1>7 DEF P, x

-----------------------------------------------------------------------------
(* The regions of a file, comment by comment.                               *)

\* Openers is what its definition says: every comment adds an element.
LEMMA OpenersGrow ==
    ASSUME NEW cs, Len(cs) \in Nat
    PROVE  /\ Openers(cs)[0] = <<>>
           /\ \A n \in 1..Len(cs) :
                 Openers(cs)[n] = Append(Openers(cs)[n - 1], ClosedBy(cs, Openers(cs)[n - 1], n))
<1> DEFINE N == Len(cs)
           After(before, n) == Append(before, ClosedBy(cs, before, n))
           IsUpTo(f, n) == f = [k \in 0..n |-> IF k = 0 THEN <<>> ELSE After(f[k - 1], k)]
           Bad == {n \in Nat : ~\E f : IsUpTo(f, n)}
<1>1. Openers(cs) = CHOOSE f : IsUpTo(f, N)
  BY DEF Openers
<1> HIDE DEF After, N
<1>2. Bad = {}
  <2> SUFFICES ASSUME Bad # {} PROVE FALSE
    OBVIOUS
  <2>1. Bad \in SUBSET Nat
    OBVIOUS
  <2> DEFINE m == Least(Bad)
  <2>2. m \in Bad /\ \A n \in Bad : m <= n
    <3> HIDE DEF Bad
    <3> QED BY <2>1, LeastExists
  <2> HIDE DEF m
  <2>3. m # 0
    <3>1. IsUpTo([k \in 0..0 |-> <<>>], 0)
      OBVIOUS
    <3> QED BY <2>2, <3>1
  <2>4. m - 1 \in Nat /\ m \in Nat /\ ~(m <= m - 1)
    BY <2>2, <2>3
  <2>5. PICK f : IsUpTo(f, m - 1)
    BY <2>2, <2>4
  <2> DEFINE g == [k \in 0..m |-> IF k = m THEN After(f[m - 1], m) ELSE f[k]]
  <2>6. ASSUME NEW k \in 0..m
        PROVE  g[k] = IF k = 0 THEN <<>> ELSE After(g[k - 1], k)
    <3>1. CASE k = 0
      BY <2>4, <2>5, <3>1
    <3>2. CASE k # 0
      <4>1. k - 1 \in 0..m /\ k - 1 # m /\ g[k - 1] = f[k - 1]
        BY <2>4, <3>2
      <4>2. CASE k = m
        BY <3>2, <4>1, <4>2
      <4>3. CASE k # m
        <5>1. k \in 0..m - 1 /\ g[k] = f[k]
          BY <2>4, <4>3
        <5>2. f[k] = After(f[k - 1], k)
          BY <2>5, <3>2, <5>1
        <5> QED BY <3>2, <4>1, <5>1, <5>2
      <4> QED BY <4>2, <4>3
    <3> QED BY <3>1, <3>2
  <2>7. IsUpTo(g, m)
    BY <2>6
  <2> QED BY <2>2, <2>7
<1>3. IsUpTo(Openers(cs), N)
  <2>1. \E f : IsUpTo(f, N)
    BY <1>2 DEF N
  <2> HIDE DEF IsUpTo
  <2> QED BY <1>1, <2>1
<1> DEFINE o == Openers(cs)
<1>4. o = [k \in 0..N |-> IF k = 0 THEN <<>> ELSE After(o[k - 1], k)]
  BY <1>3
<1> HIDE DEF o
<1>5. o[0] = <<>> /\ \A n \in 1..N : o[n] = After(o[n - 1], n)
  <2>1. 0 \in 0..N /\ \A n \in 1..N : n \in 0..N /\ n # 0
    BY DEF N
  <2> QED BY <1>4, <2>1
<1> QED BY <1>5 DEF o, N, After

\* Before the first comment there is no region.
LEMMA NoRegionsYet ==
    ASSUME NEW cs \in Seq(Comment)
    PROVE  /\ Openers(cs)[0] \in [1..0 -> 0..0]
           /\ StackIsDeclared(cs, 0, <<>>)
           /\ RangesAreDeclared(cs, 0, <<>>)
<1> DEFINE m == Openers(cs)[0]
<1>1. m = <<>>
  BY OpenersGrow
<1>2. 1..0 = {} /\ Len(<<>>) = 0 /\ <<>> \in [1..0 -> 0..0]
  OBVIOUS
<1>3. \A S : S = {} => <<>> \in [1..0 -> S] /\ InOrder(<<>>, 0, S)
  BY <1>2 DEF InOrder
<1> HIDE DEF m
<1>4. OpenBegins(cs, m, 0 + 1) = {}
  BY DEF OpenBegins
<1>5. ClosingOnes(m, 0) = {}
  BY <1>2 DEF ClosingOnes
<1>6. StackIsDeclared(cs, 0, <<>>)
  BY <1>2, <1>3, <1>4 DEF StackIsDeclared, m
<1>7. RangesAreDeclared(cs, 0, <<>>)
  BY <1>2, <1>3, <1>5 DEF RangesAreDeclared, m
<1> QED BY <1>1, <1>2, <1>6, <1>7 DEF m

\* One more comment: the stack and the ranges follow the regions of the file.
LEMMA RegionsStep ==
    ASSUME NEW cs \in Seq(Comment), NEW n \in Nat, n < Len(cs),
           stack \in Seq(OpenRange), NEW ranges \in Seq(CheckBeginAndEnd),
           Openers(cs)[n] \in [1..n -> 0..n],
           StackIsDeclared(cs, n, stack), RangesAreDeclared(cs, n, ranges)
    PROVE  /\ Openers(cs)[n + 1] \in [1..n + 1 -> 0..n + 1]
           /\ StackIsDeclared(cs, n + 1, StackAfter(cs[n + 1]))
           /\ RangesAreDeclared(cs, n + 1, RangesAfter(cs[n + 1], ranges))
<1> DEFINE m == Openers(cs)[n]
           w == Openers(cs)[n + 1]
           c == cs[n + 1]
           x == ClosedBy(cs, m, n + 1)
           open == OpenBegins(cs, m, n + 1)
           h == Len(stack)
<1>1. /\ w = Append(m, x)
      /\ m \in [1..n -> 0..n]
      /\ c \in Comment
  <2>1. n + 1 \in 1..Len(cs) /\ (n + 1) - 1 = n
    OBVIOUS
  <2>2. Len(cs) \in Nat
    OBVIOUS
  <2>3. w = Append(Openers(cs)[(n + 1) - 1], ClosedBy(cs, Openers(cs)[(n + 1) - 1], n + 1))
    BY <2>1, <2>2, OpenersGrow
  <2> QED BY <2>1, <2>3
<1>2. /\ stack \in Seq(OpenRange) /\ h \in Nat
      /\ \A i \in 1..h : stack[i] \in OpenRange
  OBVIOUS
<1>3. PICK p \in [1..h -> open] :
        /\ InOrder(p, h, open)
        /\ \A i \in 1..h : stack[i] = [line |-> cs[p[i]].line, text |-> cs[p[i]].text]
  BY DEF StackIsDeclared
<1>4. (n + 1) - 1 = n /\ (n + 2) - 1 = n + 1
  OBVIOUS
<1>5. \A i : i \in open <=> i \in 1..n /\ cs[i].nolint = "begin" /\ \A k \in 1..n : m[k] # i
  BY <1>4 DEF OpenBegins
<1> HIDE DEF m, w, open, h, c
<1>6. open \in SUBSET Nat /\ open \subseteq 1..n
  BY <1>5
<1>7. open # {} <=> stack # <<>>
  <2>1. stack # <<>> <=> h # 0
    BY <1>2 DEF h
  <2>2. ASSUME h = 0 PROVE open = {}
    BY <2>2, <1>3 DEF InOrder
  <2>3. ASSUME h # 0 PROVE open # {}
    <3>1. 1 \in 1..h
      BY <1>2, <2>3
    <3> QED BY <1>3, <3>1
  <2> QED BY <2>1, <2>2, <2>3
<1>8. open # {} => /\ h \in 1..h /\ Greatest(open) = p[h] /\ p[h] \in open
                   /\ InOrder([i \in 1..h - 1 |-> p[i]], h - 1, open \ {p[h]})
                   /\ stack[h].text = cs[p[h]].text /\ stack[h].line = cs[p[h]].line
  <2> SUFFICES ASSUME open # {}
               PROVE  /\ h \in 1..h /\ Greatest(open) = p[h] /\ p[h] \in open
                      /\ InOrder([i \in 1..h - 1 |-> p[i]], h - 1, open \ {p[h]})
                      /\ stack[h].text = cs[p[h]].text /\ stack[h].line = cs[p[h]].line
    OBVIOUS
  <2>1. /\ h \in 1..h /\ Greatest(open) = p[h] /\ p[h] \in open
        /\ InOrder([i \in 1..h - 1 |-> p[i]], h - 1, open \ {p[h]})
    BY <1>2, <1>3, <1>6, OneLess
  <2>2. stack[h] = [line |-> cs[p[h]].line, text |-> cs[p[h]].text]
    BY <1>3, <2>1
  <2>3. stack[h].text = cs[p[h]].text /\ stack[h].line = cs[p[h]].line
    BY ONLY <2>2
  <2> QED BY <2>1, <2>3
<1>9. /\ ClosesRange(c) => open # {} /\ x = p[h]
      /\ ~ClosesRange(c) => x = 0
  <2>1. x = IF c.nolint = "end" /\ open # {} /\ cs[Greatest(open)].text = c.text
            THEN Greatest(open) ELSE 0
    BY DEF ClosedBy, open, c
  <2>2. ClosesRange(c) <=> c.nolint = "end" /\ stack # <<>> /\ stack[h].text = c.text
    BY DEF ClosesRange, h
  <2> HIDE DEF x
  <2> QED BY <1>7, <1>8, <2>1, <2>2
<1> HIDE DEF x
<1>10. x \in 0..n
  <2>1. CASE ClosesRange(c)
    <3>1. x \in 1..n
      BY <1>6, <1>8, <1>9, <2>1
    <3> QED BY <3>1
  <2>2. CASE ~ClosesRange(c)
    BY <1>9, <2>2
  <2> QED BY <2>1, <2>2
<1>11. /\ w \in [1..n + 1 -> 0..n + 1]
       /\ \A k \in 1..n : w[k] = m[k] /\ m[k] \in 0..n
       /\ w[n + 1] = x
  <2>1. m \in Seq(0..n) /\ Len(m) = n
    BY <1>1
  <2>2. /\ Len(w) = n + 1 /\ w \in Seq(0..n) /\ w[n + 1] = x
        /\ \A k \in 1..n : w[k] = m[k]
    BY <1>1, <1>10, <2>1
  <2>3. \A k \in 1..n + 1 : w[k] \in 0..n + 1
    BY <1>1, <1>10, <2>2
  <2>4. w = [k \in 1..n + 1 |-> w[k]]
    BY <2>2
  <2> QED BY <1>1, <2>2, <2>3, <2>4
<1> DEFINE open2 == OpenBegins(cs, w, n + 2)
           begun == IF c.nolint = "begin" THEN {n + 1} ELSE {}
<1>12. open2 = (open \cup begun) \ {x}
  <2>1. \A i : i \in open2 <=> i \in 1..n + 1 /\ cs[i].nolint = "begin"
                               /\ \A k \in 1..n + 1 : w[k] # i
    BY <1>4 DEF OpenBegins
  <2>2. \A i : (\A k \in 1..n + 1 : w[k] # i) <=> (\A k \in 1..n : m[k] # i) /\ x # i
    <3>1. \A k : k \in 1..n + 1 <=> k \in 1..n \/ k = n + 1
      OBVIOUS
    <3> QED BY <1>11, <3>1
  <2>3. ASSUME NEW i PROVE i \in open2 <=> i \in (open \cup begun) \ {x}
    <3>1. CASE i = n + 1
      <4>1. \A k \in 1..n : m[k] # i
        BY <1>11, <3>1
      <4>2. i \notin open /\ i \in 1..n + 1
        BY <1>6, <3>1
      <4> QED BY <2>1, <2>2, <3>1, <4>1, <4>2 DEF c
    <3>2. CASE i # n + 1
      <4>1. i \in 1..n + 1 <=> i \in 1..n
        BY <3>2
      <4> QED BY <1>5, <2>1, <2>2, <3>2, <4>1
    <3> QED BY <3>1, <3>2
  <2> QED BY <2>3
<1> HIDE DEF open2
<1>13. ASSUME NEW st, NEW k \in Nat, NEW q, Len(st) = k, InOrder(q, k, open2),
              \A i \in 1..k : st[i] = [line |-> cs[q[i]].line, text |-> cs[q[i]].text]
       PROVE  StackIsDeclared(cs, n + 1, st)
  <2>1. n + 2 = (n + 1) + 1
    OBVIOUS
  <2>2. q \in [1..Len(st) -> open2]
    BY <1>13 DEF InOrder
  <2>3. open2 = OpenBegins(cs, Openers(cs)[n + 1], (n + 1) + 1)
    BY <2>1 DEF open2, w
  <2> QED BY <1>13, <2>2, <2>3 DEF StackIsDeclared
<1>14. StackIsDeclared(cs, n + 1, StackAfter(c))
  <2>1. CASE c.nolint = "begin"
    <3> DEFINE q == [i \in 1..h + 1 |-> IF i = h + 1 THEN n + 1 ELSE p[i]]
               st == Append(stack, [line |-> c.line, text |-> c.text])
    <3>1. x = 0 /\ StackAfter(c) = st
      BY <1>9, <2>1 DEF ClosesRange, StackAfter
    <3>2. open2 = open \cup {n + 1}
      BY <1>6, <1>12, <2>1, <3>1
    <3>3. InOrder(q, h + 1, open2)
      <4>1. \A y \in open : y < n + 1
        <5>1. \A y \in 1..n : y < n + 1
          OBVIOUS
        <5> QED BY <1>6, <5>1, Zenon
      <4>2. n + 1 \in Nat
        OBVIOUS
      <4> HIDE DEF open2
      <4> QED BY <1>2, <1>3, <1>6, <3>2, <4>1, <4>2, OneMore
    <3>4. [line |-> c.line, text |-> c.text] \in OpenRange
      BY <1>1 DEF Comment, OpenRange
    <3>5. /\ Len(st) = h + 1 /\ st[h + 1] = [line |-> c.line, text |-> c.text]
          /\ \A i \in 1..h : st[i] = stack[i]
      BY <1>2, <3>4 DEF h
    <3>6. /\ \A i \in 1..h + 1 : i \in 1..h \/ i = h + 1
          /\ \A i \in 1..h : q[i] = p[i]
          /\ q[h + 1] = n + 1
          /\ h + 1 \in Nat
      BY <1>2
    <3> HIDE DEF q, st
    <3>7. ASSUME NEW i \in 1..h + 1
          PROVE  st[i] = [line |-> cs[q[i]].line, text |-> cs[q[i]].text]
      <4>1. CASE i = h + 1
        BY <3>5, <3>6, <4>1 DEF c
      <4>2. CASE i \in 1..h
        BY <1>3, <3>5, <3>6, <4>2
      <4> QED BY <3>6, <4>1, <4>2
    <3>8. StackIsDeclared(cs, n + 1, st)
      BY <1>13, <3>3, <3>5, <3>6, <3>7
    <3> QED BY <3>1, <3>8
  <2>2. CASE ClosesRange(c)
    <3> DEFINE q == [i \in 1..h - 1 |-> p[i]]
               st == SubSeq(stack, 1, Len(stack) - 1)
    <3>1. StackAfter(c) = st /\ c.nolint # "begin"
      BY <2>2 DEF ClosesRange, StackAfter
    <3>2. open # {} /\ x = p[h] /\ open2 = open \ {p[h]}
      BY <1>9, <1>12, <2>2, <3>1
    <3>3. h \in 1..h /\ InOrder(q, h - 1, open2)
      BY <1>8, <3>2
    <3>4. /\ Len(st) = h - 1 /\ h - 1 \in Nat
          /\ \A i \in 1..h - 1 : st[i] = stack[i] /\ i \in 1..h /\ q[i] = p[i]
      <4>1. h - 1 \in Nat /\ \A i \in 1..h - 1 : i \in 1..h /\ q[i] = p[i]
        BY <1>2, <3>3
      <4>2. Len(st) = h - 1 /\ \A i \in 1..h - 1 : st[i] = stack[i]
        <5>1. Len(stack) # 0
          BY <1>2, <3>3 DEF h
        <5> QED BY <5>1, WithoutLast DEF h
      <4> QED BY <4>1, <4>2
    <3> HIDE DEF q, st
    <3>5. \A i \in 1..h - 1 : st[i] = [line |-> cs[q[i]].line, text |-> cs[q[i]].text]
      BY <1>3, <3>4
    <3>6. StackIsDeclared(cs, n + 1, st)
      BY <1>13, <3>3, <3>4, <3>5
    <3> QED BY <3>1, <3>6
  <2>3. CASE c.nolint # "begin" /\ ~ClosesRange(c)
    <3>1. StackAfter(c) = stack
      BY <2>3 DEF StackAfter
    <3>2. open2 = open
      BY <1>6, <1>9, <1>12, <2>3
    <3>3. StackIsDeclared(cs, n + 1, stack)
      BY <1>2, <1>3, <1>13, <3>2 DEF h
    <3> QED BY <3>1, <3>3
  <2> QED BY <2>1, <2>2, <2>3
<1> DEFINE r == Len(ranges)
<1>15. PICK e \in [1..r -> ClosingOnes(m, n)] :
         /\ InOrder(e, r, ClosingOnes(m, n))
         /\ \A i \in 1..r :
              ranges[i] = [checksToSkipWildcard |-> SplitDisabledChecksText(cs[e[i]].text),
                           begin |-> cs[m[e[i]]].line, end |-> cs[e[i]].line]
  BY DEF RangesAreDeclared, m
<1> DEFINE closing == ClosingOnes(m, n)
           closing2 == ClosingOnes(w, n + 1)
<1>16. closing \in SUBSET Nat /\ closing \subseteq 1..n /\ r \in Nat
  BY DEF ClosingOnes
<1>17. closing2 = closing \cup (IF x # 0 THEN {n + 1} ELSE {})
  <2>1. \A j : j \in 1..n + 1 <=> j \in 1..n \/ j = n + 1
    OBVIOUS
  <2> QED BY <1>11, <2>1 DEF ClosingOnes
<1> HIDE DEF closing, closing2, r
<1>18. ASSUME NEW rs, NEW k \in Nat, NEW q, Len(rs) = k, InOrder(q, k, closing2),
              \A i \in 1..k :
                rs[i] = [checksToSkipWildcard |-> SplitDisabledChecksText(cs[q[i]].text),
                         begin |-> cs[w[q[i]]].line, end |-> cs[q[i]].line]
       PROVE  RangesAreDeclared(cs, n + 1, rs)
  <2>1. q \in [1..Len(rs) -> closing2]
    BY <1>18 DEF InOrder
  <2> QED BY <1>18, <2>1 DEF RangesAreDeclared, closing2, w
<1>19. \A i \in 1..r : e[i] \in 1..n /\ w[e[i]] = m[e[i]]
  BY <1>11, <1>15, <1>16 DEF closing
<1>20. RangesAreDeclared(cs, n + 1, RangesAfter(c, ranges))
  <2>1. CASE ClosesRange(c)
    <3> DEFINE q == [i \in 1..r + 1 |-> IF i = r + 1 THEN n + 1 ELSE e[i]]
               new == [checksToSkipWildcard |-> SplitDisabledChecksText(c.text),
                       begin |-> stack[h].line, end |-> c.line]
               rs == Append(ranges, new)
    <3>1. RangesAfter(c, ranges) = rs
      BY <2>1 DEF RangesAfter, h
    <3>2. open # {} /\ x = p[h] /\ x # 0
      BY <1>6, <1>8, <1>9, <2>1
    <3>3. closing2 = closing \cup {n + 1}
      BY <1>17, <3>2
    <3>4. InOrder(q, r + 1, closing2)
      <4>1. \A y \in closing : y < n + 1
        BY <1>16
      <4>2. InOrder(e, r, closing)
        BY <1>15 DEF closing
      <4>3. n + 1 \in Nat
        OBVIOUS
      <4>4. InOrder(q, r + 1, closing \cup {n + 1})
        BY <1>16, <4>1, <4>2, <4>3, OneMore
      <4> QED BY <3>3, <4>4
    <3>5. /\ Len(rs) = r + 1 /\ rs[r + 1] = new
          /\ \A i \in 1..r : rs[i] = ranges[i]
      <4>1. rs \in Seq(CheckBeginAndEnd \cup {new})
        OBVIOUS
      <4> QED BY DEF r
    <3>6. /\ \A i \in 1..r + 1 : i \in 1..r \/ i = r + 1
          /\ \A i \in 1..r : q[i] = e[i]
          /\ q[r + 1] = n + 1
          /\ r + 1 \in Nat
      BY <1>16
    <3>7. new = [checksToSkipWildcard |-> SplitDisabledChecksText(cs[n + 1].text),
                 begin |-> cs[w[n + 1]].line, end |-> cs[n + 1].line]
      BY <1>8, <1>11, <3>2 DEF c
    <3> HIDE DEF q, rs, new
    <3>8. ASSUME NEW i \in 1..r + 1
          PROVE  rs[i] = [checksToSkipWildcard |-> SplitDisabledChecksText(cs[q[i]].text),
                          begin |-> cs[w[q[i]]].line, end |-> cs[q[i]].line]
      <4>1. CASE i = r + 1
        BY <3>5, <3>6, <3>7, <4>1
      <4>2. CASE i \in 1..r
        BY <1>15, <1>19, <3>5, <3>6, <4>2
      <4> QED BY <3>6, <4>1, <4>2
    <3>9. RangesAreDeclared(cs, n + 1, rs)
      BY <1>18, <3>4, <3>5, <3>6, <3>8
    <3> QED BY <3>1, <3>9
  <2>2. CASE ~ClosesRange(c)
    <3>1. RangesAfter(c, ranges) = ranges
      BY <2>2 DEF RangesAfter
    <3>2. closing2 = closing
      BY <1>9, <1>17, <2>2
    <3>3. InOrder(e, r, closing2)
      BY <1>15, <3>2 DEF closing
    <3>4. RangesAreDeclared(cs, n + 1, ranges)
      BY <1>15, <1>16, <1>18, <1>19, <3>3 DEF r
    <3> QED BY <3>1, <3>4
  <2> QED BY <2>1, <2>2
<1> QED BY <1>11, <1>14, <1>20 DEF w, c
\* One more comment: the first list of a line is kept.
LEMMA RulesStep ==
    ASSUME NEW cs \in Seq(Comment), NEW n \in Nat, n < Len(cs),
           NEW map \in PartialLineMap, RulesAreDeclared(cs, n, map)
    PROVE  RulesAreDeclared(cs, n + 1, LineMapAfter(cs[n + 1], map))
<1> DEFINE c == cs[n + 1]
           target == LineNumberToSuppress(c)
           isRule == IsLineNolint(c) /\ RecognisedEntries(c.text) # {}
           map2 == LineMapAfter(c, map)
<1>1. map2 = IF isRule /\ target \notin DOMAIN map
             THEN [l \in DOMAIN map \cup {target} |-> IF l = target THEN FirstGlob(c.text) ELSE map[l]]
             ELSE map
  BY DEF LineMapAfter
<1> SUFFICES ASSUME NEW line \in TargetableLine
             PROVE  /\ line \in DOMAIN map2 <=> RulesUpTo(cs, n + 1, line) # {}
                    /\ line \in DOMAIN map2 =>
                          map2[line] = FirstGlob(cs[Least(RulesUpTo(cs, n + 1, line))].text)
  BY DEF RulesAreDeclared
<1> DEFINE R == RulesUpTo(cs, n, line)
           R2 == RulesUpTo(cs, n + 1, line)
<1>2. /\ line \in DOMAIN map <=> R # {}
      /\ line \in DOMAIN map => map[line] = FirstGlob(cs[Least(R)].text)
  BY DEF RulesAreDeclared
<1>3. R2 = R \cup (IF isRule /\ target = line THEN {n + 1} ELSE {})
  <2>1. \A i : i \in 1..n + 1 <=> i \in 1..n \/ i = n + 1
    OBVIOUS
  <2> QED BY <2>1 DEF RulesUpTo
<1>4. R \subseteq 1..n /\ R \in SUBSET Nat /\ n + 1 \in Nat
  BY DEF RulesUpTo
<1> HIDE DEF R, R2, map2, isRule, target
<1>5. CASE R # {}
  <2> DEFINE x == Least(R)
  <2>1. x \in R /\ \A y \in R : x <= y
    BY <1>4, <1>5, LeastExists
  <2> HIDE DEF x
  <2>2. R2 \in SUBSET Nat /\ x \in R2
    BY <1>3, <1>4, <2>1
  <2>3. \A y \in R2 : x <= y
    <3>1. x \in 1..n
      BY <1>4, <2>1
    <3>2. x <= n + 1
      BY <3>1
    <3> QED BY <1>3, <2>1, <3>2
  <2>4. Least(R2) = x
    BY <2>2, <2>3, LeastIs
  <2>5. line \in DOMAIN map2 /\ map2[line] = map[line]
    BY <1>1, <1>2, <1>5
  <2> QED BY <1>2, <1>5, <2>2, <2>4, <2>5 DEF x, R2
<1>6. CASE R = {} /\ isRule /\ target = line
  <2>1. R2 = {n + 1}
    BY <1>3, <1>6
  <2>2. Least(R2) = n + 1
    <3>1. R2 \in SUBSET Nat /\ n + 1 \in R2
      BY <1>4, <2>1
    <3>2. \A y \in R2 : n + 1 <= y
      BY <1>4, <2>1
    <3> QED BY <3>1, <3>2, LeastIs
  <2>3. line \in DOMAIN map2 /\ map2[line] = FirstGlob(c.text)
    BY <1>1, <1>2, <1>6
  <2> QED BY <2>1, <2>2, <2>3 DEF R2
<1>7. CASE R = {} /\ ~(isRule /\ target = line)
  <2>1. R2 = {}
    BY <1>3, <1>7
  <2>2. line \notin DOMAIN map2
    BY <1>1, <1>2, <1>7
  <2> QED BY <2>1, <2>2 DEF R2
<1> QED BY <1>5, <1>6, <1>7

\* A file that was read to its end: its record silences what it declares.
LEMMA ListsComplete ==
    ASSUME NEW cs \in Seq(Comment), \A i \in DOMAIN cs : ~cs[i].skip, NEW s \in Suppressions,
           RulesAreDeclared(cs, Len(cs), s.checkWildcardsToSkipByLine),
           RangesAreDeclared(cs, Len(cs), s.checkWildcardsRanges)
    PROVE  ListsSilenceAlike(s, cs)
<1> DEFINE N == Len(cs)
           m == Openers(cs)[N]
           ranges == s.checkWildcardsRanges
           r == Len(ranges)
           map == s.checkWildcardsToSkipByLine
<1>1. DOMAIN cs = 1..N /\ N \in Nat
  OBVIOUS
<1>2. ranges \in Seq(CheckBeginAndEnd) /\ r \in Nat /\ DOMAIN ranges = 1..r
  <2>1. ranges \in Seq(CheckBeginAndEnd)
    BY DEF Suppressions
  <2> QED BY <2>1
<1>3. PICK e \in [1..r -> ClosingOnes(m, N)] :
        /\ InOrder(e, r, ClosingOnes(m, N))
        /\ \A i \in 1..r :
              ranges[i] = [checksToSkipWildcard |-> SplitDisabledChecksText(cs[e[i]].text),
                           begin |-> cs[m[e[i]]].line, end |-> cs[e[i]].line]
  BY DEF RangesAreDeclared
<1> SUFFICES ASSUME NEW check \in Checks, NEW line \in Line
             PROVE  (IF line \in DOMAIN map THEN check \in map[line]
                     ELSE RangeMatches(s, check, line))
                    <=> (IF LineRules(cs, line) # {} THEN check \in RuleOfLine(cs, line)
                         ELSE InnermostRegionSilences(cs, check, line))
  BY DEF ListsSilenceAlike
<1>4. LineRules(cs, line) = RulesUpTo(cs, N, line)
  <2>1. Effective(cs) = 1..N
    BY <1>1, EffectiveWithoutSkip
  <2> HIDE DEF N
  <2> QED BY <2>1 DEF LineRules, RulesUpTo
<1>5. line \in TargetableLine
  BY MaxLineAssumption DEF Line, TargetableLine
<1>6. /\ line \in DOMAIN map <=> LineRules(cs, line) # {}
      /\ line \in DOMAIN map => map[line] = RuleOfLine(cs, line)
  BY <1>4, <1>5 DEF RulesAreDeclared, RuleOfLine
<1> HIDE DEF N, ranges, r, map
<1>7. Opener(cs) = m
  BY DEF Opener, N
<1> HIDE DEF m
<1>8. ASSUME NEW i \in 1..r
       PROVE  /\ ranges[i].checksToSkipWildcard = SplitDisabledChecksText(cs[e[i]].text)
              /\ ranges[i].begin = cs[m[e[i]]].line
              /\ ranges[i].end = cs[e[i]].line
  <2>1. ranges[i] = [checksToSkipWildcard |-> SplitDisabledChecksText(cs[e[i]].text),
                     begin |-> cs[m[e[i]]].line, end |-> cs[e[i]].line]
    BY <1>3 DEF m
  <2> QED BY ONLY <2>1
<1> DEFINE I == RangesAround(s, line)
           J == RegionsAround(cs, line)
<1>9. I = {i \in 1..r : cs[m[e[i]]].line <= line /\ line <= cs[e[i]].line}
  <2>2. I = {i \in 1..r : ranges[i].begin <= line /\ line <= ranges[i].end}
    BY <1>2 DEF RangesAround, ranges
  <2> HIDE DEF I
  <2> QED BY <1>8, <2>2
<1>10. J = {j \in ClosingOnes(m, N) : cs[m[j]].line <= line /\ line <= cs[j].line}
  BY <1>1, <1>7 DEF RegionsAround, ClosingOnes
<1> HIDE DEF I, J
<1>11. J = {e[i] : i \in I}
  <2>1. ASSUME NEW j \in J PROVE \E i \in I : j = e[i]
    <3>1. PICK i \in 1..r : e[i] = j
      BY <1>3, <1>10 DEF InOrder
    <3> QED BY <1>9, <1>10, <3>1
  <2>2. ASSUME NEW i \in I PROVE e[i] \in J
    <3>1. e[i] \in ClosingOnes(m, N)
      BY <1>3, <1>9
    <3> QED BY <1>9, <1>10, <3>1
  <2> QED BY <2>1, <2>2
<1>12. RangeMatches(s, check, line) <=> InnermostRegionSilences(cs, check, line)
  <2>1. CASE I = {}
    <3>1. J = {}
      BY <1>11, <2>1
    <3> QED BY <2>1, <3>1 DEF RangeMatches, InnermostRegionSilences, I, J
  <2>2. CASE I # {}
    <3>1. ClosingOnes(m, N) \in SUBSET Nat /\ I \in SUBSET (1..r)
      BY <1>9 DEF ClosingOnes
    <3> DEFINE x == Least(I)
    <3>2. x \in I /\ Least({e[i] : i \in I}) = e[x]
      BY <1>2, <1>3, <2>2, <3>1, LeastOfThose
    <3>3. Least(J) = e[x] /\ J # {}
      BY <1>11, <3>2
    <3> HIDE DEF x
    <3>4. ranges[x].checksToSkipWildcard = SplitDisabledChecksText(cs[e[x]].text)
      BY <1>8, <3>1, <3>2
    <3> DEFINE globs == SplitDisabledChecksText(cs[e[x]].text)
    <3>5. RangeMatches(s, check, line) <=> globs = {} \/ \E glob \in globs : check \in glob
      BY <2>2, <3>4 DEF RangeMatches, I, x, ranges
    <3>6. InnermostRegionSilences(cs, check, line)
            <=> globs = {} \/ \E glob \in globs : check \in glob
      BY <3>3 DEF InnermostRegionSilences, J
    <3> QED BY <3>5, <3>6
  <2> QED BY <2>1, <2>2
<1> QED BY <1>6, <1>12
-----------------------------------------------------------------------------
(* The records.                                                             *)

\* What one comment does to the lists of the record.
LEMMA OneCommentLists ==
    ASSUME NEW s \in Suppressions, NEW c \in Comment, stack \in Seq(OpenRange)
    PROVE  LET t == AfterDirectives(AfterNolint(s, c), c) IN
           /\ t.checkWildcardsToSkipByLine = LineMapAfter(c, s.checkWildcardsToSkipByLine)
           /\ t.checkWildcardsRanges = RangesAfter(c, s.checkWildcardsRanges)
<1> DEFINE n == AfterNolint(s, c)
           t == AfterDirectives(n, c)
<1>1. n \in Suppressions
  BY AfterNolintType
<1>2. /\ n.checkWildcardsToSkipByLine = LineMapAfter(c, s.checkWildcardsToSkipByLine)
      /\ n.checkWildcardsRanges = RangesAfter(c, s.checkWildcardsRanges)
  BY DEF AfterNolint, Suppressions
<1> HIDE DEF n
<1>3. /\ t.checkWildcardsToSkipByLine = n.checkWildcardsToSkipByLine
      /\ t.checkWildcardsRanges = n.checkWildcardsRanges
  BY <1>1 DEF AfterDirectives, Suppressions
<1> QED BY <1>2, <1>3 DEF n

\* What the lists and regions of a record silence does not depend on its other
\* parts.
LEMMA OnlyListsCount ==
    ASSUME NEW s, NEW t, NEW cs, ListsSilenceAlike(s, cs),
           t.checkWildcardsToSkipByLine = s.checkWildcardsToSkipByLine,
           t.checkWildcardsRanges = s.checkWildcardsRanges
    PROVE  ListsSilenceAlike(t, cs)
<1>1. \A check, line : RangeMatches(t, check, line) <=> RangeMatches(s, check, line)
  BY DEF RangeMatches, RangesAround
<1> QED BY <1>1 DEF ListsSilenceAlike

\* The record of a file that was read to its end has all of its bare NOLINTs.
LEMMA EndOfFileHasBareLines ==
    ASSUME TypeOK, ScanIsDeclared, EndOfFile
    PROVE  /\ cursor - 1 = Len(Comments)
           /\ \A i \in DOMAIN Comments : ~Comments[i].skip
           /\ processed[query.file].skipNextLine = BareLines(Comments)
<1> DEFINE cs == Comments
<1>1. pc = "scan" /\ cursor > Len(cs)
  BY DEF EndOfFile
<1>2. cs \in Seq(Comment) /\ cursor \in Nat \ {0}
  BY <1>1, CommentsType DEF TypeOK
<1>3. Seen \subseteq DOMAIN cs
  BY <1>1 DEF ScanIsDeclared
<1>4. cursor - 1 = Len(cs)
  <2>1. Len(cs) \in Nat /\ cursor - 1 \in Nat
    BY <1>2
  <2>2. cursor - 1 # 0 => cursor - 1 \in 1..Len(cs)
    <3>1. cursor - 1 # 0 => cursor - 1 \in Seen
      <4>1. \A k \in Nat : k # 0 => k \in 1..k
        OBVIOUS
      <4> QED BY <2>1, <4>1 DEF Seen
    <3> QED BY <1>2, <1>3, <3>1
  <2> HIDE DEF cs
  <2> QED BY <1>1, <1>2, <2>1, <2>2
<1>5. Seen = DOMAIN cs
  BY <1>2, <1>4 DEF Seen
<1>6. \A i \in DOMAIN cs : ~cs[i].skip
  BY <1>1, <1>5 DEF ScanIsDeclared
<1>7. BareLines(cs) = {LineNumberToSuppress(cs[i]) : i \in {k \in DOMAIN cs : IsBareNolint(cs[k])}}
  <2> HIDE DEF cs
  <2> QED BY <1>2, <1>6, EndOfFileCompletes
<1>8. processed[query.file].skipNextLine = BareLines(cs)
  BY <1>1, <1>5, <1>7 DEF ScanIsDeclared
<1> QED BY <1>4, <1>6, <1>8

\* So has that of a file whose reading a clazy:skip has ended: the NOLINTs
\* behind it do not count.
LEMMA SkipHasBareLines ==
    ASSUME TypeOK, ScanIsDeclared, ScanComment, Comments[cursor].skip
    PROVE  /\ WholeFileSkipped(Comments)
           /\ processed'[query.file].skipNextLine = BareLines(Comments)
<1> DEFINE cs == Comments
           c == cs[cursor]
           s == processed[query.file]
           t == AfterDirectives(AfterNolint(s, c), c)
<1>1. /\ query.file \in DOMAIN processed /\ query.file \in Files
      /\ s \in Suppressions /\ stack \in Seq(OpenRange)
      /\ cursor \in Nat \ {0}
      /\ pc = "scan" /\ cursor <= Len(cs)
  BY DEF TypeOK, ScanComment
<1>2. cs \in Seq(Comment)
  BY <1>1, CommentsType
<1>3. cursor \in DOMAIN cs /\ c \in Comment
  BY <1>1, <1>2
<1>4. processed'[query.file] = t
  BY <1>1 DEF ScanComment
<1>5. /\ \A i \in Seen : ~cs[i].skip
      /\ s.skipNextLine = {LineNumberToSuppress(cs[i]) : i \in {k \in Seen : IsBareNolint(cs[k])}}
  BY <1>1 DEF ScanIsDeclared
<1>6. t.skipNextLine = s.skipNextLine
            \cup (IF IsBareNolint(c) THEN {LineNumberToSuppress(c)} ELSE {})
  BY <1>1, <1>3, OneCommentAdds
<1> HIDE DEF cs, s, t
<1>7. Effective(cs) = 1..cursor /\ WholeFileSkipped(cs)
  BY <1>2, <1>3, <1>5, EffectiveWithSkip DEF Seen, cs
<1>8. 1..cursor = Seen \cup {cursor}
  BY <1>1 DEF Seen
<1>9. t.skipNextLine = BareLines(cs)
  BY <1>5, <1>6, <1>7, <1>8 DEF BareLines
<1> QED BY <1>4, <1>7, <1>9 DEF cs

\* Halfway through a file the scan knows its lists and regions, and a record
\* that is complete silences what they declare.
LEMMA RecordsSilence == Spec => [](ScanKnowsRegions /\ RecordsSilenceAlike /\ CallsAreQuestions)
<1> DEFINE IInv == ScanKnowsRegions /\ RecordsSilenceAlike /\ CallsAreQuestions
<1>1. Init => IInv
  BY DEF Init, ScanKnowsRegions, RecordsSilenceAlike, CallsAreQuestions
<1>2. TypeOK /\ TypeOK' /\ ScanIsDeclared /\ IInv /\ [Next]_vars => IInv'
  <2> SUFFICES ASSUME TypeOK, TypeOK', ScanIsDeclared, IInv, [Next]_vars PROVE IInv'
    OBVIOUS
  <2>1. ASSUME NEW q \in Questions, InvalidFileID(q)
        PROVE  IInv'
    BY <2>1 DEF InvalidFileID, ScanKnowsRegions, RecordsSilenceAlike, CallsAreQuestions
  <2>2. ASSUME NEW q \in Questions, IsSuppressed(q)
        PROVE  IInv'
    <3>1. pc = "idle" /\ query' = q /\ source' = source /\ q.file \in Files
      BY <2>2 DEF IsSuppressed
    <3>2. CallsAreQuestions'
      BY <3>1 DEF CallsAreQuestions
    <3>3. CASE q.file \in DOMAIN processed
      <4>1. processed' = processed /\ pc' = "lookup"
        BY <2>2, <3>3 DEF IsSuppressed
      <4>2. ScanKnowsRegions' /\ RecordsSilenceAlike'
        BY <3>1, <4>1 DEF ScanKnowsRegions, RecordsSilenceAlike
      <4> QED BY <3>2, <4>2
    <3>4. CASE q.file \notin DOMAIN processed
      <4>1. /\ processed' = [f \in DOMAIN processed \cup {q.file} |->
                               IF f = q.file THEN EmptySuppressions ELSE processed[f]]
            /\ pc' = "scan" /\ cursor' = 1 /\ stack' = <<>>
        BY <2>2, <3>4 DEF IsSuppressed
      <4>2. processed'[q.file] = EmptySuppressions
        BY <4>1
      <4>3. \A f \in DOMAIN processed' : f # q.file =>
               f \in DOMAIN processed /\ processed'[f] = processed[f]
        BY <4>1
      <4>4. RecordsSilenceAlike'
        BY <3>1, <4>1, <4>3 DEF RecordsSilenceAlike
      <4> DEFINE cs == LexedComments(source[q.file])
      <4>5. cs \in Seq(Comment)
        BY <3>1, LexedType DEF TypeOK
      <4>6. Comments' = cs /\ cursor' - 1 = 0
        BY <3>1, <4>1 DEF Comments
      <4> HIDE DEF cs
      <4>7. RulesAreDeclared(cs, 0, [l \in {} |-> {}])
        BY DEF RulesAreDeclared, RulesUpTo
      <4>8. /\ Openers(cs)[0] \in [1..0 -> 0..0]
            /\ StackIsDeclared(cs, 0, <<>>)
            /\ RangesAreDeclared(cs, 0, <<>>)
        BY <4>5, NoRegionsYet
      <4>9. /\ EmptySuppressions.checkWildcardsToSkipByLine = [l \in {} |-> {}]
            /\ EmptySuppressions.checkWildcardsRanges = <<>>
        BY DEF EmptySuppressions
      <4>10. ScanKnowsRegions'
        BY <3>1, <4>1, <4>2, <4>6, <4>7, <4>8, <4>9 DEF ScanKnowsRegions
      <4> QED BY <3>2, <4>4, <4>10
    <3> QED BY <3>3, <3>4
  <2>3. CASE ScanComment
    <3> DEFINE cs == Comments
               c == cs[cursor]
               s == processed[query.file]
               t == AfterDirectives(AfterNolint(s, c), c)
               n == cursor - 1
    <3>1. /\ query.file \in DOMAIN processed /\ query.file \in Files
          /\ s \in Suppressions /\ stack \in Seq(OpenRange)
          /\ cursor \in Nat \ {0}
      BY <2>3 DEF TypeOK, ScanComment
    <3>2. /\ pc = "scan" /\ cursor <= Len(cs)
          /\ source' = source /\ query' = query /\ cursor' = cursor + 1
          /\ processed' = [processed EXCEPT ![query.file] = t]
          /\ stack' = StackAfter(c)
          /\ pc' = IF c.skip THEN "lookup" ELSE "scan"
      BY <2>3 DEF ScanComment
    <3>3. cs \in Seq(Comment) /\ cs' = cs
      BY <3>1, <3>2, CommentsType DEF Comments
    <3>4. c \in Comment
      BY <3>1, <3>2, <3>3
    <3>5. /\ processed'[query.file] = t
          /\ DOMAIN processed' = DOMAIN processed
          /\ \A f \in DOMAIN processed : f # query.file => processed'[f] = processed[f]
      BY <3>1, <3>2
    <3>6. CallsAreQuestions'
      BY <3>2 DEF CallsAreQuestions
    <3>7. CASE c.skip
      <4>1. pc' = "lookup"
        BY <3>2, <3>7
      <4>2. WholeFileSkipped(cs)
        BY <2>3, <3>7, SkipHasBareLines
      <4>3. RecordsSilenceAlike'
        BY <3>2, <3>5, <4>1, <4>2 DEF RecordsSilenceAlike, Comments
      <4>4. ScanKnowsRegions'
        BY <4>1 DEF ScanKnowsRegions
      <4> QED BY <3>6, <4>3, <4>4
    <3>8. CASE ~c.skip
      <4>1. pc' = "scan"
        BY <3>2, <3>8
      <4>2. RecordsSilenceAlike'
        BY <3>2, <3>5, <4>1 DEF RecordsSilenceAlike
      <4>3. /\ t.checkWildcardsToSkipByLine = LineMapAfter(c, s.checkWildcardsToSkipByLine)
            /\ t.checkWildcardsRanges = RangesAfter(c, s.checkWildcardsRanges)
        BY <3>1, <3>4, OneCommentLists
      <4>4. /\ RulesAreDeclared(cs, n, s.checkWildcardsToSkipByLine)
            /\ Openers(cs)[n] \in [1..n -> 0..n]
            /\ StackIsDeclared(cs, n, stack)
            /\ RangesAreDeclared(cs, n, s.checkWildcardsRanges)
        BY <3>2 DEF ScanKnowsRegions
      <4>5. /\ s.checkWildcardsToSkipByLine \in PartialLineMap
            /\ s.checkWildcardsRanges \in Seq(CheckBeginAndEnd)
        BY <3>1 DEF Suppressions
      <4>6. n \in Nat /\ n < Len(cs) /\ n + 1 = cursor /\ cursor' - 1 = n + 1
        BY <3>1, <3>2, <3>3
      <4> HIDE DEF cs, s, t, n
      <4>7. RulesAreDeclared(cs, n + 1, LineMapAfter(cs[n + 1], s.checkWildcardsToSkipByLine))
        BY <3>3, <4>4, <4>5, <4>6, RulesStep
      <4>8. /\ Openers(cs)[n + 1] \in [1..n + 1 -> 0..n + 1]
            /\ StackIsDeclared(cs, n + 1, StackAfter(cs[n + 1]))
            /\ RangesAreDeclared(cs, n + 1, RangesAfter(cs[n + 1], s.checkWildcardsRanges))
        BY <3>1, <3>3, <4>4, <4>5, <4>6, RegionsStep
      <4>9. /\ Comments' = cs /\ processed'[query'.file] = t
            /\ cursor' - 1 = n + 1 /\ stack' = StackAfter(cs[n + 1])
            /\ t.checkWildcardsToSkipByLine = LineMapAfter(cs[n + 1], s.checkWildcardsToSkipByLine)
            /\ t.checkWildcardsRanges = RangesAfter(cs[n + 1], s.checkWildcardsRanges)
        BY <3>2, <3>3, <3>5, <4>3, <4>6 DEF cs
      <4>10. ScanKnowsRegions'
        BY <4>7, <4>8, <4>9 DEF ScanKnowsRegions
      <4> QED BY <3>6, <4>2, <4>10
    <3> QED BY <3>7, <3>8
  <2>4. CASE EndOfFile
    <3> DEFINE cs == Comments
    <3>1. /\ pc = "scan" /\ pc' = "lookup"
          /\ UNCHANGED <<source, processed, query>>
      BY <2>4 DEF EndOfFile
    <3>2. query.file \in DOMAIN processed /\ query.file \in Files
          /\ processed[query.file] \in Suppressions
      BY <3>1 DEF TypeOK
    <3>3. cs \in Seq(Comment)
      BY <3>2, CommentsType
    <3>4. cursor - 1 = Len(cs) /\ \A i \in DOMAIN cs : ~cs[i].skip
      BY <2>4, EndOfFileHasBareLines
    <3>5. /\ RulesAreDeclared(cs, Len(cs), processed[query.file].checkWildcardsToSkipByLine)
          /\ RangesAreDeclared(cs, Len(cs), processed[query.file].checkWildcardsRanges)
      BY <3>1, <3>4 DEF ScanKnowsRegions
    <3>6. ListsSilenceAlike(processed[query.file], cs)
      <4> HIDE DEF cs
      <4> QED BY <3>2, <3>3, <3>4, <3>5, ListsComplete
    <3>7. RecordsSilenceAlike'
      BY <3>1, <3>6 DEF RecordsSilenceAlike, Comments
    <3> QED BY <3>1, <3>7 DEF ScanKnowsRegions, CallsAreQuestions
  <2>5. CASE Lookup
    <3>1. pc = "lookup" /\ pc' = "idle" /\ source' = source
      BY <2>5 DEF Lookup
    <3>2. query.file \in DOMAIN processed
      BY <3>1 DEF TypeOK
    <3>3. \A f \in DOMAIN processed' :
            /\ f \in DOMAIN processed
            /\ processed'[f].checkWildcardsToSkipByLine = processed[f].checkWildcardsToSkipByLine
            /\ processed'[f].checkWildcardsRanges = processed[f].checkWildcardsRanges
      BY <2>5, <3>2 DEF Lookup, TypeOK, Suppressions
    <3>4. RecordsSilenceAlike'
      <4> SUFFICES ASSUME NEW f \in DOMAIN processed'
                   PROVE  \/ WholeFileSkipped(LexedComments(source[f]))
                          \/ ListsSilenceAlike(processed'[f], LexedComments(source[f]))
        BY <3>1 DEF RecordsSilenceAlike
      <4> DEFINE cs == LexedComments(source[f])
                 s == processed[f]
                 t == processed'[f]
      <4>1. WholeFileSkipped(cs) \/ ListsSilenceAlike(s, cs)
        BY <3>1, <3>3 DEF RecordsSilenceAlike
      <4>2. /\ t.checkWildcardsToSkipByLine = s.checkWildcardsToSkipByLine
            /\ t.checkWildcardsRanges = s.checkWildcardsRanges
        BY <3>3
      <4> HIDE DEF cs, s, t
      <4>3. WholeFileSkipped(cs) \/ ListsSilenceAlike(t, cs)
        BY <4>1, <4>2, OnlyListsCount
      <4> QED BY <4>3 DEF cs, t
    <3> QED BY <3>1, <3>4 DEF ScanKnowsRegions, CallsAreQuestions
  <2>6. CASE UNCHANGED vars
    BY <2>6 DEF vars, ScanKnowsRegions, RecordsSilenceAlike, CallsAreQuestions, Comments
  <2> QED BY <2>1, <2>2, <2>3, <2>4, <2>5, <2>6 DEF Next
<1> QED BY <1>1, <1>2, TypeCorrect, ScanDeclares, PTL DEF Spec
-----------------------------------------------------------------------------
(* The answers.  Unspent is what the manager substitutes for the variable of *)
(* SuppressionAnswers: a file that is not read yet has all of its NOLINTs.   *)

Unspent ==
    [f \in Files |->
        IF f \in DOMAIN processed /\ ~(pc = "scan" /\ f = query.file)
        THEN processed[f].skipNextLine
        ELSE BareLines(LexedComments(source[f]))]

SInv ==
    /\ TypeOK
    /\ ScanIsDeclared /\ RecordsAreDeclared
    /\ ScanKnowsRegions /\ RecordsSilenceAlike /\ CallsAreQuestions

\* SuppressionAnswers reads the comments of a file with the same words.
LEMMA SameWords ==
    /\ \A content : AtOnce!LexedComments(content) = LexedComments(content)
    /\ \A cs : AtOnce!BareLines(cs) = BareLines(cs)
    /\ \A cs, unspent, check, line :
          /\ AtOnce!Silenced(cs, unspent, check, line) = Silenced(cs, unspent, check, line)
          /\ AtOnce!SpendsBareNolint(cs, unspent, check, line)
                = SpendsBareNolint(cs, unspent, check, line)
<1>1. \A content : AtOnce!LexedComments(content) = LexedComments(content)
  BY DEF LexedComments, AtOnce!LexedComments
<1>2. \A cs : AtOnce!BareLines(cs) = BareLines(cs)
  BY DEF BareLines, AtOnce!BareLines, LineNumberToSuppress, AtOnce!LineNumberToSuppress,
       Effective, AtOnce!Effective, IsBareNolint, AtOnce!IsBareNolint, IsLineNolint,
       AtOnce!IsLineNolint
<1>3. \A cs, unspent, check, line :
         AtOnce!Silenced(cs, unspent, check, line) = Silenced(cs, unspent, check, line)
  BY DEF Silenced, AtOnce!Silenced, WholeFileSkipped, AtOnce!WholeFileSkipped,
       SkippedInFile, AtOnce!SkippedInFile, Directives, AtOnce!Directives, Effective,
       AtOnce!Effective, SkippedOnLine, AtOnce!SkippedOnLine, SkippedByComment,
       AtOnce!SkippedByComment, LineRules, AtOnce!LineRules, IsLineNolint,
       AtOnce!IsLineNolint, LineNumberToSuppress, AtOnce!LineNumberToSuppress,
       RecognisedEntries, AtOnce!RecognisedEntries, RuleOfLine, AtOnce!RuleOfLine,
       FirstGlob, AtOnce!FirstGlob, Least, AtOnce!Least, InnermostRegionSilences,
       AtOnce!InnermostRegionSilences, RegionsAround, AtOnce!RegionsAround, Opener,
       AtOnce!Opener, Openers, AtOnce!Openers, ClosedBy, AtOnce!ClosedBy, OpenBegins,
       AtOnce!OpenBegins, Greatest, AtOnce!Greatest, SplitDisabledChecksText,
       AtOnce!SplitDisabledChecksText
<1>4. \A cs, unspent, check, line :
         AtOnce!SpendsBareNolint(cs, unspent, check, line)
            = SpendsBareNolint(cs, unspent, check, line)
  BY DEF SpendsBareNolint, AtOnce!SpendsBareNolint, WholeFileSkipped,
       AtOnce!WholeFileSkipped, SkippedInFile, AtOnce!SkippedInFile, Directives,
       AtOnce!Directives, Effective, AtOnce!Effective
<1> QED BY <1>1, <1>2, <1>3, <1>4

\* Nothing is answered before the first question.
LEMMA AnswersInit == Init => AtOnce!Init
<1> SUFFICES ASSUME Init PROVE AtOnce!Init
  OBVIOUS
<1>1. DOMAIN processed = {} /\ source \in Sources /\ answers = {}
  BY DEF Init
<1>2. Unspent = [f \in Files |-> BareLines(LexedComments(source[f]))]
  BY <1>1 DEF Unspent
<1> QED BY <1>1, <1>2, SameWords DEF AtOnce!Init, Unspent

\* A location without a FileID.
LEMMA InvalidFileIDIsAnswered ==
    ASSUME NEW q \in Questions, InvalidFileID(q)
    PROVE  AtOnce!NotInAFile(q)
<1>1. UNCHANGED <<source, processed, pc, query>> /\ q.file = NoFile
  BY DEF InvalidFileID
<1>2. answers' = answers \cup {[query |-> q, suppressed |-> FALSE]}
  BY DEF InvalidFileID, AnswerWith
<1>3. Unspent' = Unspent
  BY <1>1 DEF Unspent
<1> QED BY <1>1, <1>2, <1>3 DEF AtOnce!NotInAFile, AtOnce!AnswerWith, Unspent

\* The call, and the scan of the file, change nothing that callers can see.
LEMMA CallIsSilent ==
    ASSUME SInv, NEW q \in Questions, IsSuppressed(q)
    PROVE  source' = source /\ answers' = answers /\ Unspent' = Unspent
<1>1. /\ pc = "idle" /\ query' = q /\ source' = source /\ answers' = answers /\ q.file \in Files
  BY DEF IsSuppressed
<1>2. CASE q.file \in DOMAIN processed
  <2>1. processed' = processed /\ pc' = "lookup"
    BY <1>2 DEF IsSuppressed
  <2> QED BY <1>1, <2>1 DEF Unspent
<1>3. CASE q.file \notin DOMAIN processed
  <2>1. /\ processed' = [f \in DOMAIN processed \cup {q.file} |->
                            IF f = q.file THEN EmptySuppressions ELSE processed[f]]
        /\ pc' = "scan"
    BY <1>3 DEF IsSuppressed
  <2>2. ASSUME NEW f \in Files PROVE Unspent'[f] = Unspent[f]
    <3>1. CASE f = q.file
      BY <1>1, <1>3, <2>1, <3>1 DEF Unspent
    <3>2. CASE f # q.file
      BY <1>1, <2>1, <3>2 DEF Unspent
    <3> QED BY <3>1, <3>2
  <2>3. Unspent' = Unspent
    BY <2>2 DEF Unspent
  <2> QED BY <1>1, <2>3
<1> QED BY <1>2, <1>3

LEMMA ScanCommentIsSilent ==
    ASSUME SInv, ScanComment
    PROVE  source' = source /\ answers' = answers /\ Unspent' = Unspent
<1> DEFINE t == AfterDirectives(AfterNolint(processed[query.file], Comments[cursor]), Comments[cursor])
<1>1. /\ pc = "scan" /\ source' = source /\ answers' = answers /\ query' = query
      /\ processed' = [processed EXCEPT ![query.file] = t]
      /\ pc' = IF Comments[cursor].skip THEN "lookup" ELSE "scan"
  BY DEF ScanComment
<1>2. query.file \in DOMAIN processed /\ query.file \in Files
  BY <1>1 DEF SInv, TypeOK
<1> HIDE DEF t
<1>3. /\ DOMAIN processed' = DOMAIN processed
      /\ \A f \in DOMAIN processed : f # query.file => processed'[f] = processed[f]
  BY <1>1
<1>4. ASSUME NEW f \in Files PROVE Unspent'[f] = Unspent[f]
  <2>1. CASE f # query.file
    BY <1>1, <1>3, <2>1 DEF Unspent
  <2>2. CASE f = query.file /\ ~Comments[cursor].skip
    BY <1>1, <2>2 DEF Unspent
  <2>3. CASE f = query.file /\ Comments[cursor].skip
    <3>1. processed'[query.file].skipNextLine = BareLines(Comments)
      BY <2>3, SkipHasBareLines DEF SInv
    <3>2. Unspent'[f] = processed'[query.file].skipNextLine
      BY <1>1, <1>2, <1>3, <2>3 DEF Unspent
    <3>3. Unspent[f] = BareLines(Comments)
      BY <1>1, <2>3 DEF Unspent, Comments
    <3> QED BY <3>1, <3>2, <3>3
  <2> QED BY <2>1, <2>2, <2>3
<1>5. Unspent' = Unspent
  BY <1>4 DEF Unspent
<1> QED BY <1>1, <1>5

LEMMA EndOfFileIsSilent ==
    ASSUME SInv, EndOfFile
    PROVE  source' = source /\ answers' = answers /\ Unspent' = Unspent
<1>1. /\ pc = "scan" /\ pc' = "lookup"
      /\ UNCHANGED <<source, answers, query, processed>>
  BY DEF EndOfFile
<1>2. query.file \in DOMAIN processed /\ query.file \in Files
  BY <1>1 DEF SInv, TypeOK
<1>3. processed[query.file].skipNextLine = BareLines(Comments)
  BY EndOfFileHasBareLines DEF SInv
<1>4. ASSUME NEW f \in Files PROVE Unspent'[f] = Unspent[f]
  <2>1. CASE f # query.file
    BY <1>1, <2>1 DEF Unspent
  <2>2. CASE f = query.file
    BY <1>1, <1>2, <1>3, <2>2 DEF Unspent, Comments
  <2> QED BY <2>1, <2>2
<1>5. Unspent' = Unspent
  BY <1>4 DEF Unspent
<1> QED BY <1>1, <1>5

\* The record of a file that was read answers as its comments declare.
LEMMA RecordAnswers ==
    ASSUME SInv, pc = "lookup"
    PROVE  LET s == processed[query.file]
               cs == LexedComments(source[query.file])
           IN  /\ s.skipNextLine = Unspent[query.file]
               /\ IsSuppressedBy(s, query.check, query.line)
                    = Silenced(cs, Unspent[query.file], query.check, query.line)
               /\ ConsumesSkipNextLine(s, query.check, query.line)
                    = SpendsBareNolint(cs, Unspent[query.file], query.check, query.line)
<1> DEFINE s == processed[query.file]
           cs == LexedComments(source[query.file])
           check == query.check
           line == query.line
<1>1. query.file \in DOMAIN processed /\ query.file \in Files
  BY DEF SInv, TypeOK
<1>2. check \in Checks /\ line \in Line
  BY DEF SInv, TypeOK, Query
<1>3. s.skipNextLine = Unspent[query.file]
  BY <1>1 DEF Unspent
<1>4. /\ s.skipEntireFile = WholeFileSkipped(cs)
      /\ s.checksToSkip = SkippedInFile(cs)
      /\ s.checksToSkipByLine = SkippedOnLine(cs)
  BY <1>1 DEF SInv, RecordsAreDeclared
<1>5. WholeFileSkipped(cs) \/ ListsSilenceAlike(s, cs)
  BY <1>1 DEF SInv, RecordsSilenceAlike
<1> DEFINE u == Unspent[query.file]
<1> HIDE DEF s, cs, check, line, u
<1>6. IsSuppressedBy(s, check, line) <=> Silenced(cs, u, check, line)
  <2>1. CASE WholeFileSkipped(cs)
    BY <1>4, <2>1 DEF IsSuppressedBy, Silenced
  <2>2. CASE ListsSilenceAlike(s, cs)
    BY <1>2, <1>3, <1>4, <2>2 DEF IsSuppressedBy, Silenced, ListsSilenceAlike, u
  <2> QED BY <1>5, <2>1, <2>2
<1>7. ConsumesSkipNextLine(s, check, line) <=> SpendsBareNolint(cs, u, check, line)
  BY <1>3, <1>4 DEF ConsumesSkipNextLine, SpendsBareNolint, u
<1>8. /\ IsSuppressedBy(s, check, line) \in BOOLEAN /\ Silenced(cs, u, check, line) \in BOOLEAN
      /\ ConsumesSkipNextLine(s, check, line) \in BOOLEAN
      /\ SpendsBareNolint(cs, u, check, line) \in BOOLEAN
  BY DEF IsSuppressedBy, Silenced, ConsumesSkipNextLine, SpendsBareNolint
<1> QED BY <1>3, <1>6, <1>7, <1>8 DEF s, cs, check, line, u

\* The answer.
LEMMA LookupIsAnswered ==
    ASSUME SInv, Lookup
    PROVE  \E q \in Questions : AtOnce!InAFile(q)
<1> DEFINE s == processed[query.file]
           cs == LexedComments(source[query.file])
           consumes == ConsumesSkipNextLine(s, query.check, query.line)
<1>1. /\ pc = "lookup" /\ pc' = "idle" /\ source' = source
      /\ answers' = answers
            \cup {[query |-> query, suppressed |-> IsSuppressedBy(s, query.check, query.line)]}
      /\ processed' = IF consumes
                      THEN [processed EXCEPT ![query.file].skipNextLine = @ \ {query.line}]
                      ELSE processed
  BY DEF Lookup, AnswerWith
<1>2. query.file \in DOMAIN processed /\ query.file \in Files /\ query \in Questions
      /\ s \in Suppressions
  BY <1>1 DEF SInv, TypeOK, CallsAreQuestions
<1>3. /\ s.skipNextLine = Unspent[query.file]
      /\ IsSuppressedBy(s, query.check, query.line)
            = Silenced(cs, Unspent[query.file], query.check, query.line)
      /\ consumes = SpendsBareNolint(cs, Unspent[query.file], query.check, query.line)
  BY <1>1, RecordAnswers
<1> HIDE DEF consumes
<1>4. Unspent' = IF consumes THEN [Unspent EXCEPT ![query.file] = @ \ {query.line}] ELSE Unspent
  <2>1. CASE ~consumes
    BY <1>1, <2>1 DEF Unspent
  <2>2. CASE consumes
    <3>1. /\ DOMAIN processed' = DOMAIN processed
          /\ processed'[query.file].skipNextLine = s.skipNextLine \ {query.line}
          /\ \A f \in DOMAIN processed : f # query.file => processed'[f] = processed[f]
      BY <1>1, <1>2, <2>2 DEF Suppressions
    <3> DEFINE v == [Unspent EXCEPT ![query.file] = @ \ {query.line}]
    <3>2. ASSUME NEW f \in Files PROVE Unspent'[f] = v[f]
      <4>1. CASE f = query.file
        <5>1. v[f] = Unspent[query.file] \ {query.line}
          BY <4>1 DEF Unspent
        <5>2. Unspent'[f] = processed'[query.file].skipNextLine
          BY <1>1, <1>2, <3>1, <4>1 DEF Unspent
        <5> QED BY <1>3, <3>1, <5>1, <5>2
      <4>2. CASE f # query.file
        <5>1. v[f] = Unspent[f]
          BY <4>2 DEF Unspent
        <5>2. Unspent'[f] = Unspent[f]
          BY <1>1, <3>1, <4>2 DEF Unspent
        <5> QED BY <5>1, <5>2
      <4> QED BY <4>1, <4>2
    <3>3. Unspent' = v
      BY <3>2 DEF Unspent
    <3> QED BY <2>2, <3>3
  <2> QED BY <2>1, <2>2
<1>5. consumes <=> SpendsBareNolint(cs, Unspent[query.file], query.check, query.line)
  BY <1>3
<1>6. ASSUME NEW q \in Questions, q = query PROVE AtOnce!InAFile(q)
  BY <1>1, <1>2, <1>3, <1>4, <1>5, <1>6, SameWords
     DEF AtOnce!InAFile, AtOnce!AnswerWith, Unspent
<1> QED BY <1>2, <1>6

\* Every step of the manager is an answer at once, or none.
LEMMA AnswersStep ==
    ASSUME SInv, [Next]_vars
    PROVE  \/ \E q \in Questions : AtOnce!NotInAFile(q) \/ AtOnce!InAFile(q)
           \/ source' = source /\ answers' = answers /\ Unspent' = Unspent
<1>1. CASE \E q \in Questions : InvalidFileID(q)
  BY <1>1, InvalidFileIDIsAnswered
<1>2. CASE \E q \in Questions : IsSuppressed(q)
  BY <1>2, CallIsSilent
<1>3. CASE ScanComment
  BY <1>3, ScanCommentIsSilent
<1>4. CASE EndOfFile
  BY <1>4, EndOfFileIsSilent
<1>5. CASE Lookup
  BY <1>5, LookupIsAnswered
<1>6. CASE UNCHANGED vars
  <2>1. UNCHANGED <<source, processed, pc, query, answers>>
    BY <1>6 DEF vars
  <2>2. Unspent' = Unspent
    BY <2>1 DEF Unspent
  <2> QED BY <2>1, <2>2
<1> QED BY <1>1, <1>2, <1>3, <1>4, <1>5, <1>6 DEF Next

\* Whatever its files hold and whatever it is asked, in whatever order,
\* SuppressionManager answers every question at once from what the comments of
\* the file declare, and spends a bare NOLINT for one warning.
THEOREM AnsweredAtOnce == Spec => AnswersAtOnce
<1>1. SInv /\ [Next]_vars => [AtOnce!Next]_(AtOnce!vars)
  BY AnswersStep DEF AtOnce!Next, AtOnce!vars, Unspent
<1>2. Spec => []SInv
  BY TypeCorrect, ScanDeclares, RecordsSilence, PTL DEF SInv
<1> QED BY <1>1, <1>2, AnswersInit, PTL DEF Spec, AnswersAtOnce, AtOnce!Spec
-----------------------------------------------------------------------------
(* What is silenced is declared.  That the manager answers at once is what     *)
(* makes this provable: only the steps of SuppressionAnswers are looked at.  *)

\* Of the members of a nonempty set of numbers up to n one is the greatest.
LEMMA GreatestExists ==
    ASSUME NEW n \in Nat, NEW S \in SUBSET (1..n), S # {}
    PROVE  Greatest(S) \in S
<1> DEFINE T == {u \in Nat : \A y \in S : y <= u}
           l == Least(T)
<1>1. n \in T
  OBVIOUS
<1>2. l \in T /\ \A u \in T : l <= u
  BY <1>1, LeastExists
<1> HIDE DEF l
<1>3. l \in Nat /\ \A y \in S : l >= y
  BY <1>2
<1>4. l \in S
  <2> SUFFICES ASSUME l \notin S PROVE FALSE
    OBVIOUS
  <2>1. \A y \in S : y \in Nat /\ y # l /\ y <= l /\ y >= 1
    BY <1>3
  <2>2. PICK y \in S : TRUE
    OBVIOUS
  <2>3. l - 1 \in T
    BY <1>3, <2>1, <2>2
  <2>4. l <= l - 1
    BY <1>2, <2>3
  <2> QED BY <1>3, <2>4
<1> QED BY <1>3, <1>4 DEF Greatest

\* i is a NOLINTBEGIN in front of the NOLINTEND j, with the same list.
IsPair(cs, i, j) ==
    /\ i \in 1..(j - 1)
    /\ cs[i].nolint = "begin"
    /\ cs[j].nolint = "end"
    /\ cs[i].text = cs[j].text

\* After n comments only such pairs are regions.
PairsUpTo(cs, n) ==
    LET m == Openers(cs)[n] IN
    /\ m \in Seq(Nat) /\ Len(m) = n
    /\ \A j \in 1..n : m[j] # 0 => IsPair(cs, m[j], j)

\* What a comment closes makes a pair with it.
LEMMA ClosedByPairs ==
    ASSUME NEW cs, NEW before, NEW n \in Nat \ {0}, ClosedBy(cs, before, n) # 0
    PROVE  IsPair(cs, ClosedBy(cs, before, n), n)
<1> DEFINE open == OpenBegins(cs, before, n)
           g == Greatest(open)
<1>1. open # {} /\ cs[n].nolint = "end" /\ cs[g].text = cs[n].text /\ ClosedBy(cs, before, n) = g
  BY DEF ClosedBy
<1>2. open \in SUBSET (1..(n - 1)) /\ n - 1 \in Nat
  BY DEF OpenBegins
<1>3. \A i \in open : cs[i].nolint = "begin"
  BY DEF OpenBegins
<1> HIDE DEF open
<1>4. g \in open
  BY <1>1, <1>2, GreatestExists
<1> QED BY <1>1, <1>2, <1>3, <1>4 DEF IsPair

\* The regions of a file are such pairs.
LEMMA RegionsArePairs ==
    ASSUME NEW cs \in Seq(Comment), NEW j \in DOMAIN cs, Opener(cs)[j] # 0
    PROVE  IsPair(cs, Opener(cs)[j], j)
<1> DEFINE N == Len(cs)
           bad == {n \in 0..N : ~PairsUpTo(cs, n)}
<1>1. N \in Nat /\ DOMAIN cs = 1..N
  OBVIOUS
<1> HIDE DEF N
<1>2. bad = {}
  <2> SUFFICES ASSUME bad # {} PROVE FALSE
    OBVIOUS
  <2>1. PICK n \in bad : \A k \in bad : n <= k
    <3>1. bad \in SUBSET Nat
      BY <1>1
    <3> QED BY <3>1, LeastExists
  <2>2. n \in 0..N /\ ~PairsUpTo(cs, n)
    BY <2>1
  <2>3. PairsUpTo(cs, 0)
    <3>1. Openers(cs)[0] = <<>>
      BY <1>1, OpenersGrow DEF N
    <3>2. <<>> \in Seq(Nat) /\ Len(<<>>) = 0 /\ 1..0 = {}
      OBVIOUS
    <3> QED BY <3>1, <3>2 DEF PairsUpTo
  <2>4. n \in 1..N /\ n - 1 \in 0..N
    BY <1>1, <2>2, <2>3
  <2>5. PairsUpTo(cs, n - 1)
    <3>1. ~(n <= n - 1)
      BY <1>1, <2>4
    <3> QED BY <2>1, <2>4, <3>1
  <2> DEFINE m == Openers(cs)[n - 1]
             x == ClosedBy(cs, m, n)
             w == Openers(cs)[n]
  <2>6. w = Append(m, x)
    BY <1>1, <2>4, OpenersGrow DEF N
  <2>7. /\ m \in Seq(Nat) /\ Len(m) = n - 1
        /\ \A k \in 1..(n - 1) : m[k] # 0 => IsPair(cs, m[k], k)
    BY <2>5 DEF PairsUpTo
  <2>8. x # 0 => IsPair(cs, x, n)
    BY <1>1, <2>4, ClosedByPairs
  <2>9. x \in Nat
    BY <2>8, <2>4, <1>1 DEF IsPair
  <2> HIDE DEF m, x, w
  <2>10. /\ w \in Seq(Nat) /\ Len(w) = n /\ w[n] = x
         /\ \A k \in 1..(n - 1) : w[k] = m[k]
    BY <1>1, <2>4, <2>6, <2>7, <2>9
  <2>11. ASSUME NEW k \in 1..n, w[k] # 0 PROVE IsPair(cs, w[k], k)
    <3>1. CASE k = n
      BY <2>8, <2>10, <2>11, <3>1
    <3>2. CASE k # n
      <4>1. k \in 1..(n - 1)
        BY <1>1, <2>4, <3>2
      <4> QED BY <2>7, <2>10, <2>11, <4>1
    <3> QED BY <3>1, <3>2
  <2>12. PairsUpTo(cs, n)
    BY <2>10, <2>11 DEF PairsUpTo, w
  <2> QED BY <2>2, <2>12
<1>3. N \in 0..N /\ j \in 1..N
  BY <1>1
<1>4. PairsUpTo(cs, N)
  BY <1>2, <1>3
<1> QED BY <1>3, <1>4 DEF PairsUpTo, Opener, N

\* The glob that counts is that of an entry with the prefix.
LEMMA FirstGlobNames ==
    ASSUME NEW text \in Seq(Entry), NEW check, RecognisedEntries(text) # {},
           check \in FirstGlob(text)
    PROVE  Names(text, check)
<1> DEFINE i == Least(RecognisedEntries(text))
<1>1. RecognisedEntries(text) \in SUBSET Nat
  BY DEF RecognisedEntries
<1>2. i \in RecognisedEntries(text)
  BY <1>1, LeastExists
<1> HIDE DEF i
<1>3. i \in DOMAIN text /\ text[i].clazyPrefix
  BY <1>2 DEF RecognisedEntries
<1> QED BY <1>3 DEF FirstGlob, Names, i

\* The innermost region is one of those the file declares.
LEMMA RegionIsDeclared ==
    ASSUME NEW cs \in Seq(Comment), NEW check, NEW line \in Line,
           InnermostRegionSilences(cs, check, line)
    PROVE  \E j \in DOMAIN cs : IsInRegion(cs, check, line, j)
<1> DEFINE around == RegionsAround(cs, line)
           j == Least(around)
           i == Opener(cs)[j]
           text == cs[j].text
<1>1. around # {} /\ (SplitDisabledChecksText(text) = {}
                       \/ \E glob \in SplitDisabledChecksText(text) : check \in glob)
  BY DEF InnermostRegionSilences
<1>2. around \in SUBSET Nat
  BY DEF RegionsAround
<1>3. j \in around
  BY <1>1, <1>2, LeastExists
<1> HIDE DEF j
<1>4. j \in DOMAIN cs /\ i # 0 /\ cs[i].line <= line /\ line <= cs[j].line
  BY <1>3 DEF RegionsAround
<1>5. IsPair(cs, i, j)
  BY <1>4, RegionsArePairs
<1> HIDE DEF i
<1>6. RecognisedEntries(text) = {} \/ Names(text, check)
  BY <1>1 DEF SplitDisabledChecksText, RecognisedEntries, Names
<1>7. IsInRegion(cs, check, line, j)
  BY <1>4, <1>5, <1>6 DEF IsInRegion, IsPair
<1> QED BY <1>4, <1>7

\* Whatever silences a warning is in a comment that speaks for it.
LEMMA SilencedIsDeclared ==
    ASSUME NEW cs \in Seq(Comment), NEW check, NEW line \in Line,
           \/ line \in BareLines(cs)
           \/ Silenced(cs, {}, check, line)
    PROVE  IsDeclaredSilent(cs, check, line)
<1> DEFINE Speaks(i) == i \in DOMAIN cs /\ SpeaksFor(cs[i], check, line)
<1>1. (\E i : Speaks(i)) => IsDeclaredSilent(cs, check, line)
  BY DEF IsDeclaredSilent
<1>2. Effective(cs) \subseteq DOMAIN cs /\ Directives(cs) \subseteq Effective(cs)
  BY DEF Effective, Directives
<1>3. ASSUME line \in BareLines(cs) PROVE \E i : Speaks(i)
  <2>1. PICK i \in Effective(cs) : IsBareNolint(cs[i]) /\ line = LineNumberToSuppress(cs[i])
    BY <1>3 DEF BareLines
  <2> QED BY <1>2, <2>1 DEF IsBareNolint, SpeaksFor
<1>4. ASSUME WholeFileSkipped(cs) PROVE \E i : Speaks(i)
  BY <1>4 DEF WholeFileSkipped, SpeaksFor
<1>5. ASSUME check \in SkippedInFile(cs) PROVE \E i : Speaks(i)
  <2>1. PICK i \in Directives(cs) : check \in cs[i].excludeall
    BY <1>5 DEF SkippedInFile
  <2> QED BY <1>2, <2>1 DEF SpeaksFor
<1>6. ASSUME <<line, check>> \in SkippedOnLine(cs) PROVE \E i : Speaks(i)
  <2>1. PICK i \in Directives(cs) : <<line, check>> \in SkippedByComment(cs[i])
    BY <1>6 DEF SkippedOnLine
  <2>2. \/ line = cs[i].line /\ check \in cs[i].exclude
        \/ line = cs[i].line + 1 /\ check \in cs[i].excludeNextLine
    BY <2>1 DEF SkippedByComment
  <2> QED BY <1>2, <2>1, <2>2 DEF SpeaksFor
<1>7. ASSUME LineRules(cs, line) # {}, check \in RuleOfLine(cs, line) PROVE \E i : Speaks(i)
  <2> DEFINE i == Least(LineRules(cs, line))
  <2>1. LineRules(cs, line) \in SUBSET Nat
    BY DEF LineRules, Effective
  <2>2. i \in LineRules(cs, line)
    BY <1>7, <2>1, LeastExists
  <2>3. check \in FirstGlob(cs[i].text)
    BY <1>7 DEF RuleOfLine
  <2> HIDE DEF i
  <2>4. /\ i \in DOMAIN cs /\ IsLineNolint(cs[i])
        /\ LineNumberToSuppress(cs[i]) = line
        /\ RecognisedEntries(cs[i].text) # {}
    BY <1>2, <2>2 DEF LineRules
  <2>5. cs[i].text \in Seq(Entry)
    <3>1. cs[i] \in Comment
      BY <2>4
    <3> QED BY <3>1 DEF Comment
  <2>6. Names(cs[i].text, check)
    BY <2>3, <2>4, <2>5, FirstGlobNames
  <2> QED BY <2>4, <2>6 DEF SpeaksFor
<1>8. InnermostRegionSilences(cs, check, line) => IsDeclaredSilent(cs, check, line)
  BY RegionIsDeclared DEF IsDeclaredSilent
<1> HIDE DEF Speaks
<1> QED BY <1>1, <1>3, <1>4, <1>5, <1>6, <1>7, <1>8 DEF Silenced

DeclaredBare(f) == BareLines(LexedComments(source[f]))

\* Silenced by something else than a bare NOLINT.
SilencedAnyway(q) == Silenced(LexedComments(source[q.file]), {}, q.check, q.line)

\* An answer is that of the comments, but for a bare NOLINT.
AnswersAreDeclared ==
    /\ \A f \in Files : Unspent[f] \subseteq DeclaredBare(f)
    /\ \A a \in answers :
        /\ a.query.file \notin Files => ~a.suppressed
        /\ a.query.file \in Files /\ a.query.line \notin DeclaredBare(a.query.file) =>
              (a.suppressed <=> SilencedAnyway(a.query))

\* Without a bare NOLINT on the line only the rest counts.
LEMMA BareOrAnyway ==
    ASSUME NEW cs, NEW u, NEW check, NEW line
    PROVE  Silenced(cs, u, check, line) <=> line \in u \/ Silenced(cs, {}, check, line)
BY DEF Silenced

\* One answer.
LEMMA OneAnswer ==
    ASSUME AnswersAreDeclared, source' = source,
           NEW q \in Query, NEW suppressed \in BOOLEAN,
           answers' = answers \cup {[query |-> q, suppressed |-> suppressed]},
           q.file \notin Files => ~suppressed,
           q.file \in Files => (suppressed <=> q.line \in Unspent[q.file] \/ SilencedAnyway(q)),
           \A f \in Files : Unspent'[f] \subseteq Unspent[f]
    PROVE  AnswersAreDeclared'
<1> DEFINE new == [query |-> q, suppressed |-> suppressed]
<1>1. new.query = q /\ new.suppressed = suppressed /\ answers' = answers \cup {new}
  OBVIOUS
<1> HIDE DEF new
<1>2. \A f : DeclaredBare(f)' = DeclaredBare(f)
  BY DEF DeclaredBare
<1>3. \A a : SilencedAnyway(a)' = SilencedAnyway(a)
  BY DEF SilencedAnyway
<1>4. \A f \in Files : Unspent[f] \subseteq DeclaredBare(f)
  BY DEF AnswersAreDeclared
<1>5. ASSUME NEW a \in answers'
      PROVE  /\ a.query.file \notin Files => ~a.suppressed
             /\ a.query.file \in Files /\ a.query.line \notin DeclaredBare(a.query.file) =>
                   (a.suppressed <=> SilencedAnyway(a.query))
  <2>1. CASE a = new
    BY <1>1, <1>4, <2>1
  <2>2. CASE a \in answers
    BY <2>2 DEF AnswersAreDeclared
  <2> QED BY <1>1, <2>1, <2>2
<1> QED BY <1>2, <1>3, <1>4, <1>5 DEF AnswersAreDeclared

\* However many checks warn about a line, and in whatever order: what is silenced
\* is so because of a comment that speaks for it, a region around it, or the whole
\* file, and apart from a bare NOLINT the same question has the same answer.
THEOREM SilencesAreDeclared == Spec => []OnlyDeclaredWarningsAreSilenced
<1>1. Init => AnswersAreDeclared
  <2> SUFFICES ASSUME Init PROVE AnswersAreDeclared
    OBVIOUS
  <2>1. answers = {} /\ DOMAIN processed = {}
    BY DEF Init
  <2>2. \A f \in Files : Unspent[f] = DeclaredBare(f)
    BY <2>1 DEF Unspent, DeclaredBare
  <2> QED BY <2>1, <2>2 DEF AnswersAreDeclared
<1>2. SInv /\ AnswersAreDeclared /\ [Next]_vars => AnswersAreDeclared'
  <2> SUFFICES ASSUME SInv, AnswersAreDeclared, [Next]_vars PROVE AnswersAreDeclared'
    OBVIOUS
  <2>1. ASSUME NEW q \in Questions, AtOnce!NotInAFile(q) PROVE AnswersAreDeclared'
    <3>1. /\ q.file \notin Files /\ q \in Query /\ FALSE \in BOOLEAN
          /\ answers' = answers \cup {[query |-> q, suppressed |-> FALSE]}
          /\ source' = source /\ Unspent' = Unspent
      BY <2>1, NoFileAssumption, QuestionsAssumption
         DEF AtOnce!NotInAFile, AtOnce!AnswerWith, Unspent
    <3>2. \A f \in Files : Unspent'[f] \subseteq Unspent[f]
      BY <3>1
    <3> QED BY <3>1, <3>2, OneAnswer
  <2>2. ASSUME NEW q \in Questions, AtOnce!InAFile(q) PROVE AnswersAreDeclared'
    <3> DEFINE cs == LexedComments(source[q.file])
               u == Unspent[q.file]
               suppressed == Silenced(cs, u, q.check, q.line)
               spends == SpendsBareNolint(cs, u, q.check, q.line)
    <3>1. /\ q.file \in Files /\ q \in Query /\ source' = source
          /\ answers' = answers \cup {[query |-> q, suppressed |-> suppressed]}
          /\ Unspent' = IF spends THEN [Unspent EXCEPT ![q.file] = @ \ {q.line}] ELSE Unspent
      BY <2>2, SameWords, QuestionsAssumption DEF AtOnce!InAFile, AtOnce!AnswerWith, Unspent
    <3>2. suppressed \in BOOLEAN
      BY DEF Silenced
    <3>3. suppressed <=> q.line \in u \/ SilencedAnyway(q)
      BY BareOrAnyway DEF SilencedAnyway
    <3> HIDE DEF cs, u, suppressed, spends
    <3>4. \A f \in Files : Unspent'[f] \subseteq Unspent[f]
      BY <3>1 DEF Unspent
    <3>5. suppressed <=> q.line \in Unspent[q.file] \/ SilencedAnyway(q)
      BY <3>3 DEF u
    <3> QED BY <3>1, <3>2, <3>4, <3>5, OneAnswer
  <2>3. CASE source' = source /\ answers' = answers /\ Unspent' = Unspent
    BY <2>3 DEF AnswersAreDeclared, DeclaredBare, SilencedAnyway
  <2> QED BY <2>1, <2>2, <2>3, AnswersStep
<1>3. SInv /\ AnswersAreDeclared => OnlyBareNolintsAreSpent
  <2> SUFFICES ASSUME SInv, AnswersAreDeclared, NEW a \in answers, NEW b \in answers,
                      a.query = b.query, a.suppressed # b.suppressed
               PROVE  a.query.line \in BareLines(LexedComments(source[a.query.file]))
    BY DEF OnlyBareNolintsAreSpent
  <2>1. a.suppressed \in BOOLEAN /\ b.suppressed \in BOOLEAN
    BY DEF SInv, TypeOK, Answer
  <2>2. a.query.file \in Files
    BY <2>1 DEF AnswersAreDeclared
  <2> QED BY <2>1, <2>2 DEF AnswersAreDeclared, DeclaredBare
<1>4. SInv /\ AnswersAreDeclared => EverySilenceIsDeclared
  <2> SUFFICES ASSUME SInv, AnswersAreDeclared, NEW a \in answers, a.suppressed
               PROVE  /\ a.query.file \in Files
                      /\ IsDeclaredSilent(LexedComments(source[a.query.file]),
                                          a.query.check, a.query.line)
    BY DEF EverySilenceIsDeclared
  <2> DEFINE q == a.query
             cs == LexedComments(source[q.file])
  <2>1. q.file \in Files
    BY DEF AnswersAreDeclared
  <2>2. q.line \in Line
    BY DEF SInv, TypeOK, Answer
  <2>3. cs \in Seq(Comment)
    <3>1. source[q.file] \in Content
      BY <2>1 DEF SInv, TypeOK
    <3> QED BY <3>1, LexedType
  <2>4. q.line \in BareLines(cs) \/ Silenced(cs, {}, q.check, q.line)
    BY <2>1 DEF AnswersAreDeclared, DeclaredBare, SilencedAnyway
  <2>5. IsDeclaredSilent(cs, q.check, q.line)
    BY <2>2, <2>3, <2>4, SilencedIsDeclared
  <2> QED BY <2>1, <2>5
<1>5. Spec => []SInv
  BY TypeCorrect, ScanDeclares, RecordsSilence, PTL DEF SInv
<1>6. SInv /\ AnswersAreDeclared => OnlyDeclaredWarningsAreSilenced
  BY <1>3, <1>4 DEF OnlyDeclaredWarningsAreSilenced
<1> QED BY <1>1, <1>2, <1>5, <1>6, PTL DEF Spec
=============================================================================
