------------------------- MODULE SuppressionAnswers -------------------------
(***************************************************************************)
(* The answers of SuppressionManager as its callers see them: every question *)
(* "is this check silenced at this place?" is answered at once from the      *)
(* comments of the file, as clazy reads them.  The only thing a question      *)
(* changes is the bare NOLINT of its line, which one warning uses up.       *)
(***************************************************************************)
EXTENDS SuppressionComments

VARIABLES
    source,     \* the content of each file
    unspent,    \* the bare NOLINT lines of each file not used up so far
    answers     \* the questions answered so far, with their answers

vars == <<source, unspent, answers>>

Init ==
    /\ source \in Sources
    /\ unspent = [f \in Files |-> BareLines(LexedComments(source[f]))]
    /\ answers = {}

AnswerWith(q, suppressed) ==
    answers' = answers \cup {[query |-> q, suppressed |-> suppressed]}

NotInAFile(q) ==
    /\ q.file = NoFile
    /\ AnswerWith(q, FALSE)
    /\ UNCHANGED <<source, unspent>>

InAFile(q) ==
    LET cs == LexedComments(source[q.file]) IN
    /\ q.file \in Files
    /\ AnswerWith(q, Silenced(cs, unspent[q.file], q.check, q.line))
    /\ unspent' = IF SpendsBareNolint(cs, unspent[q.file], q.check, q.line)
                  THEN [unspent EXCEPT ![q.file] = @ \ {q.line}]
                  ELSE unspent
    /\ UNCHANGED source

Next == \E q \in Questions : NotInAFile(q) \/ InAFile(q)

Spec == Init /\ [][Next]_vars
=============================================================================
