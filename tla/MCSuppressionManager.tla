------------------------ MODULE MCSuppressionManager ------------------------
(***************************************************************************)
(* The file contents SuppressionManager is checked with: every sequence of  *)
(* a few comments out of a small alphabet.                                  *)
(***************************************************************************)
EXTENDS SuppressionManager, TLC

CONSTANTS a, b, f1, f2     \* two checks and two files

Plain == [line |-> 1, nolint |-> "none", text |-> <<>>, skip |-> FALSE,
          excludeall |-> {}, exclude |-> {}, excludeNextLine |-> {}]

Clazy(glob)  == [clazyPrefix |-> TRUE, afterSpace |-> FALSE, glob |-> glob]
Spaced(glob) == [clazyPrefix |-> TRUE, afterSpace |-> TRUE, glob |-> glob]
Foreign      == [clazyPrefix |-> FALSE, afterSpace |-> FALSE, glob |-> {}]

Nolint(kind, text) == [Plain EXCEPT !.nolint = kind, !.text = text]

\* All contents with at most n comments out of the alphabet A, in line order.
UpTo(n, A, lines, flags) ==
    {[readable |-> fl[1], comments |-> cs, endsInComment |-> fl[2]] :
        fl \in flags,
        cs \in {x \in UNION {[1..k -> {[c EXCEPT !.line = l] : c \in A, l \in lines}] : k \in 0..n} :
                  InLineOrder(x)}}

-----------------------------------------------------------------------------
\* The directives that speak for a file or a line, all that interact.
LineAlphabet ==
    {[Plain EXCEPT !.skip = TRUE],
     [Plain EXCEPT !.excludeall = {a}],
     [Plain EXCEPT !.exclude = {a}, !.excludeNextLine = {b}],
     [Plain EXCEPT !.excludeNextLine = {b}],
     Nolint("plain", <<>>),
     Nolint("nextline", <<>>),
     [Nolint("plain", <<Foreign, Clazy({a})>>) EXCEPT !.excludeall = {b}],
     Nolint("nextline", <<Clazy({b}), Spaced({a}), Clazy({a, b})>>)}

LineContents == UpTo(2, LineAlphabet, 1..2, {<<TRUE, FALSE>>})
    \cup UpTo(1, LineAlphabet, {1}, {<<TRUE, TRUE>>, <<FALSE, FALSE>>})

\* Regions: begins and ends with equal and different lists, a line rule and a
\* directive inside them.  A comment's line is its position.
NestedAlphabet ==
    {Nolint("begin", <<>>), Nolint("end", <<>>),
     Nolint("begin", <<Clazy({a})>>), Nolint("end", <<Clazy({a})>>)}

RegionAlphabet ==
    NestedAlphabet
    \cup {Nolint("begin", <<Foreign>>), Nolint("end", <<Foreign>>),
          Nolint("plain", <<Clazy({b})>>),
          [Plain EXCEPT !.skip = TRUE]}

RegionContents ==
    {[readable |-> TRUE, endsInComment |-> FALSE,
      comments |-> [i \in DOMAIN w |-> [w[i] EXCEPT !.line = i]]] :
        w \in (UNION {[1..k -> RegionAlphabet] : k \in 0..3}) \cup [1..4 -> NestedAlphabet]}

\* A directive for the next line, on the last line.
LastLine == UpTo(1, {[Plain EXCEPT !.excludeNextLine = {b}]}, {MaxLine}, {<<TRUE, FALSE>>})

\* Two files: what each of them needs to interfere with the other.
OneComment ==
    UpTo(1, {Nolint("plain", <<>>), [Plain EXCEPT !.exclude = {a}], [Plain EXCEPT !.skip = TRUE]},
         {1}, {<<TRUE, FALSE>>})

NoComments == [readable |-> TRUE, comments |-> <<>>, endsInComment |-> FALSE]

SomeSources ==
    {(f1 :> c) @@ (f2 :> NoComments) : c \in LineContents \cup RegionContents \cup LastLine}
    \cup {(f1 :> c) @@ (f2 :> d) : c \in OneComment, d \in OneComment}

-----------------------------------------------------------------------------
\* The questions.  Only the lines that a comment can speak for differ.
Ask(checks, files, lines) == [check : checks, file : files, line : lines]

SomeQuestions ==
    Ask({a, b}, {f1}, {1, 2}) \cup Ask({a}, {f1}, {3}) \cup Ask({a}, {f2, NoFile}, {1})

-----------------------------------------------------------------------------
\* The comments of README.md:474, :484 and :488 and of the tests; the second file
\* has no newline at its end.
DocumentedSources ==
    {(f1 :> [readable |-> TRUE, endsInComment |-> FALSE,
             comments |-> <<[Plain EXCEPT !.exclude = {a}],
                            [Nolint("plain", <<>>) EXCEPT !.line = 3],
                            [Nolint("nextline", <<Clazy({b}), Spaced({a})>>) EXCEPT !.line = 4]>>])
     @@ (f2 :> [readable |-> TRUE, endsInComment |-> TRUE,
                comments |-> <<[Plain EXCEPT !.skip = TRUE]>>])}

DocumentedQuestions == Ask({a, b}, {f1}, {2, 3, 5}) \cup Ask({a}, {f2}, {1})
=============================================================================
