------------------------- MODULE MCWarningEmission -------------------------
(***************************************************************************)
(* Two checks, a main file and a header, one line each; every configuration *)
(* switches on one of the options, or two that interact.                    *)
(***************************************************************************)
EXTENDS WarningEmission, TLC

CONSTANTS a, b, main, header

Plain == [line |-> 1, nolint |-> "none", text |-> <<>>, skip |-> FALSE,
          excludeall |-> {}, exclude |-> {}, excludeNextLine |-> {}]

File(cs) == [readable |-> TRUE, comments |-> cs, endsInComment |-> FALSE]

SomeContents ==
    {File(<<>>),
     File(<<[Plain EXCEPT !.nolint = "plain"]>>),
     File(<<[Plain EXCEPT !.exclude = {a}]>>)}

\* Comments in the main file, in the header, or in neither.
SomeSources ==
    {(main :> c) @@ (header :> File(<<>>)) : c \in SomeContents}
    \cup {(main :> File(<<>>)) @@ (header :> c) : c \in SomeContents}

NoComments == {[f \in Files |-> File(<<>>)]}

NoFilter == [isArray |-> FALSE, items |-> {}]

Default == [ignoreDirs |-> NoRegex, headerFilter |-> NoRegex, lineFilter |-> NoFilter,
            checksAsErrors |-> {}, warningsAsErrors |-> FALSE, noWerror |-> FALSE,
            isClangTidy |-> FALSE]

Item(files, lines) == [isObject |-> TRUE, hasName |-> TRUE, files |-> files, lines |-> lines]

Lines(s, e) == [twoIntegers |-> TRUE, start |-> s, end |-> e]

Filter(items) == [isArray |-> TRUE, items |-> items]

NoLines == [twoIntegers |-> FALSE, start |-> 0, end |-> 0]

LineFilters ==
    {Filter({Item({main}, {Lines(1, 1)})}),
     Filter({Item({main, header}, {Lines(0, 0), Lines(2, 3)})}),
     Filter({Item({header}, {}), [Item({main}, {}) EXCEPT !.hasName = FALSE]}),
     Filter({Item({main}, {NoLines})}),
     Filter({Item({main, header}, {Lines(1, -1)})}),
     Filter({})}

FilterConfigs ==
    {Default,
     [Default EXCEPT !.ignoreDirs = {header}, !.headerFilter = {header}],
     [Default EXCEPT !.ignoreDirs = {main}],
     [Default EXCEPT !.headerFilter = {}]}
    \cup {[Default EXCEPT !.lineFilter = f] : f \in LineFilters}

SeverityConfigs ==
    {[Default EXCEPT !.checksAsErrors = e, !.warningsAsErrors = w, !.noWerror = n,
                     !.isClangTidy = t] :
        e \in {{}, {a}}, w \in BOOLEAN, n \in BOOLEAN, t \in BOOLEAN}

SomeConfigs == FilterConfigs \cup SeverityConfigs

OneLineConfigs == {[Default EXCEPT !.lineFilter = Filter({Item({main}, {Lines(1, 1)})})]}
=============================================================================
