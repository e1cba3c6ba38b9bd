--------------------------- MODULE MCCheckManager ---------------------------
(***************************************************************************)
(* A check of level0 with a fixit, one of level1, one of level2 and a       *)
(* manual one.  Lists have up to two items, a request up to three           *)
(* arguments, the level before or behind the list.                         *)
(***************************************************************************)
EXTENDS CheckManager, TLC

CONSTANTS c0, c1, c2, manual, fix0

FourLevels == (c0 :> 0) @@ (c1 :> 1) @@ (c2 :> 2) @@ (manual :> 3)

OneFixit == [c \in Checks |-> IF c = c0 THEN {fix0} ELSE {}]

Named1(n) == [kind |-> "name", name |-> n, level |-> CheckLevelUndefined]

No(n) == [kind |-> "no", name |-> n, level |-> CheckLevelUndefined]

SomeItems ==
    {Named1(n) : n \in {c0, manual, fix0, NoName}}
    \cup {No(n) : n \in {c0, fix0}}
    \cup {LevelName(n) : n \in {0, 2, 3}}

Pairs(items) == {<<i>> : i \in items} \cup {<<i, j>> : i \in items, j \in items}

SomeEnvs ==
    {NoEnv, AllChecks, <<>>} \cup Pairs({Named1(c0), Named1(manual), No(c0), No(fix0), LevelName(1)})

SomeLists == {<<>>} \cup Pairs(SomeItems)

SomeArgs ==
    {<<>>} \cup {<<l>> : l \in SomeLists}
    \cup {<<<<LevelName(n)>>, <<i>>>> : n \in {0, 1}, i \in SomeItems}
    \cup {<<<<i>>, <<LevelName(1)>>>> : i \in SomeItems}
    \cup {<<<<No(c0)>>, <<LevelName(1)>>, <<LevelName(0)>>>>,
          <<<<LevelName(1)>>, <<LevelName(0)>>>>,
          <<<<Named1(c0)>>, <<Named1(manual)>>>>}
=============================================================================
