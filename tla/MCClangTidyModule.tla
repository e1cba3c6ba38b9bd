-------------------------- MODULE MCClangTidyModule --------------------------
(* Three files of one clang-tidy process, one of them generated, and four    *)
(* checks, two of which hear the preprocessor.                             *)
EXTENDS ClangTidyModule

MCChecks == {"qgetenv", "qt-macros", "foreach", "qt-keywords"}
MCCallbackChecks == {"qt-macros", "qt-keywords"}

Ordinary == [id |-> 1, qmlcache |-> FALSE]
Second == [id |-> 2, qmlcache |-> FALSE]
Generated == [id |-> 3, qmlcache |-> TRUE]

ThreeFiles == {Ordinary, Second, Generated}
=============================================================================
