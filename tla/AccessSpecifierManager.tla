----------------------- MODULE AccessSpecifierManager -----------------------
(***************************************************************************)
(* AccessSpecifierManager.cpp: which methods of a class are signals, slots   *)
(* or invokable.  The preprocessor sees "signals", "slots" and the macros     *)
(* before a single method while the file is parsed; the access specifiers    *)
(* of C++ come with the AST, class by class; both are merged in the order of  *)
(* their source locations, and a method belongs to the last one before it.   *)
(*                                                                         *)
(* A file is a sequence of tokens, and a location the position of a token.   *)
(* A class is known by the position of its first token.  The blanks at the   *)
(* start of a line, and comments, are tokens of kind "indentation".          *)
(***************************************************************************)
EXTENDS Naturals, Sequences, SequencesExt, FiniteSets, FiniteSetsExt

CONSTANT Sources    \* the files the instance looks at

ClassTokens == {"qobject", "class"}
QtTokens == {"signals", "slots"}
SpecifierTokens == {"public", "private", "signals"}    \* Q_SIGNALS hides a "public"
SectionTokens == QtTokens \cup SpecifierTokens
MarkTokens == {"Q_SIGNAL", "Q_SLOT", "Q_INVOKABLE", "Q_SCRIPTABLE"}
MethodTokens == {"method", "expandedMethod"}
Tokens == ClassTokens \cup SectionTokens \cup MarkTokens \cup MethodTokens \cup {"indentation", "end"}

\* The tokens between the first and the last one of a class are balanced.
Balanced(s, c, e) ==
    /\ c < e
    /\ Cardinality({p \in c..e : s[p] \in ClassTokens}) = Cardinality({p \in c..e : s[p] = "end"})

\* A class ends where it is closed: the files are those that were parsed.
ASSUME SourcesAssumption ==
    /\ Sources \subseteq Seq(Tokens)
    /\ \A s \in Sources : \A c \in DOMAIN s :
          s[c] \in ClassTokens => \E e \in DOMAIN s : Balanced(s, c, e)

VARIABLES
    source,             \* the file
    visitsNonQObjects,  \* fixes are exported and CLAZY_ACCESSSPECIFIER_NON_QOBJECT is set
    next,               \* the next token, of the preprocessor, then of the AST
    parsed,             \* the preprocessor is through
    qtAccessSpecifiers, \* sections of the preprocessor that no class has taken
    marked,             \* the locations of single methods, by macro
    specifiersMap       \* the sections of the visited classes

vars == <<source, visitsNonQObjects, next, parsed, qtAccessSpecifiers, marked, specifiersMap>>

Positions == DOMAIN source
At(p) == source[p]

\* The access specifier hidden in the expansion of a macro has the file
\* location of the macro.
Location == [pos : Nat, isMacroID : BOOLEAN]
Specifier == [loc : Location, access : {"none", "public", "private"}, qt : {"none", "slot", "signal"}]

FileLoc(p) == [pos |-> p, isMacroID |-> FALSE]
MacroLoc(p) == [pos |-> p, isMacroID |-> TRUE]

Classes == {p \in Positions : At(p) \in ClassTokens}
EndOf(c) == Min({e \in Positions : Balanced(source, c, e)})
Encloses(c, p) == c < p /\ p < EndOf(c)

\* The class a token is declared in.
Parent(p) == Max({c \in Classes : Encloses(c, p)})
Members(c) == {p \in Positions : Encloses(c, p) /\ Parent(p) = c}

Visited == DOMAIN specifiersMap

TypeOK ==
    /\ source \in Sources
    /\ next \in 1..Len(source) + 1
    /\ {visitsNonQObjects, parsed} \subseteq BOOLEAN
    /\ qtAccessSpecifiers \in Seq(Specifier)
    /\ marked \in [MarkTokens -> SUBSET Nat]
    /\ Visited \subseteq Classes
    /\ \A c \in Visited : specifiersMap[c] \in Seq(Specifier)

-----------------------------------------------------------------------------
(* The order of the sections.                                              *)

\* Mutant: only the file location counts.
accessSpecifierCompare_FileOnly(lhs, rhs) == lhs.loc.pos < rhs.loc.pos

accessSpecifierCompare(lhs, rhs) ==
    \/ lhs.loc.pos < rhs.loc.pos
    \/ lhs.loc.pos = rhs.loc.pos /\ lhs.loc.isMacroID

\* std::upper_bound on a sequence in that order.
UpperBound(v, item) ==
    Min({i \in DOMAIN v : accessSpecifierCompare(item, v[i])} \cup {Len(v) + 1})

sorted_insert(v, item) == InsertAt(v, UpperBound(v, item), item)

-----------------------------------------------------------------------------
(* AccessSpecifierPreprocessorCallbacks.                                   *)

\* The callback does nothing for a macro in the expansion of another.
Pushed(specifiers, location, section) ==
    IF location.isMacroID THEN specifiers
    ELSE Append(specifiers, [loc |-> location, access |-> "none", qt |-> section])

\* Mutant: the location of the macro itself.
locForNextToken_Same(p) == p

\* What follows the macro: blanks of the same line and one line break are
\* skipped, and nothing else.
locForNextToken(p) == p + 1

\* Mutant: a section that is not "slots" is unknown.
QtSection_Unknown(token) == IF token = "slots" THEN "slot" ELSE "unknown"

QtSection(token) == IF token = "slots" THEN "slot" ELSE "signal"

\* "signals" and "slots" are macros for Q_SIGNALS and Q_SLOTS: the callback
\* comes for both, the second time at a location inside of the first macro.
MacroExpands ==
    /\ ~parsed
    /\ next \in Positions
    /\ next' = next + 1
    /\ IF At(next) \in QtTokens
       THEN qtAccessSpecifiers' = Pushed(Pushed(qtAccessSpecifiers, FileLoc(next), QtSection(At(next))),
                                         MacroLoc(next), QtSection(At(next)))
       ELSE UNCHANGED qtAccessSpecifiers
    /\ IF At(next) \in MarkTokens
       THEN marked' = [marked EXCEPT ![At(next)] = @ \cup {locForNextToken(next)}]
       ELSE UNCHANGED marked
    /\ UNCHANGED <<source, visitsNonQObjects, parsed, specifiersMap>>

-----------------------------------------------------------------------------
(* VisitDeclaration, for the classes of the AST in the order of the file.   *)

Visits(c) == At(c) = "qobject" \/ visitsNonQObjects

\* classDefinitionForLoc(loc) = record: it looks through the classes visited
\* so far and this one.  Only this one can contain a section that is left,
\* for an outer class that was visited took its sections with it.
TakenBy(c, spec) == Encloses(c, spec.loc.pos)

\* The loop over the sections that are left: those of the class go to its
\* specifiers.
Fetched(c) ==
    LET loop[n \in 0..Len(qtAccessSpecifiers)] ==
          IF n = 0 THEN [specifiers |-> << >>, left |-> << >>]
          ELSE IF TakenBy(c, qtAccessSpecifiers[n])
          THEN [loop[n - 1] EXCEPT !.specifiers = sorted_insert(@, qtAccessSpecifiers[n])]
          ELSE [loop[n - 1] EXCEPT !.left = Append(@, qtAccessSpecifiers[n])]
    IN loop[Len(qtAccessSpecifiers)]

AccessSpecDecl(p) ==
    [loc |-> IF At(p) = "signals" THEN MacroLoc(p) ELSE FileLoc(p),
     access |-> IF At(p) = "private" THEN "private" ELSE "public", qt |-> "none"]

\* The AccessSpecDecls of the record itself come behind those.
Merged(c) ==
    LET added[p \in c..Len(source)] ==
          IF p = c THEN Fetched(c).specifiers
          ELSE IF p \in Members(c) /\ At(p) \in SpecifierTokens
          THEN sorted_insert(added[p - 1], AccessSpecDecl(p))
          ELSE added[p - 1]
    IN added[Len(source)]

VisitDeclaration ==
    /\ parsed
    /\ next \in Positions
    /\ next' = next + 1
    /\ IF next \in Classes /\ Visits(next)
       THEN /\ specifiersMap' = [c \in Visited \cup {next} |->
                                    IF c = next THEN Merged(c) ELSE specifiersMap[c]]
            /\ qtAccessSpecifiers' = Fetched(next).left
       ELSE UNCHANGED <<specifiersMap, qtAccessSpecifiers>>
    /\ UNCHANGED <<source, visitsNonQObjects, parsed, marked>>

\* HandleTranslationUnit starts the traversal when the file is parsed.
EndOfFile ==
    /\ ~parsed
    /\ next \notin Positions
    /\ parsed' = TRUE
    /\ next' = 1
    /\ UNCHANGED <<source, visitsNonQObjects, qtAccessSpecifiers, marked, specifiersMap>>

-----------------------------------------------------------------------------
(* What the checks ask.                                                    *)

\* The section one before the upper bound.
SectionBefore(specs, method) ==
    LET i == UpperBound(specs, [loc |-> FileLoc(method)]) IN
      IF i = 1 THEN "none" ELSE specs[i - 1].qt

qtAccessSpecifierType(method) ==
    IF At(method) = "expandedMethod" THEN "unknown"
    ELSE IF method \in marked["Q_SIGNAL"] THEN "signal"
    ELSE IF method \in marked["Q_SLOT"] THEN "slot"
    ELSE IF method \in marked["Q_INVOKABLE"] THEN "invokable"
    ELSE IF Parent(method) \notin Visited THEN "none"
    ELSE SectionBefore(specifiersMap[Parent(method)], method)

isScriptable(method) == At(method) # "expandedMethod" /\ method \in marked["Q_SCRIPTABLE"]

-----------------------------------------------------------------------------
Init ==
    /\ source \in Sources
    /\ visitsNonQObjects \in BOOLEAN
    /\ next = 1
    /\ parsed = FALSE
    /\ qtAccessSpecifiers = << >>
    /\ marked = [m \in MarkTokens |-> {}]
    /\ specifiersMap = << >>

Next == MacroExpands \/ EndOfFile \/ VisitDeclaration

Spec == Init /\ [][Next]_vars

-----------------------------------------------------------------------------
(* Properties.  What a method is, read off the file alone.                  *)

\* The macros before a method, with indentation and other macros between.
MarksBefore(method) ==
    {p \in 1..method - 1 : /\ At(p) \in MarkTokens
                           /\ \A i \in p..method - 1 : At(i) \in MarkTokens \cup {"indentation"}}

Marks(method) == {At(p) : p \in MarksBefore(method)}

LastSection(method) ==
    LET before == {p \in Members(Parent(method)) : p < method /\ At(p) \in SectionTokens} IN
      IF before = {} THEN "private" ELSE At(Max(before))

DeclaredType(method) ==
    IF "Q_SIGNAL" \in Marks(method) THEN "signal"
    ELSE IF "Q_SLOT" \in Marks(method) THEN "slot"
    ELSE IF "Q_INVOKABLE" \in Marks(method) THEN "invokable"
    ELSE IF LastSection(method) = "signals" THEN "signal"
    ELSE IF LastSection(method) = "slots" THEN "slot"
    ELSE "none"

MethodsOf(c) == {p \in Members(c) : At(p) = "method"}

\* Nothing but one line break is between the method and its only macro.
MarksAreAdjacent(method) == MarksBefore(method) \subseteq {method - 1}

HasQtSections(c) == \E p \in Members(c) : At(p) \in QtTokens

\* The class has the Qt sections of a nested one, or its own have been taken by
\* a class around it.
NestedSectionsMoved(c) ==
    \E d \in Classes : \/ Encloses(c, d) /\ HasQtSections(d)
                       \/ Encloses(d, c) /\ d \in Visited /\ HasQtSections(c)

\* From the moment its class was visited, a method is a signal, a slot or
\* invokable exactly when the file declares it as one: whatever came before
\* it in the file, other classes and nested ones included.  Only the sections
\* of a nested class and a macro that is not adjacent may get in the way.
TypeIsTheDeclaredOne ==
    \A c \in Visited : \A m \in MethodsOf(c) :
        MarksAreAdjacent(m) /\ ~NestedSectionsMoved(c) => qtAccessSpecifierType(m) = DeclaredType(m)

\* An adjacent Q_SCRIPTABLE before a method is recognised, and no other
\* method is taken for a scriptable one.
ScriptableIsSeen ==
    parsed => \A c \in Classes : \A m \in MethodsOf(c) :
        /\ isScriptable(m) => "Q_SCRIPTABLE" \in Marks(m)
        /\ MarksAreAdjacent(m) /\ "Q_SCRIPTABLE" \in Marks(m) => isScriptable(m)

-----------------------------------------------------------------------------
(* What the documentation says, and the code does not do.                  *)

\* AccessSpecifierManager.h:63: qtAccessSpecifierType "Returns if a method is a
\* signal, a slot, or neither", the methods behind a nested class included.
NestedSectionsStayNested ==
    \A c \in Visited : \A m \in MethodsOf(c) :
        MarksAreAdjacent(m) => qtAccessSpecifierType(m) = DeclaredType(m)
=============================================================================
