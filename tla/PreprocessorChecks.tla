-------------------------- MODULE PreprocessorChecks -------------------------
(***************************************************************************)
(* The checks that listen to the preprocessor (ClazyPreprocessorCallbacks):    *)
(* what they say of a directive, and what they keep for the walk, which       *)
(* begins when the last directive is behind.  A directive is                *)
(*   event    what clang calls: "expands", "defined", "define", "ifndef", ... *)
(*   macro    the macro, for #ifndef and what may follow it letter by letter  *)
(*   text     the words of its arguments, each a sequence of symbols; the     *)
(*            path of an #include                                           *)
(*   tabs     the words that only a tab or a line break separates from the    *)
(*            word before                                                   *)
(*   at       the node that it is in front of                               *)
(*   is       what else is known of it                                      *)
(***************************************************************************)
EXTENDS ConnectChecks

VARIABLES
    m_lastIsGadget,             \* QPropertyWithoutNotify
    m_lastIfndef,               \* IfndefDefineTypo: <<>> is none
    m_qproperties,              \* QPropertyTypeMismatch
    m_typedefMap,               \*   types by their names
    m_qgadgetMacroLocations,    \* FullyQualifiedMocTypes
    m_hasInsertedInclude        \* UseChronoInQTimer

Expands(d, macro) == d.event = "expands" /\ d.macro = macro

\* A location between the beginning and the end of a class.
IsInside(at, record) == at > record /\ at < record + tree[record].size

-----------------------------------------------------------------------------
(* qproperty-without-notify                                                *)

\* Q_GADGET holds until the next Q_OBJECT, through the end of the class.
LastIsGadgetAfter(d) ==
    IF Expands(d, "Q_GADGET") THEN TRUE ELSE IF Expands(d, "Q_OBJECT") THEN FALSE ELSE m_lastIsGadget

\* The text is split at blanks: a word with a tab in front of it is no word of
\* its own, and neither is the one before it.
IsSplitOff(d, word) == \E k \in DOMAIN d.text : d.text[k] = word /\ {k, k + 1} \cap d.tabs = {}

QPropertyWithoutNotify_VisitMacroExpands(d) ==
    WarnIf(/\ Expands(d, "Q_PROPERTY") /\ ~m_lastIsGadget
           /\ tree[d.at].place # "system"
           /\ IsSplitOff(d, <<"READ">>) /\ ~IsSplitOff(d, <<"CONSTANT">>) /\ ~IsSplitOff(d, <<"NOTIFY">>),
           d.at, "no NOTIFY")

-----------------------------------------------------------------------------
(* ifndef-define-typo                                                      *)

\* The columns of the table, each made from the one before.
levenshtein_distance(s1, s2) ==
    LET column[x \in 0..Len(s2)] ==
            LET cell[y \in 0..Len(s1)] ==
                    IF x = 0 THEN y ELSE IF y = 0 THEN x
                    ELSE Min({column[x - 1][y] + 1, cell[y - 1] + 1,
                              column[x - 1][y - 1] + (IF s1[y] = s2[x] THEN 0 ELSE 1)})
            IN cell
    IN column[Len(s2)][Len(s1)]

\* What may be defined under an #ifndef of Q_CONSTRUCTOR_FUNCTION.
Q_CONSTRUCTOR_FUNCTION == <<"Q", "C", "F">>

MacroNamed == {"define", "defined"}
EndsIfndef == {"ifdef", "if", "elif", "else", "endif"}

IfndefDefineTypo_maybeWarn(d) ==
    WarnIf(/\ d.event \in MacroNamed /\ m_lastIfndef # <<>>
           /\ m_lastIfndef # Q_CONSTRUCTOR_FUNCTION
           /\ d.macro # m_lastIfndef /\ Len(d.macro) >= 4
           /\ levenshtein_distance(d.macro, m_lastIfndef) < 3, d.at, "possible typo")

LastIfndefAfter(d) ==
    IF d.event = "ifndef" THEN d.macro
    ELSE IF d.event \in EndsIfndef THEN <<>>
    ELSE IF d.event \in MacroNamed /\ d.macro = m_lastIfndef /\ m_lastIfndef # Q_CONSTRUCTOR_FUNCTION THEN <<>>
    ELSE m_lastIfndef

-----------------------------------------------------------------------------
(* qproperty-type-mismatch: Q_PROPERTY(type name READ f WRITE g NOTIFY h).    *)

Modifiers == {"*", "&"}

\* The word behind a keyword; the last one counts.  Such a word is no keyword.
Roles(text) ==
    LET expects[k \in 0..Len(text)] ==
            IF k = 0 \/ expects[k - 1] # "" THEN ""
            ELSE IF text[k] \in {<<"READ">>, <<"WRITE">>, <<"NOTIFY">>} THEN text[k][1] ELSE ""
        given(role) == {k \in DOMAIN text : expects[k - 1] = role}
    IN [role \in {"READ", "WRITE", "NOTIFY"} |-> IF given(role) = {} THEN <<>> ELSE text[Max(given(role))]]
       @@ [member |-> \E k \in given("") : text[k] = <<"MEMBER">>]

\* The type is the first word and the modifiers behind it, those that are
\* written to the name included.
ParseProperty(d) ==
    LET name == Min({k \in DOMAIN d.text \ {1} : d.text[k] \notin {<<m>> : m \in Modifiers}})
        word == d.text[name]
        letters == Min({k \in DOMAIN word : word[k] \notin Modifiers})
        type[k \in 0..name - 1] == IF k = 0 THEN <<>> ELSE type[k - 1] \o d.text[k]
    IN Roles(d.text) @@ [loc |-> d.at, type |-> type[name - 1] \o SubSeq(word, 1, letters - 1),
                         name |-> SubSeq(word, letters, Len(word))]

PropertiesAfter(d) ==
    IF Expands(d, "Q_PROPERTY") /\ Len(d.text) >= 2 THEN m_qproperties \cup {ParseProperty(d)} ELSE m_qproperties

\* The canonical type as it is printed, without references and the const of a
\* value; nothing separates the words.
cleanupType(t, unscoped) ==
    LET name == IF unscoped THEN ShortName(t.name) ELSE t.name
        const == "pointer" \in t.is /\ "const" \in t.is
    IN (IF const THEN <<"const">> ELSE <<>>) \o <<name>> \o (IF "pointer" \in t.is THEN <<"*">> ELSE <<>>)

typesMatch(written, t) ==
    \/ written = cleanupType(t, FALSE)
    \/ IF written \in DOMAIN m_typedefMap THEN cleanupType(m_typedefMap[written], FALSE) = cleanupType(t, FALSE)
       ELSE written = cleanupType(t, TRUE)

\* A typedef is known by its qualified and by its own name; the last one counts.
TypedefMapAfter(i) ==
    IF Kind(i) # "TypedefDecl" THEN m_typedefMap
    ELSE (<<Attr(i, "qualified", Name(i))>> :> TypeOf(i)) @@ (<<Attr(i, "short", Name(i))>> :> TypeOf(i)) @@ m_typedefMap

\* Those of a class inside are taken for its own.
PropertiesOf(record) == {p \in m_qproperties : IsInside(p.loc, record)}

checkMethodAgainstProperty(p, i) ==
    LET f == FunctionOf(i)
        mismatch == f.params # <<>> /\ ~typesMatch(p.type, f.params[1])
    IN IF p.READ = <<f.name>> THEN WarnIf(~typesMatch(p.type, f.returns), i, "return type")
       ELSE IF p.WRITE = <<f.name>>
       THEN IF f.params = <<>> THEN Warn(i, "no parameter") ELSE WarnIf(Len(f.params) = 1 /\ mismatch, i, "parameter type")
       ELSE WarnIf(/\ p.NOTIFY = <<f.name>> /\ Len(f.params) \in 1..2 /\ mismatch
                   /\ f.params[1].name # "QPrivateSignal", i, "signal parameter type")

\* What MEMBER names is not looked at: the member has to have the name of the
\* property.
checkFieldAgainstProperty(p, i) ==
    WarnIf(p.member /\ p.name = <<Name(i)>> /\ ~typesMatch(p.type, TypeOf(i)), i, "member type")

QPropertyTypeMismatch_VisitDecl(i) ==
    IF Kind(i) \in Methods /\ ~IsOutOfLine(i)
    THEN UNION {checkMethodAgainstProperty(p, i) : p \in PropertiesOf(DeclContext(i))}
    ELSE IF Kind(i) = "FieldDecl"
    THEN UNION {checkFieldAgainstProperty(p, i) : p \in PropertiesOf(DeclContext(i))}
    ELSE Silence
-----------------------------------------------------------------------------
(* fully-qualified-moc-types.  What is written is a sequence of names and    *)
(* signs, without qualifiers and the outer * or &.                          *)

registerQ_GADGET(d) ==
    IF Expands(d, "Q_GADGET") THEN m_qgadgetMacroLocations \cup {d.at} ELSE m_qgadgetMacroLocations

\* That of a class inside counts, too.
isGadget(record) == record # 0 /\ \E at \in m_qgadgetMacroLocations : IsInside(at, record)

Spelled(t) == IF "written" \in DOMAIN t THEN t.written ELSE <<t.name>>

\* A type and its template arguments, and theirs.
TypesIn(t) == {t} \cup UNION {{a} \cup SetOf(TemplateArgs(a)) : a \in SetOf(TemplateArgs(t))}

\* Enums, also through an alias; aliases; templates with the arguments that are
\* given; classes; pointers, which lose the const of what they point to.
getQualifiedNameOfType(t) ==
    LET name[u \in TypesIn(t)] ==
            LET args[k \in 0..Len(TemplateArgs(u))] ==
                    IF k = 0 THEN <<>>
                    ELSE args[k - 1] \o (IF k = 1 THEN <<>> ELSE <<",">>)
                         \o (IF IsConstQualified(TemplateArgs(u)[k]) THEN <<"const">> ELSE <<>>) \o name[TemplateArgs(u)[k]]
                pointee == IF "enum" \in DOMAIN u THEN u.enum
                           ELSE IF "alias" \in DOMAIN u
                           THEN (IF u.alias[1] = "" THEN <<>> ELSE <<u.alias[1], "::">>) \o <<u.alias[2]>>
                           ELSE Class(u.name).scope \o <<ShortName(u.name)>>
                                \o (IF TemplateArgs(u) = <<>> THEN <<>> ELSE <<"<">> \o args[Len(TemplateArgs(u))] \o <<">">>)
            IN IF IsPlain(u) THEN pointee ELSE Append(pointee, IF IsPointer(u) THEN "*" ELSE "&")
    IN name[t]

\* Classes and enums only; "t" is what a reference or a pointer is to.
typeIsFullyQualified(t, written) ==
    \/ ~IsPlain(t) \/ ~(IsClass(t.name) \/ t.name = "enum") \/ written = <<"QPrivateSignal">>
    \/ /\ TemplateArgs(t) = <<>> \/ "alias" \in DOMAIN t
       /\ t.name # "enum" /\ "anonymous namespace" \in Class(t.name).is
    \/ written = getQualifiedNameOfType(t)

\* moc writes a cast to the type of each property into the switch under the
\* first comparison with ReadProperty.
handleQ_PROPERTY(i) ==
    LET readsProperty(j) == /\ Kind(Child(j, 1)) \in BinaryOperators
                            /\ LET refs == getStatements(Child(Child(j, 1), 2), {"DeclRefExpr"}, 0)
                               IN Cardinality(refs) = 1 /\ DeclOf(First(refs)) = "ReadProperty"
        read == First({j \in getStatements(Body(i), {"IfStmt"}, 0) : readsProperty(j)})
        casts == IF read = 0 THEN {}
                 ELSE UNION {getStatements(s, {"CXXReinterpretCastExpr"}, 0) : s \in getStatements(read, {"SwitchStmt"}, 0)}
        type(j) == Pointee(TypeOf(j))
        wrong == {j \in casts : isGadget(NodeOf(RecordOf(type(j)))) /\ ~typeIsFullyQualified(type(j), Spelled(type(j)))}
    IN WarnIf(wrong # {}, NodeOf(FunctionOf(i).class), "Q_PROPERTY")

FullyQualifiedMocTypes_VisitDecl(i) ==
    LET f == FunctionOf(i)
        kind == IF IsSignal(f) THEN "signal" ELSE IF IsSlot(f) THEN "slot" ELSE "invokable"
        qualified(t) == typeIsFullyQualified(Pointee(t), Spelled(t))
    IN IF Kind(i) \notin Methods THEN Silence
       ELSE IF f.name = "qt_static_metacall" /\ OwnBody(i) # 0 THEN handleQ_PROPERTY(i)
       ELSE IF IsOutOfLine(i) \/ ~(IsSignal(f) \/ IsSlot(f) \/ IsInvokable(f)) THEN Silence
       ELSE UNION {WarnIf(\E t \in SetOf(f.params) : ~qualified(t), i, kind \o " arguments"),
                   WarnIf(~IsSignal(f) /\ ~qualified(f.returns), i, kind \o " return type")}

-----------------------------------------------------------------------------
(* use-chrono-in-qtimer, which asks the PreProcessorVisitor for an include.    *)

Unknown == -1

\* Products and quotients of literals.
unpackValue(e) ==
    LET value[j \in 0..MaxNodes] ==
            LET left == value[Child(j, 1)] right == value[Child(j, 2)] IN
              IF Kind(j) = "IntegerLiteral" THEN tree[j].value
              ELSE IF Kind(j) \notin BinaryOperators \/ Unknown \in {left, right} THEN Unknown
              ELSE IF tree[j].op = "*" THEN left * right
              ELSE IF tree[j].op = "/" THEN left \div right ELSE Unknown
    IN value[e]

TimeUnit(ms) ==
    IF ms % 3600000 = 0 THEN "h" ELSE IF ms % 60000 = 0 THEN "min" ELSE IF ms % 1000 = 0 THEN "s" ELSE "ms"

\* A member that is named anywhere in the call is taken for what is called.
functionName(i) ==
    LET member == getFirstChildOfType(i, {"MemberExpr"})
    IN IF member # 0 THEN FunctionOf(member) ELSE CalleeOf(i)

TakesMilliseconds(i) ==
    /\ Kind(i) \in Calls /\ Args(i) # <<>>
    /\ QualifiedName(functionName(i)) \in {<<"QTimer", name>> : name \in {"setInterval", "start", "singleShot"}}
    /\ unpackValue(Arg(i, 0)) \notin {Unknown, 0}

\* The include comes with the first warning of a file that does not have it.
UseChronoInQTimer_VisitStmt(i) ==
    IF ~TakesMilliseconds(i) THEN Silence
    ELSE Warn(Arg(i, 0), TimeUnit(unpackValue(Arg(i, 0)))
                         \o (IF m_hasInsertedInclude \/ unit.hasChronoInclude THEN "" ELSE ", include"))

HasInsertedIncludeAfter(i) == m_hasInsertedInclude \/ TakesMilliseconds(i)

-----------------------------------------------------------------------------
(* no-module-include, qenums, qt-keyword-emit                              *)

m_modulesList ==
    {"QtCore", "QtGui", "QtQml", "QtQmlModels", "QtTest", "QtNetwork", "QtDBus", "QtQuick", "QtSvg", "QtWidgets", "QtXml",
     "QtConcurrent", "QtMultimedia", "QtSql", "QtPrintSupport", "QtNetworkAuth", "QtQmlBuiltins", "QtQmlIntegration", "QtQuickTest"}

\* <QtCore> and <QtCore/QtCore>; what qdbusxml2cpp writes includes <QtDBus>.
NoModuleInclude_VisitInclusionDirective(d) ==
    WarnIf(/\ d.event = "include" /\ "ignored file" \notin d.is
           /\ \E module \in m_modulesList : /\ d.text \in {<<module>>, <<module, module>>}
                                          /\ ~(module = "QtDBus" /\ "qdbusxml2cpp" \in d.is), d.at, "module")

\* Those of other classes cannot be declared with Q_ENUM.
QEnums_VisitMacroExpands(d) ==
    WarnIf(/\ qtVersion >= 50500 /\ Expands(d, "Q_ENUMS") /\ <<"::">> \notin SetOf(d.text)
           /\ "in macro" \notin d.is /\ tree[d.at].place # "system", d.at, "use Q_ENUM")

\* The macro has to be Qt's.
QtKeywordEmit_VisitMacroExpands(d) ==
    WarnIf(~unit.noKeywords /\ Expands(d, "emit") /\ "of Qt" \in d.is, d.at, "Q_EMIT")
=============================================================================
