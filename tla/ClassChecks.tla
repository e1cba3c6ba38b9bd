----------------------------- MODULE ClassChecks -----------------------------
(***************************************************************************)
(* The checks about what a class has to declare: copies and destructors,      *)
(* Q_OBJECT, Q_DECLARE_TYPEINFO; and about enums.  A class has the name by which *)
(* Classes tells about it; a declaration without a definition is "forward".  *)
(***************************************************************************)
EXTENDS Utils

VARIABLES
    m_typeInfos,            \* MissingTypeInfo: names of types
    m_hasAddedMocFile       \* MissingQObjectMacro

IsDefinition(i) == Kind(i) \in Records /\ ~Is(i, "forward")
ClassIs(c, flag) == flag \in Class(c).is

-----------------------------------------------------------------------------
(* RuleOfBase, rule-of-three, rule-of-two-soft                             *)

isBlacklisted(c) == c \in {"QColor", "QStringList", "QMatrix", "QSet", "QAtomicInt"} \/ ClassIs(c, "std")

destructor(c) == {f \in Class(c).methods : "destructor" \in f.is}
UserProvided(functions) == \E f \in functions : "user" \in f.is
Deleted(functions) == \E f \in functions : "deleted" \in f.is

\* The ones of the three that the class has.
Implemented(c) ==
    {part \in {"dtor", "copy-ctor", "copy-assignment"} :
        UserProvided(CASE part = "dtor" -> destructor(c) [] part = "copy-ctor" -> copyCtor(c) [] OTHER -> copyAssign(c))}

\* A copy the compiler cannot make is as good as a deleted one.
CannotBeCopied(c) ==
    \/ Deleted(copyCtor(c)) \/ Deleted(copyAssign(c))
    \/ /\ copyCtor(c) = {} \/ copyAssign(c) = {}
       /\ \E field \in Class(c).fields : IsConstQualified(field.type) \/ IsRValueReference(field.type)

\* Where its destructor has a body.
DestructorBody(c) ==
    First({j \in Nodes : Kind(j) = "CXXDestructorDecl" /\ FunctionOf(j).class = c /\ Body(j) # 0})

\* A base that nobody deletes, or a destructor that does nothing.
IsHarmlessDestructor(c) ==
    (\E f \in destructor(c) : "protected" \in f.is) \/ functionHasEmptyBody(DestructorBody(c))

DefaultedByUser(c) == \E f \in destructor(c) : "defaulted" \in f.is

RuleOfThree_VisitDecl(i) ==
    LET c == Name(i)
        has == Implemented(c)
    IN IF \/ ~IsDefinition(i) \/ isBlacklisted(c) \/ ClassIs(c, "polymorphic")
          \/ Is(i, "qrc") \/ InMacro(i, "Q_GLOBAL_STATIC_INTERNAL")
          \/ "dtor" \in has /\ CannotBeCopied(c)
          \/ has = {} \/ Cardinality(has) = 3
          \/ has = {"dtor"} /\ IsHarmlessDestructor(c)
          \/ "dtor" \notin has /\ (derivesFrom(c, "QSharedData") \/ DefaultedByUser(c))
          \/ hasMember(c, "QSharedDataPointer")
          \/ ClassIs(c, "Private name") /\ Is(i, "private file")
       THEN Silence ELSE Warn(i, "rule of three")

RuleOfTwoSoft_VisitStmt(i) ==
    LET f == CalleeOf(i)
        c == f.class
    IN IF Kind(i) = "CXXOperatorCallExpr"
       THEN WarnIf(/\ "copyAssign" \in f.is /\ ClassIs(c, "nonTrivialCopy")
                   /\ ~ClassIs(c, "nonTrivialAssign") /\ "defaulted" \notin f.is /\ ~isBlacklisted(c), i, "no assign operator")
       ELSE WarnIf(/\ Kind(i) \in Constructions /\ "copy" \in f.is /\ ClassIs(c, "nonTrivialAssign")
                   /\ ~ClassIs(c, "nonTrivialCopy") /\ "defaulted" \notin f.is /\ ~isBlacklisted(c), i, "trivial copy")

-----------------------------------------------------------------------------
(* copyable-polymorphic                                                    *)

IsCallable(f) == f.is \cap {"deleted", "private", "protected"} = {}
hasPublicCopy(c) == \E f \in copyCtor(c) \cup copyAssign(c) : IsCallable(f)

hasPublicCopyInAncestors(c) == \E d \in Lineage(c) \ {c} : hasPublicCopy(d)

\* Where the fixit puts the macro, and the default constructor it takes away.
DisableCopy(c) ==
    IF ~ClassIs(c, "default ctor")
    THEN IF ClassIs(c, "private section") THEN "in the private section" ELSE "at the end"
    ELSE IF ClassIs(c, "private section")
    THEN IF ClassIs(c, "public section") THEN "private, and public ctor" ELSE "private, and new public section"
    ELSE IF ClassIs(c, "public section") THEN "at the end, and public ctor" ELSE "at the end, and new public section"

CopyablePolymorphic_VisitDecl(i) ==
    LET c == Name(i) IN
      WarnIf(/\ IsDefinition(i) /\ ClassIs(c, "polymorphic") /\ hasPublicCopy(c)
             /\ ClassIs(c, "final") => hasPublicCopyInAncestors(c), i, DisableCopy(c))

-----------------------------------------------------------------------------
(* missing-qobject-macro, missing-typeinfo                                 *)

\* The preprocessor has met the macro between the beginning and the end: that
\* of a class inside counts, too.
HasQ_OBJECT(i) == \E j \in Nodes : Is(j, "Q_OBJECT") /\ i \in contextsForDecl(j)

MissesQ_OBJECT(i) ==
    /\ IsDefinition(i) /\ isQObject(Name(i)) /\ ~Is(i, "template")
    /\ Kind(DeclContext(i)) \notin Records
    /\ ~unit.usingPreCompiledHeaders
    /\ ~HasQ_OBJECT(i)

\* The moc file is included once.
AddsMocFile(i) == Is(i, "source file") /\ ~m_hasAddedMocFile /\ ~unit.hasMocInclude

MissingQObjectMacro_VisitDecl(i) ==
    WarnIf(MissesQ_OBJECT(i), i, IF AddsMocFile(i) THEN "missing Q_OBJECT and moc file" ELSE "missing Q_OBJECT")

HasAddedMocFileAfter(i) == m_hasAddedMocFile \/ (MissesQ_OBJECT(i) /\ AddsMocFile(i))

\* templateDecl: a specialization, or the class of a variable.
templateDecl(i) ==
    IF Kind(i) \in {"ClassTemplateSpecializationDecl"} \cup Variables THEN TypeOf(i) ELSE NoType

getTemplateArgumentType(t) == IF TemplateArgs(t) = <<>> THEN NoType ELSE TemplateArgs(t)[1]

typeHasClassification(t) == t.name \in m_typeInfos

\* It is true of what is not too big.
checkTooBigForQList(t) == Class(t.name).size <= 8

MissingTypeInfo_VisitDecl(i) ==
    LET t == templateDecl(i)
        element == getTemplateArgumentType(t)
        c == RecordOf(element)
    IN WarnIf(/\ t.name \in {"QList", "QVector"}
              /\ c # "" /\ ~ClassIs(c, "forward") /\ ~typeHasClassification(element)
              /\ t.name = "QVector" \/ checkTooBigForQList(element)
              /\ IsTriviallyCopied(c) /\ ~ClassIs(c, "system") /\ c # "QPair", i, "missing typeinfo")

\* registerQTypeInfo
TypeInfosAfter(i) ==
    IF templateDecl(i).name = "QTypeInfo" /\ RecordOf(getTemplateArgumentType(templateDecl(i))) # ""
    THEN m_typeInfos \cup {getTemplateArgumentType(templateDecl(i)).name} ELSE m_typeInfos
-----------------------------------------------------------------------------
(* unexpected-flag-enumerator-value.  An enumerator has a value, what it is   *)
(* initialized with, and "mask" when its name says so.                      *)

EnumBits == 12      \* bound: the bits of a value

Enumerators(i) == SelectSeq([k \in 1..tree[i].size - 1 |-> i + k], LAMBDA j : Kind(j) = "EnumConstantDecl")
Value(j) == tree[j].value
InitExpr(j) == Attr(j, "init", "")

IsPowerOf2(v) == \E n \in 0..EnumBits : v = 2^n
\* Ones and nothing else, possibly with zeros behind them, three at least.
IsMask(v) == \E n \in 0..EnumBits, ones \in 3..EnumBits : v = 2^n * (2^ones - 1)

isIntentionallyNotPowerOf2(j) == IsMask(Value(j)) \/ Is(j, "mask") \/ InitExpr(j) \in {"binary", "reference"}

\* The first four.
hasConsecutiveValues(enumerators) ==
    \A k \in DOMAIN enumerators : k <= 4 => Value(enumerators[k]) = Value(enumerators[1]) + k - 1

\* Zero is no power of two.
isFlagEnum(enumerators) ==
    /\ Len(enumerators) >= 4
    /\ \A j \in SetOf(enumerators) : InitExpr(j) # ""
    /\ ~hasConsecutiveValues(enumerators)
    /\ Cardinality({j \in SetOf(enumerators) : ~IsPowerOf2(Value(j))}) <= Len(enumerators) \div 2

UnexpectedFlagEnumeratorValue_VisitDecl(i) ==
    IF Kind(i) # "EnumDecl" \/ Name(i) = "" \/ ~isFlagEnum(Enumerators(i)) THEN Silence
    ELSE UNION {WarnIf(Value(j) > 0 /\ ~IsPowerOf2(Value(j)) /\ ~isIntentionallyNotPowerOf2(j), j, "non power-of-2") :
                    j \in SetOf(Enumerators(i))}
=============================================================================
