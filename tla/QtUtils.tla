------------------------------ MODULE QtUtils -------------------------------
(***************************************************************************)
(* TypeUtils.cpp, QtUtils.cpp, TemplateUtils.cpp, FunctionUtils.h: what the  *)
(* checks ask about types, classes of Qt and the functions of a connect().   *)
(* Lists of names are given by those the instances tell apart.              *)
(***************************************************************************)
EXTENDS HierarchyUtils

HierarchyDepth == 4     \* bound: bases of bases

SetOf(seq) == {seq[k] : k \in DOMAIN seq}

-----------------------------------------------------------------------------
(* Classes.                                                                *)

\* A class and its bases.
Lineage(c) ==
    LET up[n \in 0..HierarchyDepth] ==
            IF n = 0 THEN {c} ELSE up[n - 1] \cup UNION {SetOf(Class(d).bases) : d \in up[n - 1]}
    IN up[HierarchyDepth]

derivesFrom(derived, base) == IsClass(derived) /\ base \in Lineage(derived)

\* A pointer or reference to such a class does, too.
TypeDerivesFrom(t, base) == derivesFrom(t.name, base)

\* From the direct base to the one that is looked for, the first way there is.
BasesUpTo(derived, base) ==
    LET nearer(c) == SelectSeq(Class(c).bases, LAMBDA b : derivesFrom(b, base))
        way[n \in 0..HierarchyDepth] ==
            IF n = 0 THEN <<derived>>
            ELSE IF way[n - 1][n] = base THEN Append(way[n - 1], base) ELSE Append(way[n - 1], nearer(way[n - 1][n])[1])
    IN IF derived = base \/ ~derivesFrom(derived, base) THEN {} ELSE SetOf(Tail(way[HierarchyDepth]))

rootBaseClass(c) ==
    LET up[n \in 0..HierarchyDepth] ==
            IF n = 0 THEN c
            ELSE IF Class(up[n - 1]).bases = <<>> THEN up[n - 1] ELSE Class(up[n - 1]).bases[1]
    IN up[HierarchyDepth]

\* clazy::name of a class, and classNameFor: with the class around it, but
\* without a namespace.
ShortName(c) == IF "short" \in DOMAIN Class(c) THEN Class(c).short ELSE c
classNameFor(c) == IF Class(c).in # "" THEN c ELSE ShortName(c)

isQObject(c) == derivesFrom(c, "QObject")

\* The first base that is a QObject, "" is none.
getQObjectBaseClass(c) ==
    LET bases == SelectSeq(Class(c).bases, isQObject) IN IF bases = <<>> THEN "" ELSE bases[1]

\* The class and those of its bases, the nearest first.
ObjectLineage(c) ==
    LET up[n \in 0..HierarchyDepth] ==
            IF n = 0 THEN <<c>>
            ELSE LET base == getQObjectBaseClass(up[n - 1][Len(up[n - 1])]) IN
                   IF base = "" THEN up[n - 1] ELSE Append(up[n - 1], base)
    IN up[HierarchyDepth]

copyCtor(c) == {f \in Class(c).ctors : "copy" \in f.is}
copyAssign(c) == {f \in Class(c).methods : "copyAssign" \in f.is}

\* hasNonTrivialCopyConstructor and the like are facts about a class.
IsTriviallyCopied(c) ==
    /\ Class(c).is \cap {"nonTrivialCopy", "nonTrivialDtor"} = {}
    /\ \A f \in copyCtor(c) : "deleted" \notin f.is

methodsFromString(c, name) ==
    IF IsClass(c) THEN UNION {{f \in Class(d).methods : f.name = name} : d \in Lineage(c)} ELSE {}

hasMember(c, type) == IsClass(c) /\ \E field \in Class(c).fields : RecordOf(field.type) = type

parametersMatch(f, g) ==
    Len(f.params) = Len(g.params) /\ \A k \in DOMAIN f.params : f.params[k] = g.params[k]

classImplementsMethod(c, method) ==
    \E f \in Class(c).methods : "pure" \notin f.is /\ f.name = method.name /\ parametersMatch(f, method)

\* A class that is only declared has no constructors to look at.
recordHasCtorWithParam(c, type) ==
    LET ctors == {f \in Class(c).ctors : f.is \cap {"copy", "move"} = {}}
    IN [ok |-> IsClass(c) /\ "forward" \notin Class(c).is,
        numCtors |-> Cardinality(ctors),
        has |-> \E f \in ctors, k \in 1..3 :
                    k \in DOMAIN f.params /\ "const" \notin f.params[k].is /\ TypeDerivesFrom(f.params[k], type)]

-----------------------------------------------------------------------------
(* Containers.                                                             *)

qtCOWContainers ==
    {"QListSpecialMethods", "QList", "QVector", "QMap", "QHash", "QMultiMap", "QMultiHash", "QSet", "QStack", "QQueue",
     "QString", "QStringRef", "QByteArray", "QJsonArray", "QJsonObject", "QLinkedList"}

qtContainers == qtCOWContainers \cup {"QVarLengthArray", "QSequentialIterable", "QAssociativeIterable"}

\* A method and its counterpart that does not detach.
seqApi == {<<"first", "constFirst">>, <<"last", "constLast">>, <<"begin", "cbegin">>, <<"end", "cend">>,
           <<"front", "constFirst">>, <<"operator[]", "at">>}
vecApi == seqApi \cup {<<"data", "constData">>}
hashApi == {<<"begin", "cbegin">>, <<"end", "cend">>, <<"find", "constFind">>, <<"operator[]", "value">>}
mapApi == hashApi \cup {<<"first", "constFirst">>, <<"last", "constLast">>, <<"lowerBound", "lowerBound">>,
                        <<"keyValueBegin", "constKeyValueBegin">>}
stringApi == {<<"begin", "cbegin">>, <<"end", "cend">>, <<"data", "constData">>, <<"operator[]", "at">>}

detachingMethodsWithConstCounterParts(c) ==
    CASE c \in {"QList", "QLinkedList"} -> seqApi
      [] c = "QVector" -> vecApi
      [] c = "QStack" -> vecApi \cup {<<"top", "top">>}
      [] c = "QQueue" -> vecApi \cup {<<"head", "head">>}
      [] c \in {"QMap", "QMultiMap"} -> mapApi
      [] c \in {"QHash", "QMultiHash", "QSet", "QJsonObject"} -> hashApi
      [] c \in {"QString", "QByteArray"} -> stringApi
      [] c = "QImage" -> {<<"bits", "constBits">>, <<"scanLine", "constScanLine">>}
      [] OTHER -> {}

detachingMethods(c) ==
    {m[1] : m \in detachingMethodsWithConstCounterParts(c)} \cup IF c = "QVector" THEN {"fill"} ELSE {}

isQtCOWIterableClass(c) == c \in qtCOWContainers
isQtIterableClass(c) == c \in qtContainers
isQtAssociativeContainer(c) == c \in {"QSet", "QMap", "QHash", "QMultiHash", "QMultiMap"}

\* By its name, whatever its bases.
isQtContainer(t) == IsClass(Pointee(t).name) /\ t.name \in qtContainers

isSharedPointer(c) == c \in {"std::shared_ptr", "QSharedPointer", "boost::shared_ptr"}

isAReserveClass(c) == \E base \in {"QVector", "std::vector", "QList", "QSet"} : derivesFrom(c, base)

isJavaIterator(c) == c \in {"QHashIterator", "QMapIterator", "QSetIterator", "QListIterator"}

\* Iterators are classes in the class of their container.
isQtCOWIterator(c) == isQtCOWIterableClass(Class(c).in)

-----------------------------------------------------------------------------
(* Types.                                                                  *)

isConstRef(t) == IsReference(t) /\ "const" \in t.is /\ "pointer" \notin t.is
valueIsConst(t) == "const" \in t.is

isConvertibleTo(source, target) ==
    /\ HasType(source) /\ HasType(target)
    /\ IsPointer(source) = IsPointer(target)
    /\ \/ source = target
       \/ /\ IsClass(source.name) /\ source.name = target.name
          /\ ~IsPlain(source) /\ ~IsPlain(target)
       \/ {source.name, target.name} \subseteq Integral /\ IsPlain(source) /\ IsPlain(target)
       \/ {source.name, target.name} \subseteq Floating /\ IsPlain(source) /\ IsPlain(target)
       \/ \E pair \in {<<source, target>>, <<target, source>>} :
            isConstRef(pair[1]) /\ IsPlain(pair[2]) /\ pair[1].name = pair[2].name

Classified == [ok |-> TRUE, bigByConstRef |-> FALSE, nonTrivialByConstRef |-> FALSE, smallByValue |-> FALSE]

\* What a parameter or loop variable of a type should be; "changed" says that
\* the body needs it to be a copy.
classifyQualType(t, isVariable, changed) ==
    LET big == Class(t.name).size > 16
        nonTrivial == IsClass(t.name) /\ ~IsTriviallyCopied(t.name) /\ "pointer" \notin t.is
        const == "const" \in t.is /\ "pointer" \notin t.is
        byRef == [Classified EXCEPT !.nonTrivialByConstRef = nonTrivial, !.bigByConstRef = big /\ "pointer" \notin t.is]
    IN IF t.name = "auto" \/ ~HasType(t) \/ "forward" \in Class(t.name).is THEN [Classified EXCEPT !.ok = FALSE]
       ELSE IF IsRValueReference(t) THEN Classified
       ELSE IF const /\ ~IsLValueReference(t) THEN byRef
       ELSE IF const /\ ~nonTrivial /\ ~big THEN [Classified EXCEPT !.smallByValue = TRUE]
       ELSE IF isVariable /\ ~const /\ ~IsLValueReference(t) /\ ~changed THEN byRef
       ELSE Classified

isSmallTrivial(t) ==
    /\ HasType(t) /\ "auto" # t.name /\ ~IsRValueReference(t)
    /\ IsClass(t.name) /\ "forward" \notin Class(t.name).is
    /\ IsTriviallyCopied(t.name) /\ Class(t.name).size <= 16

\* Where an argument comes from: a new expression and a pointer that has a name
\* are on the heap; "unknown" is too complicated.
heapOrStackAllocated(i, type) ==
    LET refs == {j \in getNearChilds(i, {"DeclRefExpr"}, 3) : TypeOf(j).name = type}
    IN IF Kind(i) = "CXXNewExpr" THEN "heap"
       ELSE IF Cardinality(refs) # 1 THEN "unknown"
       ELSE IF IsPointer(TypeOf(First(refs))) THEN "heap" ELSE "stack"

-----------------------------------------------------------------------------
(* Arguments of calls; connect().                                          *)

valueDeclForCallArgument(call, k) ==
    LET arg == Arg(call, k)
        ref == IF Kind(arg) = "DeclRefExpr" THEN arg ELSE getFirstChildOfType2(arg, {"DeclRefExpr"})
    IN DeclOf(ref)

isConnect(f) == QualifiedName(f) = <<"QObject", "connect">>

connectHasPMFStyle(f) == \A k \in DOMAIN f.params : ~(f.params[k].name = "char" /\ IsPointer(f.params[k]))

pmfFromUnary(i) == IF Kind(i) = "UnaryOperator" /\ Kind(Child(i, 1)) = "DeclRefExpr"
                   THEN FunctionOf(Child(i, 1)) ELSE NoFunction

\* qOverload<>() and QOverload<>::of() are calls of their operator() or a
\* function around the pointer.
pmfFromExpr(i) ==
    LET inner(j) ==
            IF Kind(j) = "CXXOperatorCallExpr"
            THEN IF CalleeOf(j).class \in {"QNonConstOverload", "QConstOverload"} /\ Kind(Arg(j, 1)) = "UnaryOperator"
                 THEN Arg(j, 1) ELSE 0
            ELSE IF Kind(j) \in Calls THEN IF Len(Args(j)) = 1 THEN Arg(j, 0) ELSE 0
            ELSE IF Kind(j) \in {"CXXStaticCastExpr", "MaterializeTemporaryExpr", "ImplicitCastExpr"} THEN Child(j, 1)
            ELSE 0
        pmf[j \in 0..MaxNodes] ==
            IF j = 0 THEN NoFunction ELSE IF Kind(j) = "UnaryOperator" THEN pmfFromUnary(j) ELSE pmf[inner(j)]
    IN IF i = 0 THEN NoFunction ELSE pmf[i]

\* A variable that holds the pointer is looked up in its initializer.
pmfFromConnect(call, k) ==
    LET arg == Arg(call, k)
        ref == Child(arg, 1)
        var == NodeOf(DeclOf(ref))
        refs == getChilds(InitOf(var), {"DeclRefExpr"})
    IN IF arg = 0 THEN NoFunction
       ELSE IF /\ Kind(arg) = "ImplicitCastExpr" /\ Kind(ref) = "DeclRefExpr" /\ Kind(var) = "VarDecl"
               /\ refs # {}
       THEN FunctionOf(Nearest(refs)) ELSE pmfFromExpr(arg)

receiverMethodForConnect(call) ==
    IF pmfFromConnect(call, 2) # NoFunction THEN pmfFromConnect(call, 2) ELSE pmfFromConnect(call, 3)

signalSenderForConnect(call) == valueDeclForCallArgument(call, 0)
signalReceiverForConnect(call) == IF Len(Args(call)) < 5 THEN "" ELSE valueDeclForCallArgument(call, 2)

isQMetaMethod(call, k) == RecordOf(TypeOf(Arg(call, k))) = "QMetaMethod"

isInForeach(i) == InMacro(i, "Q_FOREACH") \/ InMacro(i, "foreach")
=============================================================================
