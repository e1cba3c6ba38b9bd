--------------------------- MODULE ContainerChecks ---------------------------
(***************************************************************************)
(* The checks about containers and temporaries: calls that detach, iterators  *)
(* and data of temporaries, mixed iterators, containers that are copied for    *)
(* qDeleteAll, sizes that are compared, unused variables.                    *)
(***************************************************************************)
EXTENDS Utils

-----------------------------------------------------------------------------
(* DetachingBase, detaching-temporary, detaching-member                    *)

Counterparts(f) == {m \in detachingMethodsWithConstCounterParts(ShortName(f.class)) : m[1] = f.name}

\* A replacement is offered when there is a counterpart of another name.
getFixitHints(f, call) ==
    /\ \E m \in Counterparts(f) : m[1] # m[2]
    /\ \/ Kind(call) = "CXXMemberCallExpr" /\ Kind(Child(call, 1)) = "MemberExpr"
       \/ Kind(call) = "CXXOperatorCallExpr" /\ f.name = "operator[]"

isDetachingMethodWithConstCounterPart(f) == Counterparts(f) # {}

Detaches(f, call) == IF getFixitHints(f, call) THEN "detaches, fixit" ELSE "detaches"

m_writeMethodsByType(c) ==
    CASE c = "QString" -> {"push_back", "push_front", "clear", "chop"}
      [] c \in {"QList", "QLinkedList"} -> {"takeFirst", "takeLast", "removeOne", "removeAll", "erase"}
      [] c = "QVector" -> {"fill", "insert"}
      [] c \in {"QMap", "QHash", "QMultiMap", "QMultiHash"} -> {"erase", "insert", "insertMulti", "remove", "take"}
      [] c = "QSet" -> {"erase", "insert"}
      [] c = "QStack" -> {"push", "swap"}
      [] c = "QQueue" -> {"enqueue", "swap"}
      [] c \in {"QListSpecialMethods", "QStringList"} -> {"sort", "replaceInStrings", "removeDuplicates"}
      [] OTHER -> {}

\* QHash::values is missing: QMap::values is listed twice.
isAllowedChainedMethod(f) ==
    \/ <<ShortName(f.class), f.name>> \in
         {<<"QMap", "keys">>, <<"QMap", "values">>, <<"QHash", "keys">>, <<"QFile", "encodeName">>}
    \/ ~IsMethod(f) /\ f.name = "i18n"

\* What two calls of a chain, the second on the result of the first, say.
DetachingTemporary_VisitStmt(i) ==
    LET chain == callListForChain(i)
        made == CalleeOf(chain[2])
        f == CalleeOf(chain[1])
        reads == f.name \in detachingMethods(ShortName(f.class))
        writes == f.name \in m_writeMethodsByType(ShortName(f.class))
    IN IF \/ Len(chain) < 2
          \/ made = NoFunction \/ ~IsPlain(made.returns) \/ "const" \in made.returns.is
          \/ isAllowedChainedMethod(made) \/ made.class \in {"QString", "QByteArray", "QGlobalStatic"}
          \/ ~IsMethod(f) \/ ~(reads \/ writes)
       THEN Silence
       ELSE IF writes /\ (IsVoid(f.returns) \/ ShortName(RecordOf(f.returns)) = "iterator")
       THEN Warn(i, "pointless and detaches") ELSE Warn(i, Detaches(f, chain[1]))

\* What may be done with the result: it is written to, in the end.
IsWrittenTo(i) ==
    LET assignment == getFirstParentOfType(i, BinaryOperators) IN
      \/ getFirstParentOfType(i, {"UnaryOperator"}) # 0
      \/ /\ getFirstParentOfType(parent(i), {"CXXOperatorCallExpr"}) # 0
         /\ HasCallee(getFirstParentOfType(parent(i), {"CXXOperatorCallExpr"}))
      \/ IsAssignment(assignment) /\ (Child(assignment, 1) = i \/ isChildOf(i, Child(assignment, 1)))

\* An iterator that is passed to a function that takes it as it is.
IsPassedAsIterator(i) ==
    LET call == getFirstParentOfType(parent(i), Calls)
        inner(arg) == IF Kind(arg) = "CXXMemberCallExpr" THEN arg ELSE getFirstChildOfType(arg, {"CXXMemberCallExpr"})
    IN /\ Kind(i) = "CXXMemberCallExpr" /\ ShortName(TypeOf(i).name) \in {"iterator", "const_iterator"}
       /\ HasCallee(call) /\ Len(CalleeOf(call).params) = Len(Args(call))
       /\ \E k \in DOMAIN Args(call) :
            /\ inner(Args(call)[k]) = i
            /\ ShortName(CalleeOf(call).params[k].name) = ShortName(TypeOf(i).name)

\* m_values[0].change() needs the reference that operator[] returns.
IsChanged(i) ==
    LET call == getFirstParentOfType(i, {"CXXMemberCallExpr"}) IN
      HasCallee(call) /\ ~IsConst(CalleeOf(call)) /\ ~IsPointer(TypeOf(i))

DetachingMember_VisitStmt(i) ==
    LET f == CalleeOf(i)
        member == valueDeclForCallExpr(i)
    IN IF \/ Kind(i) \notin {"CXXMemberCallExpr", "CXXOperatorCallExpr"} \/ Is(i, "ignored file")
          \/ Kind(i) = "CXXOperatorCallExpr" /\ (~IsMethod(f) \/ f.name # "operator[]" \/ IsChanged(i))
          \/ member = "" \/ ~isMemberVariable(member)
          \/ ~isDetachingMethodWithConstCounterPart(f) \/ IsConst(f)
          \/ IsWrittenTo(i) \/ IsPassedAsIterator(i)
       THEN Silence ELSE Warn(i, Detaches(f, i))

-----------------------------------------------------------------------------
(* writing-to-temporary, returning-data-from-temporary, temporary-iterator  *)

isDisallowedClass(c) == c \in {"QTextCursor", "QDomElement", "QTextBlock", "QJSValue"}

isKnownType(c) ==
    c \in {"QList", "QVector", "QMap", "QHash", "QString", "QSet", "QByteArray", "QUrl", "QVarLengthArray", "QLinkedList",
           "QRect", "QSize", "QPoint", "QColor"}

\* The first two calls of the chain that are evaluated.
WritingToTemporary_VisitStmt(i) ==
    LET chain == callListForChain(i)
        made == CalleeOf(chain[Len(chain)])
        f == CalleeOf(chain[Len(chain) - 1])
    IN IF \/ Is(i, "ignored file") \/ Len(chain) < 2
          \/ made = NoFunction \/ ~IsPlain(made.returns)
          \/ ~IsMethod(f) \/ IsConst(f) \/ IsStatic(f) \/ isDisallowedClass(f.class) \/ ~IsVoid(f.returns)
          \/ ~isOptionSet("widen-criteria") /\ ~isKnownType(f.class) /\ "setter" \notin f.is
          \/ QualifiedName(f) \in {<<"QColor", "getCmyk">>, <<"QColor", "getCmykF">>}
       THEN Silence ELSE Warn(i, "no-op")

\* Through casts and materializations to a variable or a temporary.
DataOwner(i) == Through(i, {"ImplicitCastExpr", "MaterializeTemporaryExpr", "CXXFunctionalCastExpr"})

handleMemberCall(i, onlyTemporaries) ==
    LET owner == DataOwner(ImplicitObject(i))
        var == NodeOf(DeclOf(owner))
    IN IF \/ i = 0 \/ CalleeOf(i).class # "QByteArray"
          \/ CalleeOf(i).name \notin {"data", "constData", "operator const char *"}
       THEN Silence
       ELSE IF \/ Kind(owner) = "CXXBindTemporaryExpr" /\ ~valueIsConst(TypeOf(owner))
               \/ /\ ~onlyTemporaries /\ Kind(owner) = "DeclRefExpr" /\ Kind(var) \in Variables
                  /\ ~Is(var, "static local") /\ ~valueIsConst(TypeOf(var)) /\ ~IsReference(TypeOf(var))
       THEN Warn(i, "data of temporary") ELSE Silence

ReturnedCall(i) == unpeal(i, {"CXXMemberCallExpr"}, {"ExprWithCleanups", "ImplicitCastExpr"})

VariablesOf(declaration) == {v \in Nodes : Kind(v) = "VarDecl" /\ tree[v].parent = declaration}

ReturningDataFromTemporary_VisitStmt(i) ==
    IF Kind(i) = "ReturnStmt" THEN handleMemberCall(ReturnedCall(Child(i, 1)), FALSE)
    ELSE IF Kind(i) = "DeclStmt"
    THEN UNION {handleMemberCall(ReturnedCall(getFirstChild(InitOf(v))), TRUE) :
                    v \in {w \in VariablesOf(i) : TypeOf(w).name = "char" /\ TypeOf(w).is = {"const", "pointer"}}}
    ELSE Silence

m_methodsByType(c) ==
    LET common == {"begin", "end", "cbegin", "cend"} IN
    CASE c = "vector" -> common
      [] c \in {"QList", "QLinkedList", "QQueue"} -> common \cup {"constBegin", "constEnd"}
      [] c \in {"QVector", "QStack"} -> common \cup {"constBegin", "constEnd", "insert"}
      [] c \in {"QMap", "QMultiMap"} -> common \cup {"constBegin", "constEnd", "find", "constFind", "lowerBound"}
      [] c \in {"QHash", "QMultiHash"} -> common \cup {"constBegin", "constEnd", "find", "constFind", "insert"}
      [] c = "QSet" -> common \cup {"constBegin", "constEnd", "find", "constFind"}
      [] OTHER -> {}

isBlacklistedFunction(f) ==
    <<ShortName(f.class), f.name>> \in
        {<<"QVariant", "toList">>, <<"QHash", "operator[]">>, <<"QMap", "operator[]">>, <<"QSet", "operator[]">>}

\* Variables are read through a cast, or are members of this.
IsTemporary(i) ==
    /\ i # 0 /\ (~Is(i, "lvalue") \/ Kind(i) = "MaterializeTemporaryExpr")
    /\ ~IsPointer(TypeOf(i))
    /\ ~(/\ Kind(i) = "ImplicitCastExpr"
         /\ \/ Attr(i, "op", "") = "LValueToRValue"
            \/ Kind(getFirstChild(i)) = "ImplicitCastExpr" /\ Attr(getFirstChild(i), "op", "") = "LValueToRValue")
    /\ Kind(getFirstChildAtDepth(i, 2)) \notin Constructions
    /\ Kind(getFirstChildAtDepth(i, 1)) # "CXXThisExpr"

TemporaryIterator_VisitStmt(i) ==
    LET f == CalleeOf(i) IN
      IF \/ Kind(i) # "CXXMemberCallExpr" \/ f.name \notin m_methodsByType(ShortName(f.class))
         \/ getFirstParentOfType(parent(i), {"CXXMemberCallExpr"}) # 0
         \/ isBlacklistedFunction(CalleeOf(getFirstChildOfType(i, {"CXXMemberCallExpr"})))
         \/ isBlacklistedFunction(CalleeOf(getFirstChildOfType(i, {"CXXOperatorCallExpr"})))
         \/ isInDerefExpression(i)
         \/ ~IsTemporary(ImplicitObject(i))
      THEN Silence ELSE Warn(i, "iterator of temporary")

-----------------------------------------------------------------------------
(* strict-iterators: iterators are classes in their container, or typedefs   *)
(* of pointers in it.                                                      *)

isMemberVariableExpr(i) == Kind(unpeal(i, {"MemberExpr"}, {"ImplicitCastExpr"})) = "MemberExpr"

\* parentRecordForTypedef
ContainerOfTypedef(t) == Written(t)[1]
IsIteratorName(t, name) == Written(t)[2] = name \/ ShortName(t.name) = name

\* Calls of a container that changes: it wants a const_iterator from anybody.
IsMutation(i) ==
    LET call == StmtParent(i) IN
      /\ Kind(call) = "CXXMemberCallExpr"
      /\ <<CalleeOf(call).class, CalleeOf(call).name>> \in
           {<<c, name>> : c \in {"QMap", "QList", "QSet", "QMultiMap", "QVarLengthArray"}, name \in {"insert", "erase"}}
           \cup {<<"QHash", "erase">>, <<"QMultiHash", "erase">>, <<"QList", "emplace">>, <<"QVarLengthArray", "emplace">>}

handleImplicitCast(i) ==
    LET to == TypeOf(i)
        from == TypeOf(Child(i, 1))
        foreign(t) == ContainerOfTypedef(t) # "" /\ ~isQtCOWIterableClass(ContainerOfTypedef(t))
    IN IF \/ Kind(i) # "ImplicitCastExpr" \/ foreign(to)
          \/ RecordOf(to) # "" /\ ~isQtCOWIterator(RecordOf(to))
          \/ isMemberVariableExpr(Child(i, 1)) \/ foreign(from)
          \/ ~("const" \in to.is \/ IsIteratorName(to, "const_iterator"))
       THEN Silence
       ELSE IF Attr(i, "op", "") = "ConstructorConversion" THEN WarnIf(~IsMutation(i), i, "mixed iterators")
       ELSE WarnIf(/\ ~IsIteratorName(to, "iterator") /\ IsIteratorName(from, "iterator")
                   /\ Kind(StmtParent(i)) # "CXXOperatorCallExpr", i, "mixed iterators")

handleOperator(i) ==
    LET f == CalleeOf(i) IN
      /\ Kind(i) = "CXXOperatorCallExpr" /\ IsMethod(f) /\ Len(f.params) = 1
      /\ isQtCOWIterator(f.class) /\ ShortName(f.class) = "iterator"
      /\ ShortName(RecordOf(Pointee(f.params[1]))) = "const_iterator"

StrictIterators_VisitStmt(i) ==
    IF handleOperator(i) THEN Warn(i, "mixed iterators") ELSE handleImplicitCast(i)

-----------------------------------------------------------------------------
(* qdeleteall, mutable-container-key, isempty-vs-count                     *)

QDeleteAll_VisitStmt(i) ==
    LET f == CalleeOf(i)
        object == ImplicitObject(i)
        class == IF Kind(object) = "ImplicitCastExpr" /\ Kind(Child(object, 1)) = "DeclRefExpr"
                 THEN RecordOf(TypeOf(Child(object, 1))) ELSE ""
        called == Nearest({j \in Upwards(parent(i)) : HasCallee(j) /\ Kind(j) \in Calls})
    IN WarnIf(/\ Kind(i) = "CXXMemberCallExpr" /\ f.name \in {"values", "keys"}
              /\ isQtAssociativeContainer(class)
              /\ called # 0 /\ CalleeOf(called).name = "qDeleteAll" /\ f.params = <<>>,
              called, IF f.name = "values" THEN "unnecessary values()" ELSE "unnecessary keys()")

\* The key of a variable that is one of some containers.
KeyIn(i, containers) ==
    LET t == TypeOf(i) IN
      IF Kind(i) \in Variables /\ IsPlain(t) /\ t.name \in containers /\ Len(TemplateArgs(t)) = 2
      THEN TemplateArgs(t)[1] ELSE NoType

MutableContainerKey_VisitDecl(i) ==
    WarnIf(ShortName(RecordOf(KeyIn(i, {"QMap", "QHash"}))) \in
             {"QPointer", "QWeakPointer", "QPersistentModelIndex", "weak_ptr"}, i, "mutable key")

QMapWithPointerKey_VisitDecl(i) == WarnIf(IsPointer(KeyIn(i, {"QMap"})), i, "pointer key")

QHashWithCharPointerKey_VisitDecl(i) ==
    WarnIf(IsPointer(KeyIn(i, {"QHash"})) /\ KeyIn(i, {"QHash"}).name = "char", i, "char pointer key")

CountMethods == {"size", "count", "length"}

\* size() compared with a literal; in Qt 5 the literal is not cast.
ComparesSize(i) ==
    LET comparison == Child(i, 1)
        call == Child(comparison, 1)
        literal == IF Kind(Child(comparison, 2)) = "ImplicitCastExpr" THEN Child(Child(comparison, 2), 1)
                   ELSE Child(comparison, 2)
    IN /\ Kind(i) = "ExprWithCleanups" /\ Kind(comparison) = "BinaryOperator"
       /\ Kind(call) = "CXXMemberCallExpr" /\ CalleeOf(call).name \in CountMethods
       /\ ShortName(CalleeOf(call).class) \in {"QList", "QHash", "QMap", "QMultiHash", "QMultiMap"} /\ Args(call) = <<>>
       /\ Kind(literal) = "IntegerLiteral"
       /\ <<Attr(comparison, "op", ""), Attr(literal, "value", 0)>> \in {<<"==", 0>>, <<"<", 1>>, <<">", 0>>}

IsEmptyVSCount_VisitStmt(i) ==
    LET call == Child(i, 1)
        f == CalleeOf(call)
    IN IF ComparesSize(i) THEN Warn(i, "use isEmpty")
       ELSE IF \/ Kind(i) # "ImplicitCastExpr" \/ Attr(i, "op", "") # "IntegralToBoolean"
               \/ Kind(call) # "CXXMemberCallExpr" \/ f.name \notin CountMethods \/ f.class \notin qtContainers
       THEN Silence
       ELSE IF \/ f.class \in {"QMultiHash", "QMultiMap"} /\ Len(Args(call)) = 2
               \/ f.class \in {"QHash", "QMap", "QMultiHash", "QMultiMap"} /\ Len(Args(call)) = 1
       THEN Warn(i, "use contains") ELSE Warn(i, "use isEmpty")

-----------------------------------------------------------------------------
(* unused-non-trivial-variable                                             *)

isUninterestingType(c) ==
    ShortName(c) \in {"QMutexLocker", "QReadLocker", "QWriteLocker", "QSignalBlocker", "QScopedPointer", "QScopeGuard"}

nonTrivialTypes == {"QColor", "QVariant", "QFont", "QUrl", "QImage", "QPen", "QDateTime", "QDir", "QEvent", "QLocale"}

\* The option no-whitelist makes every class interesting.
isInterestingType(t) ==
    LET c == RecordOf(t) IN
      /\ c # ""
      /\ IF isOptionSet("no-whitelist") THEN ~isUninterestingType(c) ELSE isQtContainer(t) \/ ShortName(c) \in nonTrivialTypes

\* Only what is named behind the beginning of the declaration counts as a use.
IsUsed(var, body) == \E j \in getStatements(body, {"DeclRefExpr"}, Begin(var)) : DeclOf(j) = Name(var)

handleVarDecl(var) ==
    LET function == firstContextOfType(DeclContext(var), Functions) IN
      WarnIf(/\ isInterestingType(TypeOf(var))
             /\ Body(function) # 0 /\ ~IsUsed(var, Body(function)) /\ ~Is(var, "maybe_unused"), var, "unused variable")

UnusedNonTrivialVariable_VisitStmt(i) ==
    IF Kind(i) = "DeclStmt" THEN UNION {handleVarDecl(v) : v \in VariablesOf(i)} ELSE Silence

-----------------------------------------------------------------------------
(* readlock-detaching: an AST matcher, which is run over the finished tree.  *)

IsLocker(c) == c \in {"QReadLocker", "QReadWriteLock", "QBasicReadWriteLock"}

\* The block around a node, and what is found in it from a lock on.
SurroundingCompound(i) ==
    LET up[j \in 0..i] == IF j = 0 \/ Kind(j) = "CompoundStmt" THEN j ELSE up[tree[j].parent]
    IN up[tree[i].parent]

IsUnlock(i) == Kind(i) = "CXXMemberCallExpr" /\ IsLocker(CalleeOf(i).class) /\ CalleeOf(i).name = "unlock"

\* An unlock() of any lock that was read before sets the end of the range.
LockEnd(block, i) ==
    LET unlocks == {j \in Below(block) : j < i /\ IsUnlock(j)} IN
      IF unlocks = {} THEN End(block) ELSE End(Max(unlocks))

DetachesMember(i) ==
    LET object == IF Kind(i) = "CXXMemberCallExpr" THEN ImplicitObject(i) ELSE Arg(i, 0)
        class == IF Kind(i) = "CXXMemberCallExpr" THEN CalleeOf(i).class ELSE RecordOf(TypeOf(object))
    IN /\ Kind(i) \in {"CXXMemberCallExpr", "CXXOperatorCallExpr"}
       /\ Kind(object) = "MemberExpr"
       /\ CalleeOf(i).name \in detachingMethods(class)

Locks(i) ==
    \/ Kind(i) \in Constructions /\ TypeOf(i).name = "QReadLocker"
    \/ /\ Kind(i) = "CXXMemberCallExpr" /\ TypeOf(ImplicitObject(i)).name = "QReadWriteLock"
       /\ CalleeOf(i).name = "lockForRead"

ReadlockDetaching_Match(i) ==
    LET block == SurroundingCompound(i) IN
      IF ~Locks(i) \/ block = 0 THEN Silence
      ELSE UNION {Warn(j, "detach under read lock") :
                      j \in {k \in Below(block) : DetachesMember(k) /\ Begin(k) >= Begin(i) /\ End(k) <= LockEnd(block, k)}}

-----------------------------------------------------------------------------
(* qrequiredresult-candidates, unused-result-check                         *)

QRequiredResultCandidates_VisitDecl(i) ==
    LET f == FunctionOf(i) IN
      WarnIf(/\ Kind(i) \in Methods /\ IsConst(f)
             /\ Is(i, "inline") \/ OwnBody(i) = 0
             /\ f.is \cap {"nodiscard", "private"} = {}
             /\ RecordOf(f.returns) = f.class /\ "private" \notin Class(f.class).is
             /\ "participle" \in f.is, i, "add Q_REQUIRED_RESULT")

\* The call is a statement of its own.
UnusedResultCheck_Match(i) ==
    LET p == tree[i].parent IN
      WarnIf(/\ Kind(i) = "CXXMemberCallExpr" /\ IsConst(CalleeOf(i)) /\ ~IsVoid(CalleeOf(i).returns)
             /\ IF IsStmt(p) THEN Kind(p) \in {"CompoundStmt", "CaseStmt", "DeclStmt", "CXXForRangeStmt"}
                ELSE Kind(p) \notin {"VarDecl", "CXXConstructorDecl"}, i, "unused result")
=============================================================================
