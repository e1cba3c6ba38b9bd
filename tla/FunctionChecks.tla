---------------------------- MODULE FunctionChecks ---------------------------
(***************************************************************************)
(* The checks about functions, their parameters and what they return, about   *)
(* variables of the file and on the heap, and about casts.                  *)
(***************************************************************************)
EXTENDS Utils

Params(i) == {p \in Nodes : Kind(p) = "ParmVarDecl" /\ tree[p].parent = i}

-----------------------------------------------------------------------------
(* function-args-by-ref, function-args-by-value                            *)

shouldIgnoreClass(c) ==
    isSharedPointer(c) \/ c \in {"QDebug", "QColor", "QStringRef", "QCharRef", "QGenericReturnArgument", "QHashDummyValue"}

\* Functions Qt itself could not change before Qt 6.
shouldIgnoreFunction(f) ==
    qtDeveloper /\ QualifiedName(f) \in {<<"QMenu", "exec">>, <<"QWidget", "addActions">>, <<"QListWidget", "mimeData">>}

\* What a parameter should be; the type of the class must be known.
Classification(i, param) == classifyQualType(TypeOf(param), TRUE, IsChangedIn(Body(i), Name(param)))

IsLookedInto(i) == Kind(i) \in FunctionContexts /\ OwnBody(i) # 0 /\ "deleted" \notin FunctionOf(i).is

ShouldBeReference(i, param) ==
    LET c == Classification(i, param) IN
      /\ ~shouldIgnoreClass(RecordOf(Unreferenced(TypeOf(param))))
      /\ c.ok /\ (c.bigByConstRef \/ c.nonTrivialByConstRef)
      /\ Kind(i) = "CXXConstructorDecl" => ~ctorInitializerContainsMove(ctorInitializer(i, Name(param)))

FunctionArgsByRef_processFunction(i) ==
    IF ~IsLookedInto(i) \/ FunctionOf(i).name = "operator<<" \/ shouldIgnoreFunction(FunctionOf(i)) THEN Silence
    ELSE UNION {WarnIf(ShouldBeReference(i, p), p, "missing reference") : p \in Params(i)}

FunctionArgsByRef_VisitDecl(i) == IF Kind(i) \in Functions THEN FunctionArgsByRef_processFunction(i) ELSE Silence
FunctionArgsByRef_VisitStmt(i) == IF Kind(i) = "LambdaExpr" THEN FunctionArgsByRef_processFunction(i) ELSE Silence

\* A field that is a reference must not refer to a parameter.
InitializesReference(i, param) ==
    \E j \in ctorInitializer(i, Name(param)) : "field" \in DOMAIN tree[j] /\ IsReference(tree[j].field)

ShouldBeValue(i, param) ==
    LET c == Classification(i, param) IN
      /\ ~shouldIgnoreClass(RecordOf(Unreferenced(TypeOf(param))))
      /\ c.ok /\ c.smallByValue
      /\ Kind(i) = "CXXConstructorDecl" => ~InitializesReference(i, param)

FunctionArgsByValue_processFunction(i) ==
    LET f == FunctionOf(i)
        overridden == isOptionSet("warn-for-overridden-methods")
    IN IF \/ ~IsLookedInto(i) \/ f.is \cap {"defaulted", "copy"} # {}
          \/ ~overridden /\ Attr(i, "overrides", {}) # {}
          \/ f.name \in {"operator<<", "operator=", "operator=="} \/ shouldIgnoreFunction(f)
       THEN Silence
       ELSE UNION {WarnIf(ShouldBeValue(i, p), p,
                          IF "virtual" \in f.is /\ ~overridden THEN "pass by value" ELSE "pass by value, fixit") : p \in Params(i)}

FunctionArgsByValue_VisitDecl(i) == IF Kind(i) \in Functions THEN FunctionArgsByValue_processFunction(i) ELSE Silence
FunctionArgsByValue_VisitStmt(i) == IF Kind(i) = "LambdaExpr" THEN FunctionArgsByValue_processFunction(i) ELSE Silence

-----------------------------------------------------------------------------
(* virtual-call-ctor                                                       *)

\* The calls that are not inside a lambda.
getChildsIgnoreLambda(root) ==
    {j \in getChilds(root, {"CXXMemberCallExpr"}) :
        ~ \E l \in getChilds(root, {"LambdaExpr"}) : j \in Below(l)}

DefinitionOf(f) == First({j \in Nodes : Kind(j) \in Functions /\ FunctionOf(j) = f /\ OwnBody(j) # 0})
DefinedBody(f) == OwnBody(DefinitionOf(f))

\* Mutant: what the class calls itself is not followed.
containsVirtualCall_Direct(class, body) ==
    First({j \in getChildsIgnoreLambda(body) :
              Kind(ImplicitObject(j)) = "CXXThisExpr" /\ CalleeOf(j).class = class /\ "pure" \in CalleeOf(j).is})

\* The calls one after the other, and what they call; no body twice.
containsVirtualCall(class, body) ==
    LET scan[calls \in SUBSET Nodes, processed \in SUBSET Nodes] ==
            LET call == Min(calls)
                f == CalleeOf(call)
                own == Kind(ImplicitObject(call)) = "CXXThisExpr" /\ f.class = class
                callee == DefinedBody(f)
                inner == IF own /\ callee \notin processed \cup {0}
                         THEN scan[getChildsIgnoreLambda(callee), processed \cup {callee}]
                         ELSE [found |-> 0, processed |-> processed]
            IN IF calls = {} THEN [found |-> 0, processed |-> processed]
               ELSE IF own /\ ("pure" \in f.is \/ inner.found # 0) THEN [found |-> call, processed |-> inner.processed]
               ELSE scan[calls \ {call}, inner.processed]
    IN scan[getChildsIgnoreLambda(body), {body}].found

VirtualCallCtor_VisitDecl(i) ==
    LET found == containsVirtualCall(FunctionOf(i).class, Body(i)) IN
      IF Kind(i) \notin {"CXXConstructorDecl", "CXXDestructorDecl"} \/ Body(i) = 0 \/ found = 0 THEN Silence
      ELSE Warn(i, "calls pure virtual") \cup Warn(found, "called here")

-----------------------------------------------------------------------------
(* returning-void-expression, non-pod-global-static: about the last          *)
(* declaration of the walk.                                                *)

ReturningVoidExpression_VisitStmt(i) ==
    LET function == contextForDecl(lastDecl') IN
      WarnIf(/\ Kind(i) = "ReturnStmt" /\ Child(i, 1) # 0 /\ IsVoid(TypeOf(Child(i, 1)))
             /\ lastDecl' # 0 /\ Kind(function) \in FunctionContexts
             /\ IsVoid(FunctionOf(function).returns), i, "returning a void expression")

shouldIgnoreType(c) == ShortName(c) \in {"Holder", "AFUNC", "QLoggingCategory", "QThreadStorage", "QQmlModuleRegistration"}

IgnoredMacros == {"Q_IMPORT_PLUGIN", "Q_CONSTRUCTOR_FUNCTION", "Q_DESTRUCTOR_FUNCTION", "Q_COREAPP_STARTUP_FUNCTION"}

IsTrivialConstruction(f) ==
    /\ "nonTrivialDtor" \notin Class(f.class).is
    /\ \/ f.params = <<>> /\ "trivialDefault" \in Class(f.class).is
       \/ "constexpr" \in f.is

\* Each declaration is warned about once, whatever it is initialized with.
NonPodGlobalStatic_VisitStmt(i) ==
    LET var == lastDecl' IN
      WarnIf(/\ Kind(var) = "VarDecl" /\ Is(var, "static") /\ Is(var, "file variable")
             /\ ~Is(var, "constexpr") /\ ~Is(var, "externally visible")
             /\ ~Is(i, "ignored file")
             /\ Attr(var, "macro", "") \notin IgnoredMacros
             /\ Kind(i) \in Constructions /\ CalleeOf(i).class # "" /\ ~IsTrivialConstruction(CalleeOf(i))
             /\ ~(qtDeveloper /\ unit.bootstrapping)
             /\ ~shouldIgnoreType(CalleeOf(i).class), var, "non-POD static")

\* In Qt 6 the type of a Q_GLOBAL_STATIC is a typedef of the class its holder
\* is an instance for; in Qt 5 it is the argument itself.
TypeOfGlobalStatic(t) ==
    LET held == TemplateArgs(t)[1] IN
      IF ShortName(Pointee(t).name) # "Holder" THEN t
      ELSE IF RecordOf(held) # "" /\ "QGS_Type" \in DOMAIN Class(held.name) THEN Class(held.name).QGS_Type ELSE NoType

WrongQGlobalStatic_VisitStmt(i) ==
    LET args == TemplateArgs(TypeOf(i))
        class == RecordOf(TypeOfGlobalStatic(args[1]))
    IN IF \/ Kind(i) \notin Constructions \/ CalleeOf(i).class \notin {"QGlobalStatic", "QGlobalStaticCompoundStmt"}
          \/ InMacro(i, "Q_GLOBAL_STATIC_WITH_ARGS")
          \/ args = <<>>
          \/ ShortName(Pointee(args[1]).name) = "Holder" /\ TemplateArgs(args[1]) = <<>>
       THEN Silence
       ELSE IF class = "" THEN Warn(i, "non-class type")
       ELSE WarnIf("trivialDefault" \in Class(class).is /\ "nonTrivialDtor" \notin Class(class).is, i, "trivial type")

GlobalConstCharPointer_VisitDecl(i) ==
    WarnIf(/\ Kind(i) \in Variables /\ Is(i, "file variable") /\ ~Is(i, "static") /\ ~Is(i, "extern")
           /\ ~ \E n \in contextsForDecl(DeclContext(i)) \ {0} : Kind(n) = "NamespaceDecl" /\ Is(n, "anonymous")
           /\ ~Is(i, "ignored file")
           /\ IsPointer(TypeOf(i)) /\ TypeOf(i).name = "char" /\ ~Is(i, "const pointer"), i, "char pointer")

-----------------------------------------------------------------------------
(* qhash-namespace                                                         *)

\* The names of the namespaces around a function, each with "::" behind it.
namespaceForFunction(i) ==
    LET around[j \in 0..MaxNodes] ==
            IF j = 0 THEN <<>> ELSE around[DeclContext(j)] \o (IF Kind(j) = "NamespaceDecl" THEN <<Name(j), "::">> ELSE <<>>)
    IN around[i]

namespaceForType(t) == Class(Pointee(t).name).scope

QHashNamespace_VisitDecl(i) ==
    LET f == FunctionOf(i)
        qHashNS == namespaceForFunction(i)
        argumentNS == namespaceForType(f.params[1])
    IN IF Kind(i) # "FunctionDecl" \/ f.params = <<>> \/ f.name # "qHash" THEN Silence
       ELSE WarnIf(qHashNS # argumentNS, i, IF qHashNS = <<>> THEN "move into" ELSE IF argumentNS = <<>> THEN "move out" ELSE "move to")
            \cup WarnIf(qtDeveloper /\ ~Is(i, "between Qt namespace macros"), i, "before QT_END_NAMESPACE")

-----------------------------------------------------------------------------
(* sanitize-inline-keyword                                                 *)

\* Constructors, destructors and most operators have none.
HasName(f) ==
    \/ f.is \cap {"ctor", "destructor", "conversion", "operator"} = {}
    \/ f.name \in {"operator[]", "operator<<", "operator+=", "operator==", "operator="}

\* A method of an exported class that is declared there and defined behind it.
SanitizeInlineKeyword_VisitDecl(i) ==
    LET f == FunctionOf(i) IN
      WarnIf(/\ Kind(i) \in Methods /\ "hidden" \notin Class(f.class).is /\ "constexpr" \notin f.is
             /\ Kind(DeclContext(i)) \in Records /\ OwnBody(i) = 0
             /\ DefinitionOf(f) # 0 /\ IsOutOfLine(DefinitionOf(f)) /\ HasName(f)
             /\ ~Is(i, "inline specified") /\ Is(DefinitionOf(f), "inline specified"), i, "inline")
-----------------------------------------------------------------------------
(* heap-allocated-small-trivial-type                                       *)

\* A pointer that stays in its function.
HeapAllocatedSmallTrivialType_VisitDecl(i) ==
    LET init == InitOf(i)
        function == DeclContext(i)
        type == Pointee(TypeOf(init))
    IN WarnIf(/\ Kind(i) \in Variables /\ Kind(init) = "CXXNewExpr" /\ ~Is(init, "placement") /\ ~Is(init, "array")
              /\ Kind(function) \in FunctionContexts
              /\ isSmallTrivial(type) /\ "private implementation" \notin Class(type.name).is
              /\ ~isAssignedTo(Body(function), Name(i)) /\ ~isReturned(Body(function), Name(i))
              /\ ~isPassedToFunction(Body(function), Anywhere, Name(i), FALSE), init, "small trivial type on the heap")

-----------------------------------------------------------------------------
(* unneeded-cast                                                           *)

InTernaryOperator(i) == getFirstParentOfType(i, {"ConditionalOperator"}) # 0

UnneededCast_maybeWarn(i, castFrom, castTo) ==
    IF castFrom = castTo THEN Warn(i, "casting to itself")
    ELSE WarnIf(derivesFrom(castFrom, castTo), i,
                IF Kind(i) \in Calls /\ InTernaryOperator(i) THEN "use static_cast" ELSE "casting to base")

handleNamedCast(i) ==
    LET castFrom == namedCastInnerDecl(i)
        castTo == namedCastOuterDecl(i)
        null == Kind(Child(i, 1)) = "ImplicitCastExpr" /\ Attr(Child(i, 1), "op", "") = "NullToPointer"
    IN IF \/ Kind(i) \notin {"CXXStaticCastExpr", "CXXDynamicCastExpr"} \/ Attr(i, "macro", "") # ""
          \/ ~IsClass(castFrom) \/ "forward" \in Class(castFrom).is \/ Len(Class(castFrom).bases) > 1
          \/ Kind(i) = "CXXStaticCastExpr" /\ (null \/ InTernaryOperator(i))
       THEN Silence
       ELSE WarnIf(/\ Kind(i) = "CXXDynamicCastExpr" /\ isQObject(castFrom)
                   /\ ~isOptionSet("prefer-dynamic-cast-over-qobject"), i, "use qobject_cast")
            \cup (IF IsClass(castTo) THEN UnneededCast_maybeWarn(i, castFrom, castTo) ELSE Silence)

\* From the type of the argument, below an implicit cast to a base, to the
\* template argument, which is what is returned.
handleQObjectCast(i) ==
    LET arg == Arg(i, 0)
        inner == IF Kind(arg) = "ImplicitCastExpr" /\ Attr(arg, "op", "") = "DerivedToBase" THEN Child(arg, 1) ELSE arg
    IN IF Kind(i) \in Calls /\ CalleeOf(i).name = "qobject_cast"
       THEN UnneededCast_maybeWarn(i, TypeOf(inner).name, CalleeOf(i).returns.name) ELSE Silence

UnneededCast_VisitStmt(i) == handleNamedCast(i) \cup handleQObjectCast(i)

-----------------------------------------------------------------------------
(* implicit-casts                                                          *)

IsBoolean(t) == t.name = "bool" /\ IsPlain(t)

\* Whose pointers and truth values may get mixed up.
isInterestingFunction(f) == (\E t \in SetOf(f.params) : IsBoolean(t)) /\ (\E t \in SetOf(f.params) : IsPointer(t))

isBoolToInt(f) ==
    f # NoFunction /\ isOptionSet("bool-to-int") /\ f.is \cap {"C", "variadic"} = {} /\ QualifiedName(f) # <<"QString", "arg">>

ImplicitArgs(i, op) == {arg \in SetOf(Args(i)) : Kind(arg) = "ImplicitCastExpr" /\ Attr(arg, "op", "") = op}

IsBoolToIntCast(arg) ==
    /\ ~IsBoolean(TypeOf(arg)) /\ IsBoolean(TypeOf(Child(arg, 1)))
    /\ getFirstChildOfType(arg, {"CXXFunctionalCastExpr", "CStyleCastExpr"}) = 0
    /\ ~isInsideOperatorCall(arg, {"QTextStream", "QAtomicInt", "QBasicAtomicInt"})
    /\ ~insideCTORCall(arg, {"QAtomicInt", "QBasicAtomicInt"})

ImplicitCasts_VisitStmt(i) ==
    LET f == CalleeOf(i) IN
      IF \/ Kind(i) \notin (Calls \cup Constructions) \ {"CXXOperatorCallExpr"} \/ Is(i, "ignored file")
         \/ Attr(i, "macro", "") \in {"QVERIFY", "Q_UNLIKELY", "Q_LIKELY"} THEN Silence
      ELSE IF isInterestingFunction(f)
      THEN UNION {Warn(arg, "pointer to bool") : arg \in ImplicitArgs(i, "PointerToBoolean")}
      ELSE IF isBoolToInt(f)
      THEN UNION {WarnIf(IsBoolToIntCast(arg), arg, "bool to int") : arg \in ImplicitArgs(i, "IntegralCast")}
      ELSE Silence

-----------------------------------------------------------------------------
(* wrong-qevent-cast: inside switch (e->type()).                             *)

\* Some of the table of classes whose names are not made from those of the events.
IrregularEvents ==
    "DragEnter" :> {"QDragEnterEvent", "QDragMoveEvent", "QDropEvent"} @@ "FocusIn" :> {"QFocusEvent"}
    @@ "MouseMove" :> {"QMouseEvent"} @@ "Wheel" :> {"QInputEvent"}

eventTypeMatchesClass(event, class) ==
    class = "Q" \o event \o "Event" \/ (event \in DOMAIN IrregularEvents /\ class \in IrregularEvents[event])

\* The case around it, of a switch over the same event, unless an if about the
\* event comes first.
getCaseStatement(i, event) ==
    LET isAbout(cond) == DeclOf(getFirstChildOfType2(cond, {"DeclRefExpr"})) = event
        decides == Nearest({j \in Upwards(parent(i)) :
                               \/ (Kind(j) = "IfStmt" /\ isAbout(Child(j, 1)))
                               \/ (Kind(j) = "CaseStmt" /\ isAbout(Child(getSwitchFromCase(j), 1)))})
    IN IF Kind(decides) = "CaseStmt" THEN decides ELSE 0

WrongQEventCast_VisitStmt(i) ==
    LET event == getFirstChildOfType2(Child(i, 1), {"DeclRefExpr"})
        case == getCaseStatement(i, DeclOf(event))
        enumerator == getFirstChildOfType2(Child(case, 1), {"DeclRefExpr"})
    IN WarnIf(/\ Kind(i) = "CXXStaticCastExpr" /\ TypeOf(Child(i, 1)).name = "QEvent"
              /\ IsClass(namedCastOuterDecl(i)) /\ event # 0 /\ case # 0 /\ Is(enumerator, "enumerator")
              /\ ~eventTypeMatchesClass(DeclOf(enumerator), ShortName(namedCastOuterDecl(i))), i, "suspicious cast")
=============================================================================
