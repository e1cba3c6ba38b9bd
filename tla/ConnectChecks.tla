---------------------------- MODULE ConnectChecks ----------------------------
(***************************************************************************)
(* The checks about signals, slots, events and connect().  What the          *)
(* AccessSpecifierManager says of a method is among its properties: "signal",  *)
(* "slot", or "unknown" for a method that a macro declares.                 *)
(***************************************************************************)
EXTENDS Utils, SignatureUtils

VARIABLES
    lastRecordDecl      \* OldStyleConnect::fixits: a static of each of its two instances

\* qtAccessSpecifierType: by the sections of a class that the manager has met.
HasMet(c) == \A j \in Nodes : Kind(j) \in Records /\ Name(j) = c => j \in specified'
IsSignal(f) == "signal" \in f.is /\ HasMet(f.class)
IsSlot(f) == "slot" \in f.is /\ HasMet(f.class)
IsInvokable(f) == "invokable" \in f.is /\ HasMet(f.class)
IsUnknown(f) == "unknown" \in f.is

-----------------------------------------------------------------------------
(* incorrect-emit                                                          *)

\* The preprocessor saw the macro right before what begins there.
m_emitLocations == {Begin(j) : j \in {k \in Nodes : Is(k, "emit")}}
hasEmitKeyboard(i) == Begin(i) \in m_emitLocations

checkCallSignalInsideCTOR(i) ==
    /\ Kind(lastMethodDecl') = "CXXConstructorDecl"
    /\ Kind(ImplicitObject(i)) = "CXXThisExpr"
    /\ getFirstParentOfType(i, {"LambdaExpr"}) = 0

IncorrectEmit_VisitStmt(i) ==
    LET f == CalleeOf(i) IN
      IF \/ Kind(i) # "CXXMemberCallExpr" \/ ~IsMethod(f) \/ Is(i, "moc file")
         \/ parent(i) # 0 /\ getFirstParentOfType(parent(i), {"CXXMemberCallExpr"}) # 0
         \/ IsUnknown(f)
      THEN Silence
      ELSE UNION {WarnIf(IsSignal(f) /\ ~hasEmitKeyboard(i), i, "missing emit"),
                  WarnIf(~IsSignal(f) /\ hasEmitKeyboard(i), i, "emit of non-signal"),
                  WarnIf(IsSignal(f) /\ checkCallSignalInsideCTOR(i), i, "emit in constructor")}

-----------------------------------------------------------------------------
(* old-style-connect                                                       *)

\* What a call is, by the function and its parameters; "" is nothing to look at.
ConnectKind(f) ==
    CASE QualifiedName(f) = <<"QObject", "connect">> /\ Len(f.params) = 5 -> "connect5"
      [] QualifiedName(f) = <<"QObject", "connect">> /\ Len(f.params) = 4 -> "connect4"
      [] QualifiedName(f) = <<"QObject", "disconnect">> /\ Len(f.params) = 4 -> "disconnect4"
      [] QualifiedName(f) = <<"QObject", "disconnect">> /\ Len(f.params) = 3 -> "disconnect3"
      [] QualifiedName(f) = <<"QObject", "disconnect">> /\ Len(f.params) = 2 -> "disconnect2"
      [] f.class = "QObject" /\ f.name \in {"connect", "disconnect"} -> "bogus"
      [] QualifiedName(f) = <<"QTimer", "singleShot">> -> "singleShot"
      [] QualifiedName(f) = <<"QState", "addTransition">> -> "addTransition"
      [] f.class \in {"QMenu", "QWidget"} /\ f.name = "addAction" -> "addAction"
      [] QualifiedName(f) = <<"QMessageBox", "open">> -> "open"
      [] QualifiedName(f) = <<"QSignalSpy", "QSignalSpy">> -> "spy"
      [] OTHER -> ""

Macro(arg) == Attr(arg, "macro", "")
isSignalOrSlot(arg) == Macro(arg) \in {"SIGNAL", "SLOT"}

NumLiterals(i) == Cardinality({k \in DOMAIN Args(i) : isSignalOrSlot(Args(i)[k])})

\* The signals and slots are given by macros, not by variables.
AreLiterals(kind, i) ==
    CASE kind \in {"connect5", "connect4", "disconnect4"} -> NumLiterals(i) = 2
      [] kind \in {"disconnect3", "disconnect2"} -> NumLiterals(i) # 0
      [] kind = "bogus" -> IF CalleeOf(i).name = "connect" THEN NumLiterals(i) = 2 ELSE NumLiterals(i) # 0
      [] OTHER -> NumLiterals(i) = 1

classifyConnect(i) ==
    LET kind == ConnectKind(CalleeOf(i)) IN
      IF kind = "" \/ connectHasPMFStyle(CalleeOf(i)) \/ ~AreLiterals(kind, i) THEN "" ELSE kind

getBestDynamicClassType(arg) ==
    LET inner == IF Kind(arg) = "ImplicitCastExpr" /\ Attr(arg, "op", "") = "DerivedToBase" THEN Child(arg, 1) ELSE arg
    IN RecordOf(Pointee(TypeOf(inner)))

isPrivateSlot(name) == name \in unit.privateSlots

\* Why the macro of an argument cannot be replaced; "" when it can.
WhyNot(kind, i, arg, class, sender) ==
    LET methods == methodsFromString(class, Attr(arg, "method", ""))
        f == CHOOSE m \in methods : TRUE
        first == sender = NoFunction
    IN CASE class = "" -> "no class"
         [] class # "" /\ methods = {} ->
              IF isPrivateSlot(Attr(arg, "method", "")) THEN "private slot"
              ELSE IF qtDeveloper /\ class # "QDBusInterface" THEN "silence" ELSE "no such method"
         [] Cardinality(methods) > 1 -> "overloads"
         [] OTHER ->
              IF IsSignal(f) /\ Macro(arg) = "SLOT" THEN "signal as slot"
              ELSE IF IsStatic(f) THEN "silence"
              ELSE IF ~first /\ Len(f.params) > Len(sender.params) THEN "more parameters"
              ELSE IF ~first /\ \E k \in DOMAIN f.params : ~isConvertibleTo(sender.params[k], f.params[k]) THEN "incompatible"
              ELSE IF kind \in {"singleShot", "addAction"} /\ f.params # <<>> THEN "slot with arguments"
              ELSE IF canTakeAddressOf(f, DeclContext(lastDecl')) = "no" THEN "no access" ELSE ""

\* How the replacement names the method: included files ignore using directives.
NeededContexts(f, arg) ==
    IF canTakeAddressOf(f, DeclContext(lastDecl')) = "as derived" THEN <<>>
    ELSE getMostNeededQualifiedName(f, DeclContext(lastDecl'), Begin(arg), tree[arg].place = "main")

\* What is known behind an argument: the class of the last one that has a
\* class is that of the next macro.  It is forgotten when a macro was replaced.
AfterArg(kind, i, arg, before) ==
    LET class == IF before.class # "" \/ kind # "connect4" THEN before.class ELSE recordForMemberCall(i).class
        why == WhyNot(kind, i, arg, class, before.sender)
        f == CHOOSE m \in methodsFromString(class, Attr(arg, "method", "")) : TRUE
    IN IF before.failed # "" THEN before
       ELSE IF ~isSignalOrSlot(arg)
       THEN IF getBestDynamicClassType(arg) = "" THEN before ELSE [before EXCEPT !.class = getBestDynamicClassType(arg)]
       ELSE IF why # "" THEN [before EXCEPT !.class = class, !.failed = why, !.at = arg]
       ELSE [before EXCEPT !.class = "", !.macros = @ + 1, !.qualified = @ \/ NeededContexts(f, arg) # <<>>,
                           !.sender = IF before.macros = 0 THEN f ELSE @]

BeforeArgs(static) ==
    [class |-> static, sender |-> NoFunction, macros |-> 0, qualified |-> FALSE, failed |-> "", at |-> 0]

\* The arguments one after the other.
Fixits(kind, i, static) ==
    LET after[k \in 0..Len(Args(i))] ==
            IF k = 0 THEN BeforeArgs(static) ELSE AfterArg(kind, i, Args(i)[k], after[k - 1])
    IN IF kind \in {"disconnect2", "disconnect3", "open"}
       THEN [BeforeArgs(static) EXCEPT !.failed = "not implemented", !.at = i] ELSE after[Len(Args(i))]

IsLookedAt(i) ==
    /\ Kind(i) \in Calls \cup Constructions /\ IsMethod(CalleeOf(i))
    /\ ~(qtDeveloper /\ FunctionOf(lastMethodDecl').class = "QObject")
    /\ classifyConnect(i) # ""

Instance(i) == IF Kind(i) \in Calls THEN "call" ELSE "ctor"

OldStyleConnect_VisitStmt(i) ==
    LET kind == classifyConnect(i)
        fixits == Fixits(kind, i, lastRecordDecl[Instance(i)])
    IN IF ~IsLookedAt(i) THEN Silence
       ELSE IF kind = "bogus" THEN Warn(i, "internal error")
       ELSE Warn(i, IF fixits.failed # "" THEN "old style"
                    ELSE IF fixits.qualified THEN "old style, qualified fixits" ELSE "old style, fixits")
              \cup WarnIf(fixits.failed \notin {"", "silence"}, fixits.at, fixits.failed)

\* Mutant: the class of the last object stays when a macro was replaced.
LastRecordDeclAfter_Kept(i) ==
    LET objects == {k \in DOMAIN Args(i) : getBestDynamicClassType(Args(i)[k]) # ""} IN
      IF IsLookedAt(i) /\ objects # {}
      THEN [lastRecordDecl EXCEPT ![Instance(i)] = getBestDynamicClassType(Args(i)[Max(objects)])] ELSE lastRecordDecl

LastRecordDeclAfter(i) ==
    IF IsLookedAt(i) /\ classifyConnect(i) # "bogus"
    THEN [lastRecordDecl EXCEPT ![Instance(i)] = Fixits(classifyConnect(i), i, @).class] ELSE lastRecordDecl

-----------------------------------------------------------------------------
(* connect-3arg-lambda                                                     *)

\* The names of the first and the last parameters tell the overloads apart.
ParamNames(f) == IF "names" \in DOMAIN f THEN f.names ELSE <<>>

HasFunctorWithoutContext(f) ==
    CASE QualifiedName(f) = <<"QTimer", "singleShot">> ->
           ParamNames(f) \in {<<"interval", "slot">>, <<"interval", "timerType", "slot">>}
      [] QualifiedName(f) = <<"QMenu", "addAction">> -> ParamNames(f) = <<"text", "slot", "shortcut">>
      [] QualifiedName(f) = <<"QWidget", "addAction">> ->
           LET n == Len(ParamNames(f)) IN n > 1 /\ ParamNames(f)[n] = "args" /\ ParamNames(f)[n - 1] # "args"
      [] OTHER -> FALSE

\* The sender is the first name on the way down, unless a member comes before.
SenderOf(arg) ==
    LET found == First({j \in {arg} \cup FirstBranch(arg) : Kind(j) \in {"DeclRefExpr", "MemberExpr"}})
    IN IF Kind(found) = "DeclRefExpr" THEN DeclOf(found) ELSE ""

LambdaIn(arg) == IF Kind(arg) = "LambdaExpr" THEN arg ELSE getFirstChildOfType2(arg, {"LambdaExpr"})
LambdaBody(lambda) == Last(children(lambda))

UsesAnotherObject(body, sender, senderIsThis) ==
    \/ \E j \in getStatements(body, {"DeclRefExpr"}, 0) : DeclOf(j) # sender /\ isQObject(Pointee(TypeOf(NodeOf(DeclOf(j)))).name)
    \/ ~senderIsThis /\ getStatements(body, {"CXXThisExpr"}, 0) # {}

Connect3ArgLambda_VisitStmt(i) ==
    LET f == CalleeOf(i)
        lambda == LambdaIn(Arg(i, 2))
        senderIsThis == unpeal(Arg(i, 0), {"CXXThisExpr"}, {"ImplicitCastExpr"}) # 0
    IN IF Kind(i) \notin Calls \/ Len(f.params) \notin {2, 3} THEN Silence
       ELSE IF HasFunctorWithoutContext(f) THEN Warn(i, "pass a context object")
       ELSE WarnIf(/\ Len(f.params) = 3 /\ isConnect(f) /\ lambda # 0
                   /\ UsesAnotherObject(LambdaBody(lambda), SenderOf(Arg(i, 0)), senderIsThis), i, "pass a context object")

-----------------------------------------------------------------------------
(* lambda-in-connect, lambda-unique-connection, connect-non-signal         *)

Captures(i) == Attr(i, "captures", <<>>)

\* Where the lambda is called later, by a connect() of objects that live on.
LambdaInConnect_VisitStmt(i) ==
    LET call == getFirstParentOfType(i, Calls)
        onStack(decl) == decl # "" /\ ~IsPointer(TypeOf(NodeOf(decl)))
        receiver == signalReceiverForConnect(call)
    IN IF \/ Kind(i) # "LambdaExpr" \/ Captures(i) = <<>>
          \/ QualifiedName(CalleeOf(call)) # <<"QObject", "connect">>
          \/ onStack(signalSenderForConnect(call)) \/ onStack(receiver)
       THEN Silence
       ELSE WarnIf(\E c \in SetOf(Captures(i)) :
                      c.byRef /\ c.decl # receiver /\ isValueDeclInFunctionContext(NodeOf(c.decl)), i, "captured by reference")

LambdaUniqueConnection_VisitStmt(i) ==
    LET f == CalleeOf(i) IN
      WarnIf(/\ Kind(i) \in Calls /\ Len(f.params) = 5 /\ "template" \in f.is /\ isConnect(f) /\ connectHasPMFStyle(f)
             /\ \E j \in getChilds(Arg(i, 4), {"DeclRefExpr"}) : DeclOf(j) = "UniqueConnection"
             /\ pmfFromConnect(i, 3) = NoFunction, Arg(i, 4), "unique connection")

ConnectNonSignal_VisitStmt(i) ==
    LET method == pmfFromConnect(i, 1) IN
      IF Kind(i) \notin Calls \/ ~isConnect(CalleeOf(i)) \/ ~connectHasPMFStyle(CalleeOf(i)) THEN Silence
      ELSE IF method = NoFunction THEN WarnIf(~isQMetaMethod(i, 1), i, "report a bug")
      ELSE WarnIf(~IsUnknown(method) /\ ~IsSignal(method), i, "not a signal")

-----------------------------------------------------------------------------
(* connect-not-normalized                                                  *)

LiteralOf(arg) == getFirstChildOfType2(arg, {"StringLiteral"})
TokensOf(literal) == Attr(literal, "tokens", <<>>)

\* Q_ARG and Q_RETURN_ARG.
IsQArg(i) ==
    /\ Len(Args(i)) = 2 /\ LiteralOf(Arg(i, 0)) # 0
    /\ \/ Kind(i) \in Calls /\ CalleeOf(i).returns.name \in {"QMetaMethodArgument", "QMetaMethodReturnArgument"}
       \/ Kind(i) \in Constructions /\ CalleeOf(i).name \in {"QArgument", "QReturnArgument"}

\* SIGNAL() and SLOT() of a connect(), not of a disconnect().
IsConnectSignature(i) ==
    /\ Kind(i) \in Calls /\ CalleeOf(i).name = "qFlagLocation" /\ Len(CalleeOf(i).params) = 1
    /\ CalleeOf(getFirstParentOfType(parent(i), Calls)).name = "connect"
    /\ LiteralOf(Arg(i, 0)) # 0

\* What the check proposes instead.
Normalized(i) ==
    IF IsQArg(i) THEN normalizedType(TokensOf(LiteralOf(Arg(i, 0))))
    ELSE IF IsConnectSignature(i) THEN normalizedSignature(TokensOf(LiteralOf(Arg(i, 0)))) ELSE <<>>

ConnectNotNormalized_VisitStmt(i) ==
    WarnIf(/\ IsQArg(i) \/ IsConnectSignature(i)
           /\ Normalized(i) # TokensOf(LiteralOf(Arg(i, 0))), i, "not normalized")

-----------------------------------------------------------------------------
(* modernize-overloaded-connects                                           *)

IgnoreImplicit(i) ==
    Through(i, {"ImplicitCastExpr", "MaterializeTemporaryExpr", "CXXBindTemporaryExpr", "ExprWithCleanups"})

IsOverloaded(f) == \E g \in Class(f.class).methods : g # f /\ g.name = f.name

checkConnectArg(i, k) ==
    LET f == pmfFromConnect(i, k)
        arg == IgnoreImplicit(Arg(i, k))
        of == CalleeOf(arg)
    IN IF f = NoFunction THEN Silence
       ELSE UNION {
         WarnIf(/\ Kind(arg) = "CXXOperatorCallExpr" /\ Len(Args(arg)) > 1 /\ ~IsOverloaded(f)
                /\ Kind(IgnoreImplicit(Arg(arg, 0))) = "DeclRefExpr"
                /\ TypeOf(IgnoreImplicit(Arg(arg, 0))).name = "QOverload", i, "unneeded qOverload"),
         WarnIf(Kind(arg) \in Calls /\ of.name = "of" /\ of.class = "QNonConstOverload", i,
                IF IsOverloaded(f) THEN "use qOverload" ELSE "unneeded QOverload::of"),
         WarnIf(Kind(arg) = "CXXStaticCastExpr", i, "unneeded cast")}

ModernizeOverloadedConnects_VisitStmt(i) ==
    LET f == CalleeOf(i)
        n == Len(Args(i))
    IN IF Kind(i) \notin Calls \/ ~HasCallee(i) \/ ~connectHasPMFStyle(f) THEN Silence
       ELSE IF QualifiedName(f) = <<"QObject", "connect">>
       THEN checkConnectArg(i, 1) \cup checkConnectArg(i, IF n > 3 THEN 3 ELSE 2)
       ELSE IF QualifiedName(f) = <<"QTimer", "singleShot">> THEN checkConnectArg(i, n - 1)
       ELSE IF f.class \in {"QMenu", "QWidget"} /\ f.name = "addAction"
       THEN checkConnectArg(i, IF qtVersion >= 60000 THEN n - 1 ELSE n - 2) ELSE Silence

-----------------------------------------------------------------------------
(* thread-with-slots                                                       *)

IsMutex(t) == ShortName(RecordOf(t)) \in {"QMutex", "QBasicMutex"}
hasMutexes(body) == \E j \in getStatements(body, {"DeclRefExpr"}, 0) : IsMutex(TypeOf(j))

\* Where a method is declared.
DeclarationOf(f) == First({j \in Nodes : Kind(j) \in Functions /\ FunctionOf(j) = f})

IsThreadMethod(f) == IsMethod(f) /\ derivesFrom(f.class, "QThread") /\ f.class # "QThread"

\* Slots that are not marked as such are found where they are connected.
ThreadWithSlots_VisitStmt(i) ==
    LET slot == receiverMethodForConnect(i) IN
      WarnIf(/\ Kind(i) \in Calls /\ isConnect(CalleeOf(i))
             /\ IsThreadMethod(slot) /\ ~IsSlot(slot) /\ ~IsSignal(slot), DeclarationOf(slot), "slot of a thread")

ThreadWithSlots_VisitDecl(i) ==
    LET members == getStatements(Body(i), {"MemberExpr"}, 0) IN
      WarnIf(/\ Kind(i) \in Methods /\ OwnBody(i) # 0
             /\ IsThreadMethod(FunctionOf(i)) /\ IsSlot(FunctionOf(i))
             /\ ~hasMutexes(Body(i)) /\ members # {} /\ \A j \in members : ~IsMutex(TypeOf(j)), i, "slot of a thread")

-----------------------------------------------------------------------------
(* What a QObject class overrides and hands over: events, parents, event     *)
(* filters; and the declarations of its signals and slots.                  *)

IsScriptable(f) == "scriptable" \in f.is
MethodOf(i) == IF Kind(i) \in Methods /\ ~IsOutOfLine(i) THEN FunctionOf(i) ELSE NoFunction

-----------------------------------------------------------------------------
(* const-signal-or-slot, signal-with-return-value, virtual-signal           *)

\* What is marked as a slot or a signal is looked at where it is declared.
ConstSignalOrSlot_VisitStmt(i) ==
    LET slot == receiverMethodForConnect(i) IN
      WarnIf(/\ Kind(i) \in Calls /\ isConnect(CalleeOf(i)) /\ connectHasPMFStyle(CalleeOf(i))
             /\ slot # NoFunction /\ IsConst(slot) /\ ~IsVoid(slot.returns)
             /\ ~IsSlot(slot) /\ ~IsSignal(slot), i, "possibly a getter")

ConstSignalOrSlot_VisitDecl(i) ==
    LET f == MethodOf(i) IN
      IF ~IsConst(f) \/ derivesFrom(f.class, "QDBusAbstractInterface") \/ IsScriptable(f) THEN Silence
      ELSE IF IsSlot(f) THEN WarnIf(~IsVoid(f.returns), i, "getter mismarked as slot")
      ELSE WarnIf(IsSignal(f), i, "const signal")

SignalWithReturnValue_VisitDecl(i) ==
    LET f == MethodOf(i) IN
      IF ~IsSignal(f) \/ IsScriptable(f) THEN Silence
      ELSE UNION {WarnIf(~IsVoid(f.returns), i, "signal returns a value"),
                  WarnIf(\E t \in SetOf(f.params) : IsReference(t) /\ ~isConstRef(t), i, "signal has a reference")}

\* A base that is no QObject may demand it.
VirtualSignal_VisitDecl(i) ==
    WarnIf(/\ Kind(i) \in Methods /\ "virtual" \in FunctionOf(i).is /\ IsSignal(FunctionOf(i))
           /\ \A c \in Attr(i, "overrides", {}) : isQObject(c), i, "virtual signal")

-----------------------------------------------------------------------------
(* overloaded-signal, overridden-signal                                    *)

\* In the class itself and in its bases.
OverloadedSignal_VisitDecl(i) ==
    LET f == MethodOf(i)
        overloads(c) == {m \in Class(c).methods : m.name = f.name /\ ~parametersMatch(m, f)}
    IN IF ~IsSignal(f) THEN Silence
       ELSE UNION {WarnIf(overloads(c) # {}, i, IF c = f.class THEN "overloaded" ELSE "overloaded in a base") :
                       c \in SetOf(ObjectLineage(f.class))}

\* What the nearest base has that would make it a warning.
OverriddenIn(f) ==
    LET bases == Tail(ObjectLineage(f.class))
        wrong(c) == {m \in Class(c).methods :
                        m.name = f.name /\ parametersMatch(f, m) /\ (IsSignal(f) \/ IsSignal(m))}
        found == SelectSeq(bases, LAMBDA c : wrong(c) # {})
    IN IF found = <<>> THEN {} ELSE wrong(found[1])

OverriddenSignal_VisitDecl(i) ==
    LET f == MethodOf(i)
        m == CHOOSE g \in OverriddenIn(f) : TRUE
    IN IF f = NoFunction \/ OverriddenIn(f) = {} THEN Silence
       ELSE Warn(i, IF ~IsSignal(f) THEN "method over signal"
                    ELSE IF IsSignal(m) THEN "signal over signal" ELSE "signal over method")

-----------------------------------------------------------------------------
(* connect-by-name, static-pmf, install-event-filter, post-event            *)

ConnectByName_VisitDecl(i) ==
    IF Kind(i) \notin Records THEN Silence
    ELSE UNION {Warn(m, "connect by name") :
                    m \in {n \in Nodes : /\ tree[n].parent = i /\ Kind(n) \in Methods
                                         /\ "on_foo_bar" \in FunctionOf(n).is /\ IsSlot(FunctionOf(n))}}

StaticPmf_VisitDecl(i) ==
    WarnIf(/\ Kind(i) = "VarDecl" /\ Is(i, "static local") /\ "member function" \in TypeOf(i).is
           /\ isQObject(TypeOf(i).name), i, "static pointer to member")

\* this->installEventFilter(object): the object overrides no eventFilter.
InstallEventFilter_VisitStmt(i) ==
    LET filter == Pointee(TypeOf(Through(Arg(i, 0), Casts))).name IN
      WarnIf(/\ Kind(i) = "CXXMemberCallExpr" /\ Len(Args(i)) = 1
             /\ QualifiedName(CalleeOf(i)) = <<"QObject", "installEventFilter">>
             /\ Kind(getFirstChildAtDepth(ImplicitObject(i), 1)) = "CXXThisExpr"
             /\ \A f \in methodsFromString(filter, "eventFilter") : f.class = "QObject", i, "filter and monitored object")

PostEvent_VisitStmt(i) ==
    WarnIf(/\ Kind(i) \in Calls /\ QualifiedName(CalleeOf(i)) = <<"QCoreApplication", "postEvent">>
           /\ TypeOf(Arg(i, 1)).name = "QEvent" /\ IsPointer(TypeOf(Arg(i, 1)))
           /\ heapOrStackAllocated(Arg(i, 1), "QEvent") = "stack", i, "event on the stack")

-----------------------------------------------------------------------------
(* base-class-event, child-event-qobject-cast, skipped-base-method          *)

\* The base classes of Qt do nothing with filtered events.
BaseClassEvent_VisitDecl(i) ==
    LET f == FunctionOf(i)
        returnsFalse(j) == Kind(Child(j, 1)) = "CXXBoolLiteralExpr" /\ ~Is(Child(j, 1), "true")
    IN IF \/ Kind(i) \notin Methods \/ OwnBody(i) = 0 \/ f.name \notin {"event", "eventFilter"}
          \/ ~isQObject(f.class) \/ f.class \in {"QObject", "QWidget"}
          \/ f.name = "eventFilter" /\ getQObjectBaseClass(f.class) \in {"QObject", "QWidget"}
       THEN Silence
       ELSE UNION {WarnIf(returnsFalse(j), j, "return of the base class") : j \in getChilds(Body(i), {"ReturnStmt"})}

ChildEventQObjectCast_VisitDecl(i) ==
    LET casts == {j \in getStatements(Body(i), Calls, 0) : Len(Args(j)) = 1 /\ CalleeOf(j).name = "qobject_cast"}
        child(j) == /\ Kind(Arg(j, 0)) = "CXXMemberCallExpr"
                    /\ QualifiedName(CalleeOf(Arg(j, 0))) = <<"QChildEvent", "child">>
    IN IF \/ Kind(i) \notin Methods \/ Body(i) = 0 \/ ~isQObject(FunctionOf(i).class)
          \/ FunctionOf(i).name \notin {"event", "childEvent", "eventFilter"}
       THEN Silence
       ELSE UNION {WarnIf(child(j), Arg(j, 0), "cast in childEvent") : j \in casts}

\* Base::method() with a class in between that implements it.
SkippedBaseMethod_VisitStmt(i) ==
    LET this == unpeal(ImplicitObject(i), {"CXXThisExpr"}, {"ImplicitCastExpr"})
        f == CalleeOf(i)
    IN WarnIf(/\ Kind(i) = "CXXMemberCallExpr" /\ this # 0
              /\ \E c \in BasesUpTo(TypeOf(this).name, f.class) \ {f.class} : classImplementsMethod(c, f), i, "skipped base")

-----------------------------------------------------------------------------
(* ctor-missing-parent-argument                                            *)

expectedParentTypeFor(c) ==
    IF derivesFrom(c, "QWidget") THEN "QWidget"
    ELSE IF derivesFrom(c, "QQuickItem") THEN "QQuickItem"
    ELSE IF derivesFrom(c, "Qt3DCore::QEntity") THEN "Qt3DCore::QNode" ELSE "QObject"

CtorMissingParentArgument_VisitDecl(i) ==
    LET c == Name(i)
        own == recordHasCtorWithParam(c, expectedParentTypeFor(c))
        base == getQObjectBaseClass(c)
        inherited == recordHasCtorWithParam(base, expectedParentTypeFor(c))
    IN WarnIf(/\ Kind(i) \in Records /\ isQObject(c) /\ "inherited ctor" \notin Class(c).is
              /\ own.ok /\ own.numCtors > 0 /\ ~own.has
              /\ ~(inherited.ok /\ ~inherited.has /\ "system" \in Class(base).is)
              /\ base # "QCoreApplication", i, "no parent argument")
=============================================================================
