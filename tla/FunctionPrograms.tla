--------------------------- MODULE FunctionPrograms --------------------------
(* Functions: their parameters, what they return and whom they call.         *)
EXTENDS ClassPrograms

\* A few types with each way to pass them.
Passed == <<"Big", "Counted", "Small", "int", "QColor", "QSharedPointer">>
Ways == <<"value", "const", "const ref", "ref", "rvalue", "pointer">>
Uses == <<"read", "changed", "handed over">>
Parameters == Combinations(<<Passed, Ways, Uses>>)

PassedAs(type, way) ==
    CASE way = "value" -> T(type)
      [] way = "const" -> Const(T(type))
      [] way = "const ref" -> Const(Ref(T(type)))
      [] way = "ref" -> Ref(T(type))
      [] way = "rvalue" -> As(T(type), {"rvalueRef"})
      [] OTHER -> Const(Ptr(T(type)))

\* A method that changes it, a function that may.
UsedAs(type, use) ==
    CASE use = "read" -> <<Ask(Use("p", T(type)), type, "get", Integer, {"const"})>>
      [] use = "changed" -> <<Ask(Use("p", T(type)), type, "change", Void, {})>>
      [] OTHER -> <<Call(Fn("", "modify", <<Ref(T(type))>>, Void, {}), <<Use("p", T(type))>>)>>

\* Copies that cost and that nobody changes; references to what is small.
ByRef(c) == c[1] \in {"Big", "Counted"} /\ (c[2] = "const" \/ (c[2] = "value" /\ c[3] = "read"))
ByValue(c) == c[1] \in {"Small", "int"} /\ c[2] = "const ref"

ArgumentChecks == {"function-args-by-ref", "function-args-by-value"}
ArgumentSays(c, how) ==
    Says(ByRef(c), "function-args-by-ref", "missing reference") \cup Says(ByValue(c), "function-args-by-value", how)

Taking(f, c) == Define(f, <<Parameter("p", PassedAs(c[1], c[2]))>>, UsedAs(c[1], c[3]))
Arguments ==
    LET all == Parameters IN
      [n \in DOMAIN all |-> Unit(<<Taking(Simple, all[n])>>, ArgumentChecks, ArgumentSays(all[n], "pass by value, fixit"))]

\* What function has it matters, too.
ACopy == <<"Big", "value", "read">>
AReference == <<"Small", "const ref", "read">>
Taken(f, c, byRef, byValue) ==
    Unit(<<Taking(f, c)>>, ArgumentChecks,
         Says(byRef, "function-args-by-ref", "missing reference") \cup Says(byValue # "", "function-args-by-value", byValue))
Overrides(f, c, flags) == <<With(Taking(f, c), [overrides |-> {"Item"}])>>

\* A constructor with an initializer in front of its body.
Initializing(init, c) ==
    Node("CXXConstructorDecl", [func |-> Constructor("Item", <<PassedAs(c[1], c[2])>>), is |-> {"inline"}],
         <<Parameter("p", PassedAs(c[1], c[2])), init, Block(<<>>)>>)
Moved(type) == Call(Fn("std", "move", <<Ref(T(type))>>, As(T(type), {"rvalueRef"}), {}), <<Use("p", T(type))>>)
IntoField(e, field) == With(e, [field |-> field])

SomeArguments ==
    <<Taken(Fn("", "operator<<", <<>>, Void, {}), ACopy, FALSE, ""), Taken(Fn("", "operator<<", <<>>, Void, {}), AReference, FALSE, ""),
      Taken(Fn("", "operator==", <<>>, Void, {}), AReference, FALSE, ""), Taken(Fn("", "f", <<>>, Void, {"deleted"}), ACopy, FALSE, ""),
      Taken(Fn("Item", "f", <<>>, Void, {"virtual"}), AReference, FALSE, "pass by value"),
      Taken(Fn("QMenu", "exec", <<>>, Void, {}), ACopy, TRUE, ""),
      Developer(Taken(Fn("QMenu", "exec", <<>>, Void, {}), ACopy, FALSE, "")),
      Unit(Overrides(Fn("Item", "f", <<>>, Void, {"virtual"}), AReference, {}), ArgumentChecks, {}),
      [Unit(Overrides(Fn("Item", "f", <<>>, Void, {"virtual"}), AReference, {}), ArgumentChecks,
            Says(TRUE, "function-args-by-value", "pass by value, fixit")) EXCEPT !.options = {"warn-for-overridden-methods"}],
      Unit(<<Initializing(Moved("Big"), ACopy)>>, ArgumentChecks, {}),
      Unit(<<Initializing(Use("p", T("Big")), ACopy)>>, ArgumentChecks, ArgumentSays(ACopy, "")),
      Unit(<<Initializing(IntoField(Use("p", T("Small")), Ref(T("Small"))), AReference)>>, ArgumentChecks, {}),
      Unit(<<Initializing(IntoField(Use("p", T("Small")), T("Small")), AReference)>>, ArgumentChecks, ArgumentSays(AReference, "pass by value, fixit")),
      Unit(<<Function(<<Node("LambdaExpr", [func |-> Closure],
                             <<Parameter("p", T("Big")), Block(<<Call(Simple, <<>>)>>)>>)>>)>>, ArgumentChecks,
           Says(TRUE, "function-args-by-ref", "missing reference"))>>

-----------------------------------------------------------------------------
(* A constructor, two methods and a pure virtual one: who calls whom.        *)

Pure == Fn("Shape", "draw", <<>>, Void, {"virtual", "pure"})
First2 == Fn("Shape", "first", <<>>, Void, {})
Second2 == Fn("Shape", "second", <<>>, Void, {})
CalledBy(calls) == OneOf(calls[1], OnSelf(First2)) \o OneOf(calls[2], OnSelf(Second2)) \o OneOf(calls[3], OnSelf(Pure))

\* Whether the pure one is reached.
ReachesPure(g) ==
    LET from == [f \in 1..3 |-> {k \in 1..3 : g[3 * (f - 1) + k]}]     \* the constructor, then the methods
        step(s) == s \cup UNION {from[f + 1] : f \in s \ {3}}
    IN 3 \in step(step(from[1]))

VirtualWarnings(found) ==
    {<<"virtual-call-ctor", text>> : text \in {t \in {"calls pure virtual", "called here"} : found}}

VirtualCalls ==
    LET all == Combinations(<<Either, Either, Either, Either, Either, Either, Either, Either, <<FALSE>>>>)
    IN [n \in DOMAIN all |->
          LET g == all[n] IN
            Unit(<<Record("Shape", <<Define(Constructor("Shape", <<>>), <<>>, CalledBy(SubSeq(g, 1, 3))), Declare(Pure),
                                     Define(First2, <<>>, CalledBy(SubSeq(g, 4, 6))), Define(Second2, <<>>, CalledBy(SubSeq(g, 7, 9)))>>)>>,
                 {"virtual-call-ctor"}, VirtualWarnings(ReachesPure(g)))]

\* The constructor or the destructor of a class with the methods it calls, each
\* of them in the class or declared there and defined behind it.
DefinedBehind ==
    LET either == <<Constructor("Shape", <<>>), Fn("Shape", "~Shape", <<>>, Void, {"destructor"})>>
        all == Combinations(<<Either, Either, Either, Either, Either, Either>>)
        inside(f, behind, body) == IF behind THEN Declare(f) ELSE Define(f, <<>>, body)
        outside(f, behind, body) == OneOf(behind, DefineOutside(f, <<>>, body))
    IN [n \in DOMAIN all |->
          LET g == all[n]
              special == either[IF g[1] THEN 2 ELSE 1]
              calls == OneOf(g[2], OnSelf(Pure)) \o OneOf(g[3], OnSelf(First2))
              indirect == OneOf(g[4], OnSelf(Pure))
          IN Unit(<<Record("Shape", <<inside(special, g[5], calls), Declare(Pure), inside(First2, g[6], indirect)>>)>>
                      \o outside(First2, g[6], indirect) \o outside(special, g[5], calls),
                  {"virtual-call-ctor"}, VirtualWarnings(g[2] \/ (g[3] /\ g[4])))]

InShape(body) == <<Record("Shape", <<Define(Constructor("Shape", <<>>), <<>>, body), Declare(Pure)>>)>>
OtherCalls ==
    <<Unit(InShape(<<Lambda(Closure, <<OnSelf(Pure)>>)>>), {"virtual-call-ctor"}, {}),
      Unit(InShape(<<MemberCall(Use("other", Ptr(T("Shape"))), Pure, <<>>)>>), {"virtual-call-ctor"}, {}),
      Unit(InShape(<<OnSelf(Fn("Shape", "area", <<>>, Void, {"virtual"}))>>), {"virtual-call-ctor"}, {})>>

-----------------------------------------------------------------------------
(* Statements that are judged by the last declaration of the walk.           *)

Calling == Call(Simple, <<>>)
IntFunction == Fn("", "g", <<>>, Integer, {})
VoidReturns ==
    Judged("returning-void-expression",
      <<<<<<Function(<<Return(<<Calling>>)>>)>>, "returning a void expression">>, <<<<Function(<<Return(<<>>)>>)>>, "">>,
        <<<<Define(IntFunction, <<>>, <<Return(<<Number(1)>>)>>)>>, "">>,
        <<<<Function(<<Local("x", Integer, <<>>), Return(<<Calling>>)>>)>>, "returning a void expression">>,
        <<<<Function(<<Lambda(Fn("", "operator()", <<>>, Void, {}), <<Return(<<Calling>>)>>)>>)>>, "returning a void expression">>,
        <<<<Define(IntFunction, <<>>, <<Lambda(Closure, <<Return(<<Calling>>)>>), Return(<<Number(1)>>)>>)>>, Contested>>,
        <<<<Define(IntFunction, <<>>, <<Lambda(Closure, <<Local("x", Integer, <<>>), Return(<<Calling>>)>>)>>)>>,
          "returning a void expression">>>>)

\* A variable of the file and how it is constructed.
Global(type, flags, macro, f) ==
    With(Variable("g", type, {"file variable"} \cup flags, <<Construct(f, <<>>)>>), [macro |-> macro])
GlobalOf(class, flags) == Global(T(class), flags, "", Constructor(class, <<>>))
Globals ==
    Judged("non-pod-global-static",
      <<<<<<GlobalOf("Counted", {"static"})>>, "non-POD static">>, <<<<GlobalOf("Counted", {})>>, "">>,
        <<<<GlobalOf("Counted", {"static", "constexpr"})>>, "">>, <<<<GlobalOf("Counted", {"static", "externally visible"})>>, "">>,
        <<<<GlobalOf("TrivialItem", {"static"})>>, "">>, <<<<GlobalOf("Small", {"static"})>>, "non-POD static">>,
        <<<<GlobalOf("QLoggingCategory", {"static"})>>, "">>,
        <<<<Global(T("Counted"), {"static"}, "Q_IMPORT_PLUGIN", Constructor("Counted", <<>>))>>, "">>,
        <<<<Global(T("Small"), {"static"}, "", Fn("Small", "Small", <<Integer>>, Void, {"ctor", "constexpr"}))>>, "">>,
        <<<<Function(<<Node("DeclStmt", <<>>, <<Variable("g", T("Counted"), {"static", "static local"},
                                                        <<Construct(Constructor("Counted", <<>>), <<>>)>>)>>)>>)>>, "">>>>)

\* Of Qt 5, and of Qt 6 with a holder in between.
MadeStatic(class, args) == Variable("g", T(class), {"file variable", "static"}, <<With(Construct(Constructor(class, <<>>), <<>>), [type |-> Generic(class, args)])>>)
HolderOf(class) == <<Generic("Holder", <<T(class)>>)>>
StaticsOfQt ==
    Judged("wrong-qglobalstatic",
      <<<<<<MadeStatic("QGlobalStatic", <<T("TrivialItem")>>)>>, "trivial type">>, <<<<MadeStatic("QGlobalStatic", <<T("Counted")>>)>>, "">>,
        <<<<MadeStatic("QGlobalStatic", <<Integer>>)>>, "non-class type">>, <<<<MadeStatic("QGlobalStatic", HolderOf("Q_QGS_trivial"))>>, "trivial type">>,
        <<<<MadeStatic("QGlobalStatic", HolderOf("Q_QGS_counted"))>>, "">>, <<<<MadeStatic("QGlobalStatic", HolderOf("Small"))>>, "non-class type">>,
        <<<<MadeStatic("QGlobalStatic", <<T("Holder")>>)>>, "">>, <<<<MadeStatic("QGlobalStatic", <<>>)>>, "">>, <<<<MadeStatic("Other", <<Integer>>)>>, "">>>>)

CharPointer(flags, type) == Variable("g", type, {"file variable"} \cup flags, <<>>)
InNamespace(flags) == Node("NamespaceDecl", [name |-> "ns", is |-> flags], <<CharPointer({}, Literally)>>)
CharPointers ==
    Judged("global-const-char-pointer",
      <<<<<<CharPointer({}, Literally)>>, "char pointer">>, <<<<CharPointer({}, Ptr(T("char")))>>, "char pointer">>, <<<<CharPointer({"static"}, Literally)>>, "">>,
        <<<<CharPointer({"extern"}, Literally)>>, "">>, <<<<CharPointer({"const pointer"}, Literally)>>, "">>, <<<<CharPointer({"ignored file"}, Literally)>>, "">>,
        <<<<CharPointer({}, Ptr(Integer))>>, "">>, <<<<CharPointer({}, T("char"))>>, "">>, <<<<Function(<<Local("l", Literally, <<>>)>>)>>, "">>,
        <<<<InNamespace({})>>, "char pointer">>, <<<<InNamespace({"anonymous"})>>, "">>>>)

HashOf(type) == Declare(Fn("", "qHash", <<type>>, Integer, {}))
Within(name, term) == Node("NamespaceDecl", [name |-> name], <<term>>)
InA == Const(Ref(T("A::Item")))
Hashes ==
    Judged("qhash-namespace",
      <<<<<<HashOf(InA)>>, "move into">>, <<<<Within("A", HashOf(InA))>>, "">>, <<<<Within("B", HashOf(InA))>>, "move to">>, <<<<Within("A", Within("B", HashOf(InA)))>>, "move to">>,
        <<<<Within("A", HashOf(Integer))>>, "move out">>, <<<<HashOf(Integer)>>, "">>, <<<<Declare(Fn("", "hash", <<InA>>, Integer, {}))>>, "">>,
        <<<<Record("Item", <<Declare(Fn("Item", "qHash", <<InA>>, Integer, {}))>>)>>, "">>>>)
    \o <<Developer(Unit(<<HashOf(Integer)>>, {"qhash-namespace"}, {<<"qhash-namespace", "before QT_END_NAMESPACE">>})),
         Developer(Unit(<<Flag(HashOf(Integer), {"between Qt namespace macros"})>>, {"qhash-namespace"}, {}))>>

\* Declared and defined, each with or without the keyword.
Inlined == {"inline specified"}
TwiceWritten(f, declared, defined) == <<Record(f.class, <<Flag(Declare(f), declared)>>), Flag(DefineOutside(f, <<>>, <<>>), defined)>>
InItem(name, flags) == Fn("Item", name, <<>>, Integer, flags)
InlineKeywords ==
    Judged("sanitize-inline-keyword",
      <<<<TwiceWritten(InItem("f", {}), {}, Inlined), "inline">>, <<TwiceWritten(InItem("f", {}), Inlined, Inlined), "">>, <<TwiceWritten(InItem("f", {}), Inlined, {}), "">>,
        <<TwiceWritten(InItem("f", {}), {}, {}), "">>, <<TwiceWritten(InItem("f", {"constexpr"}), {}, Inlined), "">>, <<TwiceWritten(InItem("Item", {"ctor"}), {}, Inlined), "">>,
        <<TwiceWritten(InItem("operator==", {"operator"}), {}, Inlined), "inline">>, <<TwiceWritten(InItem("operator+", {"operator"}), {}, Inlined), "">>,
        <<TwiceWritten(Fn("QtHidden", "f", <<>>, Integer, {}), {}, Inlined), "">>, <<<<Record("Item", <<Declare(InItem("f", {}))>>)>>, "">>,
        <<<<Record("Item", <<Flag(Define(InItem("f", {}), <<>>, <<>>), Inlined)>>)>>, "">>>>)

-----------------------------------------------------------------------------
(* Objects on the heap, casts.                                             *)

New(type, flags) == Node("CXXNewExpr", [type |-> Ptr(type), is |-> flags], <<>>)
HeldBy(type, flags, behind) == <<Local("p", Ptr(T(type)), <<New(T(type), flags)>>)>> \o behind
ThePointer == Read(Ptr(T("Small")), Use("p", Ptr(T("Small"))))
OnTheHeap ==
    JudgedBodies("heap-allocated-small-trivial-type",
      <<<<HeldBy("Small", {}, <<>>), "small trivial type on the heap">>, <<HeldBy("Big", {}, <<>>), "">>, <<HeldBy("Counted", {}, <<>>), "">>,
        <<HeldBy("Small", {"array"}, <<>>), "">>, <<HeldBy("Small", {"placement"}, <<>>), "">>, <<HeldBy("SmallPrivate", {}, <<>>), "">>,
        <<HeldBy("Small", {}, <<Return(<<ThePointer>>)>>), "">>,
        <<HeldBy("Small", {}, <<Binary("=", Use("q", Ptr(T("Small"))), ThePointer)>>), "">>,
        <<HeldBy("Small", {}, <<Binary("=", Use("p", Ptr(T("Small"))), Use("q", Ptr(T("Small"))))>>), "small trivial type on the heap">>,
        <<HeldBy("Small", {}, <<Call(Fn("", "take", <<Ptr(T("Small"))>>, Void, {}), <<ThePointer>>)>>), "">>,
        <<HeldBy("Small", {}, <<MemberCall(ThePointer, Fn("Small", "f", <<>>, Void, {}), <<>>)>>), "small trivial type on the heap">>,
        <<<<Node("LambdaExpr", [func |-> Closure], <<Block(HeldBy("Small", {}, <<>>))>>)>>, "small trivial type on the heap">>>>)

CastTo(kind, type, e) == Node(kind, [type |-> Ptr(T(type))], <<e>>)
An(class) == Use("o", Ptr(T(class)))
ToBase(class, e) == Cast("DerivedToBase", Ptr(T(class)), e)
QObjectCast(class, e) == Call(Fn("", "qobject_cast", <<Ptr(T("QObject"))>>, Ptr(T(class)), {}), <<e>>)
Choosing(e) == Node("ConditionalOperator", <<>>, <<Use("c", T("bool")), e, An("QObject")>>)
Pointless(cases) == JudgedBodies("unneeded-cast", [n \in DOMAIN cases |-> <<<<cases[n][1]>>, cases[n][2]>>])

\* What the implicit cast of an argument hides is seen.
NeedlessCasts ==
    Pointless(
      <<<<CastTo("CXXStaticCastExpr", "Animal", An("Cat")), "casting to base">>, <<CastTo("CXXStaticCastExpr", "Animal", ToBase("Animal", An("Cat"))), "casting to base">>,
        <<CastTo("CXXStaticCastExpr", "Cat", An("Animal")), "">>, <<CastTo("CXXStaticCastExpr", "Animal", An("Animal")), "casting to itself">>,
        <<CastTo("CXXDynamicCastExpr", "Cat", An("Animal")), "">>, <<CastTo("CXXDynamicCastExpr", "Animal", An("Cat")), "casting to base">>,
        <<CastTo("CXXDynamicCastExpr", "Sender", An("QObject")), "use qobject_cast">>, <<CastTo("CXXReinterpretCastExpr", "Animal", An("Animal")), "">>,
        <<Choosing(CastTo("CXXStaticCastExpr", "QObject", An("Sender"))), "">>, <<Choosing(CastTo("CXXDynamicCastExpr", "Animal", An("Cat"))), "casting to base">>,
        <<CastTo("CXXStaticCastExpr", "Animal", Cast("NullToPointer", Ptr(T("Animal")), Number(0))), "">>,
        <<With(CastTo("CXXStaticCastExpr", "Animal", An("Cat")), [macro |-> "TO_BASE"]), "">>,
        <<CastTo("CXXStaticCastExpr", "Animal", An("Toy")), "">>, <<CastTo("CXXStaticCastExpr", "Animal", An("Beast")), "">>,
        <<Node("CXXStaticCastExpr", [type |-> Integer], <<An("Cat")>>), "">>,
        <<QObjectCast("Sender", An("QObject")), "">>, <<QObjectCast("Sender", An("Sender")), "casting to itself">>,
        <<QObjectCast("QObject", ToBase("QObject", An("Sender"))), "casting to base">>, <<QObjectCast("Sender", ToBase("QObject", An("Sender"))), "casting to itself">>,
        <<Choosing(QObjectCast("QObject", An("Sender"))), "use static_cast">>>>)
    \o <<[Pointless(<<<<CastTo("CXXDynamicCastExpr", "Sender", An("QObject")), "">>>>)[1]
             EXCEPT !.options = {"prefer-dynamic-cast-over-qobject"}]>>

\* Arguments that are converted on the way.
Mixing == Fn("", "f", <<T("bool"), Ptr(T("QObject"))>>, Void, {})
Taking1(flags) == Fn("", "f", <<Integer>>, Void, flags)
PtrToBool == Cast("PointerToBoolean", T("bool"), An("QObject"))
BoolToInt == Cast("IntegralCast", Integer, Use("b", T("bool")))
ConvertedArgs(cases, options) ==
    [n \in DOMAIN cases |->
       [JudgedBodies("implicit-casts", <<<<<<cases[n][1]>>, cases[n][2]>>>>)[1] EXCEPT !.options = options]]
Streamed(class, e) == OperatorCall(Fn(class, "operator<<", <<Integer>>, Void, {}), <<Use("o", T(class)), e>>)
Swapped == Call(Mixing, <<PtrToBool, An("QObject")>>)
Conversions ==
    ConvertedArgs(
      <<<<Swapped, "pointer to bool">>, <<Call(Mixing, <<Use("b", T("bool")), An("QObject")>>), "">>,
        <<Call(Fn("", "f", <<T("bool")>>, Void, {}), <<PtrToBool>>), "">>, <<With(Swapped, [macro |-> "QVERIFY"]), "">>,
        <<With(Swapped, [macro |-> "CHECK"]), "pointer to bool">>, <<Flag(Swapped, {"ignored file"}), "">>,
        <<Construct(Fn("Item", "Item", <<T("bool"), Ptr(T("QObject"))>>, Void, {"ctor"}), <<PtrToBool, An("QObject")>>), "pointer to bool">>,
        <<Call(Taking1({}), <<BoolToInt>>), "">>>>, {})
    \o ConvertedArgs(
      <<<<Call(Taking1({}), <<BoolToInt>>), "bool to int">>, <<Call(Taking1({"C"}), <<BoolToInt>>), "">>, <<Call(Taking1({"variadic"}), <<BoolToInt>>), "">>,
        <<Call(Taking1({}), <<Cast("IntegralCast", Integer, Use("c", T("char")))>>), "">>,
        <<Call(Taking1({}), <<Cast("IntegralCast", Integer, Node("CStyleCastExpr", [type |-> T("bool")], <<Use("c", Integer)>>))>>), "">>,
        <<MemberCall(Use("s", T("QString")), Fn("QString", "arg", <<Integer>>, T("QString"), {}), <<BoolToInt>>), "">>,
        <<Streamed("QTextStream", Call(Taking1({}), <<BoolToInt>>)), "">>, <<Streamed("QDebug", Call(Taking1({}), <<BoolToInt>>)), "bool to int">>,
        <<Construct(Fn("QAtomicInt", "QAtomicInt", <<Integer>>, Void, {"ctor"}), <<BoolToInt>>), "">>,
        <<Call(Mixing, <<BoolToInt, An("QObject")>>), "">>>>, {"bool-to-int"})

\* switch (e->type()) { case QEvent::..: ..; .. }: only the first statement
\* behind a label belongs to it.
AnEvent(e) == Use(e, Ptr(T("QEvent")))
AskedFor(e) == Ask(Read(Ptr(T("QEvent")), AnEvent(e)), "QEvent", "type", T("enum"), {"const"})
CaseOf(event, statement) ==
    Node("CaseStmt", <<>>, <<Cast("IntegralCast", Integer, Flag(Use(event, T("enum")), {"enumerator"})), statement>>)
SwitchOver(e, statements) == Node("SwitchStmt", <<>>, <<Cast("IntegralCast", Integer, AskedFor(e)), Block(statements)>>)
CastEvent(class, e) == CastTo("CXXStaticCastExpr", class, Read(Ptr(T("QEvent")), AnEvent(e)))
InCase(event, class) == SwitchOver("e", <<CaseOf(event, CastEvent(class, "e"))>>)
EventCasts ==
    JudgedBodies("wrong-qevent-cast", [n \in 1..10 |-> LET cases ==
      <<<<InCase("Paint", "QPaintEvent"), "">>, <<InCase("Paint", "QMouseEvent"), "suspicious cast">>, <<InCase("MouseMove", "QMouseEvent"), "">>,
        <<InCase("DragEnter", "QDropEvent"), "">>, <<SwitchOver("e", <<CaseOf("Paint", Block(<<>>)), CastEvent("QMouseEvent", "e")>>), Contested>>,
        <<SwitchOver("e", <<CaseOf("Paint", If(Binary("==", AskedFor("e"), Number(5)), CastEvent("QMouseEvent", "e")))>>), "">>,
        <<SwitchOver("e", <<CaseOf("Paint", If(Binary("==", AskedFor("f"), Number(5)), CastEvent("QMouseEvent", "e")))>>), "suspicious cast">>,
        <<SwitchOver("f", <<CaseOf("Paint", CastEvent("QMouseEvent", "e"))>>), "">>,
        <<SwitchOver("e", <<CaseOf("Paint", SwitchOver("f", <<CaseOf("Wheel", CastEvent("QMouseEvent", "e"))>>))>>), "suspicious cast">>,
        <<SwitchOver("e", <<CaseOf("Paint", SwitchOver("e", <<CaseOf("Wheel", CastEvent("QPaintEvent", "e"))>>))>>), "suspicious cast">>>>
      IN <<<<cases[n][1]>>, cases[n][2]>>])

-----------------------------------------------------------------------------
(* What assertions change, what is called unused, what models return, what    *)
(* comparisons leave out.                                                  *)

Asserted(e) == With(e, [macro |-> "Q_ASSERT"])
AnX == Use("x", Integer)
Asserts ==
    JudgedBodies("assert-with-side-effects", [n \in 1..9 |-> LET e ==
      <<Asserted(Binary("=", AnX, Number(1))), Asserted(Unary("++", AnX)), Asserted(Node("CompoundAssignOperator", [op |-> "+="], <<AnX, Number(1)>>)),
        Binary("=", AnX, Number(1)), Asserted(Binary("==", AnX, Number(1))), Asserted(Unary("&", AnX)), Asserted(Unary("-", Read(Integer, AnX))),
        Asserted(Binary("=", Unary("*", Use("q", Ptr(Integer))), Number(1))), Asserted(Call(Taking1({}), <<AnX>>))>>
      IN <<<<Local("x", Integer, <<Number(0)>>), e[n]>>, IF n <= 3 THEN "side effects" ELSE IF n = 8 THEN Contested ELSE "">>])

VoidCast(e) == Node("CStyleCastExpr", [type |-> Void], <<e>>)
TheParam == Use("p", T("QString"))
Q_UNUSED == VoidCast(With(TheParam, [macro |-> "Q_UNUSED"]))
UsesIt == Ask(TheParam, "QString", "at", T("QChar"), {"const"})
Unused ==
    LET cases ==
          <<<<<<Q_UNUSED, UsesIt>>, "Q_UNUSED">>, <<<<Q_UNUSED>>, "">>, <<<<VoidCast(TheParam), UsesIt>>, "void cast">>,
            <<<<UsesIt, VoidCast(TheParam)>>, "void cast">>, <<<<Node("CStyleCastExpr", [type |-> Integer], <<TheParam>>), UsesIt>>, "">>,
            <<<<VoidCast(TheParam), VoidCast(TheParam)>>, Contested>>, <<<<VoidCast(TheParam), TheParam>>, "void cast">>,
            <<<<TheParam, VoidCast(TheParam)>>, Contested>>, <<<<Block(<<VoidCast(TheParam)>>), UsesIt>>, "void cast">>,
            <<<<Block(<<TheParam>>), VoidCast(TheParam)>>, Contested>>, <<<<Block(<<Q_UNUSED>>)>>, "">>,
            <<<<If(Use("c", T("bool")), VoidCast(TheParam)), UsesIt>>, Contested>>,
            <<<<Q_UNUSED, Block(<<VoidCast(TheParam)>>)>>, Contested>>, <<<<VoidCast(Use("q", T("QString"))), UsesIt, UsesIt>>, "">>>>
    IN Judged("used-qunused-variable",
         [n \in DOMAIN cases |-> <<<<Define(Simple, <<Parameter("p", T("QString"))>>, cases[n][1])>>, cases[n][2]>>])

Hash == T("QHash")
RoleNames(class, name, body) == Record(class, <<Define(Fn(class, name, <<>>, Hash, {"virtual", "const"}), <<>>, body)>>)
CopiedRoles(e) == Construct(Constructor("QHash", <<Const(Ref(Hash))>>), <<e>>)
RolesUsed == Use("roles", Hash)
RolesKept(flags) == Node("DeclStmt", <<>>, <<Variable("roles", Hash, flags, <<>>)>>)
MadeAnew == Return(<<Cleanups(Construct(Constructor("QHash", <<T("list")>>), <<Leaf("InitListExpr")>>))>>)
Models ==
    Judged("cache-model-rolenames", [n \in 1..10 |-> LET cases ==
      <<<<<<RoleNames("RoleModel", "roleNames", <<RolesKept({}), Return(<<CopiedRoles(RolesUsed)>>)>>)>>, "not cached">>,
        <<<<RoleNames("RoleModel", "roleNames", <<RolesKept({}), Return(<<CopiedRoles(AsConst(Hash, RolesUsed))>>)>>)>>, "not cached">>,
        <<<<RoleNames("RoleModel", "roleNames", <<RolesKept({"static", "static local"}), Return(<<CopiedRoles(RolesUsed)>>)>>)>>, "">>,
        <<<<RoleNames("RoleModel", "roleNames", <<MadeAnew>>)>>, "not cached">>, <<<<RoleNames("Sender", "roleNames", <<MadeAnew>>)>>, "">>,
        <<<<RoleNames("RoleModel", "names", <<MadeAnew>>)>>, "">>, <<<<RoleNames("RoleModel", "roleNames", <<MadeAnew, MadeAnew>>)>>, Contested>>,
        <<<<RoleNames("RoleModel", "roleNames", <<Return(<<CopiedRoles(Field(This("RoleModel"), "m_roles", Hash))>>)>>)>>, "">>,
        <<<<Variable("roles", Hash, {"file variable", "static"}, <<>>), RoleNames("RoleModel", "roleNames", <<Return(<<CopiedRoles(RolesUsed)>>)>>)>>, Contested>>,
        <<<<With(Variable("roles", Hash, {"static member"}, <<>>), [place |-> "include"]),
            RoleNames("RoleModel", "roleNames", <<Return(<<CopiedRoles(RolesUsed)>>)>>)>>, "">>>>
      IN cases[n]])

\* A class with three fields whose operator is used, or not.
Coordinate(object, n) == Read(Integer, Field(object, n, Integer))
SameIn(n) == Binary("==", Coordinate(This("Place"), n), Coordinate(Use("other", Const(Ref(T("Place")))), n))
Both(a, b) == Return(<<Binary("&&", a, b)>>)
Tied(n) == Node("MaterializeTemporaryExpr", <<>>,
                <<Cast("NoOp", Const(T("tuple")), Call(Fn("std", "tie", <<>>, T("tuple"), {}), [k \in 1..n |-> Coordinate(This("Place"), "a")]))>>)
SameTied(n) == Return(<<Cleanups(OperatorCall(Fn("", "operator==", <<>>, T("bool"), {}), <<Tied(n), Tied(n)>>))>>)
SamePlace == Fn("Place", "operator==", <<Const(Ref(T("Place")))>>, T("bool"), {"const"})
APlace(inside) == Record("Place", [n \in 1..3 |-> FieldOf(<<"a", "b", "c">>[n], Integer)] \o inside)
Together == OperatorCall(SamePlace, <<Use("s", T("Place")), Use("t", T("Place"))>>)
Comparisons ==
    LET cases ==
          <<<<<<Both(Both(SameIn("a"), SameIn("b")).terms[1], SameIn("c"))>>, "">>, <<<<Both(SameIn("a"), SameIn("b"))>>, "not all members">>,
            <<<<Both(SameIn("a"), Both(SameIn("b"), SameIn("c")).terms[1])>>, "">>, <<<<SameTied(3)>>, "">>, <<<<SameTied(1)>>, "not all members">>,
            <<<<Local("x", Integer, <<Number(0)>>), Both(SameIn("a"), SameIn("b"))>>, Contested>>,
            <<<<Both(SameIn("a"), SameIn("b")), Return(<<SameIn("c")>>)>>, Contested>>,
            <<<<Return(<<Unary("!", Both(SameIn("a"), SameIn("b")).terms[1])>>)>>, Contested>>,
            <<<<Both(Node("ParenExpr", <<>>, <<SameIn("a")>>), Both(SameIn("b"), SameIn("c")).terms[1])>>, Contested>>>>
    IN Judged("compare-member-check",
         [n \in DOMAIN cases |-> <<<<APlace(<<Define(SamePlace, <<>>, cases[n][1])>>), Function(<<Together>>)>>, cases[n][2]>>]
         \o <<<<<<APlace(<<Define(SamePlace, <<>>, <<Both(SameIn("a"), SameIn("b"))>>)>>)>>, Contested>>,
              <<<<APlace(<<Declare(SamePlace)>>), Function(<<Together>>)>>, "">>>>)

FunctionClasses ==
    [c \in {"Counted", "QSharedPointer"} |-> [is |-> {"nonTrivialCopy", "nonTrivialDtor"}]]
    @@ "Big" :> [size |-> 24] @@ "TrivialItem" :> [is |-> {"trivialDefault"}] @@ "QLoggingCategory" :> <<>>
    @@ "Shape" :> [is |-> {"polymorphic"}] @@ "SmallPrivate" :> [is |-> {"private implementation"}]
    @@ "Animal" :> <<>> @@ "Cat" :> [bases |-> <<"Animal">>] @@ "Toy" :> [bases |-> <<"Animal", "QObject">>]
    @@ "Beast" :> [bases |-> <<"Animal">>, is |-> {"forward"}]
    @@ [c \in {"QEvent", "QPaintEvent", "QMouseEvent", "QDropEvent", "QAbstractItemModel"} |-> <<>>]
    @@ "A::Item" :> [short |-> "Item", scope |-> <<"A", "::">>]
    @@ "Q_QGS_trivial" :> [QGS_Type |-> T("TrivialItem")] @@ "Q_QGS_counted" :> [QGS_Type |-> T("Counted")] @@ "QtHidden" :> [is |-> {"hidden"}]
    @@ "RoleModel" :> [bases |-> <<"QAbstractItemModel">>]

FunctionUnits == Joined(<<Arguments, SomeArguments, VirtualCalls, DefinedBehind, OtherCalls, VoidReturns, Globals, StaticsOfQt, CharPointers, Hashes, InlineKeywords, OnTheHeap, NeedlessCasts, Conversions, EventCasts,
                          Asserts, Unused, Models, Comparisons>>)
=============================================================================
