---------------------------- MODULE ClassPrograms ----------------------------
(* Signals, slots and the calls that connect them; then classes: what they   *)
(* declare, copy and override.                                             *)
EXTENDS Programs

Signal(class, name, params) == Fn(class, name, params, Void, {"signal"})
Slot(class, name, params, flags) == Fn(class, name, params, Void, {"slot"} \cup flags)

Clicked == Signal("Sender", "clicked", <<>>)
Toggled == Signal("Sender", "toggled", <<T("bool")>>)
Changed(type) == Signal("Sender", "changed", <<type>>)
Done == Slot("Receiver", "done", <<>>, {})
DoneWith(type, flags) == Slot("Receiver", "doneWith" \o type.name, <<type>>, flags)
Run == Fn("Receiver", "run", <<>>, Void, {})
Static == Slot("Receiver", "instance", <<>>, {"static"})
Hidden == Slot("Receiver", "hidden", <<>>, {"private"})
Guarded == Slot("Receiver", "guarded", <<>>, {"protected"})
ScopedSlot == Slot("Scoped", "done", <<>>, {})
InThread(name, flags) == Fn("Worker", name, <<>>, Void, flags)

ConnectClasses ==
    [c \in {"QTimer", "QMenu", "QWidget", "QState", "QThread"} |-> [bases |-> <<"QObject">>]]
    @@ "QObject" :> <<>>
    @@ "QMetaMethod" :> <<>>
    @@ "QMutex" :> <<>>
    @@ "QSignalSpy" :> <<>>
    @@ "Sender" :> [bases |-> <<"QObject">>, methods |-> {Clicked, Toggled, Changed(Integer), Changed(T("QString"))}]
    @@ "Receiver" :> [bases |-> <<"QObject">>,
                      methods |-> {Done, DoneWith(T("bool"), {}), DoneWith(T("QString"), {}), Run, Static, Hidden, Guarded}]
    @@ "Derived" :> [bases |-> <<"Receiver">>]
    @@ "Scoped" :> [bases |-> <<"QObject">>, scopes |-> <<"ns">>, methods |-> {ScopedSlot}]
    @@ "QKeySequence" :> [size |-> 8]
    @@ "Worker" :> [bases |-> <<"QThread">>, methods |-> {InThread("work", {"slot"})}]

-----------------------------------------------------------------------------
(* Emitting.                                                               *)

OnSelf(f) == MemberCall(This(f.class), f, <<>>)
Emitted(call) == With(call, [is |-> {"emit"}])
Ctor(class) == Fn(class, class, <<>>, Void, {"ctor"})
InClass(class, f, body) == Record(class, <<Define(f, <<>>, body)>>)
InMethod(body) == <<InClass("Sender", Fn("Sender", "f", <<>>, Void, {}), body)>>
InCtor(body) == <<InClass("Sender", Ctor("Sender"), body)>>
Closure == Fn("", "operator()", <<>>, Void, {})

\* A constructor of a local class is the last method the walk has met.
WithLocalClass ==
    InMethod(<<Node("DeclStmt", <<>>, <<Record("Local", <<Define(Ctor("Local"), <<>>, <<>>)>>)>>), Emitted(OnSelf(Clicked))>>)

Emissions ==
    Judged("incorrect-emit",
      <<<<InMethod(<<OnSelf(Clicked)>>), "missing emit">>,
        <<InMethod(<<Emitted(OnSelf(Clicked))>>), "">>,
        <<InMethod(<<Emitted(OnSelf(Fn("Sender", "g", <<>>, Void, {})))>>), "emit of non-signal">>,
        <<InMethod(<<OnSelf(Fn("Sender", "g", <<>>, Void, {}))>>), "">>,
        <<InMethod(<<OnSelf(Fn("Sender", "g", <<>>, Void, {"unknown"}))>>), "">>,
        <<InCtor(<<Emitted(OnSelf(Clicked))>>), "emit in constructor">>, <<InCtor(<<Flag(Emitted(OnSelf(Clicked)), {"moc file"})>>), "">>,
        <<InMethod(<<Flag(OnSelf(Clicked), {"moc file"})>>), "">>,
        <<InCtor(<<Emitted(MemberCall(Use("other", Ptr(T("Sender"))), Clicked, <<>>))>>), "">>,
        <<InCtor(<<Lambda(Closure, <<Emitted(OnSelf(Clicked))>>)>>), "">>,
        <<InMethod(<<MemberCall(OnSelf(Clicked), Fn("Sender", "g", <<>>, Void, {}), <<>>)>>), Contested>>,
        <<WithLocalClass, Contested>>>>)

-----------------------------------------------------------------------------
(* connect() with macros.                                                  *)

Object(var, class) ==
    Cast("DerivedToBase", Const(Ptr(T("QObject"))), Read(Ptr(T(class)), Use(var, Ptr(T(class)))))
Macroed(macro, method) ==
    With(Call(Fn("", "qFlagLocation", <<Literally>>, Literally, {}), <<Text({})>>), [macro |-> macro, method |-> method])
AnObject == Const(Ptr(T("QObject")))
Anywhere5 == Fn("QObject", "connect", <<AnObject, Literally, AnObject, Literally, T("enum")>>, Void, {"static"})
Here4 == Fn("QObject", "connect", <<AnObject, Literally, Literally, T("enum")>>, Void, {"const"})
Connection(sender, signal, receiver, slot) == Call(Anywhere5, <<sender, signal, receiver, slot>>)

FromSender(signal, slot) == Connection(Object("s", "Sender"), Macroed("SIGNAL", signal), Object("r", "Receiver"), Macroed("SLOT", slot))
Qt(class, name, params, args) == Call(Fn(class, name, params, Void, {"static"}), args)
SlotArgs(slot) == <<Object("r", "Receiver"), Macroed("SLOT", slot)>>
SignalArgs(signal) == <<Object("s", "Sender"), Macroed("SIGNAL", signal)>>

\* What is said of a connection, and why it cannot be rewritten.
OldStyle(why) ==
    {<<"old-style-connect", IF why = "" THEN "old style, fixits" ELSE "old style">>}
        \cup Says(why \notin {"", "silence"}, "old-style-connect", why)

OldStyles(cases) ==
    [n \in DOMAIN cases |->
        [Unit(<<Function(cases[n][1])>>, {"old-style-connect"}, OldStyle(cases[n][2])) EXCEPT !.privateSlots = {"q_hidden"}]]

Connections ==
    OldStyles(
      <<<<<<FromSender("clicked", "done")>>, "">>,
        <<<<FromSender("toggled", "doneWithbool")>>, "">>,
        <<<<FromSender("toggled", "done")>>, "">>,
        <<<<FromSender("clicked", "doneWithbool")>>, "more parameters">>,
        <<<<FromSender("toggled", "doneWithQString")>>, "incompatible">>,
        <<<<FromSender("clicked", "missing")>>, "no such method">>,
        <<<<FromSender("clicked", "q_hidden")>>, "private slot">>,
        <<<<FromSender("changed", "done")>>, "overloads">>,
        <<<<Connection(Object("s", "Sender"), Macroed("SIGNAL", "clicked"), Object("t", "Sender"), Macroed("SLOT", "clicked"))>>, "signal as slot">>,
        <<<<FromSender("clicked", "instance")>>, "silence">>,
        <<<<FromSender("clicked", "hidden")>>, "no access">>,
        <<<<Connection(Use("u", Ptr(T("Unknown"))), Macroed("SIGNAL", "clicked"), Object("r", "Receiver"), Macroed("SLOT", "done"))>>, "no class">>,
        <<<<MemberCall(Object("r", "Receiver"), Here4, SignalArgs("clicked") \o <<Macroed("SLOT", "done")>>)>>, "">>,
        <<<<Qt("QObject", "disconnect", <<AnObject, Literally, AnObject, Literally>>, SignalArgs("clicked") \o SlotArgs("done"))>>, "">>,
        <<<<Qt("QObject", "disconnect", <<Literally, AnObject, Literally>>, <<Macroed("SIGNAL", "clicked")>> \o SlotArgs("done"))>>, "not implemented">>,
        <<<<Qt("QObject", "disconnect", <<AnObject, Literally>>, SlotArgs("done"))>>, "not implemented">>,
        <<<<Qt("QTimer", "singleShot", <<Integer, AnObject, Literally>>, <<Number(0)>> \o SlotArgs("done"))>>, "">>,
        <<<<Qt("QTimer", "singleShot", <<Integer, AnObject, Literally>>, <<Number(0)>> \o SlotArgs("doneWithbool"))>>, "slot with arguments">>,
        <<<<Qt("QMenu", "addAction", <<T("QString"), AnObject, Literally>>, <<Text({})>> \o SlotArgs("done"))>>, "">>,
        <<<<Qt("QMenu", "addAction", <<T("QString"), AnObject, Literally, T("QKeySequence")>>,
               <<Text({})>> \o SlotArgs("done") \o <<Construct(Fn("QKeySequence", "QKeySequence", <<>>, Void, {}), <<>>)>>)>>, "">>,
        <<<<Qt("QState", "addTransition", <<AnObject, Literally, AnObject>>, SignalArgs("clicked") \o <<Object("q", "QState")>>)>>, "">>,
        <<<<Qt("QMessageBox", "open", <<AnObject, Literally>>, SlotArgs("done"))>>, "not implemented">>,
        <<<<Construct(Fn("QSignalSpy", "QSignalSpy", <<AnObject, Literally>>, Void, {}), SignalArgs("clicked"))>>, "">>>>)

\* Where nothing is said, and where less is.
Plain5 == Fn("QObject", "connect", <<AnObject, T("pmf"), AnObject, T("pmf"), T("enum")>>, Void, {"static", "template"})
NoConnections ==
    JudgedBodies("old-style-connect",
      <<<<<<Connection(Object("s", "Sender"), Use("signal", Literally), Object("r", "Receiver"), Macroed("SLOT", "done"))>>, "">>,
        <<<<Call(Plain5, <<Object("s", "Sender"), AddressOf(Clicked), Object("r", "Receiver"), AddressOf(Done)>>)>>, "">>,
        <<<<Call(Simple, <<>>)>>, "">>,
        <<<<Qt("QObject", "connect", <<Literally, Literally>>, <<Macroed("SIGNAL", "clicked"), Macroed("SLOT", "done")>>)>>, "internal error">>>>)

\* A slot that some may name and others may not.
AccessibleIn(class, slot, why) ==
    Unit(<<InClass(class, Fn(class, "f", <<>>, Void, {}), <<FromSender("clicked", slot)>>)>>, {"old-style-connect"}, OldStyle(why))

Developer(u) == [u EXCEPT !.qtDeveloper = TRUE]
OldStyleIn(body, why) == Unit(body, {"old-style-connect"}, IF why = "-" THEN {} ELSE OldStyle(why))

\* A slot of a class in a namespace, with a using directive before, behind or in
\* the function, or a function of the namespace.
ToScoped == Connection(Object("s", "Sender"), Macroed("SIGNAL", "clicked"), Object("n", "Scoped"), Macroed("SLOT", "done"))
UsingNs == Node("UsingDirectiveDecl", [namespace |-> "ns"], <<>>)
ScopedIn(terms, says) == Unit(terms, {"old-style-connect"}, {<<"old-style-connect", says>>})

ScopedConnections ==
    LET connects == Function(<<ToScoped>>)
        qualified == "old style, qualified fixits"
        included(u) == [u EXCEPT !.terms = [n \in DOMAIN u.terms |-> With(u.terms[n], [place |-> "include"])]]
    IN <<ScopedIn(<<connects>>, qualified), ScopedIn(<<UsingNs, connects>>, "old style, fixits"),
         ScopedIn(<<connects, UsingNs>>, qualified),
         ScopedIn(<<Function(<<Node("DeclStmt", <<>>, <<UsingNs>>), ToScoped>>)>>, "old style, fixits"),
         ScopedIn(<<Function(<<ToScoped, Node("DeclStmt", <<>>, <<UsingNs>>)>>)>>, qualified),
         ScopedIn(<<Node("NamespaceDecl", [name |-> "ns"], <<connects>>)>>, "old style, fixits"),
         included(ScopedIn(<<UsingNs, connects>>, qualified))>>

SomeConnections ==
    ScopedConnections \o
    <<AccessibleIn("Receiver", "hidden", ""), AccessibleIn("Sender", "hidden", "no access"),
      AccessibleIn("Derived", "hidden", "no access"), AccessibleIn("Derived", "guarded", ""),
      AccessibleIn("Sender", "guarded", "no access"),
      Developer(OldStyleIn(<<Function(<<FromSender("clicked", "missing")>>)>>, "silence")),
      Developer(OldStyleIn(<<InClass("QObject", Fn("QObject", "f", <<>>, Void, {}), <<FromSender("clicked", "done")>>)>>, "-"))>>

-----------------------------------------------------------------------------
(* The signatures in macros and in Q_ARG().                                 *)

Signature(tokens) == With(Text({}), [tokens |-> tokens])
QArg(tokens) ==
    Call(Fn("", "makeArg", <<Literally, Integer>>, T("QMetaMethodArgument"), {}),
         <<Cast("ArrayToPointerDecay", Literally, Signature(tokens)), Use("x", Integer)>>)
ConnectionTo(function, tokens) ==
    Call(Fn("QObject", function, Anywhere5.params, Void, {"static"}),
         <<Object("s", "Sender"), Call(Fn("", "qFlagLocation", <<Literally>>, Literally, {}),
                                        <<Cast("ArrayToPointerDecay", Literally, Signature(tokens))>>)>>)

QualifiedTypes ==
    Combinations(<<<<<<>>, <<"const">>, <<"struct">>, <<"unsigned">>>>,
                   <<<<"int">>, <<"Foo">>, <<"QList", "<", "int", ">">>,
                     <<"QMap", "<", "const", "Foo", "&", ",", "Foo", "const", "*", ">">>,
                     <<"QList", "<", "QList", "<", "Foo", ">", ">">>>>>>)

\* A type with everything that may be behind it.
TypeSuffixes ==
    <<<<>>, <<"&">>, <<"*">>, <<"*", "const">>, <<" ", "&">>, <<"*", "&">>, <<"const", "&">>>>

SignatureTypes ==
    LET types == QualifiedTypes IN
      [n \in DOMAIN types |->
         Unit(<<Function([k \in 1..(IF types[n][1] = <<"const">> THEN 6 ELSE 7) |->
                            QArg(types[n][1] \o types[n][2] \o TypeSuffixes[k])])>>,
              {"connect-not-normalized"}, Says(TRUE, "connect-not-normalized", "not normalized"))]

Normal == "not normalized"
Signatures ==
    JudgedBodies("connect-not-normalized",
      <<<<<<QArg(<<"int">>)>>, "">>, <<<<QArg(<<"QList", "<", "int", ">">>)>>, "">>,
        <<<<QArg(<<"const", "Foo", "&">>)>>, Normal>>, <<<<QArg(<<"Foo", "const", "&">>)>>, Normal>>,
        <<<<QArg(<<"const", "Foo", "*">>)>>, "">>, <<<<QArg(<<"Foo", "const", "*">>)>>, Normal>>,
        <<<<QArg(<<"unsigned", "int">>)>>, Normal>>, <<<<QArg(<<"unsigned", "short">>)>>, "">>,
        <<<<QArg(<<"QList", "<", "QList", "<", "int", ">", " ", ">">>)>>, "">>,
        <<<<QArg(<<"QList", "<", "QList", "<", "int", ">", ">">>)>>, Normal>>,
        <<<<ConnectionTo("connect", <<"f", "(", "int", ",", "Foo", "*", ")">>)>>, "">>,
        <<<<ConnectionTo("connect", <<"f", "(", "void", ")">>)>>, Normal>>,
        <<<<ConnectionTo("connect", <<"f", "(", "const", "Foo", "&", ",", "int", ")">>)>>, Normal>>,
        <<<<ConnectionTo("disconnect", <<"f", "(", "void", ")">>)>>, "">>>>)

-----------------------------------------------------------------------------
(* connect() with functions and lambdas.                                    *)

Pointer(var, class) == Variable(var, Ptr(T(class)), {}, <<>>)
LocalPointer(var, class) == Node("DeclStmt", <<>>, <<Pointer(var, class)>>)
UsePointer(var, class) == Use(var, Ptr(T(class)))
OnObject(var, class, f) == MemberCall(Read(Ptr(T(class)), UsePointer(var, class)), f, <<>>)

Functor3 == Fn("QObject", "connect", <<AnObject, T("pmf"), T("functor")>>, Void, {"static", "template"})
With3(sender, body) == Call(Functor3, <<sender, AddressOf(Clicked), Lambda(Closure, body)>>)
WithFunctor(class, name, names) ==
    Call([class |-> class, name |-> name, params |-> [k \in DOMAIN names |-> T("functor")], returns |-> Void,
          is |-> {"static"}, names |-> names], <<Number(0)>> \o [k \in 1..Len(names) - 1 |-> Lambda(Closure, <<>>)])

Contexts3 ==
    JudgedBodies("connect-3arg-lambda",
      <<<<<<LocalPointer("s", "Sender"), LocalPointer("o", "Sender"),
            With3(Object("s", "Sender"), <<OnObject("o", "Sender", Clicked)>>)>>, "pass a context object">>,
        <<<<LocalPointer("s", "Sender"), With3(Object("s", "Sender"), <<OnObject("s", "Sender", Clicked)>>)>>, "">>,
        <<<<LocalPointer("s", "Sender"), With3(Object("s", "Sender"), <<OnSelf(Done)>>)>>, "pass a context object">>,
        <<<<With3(Cast("DerivedToBase", AnObject, This("Sender")), <<OnSelf(Done)>>)>>, "">>,
        <<<<With3(Object("s", "Sender"), <<Call(Simple, <<>>)>>)>>, "">>,
        <<<<Local("n", Integer, <<>>), With3(Object("s", "Sender"), <<Use("n", Integer)>>)>>, "">>,
        <<<<WithFunctor("QTimer", "singleShot", <<"interval", "slot">>)>>, "pass a context object">>,
        <<<<WithFunctor("QTimer", "singleShot", <<"interval", "context">>)>>, "">>,
        <<<<WithFunctor("QTimer", "singleShot", <<"interval", "timerType", "slot">>)>>, "pass a context object">>,
        <<<<WithFunctor("QMenu", "addAction", <<"text", "slot", "shortcut">>)>>, "pass a context object">>,
        <<<<WithFunctor("QMenu", "addAction", <<"text", "object", "slot">>)>>, "">>,
        <<<<WithFunctor("QWidget", "addAction", <<"text", "args">>)>>, "pass a context object">>,
        <<<<WithFunctor("QWidget", "addAction", <<"text", "args", "args">>)>>, "">>>>)

Capturing(byRef, decl) == With(Lambda(Closure, <<>>), [captures |-> <<[byRef |-> byRef, decl |-> decl]>>])
Functor(f, args) == Call(f, args)
To(sender, lambda) == Functor(Functor3, <<sender, AddressOf(Clicked), lambda>>)
To5(sender, receiver, lambda, type) ==
    Functor(Plain5, <<sender, AddressOf(Clicked), receiver, lambda, Use(type, T("enum"))>>)
AnInt == Local("n", Integer, <<>>)
Captured ==
    JudgedBodies("lambda-in-connect",
      <<<<<<AnInt, LocalPointer("s", "Sender"), To(Object("s", "Sender"), Capturing(TRUE, "n"))>>, "captured by reference">>,
        <<<<AnInt, LocalPointer("s", "Sender"), To(Object("s", "Sender"), Capturing(FALSE, "n"))>>, "">>,
        <<<<AnInt, Local("s", T("Sender"), <<>>), To(Unary("&", Use("s", T("Sender"))), Capturing(TRUE, "n"))>>, "">>,
        <<<<LocalPointer("s", "Sender"), To(Object("s", "Sender"), Capturing(TRUE, "p"))>>, "">>,
        <<<<LocalPointer("s", "Sender"), LocalPointer("r", "Receiver"),
            To5(Object("s", "Sender"), Object("r", "Receiver"), Capturing(TRUE, "r"), "AutoConnection")>>, "">>,
        <<<<AnInt, LocalPointer("s", "Sender"), Local("r", T("Receiver"), <<>>),
            To5(Object("s", "Sender"), Unary("&", Use("r", T("Receiver"))), Capturing(TRUE, "n"), "AutoConnection")>>, "">>,
        <<<<AnInt, Call(Simple, <<Capturing(TRUE, "n")>>)>>, "">>>>)
    \o Judged("lambda-in-connect",
         <<<<<<Define(Simple, <<Parameter("p", Integer)>>,
                      <<LocalPointer("s", "Sender"), To(Object("s", "Sender"), Capturing(TRUE, "p"))>>)>>, Contested>>>>)

Unique ==
    JudgedBodies("lambda-unique-connection",
      <<<<<<To5(Object("s", "Sender"), Object("r", "Receiver"), Lambda(Closure, <<>>), "UniqueConnection")>>, "unique connection">>,
        <<<<To5(Object("s", "Sender"), Object("r", "Receiver"), Lambda(Closure, <<>>), "QueuedConnection")>>, "">>,
        <<<<To5(Object("s", "Sender"), Object("r", "Receiver"), AddressOf(Done), "UniqueConnection")>>, "">>>>)

SignalOf(arg) == <<Functor(Functor3, <<Object("s", "Sender"), arg, Lambda(Closure, <<>>)>>)>>
\* A pointer in a variable: the last name of its initializer.
InVariable(f) == <<Local("pmf", T("pmf"), <<AddressOf(f)>>)>>
FromVariable == Cast("LValueToRValue", T("pmf"), Use("pmf", T("pmf")))
Overload(f) == OperatorCall(Fn("QNonConstOverload", "operator()", <<T("pmf")>>, T("pmf"), {}),
                            <<Use("qOverload", T("QOverload")), AddressOf(f)>>)
OverloadOf(f) == Call(Fn("QNonConstOverload", "of", <<T("pmf")>>, T("pmf"), {}), <<AddressOf(f)>>)
StaticCast(f) == Node("CXXStaticCastExpr", [type |-> T("pmf")], <<AddressOf(f)>>)

NonSignals ==
    JudgedBodies("connect-non-signal",
      <<<<SignalOf(AddressOf(Clicked)), "">>, <<SignalOf(AddressOf(Run)), "not a signal">>,
        <<SignalOf(AddressOf(Fn("Receiver", "g", <<>>, Void, {"unknown"}))), "">>,
        <<SignalOf(StaticCast(Run)), "not a signal">>, <<SignalOf(Overload(Clicked)), "">>,
        <<SignalOf(OverloadOf(Run)), "not a signal">>,
        <<InVariable(Run) \o SignalOf(FromVariable), "not a signal">>, <<InVariable(Clicked) \o SignalOf(FromVariable), "">>,
        <<SignalOf(Use("method", T("QMetaMethod"))), "">>, <<SignalOf(Number(0)), "report a bug">>>>)

\* The class is in the file, or in a header of this or of another project.
DeclaredElsewhere ==
    LET places == <<"main", "include", "system">> IN
      Judged("connect-non-signal",
        [n \in DOMAIN places |->
           <<<<With(Record("Sender", <<Declare(Clicked)>>), [place |-> places[n]]), Function(SignalOf(AddressOf(Clicked)))>>, "">>])

Modern5(signal, slot) ==
    <<Functor(Plain5, <<Object("s", "Sender"), signal, Object("r", "Receiver"), slot, Use("AutoConnection", T("enum"))>>)>>
Modernized ==
    JudgedBodies("modernize-overloaded-connects",
      <<<<Modern5(Overload(Clicked), AddressOf(Done)), "unneeded qOverload">>,
        <<Modern5(Overload(Changed(Integer)), AddressOf(Done)), "">>,
        <<Modern5(OverloadOf(Clicked), AddressOf(Done)), "unneeded QOverload::of">>,
        <<Modern5(AddressOf(Clicked), OverloadOf(Changed(Integer))), "use qOverload">>,
        <<Modern5(StaticCast(Changed(Integer)), AddressOf(Done)), "unneeded cast">>,
        <<SignalOf(AddressOf(Clicked)), "">>,
        <<<<Qt("QTimer", "singleShot", <<Integer, AnObject, T("pmf")>>, <<Number(0), Object("r", "Receiver"), StaticCast(Done)>>)>>, "unneeded cast">>,
        <<<<Qt("QMenu", "addAction", <<T("QString"), AnObject, T("pmf")>>, <<Text({}), Object("r", "Receiver"), StaticCast(Done)>>)>>, "unneeded cast">>>>)

-----------------------------------------------------------------------------
(* Slots of threads.                                                       *)

Work == InThread("work", {"slot"})
Mutex == Field(This("Worker"), "m_mutex", T("QMutex"))
Count == Field(This("Worker"), "m_count", Integer)
WorkerWith(f, body) == <<Record("Worker", <<Define(f, <<>>, body)>>)>>
Lock == Use("mutex", T("QMutex"))
ConnectedTo(f) == Functor(Functor3, <<Object("s", "Sender"), AddressOf(Clicked), AddressOf(f)>>)

Threads ==
    Judged("thread-with-slots",
      <<<<WorkerWith(Work, <<Count>>), "slot of a thread">>,
        <<WorkerWith(Work, <<>>), "">>,
        <<WorkerWith(Work, <<Lock, Count>>), "">>,
        <<WorkerWith(Work, <<Mutex, Count>>), "">>,
        <<WorkerWith(InThread("work", {}), <<Count>>), "">>,
        <<<<Record("Receiver", <<Define(Done, <<>>, <<Count>>)>>)>>, "">>,
        <<WorkerWith(InThread("g", {}), <<>>) \o <<Function(<<ConnectedTo(InThread("g", {}))>>)>>, "slot of a thread">>,
        <<WorkerWith(Work, <<>>) \o <<Function(<<ConnectedTo(Work)>>)>>, "">>>>)

ConnectUnits ==
    Joined(<<Emissions, Connections, NoConnections, SomeConnections, SignatureTypes, Signatures, Contexts3, Captured, Unique,
             NonSignals, DeclaredElsewhere, Modernized, Threads>>)

-----------------------------------------------------------------------------
(* Classes.                                                                *)

\* A class of a family: by the number of the member.
Member(family, n) == family \o ToString(n)
Method(class, name, flags) == Fn(class, name, <<>>, Void, flags)

-----------------------------------------------------------------------------
(* Signals and slots.                                                      *)

SenderWith(returns, params, flags) == <<Record("Sender", <<Declare(Fn("Sender", "f", params, returns, flags))>>)>>
ConnectedMethod(returns, flags) == <<Function(<<ConnectedTo(Fn("Receiver", "g", <<>>, returns, flags))>>)>>

ConstSignals ==
    Judged("const-signal-or-slot",
      <<<<SenderWith(Integer, <<>>, {"slot", "const"}), "getter mismarked as slot">>,
        <<SenderWith(Void, <<>>, {"slot", "const"}), "">>, <<SenderWith(Integer, <<>>, {"slot"}), "">>,
        <<SenderWith(Void, <<>>, {"signal", "const"}), "const signal">>,
        <<SenderWith(Integer, <<>>, {"slot", "const", "scriptable"}), "">>, <<SenderWith(Integer, <<>>, {"const"}), "">>,
        <<ConnectedMethod(Integer, {"const"}), "possibly a getter">>, <<ConnectedMethod(Void, {"const"}), "">>,
        <<ConnectedMethod(Integer, {"const", "slot"}), "">>, <<ConnectedMethod(Integer, {}), "">>>>)

ReturningSignals ==
    Judged("signal-with-return-value",
      <<<<SenderWith(Integer, <<>>, {"signal"}), "signal returns a value">>, <<SenderWith(Void, <<>>, {"signal"}), "">>,
        <<SenderWith(Integer, <<>>, {"signal", "scriptable"}), "">>, <<SenderWith(Integer, <<>>, {"slot"}), "">>,
        <<SenderWith(Void, <<Ref(Integer)>>, {"signal"}), "signal has a reference">>,
        <<SenderWith(Void, <<Const(Ref(T("QString")))>>, {"signal"}), "">>>>)

\* A method that overrides some of a base, possibly of one that is no QObject.
Overriding(bases, flags) ==
    <<Record("Sender", <<With(Declare(Method("Sender", "f", flags)), [overrides |-> bases])>>)>>
VirtualSignals ==
    Judged("virtual-signal",
      <<<<Overriding({}, {"signal", "virtual"}), "virtual signal">>, <<Overriding({}, {"signal"}), "">>,
        <<Overriding({"Interface"}, {"signal", "virtual"}), "">>, <<Overriding({"Sender"}, {"signal", "virtual"}), "virtual signal">>,
        <<Overriding({}, {"virtual"}), "">>>>)

Overloaded(class, params) == Fn(class, "f", params, Void, {"signal"})
DeclaredIn(f) == <<Record(f.class, <<Declare(f)>>)>>
OverloadedSignals ==
    Judged("overloaded-signal",
      <<<<DeclaredIn(Overloaded("Overloads", <<>>)), "overloaded">>,
        <<DeclaredIn(Overloaded("BelowOverloads", <<T("bool")>>)), "overloaded in a base">>,
        <<DeclaredIn(Overloaded("BelowSingle", <<>>)), "">>, <<DeclaredIn(Method("Overloads", "f", {})), "">>>>)

\* A class over one over one that has a signal and a method.
Over(name, flags) == DeclaredIn(Method("Bottom", name, flags))
OverriddenSignals ==
    Judged("overridden-signal",
      <<<<Over("signal", {}), "method over signal">>, <<Over("signal", {"signal"}), "signal over signal">>,
        <<Over("method", {"signal"}), "signal over method">>, <<Over("method", {}), "">>, <<Over("other", {"signal"}), "">>,
        <<DeclaredIn(Method("Top", "signal", {"signal"})), "">>>>)

-----------------------------------------------------------------------------
(* Names, pointers, events and parents.                                     *)

NamedSlots ==
    Judged("connect-by-name",
      <<<<DeclaredIn(Method("Receiver", "on_a_clicked", {"slot", "on_foo_bar"})), "connect by name">>,
        <<DeclaredIn(Method("Receiver", "on_a_clicked", {"on_foo_bar"})), "">>, <<DeclaredIn(Done), "">>>>)

StaticPmf(type, flags) == <<Node("DeclStmt", <<>>, <<Variable("pmf", type, flags, <<>>)>>)>>
StaticPmfs ==
    JudgedBodies("static-pmf",
      <<<<StaticPmf(As(T("Sender"), {"member function"}), {"static local"}), "static pointer to member">>,
        <<StaticPmf(As(T("Sender"), {"member function"}), {}), "">>,
        <<StaticPmf(As(T("Item"), {"member function"}), {"static local"}), "">>, <<StaticPmf(T("Sender"), {"static local"}), "">>>>)

Installs(object, filter) ==
    MemberCall(object, Fn("QObject", "installEventFilter", <<Ptr(T("QObject"))>>, Void, {}), <<Object("filter", filter)>>)
OnThis(class) == Cast("DerivedToBase", AnObject, This(class))
Filters ==
    JudgedBodies("install-event-filter",
      <<<<<<Installs(OnThis("Sender"), "Receiver")>>, "filter and monitored object">>,
        <<<<Installs(OnThis("Sender"), "Filter")>>, "">>, <<<<Installs(Object("o", "Sender"), "Receiver")>>, "">>>>)

Posts(event) ==
    <<Call(Fn("QCoreApplication", "postEvent", <<AnObject, Ptr(T("QEvent"))>>, Void, {"static"}), <<Object("s", "Sender"), event>>)>>
Event(type) == Use("event", type)
Posted ==
    JudgedBodies("post-event",
      <<<<Posts(With(Unary("&", Event(T("QEvent"))), [type |-> Ptr(T("QEvent"))])), "event on the stack">>,
        <<Posts(Read(Ptr(T("QEvent")), Event(Ptr(T("QEvent"))))), "">>,
        <<Posts(Node("CXXNewExpr", [type |-> Ptr(T("QEvent"))], <<Event(T("QEvent"))>>)), "">>>>)

Answer(true) == Return(<<Node("CXXBoolLiteralExpr", [is |-> IF true THEN {"true"} ELSE {}], <<>>)>>)
InEvent(class, name, body) == <<Record(class, <<Define(Method(class, name, {}), <<>>, body)>>)>>
Answers(class, name, true) == InEvent(class, name, <<Answer(true)>>)

\* A return of a lambda in the method is taken for one of the method.
Events ==
    Judged("base-class-event",
      <<<<Answers("Sender", "event", FALSE), "return of the base class">>, <<Answers("Sender", "event", TRUE), "">>,
        <<Answers("Sender", "eventFilter", FALSE), "">>, <<Answers("Derived", "eventFilter", FALSE), "return of the base class">>,
        <<Answers("Sender", "f", FALSE), "">>, <<Answers("Plain", "event", FALSE), "">>,
        <<InEvent("Sender", "event", <<Lambda(Closure, <<Answer(FALSE)>>), Answer(TRUE)>>), Contested>>>>)

CastOf(e) == <<Call(Fn("", "qobject_cast", <<AnObject>>, Ptr(T("Sender")), {}), <<e>>)>>
TheChild == Ask(Use("event", Ptr(T("QChildEvent"))), "QChildEvent", "child", AnObject, {"const"})
ChildCasts ==
    Judged("child-event-qobject-cast",
      <<<<InEvent("Sender", "childEvent", CastOf(TheChild)), "cast in childEvent">>,
        <<InEvent("Sender", "f", CastOf(TheChild)), "">>, <<InEvent("Sender", "event", CastOf(Object("o", "Sender"))), "">>,
        <<InEvent("Plain", "event", CastOf(TheChild)), "">>>>)

AsksBase(class, f) == <<MemberCall(Cast("UncheckedDerivedToBase", Ptr(T(f.class)), This(class)), f, <<>>)>>
Skipping ==
    JudgedBodies("skipped-base-method",
      <<<<AsksBase("Lowest", Method("Highest", "f", {})), "skipped base">>, <<AsksBase("Lowest", Method("Highest", "g", {})), "">>,
        <<AsksBase("Between", Method("Highest", "f", {})), "">>, <<AsksBase("Lowest", Method("Highest", "pure", {})), "">>>>)

Constructor(class, params) == Fn(class, class, params, Void, {"ctor"})
Parents ==
    Judged("ctor-missing-parent-argument",
      <<<<<<Record("Orphan", <<>>)>>, "no parent argument">>, <<<<Record("Child", <<>>)>>, "">>,
        <<<<Record("Inheriting", <<>>)>>, "">>, <<<<Record("WidgetOfObject", <<>>)>>, "no parent argument">>,
        <<<<Record("NoCtor", <<>>)>>, "">>, <<<<Record("OfSystem", <<>>)>>, "">>, <<<<Record("Plain", <<>>)>>, "">>,
        <<<<Record("Application", <<>>)>>, "">>>>)

ObjectClasses ==
    [c \in {"Item", "Plain", "Interface"} |-> <<>>]
    @@ "Overloads" :> [bases |-> <<"QObject">>, methods |-> {Overloaded("Overloads", <<>>), Overloaded("Overloads", <<Integer>>)}]
    @@ "BelowOverloads" :> [bases |-> <<"Single">>, methods |-> {Overloaded("BelowOverloads", <<T("bool")>>)}]
    @@ "Single" :> [bases |-> <<"QObject">>, methods |-> {Overloaded("Single", <<>>)}]
    @@ "BelowSingle" :> [bases |-> <<"Single">>, methods |-> {Overloaded("BelowSingle", <<>>)}]
    @@ "Top" :> [bases |-> <<"QObject">>, methods |-> {Method("Top", "signal", {"signal"}), Method("Top", "method", {})}]
    @@ "Middle" :> [bases |-> <<"Top">>, methods |-> {Method("Middle", "h", {})}]
    @@ "Bottom" :> [bases |-> <<"Middle">>]
    @@ "Filter" :> [bases |-> <<"QObject">>, methods |-> {Method("Filter", "eventFilter", {})}]
    @@ "Highest" :> [methods |-> {Method("Highest", n, {}) : n \in {"f", "g"}}]
    @@ "Between" :> [bases |-> <<"Highest">>, methods |-> {Method("Between", "f", {}), Method("Between", "pure", {"pure"})}]
    @@ "Lowest" :> [bases |-> <<"Between">>]
    @@ "Orphan" :> [bases |-> <<"QObject">>, ctors |-> {Constructor("Orphan", <<Integer>>)}]
    @@ "Child" :> [bases |-> <<"QObject">>, ctors |-> {Constructor("Child", <<Ptr(T("QObject"))>>)}]
    @@ "Inheriting" :> [bases |-> <<"QObject">>, is |-> {"inherited ctor"}, ctors |-> {Constructor("Inheriting", <<Integer>>)}]
    @@ "WidgetOfObject" :> [bases |-> <<"QWidget">>, ctors |-> {Constructor("WidgetOfObject", <<Ptr(T("QObject"))>>)}]
    @@ "NoCtor" :> [bases |-> <<"QObject">>]
    @@ "SystemClass" :> [bases |-> <<"QObject">>, is |-> {"system"}, ctors |-> {Constructor("SystemClass", <<Integer>>)}]
    @@ "OfSystem" :> [bases |-> <<"SystemClass">>, ctors |-> {Constructor("OfSystem", <<Integer>>)}]
    @@ "QCoreApplication" :> [bases |-> <<"QObject">>]
    @@ "Application" :> [bases |-> <<"QCoreApplication">>, ctors |-> {Constructor("Application", <<Integer>>)}]

-----------------------------------------------------------------------------
(* The rule of three: every combination of the three and of what excuses.    *)

Destructors == <<"none", "empty", "filled", "protected", "defaulted">>
Copies == <<"none", "user", "deleted", "defaulted">>
Excuses == <<"", "polymorphic", "shared data", "shared pointer", "const field", "private">>
Threes == Combinations(<<Destructors, Copies, Copies, Excuses>>)

Special(kind, how) == {f \in {kind} : how # "none"}
HowFlags(how) == IF how \in {"empty", "filled"} THEN {"user"} ELSE IF how = "protected" THEN {"user", "protected"} ELSE {how}
SpecialFn(class, kind, how) == {Method(class, k, {k} \cup HowFlags(how)) : k \in Special(kind, how)}

ThreeClass(class, three) ==
    [methods |-> SpecialFn(class, "destructor", three[1]) \cup SpecialFn(class, "copyAssign", three[3]),
     ctors |-> SpecialFn(class, "copy", three[2]),
     bases |-> IF three[4] = "shared data" THEN <<"QSharedData">> ELSE <<>>,
     is |-> IF three[4] = "polymorphic" THEN {"polymorphic"} ELSE IF three[4] = "private" THEN {"Private name"} ELSE {},
     fields |-> IF three[4] = "shared pointer" THEN {[type |-> T("QSharedDataPointer")]}
                ELSE IF three[4] = "const field" THEN {[type |-> Const(Integer)]} ELSE {}]

\* What the class wrote itself; a const member and a deleted copy stand for two.
Wrote(three) ==
    {k \in {"destructor", "copy", "assign"} :
        CASE k = "destructor" -> three[1] \in {"empty", "filled", "protected"}
          [] k = "copy" -> three[2] = "user" [] OTHER -> three[3] = "user"}
NotCopied(three) ==
    "deleted" \in {three[2], three[3]} \/ (three[4] = "const field" /\ "none" \in {three[2], three[3]})
Wants(three) ==
    /\ Wrote(three) \notin {{}, {"destructor", "copy", "assign"}}
    /\ three[4] \notin {"polymorphic", "shared pointer", "private"}
    /\ IF "destructor" \in Wrote(three)
       THEN ~NotCopied(three) /\ (Wrote(three) = {"destructor"} => three[1] = "filled")
       ELSE three[4] # "shared data" /\ three[1] # "defaulted"

ThreeUnit(class, three) ==
    [Unit(<<Flag(Record(class, IF three[1] \in {"empty", "filled", "protected"}
                               THEN <<Define(Method(class, "destructor", {"destructor"} \cup HowFlags(three[1])), <<>>,
                                             OneOf(three[1] # "empty", Call(Simple, <<>>)))>> ELSE <<>>), {"private file"})>>,
          {"rule-of-three"}, Says(Wants(three), "rule-of-three", "rule of three"))
       EXCEPT !.classes = class :> ThreeClass(class, three)]

RuleOfThree == LET all == Threes IN [n \in DOMAIN all |-> ThreeUnit("Three", all[n])]

-----------------------------------------------------------------------------
(* The rule of two, copies of polymorphic classes.                           *)

Assigns(class, flags) == <<OperatorCall(Fn(class, "operator=", <<Const(Ref(T(class)))>>, Void, {"copyAssign"} \cup flags),
                                        <<Use("a", T(class)), Use("b", T(class))>>)>>
CopyOf(class, flags) == <<Construct(Fn(class, class, <<Const(Ref(T(class)))>>, Void, {"ctor", "copy"} \cup flags), <<Use("b", T(class))>>)>>

RuleOfTwo ==
    JudgedBodies("rule-of-two-soft",
      <<<<Assigns("OnlyCopy", {}), "no assign operator">>, <<Assigns("OnlyCopy", {"defaulted"}), "">>,
        <<Assigns("OnlyAssign", {}), "">>, <<Assigns("Plain", {}), "">>, <<Assigns("QColor", {}), "">>,
        <<CopyOf("OnlyAssign", {}), "trivial copy">>, <<CopyOf("OnlyAssign", {"defaulted"}), "">>,
        <<CopyOf("OnlyCopy", {}), "">>>>)

\* What the fixit takes away and where it puts the macro.
Sections == Combinations(<<Either, Either, Either>>)
SectionClass(class, s) ==
    [is |-> {"polymorphic"} \cup {f \in {"default ctor"} : s[1]} \cup {f \in {"private section"} : s[2]} \cup {f \in {"public section"} : s[3]},
     ctors |-> {Fn(class, class, <<>>, Void, {"copy"})}]
SectionText(s) ==
    (IF s[2] THEN IF s[1] THEN "private, and " ELSE "in the private section" ELSE IF s[1] THEN "at the end, and " ELSE "at the end")
    \o (IF s[1] THEN IF s[3] THEN "public ctor" ELSE "new public section" ELSE "")
SectionClasses == LET all == Sections IN [c \in {Member("Section", n) : n \in DOMAIN all} |->
                    LET n == CHOOSE m \in DOMAIN all : Member("Section", m) = c IN SectionClass(c, all[n])]

Copyable ==
    (LET all == Sections IN
       Judged("copyable-polymorphic", [n \in DOMAIN all |-> <<<<Record(Member("Section", n), <<>>)>>, SectionText(all[n])>>]))
    \o Judged("copyable-polymorphic",
         <<<<<<Record("FinalAlone", <<>>)>>, "">>, <<<<Record("FinalBelow", <<>>)>>, "at the end">>,
           <<<<Record("Uncopied", <<>>)>>, "">>, <<<<Record("Plain", <<>>)>>, "">>,
           <<<<Flag(Record("FinalBelow", <<>>), {"forward"})>>, "">>>>)

CopyFn(class, flags) == Fn(class, class, <<>>, Void, {"copy"} \cup flags)
CopyClasses ==
    "OnlyCopy" :> [is |-> {"nonTrivialCopy"}] @@ "OnlyAssign" :> [is |-> {"nonTrivialAssign"}]
    @@ "FinalAlone" :> [is |-> {"polymorphic", "final"}, ctors |-> {CopyFn("FinalAlone", {})}]
    @@ "Copied" :> [is |-> {"polymorphic"}, ctors |-> {CopyFn("Copied", {})}]
    @@ "Through" :> [is |-> {"polymorphic"}, bases |-> <<"Copied">>, ctors |-> {CopyFn("Through", {"protected"})}]
    @@ "FinalBelow" :> [is |-> {"polymorphic", "final"}, bases |-> <<"Through">>, ctors |-> {CopyFn("FinalBelow", {})}]
    @@ "Uncopied" :> [is |-> {"polymorphic"}, ctors |-> {CopyFn("Uncopied", {"deleted"})}]

-----------------------------------------------------------------------------
(* Q_OBJECT and Q_DECLARE_TYPEINFO.                                          *)

WithMacro(class) == Record(class, <<Flag(Declare(Method(class, "metaObject", {})), {"Q_OBJECT"})>>)
InSource(record) == Flag(record, {"source file"})

\* The Q_OBJECT of a class inside counts for the one around it, and one warning
\* is enough to have the moc file in the next.
Macros ==
    Judged("missing-qobject-macro",
      <<<<<<Record("Sender", <<>>)>>, "missing Q_OBJECT">>, <<<<WithMacro("Sender")>>, "">>, <<<<Record("Plain", <<>>)>>, "">>,
        <<<<Record("Plain", <<Record("Sender", <<>>)>>)>>, "">>,
        <<<<Record("Sender", <<WithMacro("Receiver")>>)>>, Contested>>,
        <<<<Flag(Record("Sender", <<>>), {"template"})>>, "">>, <<<<Flag(Record("Sender", <<>>), {"forward"})>>, "">>,
        <<<<InSource(Record("Sender", <<>>))>>, "missing Q_OBJECT and moc file">>>>)
    \o <<Unit(<<InSource(Record("Sender", <<>>)), InSource(Record("Receiver", <<>>))>>, {"missing-qobject-macro"},
              {<<"missing-qobject-macro", t>> : t \in {"missing Q_OBJECT and moc file", "missing Q_OBJECT"}}),
         Unit(<<Record("Plain", <<>>), InSource(WithMacro("Sender")), InSource(Record("Receiver", <<>>))>>, {"missing-qobject-macro"},
              {<<"missing-qobject-macro", "missing Q_OBJECT and moc file">>}),
         [Unit(<<InSource(Record("Sender", <<>>))>>, {"missing-qobject-macro"},
               {<<"missing-qobject-macro", "missing Q_OBJECT">>}) EXCEPT !.hasMocInclude = TRUE],
         [Unit(<<Record("Sender", <<>>)>>, {"missing-qobject-macro"}, {}) EXCEPT !.usingPreCompiledHeaders = TRUE]>>

HoldsThe(container, type) ==
    Function(<<Node("DeclStmt", <<>>, <<Variable("v", Generic(container, <<T(type)>>), {}, <<>>)>>)>>)
ClassifiesA(type) == Node("ClassTemplateSpecializationDecl", [type |-> Generic("QTypeInfo", <<T(type)>>), name |-> "QTypeInfo"], <<>>)
TypeInfos ==
    Judged("missing-typeinfo",
      <<<<<<HoldsThe("QVector", "Small")>>, "missing typeinfo">>, <<<<HoldsThe("QVector", "Large")>>, "missing typeinfo">>,
        <<<<HoldsThe("QList", "Small")>>, "missing typeinfo">>, <<<<HoldsThe("QList", "Large")>>, Contested>>,
        <<<<ClassifiesA("Small"), HoldsThe("QVector", "Small")>>, "">>,
        <<<<ClassifiesA("Small"), ClassifiesA("Large"), HoldsThe("QVector", "Small")>>, "">>,
        <<<<HoldsThe("QVector", "Small"), ClassifiesA("Small")>>, "missing typeinfo">>,
        <<<<ClassifiesA("Large"), HoldsThe("QVector", "Small")>>, "missing typeinfo">>,
        <<<<HoldsThe("QVector", "OnlyCopy")>>, "">>, <<<<HoldsThe("QVector", "QPoint")>>, "">>,
        <<<<HoldsThe("QHash", "Small")>>, "">>, <<<<HoldsThe("QVector", "int")>>, "">>>>)

InfoClasses == "Small" :> [size |-> 8] @@ "Large" :> [size |-> 24] @@ "QPoint" :> [is |-> {"system"}] @@ "QSharedData" :> <<>> @@ "QSharedDataPointer" :> <<>>

-----------------------------------------------------------------------------
(* Enumerations: their values and how they are written.                       *)

Enumerator(value, init, flags) == Node("EnumConstantDecl", [value |-> value, init |-> init, is |-> flags], <<>>)
Literals(values) == [n \in DOMAIN values |-> Enumerator(values[n], "literal", {})]
Enum(name, enumerators) == <<Node("EnumDecl", [name |-> name], enumerators)>>
FlagsAnd(value, init, flags) == Enum("Flags", Append(Literals(<<1, 2, 4>>), Enumerator(value, init, flags)))

\* Half of the values are powers of two, or nobody means flags.
Enums ==
    Judged("unexpected-flag-enumerator-value",
      <<<<FlagsAnd(8, "literal", {}), "">>, <<FlagsAnd(10, "literal", {}), "non power-of-2">>, <<FlagsAnd(0, "literal", {}), "">>,
        <<FlagsAnd(7, "literal", {}), "">>, <<FlagsAnd(28, "literal", {}), "">>, <<FlagsAnd(6, "literal", {}), "non power-of-2">>,
        <<FlagsAnd(3, "binary", {}), "">>, <<FlagsAnd(3, "reference", {}), "">>, <<FlagsAnd(3, "literal", {"mask"}), "">>,
        <<FlagsAnd(3, "", {}), "">>, <<Enum("", Literals(<<1, 2, 4, 10>>)), "">>,
        <<Enum("Flags", Literals(<<1, 2, 6>>)), "">>, <<Enum("Flags", Literals(<<1, 2, 3, 4, 5>>)), "">>,
        <<Enum("Flags", Literals(<<1, 2, 3, 4>>)), "">>, <<Enum("Flags", Literals(<<1, 2, 3, 5>>)), "non power-of-2">>,
        <<Enum("Flags", Literals(<<1, 3, 5, 9>>)), "">>, <<Enum("Flags", Literals(<<0, 1, 2, 4, 9>>)), "non power-of-2">>,
        <<Enum("Flags", Literals(<<0, 0 - 1, 2, 4>>)), "">>>>)

ClassClasses == ObjectClasses @@ SectionClasses @@ CopyClasses @@ InfoClasses
ClassUnits ==
    Joined(<<ConstSignals, ReturningSignals, VirtualSignals, OverloadedSignals, OverriddenSignals, NamedSlots, StaticPmfs, Filters,
             Posted, Events, ChildCasts, Skipping, Parents, RuleOfThree, RuleOfTwo, Copyable, Macros, TypeInfos, Enums>>)
=============================================================================
