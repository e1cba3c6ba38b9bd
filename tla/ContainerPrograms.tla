-------------------------- MODULE ContainerPrograms --------------------------
(* Loops over containers, and what is done with containers, temporaries and   *)
(* iterators.                                                              *)
EXTENDS Programs

LoopClasses ==
    [c \in {"QList", "QVector", "QVarLengthArray"} |-> [is |-> {"nonTrivialCopy", "nonTrivialDtor"}]]
    @@ "QString" :> [is |-> {"nonTrivialCopy", "nonTrivialDtor"}]
    @@ "QStringList" :> [bases |-> <<"QList">>, is |-> {"nonTrivialCopy"}]
    @@ "BigTrivial" :> [size |-> 20]
    @@ [c \in {"vector", "QSet", "QHash", "QForeachContainer", "Model", "Node"} |-> [is |-> {"nonTrivialCopy"}]]

-----------------------------------------------------------------------------
(* A range loop: where its container comes from, what it is, the variable of   *)
(* the loop, and whether a function gets the container before or behind it.   *)

Receive(type) == Call(Fn("", "receive", <<Const(Ref(type))>>, Void, {}), <<Use("list", type)>>)
Made(type) == Fn("", "make", <<>>, type, {})

RangeOf(source, type) ==
    CASE source = "member" -> Field(This("Model"), "m_list", type)
      [] source = "result" -> Temporary(type, Call(Made(type), <<>>))
      [] OTHER -> Use("list", type)

DeclaredAs(source, type) ==
    CASE source = "fresh" -> <<Local("list", type, <<Construct(Fn(type.name, type.name, <<>>, Void, {}), <<>>)>>)>>
      [] source = "made" -> <<Local("list", type, <<Cleanups(Node("CXXBindTemporaryExpr", <<>>, <<Call(Made(type), <<>>)>>))>>)>>
      [] source = "listed" ->
           <<Local("list", type, <<Cleanups(Flag(Construct(Fn(type.name, type.name, <<>>, Void, {}), <<>>), {"list"}))>>)>>
      [] OTHER -> <<>>

\* What is declared in the function and was not copied from elsewhere, nor given
\* away before the loop, is not shared; so are parameters, which the check takes
\* for local variables.
MayBeShared(source, given) == source \in {"member", "result", "made"} \/ given = "before"

RangeLoop(source, type, var, given) ==
    UnpromisedIf(source = "parameter" /\ given # "before", Unit(<<Define(Simple, IF source = "parameter" THEN <<Parameter("list", type)>> ELSE <<>>,
                  DeclaredAs(source, type)
                  \o OneOf(given = "before", Receive(type))
                  \o <<ForRange("s", var, RangeOf(source, type), <<>>)>>
                  \o OneOf(given = "after", Receive(type)))>>,
         {"range-loop-detach", "range-loop-reference"},
         Says(/\ "const" \notin type.is /\ type.name # "QVarLengthArray"
              /\ ~("ref" \in var.is /\ "const" \notin var.is) /\ MayBeShared(source, given),
              "range-loop-detach", IF source = "result" THEN "detach" ELSE "detach, as_const")
         \cup Says("ref" \notin var.is /\ var.name = "QString", "range-loop-reference", "missing reference")))

RangeLoops ==
    LET all == Combinations(<<<<"fresh", "made", "listed", "member", "result", "parameter">>,
                              <<T("QList"), Const(T("QList")), T("QStringList"), T("QVarLengthArray")>>,
                              <<T("QString"), Const(T("QString")), Ref(T("QString")), Const(Ref(T("QString"))), Integer>>,
                              <<"no", "before", "after">>>>)
        sound == SelectSeq(all, LAMBDA p : p[1] \in {"member", "result"} => p[4] = "no")
    IN [n \in DOMAIN sound |-> RangeLoop(sound[n][1], sound[n][2], sound[n][3], sound[n][4])]

-----------------------------------------------------------------------------
(* Q_FOREACH of Qt 5: a loop over a copy, with the loop of the variable in it. *)

QForeach(container, var, body) ==
    Node("ForStmt", [macro |-> "Q_FOREACH", cond |-> 0, inc |-> 0],
         <<Local("_container_", T("QForeachContainer"),
                 <<Construct(Fn("QForeachContainer", "QForeachContainer", <<>>, Void, {}), <<container>>)>>),
           Node("ForStmt", [macro |-> "Q_FOREACH", cond |-> 0, inc |-> 0], <<Local("s", var, <<>>), Block(body)>>)>>)

Detach(name, type) == MemberCall(AsConst(type, Use("list", type)), Fn("QList", name, <<>>, Ref(Integer), {}), <<>>)
ChangesCopy(type) == MemberCall(Use("s", type), Fn(type.name, "change", <<>>, Void, {}), <<>>)

ForeachLoop(type, var, body, version) ==
    [Unit(<<Define(Simple, <<>>,
                   <<Local("list", type, <<>>),
                     QForeach(AsConst(type, Use("list", type)), var,
                              CASE body = "detaches" -> <<Detach("begin", type)>>
                                [] body = "reads" -> <<Detach("cbegin", type)>>
                                [] body = "changes" -> <<ChangesCopy(var)>> [] OTHER -> <<>>)>>)>>,
          {"foreach"},
          IF version >= 50900 THEN {}
          ELSE IF type.name \in {"vector", "QVarLengthArray"} THEN {<<"foreach", "deep-copy">>}
          ELSE Says("const" \notin type.is /\ body = "detaches", "foreach", "container detached")
               \cup Says(var.name # "int" /\ "ref" \notin var.is /\ body # "changes", "foreach", "missing reference"))
     EXCEPT !.qtVersion = version]

Foreachs ==
    LET all == Combinations(<<<<T("QList"), Const(T("QList")), T("QVarLengthArray"), T("vector")>>,
                              <<T("QString"), T("BigTrivial"), Const(Ref(T("QString"))), Integer>>,
                              <<"nothing", "detaches", "reads", "changes">>, <<50800, 50900>>>>)
        sound == SelectSeq(all, LAMBDA p : /\ p[3] = "changes" => p[2] \in {T("QString"), T("BigTrivial")}
                                           /\ p[4] = 50900 => p[3] = "detaches")
    IN [n \in DOMAIN sound |-> ForeachLoop(sound[n][1], sound[n][2], sound[n][3], sound[n][4])]

-----------------------------------------------------------------------------
(* A container that is filled in loops: where it is declared, the loop the call *)
(* is in, what is around that loop, and what the loop holds beside the call.  *)

AppendTo(object) == MemberCall(object, Fn("QList", "append", <<Integer>>, Void, {}), <<Number(1)>>)
Reserve(object) == MemberCall(object, Fn("QList", "reserve", <<Integer>>, Void, {}), <<Number(10)>>)
Asks == Call(Fn("", "isDone", <<>>, T("bool"), {}), <<>>)
List == Use("list", T("QList"))
NewList == Local("list", T("QList"), <<Construct(Fn("QList", "QList", <<>>, Void, {}), <<>>)>>)

LoopOf(kind, body) ==
    CASE kind = "for" -> CountUp(body)
      [] kind = "range" -> Node("CXXForRangeStmt", <<>>, <<Local("n", Integer, <<>>), Use("numbers", T("QVector")), body>>)
      [] kind = "while" -> While(Asks, body)
      [] kind = "do" -> DoWhile(body, Asks)
      [] kind = "endless" -> For(Local("i", Integer, <<Number(0)>>), <<>>, <<>>, body)
      [] kind = "asks" -> For(Local("i", Integer, <<Number(0)>>), <<Asks>>, <<Unary("++", Use("i", Integer))>>, body)
      [] kind = "next" -> For(Local("n", Ptr(T("Node")), <<>>), <<Asks>>,
                              <<Binary("=", Use("n", Ptr(T("Node"))),
                                       Read(Ptr(T("Node")), Field(Use("n", Ptr(T("Node"))), "next", Ptr(T("Node")))))>>, body)
      [] OTHER -> body

Filling(declared, around, kind, beside) ==
    LET object == IF declared = "member" THEN Field(This("Model"), "list", T("QList")) ELSE List
        append == AppendTo(object)
        body == CASE beside = "if" -> <<If(Asks, Block(<<append>>))>>
                  [] beside = "behind, if" -> <<Local("k", Integer, <<>>), If(Asks, append)>>
                  [] beside = "break" -> <<If(Asks, Leaf("BreakStmt")), append>>
                  [] beside = "twice" -> <<append, append>>
                  [] OTHER -> <<append>>
        statements == OneOf(declared = "local", NewList) \o OneOf(beside = "reserve", Reserve(object))
                      \o <<LoopOf(around, LoopOf(kind, Block(OneOf(declared = "inside", NewList) \o body)))>>
        method(name, flags) == Fn("Model", name, <<>>, Void, flags)
    IN <<IF declared = "member"
         THEN Record("Model", <<Node("FieldDecl", [name |-> "list", type |-> T("QList")], <<>>),
                                Define(method("Model", {"ctor"}), <<>>, statements)>>)
         ELSE Define(Simple, OneOf(declared = "parameter", Parameter("list", Ref(T("QList")))), statements)>>

\* The second statement of a loop is searched without a limit: what it does
\* under a condition counts, too.
Fillings ==
    LET all == Combinations(<<<<"local", "inside", "parameter", "member">>, <<"no", "for", "while">>,
                              <<"for", "range", "while", "do", "endless", "asks", "next">>,
                              <<"nothing", "if", "behind, if", "break", "twice", "reserve">>>>)
        small == SelectSeq(all, LAMBDA p : /\ p[1] # "local" => p[3] = "for" /\ p[4] \in {"nothing", "behind, if"}
                                           /\ p[4] \notin {"nothing", "behind, if"} => p[2] = "no"
                                           /\ p[3] \notin {"for", "range"} => p[4] = "nothing" /\ p[2] = "no")
        few(p) == /\ p[1] \in {"local", "member"} /\ p[2] = "no" /\ p[3] \in {"for", "range"}
                  /\ p[4] \in {"nothing", "behind, if", "twice"}
    IN [n \in DOMAIN small |->
           UnpromisedIf(few(small[n]) /\ small[n][4] = "behind, if",
             Unit(Filling(small[n][1], small[n][2], small[n][3], small[n][4]), {"reserve-candidates"},
                  Says(few(small[n]), "reserve-candidates", "reserve candidate")))]

-----------------------------------------------------------------------------
(* Containers that are made in each turn of a loop, or for the loop.          *)

NewVector(init) == Local("v", T("QVector"), <<Construct(Fn("QVector", "QVector", <<>>, Void, {}), init)>>)
Gets(type) == Call(Fn("", "receives", <<type>>, Void, {}), <<Use("v", T("QVector"))>>)

VectorsInLoops ==
    JudgedBodies("container-inside-loop",
      <<<<<<CountUp(Block(<<NewVector(<<>>)>>))>>, "container inside loop">>,
        <<<<NewVector(<<>>), CountUp(Block(<<>>))>>, "">>,
        <<<<While(Asks, Block(<<NewVector(<<Use("w", T("QVector"))>>)>>))>>, "">>,
        <<<<While(Asks, Block(<<NewVector(<<>>), Gets(Ref(T("QVector")))>>))>>, "">>,
        <<<<While(Asks, Block(<<NewVector(<<>>), Gets(T("QVector"))>>))>>, "container inside loop">>>>)

ListOf(class, method) == Ask(Use("c", T(class)), class, method, T("QList"), {"const"})
SizeOf(call) == Then(call, "QList", "size", Integer, {"const"})

AntiPatterns ==
    JudgedBodies("container-anti-pattern",
      <<<<<<SizeOf(ListOf("QVector", "toList"))>>, "unneeded temporary">>,
        <<<<SizeOf(ListOf("QHash", "keys"))>>, "unneeded temporary">>,
        <<<<SizeOf(ListOf("QList", "mid"))>>, "">>,
        <<<<ListOf("QHash", "keys")>>, "">>,
        <<<<ForRange("k", Integer, Temporary(T("QList"), ListOf("QHash", "values")), <<>>)>>, "unneeded temporary">>,
        <<<<ForRange("k", Integer, Use("c", T("QHash")), <<>>)>>, "">>,
        <<<<Node("CXXBindTemporaryExpr", <<>>, <<Call(Fn("QtPrivate", "qMakeForeachContainer", <<>>, Void, {}),
                                                      <<Cast("NoOp", T("QList"), ListOf("QHash", "keys"))>>)>>)>>, "unneeded temporary">>,
        <<<<Then(MemberCall(Use("c", T("QSet")), Fn("QSet", "intersect", <<>>, Ref(T("QSet")), {}), <<Use("d", T("QSet"))>>),
                 "QSet", "isEmpty", T("bool"), {"const"})>>, "use intersects">>>>)

LoopUnits == RangeLoops \o Foreachs \o Fillings \o VectorsInLoops \o AntiPatterns

-----------------------------------------------------------------------------
(* Containers without a loop.                                              *)

\* Iterators are classes in their containers, or pointers there.
Iterator(c) == T(c \o "::iterator")
ConstIterator(c) == T(c \o "::const_iterator")

ContainerClasses ==
    [c \in {"QList", "QVector", "QMap", "QHash", "QString", "QByteArray", "QMultiHash"} |-> [is |-> {"nonTrivialCopy", "nonTrivialDtor"}]]
    @@ [c \in {Iterator(d).name : d \in {"QList", "QMap", "QHash"}} |-> [short |-> "iterator", in |-> "QList"]]
    @@ [c \in {ConstIterator(d).name : d \in {"QList", "QMap", "QHash"}} |-> [short |-> "const_iterator", in |-> "QList"]]
    @@ [c \in {"QTextCursor", "QColor", "QRect", "Item", "QReadLocker", "QReadWriteLock", "QPersistentModelIndex",
               "QMutexLocker"} |-> <<>>]
    @@ "Model" :> [is |-> {}]

\* A function that makes one, and what is asked of it.
Make(type) == Call(Fn("", "make", <<>>, type, {}), <<>>)
OfMade(class, name, returns, flags) == Then(Make(T(class)), class, name, returns, flags)
OfNamed(class, name) == Ask(Use("c", T(class)), class, name, T("QList"), {"const"})
Index(object, class, flags) == OperatorCall(Fn(class, "operator[]", <<Integer>>, Ref(T("Item")), flags), <<object, Number(0)>>)

-----------------------------------------------------------------------------
(* Detaching.                                                              *)

Temporaries ==
    JudgedBodies("detaching-temporary",
      <<<<<<OfMade("QList", "first", Ref(Integer), {})>>, "detaches, fixit">>,
        <<<<OfMade("QList", "takeFirst", Integer, {})>>, "detaches">>,
        <<<<OfMade("QVector", "fill", Void, {})>>, "pointless and detaches">>,
        <<<<OfMade("QMap", "insert", Iterator("QMap"), {})>>, "pointless and detaches">>,
        <<<<OfMade("QList", "constFirst", Ref(Integer), {"const"})>>, "">>,
        <<<<Then(Make(Const(T("QList"))), "QList", "first", Ref(Integer), {})>>, "">>,
        <<<<Then(Make(Ref(T("QList"))), "QList", "first", Ref(Integer), {})>>, "">>,
        <<<<Index(Temporary(T("QHash"), Make(T("QHash"))), "QHash", {})>>, "detaches, fixit">>,
        <<<<Then(OfNamed("QMap", "values"), "QList", "first", Ref(Integer), {})>>, "">>,
        <<<<Then(OfNamed("QHash", "values"), "QList", "first", Ref(Integer), {})>>, "detaches, fixit">>,
        <<<<Then(OfNamed("QString", "split"), "QList", "first", Ref(Integer), {})>>, "">>,
        <<<<Then(Call(Fn("", "i18n", <<>>, T("QString"), {}), <<>>), "QString", "data", Ptr(Integer), {})>>, "">>>>)

TheList == Field(This("Model"), "m_list", T("QList"))
First1 == Ask(TheList, "QList", "first", Ref(T("Item")), {})
Begin1 == Ask(TheList, "QList", "begin", Iterator("QList"), {})
AtIndex == Index(TheList, "QList", {})
Sorts(type) == Call(Fn("", "sort", <<type>>, Void, {}), <<Begin1>>)

Members ==
    JudgedMethods("detaching-member", <<FieldOf("m_list", T("QList"))>>,
      <<<<<<First1>>, "detaches, fixit">>, <<<<Flag(First1, {"ignored file"})>>, "">>,
        <<<<Ask(TheList, "QList", "constFirst", Ref(T("Item")), {"const"})>>, "">>,
        <<<<Ask(Use("list", T("QList")), "QList", "first", Ref(T("Item")), {})>>, "">>,
        <<<<AtIndex>>, "detaches, fixit">>,
        <<<<Index(TheList, "QList", {"const"})>>, "">>,
        <<<<Binary("=", AtIndex, Number(1))>>, "">>,
        <<<<Binary("=", Use("x", Integer), AtIndex)>>, "detaches, fixit">>,
        <<<<Ask(AtIndex, "Item", "change", Void, {})>>, "">>,
        <<<<Ask(AtIndex, "Item", "value", Integer, {"const"})>>, "detaches, fixit">>,
        <<<<Unary("++", First1)>>, "">>,
        <<<<OperatorCall(Fn("Item", "operator=", <<T("Item")>>, Void, {}), <<First1, Use("x", T("Item"))>>)>>, "">>,
        <<<<Sorts(Iterator("QList"))>>, "">>,
        <<<<Sorts(ConstIterator("QList"))>>, "detaches, fixit">>>>)

\* A lock, something in the block behind it, and an unlock() somewhere.
Locker == Local("locker", T("QReadLocker"), <<Node("CXXConstructExpr", [callee |-> Fn("QReadLocker", "QReadLocker", <<>>, Void, {}),
                                                                       type |-> T("QReadLocker")], <<Use("lock", T("QReadWriteLock"))>>)>>)
LockForRead == Ask(Use("lock", T("QReadWriteLock")), "QReadWriteLock", "lockForRead", Void, {})
Unlock == Ask(Use("lock", T("QReadWriteLock")), "QReadWriteLock", "unlock", Void, {})

\* An unlock() of an earlier lock ends the range, too.
UnderLocks ==
    JudgedMethods("readlock-detaching", <<FieldOf("m_list", T("QList"))>>,
      <<<<<<Locker, First1>>, "detach under read lock">>,
        <<<<First1, Locker>>, "">>,
        <<<<LockForRead, AtIndex, Unlock>>, "detach under read lock">>,
        <<<<LockForRead, Unlock, AtIndex>>, "">>,
        <<<<LockForRead, Unlock, LockForRead, AtIndex>>, Contested>>,
        <<<<Locker, Block(<<First1>>)>>, "detach under read lock">>,
        <<<<Block(<<Locker>>), First1>>, "">>,
        <<<<LockForRead, Ask(TheList, "QList", "constFirst", Integer, {"const"})>>, "">>>>)

-----------------------------------------------------------------------------
(* Temporaries that are written to, or that something refers to.             *)

WrittenTemporaries ==
    JudgedBodies("writing-to-temporary",
      <<<<<<OfMade("QRect", "setX", Void, {})>>, "no-op">>, <<<<Flag(OfMade("QRect", "setX", Void, {}), {"ignored file"})>>, "">>,
        <<<<OfMade("QRect", "x", Integer, {"const"})>>, "">>,
        <<<<OfMade("QRect", "take", Integer, {})>>, "">>,
        <<<<OfMade("QTextCursor", "setX", Void, {"setter"})>>, "">>,
        <<<<OfMade("Item", "setX", Void, {"setter"})>>, "no-op">>,
        <<<<OfMade("Item", "change", Void, {})>>, "">>,
        <<<<OfMade("QColor", "getCmyk", Void, {})>>, "">>,
        <<<<Then(Make(Ref(T("QRect"))), "QRect", "setX", Void, {})>>, "">>,
        <<<<Ask(Use("c", T("QRect")), "QRect", "setX", Void, {})>>, "">>>>)

Bytes(var, type) == Variable(var, type, {}, <<>>)
Data(object, name) == Ask(object, "QByteArray", name, Literally, {"const"})
OfVariable(type) == <<Node("DeclStmt", <<>>, <<Bytes("bytes", type)>>), Return(<<Data(Use("bytes", type), "constData")>>)>>
OfTemporary == Data(Temporary(T("QByteArray"), Make(T("QByteArray"))), "data")
KeepsData(type, e) == <<Local("p", type, <<Cleanups(e)>>)>>

ReturnedData ==
    JudgedBodies("returning-data-from-temporary",
      <<<<OfVariable(T("QByteArray")), "data of temporary">>,
        <<OfVariable(Ref(T("QByteArray"))), "">>,
        <<OfVariable(Const(T("QByteArray"))), "">>,
        <<<<Node("DeclStmt", <<>>, <<Variable("bytes", T("QByteArray"), {"static local"}, <<>>)>>),
            Return(<<Data(Use("bytes", T("QByteArray")), "data")>>)>>, "">>,
        <<<<Return(<<Cleanups(OfTemporary)>>)>>, "data of temporary">>,
        <<<<Return(<<Data(Make(T("QByteArray")), "size")>>)>>, "">>,
        <<KeepsData(Literally, OfTemporary), "data of temporary">>,
        <<KeepsData(T("QByteArray"), OfTemporary), "">>,
        <<KeepsData(Literally, Data(Use("bytes", T("QByteArray")), "data")), "">>>>)

BeginOf(object, class, name) == Ask(object, class, name, Iterator(class), {})
Iterators ==
    JudgedBodies("temporary-iterator",
      <<<<<<BeginOf(Make(T("QList")), "QList", "begin")>>, "iterator of temporary">>,
        <<<<BeginOf(Temporary(T("QMap"), Make(T("QMap"))), "QMap", "find")>>, "iterator of temporary">>,
        <<<<BeginOf(Flag(Use("c", T("QList")), {"lvalue"}), "QList", "begin")>>, "">>,
        <<<<BeginOf(Read(T("QList"), Use("c", T("QList"))), "QList", "begin")>>, "">>,
        <<<<BeginOf(Make(Ptr(T("QList"))), "QList", "begin")>>, "">>,
        <<<<BeginOf(Make(T("QList")), "QList", "size")>>, "">>,
        <<<<BeginOf(Index(Use("c", T("QHash")), "QHash", {}), "QList", "begin")>>, "">>,
        <<<<BeginOf(Ask(Use("c", T("QVariant")), "QVariant", "toList", T("QList"), {"const"}), "QList", "begin")>>, "">>,
        <<<<OperatorCall(Fn("QList::iterator", "operator*", <<>>, Ref(Integer), {}), <<BeginOf(Make(T("QList")), "QList", "begin")>>)>>, "">>,
        <<<<BeginOf(Read(T("QList"), This("Model")), "QList", "begin")>>, "">>>>)

-----------------------------------------------------------------------------
(* Iterators that are mixed.                                               *)

Alias(c, name, flags) == [name |-> "int", is |-> {"pointer"} \cup flags, alias |-> <<c, name>>]
Converted(to, e) == Cast("ConstructorConversion", to, e)
AnIterator == Use("it", Iterator("QList"))

MixedIterators ==
    JudgedBodies("strict-iterators",
      <<<<<<Local("jt", ConstIterator("QList"), <<Converted(ConstIterator("QList"), AnIterator)>>)>>, "mixed iterators">>,
        <<<<Local("jt", Iterator("QList"), <<Cast("NoOp", Iterator("QList"), AnIterator)>>)>>, "">>,
        <<<<MemberCall(Use("c", T("QList")), Fn("QList", "erase", <<ConstIterator("QList")>>, Void, {}),
                       <<Converted(ConstIterator("QList"), AnIterator)>>)>>, "">>,
        <<<<MemberCall(Use("c", T("QList")), Fn("QList", "mid", <<ConstIterator("QList")>>, Void, {}),
                       <<Converted(ConstIterator("QList"), AnIterator)>>)>>, "mixed iterators">>,
        <<<<Cast("NoOp", Alias("QVector", "const_iterator", {"const"}), Use("p", Alias("QVector", "iterator", {})))>>, "mixed iterators">>,
        <<<<Cast("NoOp", Alias("Other", "const_iterator", {"const"}), Use("p", Alias("Other", "iterator", {})))>>, "">>,
        <<<<Cast("NoOp", Alias("QVector", "const_iterator", {"const"}),
                 Field(This("Model"), "m_p", Alias("QVector", "iterator", {})))>>, "">>,
        <<<<OperatorCall(Fn("QList::iterator", "operator==", <<Ref(ConstIterator("QList"))>>, T("bool"), {}),
                         <<AnIterator, Use("jt", ConstIterator("QList"))>>)>>, "mixed iterators">>,
        <<<<OperatorCall(Fn("QList::iterator", "operator==", <<Ref(Iterator("QList"))>>, T("bool"), {}),
                         <<AnIterator, Use("jt", Iterator("QList"))>>)>>, "">>>>)

-----------------------------------------------------------------------------
(* Copies and sizes.                                                       *)

DeleteAll(e) == Call(Fn("", "qDeleteAll", <<>>, Void, {}), <<Cast("NoOp", T("QList"), e)>>)
OfConst(class, name) == Ask(AsConst(T(class), Use("c", T(class))), class, name, T("QList"), {"const"})
Deletes ==
    JudgedBodies("qdeleteall",
      <<<<<<DeleteAll(OfConst("QHash", "values"))>>, "unnecessary values()">>,
        <<<<DeleteAll(OfConst("QMap", "keys"))>>, "unnecessary keys()">>,
        <<<<OfConst("QHash", "values")>>, "">>,
        <<<<DeleteAll(OfConst("QList", "values"))>>, "">>,
        <<<<DeleteAll(MemberCall(AsConst(T("QHash"), Use("c", T("QHash"))),
                                 Fn("QHash", "values", <<Integer>>, T("QList"), {"const"}), <<Number(1)>>))>>, "">>>>)

KeyOf(type) == <<Node("DeclStmt", <<>>, <<Variable("m", type, {}, <<>>)>>)>>
Keys ==
    JudgedBodies("mutable-container-key",
      <<<<KeyOf(Generic("QMap", <<T("QPersistentModelIndex"), Integer>>)), "mutable key">>,
        <<KeyOf(Generic("QHash", <<Integer, T("QPersistentModelIndex")>>)), "">>,
        <<KeyOf(Generic("QList", <<T("QPersistentModelIndex")>>)), "">>>>)

PointerKeys ==
    JudgedBodies("qmap-with-pointer-key",
      <<<<KeyOf(Generic("QMap", <<Ptr(T("Item")), Integer>>)), "pointer key">>, <<KeyOf(Generic("QMap", <<Integer, Ptr(T("Item"))>>)), "">>,
        <<KeyOf(Generic("QHash", <<Ptr(T("Item")), Integer>>)), "">>, <<KeyOf(Ptr(Generic("QMap", <<Ptr(T("Item")), Integer>>))), "">>>>)
    \o Judged("qhash-with-char-pointer-key",
      <<<<<<Define(Simple, <<Parameter("m", Generic("QHash", <<Literally, Integer>>))>>, <<>>)>>, "char pointer key">>,
        <<<<Define(Simple, <<Parameter("m", Ref(Generic("QHash", <<Literally, Integer>>)))>>, <<>>)>>, "">>,
        <<<<Function(KeyOf(Generic("QHash", <<Ptr(T("Item")), Integer>>)))>>, "">>, <<<<Function(KeyOf(Generic("QHash", <<T("char"), Integer>>)))>>, "">>>>)

SizeIs(op, n) == <<Cleanups(Binary(op, Ask(Use("c", T("QMap")), "QMap", "size", Integer, {"const"}), Number(n)))>>
Truth(class, args) ==
    <<Cast("IntegralToBoolean", T("bool"), MemberCall(Use("c", T(class)), Fn(class, "count", <<>>, Integer, {"const"}), args))>>
Counts ==
    JudgedBodies("isempty-vs-count",
      <<<<SizeIs("==", 0), "use isEmpty">>, <<SizeIs("<", 1), "use isEmpty">>, <<SizeIs(">", 0), "use isEmpty">>,
        <<SizeIs("==", 1), "">>, <<SizeIs(">", 1), "">>,
        <<Truth("QList", <<>>), "use isEmpty">>, <<Truth("QMap", <<Number(1)>>), "use contains">>,
        <<Truth("QMultiHash", <<Number(1), Number(2)>>), "use contains">>,
        <<Truth("QList", <<Number(1)>>), Contested>>, <<Truth("Item", <<>>), "">>>>)

-----------------------------------------------------------------------------
(* What is not used.                                                       *)

Declared(type, flags) == Node("DeclStmt", <<>>, <<Variable("v", type, flags, <<>>)>>)
UnusedVariables ==
    JudgedBodies("unused-non-trivial-variable",
      <<<<<<Declared(T("QList"), {})>>, "unused variable">>,
        <<<<Declared(T("QList"), {"maybe_unused"})>>, "">>,
        <<<<Declared(T("QList"), {}), Ask(Use("v", T("QList")), "QList", "size", Integer, {"const"})>>, "">>,
        <<<<Declared(T("Item"), {})>>, "">>, <<<<Declared(T("QMutexLocker"), {})>>, "">>,
        <<<<Declared(T("QColor"), {})>>, "unused variable">>>>)
    \o [n \in 1..2 |->
          [Unit(<<Function(<<Declared(<<T("Item"), T("QMutexLocker")>>[n], {})>>)>>, {"unused-non-trivial-variable"},
                Says(n = 1, "unused-non-trivial-variable", "unused variable")) EXCEPT !.options = {"no-whitelist"}]]

Getter(returns, flags) == Fn("Item", "normalized", <<>>, returns, {"const"} \cup flags)
Candidates ==
    Judged("qrequiredresult-candidates",
      <<<<<<Record("Item", <<Define(Getter(T("Item"), {"participle"}), <<>>, <<>>)>>)>>, "add Q_REQUIRED_RESULT">>,
        <<<<Record("Item", <<Declare(Getter(T("Item"), {"participle"}))>>)>>, "add Q_REQUIRED_RESULT">>,
        <<<<DefineOutside(Getter(T("Item"), {"participle"}), <<>>, <<>>)>>, "">>,
        <<<<Declare(Getter(T("Item"), {}))>>, "">>,
        <<<<Declare(Getter(T("Item"), {"participle", "nodiscard"}))>>, "">>,
        <<<<Declare(Getter(T("QRect"), {"participle"}))>>, "">>>>)

Size(returns, flags) == Ask(Use("c", T("QList")), "QList", "size", returns, flags)
UnusedResults ==
    JudgedBodies("unused-result-check",
      <<<<<<Size(Integer, {"const"})>>, "unused result">>, <<<<Size(Void, {"const"})>>, "">>, <<<<Size(Integer, {})>>, "">>,
        <<<<Local("n", Integer, <<Size(Integer, {"const"})>>)>>, "">>, <<<<Return(<<Size(Integer, {"const"})>>)>>, "">>>>)

ContainerUnits ==
    Joined(<<Temporaries, Members, UnderLocks, WrittenTemporaries, ReturnedData, Iterators, MixedIterators, Deletes, Keys, PointerKeys,
             Counts, UnusedVariables, Candidates, UnusedResults>>)
=============================================================================
