--------------------------- MODULE StringPrograms ----------------------------
(* Literals that become strings, and what is offered instead; then macros    *)
(* and directives, and the classes that they are in.                       *)
EXTENDS FunctionPrograms

Literal(flags) == Cast("ArrayToPointerDecay", Literally, Text(flags))
StringOf(params) == Fn("QString", "QString", params, Void, {"ctor"})
OfChars == StringOf(<<Literally>>)
OfLatin1 == StringOf(<<T("QLatin1String")>>)
ToLatin1 == Fn("QLatin1String", "QLatin1String", <<Literally>>, Void, {"ctor"})

\* QString("..."), a literal that is converted, QString(QLatin1String("...")).
Implicit(flags) == Construct(OfChars, <<Literal(flags)>>)
Bound(type, e) == Node("CXXBindTemporaryExpr", [type |-> type], <<e>>)
Functional(type, e) == Node("CXXFunctionalCastExpr", [type |-> type], <<Bound(type, e)>>)
Explicit(flags) == Functional(T("QString"), Implicit(flags))
Latin1(flags) == Node("CXXFunctionalCastExpr", [type |-> T("QLatin1String")], <<Construct(ToLatin1, <<Literal(flags)>>)>>)
FromLatin1String(e) == Construct(OfLatin1, <<e>>)
ExplicitLatin1(flags) == Functional(T("QString"), FromLatin1String(Latin1(flags)))

Named1(e) == Local("s", T("QString"), <<e>>)
Strings(cases) == JudgedBodies("qstring-allocations", cases)

Constructed ==
    Strings(
      <<<<<<Implicit({})>>, "QStringLiteral">>, <<<<Implicit({"empty"})>>, "QLatin1String">>,
        <<<<Implicit({"escaped"})>>, "none">>, <<<<Implicit({"concatenated"})>>, "">>,
        <<<<Named1(Explicit({}))>>, "QStringLiteral">>, <<<<Named1(Explicit({"empty"}))>>, "QLatin1String">>,
        <<<<Named1(Explicit({"escaped"}))>>, "none">>,
        <<<<With(Implicit({}), [macro |-> "TEXT"])>>, "QStringLiteral">>,
        <<<<Functional(T("QString"), With(Implicit({}), [macro |-> "TEXT"]))>>, "none">>,
        <<<<Construct(OfChars, <<Use("text", Literally)>>)>>, "">>,
        <<<<Construct(StringOf(<<Integer, T("QChar")>>), <<Literal({}), Number(1)>>)>>, "">>,
        <<<<Construct(Fn("QRegExp", "QRegExp", <<T("QString")>>, Void, {"ctor"}), <<Implicit({})>>)>>, "">>,
        <<<<Node("InitListExpr", <<>>, <<Implicit({})>>)>>, "">>,
        <<<<FromLatin1String(Latin1({}))>>, "QStringLiteral">>,
        <<<<FromLatin1String(Latin1({"empty"}))>>, "">>,
        <<<<FromLatin1String(Use("latin1", T("QLatin1String")))>>, "">>,
        <<<<Flag(Implicit({}), {"ui file"})>>, "">>>>)

\* What is said of one place after the other, and what options change.
StringUnit(e, texts) == Unit(<<Function(<<e>>)>>, {"qstring-allocations"}, {<<"qstring-allocations", text>> : text \in texts})

\* A replacement that is refused leaves the removal of the QString around it.
MoreConstructed ==
    <<StringUnit(Construct(OfChars, <<Ask(Implicit({}), "QString", "constData", Literally, {"const"})>>), {"none", "QStringLiteral"}),
      StringUnit(FromLatin1String(Latin1({"non ascii"})), {"none", "non-latin1 literal"}),
      StringUnit(Named1(ExplicitLatin1({})), {"QStringLiteral, remove QString"}),
      StringUnit(Named1(ExplicitLatin1({"escaped"})), {"remove QString"}),
      StringUnit(Named1(ExplicitLatin1({"non ascii"})), {"remove QString", "non-latin1 literal"}),
      [StringUnit(Implicit({"concatenated"}), {"QStringLiteral"}) EXCEPT !.options = {"no-msvc-compat"}],
      Developer(StringUnit(Flag(Implicit({}), {"qstring.cpp"}), {"none"})),
      [Developer(StringUnit(Implicit({}), {})) EXCEPT !.bootstrapping = TRUE]>>

InTernary(a, b) == Node("ConditionalOperator", <<>>, <<Use("c", T("bool")), a, b>>)
OnString(name, args) ==
    MemberCall(Use("s", T("QString")), Fn("QString", name, <<T("QString")>>, T("bool"), {"const"}), args)
StringMethods == <<"startsWith", "contains", "arg", "split">>

\* Where the other side may be better, there is no QString to make.
AsArguments ==
    Strings([n \in DOMAIN StringMethods |->
               <<<<OnString(StringMethods[n], <<Implicit({})>>)>>, IF n <= 2 THEN "QLatin1String" ELSE "QStringLiteral">>])

FromCall(name, params, args) == Call(Fn("QString", name, params, T("QString"), {"static"}), args)
Default == Node("CXXDefaultArgExpr", <<>>, <<>>)
From8(name, flags) == FromCall(name, <<Literally, Integer>>, <<Literal(flags), Default>>)
FromView(name, e) == FromCall(name, <<T("QByteArrayView")>>, <<e>>)
Appended(e) == MemberCall(Use("s", T("QString")), Fn("QString", "append", <<T("QString")>>, Void, {}), <<e>>)
Passed1(e) == Call(Fn("", "take", <<T("QString")>>, Void, {}), <<e>>)
Added(e) == OperatorCall(Fn("", "operator+", <<T("QString"), T("QString")>>, T("QString"), {}), <<Use("s", T("QString")), e>>)

Froms ==
    Strings(
      <<<<<<Passed1(From8("fromLatin1", {}))>>, "QStringLiteral">>, <<<<Appended(From8("fromLatin1", {}))>>, "QLatin1String">>,
        <<<<Added(From8("fromUtf8", {}))>>, "QLatin1String">>, <<<<Passed1(From8("fromUtf8", {"non ascii"}))>>, "QStringLiteral">>,
        <<<<Passed1(From8("fromLatin1", {"non ascii"}))>>, "none">>, <<<<Passed1(From8("fromLatin1", {"escaped"}))>>, "none">>,
        <<<<Passed1(With(From8("fromLatin1", {}), [macro |-> "TEXT"]))>>, "by hand">>,
        <<<<From8("fromLatin1", {"concatenated"})>>, "">>,
        <<<<FromView("fromUtf8", Literal({}))>>, "QLatin1String">>,
        <<<<FromView("fromUtf8", Use("view", T("QByteArrayView")))>>, "">>,
        <<<<FromCall("fromLatin1", <<Literally, Integer>>, <<Literal({}), Number(3)>>)>>, "">>,
        <<<<FromView("fromUtf8", InTernary(Literal({}), Literal({})))>>, "none">>,
        <<<<FromView("fromUtf8", InTernary(Use("a", Literally), Call(Simple, <<Literal({})>>)))>>, "">>,
        <<<<FromCall("number", <<Integer>>, <<Literal({})>>)>>, "">>>>)

Operated(name, class, flags, literal) ==
    <<OperatorCall(Fn(class, name, <<Literally>>, T("bool"), flags), <<Use("s", T("QString")), literal>>)>>
Operators ==
    Strings(
      <<<<Operated("operator==", "QString", {}, Literal({})), "QLatin1String">>,
        <<Operated("operator==", "QString", {}, Literal({"empty"})), "isEmpty">>,
        <<Operated("operator!=", "QString", {}, Literal({"empty"})), "not isEmpty">>,
        <<Operated("operator+=", "QString", {}, Literal({"non ascii"})), "QStringLiteral">>,
        <<Operated("operator+=", "QString", {}, Literal({"escaped"})), "none">>,
        <<Operated("operator+=", "QString", {}, Use("text", Literally)), "">>,
        <<Operated("operator+=", "QByteArray", {}, Literal({})), "">>,
        <<Operated("operator==", "", {"defined elsewhere"}, Literal({})), "">>,
        <<Operated("operator==", "", {}, Literal({})), "QLatin1String">>>>)

Assigned(e) == <<OperatorCall(Fn("QString", "operator=", <<T("QLatin1String")>>, Ref(T("QString")), {}), <<Use("s", T("QString")), e>>)>>
Assignments ==
    Strings(
      <<<<Assigned(Latin1({})), "QStringLiteral">>, <<Assigned(Use("latin1", T("QLatin1String"))), "">>,
        <<Assigned(InTernary(Latin1({}), Latin1({}))), "QStringLiteral in both">>,
        <<Assigned(InTernary(Latin1({}), Use("latin1", T("QLatin1String")))), "none">>>>)

-----------------------------------------------------------------------------
(* s.arg(a).arg(b): calls that take a string, two strings or a number.        *)

ArgOf(class, params) == Fn(class, "arg", params, T("QString"), {"const"})
Param(type, param) == [param |-> param] @@ type
AString == Use("a", T("QString"))
OneString == <<ArgOf("QString", <<T("QString"), Integer, T("QChar")>>), <<AString, Default, Default>>>>
Aligned == <<OneString[1], <<AString, Number(8), Default>>>>
TwoStrings == <<ArgOf("QString", <<T("QString"), T("QString")>>), <<AString, AString>>>>
ANumber(args) ==
    <<ArgOf("QString", <<Integer, Param(Integer, "fieldWidth"), Param(Integer, "base"), T("QChar")>>), <<Use("n", Integer)>> \o args>>
Trimmed == <<Fn("QString", "trimmed", <<>>, T("QString"), {"const"}), <<>>>>
Plainly == ANumber(<<Default, Default, Default>>)

\* The last call is the outermost.
Chained(calls) ==
    LET call[n \in 0..Len(calls)] ==
            IF n = 0 THEN Use("s", T("QString")) ELSE MemberCall(call[n - 1], calls[n][1], calls[n][2])
    IN call[Len(calls)]

ArgUnit(e, texts) == Unit(<<Function(<<e>>)>>, {"qstring-arg"}, {<<"qstring-arg", text>> : text \in texts})

\* Ten arguments are too many; a group that was left is found further in.
Chains ==
    LET cases ==
          <<<<<<OneString>>, {}>>, <<<<OneString, OneString>>, {"multi-arg of 2"}>>, <<<<OneString, OneString, OneString>>, {"multi-arg of 3"}>>,
            <<<<OneString, TwoStrings>>, {"multi-arg of 2"}>>, <<<<OneString, Aligned>>, {}>>, <<<<OneString, Plainly, OneString>>, {}>>,
            <<<<OneString, Trimmed, OneString>>, {}>>, <<<<OneString, OneString, Plainly, OneString>>, {"multi-arg of 2"}>>,
            <<<<OneString, OneString, OneString, Plainly, OneString, OneString>>, {"multi-arg of 2", "multi-arg of 3"}>>,
            <<<<TwoStrings, TwoStrings, TwoStrings, TwoStrings, OneString>>, {"multi-arg of 5"}>>,
            <<<<TwoStrings, TwoStrings, TwoStrings, TwoStrings, TwoStrings>>, {}>>>>
    IN [n \in DOMAIN cases |-> UnpromisedIf(n = Len(cases), ArgUnit(Chained(cases[n][1]), cases[n][2]))]
       \o <<ArgUnit(With(Chained(<<OneString, OneString>>), [macro |-> "QT_REQUIRE_VERSION"]), {})>>

OnLatin1(type, e) == MemberCall(Latin1({}), ArgOf("QLatin1String", <<type>>), <<e>>)
Latin1Args ==
    <<ArgUnit(OnLatin1(T("QChar"), Use("n", Integer)), {"cast to QChar"}), ArgUnit(OnLatin1(T("QChar"), Use("c", T("char"))), {}),
      ArgUnit(OnLatin1(T("QString"), AString), {}),
      [ArgUnit(OnLatin1(T("QChar"), Use("n", Integer)), {}) EXCEPT !.qtVersion = 51300]>>

\* Only a number or a telling name shows what a width or a base is for.
FillChars ==
    LET cases == <<<<<<Use("x", Integer), Default, Default>>, TRUE>>, <<<<Use("width", Integer), Default, Default>>, FALSE>>,
                   <<<<Number(4), Default, Default>>, FALSE>>, <<<<Use("x", Integer), Number(16), Default>>, FALSE>>,
                   <<<<Use("x", Integer), Use("base", Integer), Default>>, FALSE>>,
                   <<<<Use("base", Integer), Use("width", Integer), Default>>, TRUE>>, <<<<Default, Default, Default>>, FALSE>>>>
    IN [n \in DOMAIN cases |->
          [ArgUnit(Chained(<<ANumber(cases[n][1])>>), {t \in {"fillChar overload"} : cases[n][2]}) EXCEPT !.options = {"fillChar-overloads"}]]
       \o <<ArgUnit(Chained(<<ANumber(<<Use("x", Integer), Default, Default>>)>>), {})>>

-----------------------------------------------------------------------------
(* One call behind the other.                                              *)

Judging(check, cases) == JudgedBodies(check, [n \in DOMAIN cases |-> <<<<cases[n][1]>>, cases[n][2]>>])

FromEnvironment == Call(Fn("", "qgetenv", <<Literally>>, T("QByteArray"), {}), <<Literal({})>>)
OnBytes(object, name, args) == MemberCall(object, Fn("QByteArray", name, <<>>, T("bool"), {"const"}), args)
OnVariable(name, args) == OnBytes(Temporary(T("QByteArray"), FromEnvironment), name, args)
ItsNumber == "qEnvironmentVariableIntValue"
NoOk == Cast("NullToPointer", Ptr(T("bool")), Leaf("CXXNullPtrLiteralExpr"))
Ok == Unary("&", Use("ok", T("bool")))
Environment ==
    Judging("qgetenv",
      <<<<OnVariable("isEmpty", <<>>), "qEnvironmentVariableIsEmpty">>, <<OnVariable("isNull", <<>>), "qEnvironmentVariableIsSet">>,
        <<OnVariable("toInt", <<Default, Default>>), ItsNumber \o ", base 0">>, <<OnVariable("toInt", <<Ok, Default>>), ItsNumber \o ", ok, base 0">>,
        <<OnVariable("toInt", <<Ok, Number(0)>>), ItsNumber \o ", ok">>, <<OnVariable("toInt", <<NoOk, Number(0)>>), ItsNumber>>,
        <<OnVariable("toInt", <<NoOk, Number(16)>>), "">>, <<OnVariable("toInt", <<NoOk, Use("base", Integer)>>), "">>, <<OnVariable("size", <<>>), "">>,
        <<OnBytes(Use("bytes", T("QByteArray")), "isEmpty", <<>>), "">>, <<OnBytes(Temporary(T("QByteArray"), OnVariable("trimmed", <<>>)), "isEmpty", <<>>), "">>,
        <<OnBytes(Temporary(T("QByteArray"), Call(Fn("", "bytes", <<>>, T("QByteArray"), {}), <<>>)), "isEmpty", <<>>), "">>>>)

CurrentDate(name) == Call(Fn("QDateTime", name, <<>>, T("QDateTime"), {"static"}), <<>>)
DateAs(name, date) == MemberCall(Temporary(T("QDateTime"), date), Fn("QDateTime", name, <<>>, Integer, {"const"}), <<>>)
Dates ==
    Judging("qdatetime-utc",
      <<<<DateAs("toMSecsSinceEpoch", CurrentDate("currentDateTime")), "currentMSecsSinceEpoch">>, <<DateAs("toUTC", CurrentDate("currentDateTime")), "currentDateTimeUtc">>,
        <<DateAs("toTime_t", CurrentDate("currentDateTimeUtc")), "currentSecsSinceEpoch">>, <<DateAs("toSecsSinceEpoch", CurrentDate("fromString")), "">>,
        <<DateAs("date", CurrentDate("currentDateTime")), "">>, <<DateAs("toUTC", DateAs("addDays", CurrentDate("currentDateTime"))), "">>,
        <<Ask(Use("now", T("QDateTime")), "QDateTime", "toUTC", T("QDateTime"), {"const"}), "">>>>)

DataOf(class, name) == Ask(Use("d", T(class)), class, name, Ptr(T("Sender")), {"const"})
Statically(e) == Node("CXXStaticCastExpr", [type |-> Ptr(T("Receiver"))], <<e>>)
PointedTo(object) == MemberCall(object, Fn("Sender", "f", <<>>, Ptr(T("Sender")), {}), <<>>)
Arrows ==
    Judging("use-arrow-operator-instead-of-data",
      <<<<PointedTo(DataOf("QPointer", "data")), "use ->">>, <<PointedTo(PointedTo(DataOf("QScopedPointer", "data"))), "use ->">>, <<DataOf("QPointer", "data"), "">>,
        <<PointedTo(DataOf("QPointer", "get")), "">>, <<PointedTo(DataOf("QByteArray", "data")), "">>,
        <<PointedTo(Statically(DataOf("QPointer", "data"))), "">>, <<PointedTo(Cast("DerivedToBase", Ptr(T("Sender")), Statically(DataOf("QPointer", "data")))), "">>>>)

Mid == Ask(Use("s", T("QString")), "QString", "mid", T("QString"), {"const"})
OnMid(name, params, args) == MemberCall(Temporary(T("QString"), Mid), Fn("QString", name, params, T("bool"), {"const"}), args)
ToMid(class, name) == MemberCall(Use("t", T("QString")), Fn(class, name, <<T("QString")>>, Void, {}), <<Temporary(T("QString"), Mid)>>)
MadeOf(class, e) == Construct(Fn(class, class, <<T("bool")>>, Void, {"ctor"}), <<Temporary(T("bool"), e)>>)
Refs ==
    Judging("qstring-ref",
      <<<<OnMid("toInt", <<>>, <<>>), "midRef">>, <<OnMid("trimmed", <<>>, <<>>), "">>, <<OnMid("contains", <<T("QString")>>, <<AString>>), "midRef">>,
        <<OnMid("contains", <<Ref(T("QRegularExpression"))>>, <<Use("re", T("QRegularExpression"))>>), "">>,
        <<Ask(Use("s", T("QString")), "QString", "toInt", Integer, {"const"}), "">>, <<Then(Ask(Use("s", T("QString")), "QString", "trimmed", T("QString"), {"const"}), "QString", "toInt", Integer, {"const"}), "">>,
        <<MadeOf("QVariant", OnMid("isEmpty", <<>>, <<>>)), "">>, <<MadeOf("QString", OnMid("isEmpty", <<>>, <<>>)), "midRef">>,
        <<MadeOf("QVariant", Call(Fn("", "f", <<T("bool")>>, T("bool"), {}), <<OnMid("isEmpty", <<>>, <<>>)>>)), "midRef">>,
        <<ToMid("QString", "append"), "midRef">>, <<ToMid("QString", "prepend"), "">>, <<ToMid("QString", "startsWith"), Contested>>, <<ToMid("QByteArray", "append"), "">>,
        <<OperatorCall(Fn("QString", "operator+=", <<T("QString")>>, Void, {}), <<Use("t", T("QString")), Temporary(T("QString"), Mid)>>), "midRef">>,
        <<Appended(Temporary(T("QString"), Ask(Use("s", T("QString")), "QString", "trimmed", T("QString"), {"const"}))), "">>, <<Appended(AString), "">>>>)

-----------------------------------------------------------------------------
(* Patterns and lists that are made anew; literals.                         *)

ALiteral == Temporary(T("QString"), Implicit({}))
Filled == Temporary(T("QString"), Ask(Implicit({}), "QString", "arg", T("QString"), {"const"}))
Regex(arg) == Construct(Fn("QRegularExpression", "QRegularExpression", <<T("QString"), T("enum")>>, Void, {"ctor"}), <<arg, Default>>)
ARegex == Use("re", T("QRegularExpression"))
MatchedBy(re) == MemberCall(re, Fn("QRegularExpression", "match", <<T("QString")>>, T("match"), {"const"}), <<AString>>)
SearchedFor(class, re) == MemberCall(Use("s", T(class)), Fn(class, "contains", <<Ref(T("QRegularExpression"))>>, T("bool"), {"const"}), <<re>>)
MadeHere(re) == Temporary(T("QRegularExpression"), re)
Kept(flags, re) == Node("DeclStmt", <<>>, <<Variable("re", T("QRegularExpression"), flags, <<re>>)>>)
Patterns ==
    JudgedBodies("use-static-qregularexpression", [n \in 1..15 |-> LET cases ==
      <<<<<<MatchedBy(MadeHere(Regex(ALiteral)))>>, TRUE>>, <<<<SearchedFor("QString", MadeHere(Regex(ALiteral)))>>, TRUE>>,
        <<<<MatchedBy(MadeHere(Regex(Filled)))>>, FALSE>>, <<<<SearchedFor("QString", MadeHere(Regex(Filled)))>>, FALSE>>, <<<<SearchedFor("Other", MadeHere(Regex(ALiteral)))>>, FALSE>>,
        <<<<Local("pattern", T("QString"), <<ALiteral>>), SearchedFor("QStringList", MadeHere(Regex(Use("pattern", T("QString")))))>>, TRUE>>,
        <<<<Local("pattern", T("QString"), <<Node("ExprWithCleanups", <<>>, <<Construct(OfChars, <<Filled>>)>>)>>),
            SearchedFor("QString", MadeHere(Regex(Use("pattern", T("QString")))))>>, FALSE>>,
        <<<<SearchedFor("QString", MadeHere(Regex(Use("pattern", T("QString")))))>>, FALSE>>, <<<<SearchedFor("QString", MadeHere(Regex(Use("pattern", Literally))))>>, FALSE>>,
        <<<<Kept({}, Regex(ALiteral)), MatchedBy(ARegex)>>, TRUE>>, <<<<Kept({}, Regex(ALiteral)), SearchedFor("QString", ARegex)>>, TRUE>>,
        <<<<Kept({"static", "static local"}, Regex(ALiteral)), MatchedBy(ARegex)>>, FALSE>>, <<<<Kept({}, Regex(Filled)), MatchedBy(ARegex)>>, FALSE>>,
        <<<<Kept({}, Call(Fn("", "regex", <<>>, T("QRegularExpression"), {}), <<>>)), MatchedBy(ARegex)>>, FALSE>>,
        <<<<MemberCall(MadeHere(Regex(ALiteral)), Fn("QRegularExpression", "isValid", <<>>, T("bool"), {"const"}), <<>>)>>, FALSE>>>>
      IN <<cases[n][1], IF cases[n][2] THEN "temporary QRegularExpression" ELSE "">>])

Streaming(list, e) == OperatorCall(Fn("QStringList", "operator<<", <<T("QString")>>, Ref(T("QStringList")), {}), <<list, e>>)
NoStrings == Construct(Fn("QStringList", "QStringList", <<>>, Void, {"ctor"}), <<>>)
FromNothing == Streaming(Streaming(Temporary(T("QStringList"), NoStrings), AString), AString)
FromAList == Streaming(Use("list", T("QStringList")), AString)
GivenAway(list) == Call(Fn("", "take", <<T("QStringList")>>, Void, {}), <<AsConst(T("QStringList"), list)>>)
ListOfStrings(e) ==
    Local("l", T("QStringList"),
          <<With(Cleanups(Construct(Fn("QStringList", "QStringList", <<T("QStringList")>>, Void, {"ctor"}), <<e>>)), [type |-> T("QStringList")])>>)
Lists ==
    Judging("modernize-list-initialization",
      <<<<GivenAway(FromNothing), "initializer list">>, <<GivenAway(FromAList), "">>, <<FromNothing, "">>,
        <<GivenAway(Streaming(Temporary(T("QStringList"), Call(Fn("", "strings", <<>>, T("QStringList"), {}), <<>>)), AString)), "">>,
        <<GivenAway(Streaming(Node("MaterializeTemporaryExpr", <<>>, <<Functional(T("QStringList"), NoStrings)>>), AString)), "initializer list">>,
        <<ListOfStrings(AsConst(T("QStringList"), FromNothing)), "initializer list of a variable">>,
        <<ListOfStrings(Node("ParenExpr", <<>>, <<FromNothing>>)), "initializer list of a variable">>,
        <<ListOfStrings(AsConst(T("QStringList"), FromAList)), "">>, <<Local("l", T("QStringList"), <<NoStrings>>), "">>>>)

Hex == {"#", "hex digits"}
ColorText(length, flags) == Cast("ArrayToPointerDecay", Literally, Node("StringLiteral", [is |-> flags, length |-> length], <<>>))
ColorOf(e) == Construct(Fn("QColor", "QColor", <<Literally>>, Void, {"ctor"}), <<e>>)
AsString(e) == Temporary(T("QString"), Construct(OfChars, <<e>>))
FromColorString(args) == Call(Fn("QColor", "fromString", <<T("QAnyStringView")>>, T("QColor"), {"static"}), args)
AnyView(e) == Construct(Fn("QAnyStringView", "QAnyStringView", <<Literally>>, Void, {"ctor"}), <<e>>)
NamedColor(e) == MemberCall(Use("c", T("QColor")), Fn("QColor", "setNamedColor", <<T("QString")>>, Void, {}), <<e>>)
Colors ==
    Judging("qcolor-from-literal",
      <<<<ColorOf(ColorText(4, Hex)), "RGB">>, <<ColorOf(ColorText(7, Hex)), "RGB">>, <<ColorOf(ColorText(9, Hex)), "ints">>, <<ColorOf(ColorText(10, Hex)), "QRgba64">>,
        <<ColorOf(ColorText(13, {"#"})), "digits">>, <<ColorOf(ColorText(14, Hex)), "length">>, <<ColorOf(ColorText(3, {"hex digits"})), "">>,
        <<ColorOf(AsString(ColorText(7, Hex))), "">>, <<FromColorString(<<AnyView(ColorText(7, Hex))>>), "RGB">>, <<FromColorString(<<AnyView(ColorText(3, {}))>>), "">>,
        <<FromColorString(<<Use("v", T("QAnyStringView"))>>), "">>, <<NamedColor(AsString(ColorText(7, Hex))), "named color">>,
        <<NamedColor(AsString(ColorText(7, {"#"}))), "named color">>, <<NamedColor(AsString(ColorText(5, Hex))), "">>, <<NamedColor(AsString(ColorText(7, {}))), "">>>>)

InQt6(flags, made) == Flag(With(Call(Fn("QtPrivate", "qMakeStringPrivate", <<>>, T("data"), {}), <<Literal(made)>>), [macro |-> "QStringLiteral"]), flags)
InQt5(elements) ==
    With(Node("DeclStmt", <<>>, <<Variable("qstring_literal", T("data"), {"static"}, <<Node("InitListExpr", <<>>, elements)>>)>>), [macro |-> "QStringLiteral"])
EmptyLiterals ==
    LET cases == <<<<InQt6({}, {"empty"}), TRUE, 60000>>, <<InQt6({}, {}), FALSE, 60000>>, <<InQt6({"ui file"}, {"empty"}), FALSE, 60000>>,
                   <<With(InQt6({}, {"empty"}), [macro |-> ""]), FALSE, 60000>>, <<InQt6({}, {"empty"}), FALSE, 51500>>,
                   <<InQt5(<<Number(0), Text({"empty"})>>), TRUE, 51500>>, <<InQt5(<<Number(0), Text({})>>), FALSE, 51500>>,
                   <<InQt5(<<Text({"empty"})>>), FALSE, 51500>>, <<InQt5(<<Number(0), Text({"empty"})>>), FALSE, 60000>>>>
    IN [n \in DOMAIN cases |->
          [Judging("empty-qstringliteral", <<<<cases[n][1], IF cases[n][2] THEN "empty QStringLiteral" ELSE "">>>>)[1] EXCEPT !.qtVersion = cases[n][3]]]

BuilderType == T("QStringBuilder")
Builders ==
    Judging("auto-unexpected-qstringbuilder",
      <<<<Local("b", As(BuilderType, {"auto"}), <<>>), "QString">>, <<Local("b", Const(As(BuilderType, {"auto"})), <<>>), "const QString">>,
        <<Local("b", BuilderType, <<>>), "">>, <<Local("b", As(T("QString"), {"auto"}), <<>>), "">>, <<Local("b", As(Ref(BuilderType), {"auto"}), <<>>), "">>,
        <<Lambda(Fn("", "operator()", <<>>, BuilderType, {}), <<>>), "lambda returns QStringBuilder">>, <<Lambda(Closure, <<>>), "">>>>)

-----------------------------------------------------------------------------
(* Calls of QString, literals that have to be of a form.                     *)

LeftOf(class, n) == MemberCall(Use("s", T(class)), Fn(class, "left", <<Integer>>, T(class), {"const"}), <<n>>)
Lefts ==
    Judging("qstring-left",
      <<<<LeftOf("QString", Number(0)), "left(0)">>, <<LeftOf("QString", Number(1)), "left(1)">>, <<LeftOf("QString", Number(2)), "">>,
        <<LeftOf("QString", Cast("IntegralCast", T("qsizetype"), Number(0))), "">>, <<LeftOf("QByteArray", Number(0)), "">>>>)
NonAscii ==
    Judging("qlatin1string-non-ascii",
      <<<<Latin1({"non ascii"}), "non-ascii literal">>, <<Latin1({}), "">>, <<Construct(ToLatin1, <<Use("text", Literally)>>), "">>, <<Implicit({"non ascii"}), "">>>>)

Lowered(e) == Ask(e, "QString", "toLower", T("QString"), {"const"})
Contained(e) == Then(e, "QString", "contains", T("bool"), {"const"})
Insensitive ==
    Judging("qstring-insensitive-allocation",
      <<<<Contained(Lowered(Use("s", T("QString")))), "unneeded allocation">>, <<Then(Lowered(Use("s", T("QString"))), "QString", "trimmed", T("QString"), {"const"}), "">>,
        <<Contained(Ask(Use("s", T("QString")), "QString", "trimmed", T("QString"), {"const"})), "">>, <<Lowered(Use("s", T("QString"))), "">>,
        <<Contained(Lowered(Temporary(T("QString"), Ask(Use("s", T("QString")), "QString", "trimmed", T("QString"), {"const"})))), "">>>>)

AChar(e) == Cast("ConstructorConversion", T("QChar"), Construct(Fn("QChar", "QChar", <<Integer>>, Void, {"ctor"}), <<e>>))
EqualChars(class, params, e) == OperatorCall(Fn(class, "operator==", params, T("bool"), {}), <<Use("s", T("QString")), e>>)
StringAndChar == <<Const(Ref(T("QString"))), T("QChar")>>
ImplicitChars ==
    Judging("qstring-comparison-to-implicit-char",
      <<<<EqualChars("", StringAndChar, AChar(Number(65))), "implicit QChar">>, <<EqualChars("", StringAndChar, Use("c", T("QChar"))), "">>,
        <<EqualChars("", <<T("QChar"), Const(Ref(T("QString")))>>, AChar(Number(65))), "">>, <<EqualChars("QString", <<T("QChar")>>, AChar(Number(65))), "">>,
        <<EqualChars("", <<Const(Ref(T("QString"))), Const(Ref(T("QString")))>>, AChar(Number(65))), "">>>>)

Trapped(f, e) == Binary(",", Call(Fn("", f, <<>>, Void, {}), <<>>), e)
Variadic ==
    Judging("qstring-varargs",
      <<<<Trapped("__builtin_trap", AString), "variadic function">>, <<Trapped("__builtin_trap", Use("b", T("QByteArray"))), "variadic function">>,
        <<Trapped("__builtin_trap", Use("c", T("Item"))), "">>, <<Trapped("f", AString), "">>, <<Trapped("__builtin_trap", Use("s", Ptr(T("QString")))), "">>>>)

Translated(class, e) == Call(Fn(class, "tr", <<Literally>>, T("QString"), {"static"}), <<e>>)
Translations ==
    Judging("tr-non-literal",
      <<<<Translated("QObject", Read(Literally, Use("text", Literally))), "no literal">>, <<Translated("QObject", Literal({})), "">>,
        <<Translated("QObject", InTernary(Literal({}), Literal({}))), Contested>>, <<Translated("Item", Use("text", Literally)), "">>>>)

\* Literals that are one thing or another.
ClassName == Literal({"class name"})
MethodName == Literal({"class name", "method name"})
JniSignature == Literal({"method signature"})
Garbage == Literal({})
Jni(name, args) == Call(Fn("QAndroidJniObject", name, <<>>, Void, {}), args)
JniObject(args) == Construct(Fn("QAndroidJniObject", "QAndroidJniObject", <<>>, Void, {"ctor"}), args)
JniCalls ==
    Judging("jni-signatures",
      <<<<Jni("callMethod", <<MethodName, JniSignature>>), "">>, <<Jni("callMethod", <<ClassName, JniSignature>>), "invalid method name">>,
        <<Jni("callObjectMethod", <<MethodName, MethodName>>), "invalid method signature">>, <<Jni("callObjectMethod", <<MethodName>>), "">>,
        <<Jni("callStaticMethod", <<Garbage, MethodName, JniSignature>>), "invalid class name">>, <<Jni("callStaticMethod", <<ClassName, MethodName, Garbage>>), "invalid method signature">>,
        <<Jni("callStaticObjectMethod", <<ClassName, Use("name", Literally), JniSignature>>), "">>, <<Jni("callMethod", <<Literal({"wide"})>>), "">>, <<Jni("getField", <<Garbage>>), "">>,
        <<JniObject(<<ClassName, JniSignature>>), "">>, <<JniObject(<<Garbage, JniSignature>>), "invalid class name">>, <<JniObject(<<ClassName, MethodName>>), "invalid constructor signature">>,
        <<Construct(Fn("Other", "Other", <<>>, Void, {"ctor"}), <<Garbage>>), "">>>>)

Registered(name, args) == Call(Fn("", name, <<>>, Void, {}), args)
QmlTypes ==
    Judging("lowercase-qml-type-name",
      <<<<Registered("qmlRegisterType", <<Literal({}), Number(1), Number(0), Literal({})>>), "lowercase type">>,
        <<Registered("qmlRegisterUncreatableType", <<Literal({}), Number(1), Number(0), Literal({"empty"}), AString>>), "lowercase type">>,
        <<Registered("qmlRegisterType", <<Literal({}), Number(1), Number(0), Literal({"uppercase"})>>), "">>, <<Registered("qmlRegisterType", <<Literal({})>>), "">>,
        <<Registered("qmlRegisterModule", <<Literal({}), Number(1), Number(0), Literal({})>>), "">>>>)

-----------------------------------------------------------------------------
(* Files, the environment, variants, bytes.                                 *)

FileInfo(type, e) == Temporary(T("QFileInfo"), Construct(Fn("QFileInfo", "QFileInfo", <<type>>, Void, {"ctor"}), <<e>>))
Existing(info, name) == Ask(info, "QFileInfo", name, T("bool"), {"const"})
Existings ==
    Judging("qfileinfo-exists",
      <<<<Existing(FileInfo(Const(Ref(T("QString"))), AString), "exists"), "static exists">>, <<Existing(FileInfo(T("QFile"), Use("f", T("QFile"))), "exists"), "">>,
        <<Existing(Use("info", T("QFileInfo")), "exists"), "">>, <<Existing(FileInfo(T("QString"), AString), "isFile"), "">>>>)
RawEnvironment ==
    Judging("raw-environment-function",
      <<<<Registered("getenv", <<Literal({})>>), "qgetenv">>, <<Registered("putenv", <<Literal({})>>), "qputenv">>, <<Registered("qgetenv", <<Literal({})>>), "">>>>)

ValueAs(object, types) == MemberCall(object, [targs |-> types] @@ Fn("QVariant", "value", <<>>, Void, {"const"}), <<>>)
AVariant == Use("v", T("QVariant"))
Variants ==
    Judging("qvariant-template-instantiation",
      <<<<ValueAs(AVariant, <<Integer>>), "value<T>">>, <<ValueAs(AVariant, <<T("double")>>), "value<T>">>, <<ValueAs(AVariant, <<T("enum")>>), "">>,
        <<ValueAs(AVariant, <<T("QString")>>), "value<T>">>, <<ValueAs(AVariant, <<T("QColor")>>), "">>, <<ValueAs(AVariant, <<Ptr(Integer)>>), "">>,
        <<ValueAs(Use("v", Ptr(T("QVariant"))), <<Integer>>), Contested>>, <<ValueAs(Use("o", T("Item")), <<Integer>>), "">>, <<Ask(AVariant, "QVariant", "toInt", Integer, {"const"}), "">>,
        <<MemberCall(Use("h", Generic("QHash", <<T("QString"), T("QVariant")>>)), Fn("QHash", "value", <<T("QString")>>, T("QVariant"), {"const"}), <<AString>>), "">>>>)

ToConstChar == Fn("QByteArray", "operator const char *", <<>>, Literally, {"const", "conversion"})
AsChars(e, begins, ends) ==
    Node("CXXMemberCallExpr", [callee |-> ToConstChar, type |-> Literally], <<Node("MemberExpr", [func |-> ToConstChar, text |-> [begins |-> begins, ends |-> ends]], <<e>>)>>)
MadeBytes(e) == Functional(T("QByteArray"), Construct(Fn("QByteArray", "QByteArray", <<Literally>>, Void, {"ctor"}), <<e>>))
SomeBytes == Use("b", T("QByteArray"))
Sum(a, b) == OperatorCall(Fn("", "operator+", <<Ref(T("QByteArray")), Ref(T("QByteArray"))>>, T("QByteArray"), {}), <<a, b>>)

\* A sum or a chain that begins and ends like a constructor is taken for one.
Conversions1 ==
    Judging("qbytearray-conversion-to-c-style",
      <<<<AsChars(SomeBytes, "b", "b"), ".constData()">>, <<AsChars(MadeBytes(Literal({})), "QByteArray(", ")"), "literal">>,
        <<AsChars(MadeBytes(Literal({})), "QByteArrayLiteral(", ")"), "literal">>, <<AsChars(MadeBytes(Use("text", Literally)), "QByteArray(", ")"), Contested>>,
        <<AsChars(Sum(SomeBytes, SomeBytes), "b", "b"), "QByteArray{}.constData()">>, <<AsChars(Sum(MadeBytes(Literal({})), MadeBytes(Literal({}))), "QByteArray(", ")"), Contested>>,
        <<AsChars(Then(MadeBytes(Literal({})), "QByteArray", "trimmed", T("QByteArray"), {"const"}), "QByteArray(", ")"), Contested>>,
        <<AsChars(Sum(MadeBytes(Literal({})), SomeBytes), "QByteArray(", "b"), Contested>>, <<AsChars(Sum(SomeBytes, MadeBytes(Literal({}))), "b", ")"), "QByteArray{}.constData()">>,
        <<Ask(SomeBytes, "QByteArray", "constData", Literally, {"const"}), "">>>>)

StringClasses == "QVariant" :> <<>> @@ "QStringList" :> <<>> @@ "QLatin1String" :> <<>> @@ "QStringBuilder" :> <<>>
StringUnits ==
    Joined(<<Constructed, MoreConstructed, AsArguments, Froms, Operators, Assignments, Chains, Latin1Args, FillChars, Environment,
             Dates, Arrows, Refs, Patterns, Lists, Colors, EmptyLiterals, Builders, Lefts, NonAscii, Insensitive, ImplicitChars, Variadic, Translations,
             JniCalls, QmlTypes, Existings, RawEnvironment, Variants, Conversions1>>)

-----------------------------------------------------------------------------
(* Macros and directives.                                                  *)

Before(directives, term) == With(term, [directives |-> directives])
Directive(event, macro) == [event |-> event, macro |-> macro, text |-> <<>>, tabs |-> {}, is |-> {}]
Expansion(name) == Directive("expands", name)
Property(text) == [Expansion("Q_PROPERTY") EXCEPT !.text = text]
Words(names) == [k \in DOMAIN names |-> <<names[k]>>]
AfterAll(directives) == <<Before(directives, Node("TypedefDecl", [name |-> "last"], <<>>))>>

-----------------------------------------------------------------------------
(* Properties of two classes, with the macros that make them what they are.  *)

Markers == <<"", "Q_OBJECT", "Q_GADGET">>
Marked(class, marker, behind) ==
    Record(class, <<Before((IF marker = "" THEN <<>> ELSE <<Expansion(marker)>>) \o behind, Declare(Method(class, "x", {})))>>)

\* NOTIFY behind a blank or behind a tab.
Notifies == <<"", "blank", "tab">>
NotifiedBy(c) ==
    LET text == Words(<<"int", "x">> \o (IF c[3] THEN <<"READ", "x">> ELSE <<>>) \o (IF c[4] THEN <<"CONSTANT">> ELSE <<>>)
                      \o (IF c[5] = "" THEN <<>> ELSE <<"NOTIFY", "changed">>))
    IN [Property(text) EXCEPT !.tabs = IF c[5] = "tab" THEN {Len(text) - 1} ELSE {}]

\* To the code a gadget stays one until the next Q_OBJECT, and a tab hides
\* CONSTANT and NOTIFY.
LacksNotify(c) == c[2] = "Q_OBJECT" /\ c[3] /\ ~c[4] /\ c[5] = ""

Notified ==
    LET all == Combinations(<<Markers, Markers, Either, Either, Notifies>>) IN
      [n \in DOMAIN all |->
         LET c == all[n] IN
           UnpromisedIf(c[2] = "" \/ c[5] = "tab",
             Unit(<<Marked("Earlier", c[1], <<>>), Marked("Item", c[2], <<NotifiedBy(c)>>)>>,
                  {"qproperty-without-notify"}, Says(LacksNotify(c), "qproperty-without-notify", "no NOTIFY")))]

-----------------------------------------------------------------------------
(* Include guards and what they define.                                     *)

\* How many letters to change, to add and to take away.
RECURSIVE Edits(_, _)
Edits(a, b) ==
    IF a = <<>> \/ b = <<>> THEN Len(a) + Len(b)
    ELSE Min({Edits(Tail(a), b) + 1, Edits(a, Tail(b)) + 1,
              Edits(Tail(a), Tail(b)) + (IF Head(a) = Head(b) THEN 0 ELSE 1)})

Guard == <<"A", "B", "A", "B", "A">>
UnderGuard(directives) == AfterAll(<<Directive("ifndef", Guard)>> \o directives)
Letters(k) == Combinations([n \in 1..k |-> <<"A", "B">>])
IsTypo(macro) == macro # Guard /\ Len(macro) >= 4 /\ Edits(macro, Guard) < 3
Typo(directives, found) == Unit(UnderGuard(directives), {"ifndef-define-typo"}, Says(found, "ifndef-define-typo", "possible typo"))

Typos ==
    LET all == Letters(3) \o Letters(4) \o Letters(5) \o <<Guard \o <<"C", "C">>, Guard \o <<"C", "C", "C">>>>
    IN [n \in DOMAIN all |-> Typo(<<Directive("define", all[n])>>, IsTypo(all[n]))]

\* The right guard and other directives close the #ifndef; to the code any other
\* macro keeps it open, and #if defined() defines one.
Misspelled == <<"A", "B", "A", "B">>
MoreTypos ==
    LET between == <<"ifdef", "if", "elif", "else", "endif">>
        good == Directive("define", Guard)
        bad == Directive("define", Misspelled)
    IN [n \in DOMAIN between |-> Typo(<<Directive(between[n], <<>>), bad>>, FALSE)]
       \o <<Typo(<<good, bad>>, FALSE), Typo(<<bad, good>>, TRUE),
            Unpromised(Typo(<<Directive("define", <<"C", "C", "C", "C">>), bad>>, TRUE)),
            Unpromised(Typo(<<Directive("defined", Misspelled)>>, TRUE)), Typo(<<Directive("ifndef", <<"X">>), bad>>, FALSE),
            Typo(<<Directive("ifndef", <<"Q", "C", "F">>), Directive("define", <<"Q", "C", "F", "A">>)>>, FALSE),
            Typo(<<Directive("undef", <<>>), bad>>, TRUE)>>

-----------------------------------------------------------------------------
(* Types of properties, and of what reads, writes, notifies and keeps them.  *)

InSpace == T("NS::Item")

\* What is written in front of the name and with it, and what that is.
WrittenTypes ==
    <<<<<<<<"int">>>>, <<>>, "int">>, <<<<<<"Item">>>>, <<>>, "Item">>, <<<<<<"NS::Item">>>>, <<>>, "Item">>,
      <<<<<<"Item", "*">>>>, <<>>, "Item*">>, <<<<<<"NS::Item">>>>, <<"*">>, "Item*">>, <<<<<<"Item">>, <<"*">>>>, <<>>, "Item*">>,
      <<<<<<"const">>, <<"Item", "*">>>>, <<>>, "none">>, <<<<<<"number">>>>, <<>>, "int">>>>
DeclaredTypes ==
    <<<<Integer, "int">>, <<InSpace, "Item">>, <<Const(Ref(InSpace)), "Item">>, <<Ptr(InSpace), "Item*">>,
      <<Const(Ptr(InSpace)), "constItem*">>>>
RolesOf == <<"READ", "WRITE", "NOTIFY", "MEMBER">>
RoleTexts == ("READ" :> "return type") @@ ("WRITE" :> "parameter type") @@ ("NOTIFY" :> "signal parameter type")
             @@ ("MEMBER" :> "member type")

PropertyOf(w, role, name) == Property(w[1] \o <<Append(w[2], name)>> \o Words(<<role, name>>))
Playing(role, name, type) ==
    IF role = "MEMBER" THEN FieldOf(name, type)
    ELSE Declare(IF role = "READ" THEN Fn("Item", name, <<>>, type, {}) ELSE Fn("Item", name, <<type>>, Void, {}))
Number1 == Node("TypedefDecl", [name |-> "number", type |-> Integer], <<>>)

\* To the code a constant pointer is of the type "const".
Differs(w, d) == w[3] # d[2]

TypeCheck == "qproperty-type-mismatch"
Typed ==
    LET all == Combinations(<<WrittenTypes, DeclaredTypes, RolesOf>>) IN
      [n \in DOMAIN all |->
         LET w == all[n][1] d == all[n][2] role == all[n][3] IN
           UnpromisedIf(w[3] = "none",
             Unit(<<With(Number1, [place |-> "system"]), Record("Item", <<Before(<<PropertyOf(w, role, "x")>>, Playing(role, "x", d[1]))>>)>>,
                  {TypeCheck}, Says(Differs(w, d), TypeCheck, RoleTexts[role])))]

AnInteger == <<<<<<"int">>>>, <<>>, "int">>
XIsRead(w) == PropertyOf(w, "READ", "x")
DoubleMethod == Declare(Fn("Item", "x", <<>>, T("double"), {}))
Scoped(n, type) == Node("TypedefDecl", [name |-> Member("scoped", n), short |-> "number", type |-> type], <<>>)
MoreTyped ==
    Judged(TypeCheck,
      <<<<<<Record("Item", <<Before(<<PropertyOf(AnInteger, "WRITE", "x")>>, Declare(Fn("Item", "x", <<>>, Void, {})))>>)>>, "no parameter">>,
        <<<<Record("Item", <<Before(<<PropertyOf(AnInteger, "WRITE", "x")>>,
                                    Declare(Fn("Item", "x", <<T("double"), Integer>>, Void, {})))>>)>>, Contested>>,
        <<<<Record("Item", <<Before(<<PropertyOf(AnInteger, "NOTIFY", "x")>>,
                                    Declare(Fn("Item", "x", <<T("QPrivateSignal")>>, Void, {"signal"})))>>)>>, "">>,
        <<<<Record("Item", <<Before(<<Property(Words(<<"int", "x", "MEMBER", "m_x">>))>>, FieldOf("m_x", T("double")))>>)>>, Contested>>,
        <<<<Record("Outer", <<Record("Item", <<Before(<<XIsRead(AnInteger)>>, Declare(Method("Item", "y", {})))>>),
                              Declare(Fn("Outer", "x", <<>>, T("double"), {}))>>)>>, Contested>>,
        <<<<Record("Item", <<Record("Inner", <<DoubleMethod>>), Before(<<XIsRead(AnInteger)>>, Declare(Method("Item", "y", {})))>>)>>, "">>,
        <<<<Record("Item", <<Before(<<XIsRead(AnInteger)>>, Declare(Method("Item", "y", {})))>>),
            DefineOutside(Fn("Item", "x", <<>>, T("double"), {}), <<>>, <<>>)>>, Contested>>,
        <<<<Scoped(1, Integer), Scoped(2, T("double")),
            Record("Item", <<Before(<<XIsRead(<<<<<<"number">>>>, <<>>, "">>)>>, Declare(Fn("Item", "x", <<>>, Integer, {})))>>)>>, Contested>>,
        <<<<Record("Item", <<Before(<<Property(Words(<<"int", "READ", "READ", "x">>))>>, DoubleMethod)>>)>>, "">>,
        <<<<Record("Item", <<Before(<<Property(Words(<<"int">>))>>, DoubleMethod)>>)>>, "">>>>)

-----------------------------------------------------------------------------
(* Types as moc will have to find them.                                     *)

WrittenAs(type, names) == type @@ [written |-> names]
InList(type) == Generic("QList", <<type>>)
ListOfThe(names) == <<"QList", "<">> \o names \o <<">">>
KindEnum == [name |-> "enum", is |-> {}, enum |-> <<"NS", "::", "Kind">>]
Renamed == InSpace @@ [alias |-> <<"Item", "Other">>]
MocTypes ==
    <<<<WrittenAs(InSpace, <<"Item">>), FALSE>>, <<WrittenAs(InSpace, <<"NS", "::", "Item">>), TRUE>>,
      <<WrittenAs(Const(Ref(InSpace)), <<"Item">>), FALSE>>, <<WrittenAs(Ptr(InSpace), <<"NS", "::", "Item">>), TRUE>>,
      <<WrittenAs(Ref(Ptr(InSpace)), <<"Item">>), TRUE>>, <<Integer, TRUE>>,
      <<WrittenAs(KindEnum, <<"Kind">>), FALSE>>, <<WrittenAs(KindEnum, <<"NS", "::", "Kind">>), TRUE>>,
      <<WrittenAs(Renamed, <<"Other">>), FALSE>>, <<WrittenAs(Renamed, <<"Item", "::", "Other">>), TRUE>>,
      <<WrittenAs(KindEnum @@ [alias |-> <<"", "Kinds">>], <<"Kinds">>), FALSE>>,
      <<WrittenAs(InList(InSpace), ListOfThe(<<"Item">>)), FALSE>>, <<WrittenAs(InList(InSpace), ListOfThe(<<"NS", "::", "Item">>)), TRUE>>,
      <<WrittenAs(InList(Ptr(InSpace)), ListOfThe(<<"NS", "::", "Item", "*">>)), TRUE>>,
      <<WrittenAs(InList(Const(Ptr(InSpace))), ListOfThe(<<"const", "NS", "::", "Item", "*">>)), FALSE>>,
      <<WrittenAs(InList(Const(InSpace)), ListOfThe(<<"const", "NS", "::", "Item">>)), TRUE>>,
      <<WrittenAs(InList(InList(InSpace)), ListOfThe(ListOfThe(<<"Item">>))), FALSE>>,
      <<WrittenAs(Generic("QMap", <<InSpace, Integer>>), <<"QMap", "<", "NS", "::", "Item", ",", "int", ">">>), TRUE>>,
      <<WrittenAs(T("Hidden"), <<"Hidden">>), TRUE>>, <<WrittenAs(InList(T("Hidden")), ListOfThe(<<"Hidden">>)), FALSE>>,
      <<WrittenAs(T("QPrivateSignal"), <<"QPrivateSignal">>), TRUE>>>>

Sections2 == <<"signal", "slot", "invokable", "none">>
MocCheck == "fully-qualified-moc-types"
MocTexts(section, taken) ==
    IF taken THEN (("signal" :> "signal arguments") @@ ("slot" :> "slot arguments") @@ ("invokable" :> "invokable arguments"))[section]
    ELSE (("slot" :> "slot return type") @@ ("invokable" :> "invokable return type"))[section]
InSection(section, taken, type) ==
    <<Record("Item", <<Declare(Fn("Item", "f", IF taken THEN <<Integer, type>> ELSE <<>>, IF taken THEN Void ELSE type, {section}))>>)>>
MocMethods ==
    LET all == Combinations(<<MocTypes, Sections2, Either>>) IN
      [n \in DOMAIN all |->
         LET type == all[n][1] section == all[n][2] taken == all[n][3]
             found == ~type[2] /\ section # "none" /\ (taken \/ section # "signal")
         IN Unit(InSection(section, taken, type[1]), {MocCheck}, IF found THEN {<<MocCheck, MocTexts(section, taken)>>} ELSE {})]

\* What moc generates: an if for each kind of call, a cast for each property.
Reinterpreted(type) == Node("CXXReinterpretCastExpr", [type |-> Ptr(type)], <<Use("v", Ptr(Void))>>)
Comparing(enumerator, body) ==
    If(Binary("==", Use("c", Integer), Cast("IntegralCast", Integer, Use(enumerator, Integer))), Block(body))
Switching(body) == Node("SwitchStmt", <<>>, <<Use("id", Integer), Block(body)>>)
Metacall(class, body) == DefineOutside(Method(class, "qt_static_metacall", {"static"}), <<>>, body)
GadgetClass(inner) == Record("NS::Item", <<Before(inner, Declare(Method("NS::Item", "g", {})))>>)
Owner == Record("Owner", <<Declare(Method("Owner", "f", {}))>>)
MocProperties ==
    LET item == <<Expansion("Q_GADGET")>>
        reads(names) == Comparing("ReadProperty", <<Switching(<<Reinterpreted(WrittenAs(InSpace, names))>>)>>)
        short == reads(<<"Item">>)
    IN Judged(MocCheck,
         <<<<<<GadgetClass(item), Owner, Metacall("Owner", <<short>>)>>, "Q_PROPERTY">>,
           <<<<GadgetClass(item), Owner, Metacall("Owner", <<reads(<<"NS", "::", "Item">>)>>)>>, "">>,
           <<<<GadgetClass(<<>>), Owner, Metacall("Owner", <<short>>)>>, "">>,
           <<<<Record("NS::Item", <<Record("Inner", <<Before(item, Declare(Method("Inner", "g", {})))>>)>>), Owner,
               Metacall("Owner", <<short>>)>>, "Q_PROPERTY">>,
           <<<<GadgetClass(item), Owner, Metacall("Owner", <<Comparing("WriteProperty", <<Switching(<<>>)>>), short>>)>>, "Q_PROPERTY">>,
           <<<<GadgetClass(item), Owner, Metacall("Owner", <<Comparing("ReadProperty", <<>>), short>>)>>, "">>,
           <<<<GadgetClass(item), Owner,
               Metacall("Owner", <<Comparing("ReadProperty", <<Reinterpreted(WrittenAs(InSpace, <<"Item">>))>>)>>)>>, "">>>>)

-----------------------------------------------------------------------------
(* Timers.                                                                  *)

\* Milliseconds, and how chrono says them.
Times ==
    <<<<Number(0), "">>, <<Number(250), "ms">>, <<Number(1000), "s">>, <<Number(1500), "ms">>, <<Number(60000), "min">>,
      <<Number(61000), "s">>, <<Number(7200000), "h">>, <<Binary("*", Number(5), Number(1000)), "s">>,
      <<Binary("*", Binary("*", Number(60), Number(1000)), Number(2)), "min">>, <<Binary("/", Number(1000), Number(2)), "ms">>,
      <<Binary("+", Number(500), Number(500)), "">>, <<Binary("*", Use("n", Integer), Number(1000)), "">>,
      <<Unary("-", Number(5)), "">>>>
Timer == Use("timer", T("QTimer"))
Waiting(name, time) == MemberCall(Timer, Fn("QTimer", name, <<Integer>>, Void, {}), <<time>>)
SingleShot(time, receiver) == Call(Fn("QTimer", "singleShot", <<Integer>>, Void, {"static"}), <<time, receiver>>)
ChronoCheck == "use-chrono-in-qtimer"
Chrono(body, text, has) == [Unit(<<Function(body)>>, {ChronoCheck}, text) EXCEPT !.hasChronoInclude = has]
Found(text) == {<<ChronoCheck, text>>}

Timed ==
    LET all == Combinations(<<Times, <<"start", "setInterval", "stop">>, Either>>) IN
      [n \in DOMAIN all |->
         LET time == all[n][1] name == all[n][2] has == all[n][3] IN
           Chrono(<<Waiting(name, time[1])>>,
                  IF name = "stop" \/ time[2] = "" THEN {} ELSE Found(time[2] \o (IF has THEN "" ELSE ", include")), has)]

\* The include comes once; to the code a member among the arguments hides a
\* static call.
MoreTimed ==
    <<Chrono(<<Waiting("start", Number(5)), Waiting("start", Number(1000))>>, Found("ms, include") \cup Found("s"), FALSE),
      Chrono(<<Waiting("start", Number(0)), Waiting("start", Number(1000))>>, Found("s, include"), FALSE),
      Chrono(<<SingleShot(Number(5), Use("object", Ptr(T("QObject"))))>>, Found("ms, include"), FALSE),
      Unpromised(Chrono(<<SingleShot(Number(5), Field(This("Item"), "m_object", Ptr(T("QObject"))))>>, {}, FALSE)),
      Chrono(<<Ask(Timer, "QTimer", "start", Void, {})>>, {}, FALSE)>>

-----------------------------------------------------------------------------
(* Modules, enumerations, keywords.                                         *)

Include(path) == [Directive("include", "") EXCEPT !.text = path]
Marked1(directive, flags) == AfterAll(<<[directive EXCEPT !.is = flags]>>)
Modules ==
    Judged("no-module-include",
      <<<<AfterAll(<<Include(<<"QtCore">>)>>), "module">>, <<AfterAll(<<Include(<<"QtQuickTest", "QtQuickTest">>)>>), "module">>, <<AfterAll(<<Include(<<"QtCore", "QObject">>)>>), "">>,
        <<AfterAll(<<Include(<<"QtBluetooth">>)>>), "">>, <<Marked1(Include(<<"QtCore">>), {"ignored file"}), "">>, <<Marked1(Include(<<"QtDBus", "QtDBus">>), {"qdbusxml2cpp"}), "">>,
        <<Marked1(Include(<<"QtCore", "QtCore">>), {"qdbusxml2cpp"}), "module">>>>)

QEnumsOf(text) == [Expansion("Q_ENUMS") EXCEPT !.text = Words(text)]
DeclaredEnums ==
    Judged("qenums",
      <<<<AfterAll(<<QEnumsOf(<<"E">>)>>), "use Q_ENUM">>, <<AfterAll(<<QEnumsOf(<<"Other", "::", "E">>)>>), "">>, <<Marked1(QEnumsOf(<<"E">>), {"in macro"}), "">>,
        <<AfterAll(<<Expansion("Q_ENUM")>>), "">>, <<<<With(AfterAll(<<QEnumsOf(<<"E">>)>>)[1], [place |-> "system"])>>, "">>>>)
    \o <<[Unit(AfterAll(<<QEnumsOf(<<"E">>)>>), {"qenums"}, {}) EXCEPT !.qtVersion = 50400]>>

Keywords ==
    Judged("qt-keyword-emit",
      <<<<Marked1(Expansion("emit"), {"of Qt"}), "Q_EMIT">>, <<Marked1(Expansion("emit"), {}), "">>, <<Marked1(Expansion("Q_EMIT"), {"of Qt"}), "">>>>)
    \o <<[Unit(Marked1(Expansion("emit"), {"of Qt"}), {"qt-keyword-emit"}, {}) EXCEPT !.noKeywords = TRUE]>>

PreprocessorClasses ==
    "NS::Item" :> [short |-> "Item", scope |-> <<"NS", "::">>] @@ "QPrivateSignal" :> <<>> @@ "Owner" :> <<>>
    @@ "Hidden" :> [scope |-> <<"(anonymous namespace)", "::">>, is |-> {"anonymous namespace"}]

PreprocessorUnits == Joined(<<Notified, Typos, MoreTypos, Typed, MoreTyped, MocMethods, MocProperties, Timed, MoreTimed, Modules, DeclaredEnums, Keywords>>)
=============================================================================
