--------------------------- MODULE ExpressionChecks ---------------------------
(***************************************************************************)
(* Expressions that could be cheaper or shorter, and those that do not do     *)
(* what their author meant: calls one behind the other, regular expressions,  *)
(* lists, colors, assertions, comparisons.                                  *)
(***************************************************************************)
EXTENDS FunctionChecks

VARIABLES
    m_alreadyCheckedOperatorCalls   \* ModernizeListInitialization

ImplicitNodes == {"ImplicitCastExpr", "MaterializeTemporaryExpr", "CXXBindTemporaryExpr", "ExprWithCleanups"}

-----------------------------------------------------------------------------
(* Two calls where one would do: qgetenv, qdatetime-utc,                     *)
(* use-arrow-operator-instead-of-data.                                     *)

\* What is said of isNull() is the opposite of what it asks.
EnvironmentVariable ==
    ("isEmpty" :> "qEnvironmentVariableIsEmpty") @@ ("isNull" :> "qEnvironmentVariableIsSet")
    @@ ("toInt" :> "qEnvironmentVariableIntValue")

\* toInt(&ok, 0): another base than the one it has without a literal is left alone.
BaseIsKnown(i) == Kind(Arg(i, 1)) \in {"none", "CXXDefaultArgExpr"} \/ Attr(Arg(i, 1), "value", 1) = 0
TakesOk(i) ==
    /\ Kind(Arg(i, 0)) \notin {"none", "CXXDefaultArgExpr"}
    /\ ~(Kind(Arg(i, 0)) \in Casts /\ Kind(Child(Arg(i, 0), 1)) = "CXXNullPtrLiteralExpr")

QGetEnv_VisitStmt(i) ==
    LET f == CalleeOf(i) calls == callListForChain(i) toInt == f.name = "toInt" IN
      IF \/ Kind(i) # "CXXMemberCallExpr" \/ f.class # "QByteArray" \/ f.name \notin DOMAIN EnvironmentVariable
         \/ Len(calls) # 2 \/ CalleeOf(Last(calls)).name # "qgetenv"
         \/ toInt /\ ~BaseIsKnown(i)
      THEN Silence
      ELSE Warn(i, EnvironmentVariable[f.name] \o (IF toInt /\ TakesOk(i) THEN ", ok" ELSE "")
                   \o (IF toInt /\ Kind(Arg(i, 1)) = "CXXDefaultArgExpr" THEN ", base 0" ELSE ""))

CurrentTime ==
    ("toMSecsSinceEpoch" :> "currentMSecsSinceEpoch") @@ ("toSecsSinceEpoch" :> "currentSecsSinceEpoch")
    @@ ("toTime_t" :> "currentSecsSinceEpoch") @@ ("toUTC" :> "currentDateTimeUtc")

QDateTimeUtc_VisitStmt(i) ==
    LET f == CalleeOf(i) calls == callListForChain(i) IN
      IF \/ Kind(i) # "CXXMemberCallExpr" \/ f.class # "QDateTime" \/ f.name \notin DOMAIN CurrentTime
         \/ Len(calls) # 2
         \/ QualifiedName(CalleeOf(Last(calls))) \notin {<<"QDateTime", "currentDateTime">>, <<"QDateTime", "currentDateTimeUtc">>}
      THEN Silence ELSE Warn(i, CurrentTime[f.name])

\* A cast on the way would be lost.
UseArrowOperatorInsteadOfData_VisitStmt(i) ==
    LET calls == callListForChain(i)
        base(j) == Through(Child(Child(j, 1), 1), {"ImplicitCastExpr"})
    IN WarnIf(/\ Kind(i) = "CXXMemberCallExpr" /\ Len(calls) > 1
              /\ CalleeOf(Last(calls)).name = "data"
              /\ CalleeOf(Last(calls)).class \in {"QScopedPointer", "QPointer", "QSharedPointer", "QSharedDataPointer"}
              /\ ~ \E j \in SetOf(calls) : Kind(j) = "CXXMemberCallExpr" /\ Kind(base(j)) = "CXXStaticCastExpr",
              Last(calls), "use ->")

-----------------------------------------------------------------------------
(* qstring-ref                                                             *)

isInterestingFirstMethod(f) == f.class = "QString" /\ f.name \in {"left", "mid", "right"}
isInterestingSecondMethod(f) ==
    /\ f.class = "QString"
    /\ f.name \in {"compare", "contains", "count", "startsWith", "endsWith", "indexOf", "isEmpty", "isNull", "lastIndexOf",
                   "length", "size", "toDouble", "toFloat", "toInt", "toUInt", "toULong", "toULongLong", "toUShort", "toUcs4"}
    /\ ~ \E t \in SetOf(f.params) : t.name \in {"QRegExp", "QRegularExpression"}

\* The name of startsWith is misspelled in the list.
isMethodReceivingQStringRef(f) ==
    /\ f.class = "QString"
    /\ f.name \in {"append", "compare", "count", "indexOf", "endsWith", "lastIndexOf", "localAwareCompare", "startsWidth", "operator+="}

\* The first thing that is constructed around it takes it for its argument.
isConvertedToSomethingElse(i) ==
    LET made == getFirstParentOfType(i, Constructions) IN
      made # 0 /\ Through(Arg(made, 0), ImplicitNodes \ {"ExprWithCleanups"}) = i /\ CalleeOf(made).class # "QString"

\* s.mid(1).toInt()
StringRef_processCase1(i) ==
    LET calls == callListForChain(i) IN
      IF /\ Kind(i) = "CXXMemberCallExpr" /\ isInterestingSecondMethod(CalleeOf(i)) /\ Len(calls) > 1
         /\ Kind(calls[2]) = "CXXMemberCallExpr" /\ isInterestingFirstMethod(CalleeOf(calls[2]))
         /\ ~isConvertedToSomethingElse(i)
      THEN calls[2] ELSE 0

\* s.append(t.mid(1)), s += t.mid(1): the first argument that is a temporary.
StringRef_processCase2(i) ==
    LET temp == First({Arg(i, k) : k \in {j \in 0..1 : Kind(Arg(i, j)) = "MaterializeTemporaryExpr"}})
        inner == getFirstChildOfType2(temp, Calls)
    IN IF /\ Kind(i) \in {"CXXMemberCallExpr", "CXXOperatorCallExpr"} /\ isMethodReceivingQStringRef(CalleeOf(i))
          /\ Kind(inner) = "CXXMemberCallExpr" /\ isInterestingFirstMethod(CalleeOf(inner))
       THEN inner ELSE 0

StringRefCandidates_VisitStmt(i) ==
    LET found == IF StringRef_processCase1(i) # 0 THEN StringRef_processCase1(i) ELSE StringRef_processCase2(i)
    IN IF Kind(i) \notin Calls \/ found = 0 THEN Silence ELSE Warn(i, CalleeOf(found).name \o "Ref")

-----------------------------------------------------------------------------
(* use-static-qregularexpression                                           *)

getVarDecl(arg) ==
    LET ref == IF Kind(arg) = "DeclRefExpr" THEN arg ELSE getFirstChildOfType(arg, {"DeclRefExpr"})
        named == NodeOf(DeclOf(ref))
    IN IF DeclOf(ref) # "" /\ Kind(named) \in Variables THEN named ELSE 0

isQStringModifiedAfterCreation(e) ==
    LET call == getFirstChildOfType(e, {"CXXMemberCallExpr"}) IN call # 0 /\ CalleeOf(call).returns = [name |-> "QString", is |-> {}]

isQStringFromStringLiteral(e) ==
    LET init == InitOf(getVarDecl(e))
        made(root) == getFirstChildOfType(root, Constructions)
        literal(root) == getFirstChildOfType(root, {"StringLiteral"})
    IN IF Kind(e) = "MaterializeTemporaryExpr" THEN made(e) # 0 /\ literal(made(e)) # 0
       ELSE getVarDecl(e) # 0 /\ literal(init) # 0 /\ (made(init) # 0 => ~isQStringModifiedAfterCreation(made(init)))

IsUnmodifiedLiteral(e) == isQStringFromStringLiteral(e) /\ ~isQStringModifiedAfterCreation(e)

isTemporaryQRegexObj(e) ==
    LET ctor == getFirstChildOfType(e, Constructions) IN
      ctor # 0 /\ Args(ctor) # <<>> /\ TypeOf(Arg(ctor, 0)).name = "QString" /\ IsUnmodifiedLiteral(Arg(ctor, 0))

isQRegexpFromStringLiteral(var) ==
    LET init == InitOf(var)
        ctor == IF Kind(init) \in Constructions THEN init ELSE getFirstChildOfType(init, Constructions)
        pattern == NodeOf(DeclOf(getFirstChildOfType(Arg(ctor, 0), {"DeclRefExpr"})))
    IN /\ init # 0 /\ ctor # 0 /\ Len(Args(ctor)) > 1
       /\ Kind(pattern) \in Variables => ~isQStringModifiedAfterCreation(InitOf(pattern))
       /\ IsUnmodifiedLiteral(Arg(ctor, 0))

isArgNonStaticLocalVar(e) ==
    LET var == getVarDecl(e) IN
      /\ var # 0 /\ isQRegexpFromStringLiteral(var)
      /\ isValueDeclInFunctionContext(var) /\ ~Is(var, "static local")

\* The object of a match is a temporary or a variable; so is an argument.
UseStaticQRegularExpression_VisitStmt(i) ==
    LET f == CalleeOf(i)
        object == Through(ImplicitObject(i), {"ImplicitCastExpr"})
        asked == IF f.name \in {"match", "globalMatch"} THEN object
                 ELSE IF f.params # <<>> /\ f.params[1].name = "QRegularExpression" THEN Arg(i, 0) ELSE 0
        temporary == Kind(asked) = "MaterializeTemporaryExpr"
    IN IF \/ Kind(i) # "CXXMemberCallExpr" \/ Args(i) = <<>> \/ asked = 0
          \/ f.class \notin {"QString", "QStringList", "QRegularExpression", "QListSpecialMethods"}
       THEN Silence
       ELSE WarnIf(\/ temporary /\ isTemporaryQRegexObj(asked)
                   \/ ~(temporary /\ asked = object) /\ isArgNonStaticLocalVar(asked),
                   asked, "temporary QRegularExpression")

-----------------------------------------------------------------------------
(* modernize-list-initialization: QStringList() << a << b                   *)

IsListType(t) == t.name \in {"QStringList", "QList"}
IsStream(i) == Kind(i) = "CXXOperatorCallExpr" /\ CalleeOf(i).name = "operator<<"

\* What the first operator starts from is a temporary that no function returned.
StartsFromNothing(i) ==
    LET start[j \in 0..MaxNodes] == IF Kind(Arg(j, 0)) = "CXXOperatorCallExpr" THEN start[Arg(j, 0)] ELSE Arg(j, 0)
        list == Through(Child(start[i], 1), {"CXXFunctionalCastExpr"})
    IN /\ Kind(start[i]) = "MaterializeTemporaryExpr"
       /\ ~(Kind(list) = "CXXBindTemporaryExpr" /\ Kind(Child(list, 1)) \in Calls)

\* The operators that a variable is initialized with.
InitializingStream(i) ==
    LET init == Child(i, 1)
        made == Child(init, 1)
        e == Through(Through(Arg(made, 0), ImplicitNodes), {"ParenExpr"})
    IN IF /\ Kind(i) = "DeclStmt" /\ Kind(init) = "ExprWithCleanups" /\ IsListType(TypeOf(init))
          /\ Kind(made) \in Constructions /\ Args(made) # <<>> /\ IsStream(e)
       THEN e ELSE 0

AlreadyCheckedAfter(i) ==
    IF InitializingStream(i) # 0 THEN m_alreadyCheckedOperatorCalls \cup {InitializingStream(i)} ELSE m_alreadyCheckedOperatorCalls

ModernizeListInitialization_VisitStmt(i) ==
    IF InitializingStream(i) # 0
    THEN WarnIf(StartsFromNothing(InitializingStream(i)), InitializingStream(i), "initializer list of a variable")
    ELSE WarnIf(/\ IsStream(i) /\ i \notin m_alreadyCheckedOperatorCalls /\ IsListType(TypeOf(i))
                /\ Kind(parent(i)) = "ImplicitCastExpr" /\ StartsFromNothing(i),
                i, "initializer list")

-----------------------------------------------------------------------------
(* assert-with-side-effects: calls are let pass, whatever they do.           *)

\* What is changed was declared before.
ChangedInPlace(i) ==
    IF IsAssignment(i) \/ (Kind(i) = "UnaryOperator" /\ tree[i].op \notin {"*", "&"}) THEN NodeOf(DeclOf(Child(i, 1))) ELSE 0

AssertWithSideEffects_VisitStmt(i) ==
    WarnIf(/\ InMacro(i, "Q_ASSERT") /\ Kind(Child(i, 1)) = "DeclRefExpr"
           /\ ChangedInPlace(i) # 0 /\ Begin(ChangedInPlace(i)) < Begin(i), i, "side effects")

-----------------------------------------------------------------------------
(* used-qunused-variable                                                   *)

IsUse(i, param) == Kind(i) = "DeclRefExpr" /\ DeclOf(i) = Name(param)

\* Counted for itself and for the block it is in.
IsBareUse(i, param) ==
    LET bare[j \in i..MaxNodes] ==
            \/ IsUse(j, param)
            \/ Kind(j) = "CompoundStmt" /\ \E c \in SetOf(children(j)) : bare[c]
    IN bare[i]

\* A cast behind a bare use is not seen.
VoidCasts(block, param) ==
    {Child(j, 1) : j \in {c \in SetOf(children(block)) :
        /\ Kind(c) \in Casts /\ IsVoid(TypeOf(c)) /\ IsUse(Child(c, 1), param)
        /\ \A earlier \in SetOf(children(block)) : earlier < c => ~IsBareUse(earlier, param)}}

UsedQUnused(function, param) ==
    LET inside == Below(Body(function)) \cup {Body(function)}
        blocks == {j \in inside : Kind(j) = "CompoundStmt"}
        cast == Nearest(VoidCasts(Nearest({b \in blocks : VoidCasts(b, param) # {}}), param))
    IN IF Cardinality({j \in inside : IsUse(j, param) \/ (j \in blocks /\ IsBareUse(j, param))}) < 2 \/ cast = 0 THEN Silence
       ELSE Warn(cast, IF InMacro(cast, "Q_UNUSED") THEN "Q_UNUSED" ELSE "void cast")

UsedQUnusedVariable_VisitDecl(i) ==
    IF Kind(i) \notin Functions \/ Body(i) = 0 THEN Silence ELSE UNION {UsedQUnused(i, p) : p \in Params(i)}

-----------------------------------------------------------------------------
(* cache-model-rolenames                                                   *)

\* An initializer list is made anew; so is a variable that is neither a static
\* of the function nor of a class, one of the file included.
CacheModelRolenames_VisitDecl(i) ==
    LET returns == getChilds(Body(i), {"ReturnStmt"})
        value == Child(First(returns), 1)
        var == NodeOf(DeclOf(Through(Arg(value, 0), ImplicitNodes)))
    IN IF \/ Kind(i) \notin Methods \/ FunctionOf(i).name # "roleNames"
          \/ ~derivesFrom(FunctionOf(i).class, "QAbstractItemModel") \/ Cardinality(returns) # 1
       THEN Silence
       ELSE IF Kind(value) = "ExprWithCleanups" THEN WarnIf(Kind(Child(value, 1)) \in Constructions, value, "not cached")
       ELSE WarnIf(/\ Kind(value) \in Constructions /\ Len(Args(value)) = 1
                   /\ Kind(var) \in Variables /\ ~Is(var, "static local") /\ ~Is(var, "static member"), var, "not cached")

-----------------------------------------------------------------------------
(* compare-member-check                                                    *)

FieldsOf(class) ==
    {Name(j) : j \in {k \in Nodes : Kind(k) = "FieldDecl" /\ Kind(tree[k].parent) \in Records /\ Name(tree[k].parent) = class}}

\* What stands on the left of a binary operator and of those it is made of.
checkBinaryOperator(i) ==
    LET operator(j) == Kind(j) \in BinaryOperators
        left(j) == IF Kind(Child(j, 1)) = "ImplicitCastExpr" THEN Child(Child(j, 1), 1) ELSE Child(j, 1)
        compared[j \in i..MaxNodes] ==
            {DeclOf(k) : k \in {left(j)} \cap {k \in Nodes : Kind(k) = "MemberExpr"}}
            \cup UNION {compared[Child(j, n)] : n \in {m \in 1..2 : operator(Child(j, m))}}
    IN compared[i]

\* std::tie(..) == std::tie(..): its arguments are counted only.
TiedArgs(value) ==
    LET compared == Child(value, 1) lhs == Arg(compared, 0) IN
      IF /\ Kind(value) = "ExprWithCleanups" /\ Kind(compared) = "CXXOperatorCallExpr"
         /\ Kind(lhs) = "MaterializeTemporaryExpr" /\ Kind(Child(lhs, 1)) = "ImplicitCastExpr"
         /\ Kind(Child(Child(lhs, 1), 1)) \in Calls
      THEN {Len(Args(Child(Child(lhs, 1), 1)))} ELSE {}

\* At each call of an operator, over the statements of its body up to the first
\* that is no return statement; what one compares need not be in the next.
CompareMemberCheck_Match(i) ==
    LET f == CalleeOf(i)
        statements == children(DefinedBody(f))
        value(k) == Child(statements[k], 1)
        left[k \in 0..Len(statements)] ==
            IF k = 0 THEN FieldsOf(f.class)
            ELSE left[k - 1] \ (IF Kind(value(k)) \in BinaryOperators THEN checkBinaryOperator(value(k)) ELSE {})
        incomplete(k) == \/ \E n \in TiedArgs(value(k)) : n # Cardinality(left[k])
                         \/ Kind(value(k)) \in BinaryOperators /\ left[k] # {}
    IN WarnIf(/\ Kind(i) = "CXXOperatorCallExpr" /\ IsMethod(f)
              /\ \E k \in DOMAIN statements : /\ \A m \in 1..k : Kind(statements[m]) = "ReturnStmt"
                                              /\ incomplete(k), i, "not all members")

-----------------------------------------------------------------------------
(* qcolor-from-literal, empty-qstringliteral, auto-unexpected-qstringbuilder *)

\* What a literal says that begins with "#".
Advice(literal) ==
    LET length == tree[literal].length IN
      IF length \notin {4, 7, 9, 10, 13} THEN "length"
      ELSE IF ~Is(literal, "hex digits") THEN "digits"
      ELSE IF length \in {4, 7} THEN "RGB" ELSE IF length = 9 THEN "ints" ELSE "QRgba64"

IsColor(literal) == literal # 0 /\ Is(literal, "#")

\* QColor("#..."), but not through a QString; QColor::fromString("#...").
QColorFromLiteral_Match(i) ==
    LET f == CalleeOf(i)
        arg == Through(Arg(i, 0), {"ImplicitCastExpr", "ParenExpr"})
        given == getFirstChildOfType(Arg(i, 0), {"StringLiteral"})
        fromString == Kind(i) \in Calls /\ QualifiedName(f) = <<"QColor", "fromString">> /\ Len(Args(i)) = 1
        literal == IF Kind(i) \in Constructions /\ f.class = "QColor" /\ Kind(arg) = "StringLiteral" THEN arg
                   ELSE IF fromString THEN given ELSE 0
    IN IF IsColor(literal) THEN Warn(IF fromString THEN i ELSE literal, Advice(literal)) ELSE Silence

\* Any digits will do here.
QColorFromLiteral_VisitStmt(i) ==
    LET literal == getFirstChildOfType2(Arg(i, 0), {"StringLiteral"}) IN
      WarnIf(/\ Kind(i) = "CXXMemberCallExpr" /\ QualifiedName(CalleeOf(i)) = <<"QColor", "setNamedColor">>
             /\ Len(Args(i)) = 1 /\ IsColor(literal) /\ Advice(literal) # "length", literal, "named color")

IsEmptyLiteral(i) == Kind(i) = "StringLiteral" /\ Is(i, "empty")

handleQt6StringLiteral(i) ==
    /\ Kind(i) \in Calls /\ QualifiedName(CalleeOf(i)) = <<"QtPrivate", "qMakeStringPrivate">>
    /\ IsEmptyLiteral(getFirstChildOfType(i, {"StringLiteral"}))

handleQt5StringLiteral(i) ==
    LET declared == {j \in Nodes : tree[j].parent = i /\ Kind(j) \in Declarations}
        init == InitOf(First(declared))
    IN /\ Kind(i) = "DeclStmt" /\ Cardinality(declared) = 1
       /\ Kind(First(declared)) = "VarDecl" /\ Name(First(declared)) = "qstring_literal"
       /\ Kind(init) = "InitListExpr" /\ Len(children(init)) = 2 /\ IsEmptyLiteral(Child(init, 2))

EmptyQStringliteral_VisitStmt(i) ==
    WarnIf(/\ Attr(i, "macro", "") # "" /\ ~Is(i, "ui file")
           /\ IF qtVersion >= 60000 THEN handleQt6StringLiteral(i) ELSE handleQt5StringLiteral(i), i, "empty QStringLiteral")

isQStringBuilder(t) == RecordOf(t) = "QStringBuilder"

AutoUnexpectedQStringBuilder_VisitDecl(i) ==
    WarnIf(Kind(i) \in Variables /\ "auto" \in TypeOf(i).is /\ isQStringBuilder(TypeOf(i)), i,
           IF IsConstQualified(TypeOf(i)) THEN "const QString" ELSE "QString")

AutoUnexpectedQStringBuilder_VisitStmt(i) ==
    WarnIf(Kind(i) = "LambdaExpr" /\ isQStringBuilder(FunctionOf(i).returns), i, "lambda returns QStringBuilder")

-----------------------------------------------------------------------------
(* qfileinfo-exists, raw-environment-function, qvariant-template-instantiation *)

QFileInfoExists_VisitStmt(i) ==
    LET made == getFirstChildOfType(i, Constructions) params == CalleeOf(made).params IN
      WarnIf(/\ Kind(i) = "CXXMemberCallExpr" /\ QualifiedName(CalleeOf(i)) = <<"QFileInfo", "exists">>
             /\ made # 0 /\ params # <<>> /\ params[1].name = "QString" /\ "pointer" \notin params[1].is, i, "static exists")

RawEnvironmentFunction_VisitStmt(i) ==
    IF Kind(i) \in Calls /\ CalleeOf(i).name \in {"getenv", "putenv"} THEN Warn(i, "q" \o CalleeOf(i).name) ELSE Silence

isMatchingClass(c) ==
    c \in {"QBitArray", "QByteArray", "QChar", "QDate", "QDateTime", "QEasingCurve", "QJsonArray", "QJsonDocument", "QJsonObject",
           "QJsonValue", "QLocale", "QModelIndex", "QPoint", "QPointF", "QRect", "QRectF", "QRegExp", "QString",
           "QRegularExpression", "QSize", "QSizeF", "QStringList", "QTime", "QUrl", "QUuid"}

HasConversion(t) ==
    /\ IsPlain(t)
    /\ \/ t.name \in (Integral \ {"enum"}) \cup Floating
       \/ "struct" \notin Class(t.name).is /\ isMatchingClass(ShortName(RecordOf(t)))

\* Of an object, not through a pointer; a QList has no value<T>().
QVariantTemplateInstantiation_VisitStmt(i) ==
    LET f == CalleeOf(i)
        object == TypeOf(ImplicitObject(i))
        holder == ShortName(RecordOf(object))
        args == TemplateArgs(object)
        types == IF "targs" \in DOMAIN f THEN f.targs ELSE <<>>
    IN WarnIf(/\ Kind(i) = "CXXMemberCallExpr" /\ f.name = "value"
              /\ holder \in {"QVariant", "QHash", "QMap"}
              /\ holder # "QVariant" => Len(args) = 2 /\ args[2].name = "QVariant" /\ args[2].is = {}
              /\ types # <<>> /\ HasConversion(types[1]), i, "value<T>")

-----------------------------------------------------------------------------
(* jni-signatures, lowercase-qml-type-name: what a literal has to be.         *)

\* Of the arguments one after the other; a literal says what it is.
JniArguments ==
    "QAndroidJniObject" :> <<"class name", "constructor signature">>
    @@ [name \in {"callObjectMethod", "callMethod"} |-> <<"method name", "method signature">>]
    @@ [name \in {"callStaticObjectMethod", "callStaticMethod"} |-> <<"class name", "method name", "method signature">>]

checkArgAt(i, k, what) ==
    LET literal == getFirstChildOfType2(Arg(i, k - 1), {"StringLiteral"})
        pattern == IF what = "constructor signature" THEN "method signature" ELSE what
    IN WarnIf(literal # 0 /\ ~Is(literal, "wide") /\ ~Is(literal, pattern), i, "invalid " \o what)

JniSignatures_VisitStmt(i) ==
    LET f == CalleeOf(i) IN
      IF Kind(i) \notin Calls \cup Constructions \/ f.class # "QAndroidJniObject" \/ f.name \notin DOMAIN JniArguments THEN Silence
      ELSE UNION {checkArgAt(i, k, JniArguments[f.name][k]) : k \in DOMAIN JniArguments[f.name]}

LowercaseQMlTypeName_VisitStmt(i) ==
    LET literal == getFirstChildOfType2(Arg(i, 3), {"StringLiteral"}) IN
      WarnIf(/\ Kind(i) \in Calls /\ CalleeOf(i).name \in {"qmlRegisterType", "qmlRegisterUncreatableType"}
             /\ literal # 0 /\ ~Is(literal, "uppercase"), Arg(i, 3), "lowercase type")

-----------------------------------------------------------------------------
(* qbytearray-conversion-to-c-style                                        *)

\* Decided by how the text that is converted begins and ends: that of a sum may
\* begin with a constructor, too.
QBytearrayConversionToCStyle_VisitStmt(i) ==
    LET made == getFirstChildOfType(i, {"CXXFunctionalCastExpr"})
        text == Attr(Child(i, 1), "text", [begins |-> "", ends |-> ""])
        replacement ==
            IF made # 0 /\ text.begins \in {"QByteArrayLiteral(", "QByteArray("} THEN "literal"
            ELSE IF CalleeOf(getFirstChildOfType(i, {"CXXOperatorCallExpr"})).name = "operator+" THEN "QByteArray{}.constData()"
            ELSE ".constData()"
    IN WarnIf(/\ Kind(i) = "CXXMemberCallExpr" /\ QualifiedName(CalleeOf(i)) = <<"QByteArray", "operator const char *">>
              /\ made # 0 => getFirstChildOfType(made, {"StringLiteral"}) # 0 /\ text.ends = ")", i, replacement)
=============================================================================
