---------------------------- MODULE StringChecks -----------------------------
(***************************************************************************)
(* qstring-arg, and                                                         *)
(* qstring-allocations: literals that are turned into a QString at runtime.   *)
(* What the check says of a place is the replacement it offers there, "none"  *)
(* when it has only a warning.  A literal is "empty", not "ascii", "escaped"  *)
(* or "concatenated"; a place in a macro has the name of the macro.          *)
(***************************************************************************)
EXTENDS Utils

VARIABLES
    m_alreadyProcessedChainedCalls  \* QStringArg

IsMacroID(i) == Attr(i, "macro", "") # ""
isAscii(literal) == literal # 0 /\ ~Is(literal, "non ascii")
noMsvcCompat == isOptionSet("no-msvc-compat")

\* Generated UI files are left alone; qstring.cpp gets no fixits.
maybeEmitWarning(i, replacement) ==
    IF Is(i, "ui file") THEN Silence
    ELSE Warn(i, IF qtDeveloper /\ Is(i, "qstring.cpp") THEN "none" ELSE replacement)

IsCharPtr(t) == t.name = "char" /\ {"const", "pointer"} \subseteq t.is
hasCharPtrArgument(f) == \E t \in SetOf(f.params) : IsCharPtr(t)
Latin1Strings == {"QLatin1String", "QLatin1StringView"}

betterTakeQLatin1String(f, literal) ==
    /\ f.class = "QString" /\ literal # 0 => isAscii(literal)
    /\ f.name \in {"append", "compare", "endsWith", "startsWith", "insert", "lastIndexOf", "prepend", "replace",
                   "contains", "indexOf"}

stringLiteralForCall(i) == IF i = 0 THEN 0 ELSE First(getNearChilds(i, {"StringLiteral"}, 3))

\* A literal that is no argument of a call inside.
containsStringLiteralNoCallExpr(i) ==
    \E j \in getChilds(i, {"StringLiteral"}) : ~ \E call \in getChilds(i, Calls) : call # i /\ j \in Below(call) \cup {call}

-----------------------------------------------------------------------------
(* The first QLatin1String("...") below a node, and the first conditional    *)
(* operator on the way there.                                              *)

UserLatin1(i) == userDefinedLiteral(i, "QLatin1String") # 0
IsLatin1Literal(i) ==
    /\ Kind(i) \in Constructions
    /\ \/ CalleeOf(i).class = "QLatin1String" /\ containsStringLiteral(i, FALSE, 2)
       \/ UserLatin1(i)

\* Since C++17 there may be a literal without a constructor: the way ends there.
OnTheWay(root) ==
    {j \in Below(root) \cup {root} :
        \A k \in Below(root) \cup {root} : j \in Below(k) => ~UserLatin1(k) /\ ~IsLatin1Literal(k)}

qlatin1CtorExpr(root) == First({j \in OnTheWay(root) : IsLatin1Literal(j)})

EnableFixit(ctor) ==
    /\ CalleeOf(ctor).class = "QLatin1String" /\ containsStringLiteral(ctor, FALSE, 2)
    /\ Len(CalleeOf(ctor).params) = 1

TernaryOnTheWay(root) ==
    First({j \in OnTheWay(root) : j < qlatin1CtorExpr(root) /\ Kind(j) = "ConditionalOperator" /\ ~UserLatin1(j)})

-----------------------------------------------------------------------------
(* Fixits.                                                                 *)

fixItReplaceWordWithWord(i, replacement, replacee) ==
    LET literal == stringLiteralForCall(i) IN
      IF \/ replacee = "QLatin1String" /\ literal # 0 /\ ~isAscii(literal)
         \/ literal # 0 /\ Is(literal, "escaped")
      THEN "none" ELSE replacement

\* It is a warning of its own.
NonLatin1(i, replacee) ==
    LET literal == stringLiteralForCall(i) IN
      IF replacee = "QLatin1String" /\ literal # 0 /\ ~isAscii(literal) THEN maybeEmitWarning(literal, "non-latin1 literal") ELSE Silence

\* Both branches must be constructed, or the check gives up.
fixItReplaceWordWithWordInTernary(i) ==
    IF \A k \in 2..3 : Through(Child(i, k), {"CXXFunctionalCastExpr"}) # 0
                       /\ Kind(Through(Child(i, k), {"CXXFunctionalCastExpr"})) \in Constructions
    THEN "QStringLiteral in both" ELSE "none"

fixItRawLiteral(literal, replacement, operator) ==
    IF IsMacroID(literal) \/ Is(literal, "escaped") THEN "none"
    ELSE IF operator = "operator==" /\ Is(literal, "empty") THEN "isEmpty"
    ELSE IF operator = "operator!=" /\ Is(literal, "empty") THEN "not isEmpty"
    ELSE IF Is(literal, "empty") THEN "QLatin1String" ELSE replacement

-----------------------------------------------------------------------------
(* Constructors of QString.                                                *)

Latin1Ctor(i) ==
    LET latin1 == qlatin1CtorExpr(i)
        ternary == TernaryOnTheWay(i)
        twice == Begin(latin1) # Begin(i) /\ Kind(parent(i)) = "CXXBindTemporaryExpr"
        word == fixItReplaceWordWithWord(latin1, "QStringLiteral", "QLatin1String")
        fixable == EnableFixit(latin1) /\ ~IsMacroID(latin1)
    IN IF latin1 = 0 \/ InMacro(latin1, "Q_GLOBAL_STATIC_WITH_ARGS") THEN Silence
       ELSE IF ~fixable THEN maybeEmitWarning(i, "none")
       ELSE IF ternary # 0 THEN maybeEmitWarning(i, fixItReplaceWordWithWordInTernary(ternary))
       ELSE NonLatin1(latin1, "QLatin1String")
              \cup maybeEmitWarning(i, IF ~twice THEN word
                                       ELSE IF word = "none" THEN "remove QString" ELSE "QStringLiteral, remove QString")

\* QString("...") or a literal that is converted.
CharPtrCtor(i) ==
    LET cast == Child(i, 1)
        literal == IF Kind(cast) = "ImplicitCastExpr" /\ Kind(Child(cast, 1)) = "StringLiteral" THEN Child(cast, 1) ELSE 0
        written == Kind(parent(i)) = "CXXBindTemporaryExpr" /\ Kind(parent(parent(i))) = "CXXFunctionalCastExpr"
        call == getNearParentOfType(literal, {"CXXMemberCallExpr"}, 6)
        better == betterTakeQLatin1String(CalleeOf(call), literal)
    IN maybeEmitWarning(i,
         IF literal = 0 THEN "none"
         ELSE IF ~written THEN fixItRawLiteral(literal, IF call # 0 /\ better THEN "QLatin1String" ELSE "QStringLiteral", "")
         ELSE IF Is(literal, "empty") /\ getFirstParentOfType(i, {"MemberExpr"}) = 0
         THEN fixItReplaceWordWithWord(i, "QLatin1String", "QString")
         ELSE IF IsMacroID(i) THEN "none" ELSE fixItReplaceWordWithWord(i, "QStringLiteral", "QString"))

VisitCtorExpr(i) ==
    LET f == CalleeOf(i)
        literal == stringLiteralForCall(i)
    IN IF \/ f.class # "QString" \/ insideCTORCall(i, {"QRegExp", "QIcon"})
          \/ ~noMsvcCompat /\ (getFirstParentOfType(i, {"InitListExpr"}) # 0 \/ Is(literal, "concatenated"))
          \/ Len(f.params) # 1
       THEN Silence
       ELSE IF hasCharPtrArgument(f) THEN CharPtrCtor(i)
       ELSE IF f.params[1].name \in Latin1Strings THEN Latin1Ctor(i) ELSE Silence

\* The strings of a list, one inside the other.
StringsOfList(i) ==
    LET strings[j \in 0..MaxNodes] ==
            LET inner == getFirstChildOfType2(j, Constructions) IN
              IF j = 0 \/ inner = 0 THEN {} ELSE {inner} \cup strings[inner]
    IN strings[i]

VisitCtor(i) ==
    IF Kind(i) \notin Constructions \/ ~containsStringLiteral(i, TRUE, MaxNodes) THEN Silence
    ELSE IF CalleeOf(i).class = "QStringList"
    THEN UNION {VisitCtorExpr(j) : j \in StringsOfList(i)} ELSE VisitCtorExpr(i)

-----------------------------------------------------------------------------
(* Operators, fromLatin1() and fromUtf8(), assignments.                     *)

VisitOperatorCall(i) ==
    LET f == CalleeOf(i)
        near == First(getNearChilds(i, {"StringLiteral"}, 3))
    IN IF \/ Kind(i) # "CXXOperatorCallExpr" \/ f.returns.name = "QTestData" \/ ~HasCallee(i)
          \/ getChilds(i, {"StringLiteral"}) = {}
          \/ IsMethod(f) /\ f.class # "QString"
          \/ ~IsMethod(f) /\ "defined elsewhere" \in f.is
          \/ ~hasCharPtrArgument(f)
          \/ ~noMsvcCompat /\ Is(near, "concatenated")
       THEN Silence
       ELSE maybeEmitWarning(i, IF near = 0 THEN "none"
                                ELSE fixItRawLiteral(near, IF isAscii(near) THEN "QLatin1String" ELSE "QStringLiteral", f.name))

\* Going up through casts and temporaries: what is done with the string.
isQStringLiteralCandidate(i) ==
    LET string(j, type) == isAssignOperator(j, "QString", type)
        concatenates(j) ==
            /\ Kind(j) = "CXXOperatorCallExpr" /\ CalleeOf(j).returns.name # "QTestData"
            /\ \/ CalleeOf(j).class = "QString"
               \/ CalleeOf(j).class = "" /\ \E t \in SetOf(CalleeOf(j).params) : t.name = "QString" /\ IsPlain(t)
        up[j \in 0..MaxNodes] ==
            IF j = 0 THEN FALSE
            ELSE IF Kind(j) = "MemberExpr" \/ string(j, "QLatin1String") \/ string(j, "QString") THEN TRUE
            ELSE IF Kind(j) \in Constructions /\ CalleeOf(j).class = "QString" THEN TRUE
            ELSE IF concatenates(j) THEN FALSE
            ELSE IF j = i THEN up[parent(j)]
            ELSE IF /\ Kind(j) = "ExprWithCleanups" /\ Kind(Child(j, 1)) = "CXXBindTemporaryExpr"
                    /\ Kind(Child(Child(j, 1), 1)) \in Calls THEN TRUE
            ELSE IF Kind(j) \in Calls THEN ~betterTakeQLatin1String(CalleeOf(j), stringLiteralForCall(j))
            ELSE Kind(j) \in {"ImplicitCastExpr", "CXXBindTemporaryExpr", "MaterializeTemporaryExpr"} /\ up[parent(j)]
    IN up[i]

fixItReplaceFromLatin1OrFromUtf8(i, function) ==
    LET literal == stringLiteralForCall(i)
        replacement == IF isQStringLiteralCandidate(i) THEN "QStringLiteral" ELSE "QLatin1String"
    IN IF replacement = "QStringLiteral" /\ IsMacroID(i) THEN "by hand"
       ELSE IF literal = 0 \/ Is(literal, "escaped") THEN "none"
       ELSE IF isAscii(literal) THEN replacement
       ELSE IF replacement = "QStringLiteral" /\ function = "fromLatin1" THEN "none"
       ELSE IF function = "fromUtf8" THEN "QStringLiteral" ELSE replacement

VisitFromLatin1OrUtf8(i) ==
    LET f == CalleeOf(i)
        ternary == First(getChilds(i, {"ConditionalOperator"}))
        view == \E t \in SetOf(f.params) : t.name = "QByteArrayView"
    IN IF \/ Kind(i) \notin Calls \/ f.class # "QString" \/ f.name \notin {"fromLatin1", "fromUtf8"}
          \/ ~view /\ ~(callHasDefaultArguments(i) /\ Len(f.params) = 2 /\ hasCharPtrArgument(f))
          \/ ~containsStringLiteralNoCallExpr(i)
          \/ ~noMsvcCompat /\ Is(stringLiteralForCall(i), "concatenated")
       THEN Silence
       ELSE IF ternary # 0
       THEN IF ternaryOperatorIsOfStringLiteral(ternary) THEN maybeEmitWarning(i, "none") ELSE Silence
       ELSE maybeEmitWarning(i, fixItReplaceFromLatin1OrFromUtf8(i, f.name))

VisitAssignOperatorQLatin1String(i) ==
    LET latin1 == qlatin1CtorExpr(i)
        ternary == TernaryOnTheWay(i)
    IN IF \/ ~ \E type \in Latin1Strings : isAssignOperator(i, "QString", type)
          \/ ~containsStringLiteralNoCallExpr(i) \/ latin1 = 0
       THEN Silence
       ELSE IF ternary # 0 THEN maybeEmitWarning(i, fixItReplaceWordWithWordInTernary(ternary))
       ELSE NonLatin1(latin1, "QLatin1String")
              \cup maybeEmitWarning(i, fixItReplaceWordWithWord(latin1, "QStringLiteral", "QLatin1String"))

QStringAllocations_VisitStmt(i) ==
    IF qtDeveloper /\ unit.bootstrapping THEN Silence
    ELSE VisitCtor(i) \cup VisitOperatorCall(i) \cup VisitFromLatin1OrUtf8(i) \cup VisitAssignOperatorQLatin1String(i)
-----------------------------------------------------------------------------
(* qstring-arg: s.arg(a).arg(b), where one call would do, and calls that      *)
(* take the wrong overload.  A parameter may have a name.                   *)

isArgMethod(f, class) == f.class = class /\ f.name = "arg"

\* No fieldWidth is given.
isArgFuncWithOnlyQString(i) ==
    LET f == CalleeOf(i) IN
      /\ isArgMethod(f, "QString") /\ Len(f.params) > 1
      /\ \/ f.params[2].name = "QString"
         \/ /\ f.params[1].name = "QString" \/ (f.params[1].name = "char" /\ f.params[1].is = {"const", "ref"})
            /\ Kind(Arg(i, 1)) = "CXXDefaultArgExpr"

GivenArgs(i) == {k \in DOMAIN Args(i) : Kind(Args(i)[k]) # "CXXDefaultArgExpr"}

\* Some calls that follow each other, the last one first: one call takes nine
\* arguments at most.
checkMultiArgWarningCase(calls) ==
    Len(calls) > 1 /\ Cardinality(UNION {{<<c, k>> : k \in GivenArgs(c)} : c \in SetOf(calls)}) <= 9

\* What the way through the chain comes to: a group ends at another call, or at
\* one that was part of a chain before; the first group that is warned about
\* ends the way, the rest of the chain is left for the calls further in.
checkForMultiArgOpportunities(i) ==
    LET chain == callListForChain(i)
        nothing == [group |-> <<>>, processed |-> m_alreadyProcessedChainedCalls, warned |-> FALSE]
        way[k \in 0..Len(chain)] ==
            IF k = 0 THEN nothing
            ELSE LET before == way[k - 1] call == chain[k] IN
                   IF before.warned THEN before
                   ELSE IF call \notin before.processed /\ isArgFuncWithOnlyQString(call)
                   THEN [before EXCEPT !.group = Append(@, call), !.processed = @ \cup {call}]
                   ELSE IF checkMultiArgWarningCase(before.group) THEN [before EXCEPT !.warned = TRUE]
                   ELSE [before EXCEPT !.group = <<>>]
    IN IF Kind(i) = "CXXMemberCallExpr" /\ isArgFuncWithOnlyQString(i) /\ ~Is(i, "ignored file") /\ ~InMacro(i, "QT_REQUIRE_VERSION")
       THEN way[Len(chain)] ELSE nothing

ProcessedCallsAfter(i) == checkForMultiArgOpportunities(i).processed

\* A number would be taken for the code of a character.
checkQLatin1StringCase(i) ==
    LET t == TypeOf(Arg(i, 0)) IN
      /\ qtVersion >= 51400 /\ isArgMethod(CalleeOf(i), "QLatin1String") /\ Args(i) # <<>>
      /\ t.name \in Integral \ {"char"} /\ IsPlain(t)

\* Whoever gives a number, or a variable with a telling name, knows what it is.
IsMeant(i, k, param, name) ==
    LET refs == DeclRefs(Arg(i, k)) type == CalleeOf(i).params[k + 1] IN
      /\ "param" \in DOMAIN type /\ type.param = param
      /\ \/ getChilds(Arg(i, k), {"IntegerLiteral"}) # {}
         \/ Cardinality(refs) = 1 /\ DeclOf(First(refs)) = name

TakesFillChar(i) ==
    LET f == CalleeOf(i) IN
      /\ isArgMethod(f, "QString") /\ f.params[Len(f.params)].name = "QChar"
      /\ Kind(Arg(i, 1)) # "CXXDefaultArgExpr"
      /\ ~IsMeant(i, 2, "base", "base") /\ ~IsMeant(i, 1, "fieldWidth", "width")

QStringArg_VisitStmt(i) ==
    LET multi == checkForMultiArgOpportunities(i) IN
      IF Kind(i) # "CXXMemberCallExpr" \/ Is(i, "ignored file") THEN Silence
      ELSE WarnIf(multi.warned \/ checkMultiArgWarningCase(multi.group), i, "multi-arg of " \o ToString(Len(multi.group)))
           \cup (IF checkQLatin1StringCase(i) THEN Warn(i, "cast to QChar")
                 ELSE WarnIf(isOptionSet("fillChar-overloads") /\ TakesFillChar(i), i, "fillChar overload"))

-----------------------------------------------------------------------------
(* Other calls of QString, and its literals.                                *)

\* Not below a cast: in Qt 6 the number is cast to qsizetype.
QStringLeft_VisitStmt(i) ==
    LET length == Arg(i, 0) IN
      IF Kind(i) = "CXXMemberCallExpr" /\ QualifiedName(CalleeOf(i)) = <<"QString", "left">> /\ Kind(length) = "IntegerLiteral"
      THEN WarnIf(tree[length].value = 0, i, "left(0)") \cup WarnIf(tree[length].value = 1, i, "left(1)") ELSE Silence

QLatin1StringNonAscii_VisitStmt(i) ==
    LET literal == getFirstChildOfType2(i, {"StringLiteral"}) IN
      WarnIf(/\ Kind(i) \in Constructions /\ QualifiedName(CalleeOf(i)) = <<"QLatin1String", "QLatin1String">>
             /\ literal # 0 /\ ~isAscii(literal), i, "non-ascii literal")

\* s.toLower().contains(): the two calls the chain starts with.
QStringInsensitiveAllocation_VisitStmt(i) ==
    LET calls == callListForChain(i)
        one(call, names) == CalleeOf(call).class = "QString" /\ CalleeOf(call).name \in names
    IN WarnIf(/\ Len(calls) >= 2 /\ one(Last(calls), {"toUpper", "toLower"})
              /\ one(calls[Len(calls) - 1], {"endsWith", "startsWith", "contains", "compare"}), i, "unneeded allocation")

QStringComparisonToImplicitChar_VisitStmt(i) ==
    LET f == CalleeOf(i) IN
      WarnIf(/\ Kind(i) = "CXXOperatorCallExpr" /\ Len(Args(i)) = 2
             /\ getFirstChildOfType2(Arg(i, 1), {"IntegerLiteral"}) # 0
             /\ QualifiedName(f) = <<"", "operator==">> /\ Len(f.params) = 2
             /\ f.params[1].name = "QString" /\ f.params[1].is = {"const", "ref"}
             /\ f.params[2].name = "QChar" /\ f.params[2].is = {}, i, "implicit QChar")

\* What clang makes of an object that is passed to a variadic function.
QStringVarargs_VisitStmt(i) ==
    WarnIf(/\ Kind(i) \in BinaryOperators /\ tree[i].op = ","
           /\ Kind(Child(i, 1)) \in Calls /\ CalleeOf(Child(i, 1)).name = "__builtin_trap"
           /\ RecordOf(TypeOf(Child(i, 2))) \in {"QString", "QByteArray"}, i, "variadic function")

TrNonLiteral_VisitStmt(i) ==
    WarnIf(/\ Kind(i) \in Calls /\ Args(i) # <<>> /\ QualifiedName(CalleeOf(i)) = <<"QObject", "tr">>
           /\ getFirstChildOfType2(Arg(i, 0), {"StringLiteral"}) = 0, i, "no literal")
=============================================================================
