------------------------------- MODULE Utils --------------------------------
(***************************************************************************)
(* Utils.cpp: what the checks ask about expressions and the statements       *)
(* around them.  A declaration is known by its name, "" is none.  And       *)
(* ContextUtils.cpp: how a method is to be named in another context.        *)
(***************************************************************************)
EXTENDS QtUtils

\* What a check says about a node: where, and what.
Warn(i, text) == {<<Begin(i), text>>}
Silence == {}
WarnIf(condition, i, text) == IF condition THEN Warn(i, text) ELSE Silence

\* The names a set of DeclRefExprs or MemberExprs stands for.
Named(nodes) == {DeclOf(j) : j \in nodes}

DeclRefs(root) == getChilds(root, {"DeclRefExpr"})

-----------------------------------------------------------------------------
(* Which variable a call is about.                                         *)

valueDeclForMemberCall(i) ==
    LET object == ImplicitObject(i)
        below(kinds) == First(getStatementsTo(object, kinds, 1, TRUE, {}))
    IN IF Kind(object) \in {"DeclRefExpr", "MemberExpr"} THEN DeclOf(object)
       ELSE IF below({"MemberExpr"}) # 0 THEN DeclOf(below({"MemberExpr"}))
       ELSE DeclOf(below({"DeclRefExpr"}))

\* The second child; an expression must have only one name in it.
valueDeclForOperatorCall(i) ==
    LET object == Child(i, 2) IN
      IF Kind(object) = "MemberExpr" THEN DeclOf(object)
      ELSE IF Cardinality(DeclRefs(object)) = 1 THEN DeclOf(First(DeclRefs(object))) ELSE ""

valueDeclForCallExpr(i) ==
    IF Kind(i) = "CXXMemberCallExpr" THEN valueDeclForMemberCall(i)
    ELSE IF Kind(i) = "CXXOperatorCallExpr" THEN valueDeclForOperatorCall(i) ELSE ""

isMemberVariable(decl) == Kind(DeclContext(NodeOf(decl))) \in Records

-----------------------------------------------------------------------------
(* What a body does with a variable.                                       *)

\* The first children of a node, from one to the next.
FirstBranch(i) ==
    LET down[j \in 0..MaxNodes] == IF j = 0 THEN {} ELSE {j} \cup down[getFirstChild(j)]
    IN down[getFirstChild(i)]

referencesVar(i, decl) == \E j \in FirstBranch(i) : Kind(j) = "DeclRefExpr" /\ DeclOf(j) = decl

IsAssignment(i) ==
    Kind(i) = "CompoundAssignOperator" \/ (Kind(i) = "BinaryOperator" /\ Attr(i, "op", "") = "=")

containsNonConstMemberCall(body, decl) ==
    /\ decl # ""
    /\ \/ \E i \in getChilds(body, {"CXXMemberCallExpr"}) :
            HasCallee(i) /\ ~IsConst(CalleeOf(i)) /\ valueDeclForMemberCall(i) = decl
       \/ \E i \in getChilds(body, {"CXXOperatorCallExpr"}) :
            IsMethod(CalleeOf(i)) /\ ~IsConst(CalleeOf(i)) /\ valueDeclForOperatorCall(i) = decl
       \/ \E i \in getChilds(body, BinaryOperators) : IsAssignment(i) /\ referencesVar(i, decl)

\* The name an argument has, possibly below one other node.
ArgumentName(arg) ==
    IF Kind(arg) = "DeclRefExpr" THEN DeclOf(arg)
    ELSE IF Kind(getFirstChild(arg)) = "DeclRefExpr" THEN DeclOf(getFirstChild(arg)) ELSE ""

isArgOfFunc(i, decl, byRefOrPtrOnly) ==
    \E k \in DOMAIN Args(i) :
        /\ ArgumentName(Args(i)[k]) = decl
        /\ byRefOrPtrOnly =>
             /\ k \in DOMAIN CalleeOf(i).params
             /\ ~IsPlain(CalleeOf(i).params[k]) /\ ~valueIsConst(CalleeOf(i).params[k])

\* A call behind the end of the range does not count.
isPassedToFunction(body, until, decl, byRefOrPtrOnly) ==
    \E i \in getChilds(body, Calls \cup Constructions) :
        HasCallee(i) /\ Begin(i) <= until /\ isArgOfFunc(i, decl, byRefOrPtrOnly)

ThroughCasts(i) == unpeal(i, {"DeclRefExpr"}, {"ImplicitCastExpr"})

isReturned(body, decl) ==
    \E i \in getChilds(body, {"ReturnStmt"}) : DeclOf(ThroughCasts(Child(i, 1))) = decl

isAssignedTo(body, decl) ==
    \E i \in getChilds(body, {"BinaryOperator"}) :
        Attr(i, "op", "") = "=" /\ DeclOf(ThroughCasts(Child(i, 2))) = decl

\* Where the functions a check looks at change a parameter or variable.
IsChangedIn(body, decl) == containsNonConstMemberCall(body, decl) \/ isPassedToFunction(body, Anywhere, decl, TRUE)

\* The initializer of a local variable names something or calls something.
isInitializedExternally(var) ==
    /\ Kind(DeclContext(var)) \in FunctionContexts
    /\ getChilds(InitOf(var), Calls \cup {"DeclRefExpr"}) # {}

functionHasEmptyBody(function) == children(Body(function)) = <<>>

\* The initializers of a constructor are statements in front of its body, with
\* the type of the field, or that of the base.
ctorInitializer(ctor, param) ==
    {j \in Nodes : tree[j].parent = ctor /\ IsStmt(j) /\ j # OwnBody(ctor) /\ param \in Named(DeclRefs(j))}

ctorInitializerContainsMove(inits) ==
    \E j \in inits : \E call \in getChilds(j, Calls) : QualifiedName(CalleeOf(call)) = <<"std", "move">>

-----------------------------------------------------------------------------
(* Expressions.                                                            *)

callHasDefaultArguments(i) == getNearChilds(i, {"CXXDefaultArgExpr"}, 1) # {}

containsStringLiteral(i, allowEmpty, depth) ==
    \E j \in (IF i = 0 THEN {} ELSE getNearChilds(i, {"StringLiteral"}, depth)) : allowEmpty \/ ~Is(j, "empty")

ternaryOperatorIsOfStringLiteral(i) ==
    \A k \in 2..3 : LET c == Child(i, k) IN
        \/ Kind(c) = "StringLiteral"
        \/ Kind(c) = "ImplicitCastExpr" /\ Kind(getFirstChild(c)) = "StringLiteral"

isAssignOperator(i, class, argument) ==
    LET f == CalleeOf(i) IN
      /\ Kind(i) = "CXXOperatorCallExpr" /\ Len(f.params) = 1
      /\ class # "" => f.class = class
      /\ f.name = "operator="
      /\ argument # "" => f.params[1].name = argument

\* anyOf = {} stands for any class.
isInsideOperatorCall(i, anyOf) ==
    \E j \in Upwards(i) : /\ Kind(j) = "CXXOperatorCallExpr" /\ HasCallee(j)
                          /\ (anyOf = {} \/ CalleeOf(j).class \in anyOf)

insideCTORCall(i, anyOf) == \E j \in Upwards(i) : Kind(j) \in Constructions /\ CalleeOf(j).class \in anyOf

isInDerefExpression(i) ==
    \E j \in Upwards(parent(i)) : Kind(j) = "CXXOperatorCallExpr" /\ CalleeOf(j).name = "operator*"

\* The class and the name of what a member function is called on.
recordForMemberCall(i) ==
    LET found == First({j \in FirstBranch(Child(i, 1)) : Kind(j) \in {"DeclRefExpr", "CXXThisExpr", "MemberExpr"}})
    IN IF found = 0 \/ ~IsClass(Pointee(TypeOf(found)).name) \/ IsPlain(TypeOf(found)) THEN [class |-> "", object |-> ""]
       ELSE [class |-> TypeOf(found).name,
             object |-> IF Kind(found) = "CXXThisExpr" THEN "this" ELSE DeclOf(found)]

\* The calls of a chain a().b().c(), the last of them first: from each the way
\* goes to its first child, from an operator's to its first operand.  A public
\* member or a conditional operator ends it.
callListForChain(i) ==
    LET next(j) == IF j = i /\ Kind(i) = "CXXOperatorCallExpr" /\ Len(children(i)) > 1 THEN Child(i, 2) ELSE Child(j, 1)
        ends(j) == j = 0 \/ Kind(j) = "ConditionalOperator" \/ (Kind(j) = "MemberExpr" /\ DeclOf(j) # "")
        chain[j \in 0..MaxNodes] ==
            IF ends(j) THEN <<>>
            ELSE (IF Kind(j) \in Calls /\ (HasCallee(j) \/ j = i) THEN <<j>> ELSE <<>>) \o chain[next(j)]
    IN IF Kind(i) \in Calls THEN chain[i] ELSE <<>>

userDefinedLiteral(i, type) ==
    LET literal == IF Kind(i) = "UserDefinedLiteral" THEN i ELSE getFirstChildOfType(i, {"UserDefinedLiteral"})
    IN IF literal # 0 /\ CalleeOf(literal).returns.name = type THEN literal ELSE 0

\* The class a cast starts from, or a pointer below an implicit cast to a base.
namedCastInnerDecl(i) ==
    LET e == Child(i, 1)
        inner == IF Kind(e) = "ImplicitCastExpr" /\ Attr(e, "op", "") = "DerivedToBase" THEN Child(e, 1) ELSE e
    IN IF IsPlain(TypeOf(inner)) THEN "" ELSE TypeOf(inner).name

namedCastOuterDecl(i) == IF IsPlain(TypeOf(i)) THEN "" ELSE TypeOf(i).name

-----------------------------------------------------------------------------
(* ContextUtils: which methods a context may take the address of, and how    *)
(* they are to be named there.  Contexts are known by their names.          *)

\* The class a class is declared in, and the namespaces around, inner ones first.
ScopesOf(class) == IF "scopes" \in DOMAIN Class(class) THEN Class(class).scopes ELSE <<>>
FriendsOf(class) == IF "friends" \in DOMAIN Class(class) THEN Class(class).friends ELSE {}

VisibleContexts(scope) == {Name(j) : j \in contextsForDecl(scope) \ {0}}

\* The namespaces of using directives that are seen at the place.
UsedNamespaces(scope, place) ==
    {Attr(j, "namespace", "") : j \in {k \in Nodes : /\ Kind(k) = "UsingDirectiveDecl"
                                                     /\ DeclContext(k) \in contextsForDecl(scope) \cup {0}
                                                     /\ Begin(k) <= place}}

\* The contexts a method is to be qualified with, beside its class.
getMostNeededQualifiedName(method, scope, place, honourUsingDirectives) ==
    SelectSeq(ScopesOf(method.class),
              LAMBDA c : /\ c \notin VisibleContexts(scope)
                         /\ ~honourUsingDirectives \/ c \notin UsedNamespaces(scope, place))

\* Yes, no, or by the name of the derived class only.
canTakeAddressOf(method, context) ==
    LET record == Name(firstContextOfType(context, Records))
        around == VisibleContexts(context)
    IN IF method.is \cap {"private", "protected"} = {} THEN "yes"
       ELSE IF record = "" THEN "no"
       ELSE IF \/ method.class = record \/ record \in FriendsOf(method.class)
               \/ method.class \in around \/ method.class \in SetOf(ScopesOf(record)) THEN "yes"
       ELSE IF "private" \in method.is THEN "no"
       ELSE IF derivesFrom(method.class, record) THEN "yes"
       ELSE IF derivesFrom(record, method.class) THEN "as derived" ELSE "no"
=============================================================================
