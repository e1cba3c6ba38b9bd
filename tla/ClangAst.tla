------------------------------ MODULE ClangAst ------------------------------
(***************************************************************************)
(* What clang's AST tells the checks of clazy: the nodes of a translation   *)
(* unit in the order of the walk, parents first, with the facts about types, *)
(* classes and functions the checks ask for.  Node 0 stands for a null       *)
(* pointer and, as a parent, for the translation unit.                      *)
(*                                                                         *)
(* Every node has a kind (the name of its class in clang), its parent, the   *)
(* statements below it and the file it is in; the other fields are there     *)
(* when a check may ask for them.                                          *)
(***************************************************************************)
EXTENDS Integers, Sequences, FiniteSets, FiniteSetsExt, TLC

CONSTANTS
    MaxNodes    \* bound: the nodes of a tree

ASSUME MaxNodesAssumption == MaxNodes \in Nat

VARIABLES
    unit,           \* how the file that is walked is compiled
    tree,           \* its nodes, a function of 0..n
    classes,        \* what is known of classes, those of headers too; "" is plain
    \* ClazyContext
    specified,      \* the classes that its AccessSpecifierManager has met
    parentMap,      \* the statements whose parent it knows
    lastDecl, lastFunctionDecl, lastMethodDecl  \* what the walk met last

qtVersion == unit.qtVersion
qtDeveloper == unit.qtDeveloper
isOptionSet(option) == option \in unit.options
Nodes == DOMAIN tree \ {0}

-----------------------------------------------------------------------------
(* Kinds of nodes.                                                         *)

Methods == {"CXXMethodDecl", "CXXConstructorDecl", "CXXDestructorDecl", "CXXConversionDecl"}
Functions == Methods \cup {"FunctionDecl"}

\* The context of what a lambda declares is the lambda: it stands for its operator().
FunctionContexts == Functions \cup {"LambdaExpr"}

Records == {"CXXRecordDecl", "ClassTemplateSpecializationDecl"}
Variables == {"VarDecl", "ParmVarDecl"}
Declarations == Functions \cup Records \cup Variables \cup
    {"FieldDecl", "TypedefDecl", "NamespaceDecl", "EnumDecl", "EnumConstantDecl", "UsingDirectiveDecl",
     "FriendDecl", "AccessSpecDecl", "ClassTemplateDecl"}

Calls == {"CallExpr", "CXXMemberCallExpr", "CXXOperatorCallExpr", "UserDefinedLiteral"}
Constructions == {"CXXConstructExpr", "CXXTemporaryObjectExpr"}
BinaryOperators == {"BinaryOperator", "CompoundAssignOperator"}
NamedCasts == {"CXXStaticCastExpr", "CXXDynamicCastExpr", "CXXReinterpretCastExpr", "CXXConstCastExpr"}
ExplicitCasts == NamedCasts \cup {"CStyleCastExpr", "CXXFunctionalCastExpr"}
Casts == ExplicitCasts \cup {"ImplicitCastExpr"}
Loops == {"ForStmt", "CXXForRangeStmt", "WhileStmt", "DoStmt"}
Statements == Calls \cup Constructions \cup BinaryOperators \cup Casts \cup Loops \cup
    {"CompoundStmt", "DeclStmt", "ReturnStmt", "BreakStmt", "ContinueStmt", "IfStmt", "SwitchStmt", "CaseStmt",
     "NullStmt", "DeclRefExpr", "MemberExpr", "CXXThisExpr", "LambdaExpr", "ExprWithCleanups",
     "MaterializeTemporaryExpr", "CXXBindTemporaryExpr", "CXXNewExpr", "UnaryOperator", "ConditionalOperator",
     "StringLiteral", "IntegerLiteral", "CharacterLiteral", "CXXBoolLiteralExpr", "CXXNullPtrLiteralExpr", "InitListExpr",
     "CXXStdInitializerListExpr", "CXXDefaultArgExpr", "ArraySubscriptExpr", "ParenExpr", "PredefinedExpr"}

\* The file of a node, or "nowhere" for an invalid location.
Places == {"main", "include", "system", "nowhere"}

-----------------------------------------------------------------------------
(* Nodes.                                                                  *)

\* A field of a node, or what stands for its absence.
Attr(i, field, default) == IF field \in DOMAIN tree[i] THEN tree[i][field] ELSE default

Kind(i) == tree[i].kind
Is(i, flag) == flag \in Attr(i, "is", {})
Name(i) == Attr(i, "name", "")
IsStmt(i) == Kind(i) \in Statements
children(i) == tree[i].children
Child(i, k) == IF k \in DOMAIN tree[i].children THEN tree[i].children[k] ELSE 0

\* Where a node begins, in the order of the file: an expression around another
\* begins with it.  Nodes of different files may begin at equal numbers.
StartsWithChild == {"ImplicitCastExpr", "CXXMemberCallExpr", "MemberExpr", "BinaryOperator", "CompoundAssignOperator",
                    "ExprWithCleanups", "MaterializeTemporaryExpr", "CXXBindTemporaryExpr", "ConditionalOperator",
                    "ArraySubscriptExpr", "CallExpr", "UserDefinedLiteral"}

Begin(i) ==
    LET first(j) == IF Kind(j) = "CXXOperatorCallExpr" THEN Child(j, 2)
                    ELSE IF Kind(j) \in StartsWithChild THEN Child(j, 1) ELSE 0
        begin[j \in i..MaxNodes + 1] == IF first(j) = 0 THEN Attr(j, "loc", j) ELSE begin[first(j)]
    IN begin[i]

Anywhere == MaxNodes + 1

InMacro(i, macro) == Attr(i, "macro", "") = macro

\* A statement's parent in the sense of clang::ParentMap: the initializer of a
\* variable belongs to the statement that declares it.
StmtParent(i) == tree[i].stmtParent

HasStmtParent(i) == IsStmt(StmtParent(i))

\* The statements below a node, and where it ends.
Below(i) == tree[i].below
End(i) == Max(Below(i) \cup {i})

-----------------------------------------------------------------------------
(* Types: the class or builtin a type names, with qualifiers; "const" of a   *)
(* reference or a pointer is that of what it refers or points to.            *)

NoType == [name |-> "", is |-> {}]
TypeOf(i) == Attr(i, "type", NoType)
HasType(t) == t # NoType
IsLValueReference(t) == "ref" \in t.is
IsRValueReference(t) == "rvalueRef" \in t.is
IsReference(t) == t.is \cap {"ref", "rvalueRef"} # {}
IsPointer(t) == "pointer" \in t.is /\ ~IsReference(t)
IsPlain(t) == t.is \cap {"ref", "rvalueRef", "pointer"} = {}
IsConstQualified(t) == "const" \in t.is /\ IsPlain(t)
IsVoid(t) == t.name = "void" /\ IsPlain(t)
Integral == {"int", "uint", "bool", "char", "long", "qsizetype", "enum"}
Floating == {"double", "float"}
\* A typedef that is declared in a class, as the class and the name; other
\* types by the class they are declared in and their name.
Written(t) == IF "alias" \in DOMAIN t THEN t.alias ELSE <<"", t.name>>
TemplateArgs(t) == IF "args" \in DOMAIN t THEN t.args ELSE <<>>

\* getPointeeType of a reference, and of a reference or a pointer.
Unreferenced(t) == [t EXCEPT !.is = @ \ {"ref", "rvalueRef"}]
Pointee(t) == [t EXCEPT !.is = @ \ IF IsReference(t) THEN {"ref", "rvalueRef"} ELSE {"pointer"}]

PlainClass == [bases |-> <<>>, is |-> {}, size |-> 8, fields |-> {}, methods |-> {}, ctors |-> {}, in |-> "", scope |-> <<>>]
IsClass(c) == c \in DOMAIN classes \ {""}
Class(c) == classes[IF IsClass(c) THEN c ELSE ""]

\* getAsCXXRecordDecl: the class of a type that is no reference or pointer, "" is none.
RecordOf(t) == IF IsPlain(t) /\ IsClass(t.name) THEN t.name ELSE ""

-----------------------------------------------------------------------------
(* Functions and the nodes that name one.                                  *)

NoFunction == [class |-> "", name |-> "", is |-> {}, returns |-> NoType, params |-> <<>>]

\* getDirectCallee of a call, getConstructor of a construction.
CalleeOf(i) == Attr(i, "callee", NoFunction)
HasCallee(i) == CalleeOf(i) # NoFunction

\* The function or method a declaration, a DeclRefExpr or a MemberExpr stands for.
FunctionOf(i) == Attr(i, "func", NoFunction)
IsMethod(f) == f.class # ""
IsConst(f) == "const" \in f.is
IsStatic(f) == "static" \in f.is
QualifiedName(f) == <<f.class, f.name>>

Args(i) == tree[i].args
Arg(i, k) == IF k + 1 \in DOMAIN Args(i) THEN Args(i)[k + 1] ELSE 0

\* getImplicitObjectArgument: the base of the member that is called.
ImplicitObject(i) == IF Kind(i) = "CXXMemberCallExpr" THEN Child(Child(i, 1), 1) ELSE 0

\* The declaration a DeclRefExpr or MemberExpr names; declarations are known
\* by names that are unique in a tree, "" is none.
DeclOf(i) == Attr(i, "decl", "")
NodeOf(decl) == LET named == {i \in Nodes : Kind(i) \in Declarations /\ Name(i) = decl}
                IN IF named = {} THEN 0 ELSE Min(named)

Contexts == FunctionContexts \cup Records \cup {"NamespaceDecl"}

\* The nearest node of some kinds that a node is in.
Around(i, kinds) ==
    LET up[j \in 0..i] == IF j = 0 \/ Kind(j) \in kinds THEN j ELSE up[tree[j].parent]
    IN IF i = 0 THEN 0 ELSE up[tree[i].parent]

\* getDeclContext of a declaration; for a statement, what it is a part of.
DeclContext(i) == Around(i, Contexts)

\* The body that stands at this declaration: doesThisDeclarationHaveABody.
OwnBody(i) == LET bodies == {j \in Nodes : tree[j].parent = i /\ Kind(j) = "CompoundStmt"}
              IN IF bodies = {} THEN 0 ELSE Min(bodies)

\* The declarations of the function that one declares, itself included.
Redeclarations(i) ==
    {i} \cup {j \in Nodes : /\ {Kind(i), Kind(j)} \subseteq Functions
                            /\ FunctionOf(j) = FunctionOf(i)}

\* getBody of a function, at whichever of its declarations it stands.
Body(i) == LET others == {j \in Redeclarations(i) : OwnBody(j) # 0}
           IN IF others = {} THEN 0 ELSE OwnBody(IF i \in others THEN i ELSE Min(others))

\* Whether this declaration of a function defines it behind its class.
IsOutOfLine(i) == OwnBody(i) # 0 /\ ~Is(i, "inline")

\* getInit of a variable.
InitOf(i) == LET inits == {j \in Nodes : tree[j].parent = i /\ IsStmt(j)}
             IN IF inits = {} THEN 0 ELSE Min(inits)

-----------------------------------------------------------------------------
(* What a tree is.                                                         *)

NullNode == [kind |-> "none", place |-> "nowhere", parent |-> 0, stmtParent |-> 0, size |-> 0,
             children |-> <<>>, args |-> <<>>, below |-> {}]

\* What lies in a node is numbered behind it, before anything that does not.
IsNumbered(t) ==
    \A i \in DOMAIN t \ {0} :
        /\ t[i].parent \in 0..i - 1 /\ t[i].size \in Nat \ {0}
        /\ t[i].parent # 0 => i + t[i].size <= t[i].parent + t[t[i].parent].size
        /\ \A j \in 1..i - 1 : i < j + t[j].size => t[i].parent >= j

\* The statements below a statement, as clang::ParentMap leads up from them.
AreBelow(t) ==
    \A i \in DOMAIN t \ {0} :
        /\ t[i].stmtParent = IF t[t[i].parent].kind \in Variables THEN t[t[i].parent].parent ELSE t[i].parent
        /\ {t[i].kind, t[t[i].stmtParent].kind} \subseteq Statements => i \in t[t[i].stmtParent].below
        /\ \A j \in t[i].below :
              /\ j \in DOMAIN t /\ i < j /\ j < i + t[i].size
              /\ t[j].kind \in Statements /\ t[j].below \subseteq t[i].below
              /\ t[j].stmtParent \in t[i].below \cup {i}

IsTree(t) ==
    /\ DOMAIN t \in {0..n : n \in 0..MaxNodes} /\ t[0] = NullNode
    /\ \A i \in DOMAIN t \ {0} :
         /\ DOMAIN NullNode \subseteq DOMAIN t[i]
         /\ t[i].kind \in Declarations \cup Statements
         /\ t[i].place \in Places
         /\ {t[i].children, t[i].args} \subseteq Seq(DOMAIN t)
    /\ IsNumbered(t) /\ AreBelow(t)
    \* A header of the system includes no file of its users.
    /\ \A i \in DOMAIN t \ {0} :
         t[i].place \in {"main", "include"} /\ t[i].parent # 0 => t[t[i].parent].place \in {"main", "include"}
=============================================================================
