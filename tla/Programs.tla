------------------------------ MODULE Programs -------------------------------
(* How the programs of the instances are written down: terms of the tree with *)
(* the shape clang gives them.                                             *)
EXTENDS ClangAst

\* Trees are written as nested terms: what a node is and the terms below it.
Node(kind, attributes, below) == [kind |-> kind, terms |-> below] @@ attributes
Leaf(kind) == Node(kind, <<>>, <<>>)
With(term, attributes) == attributes @@ term
Flag(term, flags) == [is |-> flags \cup (IF "is" \in DOMAIN term THEN term.is ELSE {})] @@ term

\* Types.
T(name) == [name |-> name, is |-> {}]
As(type, flags) == [type EXCEPT !.is = @ \cup flags]
Const(type) == As(type, {"const"})
Ref(type) == As(type, {"ref"})
Ptr(type) == As(type, {"pointer"})
Generic(name, args) == [name |-> name, is |-> {}, args |-> args]
Void == T("void")
Integer == T("int")
Literally == Const(Ptr(T("char")))

\* Functions and methods.
Fn(class, name, params, returns, flags) ==
    [class |-> class, name |-> name, params |-> params, returns |-> returns, is |-> flags]

\* Expressions.
Use(decl, type) == Node("DeclRefExpr", [decl |-> decl, type |-> type], <<>>)
UseFn(f) == Node("DeclRefExpr", [func |-> f], <<>>)
Field(object, decl, type) == Node("MemberExpr", [decl |-> decl, type |-> type], <<object>>)
This(class) == Node("CXXThisExpr", [type |-> Ptr(T(class))], <<>>)
Cast(op, type, e) == Node("ImplicitCastExpr", [op |-> op, type |-> type], <<e>>)
Read(type, e) == Cast("LValueToRValue", type, e)
AsConst(type, e) == Cast("NoOp", Const(type), e)
Temporary(type, e) == Node("MaterializeTemporaryExpr", [type |-> type], <<Node("CXXBindTemporaryExpr", [type |-> type], <<e>>)>>)
Cleanups(e) == Node("ExprWithCleanups", <<>>, <<e>>)
Number(n) == Node("IntegerLiteral", [value |-> n, type |-> Integer], <<>>)
Text(flags) == Node("StringLiteral", [is |-> flags], <<>>)
Unary(op, e) == Node("UnaryOperator", [op |-> op], <<e>>)
Binary(op, a, b) == Node("BinaryOperator", [op |-> op], <<a, b>>)
AddressOf(f) == Node("UnaryOperator", [op |-> "&"], <<UseFn(f)>>)

Construct(f, args) == Node("CXXConstructExpr", [callee |-> f, type |-> T(f.class)], args)
Call(f, args) ==
    Node("CallExpr", [callee |-> f, type |-> f.returns], <<Cast("FunctionToPointerDecay", f.returns, UseFn(f))>> \o args)
OperatorCall(f, args) ==
    Node("CXXOperatorCallExpr", [callee |-> f, type |-> f.returns],
         <<Cast("FunctionToPointerDecay", f.returns, UseFn(f))>> \o args)
MemberCall(object, f, args) ==
    Node("CXXMemberCallExpr", [callee |-> f, type |-> f.returns], <<Node("MemberExpr", [func |-> f], <<object>>)>> \o args)


\* A call without arguments, and one on what another call returned.
Ask(object, class, name, returns, flags) == MemberCall(object, Fn(class, name, <<>>, returns, flags), <<>>)
Then(call, class, name, returns, flags) == Ask(Temporary(T(class), call), class, name, returns, flags)

\* Statements.
Block(statements) == Node("CompoundStmt", <<>>, statements)
Variable(decl, type, flags, init) == Node("VarDecl", [name |-> decl, type |-> type, is |-> flags], init)
Local(decl, type, init) == Node("DeclStmt", <<>>, <<Variable(decl, type, {}, init)>>)
Return(e) == Node("ReturnStmt", <<>>, e)
ForRange(var, type, range, body) ==
    Node("CXXForRangeStmt", <<>>, <<Local(var, type, <<>>), range, Block(body)>>)
For(init, cond, inc, body) ==
    Node("ForStmt", [cond |-> IF cond = <<>> THEN 0 ELSE 2, inc |-> IF inc = <<>> THEN 0 ELSE 2 + Len(cond)],
         <<init>> \o cond \o inc \o <<body>>)
While(cond, body) == Node("WhileStmt", <<>>, <<cond, body>>)
DoWhile(body, cond) == Node("DoStmt", <<>>, <<body, cond>>)
If(cond, body) == Node("IfStmt", <<>>, <<cond, body>>)
CountUp(body) ==
    For(Local("i", Integer, <<Number(0)>>), <<Binary("<", Read(Integer, Use("i", Integer)), Number(10))>>,
        <<Unary("++", Use("i", Integer))>>, body)
Lambda(f, body) == Node("LambdaExpr", [func |-> f], <<Block(body)>>)

\* Declarations.
Parameter(decl, type) == Node("ParmVarDecl", [name |-> decl, type |-> type], <<>>)

Declares(f) ==
    IF "ctor" \in f.is THEN "CXXConstructorDecl" ELSE IF "destructor" \in f.is THEN "CXXDestructorDecl"
    ELSE IF f.class = "" THEN "FunctionDecl" ELSE "CXXMethodDecl"

Declare(f) == Node(Declares(f), [func |-> f], <<>>)
Define(f, params, body) == Node(Declares(f), [func |-> f, is |-> {"inline"}], params \o <<Block(body)>>)
DefineOutside(f, params, body) == Node(Declares(f), [func |-> f], params \o <<Block(body)>>)
Record(class, inside) == Node("CXXRecordDecl", [name |-> class], inside)

FieldOf(name, type) == Node("FieldDecl", [name |-> name, type |-> type], <<>>)
InModel(fields, body) == Record("Model", fields \o <<Define(Fn("Model", "f", <<>>, Void, {}), <<>>, body)>>)

Simple == Fn("", "f", <<>>, Void, {})
Function(body) == Define(Simple, <<>>, body)

\* A translation unit of the main file, the checks it is for and what they
\* should say.
Unit(terms, checks, expected) ==
    [terms |-> terms, classes |-> <<>>, checks |-> checks, expected |-> expected,
     qtVersion |-> 60000, qtDeveloper |-> FALSE, options |-> {}, privateSlots |-> {}, bootstrapping |-> FALSE,
     qmlcache |-> FALSE, usingPreCompiledHeaders |-> FALSE, hasMocInclude |-> FALSE,
     hasChronoInclude |-> FALSE, noKeywords |-> FALSE]

Says(condition, check, text) == IF condition THEN {<<check, text>>} ELSE {}

\* A program of which the code says one thing and its documentation or common
\* sense another carries no promise.
Contested == "contested"
Unpromised(u) == [field \in DOMAIN u \ {"expected"} |-> u[field]]
UnpromisedIf(contested, u) == IF contested THEN Unpromised(u) ELSE u

\* A check and what it says of some programs, "" is nothing: of whole files, of
\* what is in a function, and of what is in a method of Model with some fields.
Judged(check, cases) ==
    [n \in DOMAIN cases |->
        UnpromisedIf(cases[n][2] = Contested, Unit(cases[n][1], {check}, Says(cases[n][2] # "", check, cases[n][2])))]
JudgedBodies(check, cases) == Judged(check, [n \in DOMAIN cases |-> <<<<Function(cases[n][1])>>, cases[n][2]>>])
JudgedMethods(check, fields, cases) ==
    Judged(check, [n \in DOMAIN cases |-> <<<<InModel(fields, cases[n][1])>>, cases[n][2]>>])

\* Every combination of some choices, each a sequence.
Combinations(choices) ==
    LET size[d \in 0..Len(choices)] == IF d = 0 THEN 1 ELSE size[d - 1] * Len(choices[d])
    IN [n \in 1..size[Len(choices)] |->
           [d \in DOMAIN choices |-> choices[d][1 + (((n - 1) \div size[d - 1]) % Len(choices[d]))]]]

Either == <<FALSE, TRUE>>
OneOf(condition, term) == IF condition THEN <<term>> ELSE <<>>

\* One declaration after the other.
Joined(seqs) ==
    LET join[k \in 0..Len(seqs)] == IF k = 0 THEN <<>> ELSE join[k - 1] \o seqs[k]
    IN join[Len(seqs)]

-----------------------------------------------------------------------------
(* From terms to trees.                                                    *)

\* The nodes of some terms behind those that come before, with their parents
\* and how many nodes their terms have.
RECURSIVE Numbered(_, _, _, _)
Numbered(terms, before, parent, place) ==
    IF terms = <<>> THEN before
    ELSE LET term == Head(terms)
             here == IF "place" \in DOMAIN term THEN term.place ELSE place
             i == Len(before) + 1
             node == [field \in DOMAIN term \ {"terms"} |-> term[field]] @@ [parent |-> parent, place |-> here]
             inside == Numbered(term.terms, Append(before, node), i, here)
         IN Numbered(Tail(terms), [inside EXCEPT ![i] = [size |-> Len(inside) - i + 1] @@ @], parent, place)

\* The children of a statement are the statements that have it for a parent in
\* the sense of clang::ParentMap; the arguments of a call come behind its
\* callee, those of a construction are its children.  What is below a statement
\* ends where another declaration begins.
Tree(terms) ==
    LET nodes == Numbered(terms, <<>>, 0, "main")
        stmt(i) == i # 0 /\ nodes[i].kind \in Statements
        stmtParent == [i \in DOMAIN nodes |->
                          LET p == nodes[i].parent IN
                            IF p # 0 /\ nodes[p].kind \in Variables THEN nodes[p].parent ELSE p]
        root[i \in DOMAIN nodes] == IF stmt(i) /\ stmt(stmtParent[i]) THEN root[stmtParent[i]] ELSE i
        inside(i) == i + 1..i + nodes[i].size - 1
        childrenOf(i) == SelectSeq([k \in 1..nodes[i].size - 1 |-> i + k], LAMBDA j : stmt(j) /\ stmtParent[j] = i)
        args(i, below) == IF nodes[i].kind \in Calls /\ below # <<>> THEN Tail(below)
                          ELSE IF nodes[i].kind \in Constructions THEN below ELSE <<>>
    IN [i \in 0..Len(nodes) |->
          IF i = 0 THEN NullNode
          ELSE [stmtParent |-> stmtParent[i], children |-> childrenOf(i), args |-> args(i, childrenOf(i)),
                below |-> {j \in inside(i) : root[j] = root[i]}] @@ nodes[i]]

\* The files of translation units with what is known of classes; a number tells
\* them apart.
Files(units, library) ==
    [n \in DOMAIN units |->
       LET u == units[n]
           nodes == Tree(u.terms)
           before(i) == LET ds == IF "directives" \in DOMAIN nodes[i] THEN nodes[i].directives ELSE <<>>
                        IN [k \in DOMAIN ds |-> [at |-> i] @@ ds[k]]
           known == u.classes @@ library @@ "" :> PlainClass
       IN [field \in DOMAIN u \ {"terms", "classes"} |-> u[field]]
          @@ [name |-> n, tree |-> nodes, directives |-> Joined([i \in 1..Cardinality(DOMAIN nodes) - 1 |-> before(i)]), classes |-> [c \in DOMAIN known |-> known[c] @@ PlainClass],
              ignoreIncludedFiles |-> FALSE, botched |-> FALSE]]
=============================================================================
