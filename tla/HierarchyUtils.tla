--------------------------- MODULE HierarchyUtils ---------------------------
(***************************************************************************)
(* HierarchyUtils.h, LoopUtils.cpp and ContextUtils.h: how the checks find   *)
(* their way in the tree.  A search that returns a vector is a set here; the *)
(* nodes of a tree are numbered in the order of a depth first search, so the *)
(* first of a vector is the least of the set.                               *)
(***************************************************************************)
EXTENDS ClangAst

First(nodes) == IF nodes = {} THEN 0 ELSE Min(nodes)
Nearest(nodes) == IF nodes = {} THEN 0 ELSE Max(nodes)
Last(seq) == IF seq = <<>> THEN 0 ELSE seq[Len(seq)]

-----------------------------------------------------------------------------
(* Upwards, by the map of parents as the walk has made it so far.           *)

parent(i) == IF i \in parentMap' THEN StmtParent(i) ELSE 0

\* The node and its parents.
Upwards(i) ==
    LET up[j \in 0..i] == IF j = 0 THEN {} ELSE {j} \cup up[parent(j)]
    IN up[i]

getFirstParentOfType(i, kinds) == Nearest({j \in Upwards(i) : Kind(j) \in kinds})

\* With a depth: depth 0 looks at the node itself only.
getNearParentOfType(i, kinds, depth) ==
    LET within == {j \in Upwards(i) : Cardinality({k \in Upwards(i) : k > j}) <= depth}
    IN Nearest({j \in within : Kind(j) \in kinds})

isInLoop(i) == getFirstParentOfType(parent(i), Loops)

-----------------------------------------------------------------------------
(* Downwards.                                                              *)

isChildOf(i, root) == root # 0 /\ i \in Below(root)

Distance(i, root) == Cardinality({j \in Below(root) : i \in Below(j) \cup {j}})

getChilds(root, kinds) ==
    IF root = 0 THEN {} ELSE {j \in Below(root) \cup {root} : Kind(j) \in kinds}

getNearChilds(root, kinds, depth) == {j \in getChilds(root, kinds) : Distance(j, root) <= depth}

getFirstChild(i) == Child(i, 1)

getFirstChildAtDepth(i, depth) ==
    LET down[d \in 0..depth] == IF d = 0 THEN i ELSE getFirstChild(down[d - 1])
    IN down[depth]

getFirstChildOfType(root, kinds) == First(getChilds(root, kinds) \ {root})

\* Only the first branch.
getFirstChildOfType2(root, kinds) == First(getChilds(getFirstChild(root), kinds))

\* The depth left for the statements below a child: the loop over the children
\* counts down at each of them, so the second gets less than the first, and
\* what passes zero has no limit any more.
Budget(budget, i, ignored) ==
    budget - Cardinality({k \in DOMAIN children(StmtParent(i)) :
                             /\ children(StmtParent(i))[k] <= i
                             /\ Kind(children(StmtParent(i))[k]) \notin ignored})

getStatementsTo(root, kinds, depth, includeParent, ignored) ==
    LET budget[j \in Below(root) \cup {root}] ==
            IF j = root THEN depth ELSE Budget(budget[StmtParent(j)], j, ignored)
        searched[j \in Below(root) \cup {root}] ==
            budget[j] # 0 /\ (j = root \/ searched[StmtParent(j)])
    IN IF root = 0 \/ depth = 0 THEN {}
       ELSE {j \in Below(root) : Kind(j) \in kinds /\ searched[StmtParent(j)]}
                \cup {j \in {root} : includeParent /\ Kind(j) \in kinds}

\* Without a limit; with a location, only what begins behind it.
getStatements(root, kinds, start) ==
    {j \in Below(root) : Kind(j) \in kinds /\ Begin(j) > start}

\* What is below the nodes of some kinds.
Through(i, kinds) ==
    LET down[n \in 0..4] ==
            IF n > 0 /\ Kind(down[n - 1]) \in kinds THEN getFirstChild(down[n - 1]) ELSE IF n = 0 THEN i ELSE down[n - 1]
    IN down[4]

\* The node itself, or below the casts and cleanups that are looked through.
unpeal(i, kinds, through) ==
    IF Kind(Through(i, through \ kinds)) \in kinds THEN Through(i, through \ kinds) ELSE 0

getSwitchFromCase(i) == getFirstParentOfType(i, {"SwitchStmt"})

-----------------------------------------------------------------------------
(* Loops.                                                                  *)

isLoop(i) == Kind(i) \in Loops

bodyFromLoop(i) ==
    IF Kind(i) = "DoStmt" THEN Child(i, 1) ELSE IF isLoop(i) THEN Last(children(i)) ELSE 0

loopCanBeInterrupted(i, before) ==
    \E j \in getChilds(i, {"ReturnStmt", "BreakStmt", "ContinueStmt"}) : Begin(j) < before

\* A range loop holds its variable, its range and its body.
LoopVariable(i) == First({j \in Nodes : Kind(j) = "VarDecl" /\ tree[j].parent = Child(i, 1)})
RangeInit(i) == Child(i, 2)

\* Also the argument of qMakeForeachContainer, which Q_FOREACH calls in C++17.
containerExprForLoop(i) ==
    IF Kind(i) = "CXXForRangeStmt" THEN RangeInit(i)
    ELSE IF /\ Kind(i) = "CXXBindTemporaryExpr"
            /\ Kind(Child(i, 1)) \in Calls
            /\ QualifiedName(CalleeOf(Child(i, 1))) = <<"QtPrivate", "qMakeForeachContainer">>
    THEN Arg(Child(i, 1), 0) ELSE 0

containerDeclForLoop(i) ==
    LET container == containerExprForLoop(i) IN
      IF Kind(container) = "DeclRefExpr" /\ Kind(NodeOf(DeclOf(container))) \in Variables
      THEN NodeOf(DeclOf(container)) ELSE 0

-----------------------------------------------------------------------------
(* Contexts of declarations.                                               *)

isValueDeclInFunctionContext(i) == Kind(DeclContext(i)) \in FunctionContexts /\ Kind(i) # "ParmVarDecl"

\* Mutant: a function is looked up in its class.
contextForDecl_Outer(i) == DeclContext(i)

contextForDecl(i) == IF Kind(i) \in Contexts THEN i ELSE DeclContext(i)

\* The context and those around it, the inner ones first.
contextsForDecl(context) ==
    LET up[j \in 0..MaxNodes] == IF j = 0 THEN {} ELSE {j} \cup up[DeclContext(j)]
    IN up[context]

firstContextOfType(context, kinds) == Nearest({j \in contextsForDecl(context) : Kind(j) \in kinds})

=============================================================================
