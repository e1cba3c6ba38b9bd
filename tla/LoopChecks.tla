----------------------------- MODULE LoopChecks -----------------------------
(***************************************************************************)
(* The checks about loops over containers: foreach, range-loop-detach,       *)
(* range-loop-reference, reserve-candidates, container-inside-loop and       *)
(* container-anti-pattern.  A check is asked about one node, after the walk   *)
(* has brought the map of parents and the last declarations up to date, and   *)
(* answers with the warnings it emits.                                      *)
(***************************************************************************)
EXTENDS Utils

VARIABLES
    m_lastForStmt,                          \* Foreach
    m_foundReserves,                        \* ReserveCandidates: names of containers
    nonComplexOnesCache, complexOnesCache   \* its function-local statics

-----------------------------------------------------------------------------
(* foreach                                                                 *)

\* A call of a detaching method on the container; a container that is named
\* without a cast in between is not compared.
containsDetachments(loop, container) ==
    \E i \in getChilds(loop, {"MemberExpr"}) :
        /\ IsMethod(FunctionOf(i))
        /\ FunctionOf(i).name \in detachingMethods(rootBaseClass(FunctionOf(i).class))
        /\ Kind(Child(i, 1)) # "DeclRefExpr"
        /\ Kind(getFirstChildAtDepth(Child(i, 1), 1)) = "DeclRefExpr"
        /\ DeclOf(getFirstChildAtDepth(Child(i, 1), 1)) = container

\* The variable of the foreach is declared in the inner of its two loops.
checkBigTypeMissingRef ==
    LET inner == First(getChilds(bodyFromLoop(m_lastForStmt), {"ForStmt"}))
        declaration == First(getChilds(inner, {"DeclStmt"}))
        var == First({j \in Nodes : Kind(j) = "VarDecl" /\ declaration # 0 /\ tree[j].parent = declaration})
        classified == classifyQualType(TypeOf(var), TRUE, IsChangedIn(inner, Name(var)))
    IN IF /\ var # 0 /\ classified.ok
          /\ classified.bigByConstRef \/ classified.nonTrivialByConstRef
       THEN Warn(var, "missing reference") ELSE Silence

Foreach_VisitStmt(i) ==
    LET container == DeclOf(First(DeclRefs(i)))
        class == RecordOf(TypeOf(Arg(i, 0)))
        root == rootBaseClass(class)
    IN IF \/ qtVersion >= 50900 \/ m_lastForStmt = 0
          \/ Kind(i) \notin Constructions \/ CalleeOf(i).class # "QForeachContainer"
          \/ DeclRefs(i) = {} \/ class = ""
       THEN Silence
       ELSE IF ~isQtIterableClass(root) \/ root = "QVarLengthArray" THEN Warn(i, "deep-copy")
       ELSE checkBigTypeMissingRef \cup
            IF \/ Kind(Arg(i, 0)) = "MaterializeTemporaryExpr"
               \/ IsConstQualified(TypeOf(NodeOf(container)))
               \/ ~containsDetachments(m_lastForStmt, container)
            THEN Silence ELSE Warn(i, "container detached")

LastForStmtAfter(i) == IF qtVersion < 50900 /\ Kind(i) = "ForStmt" THEN i ELSE m_lastForStmt

-----------------------------------------------------------------------------
(* range-loop-detach, range-loop-reference                                 *)

\* A variable of a function whose initializer makes no copy and that no call
\* before the loop gets.
containerNeverDetaches(var, until) ==
    LET made == Child(InitOf(var), 1) IN
      /\ Kind(DeclContext(var)) \in FunctionContexts
      /\ Body(DeclContext(var)) # 0
      /\ ~(Kind(InitOf(var)) = "ExprWithCleanups"
           /\ \/ Kind(made) \in Constructions /\ ~Is(made, "list")
              \/ Kind(made) = "CXXBindTemporaryExpr")
      /\ ~isPassedToFunction(Body(DeclContext(var)), until, Name(var), FALSE)


MayDetach(loop) ==
    LET container == RangeInit(loop)
        class == RecordOf(TypeOf(container))
        variable == TypeOf(LoopVariable(loop))
    IN /\ class # "" /\ ~IsConstQualified(TypeOf(container))
       /\ valueIsConst(variable) \/ ~IsReference(variable)
       /\ isQtCOWIterableClass(rootBaseClass(class))
       /\ ~containerNeverDetaches(containerDeclForLoop(loop), Begin(loop))

\* A fixit is offered for a container that has a name.
islvalue(i) == Kind(i) = "DeclRefExpr" \/ (Kind(i) = "MemberExpr" /\ ~IsMethod(FunctionOf(i)))

RangeLoopDetach_VisitStmt(i) ==
    IF Kind(i) = "CXXForRangeStmt" /\ MayDetach(i)
    THEN Warn(i, IF islvalue(RangeInit(i)) /\ qtVersion >= 50700 THEN "detach, as_const" ELSE "detach")
    ELSE Silence

RangeLoopReference_VisitStmt(i) ==
    LET var == LoopVariable(i) IN
      WarnIf(/\ Kind(i) = "CXXForRangeStmt" /\ RecordOf(TypeOf(RangeInit(i))) # ""
             /\ classifyQualType(TypeOf(var), TRUE, IsChangedIn(i, Name(var))).nonTrivialByConstRef, var, "missing reference")

-----------------------------------------------------------------------------
(* reserve-candidates                                                      *)

isCandidateMethod(f) ==
    /\ f.name \in {"append", "push_back", "push", "operator<<", "operator+="}
    /\ isAReserveClass(f.class)
    /\ f.params[1].name # f.class

acceptsValueDecl(decl) ==
    /\ decl # "" /\ Kind(NodeOf(decl)) # "ParmVarDecl" /\ decl \notin m_foundReserves
    /\ \/ isValueDeclInFunctionContext(NodeOf(decl))
       \/ /\ Kind(lastMethodDecl') \in {"CXXConstructorDecl", "CXXDestructorDecl"}
          /\ isMemberVariable(decl)
          /\ DeclContext(lastMethodDecl') = DeclContext(NodeOf(decl))

\* Comparing iterators and asking a java iterator is fine, and so are numbers.
expressionIsComplex(i) ==
    \/ \E call \in getChilds(i, Calls) :
         /\ ~(Kind(call) = "CXXOperatorCallExpr" /\ ShortName(CalleeOf(call).class) \in {"iterator", "const_iterator"})
         /\ ~(Kind(call) = "CXXMemberCallExpr" /\ isJavaIterator(CalleeOf(call).class))
         /\ TypeOf(call).name \notin Integral \ {"bool"} \/ ~IsPlain(TypeOf(call))
    \/ getChilds(i, {"ArraySubscriptExpr"}) # {}
    \/ /\ IsAssignment(i)
       /\ \/ Kind(Child(i, 2)) = "MemberExpr"
          \/ Kind(Child(i, 2)) = "ImplicitCastExpr" /\ Kind(getFirstChildAtDepth(Child(i, 2), 1)) = "MemberExpr"

loopIsComplex(i) ==
    \/ Kind(i) \in {"DoStmt", "WhileStmt"}
    \/ /\ Kind(i) = "ForStmt"
       /\ LET cond == Child(i, Attr(i, "cond", 2)) inc == Child(i, Attr(i, "inc", 3)) IN
            cond = 0 \/ inc = 0 \/ expressionIsComplex(cond) \/ expressionIsComplex(inc)

\* Going up from a call: the first statement that begins before the container
\* was declared, is a complicated loop or the second loop around the call
\* decides.  The loops of one foreach count as one.
ClimbsIntoComplexLoop(i, declared, isMember) ==
    LET around == Upwards(parent(i))
        before(p) == ~isMember /\ Begin(p) < declared
        upTo(p) == {q \in around : q >= p}
        fors(p) == Cardinality({q \in upTo(p) : isLoop(q) /\ ~isInForeach(q)})
        foreachs(p) == Cardinality({Begin(q) : q \in {r \in upTo(p) : isInForeach(r)}})
        stops == {p \in around : before(p) \/ loopIsComplex(p) \/ fors(p) > 1 \/ foreachs(p) > 1}
    IN stops # {} /\ ~before(Max(stops))

\* A place that was looked at before counts as complex.
Cached(place, caches) == place \in caches[1] \cup caches[2]

isInComplexLoop(i, declared, isMember, caches) ==
    Cached(Begin(i), caches) \/ ClimbsIntoComplexLoop(i, declared, isMember)

CachesAfter(i, declared, isMember, caches) ==
    IF Cached(Begin(i), caches) THEN caches
    ELSE IF ClimbsIntoComplexLoop(i, declared, isMember) THEN <<caches[1], caches[2] \cup {Begin(i)}>>
    ELSE <<caches[1] \cup {Begin(i)}, caches[2]>>

IsReserve(i) ==
    /\ Kind(i) = "CXXMemberCallExpr" /\ CalleeOf(i).name = "reserve"
    /\ isAReserveClass(CalleeOf(i).class) /\ valueDeclForMemberCall(i) # ""

FoundReservesAfter(i) == IF IsReserve(i) THEN m_foundReserves \cup {valueDeclForMemberCall(i)} ELSE m_foundReserves

AppendsOf(body) ==
    {j \in getStatementsTo(body, Calls, 1, TRUE, {"ExprWithCleanups"}) : isCandidateMethod(CalleeOf(j))}

\* The loop over the calls below a loop; each may fill the caches for the next.
Reserves(loop) ==
    LET body == bodyFromLoop(loop)
        appends == AppendsOf(body)
        nested == \/ Kind(body) \in {"DoStmt", "WhileStmt", "IfStmt"}
                  \/ Kind(body) = "ForStmt" /\ ~InMacro(loop, "Q_FOREACH")
        judged[j \in 0..MaxNodes] ==
            LET sofar == judged[j - 1]
                decl == valueDeclForCallExpr(j)
                declared == Begin(NodeOf(decl))
                isMember == isMemberVariable(decl)
            IN IF j = 0 THEN [caches |-> <<nonComplexOnesCache, complexOnesCache>>, warned |-> Silence]
               ELSE IF \/ j \notin appends \/ ~acceptsValueDecl(decl)
                       \/ ~isMember /\ Begin(body) < declared
               THEN sofar
               ELSE [caches |-> CachesAfter(j, declared, isMember, sofar.caches),
                     warned |-> sofar.warned \cup
                         IF \/ isInComplexLoop(j, declared, isMember, sofar.caches)
                            \/ loopCanBeInterrupted(body, Begin(j))
                         THEN Silence ELSE Warn(j, "reserve candidate")]
    IN IF body = 0 \/ nested THEN judged[0] ELSE judged[MaxNodes]

ReserveCandidates_VisitStmt(i) == IF IsReserve(i) THEN Silence ELSE Reserves(i).warned

StaticsAfter(i) ==
    IF IsReserve(i) THEN <<nonComplexOnesCache, complexOnesCache>> ELSE Reserves(i).caches

-----------------------------------------------------------------------------
(* container-inside-loop, container-anti-pattern                           *)

ContainerInsideLoop_VisitStmt(i) ==
    LET declaration == parent(i)
        var == tree[i].parent
    IN IF /\ Kind(i) \in Constructions
          /\ classNameFor(CalleeOf(i).class) \in {"QVector", "std::vector", "QList"}
          /\ Kind(declaration) = "DeclStmt" /\ Kind(var) = "VarDecl" /\ ~Is(declaration, "group")
          /\ isInLoop(i) # 0
          /\ ~isInitializedExternally(var)
          /\ ~isPassedToFunction(isInLoop(i), Anywhere, Name(var), TRUE)
       THEN Warn(i, "container inside loop") ELSE Silence

isInterestingCall(f) ==
    QualifiedName(f) \in {<<"QVector", "toList">>, <<"QList", "toVector">>, <<"QList", "toList">>,
                          <<"QSet", "toList">>, <<"QSet", "values">>, <<"QMap", "values">>, <<"QMap", "keys">>,
                          <<"QHash", "values">>, <<"QHash", "keys">>}

LoopsOverTemporary(i) ==
    /\ containerExprForLoop(i) # 0
    /\ isInterestingCall(CalleeOf(getFirstChildOfType2(containerExprForLoop(i), {"CXXMemberCallExpr"})))

ContainerAntiPattern_VisitStmt(i) ==
    LET chain == callListForChain(i)
        first == CalleeOf(Last(chain))
    IN IF LoopsOverTemporary(i) THEN Warn(i, "unneeded temporary")
       ELSE IF Len(chain) < 2 THEN Silence
       ELSE IF /\ Kind(i) = "CXXMemberCallExpr" /\ QualifiedName(CalleeOf(i)) = <<"QSet", "isEmpty">>
               /\ QualifiedName(first) = <<"QSet", "intersect">>
       THEN Warn(i, "use intersects")
       ELSE IF isInterestingCall(first) THEN Warn(i, "unneeded temporary") ELSE Silence
=============================================================================
