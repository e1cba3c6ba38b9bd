-------------------------- MODULE ClazyVisitHelper --------------------------
(***************************************************************************)
(* ClazyVisitHelper.cpp and ClazyASTConsumer::HandleTranslationUnit: what the  *)
(* preprocessor tells the checks, the walk over the tree of a translation unit *)
(* behind it, the checks it calls on the way, what it leaves in the            *)
(* ClazyContext for them, the AST matchers, and the next translation unit of   *)
(* the same process.                                                       *)
(***************************************************************************)
EXTENDS CheckRegistry

CONSTANTS
    Jobs    \* what a process is run for: files one after the other, and checks

VARIABLES
    requestedChecks, asErrors,  \* CLAZY_CHECKS_AS_ERRORS
    files,                      \* those still to come
    directives,                 \* what the preprocessor has not come to
    next,                       \* the next node of the walk
    stopped,                    \* VisitStmt returned false
    matched,                    \* the AST matchers have run
    unrecoverableError,         \* hasUnrecoverableErrorOccurred()
    hasParentMap,
    reports,                    \* what the checks said of this file
    earlier                     \* history: the files before, with their reports and statics

program == <<requestedChecks, asErrors, files, unit, tree, classes>>
context == <<specified, lastDecl, lastFunctionDecl, lastMethodDecl, parentMap, hasParentMap>>
vars == <<program, directives, next, stopped, matched, unrecoverableError, context, members, statics, reports, earlier>>

IsFile(file) ==
    /\ IsTree(file.tree)
    /\ {file.ignoreIncludedFiles, file.botched} \subseteq BOOLEAN    \* botched: errors while it was parsed

ASSUME JobsAssumption ==
    \A process \in Jobs :
        /\ process.asErrors \subseteq process.checks /\ process.checks \subseteq Checks
        /\ process.files # <<>> /\ process.files \in Seq(SetOf(process.files))
        /\ \A file \in SetOf(process.files) : IsFile(file)

TypeOK ==
    /\ next \in 1..Cardinality(DOMAIN tree)
    /\ {stopped, matched, unrecoverableError, hasParentMap, m_hasAddedMocFile, m_lastIsGadget, m_hasInsertedInclude}
           \subseteq BOOLEAN
    /\ directives # <<>> => next = 1 /\ ~matched
    /\ {p.loc : p \in m_qproperties} \cup m_qgadgetMacroLocations \subseteq Nodes
    /\ UNION {specified, parentMap, m_alreadyProcessedChainedCalls, m_alreadyCheckedOperatorCalls} \subseteq Nodes
    /\ {lastDecl, lastFunctionDecl, lastMethodDecl, m_lastForStmt} \subseteq DOMAIN tree
    /\ lastMethodDecl # 0 => Kind(lastMethodDecl) \in Methods
    /\ m_foundReserves \cup m_typeInfos \subseteq STRING
    /\ nonComplexOnesCache \cup complexOnesCache \subseteq 1..MaxNodes
    /\ lastRecordDecl \in [{"call", "ctor"} -> STRING]
    /\ \A r \in reports : r[1] \in requestedChecks /\ r[2] \in DOMAIN tree

-----------------------------------------------------------------------------
(* The walk.                                                               *)

Outside(i) == tree[i].place \in {"nowhere", "system"}

IsFromIgnorableInclude(i) == unit.ignoreIncludedFiles /\ tree[i].place # "main"

\* Files of qmlcache get no checks.
shouldCheckFile == ~unit.qmlcache
addedChecks == IF shouldCheckFile THEN requestedChecks ELSE {}

\* The checks of one of the lists of visitors that are called for a node.
Called(i, list) ==
    {c \in list \cap addedChecks : ~(IsFromIgnorableInclude(i) /\ canIgnoreIncludes(c))}

\* A check of CLAZY_CHECKS_AS_ERRORS reports errors of its own, which the
\* compiler takes for unrecoverable ones.
Emit(said) ==
    /\ reports' = reports \cup said
    /\ unrecoverableError' = (unrecoverableError \/ \E s \in said : s[1] \in asErrors)

Said(check, warnings) == {<<check, w[1], w[2]>> : w \in warnings}

\* AccessSpecifierManager::VisitDeclaration, for system headers too.
SpecifiedAfter(i) == IF Kind(i) \in Records THEN specified \cup {i} ELSE specified

\* Mutant: any function is taken for a method.
LastMethodAfter_Function(i) == IF Kind(i) \in Functions THEN i ELSE lastMethodDecl

\* Mutant: the last method is only set once.
LastMethodAfter_Once(i) == IF Kind(i) \in Methods /\ lastMethodDecl = 0 THEN i ELSE lastMethodDecl

LastMethodAfter(i) == IF Kind(i) \in Methods THEN i ELSE lastMethodDecl

\* The typedefs of system headers are for one check.
CalledForDecl(i) ==
    IF ~Outside(i) THEN Called(i, visitDecls)
    ELSE IF Kind(i) = "TypedefDecl" THEN visitAllTypedefDecls \cap addedChecks ELSE {}

VisitDecl(i) ==
    /\ Kind(i) \in Declarations
    /\ specified' = SpecifiedAfter(i)
    /\ UNCHANGED <<parentMap, hasParentMap, stopped>>
    /\ IF Outside(i) THEN UNCHANGED <<lastDecl, lastFunctionDecl, lastMethodDecl>>
       ELSE /\ lastDecl' = i
            /\ lastFunctionDecl' = IF Kind(i) \in Functions THEN i ELSE lastFunctionDecl
            /\ lastMethodDecl' = LastMethodAfter(i)
    /\ Emit(UNION {Said(c, CheckDecl(c, i)) : c \in CalledForDecl(i)})
    /\ RememberDecl(CalledForDecl(i), i)

\* Mutant: the map is only made, for the first statement, and never grows.
ParentMapAfter_Once(i) == IF hasParentMap THEN parentMap ELSE Below(i)

\* A statement that the map does not know is the root of another hierarchy.
ParentMapAfter(i) == IF i \in parentMap THEN parentMap ELSE parentMap \cup Below(i)

SkipStmt(i) ==
    /\ Outside(i)
    /\ UNCHANGED <<stopped, unrecoverableError, context, members, statics, reports>>

StopAtErrors(i) ==
    /\ ~Outside(i) /\ ~hasParentMap /\ unrecoverableError
    /\ stopped' = TRUE
    /\ UNCHANGED <<unrecoverableError, context, members, statics, reports>>

CallForStmt(i) ==
    /\ ~Outside(i) /\ (hasParentMap \/ ~unrecoverableError)
    /\ hasParentMap' = TRUE
    /\ parentMap' = ParentMapAfter(i)
    /\ UNCHANGED <<specified, lastDecl, lastFunctionDecl, lastMethodDecl, stopped>>
    /\ Emit(UNION {Said(c, CheckStmt(c, i)) : c \in Called(i, visitStmts)})
    /\ RememberStmt(Called(i, visitStmts), i)

VisitStmt(i) == IsStmt(i) /\ (SkipStmt(i) \/ StopAtErrors(i) \/ CallForStmt(i))

Visit(i) ==
    /\ directives = <<>> /\ ~stopped
    /\ i \in Nodes
    /\ next' = i + 1
    /\ VisitDecl(i) \/ VisitStmt(i)
    /\ UNCHANGED <<program, directives, matched, earlier>>

\* The file is parsed before it is walked.
Preprocess ==
    /\ directives # <<>>
    /\ directives' = Tail(directives)
    /\ Emit(UNION {Said(c, CheckDirective(c, Head(directives))) : c \in PreprocessorCallbacks \cap addedChecks})
    /\ RememberDirective(PreprocessorCallbacks \cap addedChecks, Head(directives))
    /\ UNCHANGED <<program, next, stopped, matched, context, earlier>>

WalkIsOver == directives = <<>> /\ (stopped \/ next \notin Nodes)

\* matchAST over the whole tree, whether or not the walk was stopped.
MatchAST ==
    /\ WalkIsOver /\ ~matched
    /\ matched' = TRUE
    /\ specified' = specified
    /\ Emit(UNION {Said(c, Match(c, i)) : c \in Matchers \cap addedChecks, i \in Nodes})
    /\ UNCHANGED <<program, directives, next, stopped, lastDecl, lastFunctionDecl, lastMethodDecl, parentMap, hasParentMap,
                   members, statics, earlier>>

\* How a file is compiled.
Settings(file) == [field \in DOMAIN file \ {"tree", "classes", "directives"} |-> file[field]]

\* A consumer with a context and checks of its own for the next file; the
\* statics of functions are those of the process.
NextTranslationUnit ==
    /\ matched /\ files # <<>>
    /\ LET file == Head(files) IN
         /\ unit' = Settings(file) /\ tree' = file.tree /\ classes' = file.classes
         /\ directives' = file.directives
         /\ unrecoverableError' = file.botched
    /\ files' = Tail(files)
    /\ earlier' = Append(earlier, [unit |-> unit, reports |-> reports, lastRecordDecl |-> lastRecordDecl])
    /\ next' = 1
    /\ stopped' = FALSE /\ matched' = FALSE /\ hasParentMap' = FALSE
    /\ specified' = {} /\ parentMap' = {}
    /\ lastDecl' = 0 /\ lastFunctionDecl' = 0 /\ lastMethodDecl' = 0
    /\ FreshMembers
    /\ reports' = {}
    /\ UNCHANGED <<requestedChecks, asErrors, statics>>

Init ==
    /\ \E process \in Jobs :
         LET file == Head(process.files) IN
           /\ requestedChecks = process.checks /\ asErrors = process.asErrors
           /\ files = Tail(process.files)
           /\ unit = Settings(file) /\ tree = file.tree /\ classes = file.classes
           /\ directives = file.directives
           /\ unrecoverableError = file.botched
    /\ next = 1
    /\ stopped = FALSE /\ matched = FALSE /\ hasParentMap = FALSE
    /\ specified = {} /\ parentMap = {}
    /\ lastDecl = 0 /\ lastFunctionDecl = 0 /\ lastMethodDecl = 0
    /\ MembersInit /\ StaticsInit
    /\ reports = {} /\ earlier = <<>>

Next == Preprocess \/ Visit(next) \/ MatchAST \/ NextTranslationUnit

Spec == Init /\ [][Next]_vars

-----------------------------------------------------------------------------
(* Properties.                                                             *)

Walked == {i \in Nodes : i < next}

\* The statements that a check was asked about.
Examined(check) ==
    IF stopped \/ check \notin addedChecks THEN {}
    ELSE {i \in Walked : IsStmt(i) /\ ~Outside(i) /\ ~(IsFromIgnorableInclude(i) /\ canIgnoreIncludes(check))}

Reported(check, i, text) == <<check, Begin(i), text>> \in reports

\* Behind something of some kinds in the same function.
IsBehind(i, function, kinds) == \E j \in function + 1..i - 1 : Kind(j) \in kinds /\ j + tree[j].size <= i

\* A method emits a signal of its object, and not for the sake of another call;
\* what moc writes is nobody's.
EmitsItsOwn(i) ==
    /\ ~Is(i, "moc file") /\ Kind(i) = "CXXMemberCallExpr" /\ Kind(ImplicitObject(i)) = "CXXThisExpr"
    /\ LET f == CalleeOf(i) IN
         /\ IsMethod(f) /\ "signal" \in f.is /\ ~IsUnknown(f)
         /\ \A j \in Nodes : Kind(j) \in Records /\ Name(j) = f.class => j < i
    /\ \A j \in 1..i - 1 : Kind(j) = "CXXMemberCallExpr" => i \notin Below(j)

\* A method of a local class hides the one around it from what comes behind.
IsMistaken(i) == IsBehind(i, DeclContext(i), Methods)

\* Neither in a method nor below a lambda: the initializer of a field.
IsInitializer(i) ==
    /\ Kind(DeclContext(i)) \notin Methods
    /\ Kind(DeclContext(i)) = "LambdaExpr" => i \notin Below(DeclContext(i))

\* A signal of this object is warned about when it is emitted by a constructor
\* and not by a lambda in it, whatever the file declares before: the last
\* method of the walk is the method around the call, and the map of parents
\* leads to the lambda.  Only a local class may get in the way.  And nothing
\* else that is in a method or a lambda is warned about so.
ConstructorEmitsAreWarned ==
    /\ \A i \in Examined("incorrect-emit") :
         EmitsItsOwn(i) /\ Kind(DeclContext(i)) = "CXXConstructorDecl" /\ ~IsMistaken(i)
         => Reported("incorrect-emit", i, "emit in constructor")
    /\ \A r \in reports :
         r[1] = "incorrect-emit" /\ r[3] = "emit in constructor" =>
            \E i \in Walked :
                /\ ~Is(i, "moc file") /\ Kind(i) = "CXXMemberCallExpr" /\ Kind(ImplicitObject(i)) = "CXXThisExpr" /\ r[2] = Begin(i)
                /\ Kind(DeclContext(i)) = "CXXConstructorDecl" \/ IsMistaken(i) \/ IsInitializer(i)

\* A function of type void returns an expression of type void.
ReturnsVoid(i) ==
    /\ Kind(i) = "ReturnStmt" /\ Child(i, 1) # 0 /\ IsVoid(TypeOf(Child(i, 1)))
    /\ Kind(DeclContext(i)) \in Functions /\ IsVoid(FunctionOf(DeclContext(i)).returns)

\* Every void expression that a function returns is warned about: the last
\* declaration of the walk is in the function of the statement, unless a
\* lambda, a local class or the declaration of another function came in
\* between.  What a lambda returns is judged by the function around it.
VoidReturnsAreWarned ==
    \A i \in Examined("returning-void-expression") :
        ReturnsVoid(i) /\ ~IsBehind(i, DeclContext(i), Contexts)
        => Reported("returning-void-expression", i, "returning a void expression")

\* A statement that a check sees has its parent in the map, unless the walk
\* skipped that.
ParentsAreKnown ==
    ~stopped => \A i \in Walked :
        IsStmt(i) /\ ~Outside(i) /\ HasStmtParent(i) /\ ~Outside(StmtParent(i)) => i \in parentMap

\* Whether something is in the body of a method, wherever that is defined.
IsInBodyOf(i, f) ==
    \E j \in {Around(i, FunctionContexts)} : FunctionOf(j) = f /\ OwnBody(j) \in 1..i - 1

\* Who calls what: the calls of a method to its own class that no lambda delays.
OwnCalls(f) ==
    {CalleeOf(j) : j \in {k \in Nodes : /\ Kind(ImplicitObject(k)) = "CXXThisExpr"
                                        /\ CalleeOf(k).class = f.class /\ IsInBodyOf(k, f)}}

\* What a constructor or destructor calls in the end.
Reached(f) ==
    LET step(fs) == fs \cup UNION {OwnCalls(g) : g \in fs}
    IN step(step(step(OwnCalls(f))))

\* A declaration of a constructor or destructor is reported when, and only when,
\* a pure virtual method of the class is called on the way, however far that way
\* is and however often the methods call each other.  It does not matter which of
\* them are defined in the class: where one is declared there and defined behind
\* it, both places are reported.
PureVirtualCallsAreFound ==
    (matched /\ ~stopped /\ "virtual-call-ctor" \in requestedChecks) =>
        \A i \in Nodes :
            Kind(i) \in {"CXXConstructorDecl", "CXXDestructorDecl"} =>
                (Reported("virtual-call-ctor", i, "calls pure virtual") <=> \E f \in Reached(FunctionOf(i)) : "pure" \in f.is)

\* A signature the check has proposed is not reported again.
NormalForm(tokens) == IF "(" \in SetOf(tokens) THEN normalizedSignature(tokens) ELSE normalizedType(tokens)
ProposedSignaturesAreNormal ==
    (matched /\ "connect-not-normalized" \in requestedChecks) =>
        \A i \in {j \in Nodes : TokensOf(j) # <<>>} :
            \A proposed \in {NormalForm(TokensOf(i))} : NormalForm(proposed) = proposed


\* A file says the same of itself with and without its included files; what
\* they say is only left out by the checks that can do without it.
IncludesChangeNothing ==
    matched =>
        \A k \in DOMAIN earlier :
            earlier[k].unit = [unit EXCEPT !.ignoreIncludedFiles = ~@] =>
                \A c \in requestedChecks :
                    LET of(said) == {r \in said : r[1] = c /\ (canIgnoreIncludes(c) => tree[r[2]].place = "main")}
                    IN of(earlier[k].reports) = of(reports)

\* What a check says of a file does not depend on the files before, but for the
\* two checks whose functions have statics.
EveryFileIsJudgedAlone ==
    matched =>
        \A k \in DOMAIN earlier :
            earlier[k].unit = unit =>
                LET of(said) == {r \in said : r[1] \notin {"old-style-connect", "reserve-candidates"}}
                IN of(earlier[k].reports) = of(reports)

\* The last argument with a class comes behind the last macro of a connection.
IsLeftBehind(i) ==
    /\ classifyConnect(i) \notin {"", "bogus"}
    /\ \E k \in DOMAIN Args(i) :
         /\ getBestDynamicClassType(Args(i)[k]) # ""
         /\ \A l \in DOMAIN Args(i) : isSignalOrSlot(Args(i)[l]) => l < k

\* The class of an argument outlives its call where a connection could not be
\* rewritten, or where it came behind the last macro, or was left by the file
\* before, and nowhere else.
ClassesAreForgotten ==
    \A instance \in DOMAIN lastRecordDecl :
        lastRecordDecl[instance] # "" =>
            \/ \E r \in reports : r[1] = "old-style-connect" /\ r[3] = "old style"
            \/ \E i \in Walked : Instance(i) = instance /\ IsLeftBehind(i)
            \/ earlier # <<>> /\ earlier[Len(earlier)].lastRecordDecl[instance] # ""
=============================================================================
