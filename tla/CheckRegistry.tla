---------------------------- MODULE CheckRegistry ----------------------------
(***************************************************************************)
(* Checks.h: how each check is registered, and what the checks answer when    *)
(* the walk asks them about a declaration or a statement.                   *)
(***************************************************************************)
EXTENDS LoopChecks, ContainerChecks, ConnectChecks, ClassChecks, FunctionChecks, ExpressionChecks, StringChecks,
        PreprocessorChecks

\* Visits statements, declarations or both; can do without included files or not.
StmtChecks ==
    {"container-inside-loop", "detaching-member", "isempty-vs-count", "reserve-candidates", "connect-non-signal",
     "connect-not-normalized", "container-anti-pattern", "lambda-in-connect", "lambda-unique-connection",
     "strict-iterators", "unused-non-trivial-variable", "writing-to-temporary", "connect-3arg-lambda",
     "detaching-temporary", "foreach", "incorrect-emit", "install-event-filter", "non-pod-global-static", "post-event",
     "qdeleteall", "range-loop-detach", "range-loop-reference", "returning-data-from-temporary", "old-style-connect",
     "qstring-allocations", "returning-void-expression", "use-chrono-in-qtimer", "qproperty-without-notify",
     "qstring-arg", "unneeded-cast", "implicit-casts", "assert-with-side-effects", "qstring-ref", "qgetenv",
     "qfileinfo-exists", "qstring-insensitive-allocation", "qlatin1string-non-ascii", "qstring-left", "jni-signatures",
     "qbytearray-conversion-to-c-style", "qstring-varargs", "qvariant-template-instantiation", "tr-non-literal"}
StmtChecksOfIncludes ==
    {"temporary-iterator", "modernize-overloaded-connects", "rule-of-two-soft", "skipped-base-method",
     "wrong-qevent-cast", "empty-qstringliteral", "qcolor-from-literal", "use-static-qregularexpression",
     "modernize-list-initialization", "qdatetime-utc", "use-arrow-operator-instead-of-data", "lowercase-qml-type-name",
     "qstring-comparison-to-implicit-char", "wrong-qglobalstatic", "raw-environment-function",
     "no-module-include"}
DeclChecks == {"mutable-container-key", "overridden-signal", "child-event-qobject-cast", "sanitize-inline-keyword"}
DeclChecksOfIncludes ==
    {"qrequiredresult-candidates", "signal-with-return-value", "connect-by-name", "overloaded-signal", "virtual-signal",
     "base-class-event", "copyable-polymorphic", "ctor-missing-parent-argument", "missing-qobject-macro",
     "missing-typeinfo", "rule-of-three", "static-pmf", "virtual-call-ctor", "fully-qualified-moc-types",
     "heap-allocated-small-trivial-type", "unexpected-flag-enumerator-value", "used-qunused-variable",
     "cache-model-rolenames", "qmap-with-pointer-key", "qhash-with-char-pointer-key", "global-const-char-pointer",
     "qhash-namespace"}
MixedChecks ==
    {"const-signal-or-slot", "function-args-by-ref", "function-args-by-value", "auto-unexpected-qstringbuilder"}
MixedChecksOfIncludes == {"thread-with-slots"}

\* It looks at the typedefs of system headers, too.
TypedefChecks == {"qproperty-type-mismatch"}

\* Three of them visit nothing; the statements no-module-include visits say nothing.
PreprocessorCallbacks ==
    {"qproperty-without-notify", "ifndef-define-typo", "qproperty-type-mismatch", "fully-qualified-moc-types",
     "no-module-include", "qenums", "qt-keyword-emit"}

\* AST matchers; one is registered as a visitor as well, which does nothing.
Matchers == {"readlock-detaching", "unused-result-check", "compare-member-check", "qcolor-from-literal"}

Checks == UNION {StmtChecks, StmtChecksOfIncludes, DeclChecks, DeclChecksOfIncludes, MixedChecks,
                 MixedChecksOfIncludes, TypedefChecks, PreprocessorCallbacks, Matchers}

visitStmts == UNION {StmtChecks, StmtChecksOfIncludes, MixedChecks, MixedChecksOfIncludes, {"unused-result-check"}}
visitDecls == UNION {DeclChecks, DeclChecksOfIncludes, MixedChecks, MixedChecksOfIncludes, TypedefChecks}
visitAllTypedefDecls == TypedefChecks

\* Mutant: -ignore-included-files reaches every check.
canIgnoreIncludes_All(check) == TRUE

canIgnoreIncludes(check) == check \in UNION {StmtChecks, DeclChecks, MixedChecks, {"unused-result-check", "compare-member-check"}}

-----------------------------------------------------------------------------
(* CheckBase::VisitStmt, CheckBase::VisitDecl and the matchers.             *)

CheckStmt(check, i) ==
    CASE check = "container-inside-loop" -> ContainerInsideLoop_VisitStmt(i)
      [] check = "detaching-member" -> DetachingMember_VisitStmt(i)
      [] check = "isempty-vs-count" -> IsEmptyVSCount_VisitStmt(i)
      [] check = "reserve-candidates" -> ReserveCandidates_VisitStmt(i)
      [] check = "connect-non-signal" -> ConnectNonSignal_VisitStmt(i)
      [] check = "connect-not-normalized" -> ConnectNotNormalized_VisitStmt(i)
      [] check = "container-anti-pattern" -> ContainerAntiPattern_VisitStmt(i)
      [] check = "lambda-in-connect" -> LambdaInConnect_VisitStmt(i)
      [] check = "lambda-unique-connection" -> LambdaUniqueConnection_VisitStmt(i)
      [] check = "strict-iterators" -> StrictIterators_VisitStmt(i)
      [] check = "unused-non-trivial-variable" -> UnusedNonTrivialVariable_VisitStmt(i)
      [] check = "writing-to-temporary" -> WritingToTemporary_VisitStmt(i)
      [] check = "connect-3arg-lambda" -> Connect3ArgLambda_VisitStmt(i)
      [] check = "detaching-temporary" -> DetachingTemporary_VisitStmt(i)
      [] check = "foreach" -> Foreach_VisitStmt(i)
      [] check = "incorrect-emit" -> IncorrectEmit_VisitStmt(i)
      [] check = "install-event-filter" -> InstallEventFilter_VisitStmt(i)
      [] check = "non-pod-global-static" -> NonPodGlobalStatic_VisitStmt(i)
      [] check = "post-event" -> PostEvent_VisitStmt(i)
      [] check = "qdeleteall" -> QDeleteAll_VisitStmt(i)
      [] check = "range-loop-detach" -> RangeLoopDetach_VisitStmt(i)
      [] check = "range-loop-reference" -> RangeLoopReference_VisitStmt(i)
      [] check = "returning-data-from-temporary" -> ReturningDataFromTemporary_VisitStmt(i)
      [] check = "old-style-connect" -> OldStyleConnect_VisitStmt(i)
      [] check = "qstring-allocations" -> QStringAllocations_VisitStmt(i)
      [] check = "returning-void-expression" -> ReturningVoidExpression_VisitStmt(i)
      [] check = "use-chrono-in-qtimer" -> UseChronoInQTimer_VisitStmt(i)
      [] check = "temporary-iterator" -> TemporaryIterator_VisitStmt(i)
      [] check = "modernize-overloaded-connects" -> ModernizeOverloadedConnects_VisitStmt(i)
      [] check = "rule-of-two-soft" -> RuleOfTwoSoft_VisitStmt(i)
      [] check = "skipped-base-method" -> SkippedBaseMethod_VisitStmt(i)
      [] check = "qstring-arg" -> QStringArg_VisitStmt(i)
      [] check = "unneeded-cast" -> UnneededCast_VisitStmt(i)
      [] check = "implicit-casts" -> ImplicitCasts_VisitStmt(i)
      [] check = "wrong-qevent-cast" -> WrongQEventCast_VisitStmt(i)
      [] check = "const-signal-or-slot" -> ConstSignalOrSlot_VisitStmt(i)
      [] check = "function-args-by-ref" -> FunctionArgsByRef_VisitStmt(i)
      [] check = "function-args-by-value" -> FunctionArgsByValue_VisitStmt(i)
      [] check = "thread-with-slots" -> ThreadWithSlots_VisitStmt(i)
      [] check = "assert-with-side-effects" -> AssertWithSideEffects_VisitStmt(i)
      [] check = "qstring-ref" -> StringRefCandidates_VisitStmt(i)
      [] check = "qgetenv" -> QGetEnv_VisitStmt(i)
      [] check = "empty-qstringliteral" -> EmptyQStringliteral_VisitStmt(i)
      [] check = "qcolor-from-literal" -> QColorFromLiteral_VisitStmt(i)
      [] check = "use-static-qregularexpression" -> UseStaticQRegularExpression_VisitStmt(i)
      [] check = "modernize-list-initialization" -> ModernizeListInitialization_VisitStmt(i)
      [] check = "qdatetime-utc" -> QDateTimeUtc_VisitStmt(i)
      [] check = "use-arrow-operator-instead-of-data" -> UseArrowOperatorInsteadOfData_VisitStmt(i)
      [] check = "auto-unexpected-qstringbuilder" -> AutoUnexpectedQStringBuilder_VisitStmt(i)
      [] check = "qfileinfo-exists" -> QFileInfoExists_VisitStmt(i)
      [] check = "qstring-insensitive-allocation" -> QStringInsensitiveAllocation_VisitStmt(i)
      [] check = "qlatin1string-non-ascii" -> QLatin1StringNonAscii_VisitStmt(i)
      [] check = "qstring-left" -> QStringLeft_VisitStmt(i)
      [] check = "jni-signatures" -> JniSignatures_VisitStmt(i)
      [] check = "qbytearray-conversion-to-c-style" -> QBytearrayConversionToCStyle_VisitStmt(i)
      [] check = "qstring-varargs" -> QStringVarargs_VisitStmt(i)
      [] check = "qvariant-template-instantiation" -> QVariantTemplateInstantiation_VisitStmt(i)
      [] check = "tr-non-literal" -> TrNonLiteral_VisitStmt(i)
      [] check = "lowercase-qml-type-name" -> LowercaseQMlTypeName_VisitStmt(i)
      [] check = "qstring-comparison-to-implicit-char" -> QStringComparisonToImplicitChar_VisitStmt(i)
      [] check = "wrong-qglobalstatic" -> WrongQGlobalStatic_VisitStmt(i)
      [] check = "raw-environment-function" -> RawEnvironmentFunction_VisitStmt(i)
      [] OTHER -> Silence

CheckDecl(check, i) ==
    CASE check = "mutable-container-key" -> MutableContainerKey_VisitDecl(i)
      [] check = "overridden-signal" -> OverriddenSignal_VisitDecl(i)
      [] check = "child-event-qobject-cast" -> ChildEventQObjectCast_VisitDecl(i)
      [] check = "qrequiredresult-candidates" -> QRequiredResultCandidates_VisitDecl(i)
      [] check = "signal-with-return-value" -> SignalWithReturnValue_VisitDecl(i)
      [] check = "connect-by-name" -> ConnectByName_VisitDecl(i)
      [] check = "overloaded-signal" -> OverloadedSignal_VisitDecl(i)
      [] check = "virtual-signal" -> VirtualSignal_VisitDecl(i)
      [] check = "base-class-event" -> BaseClassEvent_VisitDecl(i)
      [] check = "copyable-polymorphic" -> CopyablePolymorphic_VisitDecl(i)
      [] check = "ctor-missing-parent-argument" -> CtorMissingParentArgument_VisitDecl(i)
      [] check = "missing-qobject-macro" -> MissingQObjectMacro_VisitDecl(i)
      [] check = "missing-typeinfo" -> MissingTypeInfo_VisitDecl(i)
      [] check = "rule-of-three" -> RuleOfThree_VisitDecl(i)
      [] check = "static-pmf" -> StaticPmf_VisitDecl(i)
      [] check = "virtual-call-ctor" -> VirtualCallCtor_VisitDecl(i)
      [] check = "qproperty-type-mismatch" -> QPropertyTypeMismatch_VisitDecl(i)
      [] check = "fully-qualified-moc-types" -> FullyQualifiedMocTypes_VisitDecl(i)
      [] check = "heap-allocated-small-trivial-type" -> HeapAllocatedSmallTrivialType_VisitDecl(i)
      [] check = "unexpected-flag-enumerator-value" -> UnexpectedFlagEnumeratorValue_VisitDecl(i)
      [] check = "const-signal-or-slot" -> ConstSignalOrSlot_VisitDecl(i)
      [] check = "function-args-by-ref" -> FunctionArgsByRef_VisitDecl(i)
      [] check = "function-args-by-value" -> FunctionArgsByValue_VisitDecl(i)
      [] check = "thread-with-slots" -> ThreadWithSlots_VisitDecl(i)
      [] check = "used-qunused-variable" -> UsedQUnusedVariable_VisitDecl(i)
      [] check = "cache-model-rolenames" -> CacheModelRolenames_VisitDecl(i)
      [] check = "auto-unexpected-qstringbuilder" -> AutoUnexpectedQStringBuilder_VisitDecl(i)
      [] check = "qmap-with-pointer-key" -> QMapWithPointerKey_VisitDecl(i)
      [] check = "qhash-with-char-pointer-key" -> QHashWithCharPointerKey_VisitDecl(i)
      [] check = "global-const-char-pointer" -> GlobalConstCharPointer_VisitDecl(i)
      [] check = "qhash-namespace" -> QHashNamespace_VisitDecl(i)
      [] check = "sanitize-inline-keyword" -> SanitizeInlineKeyword_VisitDecl(i)
      [] OTHER -> Silence

\* The callbacks of the preprocessor.
CheckDirective(check, d) ==
    CASE check = "qproperty-without-notify" -> QPropertyWithoutNotify_VisitMacroExpands(d)
      [] check = "ifndef-define-typo" -> IfndefDefineTypo_maybeWarn(d)
      [] check = "no-module-include" -> NoModuleInclude_VisitInclusionDirective(d)
      [] check = "qenums" -> QEnums_VisitMacroExpands(d)
      [] check = "qt-keyword-emit" -> QtKeywordEmit_VisitMacroExpands(d)
      [] OTHER -> Silence

Match(check, i) ==
    CASE check = "readlock-detaching" -> ReadlockDetaching_Match(i)
      [] check = "unused-result-check" -> UnusedResultCheck_Match(i)
      [] check = "compare-member-check" -> CompareMemberCheck_Match(i)
      [] check = "qcolor-from-literal" -> QColorFromLiteral_Match(i)
      [] OTHER -> Silence

-----------------------------------------------------------------------------
(* What checks remember, from node to node and, as statics of functions, from *)
(* one translation unit to the next.                                       *)

heard == <<m_lastIsGadget, m_lastIfndef, m_qproperties, m_qgadgetMacroLocations>>
members == <<m_lastForStmt, m_foundReserves, m_typeInfos, m_hasAddedMocFile, m_typedefMap, m_hasInsertedInclude,
             m_alreadyProcessedChainedCalls, m_alreadyCheckedOperatorCalls, heard>>
statics == <<nonComplexOnesCache, complexOnesCache, lastRecordDecl>>

MembersInit ==
    /\ m_lastForStmt = 0 /\ m_foundReserves = {} /\ m_typeInfos = {}
    /\ m_alreadyProcessedChainedCalls = {} /\ m_alreadyCheckedOperatorCalls = {}
    /\ m_hasAddedMocFile = FALSE /\ m_hasInsertedInclude = FALSE
    /\ m_lastIsGadget = FALSE /\ m_lastIfndef = <<>>
    /\ m_qproperties = {} /\ m_typedefMap = <<>> /\ m_qgadgetMacroLocations = {}

\* Mutant: the checks are those of the file before.
FreshMembers_Kept == UNCHANGED members

\* New checks are made for every file.
FreshMembers ==
    /\ m_lastForStmt' = 0 /\ m_foundReserves' = {} /\ m_typeInfos' = {}
    /\ m_alreadyProcessedChainedCalls' = {} /\ m_alreadyCheckedOperatorCalls' = {}
    /\ m_hasAddedMocFile' = FALSE /\ m_hasInsertedInclude' = FALSE
    /\ m_lastIsGadget' = FALSE /\ m_lastIfndef' = <<>>
    /\ m_qproperties' = {} /\ m_typedefMap' = <<>> /\ m_qgadgetMacroLocations' = {}

StaticsInit ==
    /\ nonComplexOnesCache = {} /\ complexOnesCache = {}
    /\ lastRecordDecl = [instance \in {"call", "ctor"} |-> ""]

\* After the checks were asked about a statement, and about a declaration.
RememberStmt(called, i) ==
    /\ m_lastForStmt' = IF "foreach" \in called THEN LastForStmtAfter(i) ELSE m_lastForStmt
    /\ m_foundReserves' = IF "reserve-candidates" \in called THEN FoundReservesAfter(i) ELSE m_foundReserves
    /\ nonComplexOnesCache' = IF "reserve-candidates" \in called THEN StaticsAfter(i)[1] ELSE nonComplexOnesCache
    /\ complexOnesCache' = IF "reserve-candidates" \in called THEN StaticsAfter(i)[2] ELSE complexOnesCache
    /\ lastRecordDecl' = IF "old-style-connect" \in called THEN LastRecordDeclAfter(i) ELSE lastRecordDecl
    /\ m_hasInsertedInclude' = IF "use-chrono-in-qtimer" \in called THEN HasInsertedIncludeAfter(i) ELSE m_hasInsertedInclude
    /\ m_alreadyProcessedChainedCalls' =
          IF "qstring-arg" \in called THEN ProcessedCallsAfter(i) ELSE m_alreadyProcessedChainedCalls
    /\ m_alreadyCheckedOperatorCalls' =
          IF "modernize-list-initialization" \in called THEN AlreadyCheckedAfter(i) ELSE m_alreadyCheckedOperatorCalls
    /\ UNCHANGED <<m_typeInfos, m_hasAddedMocFile, m_typedefMap, heard>>

RememberDecl(called, i) ==
    /\ m_typeInfos' = IF "missing-typeinfo" \in called THEN TypeInfosAfter(i) ELSE m_typeInfos
    /\ m_hasAddedMocFile' = IF "missing-qobject-macro" \in called THEN HasAddedMocFileAfter(i) ELSE m_hasAddedMocFile
    /\ m_typedefMap' = IF "qproperty-type-mismatch" \in called THEN TypedefMapAfter(i) ELSE m_typedefMap
    /\ UNCHANGED <<m_lastForStmt, m_foundReserves, m_hasInsertedInclude, m_alreadyProcessedChainedCalls,
                   m_alreadyCheckedOperatorCalls, heard, statics>>

RememberDirective(called, d) ==
    /\ m_lastIsGadget' = IF "qproperty-without-notify" \in called THEN LastIsGadgetAfter(d) ELSE m_lastIsGadget
    /\ m_lastIfndef' = IF "ifndef-define-typo" \in called THEN LastIfndefAfter(d) ELSE m_lastIfndef
    /\ m_qproperties' = IF "qproperty-type-mismatch" \in called THEN PropertiesAfter(d) ELSE m_qproperties
    /\ m_qgadgetMacroLocations' =
          IF "fully-qualified-moc-types" \in called THEN registerQ_GADGET(d) ELSE m_qgadgetMacroLocations
    /\ UNCHANGED <<m_lastForStmt, m_foundReserves, m_typeInfos, m_hasAddedMocFile, m_typedefMap, m_hasInsertedInclude,
                   m_alreadyProcessedChainedCalls, m_alreadyCheckedOperatorCalls, statics>>
=============================================================================
