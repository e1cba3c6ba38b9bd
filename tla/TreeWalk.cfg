SPECIFICATION Spec
CONSTANTS
    MaxNodes = 60
    Jobs <- AllJobs
CHECK_DEADLOCK FALSE
INVARIANTS TypeOK ConstructorEmitsAreWarned VoidReturnsAreWarned ParentsAreKnown PureVirtualCallsAreFound ProposedSignaturesAreNormal  IncludesChangeNothing EveryFileIsJudgedAlone ClassesAreForgotten
