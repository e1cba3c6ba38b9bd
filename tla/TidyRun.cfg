SPECIFICATION Spec
CONSTANTS
    Checks <- MCChecks
    CallbackChecks <- MCCallbackChecks
    Files <- ThreeFiles
CHECK_DEADLOCK FALSE
INVARIANT TypeOK
INVARIANT NoCheckWalksTwice
INVARIANT TheWorkerHasItsContext
INVARIANT FirstFileIsChecked
