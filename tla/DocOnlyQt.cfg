SPECIFICATION Spec
CONSTANTS
    t1 = t1
    t2 = t2
    TUs = {t1, t2}
    NoTU = NoTU
    Nobody = Nobody
    HintLists <- NoHints
    MaxDiagnostics = 1
    Configs <- QtAndNonQt
CHECK_DEADLOCK FALSE
INVARIANT OnlyQtFilesAreWarnedAbout
