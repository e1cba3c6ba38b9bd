SPECIFICATION Spec
CONSTANTS
    t1 = t1
    t2 = t2
    TUs = {t1, t2}
    NoTU = NoTU
    Nobody = Nobody
    HintLists <- SomeHints
    MaxDiagnostics = 2
    Configs <- Processes
CHECK_DEADLOCK FALSE
INVARIANTS TypeOK FilesHoldTheirWarnings CompilerSeesEverything
PROPERTY EveryTranslationUnitEnds
