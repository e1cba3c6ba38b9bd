SPECIFICATION Spec
CONSTANTS
    a = a
    b = b
    Checks = {a, b}
    main = main
    header = header
    Files = {main, header}
    NoFile = NoFile
    MainFile = main
    NoRegex = NoRegex
    MaxLine = 1
    UnsignedWidth = 4
    Questions = {}
    MaxCalls = 2
    MaxManual = 1
    Sources <- SomeSources
    Configs <- SomeConfigs
CHECK_DEADLOCK FALSE
INVARIANTS TypeOK WantedWarningsAreReported MacroExpansionWarnsOnce ManualInterventionsAreKept SeverityIsTheDocumentedOne
