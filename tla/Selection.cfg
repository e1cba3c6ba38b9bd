SPECIFICATION Spec
CONSTANTS
    c0 = c0
    c1 = c1
    c2 = c2
    manual = manual
    fix0 = fix0
    Checks = {c0, c1, c2, manual}
    LevelOf <- FourLevels
    FixitsOf <- OneFixit
    NoName = NoName
    NoEnv = NoEnv
    AllChecks = AllChecks
    Envs <- SomeEnvs
    PluginArgs <- SomeArgs
    CheckLists <- SomeLists
    MaxRequests = 2
CHECK_DEADLOCK FALSE
INVARIANTS TypeOK AnswersDoNotDependOnHistory AcceptedRequestsAreMet RefusedRequestsAreHopeless
