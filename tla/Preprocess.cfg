SPECIFICATION Spec
CONSTANTS
    qstring = qstring
    main_moc = main_moc
    Headers = {qstring}
    Moc = main_moc
    Versions <- AllVersions
    Plans <- SomePlans
    MaxSteps = 7
CHECK_DEADLOCK FALSE
INVARIANTS TypeOK VersionIsThatOfQt FunctionsAreBetweenTheirMacros IncludeSectionIsInTheMainFile OsTestsAreJudged
