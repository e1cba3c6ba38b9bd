SPECIFICATION Spec
CONSTANT Sources <- FewSources
CHECK_DEADLOCK FALSE
INVARIANTS TypeOK TypeIsTheDeclaredOne ScriptableIsSeen
