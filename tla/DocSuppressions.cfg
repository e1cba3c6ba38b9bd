SPECIFICATION Spec
CONSTANTS
    a = a
    b = b
    Checks = {a, b}
    f1 = f1
    f2 = f2
    Files = {f1, f2}
    NoFile = NoFile
    MaxLine = 5
    Sources <- DocumentedSources
    Questions <- DocumentedQuestions
INVARIANT SomeDocumentedCommentSilences
