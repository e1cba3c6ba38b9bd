SPECIFICATION Spec
CONSTANT Sources <- NestedSections
CHECK_DEADLOCK FALSE
INVARIANT NestedSectionsStayNested
