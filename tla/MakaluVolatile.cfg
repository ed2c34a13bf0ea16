SPECIFICATION Spec
CONSTANT Kinds = {"index", "wide", "local", "core", "mark", "sizes"}
INVARIANT IndexFindsHeaders
INVARIANT ObjectsConserved
INVARIANT MarksReachable
PROPERTY MarkingEnds
CHECK_DEADLOCK FALSE
