SPECIFICATION Spec
CONSTANT Programs <- RereadPrograms
INVARIANT SameValues
CHECK_DEADLOCK FALSE
