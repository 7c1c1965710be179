SPECIFICATION FairSpec
CONSTANT Programs <- OncePrograms
INVARIANTS TypeOK SameValues AcceptsInStep
PROPERTY Completes
CHECK_DEADLOCK FALSE
