SPECIFICATION Spec
CONSTANT MaxDepth = 6
INVARIANT TypeOK
INVARIANT CallsFindEverything
INVARIANT TracePaired
PROPERTY ContextKept
CHECK_DEADLOCK FALSE
