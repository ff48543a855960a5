SPECIFICATION Spec
CONSTANTS
    MemSize = 7
    MaxReq = 3
    NULL = NULL
CONSTRAINT BaseKept
INVARIANTS ExclusiveUse RingInOrder NoUnitLost
PROPERTY ImplementsPool
