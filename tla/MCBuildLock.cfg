SPECIFICATION Spec
CONSTANTS
    Proc = {p1, p2, p3}
    None = None
    PromptStealers = TRUE
INVARIANTS
    MutualExclusion
PROPERTIES
    ImplementsExclusiveLock
    AbandonedLockIsBroken
CHECK_DEADLOCK FALSE
