SPECIFICATION Spec
CONSTANTS
    Proc = {p1, p2, p3}
    None = None
    PromptStealers = FALSE
INVARIANTS
    MutualExclusion
CHECK_DEADLOCK FALSE
