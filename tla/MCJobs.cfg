SPECIFICATION Spec
CONSTANTS
    Ids = {j1, j2}
    Callers = {c1, c2}
    Keys = {dir}
    None = None
INVARIANTS
    CancelIsNotACrash
PROPERTIES
    ImplementsJobLife
    OkIsReal
    KeyIsFreed
