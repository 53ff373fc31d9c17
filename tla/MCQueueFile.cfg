SPECIFICATION Spec
CONSTANTS
    Proc = {p1, p2, p3}
    Orig = Orig
    LockFile = LockFile
    None = None
INVARIANTS
    NoLostUpdate
    ReaderSeesWholeFile
PROPERTIES
    CommandsEnd
    ImplementsAtomicQueue
