CONSTANTS
    Creates = {c1, c2, c3}
    NoLock = NoLock
SPECIFICATION Spec
INVARIANT CreatesAreSerialized
