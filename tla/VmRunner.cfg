SPECIFICATION RunnerFairSpec
CONSTANTS
    c1 = c1
    c2 = c2
    c3 = c3
    None = None
    Caller = {c1, c2, c3}
INVARIANTS
    OrphanedOnlyByFailedStop
    StateTellsMachine
PROPERTIES
    ImplementsLifecycle
    CallsReturn
    DropJoins
CHECK_DEADLOCK FALSE
