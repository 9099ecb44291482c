SPECIFICATION Spec
CONSTANTS
    V4Bits = 2
    V6Bits = 4
    MappedHigh <- MCMappedHigh
    Letters = {n1, n2}
    Component = {"a", "A", "b", "w", "0", ".."}
    Lower <- MCLower
    BLANK = "w"
    NUL = "0"
    UP = ".."
    Resolve <- MCResolve
    MinMemoryMb = 128
    MaxNameLen = 5
    MaxFramePayload = 2
    Entry <- MCEntry
    Policies <- MCPolicies
    ProbePath <- MCProbePath
    Question <- MCQuestion
    Resolved <- MCResolved
    Stream <- MCStream
    Segment <- MCSegment
INVARIANTS
    DeniedIsAbsent
CHECK_DEADLOCK FALSE
