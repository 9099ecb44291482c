SPECIFICATION FairSpec
CONSTANTS
    Port = {p1, p2}
    Dest = {d1, d2}
    Slot = {1, 2}
    Overlap = FALSE
    UdpIdle = 1
    RxCap = 2
    FrameCap = 3
    MaxSent = 3
    MaxNow = 2
INVARIANTS
    RepliesToAsker
PROPERTIES
    DatagramsRelayed
