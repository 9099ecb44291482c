SPECIFICATION FairSpec
CONSTANTS
    Port = {p1, p2}
    Dest = {d1, d2}
    Slot = {1, 2, 3}
    Overlap = TRUE
    UdpIdle = 1
    RxCap = 2
    FrameCap = 3
    MaxSent = 4
    MaxNow = 3
INVARIANTS
    RepliesToAsker
