SPECIFICATION FairSpec
CONSTANTS
    MaxUp = 3
    MaxDown = 2
    RxCap = 2
    TxCap = 1
    UpCap = 1
    DownCap = 2
INVARIANTS
    BytesKept
PROPERTIES
    GuestBytesArrive
    FlowEnds
CHECK_DEADLOCK FALSE
