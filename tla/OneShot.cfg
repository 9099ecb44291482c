SPECIFICATION SessionFairSpec
CONSTANTS
    None = None
    Main = Main
    Caller = {Main}
    Code = {0, 1}
    ConnectBudget = 3
    RetryInterval = 1
INVARIANTS
    NoVmLeft
    ExitTruthful
    NoStrayConnection
PROPERTIES
    ConnectUsesItsBudget
    SessionEnds
CHECK_DEADLOCK FALSE
