SPECIFICATION Spec
CONSTANTS
    a4 = a4
    aMapped = aMapped
    b4 = b4
    s4 = s4
    listed = listed
    other = other
    Dest <- MCDest
    Norm <- MCNorm
    StaticDest <- MCStaticDest
    Name <- MCName
    AllowedName <- MCAllowedName
    Ttl <- MCTtl
    MinTtl = 1
    MaxTtl = 3
    MaxNow = 6
    MaxLedger = 3
INVARIANTS
    AllowsIffInForce
