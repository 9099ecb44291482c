SPECIFICATION Spec
CONSTANTS
    a4 = a4
    lo = lo
    loMapped = loMapped
    listed = listed
    other = other
    s1 = s1
    s2 = s2
    s3 = s3
    p1 = p1
    p2 = p2
    p3 = p3
    e1 = e1
    q1 = q1
    q2 = q2
    Dest <- MCDest
    Norm <- MCNorm
    StaticDest <- MCStaticDest
    Name <- MCName
    AllowedName <- MCAllowedName
    HostLocal <- MCHostLocal
    Resolution <- MCResolution
    QueryId = {q1, q2}
    TcpPort = {}
    UdpPort = {p1}
    EchoId = {}
    Socket = {s1, s2, s3}
    MinTtl = 1
    MaxTtl = 3
    AnswerTtl = 2
    MaxTcpFlows = 2
    MaxUdpFlows = 1
    MaxIcmpFlows = 1
    MaxInflightDns = 1
    DnsRxCap = 1
    DnsTxCap = 1
    UdpIdle = 0
    MaxNow = 2
INVARIANTS
    NeverReachesHost
CHECK_DEADLOCK FALSE
