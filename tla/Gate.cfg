SPECIFICATION FairSpec
CONSTANTS
    a4 = a4
    lo = lo
    loMapped = loMapped
    listed = listed
    other = other
    s1 = s1
    s2 = s2
    s3 = s3
    p1 = p1
    p2 = p2
    p3 = p3
    e1 = e1
    q1 = q1
    q2 = q2
    Dest <- MCDest
    Norm <- MCNorm
    StaticDest <- MCStaticDest
    Name <- MCName
    AllowedName <- MCAllowedName
    HostLocal <- MCHostLocal
    Resolution <- MCResolution
    QueryId = {q1, q2}
    TcpPort = {p1, p2, p3}
    UdpPort = {p1}
    EchoId = {e1}
    Socket = {s1, s2, s3}
    MinTtl = 1
    MaxTtl = 3
    AnswerTtl = 2
    MaxTcpFlows = 2
    MaxUdpFlows = 1
    MaxIcmpFlows = 1
    MaxInflightDns = 1
    DnsRxCap = 1
    DnsTxCap = 1
    UdpIdle = 0
    MaxNow = 3
ACTION_CONSTRAINT GuestBound
INVARIANTS
    InflightExact
    Bounded
    TablesAgree
    SocketsOwned
    OnlyListedEgress
    HostOnlyMapped
    GrantsAccounted
    AnswersAdmitted
PROPERTIES
    ImplementsLease
    ShutdownCompletes
    ConnectsSettle
CHECK_DEADLOCK FALSE
