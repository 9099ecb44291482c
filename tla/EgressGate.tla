----------------------------- MODULE EgressGate -----------------------------
(***************************************************************************)
(* The event loop of vz_net/src/gate.rs: one thread that owns the filter,  *)
(* the four NAT tables and the DNS proxy, working beside resolver threads, *)
(* connect threads, a guest that may send any frame at any moment, and a   *)
(* clock.  A round of the loop is a sequence of phases                     *)
(*                                                                         *)
(*   top -> drain -> dns -> replies -> datagrams -> streams -> top         *)
(*                                                                         *)
(* and other threads and the clock may move between any two steps of it.   *)
(* The embedded TCP/IP stack is outside src/: here it only hands queries   *)
(* to the DNS socket and sockets to the tables.                            *)
(***************************************************************************)
EXTENDS EgressFilter, FiniteSets, Sequences

CONSTANTS
    HostLocal,    \* addresses is_relayable refuses, as they are listed there:
                  \* host-local, metadata, interface and the gate's own ones
    AnswerTtl,    \* DNS_ANSWER_TTL
    Resolution,   \* the sets of addresses a host lookup may return
    QueryId,      \* identities of the queries outstanding at a time
    TcpPort, UdpPort, EchoId,  \* guest ports and echo ids, by protocol
    Socket,       \* slots of the stack's socket set
    MaxTcpFlows, MaxUdpFlows, MaxIcmpFlows, MaxInflightDns,
    DnsRxCap,     \* datagrams the DNS socket can hold
    DnsTxCap,     \* answers the DNS socket can hold
    UdpIdle,      \* udp_idle
    MaxNow        \* bound on the clock

ASSUME DestAssumption ==
    /\ HostLocal \subseteq Dest
    /\ Resolution \subseteq SUBSET Dest

ASSUME CapAssumption ==
    /\ MaxTcpFlows \in Nat
    /\ MaxUdpFlows \in Nat
    /\ MaxIcmpFlows \in Nat
    /\ MaxInflightDns \in Nat
    /\ DnsRxCap \in Nat
    /\ DnsTxCap \in Nat

\* What the guest is told an answer is good for never outlives the grant
\* (DNS_ANSWER_TTL is 60 s, MAX_DNS_TTL is 300 s).
ASSUME TimeAssumption ==
    /\ AnswerTtl \in Nat
    /\ AnswerTtl <= MaxTtl
    /\ UdpIdle \in Nat
    /\ MaxNow \in Nat

VARIABLES
    now,          \* the monotonic clock
    phase,        \* where the loop is
    shutdown,     \* the flag Gate::drop sets
    grants,       \* EgressFilter::dynamic
    dnsRx,        \* queries the stack holds for the DNS socket
    inflightDns,  \* inflight_dns
    resolving,    \* queries a resolver thread is working on
    dnsReplies,   \* the channel from the resolver threads
    dnsTx,        \* answers in the DNS socket, which the next poll may send
    sockets,      \* occupied slots of the socket set, the DNS ones left out
    flowKeys,     \* flow_keys: TCP key -> socket
    flows,        \* flows: socket -> TCP flow
    udpFlows,     \* udp_flows: key -> flow
    icmpFlows,    \* icmp_flows: key -> last activity
    learned,      \* history: addresses lookups of allow-listed names returned
    answered      \* history: what the guest was told, and when

dnsVars  == <<dnsRx, inflightDns, resolving, dnsReplies, dnsTx, answered, learned>>
tcpVars  == <<flowKeys, flows>>
dgramVars == <<udpFlows, icmpFlows>>
loopVars == <<now, phase, shutdown>>
vars == <<now, phase, shutdown, grants, dnsRx, inflightDns, resolving,
          dnsReplies, dnsTx, sockets, flowKeys, flows, udpFlows, icmpFlows,
          learned, answered>>

-----------------------------------------------------------------------------
Phase == {"top", "drain", "dns", "replies", "datagrams", "streams", "stopped"}

Query   == [id : QueryId, name : Name]
Reply   == [query : Query, ips : SUBSET Dest]
TcpKey  == [port : TcpPort, dest : Dest]
UdpKey  == [port : UdpPort, dest : Dest]
IcmpKey == [port : EchoId, dest : Dest]

\* FlowState, with the channel of the connect thread folded in: nothing sent
\* yet, a stream sent, an error sent; "relaying" once the loop took a stream.
FlowState == {"connecting", "connected", "refused", "relaying"}
TcpFlow == [key : TcpKey, state : FlowState]
UdpFlow == [socket : Socket, last : Nat]

\* A response in the DNS socket, with the instant its addresses entered the
\* filter; an address the guest was told, with that instant and its own.
Response == [ips : SUBSET Dest, granted : Nat]
Answer   == [dest : Dest, granted : Nat, told : Nat]

\* A HashMap: a function whose domain is the set of keys present.
IsMap(m, K, V) == DOMAIN m \subseteq K /\ \A k \in DOMAIN m : m[k] \in V
NoKeys == [k \in {} |-> {}]
Insert(m, k, v) == [x \in DOMAIN m \union {k} |-> IF x = k THEN v ELSE m[x]]
Remove(m, S) == [x \in DOMAIN m \ S |-> m[x]]

TypeOK ==
    /\ now \in Nat \ {0}
    /\ phase \in Phase
    /\ shutdown \in BOOLEAN
    /\ grants \in Grants
    /\ dnsRx \in Seq(Query)
    /\ inflightDns \in Nat
    /\ resolving \in SUBSET Query
    /\ dnsReplies \in Seq(Reply)
    /\ dnsTx \in Seq(Response)
    /\ sockets \in SUBSET Socket
    /\ IsMap(flowKeys, TcpKey, Socket)
    /\ IsMap(flows, Socket, TcpFlow)
    /\ IsMap(udpFlows, UdpKey, UdpFlow)
    /\ IsMap(icmpFlows, IcmpKey, Nat)
    /\ learned \in SUBSET Dest
    /\ answered \in SUBSET Answer

Init ==
    /\ now = 1
    /\ phase = "top"
    /\ shutdown = FALSE
    /\ grants = NewFilter
    /\ dnsRx = <<>>
    /\ inflightDns = 0
    /\ resolving = {}
    /\ dnsReplies = <<>>
    /\ dnsTx = <<>>
    /\ sockets = {}
    /\ flowKeys = NoKeys
    /\ flows = NoKeys
    /\ udpFlows = NoKeys
    /\ icmpFlows = NoKeys
    /\ learned = {}
    /\ answered = {}

-----------------------------------------------------------------------------
\* GateConfig::is_relayable, on the address as it is written: unlike the
\* allowlist it does not normalize.
IsRelayable(d) == d \notin HostLocal

Admits_AllowlistOnly(d) == AllowsIp(grants, d, now)

Admits_GuardOnly(d) == IsRelayable(d)

\* A new flow to d passes the allowlist and the host-local guard.
Admits(d) == AllowsIp(grants, d, now) /\ IsRelayable(d)

\* `while !shutdown`: the only place where the flag is read.
StartRound ==
    /\ phase = "top"
    /\ ~shutdown
    /\ phase' = "drain"
    /\ UNCHANGED <<now, shutdown, grants, dnsVars, sockets, tcpVars, dgramVars>>

StopLoop_AfterFlows ==
    /\ phase = "top"
    /\ shutdown
    /\ DOMAIN flows = {}
    /\ phase' = "stopped"
    /\ UNCHANGED <<now, shutdown, grants, dnsVars, sockets, tcpVars, dgramVars>>

\* The loop returns and drops everything it owns.  Resolver and connect
\* threads are detached and may outlive it.
StopLoop ==
    /\ phase = "top"
    /\ shutdown
    /\ phase' = "stopped"
    /\ dnsRx' = <<>>
    /\ dnsReplies' = <<>>
    /\ dnsTx' = <<>>
    /\ sockets' = {}
    /\ flowKeys' = NoKeys
    /\ flows' = NoKeys
    /\ udpFlows' = NoKeys
    /\ icmpFlows' = NoKeys
    /\ UNCHANGED <<now, shutdown, grants, inflightDns, resolving, learned, answered>>

-----------------------------------------------------------------------------
(***************************************************************************)
(* Draining the transport.  The guest chooses each frame as it is read; a  *)
(* frame that is denied, over a cap or of no interest changes nothing here *)
(* (a denied SYN is answered with a RST), so only the others are actions.  *)
(***************************************************************************)
TcpRoom_OffByOne == Cardinality(DOMAIN flows) <= MaxTcpFlows

\* TM-14: the NAT tables are bounded.
TcpRoom  == Cardinality(DOMAIN flows) < MaxTcpFlows
UdpRoom  == Cardinality(DOMAIN udpFlows) < MaxUdpFlows
IcmpRoom == Cardinality(DOMAIN icmpFlows) < MaxIcmpFlows

\* The slot a new socket gets, if one is free: the lowest in the code, so that
\* the choice depends on nothing but which ones are occupied.
FreeSlot == {s \in Socket \ sockets : s = CHOOSE x \in Socket \ sockets : TRUE}

\* A SYN of a connection that has no flow yet: a listener in the socket set and
\* a connect thread.
RecvSyn(p, d) ==
    LET key == [port |-> p, dest |-> d]
    IN  /\ phase = "drain"
        /\ key \notin DOMAIN flowKeys
        /\ Admits(d)
        /\ TcpRoom
        /\ \E s \in FreeSlot :
              /\ sockets' = sockets \union {s}
              /\ flowKeys' = Insert(flowKeys, key, s)
              /\ flows' = Insert(flows, s, [key |-> key, state |-> "connecting"])
        /\ UNCHANGED <<loopVars, grants, dnsVars, dgramVars>>

\* The first datagram of a flow opens a host socket and one of the stack's
\* (if either fails the datagram is dropped: no step).
RecvNewDatagram(p, d) ==
    LET key == [port |-> p, dest |-> d]
    IN  /\ phase = "drain"
        /\ key \notin DOMAIN udpFlows
        /\ UdpRoom
        /\ Admits(d)
        /\ \E s \in FreeSlot :
              /\ sockets' = sockets \union {s}
              /\ udpFlows' = Insert(udpFlows, key, [socket |-> s, last |-> now])
        /\ UNCHANGED <<loopVars, grants, dnsVars, tcpVars, icmpFlows>>

\* A datagram of a known flow refreshes it; neither the allowlist nor the
\* guard is asked again.
RecvNextDatagram(p, d) ==
    LET key == [port |-> p, dest |-> d]
    IN  /\ phase = "drain"
        /\ key \in DOMAIN udpFlows
        /\ udpFlows' = [udpFlows EXCEPT ![key].last = now]
        /\ UNCHANGED <<loopVars, grants, dnsVars, sockets, tcpVars, icmpFlows>>

\* An echo request passes the allowlist and the guard every time, a new flow
\* also the cap and a ping socket (no socket: dropped, no step).
RecvEcho(i, d) ==
    LET key == [port |-> i, dest |-> d]
    IN  /\ phase = "drain"
        /\ Admits(d)
        /\ key \in DOMAIN icmpFlows \/ IcmpRoom
        /\ icmpFlows' = Insert(icmpFlows, key, now)
        /\ UNCHANGED <<loopVars, grants, dnsVars, sockets, tcpVars, udpFlows>>

Elements(seq) == {seq[i] : i \in DOMAIN seq}

\* The stack hands a query for the gate's DNS address to the DNS socket.
\* Queries on their way differ in their id.
RecvQuery(q) ==
    /\ phase = "drain"
    /\ q.id \notin {x.id : x \in Elements(dnsRx) \union resolving}
    /\ q.id \notin {r.query.id : r \in Elements(dnsReplies)}
    /\ Len(dnsRx) < DnsRxCap
    /\ dnsRx' = Append(dnsRx, q)
    /\ UNCHANGED <<loopVars, grants, inflightDns, resolving, dnsReplies, dnsTx,
                   answered, learned, sockets, tcpVars, dgramVars>>

\* What the first n answers of the DNS socket tell the guest at this instant.
Tells(n) ==
    UNION {[dest : dnsTx[i].ips, granted : {dnsTx[i].granted}, told : {now}] : i \in 1..n}

\* recv has nothing more to give: iface.poll runs.  Answers queued in earlier
\* rounds leave, in order and as far as the stack knows the guest's link
\* address.  (The guest hears of no more than that: of the addresses of its
\* question's family, and of none in a frame that is lost.)
Poll ==
    /\ phase = "drain"
    /\ phase' = "dns"
    /\ \E n \in 0..Len(dnsTx) :
          /\ dnsTx' = SubSeq(dnsTx, n + 1, Len(dnsTx))
          /\ answered' = answered \union Tells(n)
    /\ UNCHANGED <<now, shutdown, grants, dnsRx, inflightDns, resolving, dnsReplies,
                   learned, sockets, tcpVars, dgramVars>>

-----------------------------------------------------------------------------
(***************************************************************************)
(* The DNS proxy: queries first, then the answers that have come in.       *)
(***************************************************************************)
LookupRoom == inflightDns < MaxInflightDns

\* A name that is not allow-listed is refused inline; a query over the cap
\* is dropped.  Either way it is gone.
RefuseOrDropQuery ==
    /\ phase = "dns"
    /\ dnsRx # <<>>
    /\ ~MatchesHostname(Head(dnsRx).name) \/ ~LookupRoom
    /\ dnsRx' = Tail(dnsRx)
    /\ UNCHANGED <<loopVars, grants, inflightDns, resolving, dnsReplies, dnsTx,
                   answered, learned, sockets, tcpVars, dgramVars>>

\* An allow-listed name gets a resolver thread.
StartLookup ==
    /\ phase = "dns"
    /\ dnsRx # <<>>
    /\ MatchesHostname(Head(dnsRx).name)
    /\ LookupRoom
    /\ dnsRx' = Tail(dnsRx)
    /\ inflightDns' = inflightDns + 1
    /\ resolving' = resolving \union {Head(dnsRx)}
    /\ UNCHANGED <<loopVars, grants, dnsReplies, dnsTx, answered, learned,
                   sockets, tcpVars, dgramVars>>

QueriesDone ==
    /\ phase = "dns"
    /\ dnsRx = <<>>
    /\ phase' = "replies"
    /\ UNCHANGED <<now, shutdown, grants, dnsVars, sockets, tcpVars, dgramVars>>

\* A resolver thread returns; nobody listens once the loop has stopped.
LookupDone(q, ips) ==
    /\ q \in resolving
    /\ resolving' = resolving \ {q}
    /\ learned' = IF q.name \in AllowedName THEN learned \union ips ELSE learned
    /\ dnsReplies' = IF phase = "stopped" THEN dnsReplies
                     ELSE Append(dnsReplies, [query |-> q, ips |-> ips])
    /\ UNCHANGED <<loopVars, grants, dnsRx, inflightDns, dnsTx, answered, sockets,
                   tcpVars, dgramVars>>

ReturnSlot_Never(n) == n

\* inflight_dns.saturating_sub(1)
ReturnSlot(n) == IF n > 0 THEN n - 1 ELSE 0

GrantsFor_KeepFirst(r, ips) ==
    ObserveEach(grants, r.query.name, {d \in ips : grants[Norm[d]] <= now}, AnswerTtl, now)

\* The filter learns the addresses of a reply, for the TTL the guest is told.
GrantsFor(r, ips) == ObserveEach(grants, r.query.name, ips, AnswerTtl, now)

\* Addresses the guard refuses leave the reply.
Relayable(ips) == {d \in ips : IsRelayable(d)}

\* Populate before answer: the others enter the filter, and then the response
\* is queued (or lost, if the DNS socket has no room).  The guest hears of it
\* at a later poll.
AnswerQuery ==
    /\ phase = "replies"
    /\ dnsReplies # <<>>
    /\ LET r   == Head(dnsReplies)
           ips == Relayable(r.ips)
       IN  /\ grants' = GrantsFor(r, ips)
           /\ \/ /\ Len(dnsTx) < DnsTxCap
                 /\ dnsTx' = Append(dnsTx, [ips |-> ips, granted |-> now])
              \/ UNCHANGED dnsTx
    /\ dnsReplies' = Tail(dnsReplies)
    /\ inflightDns' = ReturnSlot(inflightDns)
    /\ UNCHANGED <<loopVars, dnsRx, resolving, answered, learned, sockets, tcpVars,
                   dgramVars>>

RepliesDone ==
    /\ phase = "replies"
    /\ dnsReplies = <<>>
    /\ phase' = "datagrams"
    /\ UNCHANGED <<now, shutdown, grants, dnsVars, sockets, tcpVars, dgramVars>>

-----------------------------------------------------------------------------
(***************************************************************************)
(* Relaying and expiry.                                                    *)
(***************************************************************************)
SlotsAfter_Kept(freed) == sockets

\* sockets.remove
SlotsAfter(freed) == sockets \ freed

\* One pass over the UDP flows and one over the ping flows, with the same
\* instant: flows that moved a datagram are refreshed, then those that have
\* been idle for longer than the limit go, with their sockets.
RelayDatagrams ==
    /\ phase = "datagrams"
    /\ \E busyUdp \in SUBSET DOMAIN udpFlows, busyIcmp \in SUBSET DOMAIN icmpFlows :
         LET idleUdp == {k \in DOMAIN udpFlows \ busyUdp :
                            now - udpFlows[k].last > UdpIdle}
             idleIcmp == {k \in DOMAIN icmpFlows \ busyIcmp :
                            now - icmpFlows[k] > UdpIdle}
         IN  /\ udpFlows' = [k \in DOMAIN udpFlows \ idleUdp |->
                               IF k \in busyUdp THEN [udpFlows[k] EXCEPT !.last = now]
                               ELSE udpFlows[k]]
             /\ icmpFlows' = [k \in DOMAIN icmpFlows \ idleIcmp |->
                               IF k \in busyIcmp THEN now ELSE icmpFlows[k]]
             /\ sockets' = SlotsAfter({udpFlows[k].socket : k \in idleUdp})
    /\ phase' = "streams"
    /\ UNCHANGED <<now, shutdown, grants, dnsVars, tcpVars>>

\* A connect thread reports a stream or an error and ends (within 10 s).
ConnectDone(s, result) ==
    /\ s \in DOMAIN flows
    /\ flows[s].state = "connecting"
    /\ flows' = [flows EXCEPT ![s].state = result]
    /\ UNCHANGED <<loopVars, grants, dnsVars, sockets, flowKeys, dgramVars>>

FlowKeysAfter_Kept(finished) == flowKeys

\* flow_keys.remove(&flow.key) for every finished flow
FlowKeysAfter(finished) == Remove(flowKeys, {flows[s].key : s \in finished})

RefusedFlows_Ignored == {}

\* Flows whose connect thread reported an error (or died).
RefusedFlows == {s \in DOMAIN flows : flows[s].state = "refused"}

\* One pass over the TCP flows: a stream that has come is taken up, a failed
\* connect aborts the flow, a relaying flow whose guest side is done and
\* whose bytes are through is over (TcpRelay says when).  Finished flows
\* leave both tables and give their socket back.
RelayStreams ==
    /\ phase = "streams"
    /\ \E over \in SUBSET {s \in DOMAIN flows : flows[s].state = "relaying"} :
         LET finished == over \union RefusedFlows
         IN  /\ flows' = [s \in DOMAIN flows \ finished |->
                            IF flows[s].state = "connected"
                            THEN [flows[s] EXCEPT !.state = "relaying"] ELSE flows[s]]
             /\ flowKeys' = FlowKeysAfter(finished)
             /\ sockets' = SlotsAfter(finished)
    /\ phase' = "top"
    /\ UNCHANGED <<now, shutdown, grants, dnsVars, dgramVars>>

-----------------------------------------------------------------------------
\* Gate::drop sets the flag, then joins the loop.
RequestShutdown ==
    /\ ~shutdown
    /\ shutdown' = TRUE
    /\ UNCHANGED <<now, phase, grants, dnsVars, sockets, tcpVars, dgramVars>>

Tick ==
    /\ now < MaxNow
    /\ now' = now + 1
    /\ UNCHANGED <<phase, shutdown, grants, dnsVars, sockets, tcpVars, dgramVars>>

Loop ==
    \/ StartRound \/ StopLoop \/ Poll
    \/ RefuseOrDropQuery \/ StartLookup \/ QueriesDone
    \/ AnswerQuery \/ RepliesDone
    \/ RelayDatagrams \/ RelayStreams

Receive ==
    \/ \E p \in TcpPort, d \in Dest : RecvSyn(p, d)
    \/ \E p \in UdpPort, d \in Dest : RecvNewDatagram(p, d) \/ RecvNextDatagram(p, d)
    \/ \E i \in EchoId, d \in Dest : RecvEcho(i, d)
    \/ \E q \in Query : RecvQuery(q)

ResolverThread == \E q \in resolving, ips \in Resolution : LookupDone(q, ips)
ConnectThread == \E s \in Socket, result \in {"connected", "refused"} :
                    ConnectDone(s, result)

Next == Loop \/ Receive \/ ResolverThread \/ ConnectThread \/ RequestShutdown \/ Tick

Spec == Init /\ [][Next]_vars

(***************************************************************************)
(* The loop keeps going, the guest's frames run dry now and then (Poll is *)
(* one of the loop's steps), host lookups return, connects time out.       *)
(***************************************************************************)
Fairness ==
    /\ WF_vars(Loop)
    /\ \A q \in Query : WF_vars(\E ips \in Resolution : LookupDone(q, ips))
    /\ \A s \in Socket : WF_vars(\E result \in {"connected", "refused"} : ConnectDone(s, result))

FairSpec == Spec /\ Fairness

-----------------------------------------------------------------------------
(***************************************************************************)
(* Safety.                                                                 *)
(***************************************************************************)
\* inflight_dns counts exactly the lookups a resolver thread still works on
\* and those whose reply the loop has not taken: no slot leaks, none is
\* returned twice, and the saturating subtraction never saturates.
InflightExact ==
    phase # "stopped" =>
        inflightDns = Cardinality(resolving) + Len(dnsReplies)

\* TM-14: every NAT table, the connect threads (one per flow at most) and
\* the resolver threads stay within their caps.
Bounded ==
    /\ Cardinality(DOMAIN flows) <= MaxTcpFlows
    /\ Cardinality(DOMAIN udpFlows) <= MaxUdpFlows
    /\ Cardinality(DOMAIN icmpFlows) <= MaxIcmpFlows
    /\ inflightDns <= MaxInflightDns

\* flow_keys and flows are each other's inverse, so a retransmitted SYN finds
\* its flow and a finished flow does not block its port.
TablesAgree ==
    /\ \A k \in DOMAIN flowKeys : flowKeys[k] \in DOMAIN flows /\ flows[flowKeys[k]].key = k
    /\ \A s \in DOMAIN flows : flows[s].key \in DOMAIN flowKeys /\ flowKeys[flows[s].key] = s

\* Every occupied slot of the socket set belongs to exactly one live flow:
\* closed flows leave no socket behind and no two flows share one.
SocketsOwned ==
    /\ sockets = DOMAIN flows \union {udpFlows[k].socket : k \in DOMAIN udpFlows}
    /\ \A k \in DOMAIN udpFlows :
          /\ udpFlows[k].socket \notin DOMAIN flows
          /\ \A l \in DOMAIN udpFlows : udpFlows[l].socket = udpFlows[k].socket => l = k

\* Destinations the gate holds a NAT entry for.
Relayed ==
    {k.dest : k \in DOMAIN flowKeys \union DOMAIN udpFlows \union DOMAIN icmpFlows}

\* TM-01 over the whole life of a flow: the gate relays only to destinations
\* that the policy covers or a lookup of an allow-listed name returned at some
\* time, in a form that passes the guard, and to none that the guard lists in
\* the form in which the guest writes it.
OnlyListedEgress ==
    \A d \in Relayed :
        /\ d \notin HostLocal
        /\ Norm[d] \in StaticDest \union {Norm[x] : x \in learned \ HostLocal}

\* Populate before answer, as the guest sees it: from the moment it is told an
\* address, and for the TTL it is told less the time for which the answer was
\* queued, the gate admits that address.  (The grant's TTL runs from the instant
\* the filter was populated; the guest's from the later one.)
Lag(a) == a.told - a.granted

AnswersAdmitted ==
    \A a \in answered :
        now + Lag(a) < a.told + AnswerTtl => Admits(a.dest)

\* Nothing lingers: whatever the filter admits beyond the policy was looked up
\* for an allow-listed name, in a form that passes the guard, and is admitted
\* for at most one clamped TTL more.
GrantsAccounted ==
    \A d \in Dest : grants[d] > now =>
        /\ grants[d] <= now + ClampTtl(AnswerTtl)
        /\ \E x \in learned \ HostLocal : Norm[x] = d

\* How far TM-15 holds.  The guard is asked of the form as it is written, the
\* allowlist of the normal form: an address the guard lists enters the filter
\* only when a lookup returned another form of it, and a flow reaches one only
\* when the guest writes another form and the policy covers the address or a
\* lookup returned such a form.
HostOnlyMapped ==
    /\ \A d \in HostLocal : grants[d] > now => \E x \in learned : x # d /\ Norm[x] = d
    /\ \A d \in Relayed : Norm[d] \in HostLocal =>
          /\ d # Norm[d]
          /\ \/ Norm[d] \in StaticDest
             \/ \E x \in learned : x # Norm[x] /\ Norm[x] = Norm[d]

\* TM-15 as it is written ("it never relays to loopback, ... regardless of the
\* allowlist"), of the address that a destination stands for.
NeverReachesHost == \A d \in Relayed : Norm[d] \notin HostLocal

-----------------------------------------------------------------------------
(***************************************************************************)
(* What a step may not do, and what must happen.                           *)
(***************************************************************************)
\* The leases the filter's map stands for, as the time they still run.
Leases == [d \in Dest |-> IF grants[d] > now THEN grants[d] - now ELSE 0]

Promise == INSTANCE EgressLease WITH
    LeaseTime <- ClampTtl(AnswerTtl), known <- learned, lease <- Leases, open <- Relayed

\* The gate, with its phases, threads, caches and caps, does nothing but give
\* out leases on what was looked up and open flows under them (gate.rs 16-18:
\* "DNS never *grants* anything by itself - the connect-time IP check is the
\* control").
ImplementsLease == Promise!Spec

\* Dropping the gate joins the loop: a requested shutdown is reached from
\* every phase, with lookups and connects outstanding.
ShutdownCompletes == shutdown ~> phase = "stopped"

\* A flow does not wait for its upstream for ever: it is taken up or gone.
ConnectsSettle ==
    \A s \in Socket :
        (s \in DOMAIN flows /\ flows[s].state # "relaying")
            ~> (s \notin DOMAIN flows \/ flows[s].state = "relaying")
=============================================================================
