-------------------------- MODULE EgressGateProofs --------------------------
(***************************************************************************)
(* The gate's safety for every number of ports, sockets and queries, every *)
(* policy and every cap, and that the gate implements EgressLease.         *)
(***************************************************************************)
EXTENDS EgressGate, FiniteSetTheorems, SequenceTheorems, TLAPS

\* A clamped TTL is a number between the two bounds, so never zero.
LEMMA ClampBounds ==
    ASSUME NEW ttl \in Nat
    PROVE  /\ ClampTtl(ttl) \in Nat
           /\ MinTtl <= ClampTtl(ttl)
           /\ ClampTtl(ttl) <= MaxTtl
           /\ 0 < ClampTtl(ttl)
           /\ ttl <= MaxTtl => ttl <= ClampTtl(ttl)
BY TtlAssumption DEF ClampTtl

\* The entry of one address after an observation.
LEMMA ObservedEntry ==
    ASSUME NEW g \in Grants, NEW D \in SUBSET Dest, NEW ttl \in Nat, NEW t \in Nat,
           NEW a \in Dest
    PROVE  LET expiry == t + ClampTtl(ttl)
               hit    == a \in {Norm[x] : x \in D}
               e      == Observed(g, D, ttl, t)[a]
           IN  /\ e \in Nat
               /\ hit => e >= expiry
               /\ g[a] > t => e >= g[a]
               /\ e > t => e = g[a] \/ (hit /\ e = expiry)
<1> DEFINE expiry == t + ClampTtl(ttl)
           hit == a \in {Norm[x] : x \in D}
           raised == IF hit /\ g[a] < expiry THEN expiry ELSE g[a]
<1>1. g[a] \in Nat /\ expiry \in Nat /\ expiry > t
  BY ClampBounds DEF Grants
<1>2. raised \in Nat
  BY <1>1
<1>3. Observed(g, D, ttl, t)[a] = IF raised > t THEN raised ELSE 0
  BY DEF Observed, Live, NoEntry
<1> QED
  BY <1>1, <1>2, <1>3

\* An observation yields a filter again.
LEMMA ObservedType ==
    ASSUME NEW g \in Grants, NEW D \in SUBSET Dest, NEW ttl \in Nat, NEW t \in Nat
    PROVE  Observed(g, D, ttl, t) \in Grants
<1>1. \A a \in Dest : Observed(g, D, ttl, t)[a] \in Nat
  BY ObservedEntry
<1>2. Observed(g, D, ttl, t) = [a \in Dest |-> Observed(g, D, ttl, t)[a]]
  BY DEF Observed, Live
<1> QED
  BY <1>1, <1>2 DEF Grants

\* The gate's loop over the addresses of a reply is one observation per
\* address: taking in D and then d is taking in both, so the loop's order is
\* of no account and ObserveEach stands for it.
LEMMA EachIsOneByOne ==
    ASSUME NEW g \in Grants, NEW D \in SUBSET Dest, NEW d \in Dest,
           NEW n \in Name, NEW ttl \in Nat, NEW t \in Nat
    PROVE  ObserveEach(g, n, D \union {d}, ttl, t)
             = ObserveDns(ObserveEach(g, n, D, ttl, t), n, d, ttl, t)
<1> DEFINE expiry == t + ClampTtl(ttl)
           hit(S, a) == a \in {Norm[x] : x \in S}
           raised(h, S) == [a \in Dest |-> IF hit(S, a) /\ h[a] < expiry
                                           THEN expiry ELSE h[a]]
<1>1. expiry \in Nat /\ expiry > t
  BY ClampBounds
<1>2. CASE ~MatchesHostname(n)
  BY <1>2 DEF ObserveEach, ObserveDns
<1>3. CASE MatchesHostname(n) /\ D = {}
  <2>1. ObserveEach(g, n, D, ttl, t) = g
    BY <1>3 DEF ObserveEach
  <2>2. D \union {d} = {d}
    BY <1>3
  <2> QED
    BY <2>1, <2>2, <1>3 DEF ObserveEach, ObserveDns
<1>4. CASE MatchesHostname(n) /\ D # {}
  <2> DEFINE g1 == Observed(g, D, ttl, t)
             g2 == Observed(g1, {d}, ttl, t)
             gg == Observed(g, D \union {d}, ttl, t)
  <2>1. ASSUME NEW a \in Dest PROVE g2[a] = gg[a]
    <3>1. g[a] \in Nat
      BY DEF Grants
    <3>2. hit(D \union {d}, a) <=> hit(D, a) \/ hit({d}, a)
      OBVIOUS
    <3>3. g1[a] = LET r == IF hit(D, a) /\ g[a] < expiry THEN expiry ELSE g[a]
                  IN  IF r > t THEN r ELSE 0
      BY DEF Observed, Live, NoEntry
    <3>4. g2[a] = LET r == IF hit({d}, a) /\ g1[a] < expiry THEN expiry ELSE g1[a]
                  IN  IF r > t THEN r ELSE 0
      BY DEF Observed, Live, NoEntry
    <3>5. gg[a] = LET r == IF hit(D \union {d}, a) /\ g[a] < expiry THEN expiry ELSE g[a]
                  IN  IF r > t THEN r ELSE 0
      BY DEF Observed, Live, NoEntry
    <3> HIDE DEF g1, g2, gg, hit, expiry
    <3> QED
      BY <1>1, <3>1, <3>2, <3>3, <3>4, <3>5
  <2>2. g2 = [a \in Dest |-> g2[a]] /\ gg = [a \in Dest |-> gg[a]]
    BY DEF Observed, Live
  <2>3. g2 = gg
    <3> HIDE DEF g2, gg
    <3> QED BY <2>1, <2>2
  <2> QED
    BY <2>3, <1>4 DEF ObserveEach, ObserveDns
<1> QED
  BY <1>2, <1>3, <1>4

-----------------------------------------------------------------------------

\* A map stays a map when a typed entry is put in or entries are taken out.
LEMMA InsertIsMap ==
    ASSUME NEW m, NEW K, NEW V, IsMap(m, K, V), NEW k \in K, NEW v \in V
    PROVE  /\ IsMap(Insert(m, k, v), K, V)
           /\ DOMAIN Insert(m, k, v) = DOMAIN m \union {k}
           /\ Insert(m, k, v)[k] = v
           /\ \A x \in DOMAIN m : x # k => Insert(m, k, v)[x] = m[x]
BY DEF IsMap, Insert

LEMMA RemoveIsMap ==
    ASSUME NEW m, NEW K, NEW V, IsMap(m, K, V), NEW S
    PROVE  /\ IsMap(Remove(m, S), K, V)
           /\ DOMAIN Remove(m, S) = DOMAIN m \ S
           /\ \A x \in DOMAIN m \ S : Remove(m, S)[x] = m[x]
BY DEF IsMap, Remove

LEMMA NoKeysIsMap ==
    ASSUME NEW K, NEW V
    PROVE  IsMap(NoKeys, K, V) /\ DOMAIN NoKeys = {}
BY DEF IsMap, NoKeys

\* The DNS queue, its head and what is left of it.
LEMMA QueueParts ==
    ASSUME NEW T, NEW s \in Seq(T), s # <<>>
    PROVE  /\ Head(s) \in T
           /\ Tail(s) \in Seq(T)
           /\ Len(Tail(s)) = Len(s) - 1
           /\ Len(s) \in Nat /\ Len(s) > 0
           /\ Head(s) = s[1]
           /\ \A i \in 1 .. Len(s) - 1 : Tail(s)[i] = s[i + 1]
OBVIOUS

\* The answers of a reply that enter the filter leave it a filter.
LEMMA EachType ==
    ASSUME NEW g \in Grants, NEW n, NEW D \in SUBSET Dest, NEW t \in Nat
    PROVE  ObserveEach(g, n, D, AnswerTtl, t) \in Grants
<1>1. AnswerTtl \in Nat
  BY TimeAssumption
<1>2. Observed(g, D, AnswerTtl, t) \in Grants
  BY <1>1, ObservedType
<1> QED
  BY <1>2 DEF ObserveEach

-----------------------------------------------------------------------------
\* The answers that stay queued when the first n have left.
LEMMA LeftToTell ==
    ASSUME dnsTx \in Seq(Response), NEW n \in 0 .. Len(dnsTx)
    PROVE  LET left == SubSeq(dnsTx, n + 1, Len(dnsTx))
           IN  /\ left \in Seq(Response)
               /\ Len(left) = Len(dnsTx) - n
               /\ \A i \in 1 .. Len(left) : /\ i + n \in 1 .. Len(dnsTx)
                                            /\ left[i] = dnsTx[i + n]
<1>1. Len(dnsTx) \in Nat /\ n \in Nat /\ n <= Len(dnsTx)
  OBVIOUS
<1>2. SubSeq(dnsTx, n + 1, Len(dnsTx)) \in Seq(Response)
  <2>1. \A i \in n + 1 .. Len(dnsTx) : dnsTx[i] \in Response
    BY <1>1
  <2> QED
    BY <1>1, <2>1, SubSeqProperties
<1>3. /\ Len(SubSeq(dnsTx, n + 1, Len(dnsTx))) = Len(dnsTx) - n
      /\ \A i \in 1 .. Len(dnsTx) - n : SubSeq(dnsTx, n + 1, Len(dnsTx))[i] = dnsTx[i + n]
  BY <1>1, SubSeqProperties
<1> QED
  BY <1>1, <1>2, <1>3

\* What the guest hears of the first n answers.
LEMMA ToldTyped ==
    ASSUME TypeOK, NEW n \in 0 .. Len(dnsTx)
    PROVE  /\ Tells(n) \subseteq Answer
           /\ \A a \in Tells(n) : \E i \in 1 .. Len(dnsTx) :
                 a.dest \in dnsTx[i].ips /\ a.granted = dnsTx[i].granted /\ a.told = now
<1>1. now \in Nat /\ Len(dnsTx) \in Nat /\ \A i \in 1 .. Len(dnsTx) : dnsTx[i] \in Response
  BY DEF TypeOK
<1>2. ASSUME NEW a \in Tells(n)
      PROVE  a \in Answer /\ \E i \in 1 .. Len(dnsTx) :
                a.dest \in dnsTx[i].ips /\ a.granted = dnsTx[i].granted /\ a.told = now
  <2>1. PICK i \in 1 .. n : a \in [dest : dnsTx[i].ips, granted : {dnsTx[i].granted}, told : {now}]
    BY DEF Tells
  <2>2. i \in 1 .. Len(dnsTx) /\ dnsTx[i] \in Response
    BY <1>1
  <2>3. dnsTx[i].ips \in SUBSET Dest /\ dnsTx[i].granted \in Nat
    BY <2>2 DEF Response
  <2> QED
    BY <1>1, <2>1, <2>2, <2>3 DEF Answer
<1> QED
  BY <1>2

-----------------------------------------------------------------------------
\* Type correctness of the whole gate.
LEMMA TypeInit == Init => TypeOK
<1> SUFFICES ASSUME Init PROVE TypeOK
  OBVIOUS
<1>1. /\ IsMap(flowKeys, TcpKey, Socket) /\ IsMap(flows, Socket, TcpFlow)
      /\ IsMap(udpFlows, UdpKey, UdpFlow) /\ IsMap(icmpFlows, IcmpKey, Nat)
  BY NoKeysIsMap DEF Init
<1>2. grants \in Grants
  BY DEF Init, NewFilter, NoEntry, Grants
<1>3. dnsRx \in Seq(Query) /\ dnsReplies \in Seq(Reply) /\ dnsTx \in Seq(Response)
  BY DEF Init
<1>4. now \in Nat \ {0} /\ inflightDns \in Nat
  BY DEF Init
<1>5. phase \in Phase /\ shutdown \in BOOLEAN
  BY Zenon DEF Init, Phase
<1>6. /\ resolving \in SUBSET Query /\ sockets \in SUBSET Socket
      /\ learned \in SUBSET Dest /\ answered \in SUBSET Answer
  BY DEF Init
<1> QED
  BY <1>1, <1>2, <1>3, <1>4, <1>5, <1>6 DEF TypeOK

LEMMA TypeStep == TypeOK /\ [Next]_vars => TypeOK'
<1> SUFFICES ASSUME TypeOK, [Next]_vars PROVE TypeOK'
  OBVIOUS
<1> USE DEF TypeOK
<1>1. CASE StartRound
  BY <1>1 DEF StartRound, dnsVars, tcpVars, dgramVars, Phase
<1>2. CASE StopLoop
  <2>1. \A K, V : IsMap(NoKeys, K, V)
    BY NoKeysIsMap
  <2> QED
    BY <1>2, <2>1 DEF StopLoop, Phase
<1>3. CASE Poll
  <2>1. PICK n \in 0 .. Len(dnsTx) : /\ dnsTx' = SubSeq(dnsTx, n + 1, Len(dnsTx))
                                     /\ answered' = answered \union Tells(n)
    BY <1>3 DEF Poll
  <2>2. dnsTx' \in Seq(Response)
    BY <2>1, LeftToTell
  <2>3. answered' \in SUBSET Answer
    BY <2>1, ToldTyped
  <2> QED
    BY <1>3, <2>2, <2>3 DEF Poll, tcpVars, dgramVars, Phase
<1>4. CASE RefuseOrDropQuery
  BY <1>4, QueueParts DEF RefuseOrDropQuery, loopVars, tcpVars, dgramVars
<1>5. CASE StartLookup
  BY <1>5, QueueParts DEF StartLookup, loopVars, tcpVars, dgramVars
<1>6. CASE QueriesDone
  BY <1>6 DEF QueriesDone, dnsVars, tcpVars, dgramVars, Phase
<1>7. CASE AnswerQuery
  <2> DEFINE r == Head(dnsReplies)
             ips == Relayable(r.ips)
  <2>1. r \in Reply /\ Tail(dnsReplies) \in Seq(Reply)
    BY <1>7, QueueParts DEF AnswerQuery
  <2>2. ips \in SUBSET Dest
    BY <2>1 DEF Reply, Relayable
  <2>3. grants' \in Grants
    BY <1>7, <2>2, EachType DEF AnswerQuery, GrantsFor
  <2>4. dnsTx' \in Seq(Response)
    <3> DEFINE new == [ips |-> ips, granted |-> now]
    <3>1. new \in Response
      BY <2>2 DEF Response
    <3>2. dnsTx' = Append(dnsTx, new) \/ dnsTx' = dnsTx
      BY <1>7 DEF AnswerQuery
    <3> HIDE DEF new
    <3> QED
      BY <3>1, <3>2
  <2>5. inflightDns' \in Nat
    BY <1>7 DEF AnswerQuery, ReturnSlot
  <2> QED
    BY <1>7, <2>1, <2>3, <2>4, <2>5 DEF AnswerQuery, loopVars, tcpVars, dgramVars
<1>8. CASE RepliesDone
  BY <1>8 DEF RepliesDone, dnsVars, tcpVars, dgramVars, Phase
<1>9. CASE RelayDatagrams
  <2>1. IsMap(udpFlows', UdpKey, UdpFlow)
    <3>1. ASSUME NEW f \in UdpFlow PROVE [f EXCEPT !.last = now] \in UdpFlow
      BY DEF UdpFlow
    <3> QED
      BY <1>9, <3>1 DEF RelayDatagrams, IsMap
  <2>2. IsMap(icmpFlows', IcmpKey, Nat)
    BY <1>9 DEF RelayDatagrams, IsMap
  <2>3. sockets' \in SUBSET Socket
    BY <1>9 DEF RelayDatagrams, SlotsAfter
  <2> QED
    BY <1>9, <2>1, <2>2, <2>3 DEF RelayDatagrams, dnsVars, tcpVars, Phase
<1>10. CASE RelayStreams
  <2>1. IsMap(flows', Socket, TcpFlow)
    BY <1>10 DEF RelayStreams, IsMap, TcpFlow, FlowState
  <2>2. IsMap(flowKeys', TcpKey, Socket)
    <3>1. PICK S : flowKeys' = Remove(flowKeys, S)
      BY <1>10 DEF RelayStreams, FlowKeysAfter
    <3> QED
      BY <3>1, RemoveIsMap
  <2>3. sockets' \in SUBSET Socket
    BY <1>10 DEF RelayStreams, SlotsAfter
  <2> QED
    BY <1>10, <2>1, <2>2, <2>3 DEF RelayStreams, dnsVars, dgramVars, Phase
<1>11. ASSUME NEW p \in TcpPort, NEW d \in Dest, RecvSyn(p, d)
       PROVE  TypeOK'
  <2> DEFINE key == [port |-> p, dest |-> d]
  <2>1. PICK s \in Socket \ sockets :
          /\ sockets' = sockets \union {s}
          /\ flowKeys' = Insert(flowKeys, key, s)
          /\ flows' = Insert(flows, s, [key |-> key, state |-> "connecting"])
    BY <1>11 DEF RecvSyn, FreeSlot
  <2>2. key \in TcpKey /\ [key |-> key, state |-> "connecting"] \in TcpFlow
    BY DEF TcpKey, TcpFlow, FlowState
  <2>3. IsMap(flowKeys', TcpKey, Socket)
    BY <2>1, <2>2, InsertIsMap
  <2>4. IsMap(flows', Socket, TcpFlow)
    BY <2>1, <2>2, InsertIsMap
  <2> QED
    BY <1>11, <2>1, <2>3, <2>4 DEF RecvSyn, loopVars, dnsVars, dgramVars
<1>12. ASSUME NEW p \in UdpPort, NEW d \in Dest, RecvNewDatagram(p, d)
       PROVE  TypeOK'
  <2> DEFINE key == [port |-> p, dest |-> d]
  <2>1. PICK s \in Socket \ sockets :
          /\ sockets' = sockets \union {s}
          /\ udpFlows' = Insert(udpFlows, key, [socket |-> s, last |-> now])
    BY <1>12 DEF RecvNewDatagram, FreeSlot
  <2>2. key \in UdpKey /\ [socket |-> s, last |-> now] \in UdpFlow
    BY DEF UdpKey, UdpFlow
  <2>3. IsMap(udpFlows', UdpKey, UdpFlow)
    BY <2>1, <2>2, InsertIsMap
  <2> QED
    BY <1>12, <2>1, <2>3 DEF RecvNewDatagram, loopVars, dnsVars, tcpVars
<1>13. ASSUME NEW p \in UdpPort, NEW d \in Dest, RecvNextDatagram(p, d)
       PROVE  TypeOK'
  <2>1. IsMap(udpFlows', UdpKey, UdpFlow)
    BY <1>13 DEF RecvNextDatagram, IsMap, UdpFlow
  <2> QED
    BY <1>13, <2>1 DEF RecvNextDatagram, loopVars, dnsVars, tcpVars
<1>14. ASSUME NEW i \in EchoId, NEW d \in Dest, RecvEcho(i, d)
       PROVE  TypeOK'
  <2> DEFINE key == [port |-> i, dest |-> d]
  <2>1. key \in IcmpKey /\ now \in Nat
    BY DEF IcmpKey
  <2>2. icmpFlows' = Insert(icmpFlows, key, now)
    BY <1>14 DEF RecvEcho
  <2>3. IsMap(icmpFlows', IcmpKey, Nat)
    BY <2>1, <2>2, InsertIsMap
  <2> QED
    BY <1>14, <2>3 DEF RecvEcho, loopVars, dnsVars, tcpVars
<1>15. ASSUME NEW q \in Query, RecvQuery(q)
       PROVE  TypeOK'
  BY <1>15 DEF RecvQuery, loopVars, tcpVars, dgramVars
<1>16. ASSUME NEW q \in resolving, NEW ips \in Resolution, LookupDone(q, ips)
       PROVE  TypeOK'
  <2>1. ips \in SUBSET Dest
    BY DestAssumption
  <2>2. [query |-> q, ips |-> ips] \in Reply
    BY <2>1 DEF Reply
  <2> QED
    BY <1>16, <2>1, <2>2 DEF LookupDone, loopVars, tcpVars, dgramVars
<1>17. ASSUME NEW s \in Socket, NEW result \in {"connected", "refused"},
              ConnectDone(s, result)
       PROVE  TypeOK'
  <2>1. IsMap(flows', Socket, TcpFlow)
    BY <1>17 DEF ConnectDone, IsMap, TcpFlow, FlowState
  <2> QED
    BY <1>17, <2>1 DEF ConnectDone, loopVars, dnsVars, dgramVars
<1>18. CASE RequestShutdown
  BY <1>18 DEF RequestShutdown, dnsVars, tcpVars, dgramVars
<1>19. CASE Tick
  BY <1>19 DEF Tick, dnsVars, tcpVars, dgramVars
<1>20. CASE UNCHANGED vars
  BY <1>20 DEF vars
<1> QED
  BY <1>1, <1>2, <1>3, <1>4, <1>5, <1>6, <1>7, <1>8, <1>9, <1>10, <1>11, <1>12,
     <1>13, <1>14, <1>15, <1>16, <1>17, <1>18, <1>19, <1>20
     DEF Next, Loop, Receive, ResolverThread, ConnectThread

\* Every variable of the gate keeps its type.
THEOREM TypeCorrect == Spec => []TypeOK
BY TypeInit, TypeStep, PTL DEF Spec

-----------------------------------------------------------------------------
(***************************************************************************)
(* The lookup counter.                                                     *)
(***************************************************************************)
\* Queries on their way to a resolver are told apart and are none of those a
\* resolver already has: without it, starting a lookup could leave the set of
\* busy resolvers as it is while the counter goes up.
LookupInv ==
    /\ IsFiniteSet(resolving)
    /\ \A i \in 1 .. Len(dnsRx) : dnsRx[i] \notin resolving
    /\ \A i, j \in 1 .. Len(dnsRx) : dnsRx[i] = dnsRx[j] => i = j
    /\ InflightExact

LEMMA LookupStep == TypeOK /\ LookupInv /\ [Next]_vars => LookupInv'
<1> SUFFICES ASSUME TypeOK, LookupInv, [Next]_vars PROVE LookupInv'
  OBVIOUS
<1> DEFINE Quiet == /\ UNCHANGED <<dnsRx, inflightDns, resolving, dnsReplies>>
                    /\ phase' # "stopped" => phase # "stopped"
<1>0. /\ dnsRx \in Seq(Query) /\ dnsReplies \in Seq(Reply) /\ inflightDns \in Nat
      /\ IsFiniteSet(resolving) /\ Cardinality(resolving) \in Nat
      /\ Len(dnsRx) \in Nat /\ Len(dnsReplies) \in Nat
  BY FS_CardinalityType DEF TypeOK, LookupInv
<1>1. Quiet => LookupInv'
  BY DEF LookupInv, InflightExact
<1>2. CASE RefuseOrDropQuery
  <2>1. /\ dnsRx' = Tail(dnsRx) /\ UNCHANGED <<inflightDns, resolving, dnsReplies, phase>>
        /\ dnsRx # <<>>
    BY <1>2 DEF RefuseOrDropQuery, loopVars
  <2> QED
    BY <1>0, <2>1, QueueParts DEF LookupInv, InflightExact
<1>3. CASE StartLookup
  <2> DEFINE q == Head(dnsRx)
  <2>1. /\ dnsRx' = Tail(dnsRx) /\ inflightDns' = inflightDns + 1
        /\ resolving' = resolving \union {q}
        /\ UNCHANGED <<dnsReplies, phase>> /\ dnsRx # <<>>
    BY <1>3 DEF StartLookup, loopVars
  <2>2. /\ q = dnsRx[1] /\ 1 \in 1 .. Len(dnsRx) /\ Len(dnsRx') = Len(dnsRx) - 1
        /\ \A i \in 1 .. Len(dnsRx) - 1 : dnsRx'[i] = dnsRx[i + 1]
    BY <1>0, <2>1, QueueParts
  <2>3. q \notin resolving
    BY <2>2 DEF LookupInv
  <2>4. IsFiniteSet(resolving') /\ Cardinality(resolving') = Cardinality(resolving) + 1
    BY <1>0, <2>1, <2>3, FS_AddElement
  <2>5. \A i \in 1 .. Len(dnsRx') : dnsRx'[i] \notin resolving'
    BY <1>0, <2>1, <2>2 DEF LookupInv
  <2>6. \A i, j \in 1 .. Len(dnsRx') : dnsRx'[i] = dnsRx'[j] => i = j
    BY <1>0, <2>2 DEF LookupInv
  <2>7. InflightExact'
    BY <1>0, <2>1, <2>4 DEF LookupInv, InflightExact
  <2> QED
    BY <2>4, <2>5, <2>6, <2>7 DEF LookupInv
<1>4. CASE AnswerQuery
  <2>1. /\ dnsReplies # <<>> /\ dnsReplies' = Tail(dnsReplies)
        /\ inflightDns' = IF inflightDns > 0 THEN inflightDns - 1 ELSE 0
        /\ UNCHANGED <<dnsRx, resolving, phase>> /\ phase = "replies"
    BY <1>4 DEF AnswerQuery, ReturnSlot, loopVars
  <2>2. Len(dnsReplies') = Len(dnsReplies) - 1 /\ Len(dnsReplies) > 0
    BY <1>0, <2>1, QueueParts
  <2>3. InflightExact'
    BY <1>0, <2>1, <2>2 DEF LookupInv, InflightExact
  <2> QED
    BY <2>1, <2>3 DEF LookupInv
<1>5. ASSUME NEW q \in Query, RecvQuery(q)
      PROVE  LookupInv'
  <2>1. /\ dnsRx' = Append(dnsRx, q) /\ q \notin resolving
        /\ \A i \in 1 .. Len(dnsRx) : dnsRx[i] # q
        /\ UNCHANGED <<inflightDns, resolving, dnsReplies, phase>>
    BY <1>0, <1>5 DEF RecvQuery, Elements, loopVars
  <2>2. /\ Len(dnsRx') = Len(dnsRx) + 1 /\ dnsRx'[Len(dnsRx) + 1] = q
        /\ \A i \in 1 .. Len(dnsRx) : dnsRx'[i] = dnsRx[i]
    BY <1>0, <2>1
  <2>3. InflightExact'
    BY <1>0, <2>1 DEF LookupInv, InflightExact
  <2>4. ASSUME NEW i \in 1 .. Len(dnsRx') PROVE dnsRx'[i] \notin resolving'
    <3>1. Len(dnsRx) \in Nat
      BY <1>0
    <3>2. i \in 1 .. Len(dnsRx) \/ i = Len(dnsRx) + 1
      BY <2>2, <3>1
    <3> QED
      BY <1>0, <2>1, <2>2, <3>2 DEF LookupInv
  <2>5. ASSUME NEW i \in 1 .. Len(dnsRx'), NEW j \in 1 .. Len(dnsRx'), dnsRx'[i] = dnsRx'[j]
        PROVE  i = j
    <3>1. Len(dnsRx) \in Nat
      BY <1>0
    <3>2. /\ i \in 1 .. Len(dnsRx) \/ i = Len(dnsRx) + 1
          /\ j \in 1 .. Len(dnsRx) \/ j = Len(dnsRx) + 1
      BY <2>2, <3>1
    <3> QED
      BY <2>1, <2>2, <2>5, <3>2 DEF LookupInv
  <2> QED
    BY <1>0, <2>1, <2>3, <2>4, <2>5 DEF LookupInv
<1>6. ASSUME NEW q \in resolving, NEW ips \in Resolution, LookupDone(q, ips)
      PROVE  LookupInv'
  <2>1. /\ resolving' = resolving \ {q} /\ UNCHANGED <<dnsRx, inflightDns, phase>>
        /\ phase # "stopped" => Len(dnsReplies') = Len(dnsReplies) + 1
    BY <1>0, <1>6 DEF LookupDone, loopVars
  <2>2. IsFiniteSet(resolving') /\ Cardinality(resolving') = Cardinality(resolving) - 1
    BY <1>0, <2>1, FS_RemoveElement
  <2> QED
    BY <1>0, <2>1, <2>2 DEF LookupInv, InflightExact
<1>7. CASE StopLoop
  BY <1>0, <1>7 DEF StopLoop, LookupInv, InflightExact
<1>8. StartRound \/ Poll \/ QueriesDone \/ RepliesDone => Quiet
  BY DEF StartRound, Poll, QueriesDone, RepliesDone, dnsVars
<1>9. RelayDatagrams \/ RelayStreams => Quiet
  BY DEF RelayDatagrams, RelayStreams, dnsVars
<1>10. ASSUME NEW p, NEW d
       PROVE  RecvSyn(p, d) \/ RecvNewDatagram(p, d) \/ RecvNextDatagram(p, d)
                \/ RecvEcho(p, d) => Quiet
  BY DEF RecvSyn, RecvNewDatagram, RecvNextDatagram, RecvEcho, dnsVars, loopVars
<1>11. ASSUME NEW s, NEW result PROVE ConnectDone(s, result) => Quiet
  BY DEF ConnectDone, dnsVars, loopVars
<1>12. RequestShutdown \/ Tick \/ UNCHANGED vars => Quiet
  BY DEF RequestShutdown, Tick, vars, dnsVars
<1> HIDE DEF Quiet
<1> QED
  BY <1>1, <1>2, <1>3, <1>4, <1>5, <1>6, <1>7, <1>8, <1>9, <1>10, <1>11, <1>12
     DEF Next, Loop, Receive, ResolverThread, ConnectThread

\* inflight_dns is exactly the number of lookups not yet answered.
THEOREM LookupsCounted == Spec => []InflightExact
<1>1. Init => LookupInv
  <2> SUFFICES ASSUME Init PROVE LookupInv
    OBVIOUS
  <2>1. IsFiniteSet({}) /\ Cardinality({}) = 0
    BY FS_EmptySet
  <2> QED
    BY <2>1 DEF Init, LookupInv, InflightExact
<1>2. LookupInv => InflightExact
  BY DEF LookupInv
<1> QED
  BY <1>1, <1>2, LookupStep, TypeCorrect, PTL DEF Spec

-----------------------------------------------------------------------------
(***************************************************************************)
(* The caps.                                                               *)
(***************************************************************************)
\* The tables are finite, so an insertion adds at most one to their size.
CapInv ==
    /\ IsFiniteSet(DOMAIN flows)
    /\ IsFiniteSet(DOMAIN udpFlows)
    /\ IsFiniteSet(DOMAIN icmpFlows)
    /\ Bounded

\* A table that gains one key while it is below its cap stays within it, and
\* a table that only loses keys does too.
LEMMA GrowWithin ==
    ASSUME NEW S, NEW x, NEW N \in Nat, IsFiniteSet(S), Cardinality(S) < N
    PROVE  IsFiniteSet(S \union {x}) /\ Cardinality(S \union {x}) <= N
<1> DEFINE T == S \union {x}
<1>1. Cardinality(S) \in Nat
  BY FS_CardinalityType
<1>2. /\ IsFiniteSet(T)
      /\ Cardinality(T) = IF x \in S THEN Cardinality(S) ELSE Cardinality(S) + 1
  BY FS_AddElement, Zenon
<1> HIDE DEF T
<1>3. Cardinality(T) <= N
  BY <1>1, <1>2
<1> QED
  BY <1>2, <1>3 DEF T

LEMMA ShrinkWithin ==
    ASSUME NEW S, NEW T \in SUBSET S, NEW N \in Nat, IsFiniteSet(S), Cardinality(S) <= N
    PROVE  IsFiniteSet(T) /\ Cardinality(T) <= N
BY FS_Subset, FS_CardinalityType

LEMMA CapStep == TypeOK /\ CapInv /\ [Next]_vars => CapInv'
<1> SUFFICES ASSUME TypeOK, CapInv, [Next]_vars PROVE CapInv'
  OBVIOUS
<1> DEFINE SameKeys == /\ DOMAIN flows' = DOMAIN flows
                       /\ DOMAIN udpFlows' = DOMAIN udpFlows
                       /\ DOMAIN icmpFlows' = DOMAIN icmpFlows
<1> USE CapAssumption
<1>1. SameKeys /\ inflightDns' = inflightDns => CapInv'
  BY DEF CapInv, Bounded
<1>2. ASSUME NEW p \in TcpPort, NEW d \in Dest, RecvSyn(p, d)
      PROVE  CapInv'
  <2>1. PICK s : DOMAIN flows' = DOMAIN flows \union {s}
    BY <1>2 DEF RecvSyn, Insert
  <2>2. IsFiniteSet(DOMAIN flows') /\ Cardinality(DOMAIN flows') <= MaxTcpFlows
    <3>1. Cardinality(DOMAIN flows) < MaxTcpFlows
      BY <1>2 DEF RecvSyn, TcpRoom
    <3> QED
      BY <2>1, <3>1, GrowWithin DEF CapInv
  <2> QED
    BY <1>2, <2>2 DEF RecvSyn, dgramVars, dnsVars, CapInv, Bounded
<1>3. ASSUME NEW p \in UdpPort, NEW d \in Dest, RecvNewDatagram(p, d)
      PROVE  CapInv'
  <2>1. PICK k : DOMAIN udpFlows' = DOMAIN udpFlows \union {k}
    BY <1>3 DEF RecvNewDatagram, Insert
  <2>2. IsFiniteSet(DOMAIN udpFlows') /\ Cardinality(DOMAIN udpFlows') <= MaxUdpFlows
    <3>1. Cardinality(DOMAIN udpFlows) < MaxUdpFlows
      BY <1>3 DEF RecvNewDatagram, UdpRoom
    <3> QED
      BY <2>1, <3>1, GrowWithin DEF CapInv
  <2> QED
    BY <1>3, <2>2 DEF RecvNewDatagram, tcpVars, dnsVars, CapInv, Bounded
<1>4. ASSUME NEW i \in EchoId, NEW d \in Dest, RecvEcho(i, d)
      PROVE  CapInv'
  <2> DEFINE k == [port |-> i, dest |-> d]
  <2>1. DOMAIN icmpFlows' = DOMAIN icmpFlows \union {k}
    BY <1>4 DEF RecvEcho, Insert
  <2>2. CASE k \in DOMAIN icmpFlows
    <3>1. DOMAIN icmpFlows' = DOMAIN icmpFlows
      BY <2>1, <2>2
    <3> QED
      BY <1>4, <3>1 DEF RecvEcho, tcpVars, dnsVars, CapInv, Bounded
  <2>3. CASE IcmpRoom
    <3>1. IsFiniteSet(DOMAIN icmpFlows') /\ Cardinality(DOMAIN icmpFlows') <= MaxIcmpFlows
      BY <2>1, <2>3, GrowWithin DEF IcmpRoom, CapInv
    <3> QED
      BY <1>4, <3>1 DEF RecvEcho, tcpVars, dnsVars, CapInv, Bounded
  <2> QED
    BY <1>4, <2>2, <2>3 DEF RecvEcho
<1>5. ASSUME NEW p \in UdpPort, NEW d \in Dest, RecvNextDatagram(p, d)
      PROVE  SameKeys /\ inflightDns' = inflightDns
  BY <1>5 DEF RecvNextDatagram, tcpVars, dnsVars
<1>6. CASE RelayDatagrams
  <2>1. /\ DOMAIN udpFlows' \in SUBSET DOMAIN udpFlows
        /\ DOMAIN icmpFlows' \in SUBSET DOMAIN icmpFlows
        /\ UNCHANGED <<flows, inflightDns>>
    BY <1>6 DEF RelayDatagrams, tcpVars, dnsVars
  <2> QED
    BY <2>1, ShrinkWithin DEF CapInv, Bounded
<1>7. CASE RelayStreams
  <2>1. /\ DOMAIN flows' \in SUBSET DOMAIN flows
        /\ UNCHANGED <<udpFlows, icmpFlows, inflightDns>>
    BY <1>7 DEF RelayStreams, dgramVars, dnsVars
  <2> QED
    BY <2>1, ShrinkWithin DEF CapInv, Bounded
<1>8. CASE StopLoop
  <2>1. /\ DOMAIN flows' = {} /\ DOMAIN udpFlows' = {} /\ DOMAIN icmpFlows' = {}
        /\ inflightDns' = inflightDns
    BY <1>8 DEF StopLoop, NoKeys
  <2> QED
    BY <2>1, FS_EmptySet DEF CapInv, Bounded
<1>9. CASE StartLookup
  BY <1>9 DEF StartLookup, LookupRoom, tcpVars, dgramVars, CapInv, Bounded, TypeOK
<1>10. CASE AnswerQuery
  BY <1>10 DEF AnswerQuery, ReturnSlot, tcpVars, dgramVars, CapInv, Bounded, TypeOK
<1>11. StartRound \/ Poll \/ QueriesDone \/ RepliesDone \/ RefuseOrDropQuery
         => SameKeys /\ inflightDns' = inflightDns
  BY DEF StartRound, Poll, QueriesDone, RepliesDone, RefuseOrDropQuery, dnsVars,
         tcpVars, dgramVars
<1>12. ASSUME NEW q, NEW ips
       PROVE  RecvQuery(q) \/ LookupDone(q, ips) => SameKeys /\ inflightDns' = inflightDns
  BY DEF RecvQuery, LookupDone, tcpVars, dgramVars
<1>13. ASSUME NEW s, NEW result
       PROVE  ConnectDone(s, result) => SameKeys /\ inflightDns' = inflightDns
  BY DEF ConnectDone, dnsVars, dgramVars
<1>14. RequestShutdown \/ Tick \/ UNCHANGED vars => SameKeys /\ inflightDns' = inflightDns
  BY DEF RequestShutdown, Tick, vars, dnsVars, tcpVars, dgramVars
<1> HIDE DEF SameKeys
<1> QED
  BY <1>1, <1>2, <1>3, <1>4, <1>5, <1>6, <1>7, <1>8, <1>9, <1>10, <1>11, <1>12, <1>13,
     <1>14 DEF Next, Loop, Receive, ResolverThread, ConnectThread

\* No NAT table and no set of threads ever exceeds its cap.
THEOREM CapsHold == Spec => []Bounded
<1>1. Init => CapInv
  <2> SUFFICES ASSUME Init PROVE CapInv
    OBVIOUS
  <2>1. DOMAIN flows = {} /\ DOMAIN udpFlows = {} /\ DOMAIN icmpFlows = {}
    BY DEF Init, NoKeys
  <2>2. IsFiniteSet({}) /\ Cardinality({}) = 0 /\ inflightDns = 0
    BY FS_EmptySet DEF Init
  <2> QED
    BY <2>1, <2>2, CapAssumption DEF CapInv, Bounded
<1>2. CapInv => Bounded
  BY DEF CapInv
<1> QED
  BY <1>1, <1>2, CapStep, TypeCorrect, PTL DEF Spec

-----------------------------------------------------------------------------
(***************************************************************************)
(* The tables and the socket set.                                          *)
(***************************************************************************)
LEMMA TablesStep ==
    TypeOK /\ TablesAgree /\ SocketsOwned /\ [Next]_vars => TablesAgree' /\ SocketsOwned'
<1> SUFFICES ASSUME TypeOK, TablesAgree, SocketsOwned, [Next]_vars
             PROVE  TablesAgree' /\ SocketsOwned'
  OBVIOUS
<1> DEFINE Quiet == UNCHANGED <<sockets, flowKeys, flows, udpFlows>>
<1>1. Quiet => TablesAgree' /\ SocketsOwned'
  BY DEF TablesAgree, SocketsOwned
<1>2. ASSUME NEW p \in TcpPort, NEW d \in Dest, RecvSyn(p, d)
      PROVE  TablesAgree' /\ SocketsOwned'
  <2> DEFINE key == [port |-> p, dest |-> d]
             flow == [key |-> key, state |-> "connecting"]
  <2>1. PICK s \in Socket \ sockets :
          /\ sockets' = sockets \union {s}
          /\ flowKeys' = Insert(flowKeys, key, s)
          /\ flows' = Insert(flows, s, flow)
    BY <1>2 DEF RecvSyn, FreeSlot
  <2>2. key \notin DOMAIN flowKeys /\ udpFlows' = udpFlows
    BY <1>2 DEF RecvSyn, dgramVars
  <2>3. flow.key = key
    OBVIOUS
  <2>4. s \notin DOMAIN flows /\ \A k \in DOMAIN udpFlows : udpFlows[k].socket # s
    BY <2>1 DEF SocketsOwned
  <2> HIDE DEF key, flow
  <2>5. /\ DOMAIN flowKeys' = DOMAIN flowKeys \union {key} /\ flowKeys'[key] = s
        /\ \A k \in DOMAIN flowKeys : flowKeys'[k] = flowKeys[k]
    BY <2>1, <2>2 DEF Insert
  <2>6. /\ DOMAIN flows' = DOMAIN flows \union {s} /\ flows'[s] = flow
        /\ \A x \in DOMAIN flows : flows'[x] = flows[x]
    BY <2>1, <2>4 DEF Insert
  <2>7. TablesAgree'
    BY <2>2, <2>3, <2>4, <2>5, <2>6 DEF TablesAgree
  <2>8. SocketsOwned'
    BY <2>1, <2>2, <2>4, <2>6 DEF SocketsOwned
  <2> QED
    BY <2>7, <2>8
<1>3. ASSUME NEW p \in UdpPort, NEW d \in Dest, RecvNewDatagram(p, d)
      PROVE  TablesAgree' /\ SocketsOwned'
  <2> DEFINE key == [port |-> p, dest |-> d]
             flow(s) == [socket |-> s, last |-> now]
  <2>1. PICK s \in Socket \ sockets :
          /\ sockets' = sockets \union {s}
          /\ udpFlows' = Insert(udpFlows, key, flow(s))
    BY <1>3 DEF RecvNewDatagram, FreeSlot
  <2>2. key \notin DOMAIN udpFlows /\ UNCHANGED <<flows, flowKeys>>
    BY <1>3 DEF RecvNewDatagram, tcpVars
  <2>3. flow(s).socket = s
    OBVIOUS
  <2>4. s \notin DOMAIN flows /\ \A k \in DOMAIN udpFlows : udpFlows[k].socket # s
    BY <2>1 DEF SocketsOwned
  <2> HIDE DEF key, flow
  <2>5. /\ DOMAIN udpFlows' = DOMAIN udpFlows \union {key} /\ udpFlows'[key] = flow(s)
        /\ \A k \in DOMAIN udpFlows : udpFlows'[k] = udpFlows[k]
    BY <2>1, <2>2 DEF Insert
  <2>6. TablesAgree'
    BY <2>2 DEF TablesAgree
  <2>7. SocketsOwned'
    BY <2>1, <2>2, <2>3, <2>4, <2>5 DEF SocketsOwned
  <2> QED
    BY <2>6, <2>7
<1>4. ASSUME NEW p \in UdpPort, NEW d \in Dest, RecvNextDatagram(p, d)
      PROVE  TablesAgree' /\ SocketsOwned'
  <2>1. /\ DOMAIN udpFlows' = DOMAIN udpFlows /\ UNCHANGED <<sockets, flows, flowKeys>>
        /\ \A k \in DOMAIN udpFlows : udpFlows'[k].socket = udpFlows[k].socket
    BY <1>4 DEF RecvNextDatagram, tcpVars, TypeOK, IsMap, UdpFlow
  <2> QED
    BY <2>1 DEF TablesAgree, SocketsOwned
<1>5. CASE RelayDatagrams
  <2>1. PICK idle \in SUBSET DOMAIN udpFlows :
          /\ DOMAIN udpFlows' = DOMAIN udpFlows \ idle
          /\ \A k \in DOMAIN udpFlows \ idle : udpFlows'[k].socket = udpFlows[k].socket
          /\ sockets' = sockets \ {udpFlows[k].socket : k \in idle}
    <3>1. PICK busy \in SUBSET DOMAIN udpFlows :
            LET idle == {k \in DOMAIN udpFlows \ busy : now - udpFlows[k].last > UdpIdle}
            IN  /\ udpFlows' = [k \in DOMAIN udpFlows \ idle |->
                                  IF k \in busy THEN [udpFlows[k] EXCEPT !.last = now]
                                  ELSE udpFlows[k]]
                /\ sockets' = sockets \ {udpFlows[k].socket : k \in idle}
      BY <1>5 DEF RelayDatagrams, SlotsAfter
    <3> DEFINE idle == {k \in DOMAIN udpFlows \ busy : now - udpFlows[k].last > UdpIdle}
    <3>2. \A k \in DOMAIN udpFlows \ idle : udpFlows'[k].socket = udpFlows[k].socket
      BY <3>1 DEF TypeOK, IsMap, UdpFlow
    <3> QED
      BY <3>1, <3>2
  <2>2. UNCHANGED <<flows, flowKeys>>
    BY <1>5 DEF RelayDatagrams, tcpVars
  <2> QED
    BY <2>1, <2>2 DEF TablesAgree, SocketsOwned
<1>6. CASE RelayStreams
  <2>1. PICK S \in SUBSET DOMAIN flows :
          /\ DOMAIN flows' = DOMAIN flows \ S
          /\ \A s \in DOMAIN flows \ S : flows'[s].key = flows[s].key
          /\ flowKeys' = Remove(flowKeys, {flows[s].key : s \in S})
          /\ sockets' = sockets \ S
    <3>1. PICK over \in SUBSET DOMAIN flows :
            LET S == over \union RefusedFlows
            IN  /\ flows' = [s \in DOMAIN flows \ S |->
                               IF flows[s].state = "connected"
                               THEN [flows[s] EXCEPT !.state = "relaying"] ELSE flows[s]]
                /\ flowKeys' = Remove(flowKeys, {flows[s].key : s \in S})
                /\ sockets' = sockets \ S
      BY <1>6 DEF RelayStreams, SlotsAfter, FlowKeysAfter
    <3> DEFINE S == over \union RefusedFlows
    <3>2. S \in SUBSET DOMAIN flows
      BY DEF RefusedFlows
    <3>3. \A s \in DOMAIN flows \ S : flows'[s].key = flows[s].key
      BY <3>1 DEF TypeOK, IsMap, TcpFlow
    <3> QED
      BY <3>1, <3>2, <3>3
  <2>2. udpFlows' = udpFlows
    BY <1>6 DEF RelayStreams, dgramVars
  <2>3. /\ DOMAIN flowKeys' = DOMAIN flowKeys \ {flows[s].key : s \in S}
        /\ \A k \in DOMAIN flowKeys' : flowKeys'[k] = flowKeys[k]
    BY <2>1 DEF Remove
  <2>4. TablesAgree'
    <3>1. ASSUME NEW k \in DOMAIN flowKeys'
          PROVE  flowKeys'[k] \in DOMAIN flows' /\ flows'[flowKeys'[k]].key = k
      <4>1. flowKeys[k] \in DOMAIN flows /\ flows[flowKeys[k]].key = k
        BY <2>3 DEF TablesAgree
      <4>2. flowKeys[k] \notin S
        BY <2>3, <4>1
      <4> QED
        BY <2>1, <2>3, <4>1, <4>2
    <3>2. ASSUME NEW s \in DOMAIN flows'
          PROVE  flows'[s].key \in DOMAIN flowKeys' /\ flowKeys'[flows'[s].key] = s
      <4>1. /\ s \in DOMAIN flows /\ s \notin S /\ flows'[s].key = flows[s].key
            /\ flows[s].key \in DOMAIN flowKeys /\ flowKeys[flows[s].key] = s
        BY <2>1 DEF TablesAgree
      <4>2. \A x \in S : flowKeys[flows[x].key] = x
        BY <2>1 DEF TablesAgree
      <4>3. flows[s].key \notin {flows[x].key : x \in S}
        BY <4>1, <4>2
      <4> QED
        BY <2>3, <4>1, <4>3
    <3> QED
      BY <3>1, <3>2 DEF TablesAgree
  <2>5. SocketsOwned'
    BY <2>1, <2>2 DEF SocketsOwned
  <2> QED
    BY <2>4, <2>5
<1>7. ASSUME NEW s \in Socket, NEW result \in {"connected", "refused"},
             ConnectDone(s, result)
      PROVE  TablesAgree' /\ SocketsOwned'
  <2>1. /\ DOMAIN flows' = DOMAIN flows /\ UNCHANGED <<sockets, flowKeys, udpFlows>>
        /\ \A x \in DOMAIN flows : flows'[x].key = flows[x].key
    BY <1>7 DEF ConnectDone, dgramVars, TypeOK, IsMap, TcpFlow
  <2> QED
    BY <2>1 DEF TablesAgree, SocketsOwned
<1>8. CASE StopLoop
  BY <1>8, NoKeysIsMap DEF StopLoop, TablesAgree, SocketsOwned
<1>9. StartRound \/ Poll \/ QueriesDone \/ RepliesDone \/ RefuseOrDropQuery
        \/ StartLookup \/ AnswerQuery => Quiet
  BY DEF StartRound, Poll, QueriesDone, RepliesDone, RefuseOrDropQuery, StartLookup,
         AnswerQuery, tcpVars, dgramVars
<1>10. ASSUME NEW q, NEW x
       PROVE  RecvQuery(q) \/ LookupDone(q, x) \/ RecvEcho(q, x) => Quiet
  BY DEF RecvQuery, LookupDone, RecvEcho, tcpVars, dgramVars
<1>11. RequestShutdown \/ Tick \/ UNCHANGED vars => Quiet
  BY DEF RequestShutdown, Tick, vars, tcpVars, dgramVars
<1> HIDE DEF Quiet
<1> QED
  BY <1>1, <1>2, <1>3, <1>4, <1>5, <1>6, <1>7, <1>8, <1>9, <1>10, <1>11
     DEF Next, Loop, Receive, ResolverThread, ConnectThread

\* The two TCP maps stay each other's inverse, and every occupied socket slot
\* has exactly one owner.
THEOREM TablesConsistent == Spec => [](TablesAgree /\ SocketsOwned)
<1>1. Init => TablesAgree /\ SocketsOwned
  BY NoKeysIsMap DEF Init, TablesAgree, SocketsOwned
<1> QED
  BY <1>1, TablesStep, TypeCorrect, PTL DEF Spec

\* A socket slot is given back exactly once and never while its flow lives:
\* TCP and UDP, which share the slots, never come to own the same one.
THEOREM SocketsHaveOneOwner == Spec => []SocketsOwned
<1>1. TablesAgree /\ SocketsOwned => SocketsOwned
  OBVIOUS
<1> QED
  BY <1>1, TablesConsistent, PTL

-----------------------------------------------------------------------------
(***************************************************************************)
(* What the filter admits, and what is relayed.                            *)
(***************************************************************************)
\* Every lookup and every reply is for an allow-listed name, and a reply
\* holds addresses a lookup returned: the step from a query's name to an
\* address in the filter goes through both.
RepliesListed ==
    /\ \A q \in resolving : q.name \in AllowedName
    /\ \A i \in 1 .. Len(dnsReplies) :
          /\ dnsReplies[i].query.name \in AllowedName
          /\ dnsReplies[i].ips \in SUBSET learned

\* The grant behind each address the guest was told, with its expiry: how
\* long AnswersAdmitted will go on holding.
Backed(d, t) ==
    /\ IsRelayable(d)
    /\ t + AnswerTtl > now => grants[Norm[d]] >= t + AnswerTtl

AnswersBacked ==
    /\ \A i \in 1 .. Len(dnsTx) : \A d \in dnsTx[i].ips : Backed(d, dnsTx[i].granted)
    /\ \A a \in answered : Backed(a.dest, a.granted)

EgressInv == RepliesListed /\ GrantsAccounted /\ AnswersBacked /\ OnlyListedEgress

\* A destination that passes the allowlist is covered by the policy or was
\* looked up.
LEMMA AdmittedIsListed ==
    ASSUME GrantsAccounted, NEW d \in Dest, Admits(d)
    PROVE  /\ d \notin HostLocal
           /\ Norm[d] \in StaticDest \union {Norm[x] : x \in learned \ HostLocal}
BY NormAssumption DEF GrantsAccounted, Admits, AllowsIp, IsRelayable

\* One reply entering the filter, entry by entry.
LEMMA AnswerEntry ==
    ASSUME TypeOK, RepliesListed, AnswerQuery, NEW a \in Dest
    PROVE  LET ips    == Relayable(Head(dnsReplies).ips)
               hit    == a \in {Norm[x] : x \in ips}
               expiry == now + ClampTtl(AnswerTtl)
           IN  /\ ips \in SUBSET learned
               /\ grants'[a] \in Nat
               /\ hit => grants'[a] >= expiry
               /\ grants[a] > now => grants'[a] >= grants[a]
               /\ grants'[a] > now => grants'[a] = grants[a] \/ (hit /\ grants'[a] = expiry)
<1> DEFINE r == Head(dnsReplies)
           ips == Relayable(r.ips)
<1>1. /\ dnsReplies \in Seq(Reply) /\ dnsReplies # <<>> /\ now \in Nat
      /\ grants \in Grants /\ grants[a] \in Nat /\ AnswerTtl \in Nat
  BY TimeAssumption DEF TypeOK, AnswerQuery, Grants
<1>2. r \in Reply /\ r = dnsReplies[1] /\ 1 \in 1 .. Len(dnsReplies)
  BY <1>1, QueueParts
<1>3. r.query.name \in AllowedName /\ ips \in SUBSET learned /\ ips \in SUBSET Dest
  BY <1>2 DEF RepliesListed, Reply, Relayable
<1>4. grants' = IF ips # {} THEN Observed(grants, ips, AnswerTtl, now) ELSE grants
  BY <1>3 DEF AnswerQuery, GrantsFor, ObserveEach, MatchesHostname
<1>5. LET hit    == a \in {Norm[x] : x \in ips}
          expiry == now + ClampTtl(AnswerTtl)
          e      == Observed(grants, ips, AnswerTtl, now)[a]
      IN  /\ e \in Nat
          /\ hit => e >= expiry
          /\ grants[a] > now => e >= grants[a]
          /\ e > now => e = grants[a] \/ (hit /\ e = expiry)
  BY <1>1, <1>3, ObservedEntry
<1> HIDE DEF ips
<1>6. CASE ips = {}
  BY <1>1, <1>3, <1>4, <1>6 DEF ips
<1>7. CASE ips # {}
  BY <1>3, <1>4, <1>5, <1>7 DEF ips
<1> QED
  BY <1>6, <1>7

LEMMA RepliesStep == TypeOK /\ RepliesListed /\ [Next]_vars => RepliesListed'
<1> SUFFICES ASSUME TypeOK, RepliesListed, [Next]_vars PROVE RepliesListed'
  OBVIOUS
<1> DEFINE Quiet == UNCHANGED <<resolving, dnsReplies, learned>>
<1>0. /\ dnsRx \in Seq(Query) /\ dnsReplies \in Seq(Reply) /\ Len(dnsReplies) \in Nat
  BY DEF TypeOK
<1>1. Quiet => RepliesListed'
  BY DEF RepliesListed
<1>2. CASE StartLookup
  BY <1>2 DEF StartLookup, RepliesListed, MatchesHostname
<1>3. CASE AnswerQuery
  <2>1. /\ dnsReplies # <<>> /\ dnsReplies' = Tail(dnsReplies)
        /\ UNCHANGED <<resolving, learned>>
    BY <1>3 DEF AnswerQuery
  <2>2. /\ Len(dnsReplies') = Len(dnsReplies) - 1
        /\ \A i \in 1 .. Len(dnsReplies) - 1 : dnsReplies'[i] = dnsReplies[i + 1]
    BY <1>0, <2>1, QueueParts
  <2> QED
    BY <1>0, <2>1, <2>2 DEF RepliesListed
<1>4. ASSUME NEW q \in resolving, NEW ips \in Resolution, LookupDone(q, ips)
      PROVE  RepliesListed'
  <2>1. /\ q.name \in AllowedName /\ resolving' = resolving \ {q}
        /\ learned' = learned \union ips
    BY <1>4 DEF LookupDone, RepliesListed
  <2>2. CASE dnsReplies' = dnsReplies
    BY <2>1, <2>2 DEF RepliesListed
  <2>3. CASE dnsReplies' = Append(dnsReplies, [query |-> q, ips |-> ips])
    <3> DEFINE r == [query |-> q, ips |-> ips]
    <3>1. r.query = q /\ r.ips = ips
      OBVIOUS
    <3> HIDE DEF r
    <3>2. /\ Len(dnsReplies') = Len(dnsReplies) + 1 /\ dnsReplies'[Len(dnsReplies) + 1] = r
          /\ \A i \in 1 .. Len(dnsReplies) : dnsReplies'[i] = dnsReplies[i]
      BY <1>0, <2>3 DEF r
    <3> QED
      BY <1>0, <2>1, <3>1, <3>2 DEF RepliesListed
  <2> QED
    BY <1>4, <2>2, <2>3 DEF LookupDone
<1>5. CASE StopLoop
  BY <1>5 DEF StopLoop, RepliesListed
<1>6. StartRound \/ Poll \/ QueriesDone \/ RepliesDone \/ RefuseOrDropQuery => Quiet
  BY DEF StartRound, Poll, QueriesDone, RepliesDone, RefuseOrDropQuery, dnsVars
<1>7. RelayDatagrams \/ RelayStreams \/ RequestShutdown \/ Tick \/ UNCHANGED vars => Quiet
  BY DEF RelayDatagrams, RelayStreams, RequestShutdown, Tick, vars, dnsVars
<1>8. ASSUME NEW p, NEW d
      PROVE  RecvSyn(p, d) \/ RecvNewDatagram(p, d) \/ RecvNextDatagram(p, d)
               \/ RecvEcho(p, d) \/ RecvQuery(p) \/ ConnectDone(p, d) => Quiet
  BY DEF RecvSyn, RecvNewDatagram, RecvNextDatagram, RecvEcho, RecvQuery, ConnectDone,
         dnsVars
<1> HIDE DEF Quiet
<1> QED
  BY <1>1, <1>2, <1>3, <1>4, <1>5, <1>6, <1>7, <1>8
     DEF Next, Loop, Receive, ResolverThread, ConnectThread

LEMMA GrantsStep ==
    TypeOK /\ RepliesListed /\ GrantsAccounted /\ AnswersBacked /\ [Next]_vars
      => GrantsAccounted' /\ AnswersBacked'
<1> SUFFICES ASSUME TypeOK, RepliesListed, GrantsAccounted, AnswersBacked, [Next]_vars
             PROVE  GrantsAccounted' /\ AnswersBacked'
  OBVIOUS
<1> DEFINE Quiet == /\ UNCHANGED <<now, grants, answered, dnsTx>>
                    /\ learned \in SUBSET learned'
<1>0. /\ now \in Nat /\ grants \in Grants /\ ClampTtl(AnswerTtl) \in Nat /\ AnswerTtl \in Nat
      /\ AnswerTtl <= ClampTtl(AnswerTtl) /\ \A a \in Dest : grants[a] \in Nat
      /\ \A a \in answered : a.granted \in Nat /\ Norm[a.dest] \in Dest
      /\ dnsTx \in Seq(Response) /\ Len(dnsTx) \in Nat
  <2>1. /\ now \in Nat /\ grants \in Grants /\ \A a \in Dest : grants[a] \in Nat
    BY DEF TypeOK, Grants
  <2>2. /\ ClampTtl(AnswerTtl) \in Nat /\ AnswerTtl \in Nat
        /\ AnswerTtl <= ClampTtl(AnswerTtl)
    BY TimeAssumption, ClampBounds
  <2>3. \A a \in answered : a.granted \in Nat /\ Norm[a.dest] \in Dest
    BY NormAssumption DEF TypeOK, Answer
  <2>4. dnsTx \in Seq(Response) /\ Len(dnsTx) \in Nat
    BY DEF TypeOK
  <2> QED
    BY <2>1, <2>2, <2>3, <2>4
<1>a. ASSUME NEW i \in 1 .. Len(dnsTx), NEW d \in dnsTx[i].ips
      PROVE  dnsTx[i].granted \in Nat /\ Norm[d] \in Dest
  <2>1. dnsTx[i] \in Response
    BY <1>0
  <2>2. d \in Dest /\ dnsTx[i].granted \in Nat
    BY <2>1 DEF Response
  <2> QED
    BY <2>2, NormAssumption
<1>1. Quiet => GrantsAccounted' /\ AnswersBacked'
  <2> SUFFICES ASSUME Quiet PROVE GrantsAccounted' /\ AnswersBacked'
    OBVIOUS
  <2>1. GrantsAccounted'
    BY DEF GrantsAccounted
  <2>2. AnswersBacked'
    BY DEF AnswersBacked, Backed, IsRelayable
  <2> QED
    BY <2>1, <2>2
<1>2. CASE AnswerQuery
  <2> DEFINE ips == Relayable(Head(dnsReplies).ips)
             expiry == now + ClampTtl(AnswerTtl)
             new == [ips |-> ips, granted |-> now]
  <2>1. UNCHANGED <<now, learned, answered>>
    BY <1>2 DEF AnswerQuery, loopVars
  <2>2. dnsTx' = Append(dnsTx, new) \/ dnsTx' = dnsTx
    BY <1>2 DEF AnswerQuery
  <2>3. /\ ips \in SUBSET learned /\ \A d \in ips : IsRelayable(d) /\ Norm[d] \in Dest
        /\ \A a \in Dest :
             /\ grants'[a] \in Nat
             /\ a \in {Norm[x] : x \in ips} => grants'[a] >= expiry
             /\ grants[a] > now => grants'[a] >= grants[a]
             /\ grants'[a] > now =>
                  grants'[a] = grants[a] \/ (a \in {Norm[x] : x \in ips} /\ grants'[a] = expiry)
    <3>1. ASSUME NEW a \in Dest
          PROVE  /\ ips \in SUBSET learned
                 /\ grants'[a] \in Nat
                 /\ a \in {Norm[x] : x \in ips} => grants'[a] >= expiry
                 /\ grants[a] > now => grants'[a] >= grants[a]
                 /\ grants'[a] > now =>
                      grants'[a] = grants[a] \/ (a \in {Norm[x] : x \in ips} /\ grants'[a] = expiry)
      BY <1>2, AnswerEntry
    <3>2. ips \in SUBSET Dest /\ \A d \in ips : IsRelayable(d) /\ Norm[d] \in Dest
      <4>1. Head(dnsReplies) \in Reply
        BY <1>2, QueueParts DEF AnswerQuery, TypeOK
      <4> QED
        BY <4>1, NormAssumption DEF Reply, Relayable
    <3>3. ips \in SUBSET learned
      BY <3>1, <3>2
    <3> QED
      BY <3>1, <3>2, <3>3
  <2> HIDE DEF ips
  <2>4. GrantsAccounted'
    <3> SUFFICES ASSUME NEW a \in Dest, grants'[a] > now
                 PROVE  /\ grants'[a] <= now + ClampTtl(AnswerTtl)
                        /\ \E x \in learned \ HostLocal : Norm[x] = a
      BY <2>1 DEF GrantsAccounted
    <3>1. CASE grants'[a] = grants[a]
      BY <3>1 DEF GrantsAccounted
    <3>2. CASE a \in {Norm[x] : x \in ips} /\ grants'[a] = expiry
      BY <1>0, <2>3, <3>2 DEF IsRelayable
    <3> QED
      BY <2>3, <3>1, <3>2
  <2>5. ASSUME NEW d, NEW t \in Nat, Norm[d] \in Dest, Backed(d, t)
        PROVE  Backed(d, t)'
    <3>1. CASE t + AnswerTtl > now
      BY <1>0, <2>1, <2>3, <2>5, <3>1 DEF Backed, IsRelayable
    <3>2. CASE ~(t + AnswerTtl > now)
      BY <2>1, <2>5, <3>2 DEF Backed, IsRelayable
    <3> QED
      BY <3>1, <3>2
  <2>6. ASSUME NEW d \in ips PROVE Backed(d, now)'
    <3>1. grants'[Norm[d]] >= expiry /\ grants'[Norm[d]] \in Nat
      BY <2>3
    <3> QED
      BY <1>0, <2>1, <2>3, <3>1 DEF Backed, IsRelayable
  <2>7. \A a \in answered' : Backed(a.dest, a.granted)'
    BY <1>0, <2>1, <2>5 DEF AnswersBacked
  <2>8. ASSUME NEW i \in 1 .. Len(dnsTx'), NEW d \in dnsTx'[i].ips
        PROVE  Backed(d, dnsTx[i].granted)'
    <3>1. CASE i \in 1 .. Len(dnsTx) /\ dnsTx'[i] = dnsTx[i]
      BY <1>a, <2>5, <2>8, <3>1 DEF AnswersBacked
    <3>2. CASE dnsTx'[i] = new
      <4>1. d \in ips /\ dnsTx'[i].granted = now
        BY <2>8, <3>2
      <4> QED
        BY <2>1, <2>6, <4>1 DEF Backed, IsRelayable
    <3>3. (i \in 1 .. Len(dnsTx) /\ dnsTx'[i] = dnsTx[i]) \/ dnsTx'[i] = new
      <4> HIDE DEF new
      <4> QED
        BY <1>0, <2>2
    <3> QED
      BY <3>1, <3>2, <3>3
  <2>9. AnswersBacked'
    BY <2>7, <2>8 DEF AnswersBacked
  <2> QED
    BY <2>4, <2>9
<1>3. CASE Tick
  <2>1. now' = now + 1 /\ UNCHANGED <<grants, answered, dnsTx, learned>>
    BY <1>3 DEF Tick, dnsVars
  <2>2. GrantsAccounted'
    BY <1>0, <2>1 DEF GrantsAccounted
  <2>3. ASSUME NEW d, NEW t \in Nat, Backed(d, t) PROVE Backed(d, t)'
    BY <1>0, <2>1, <2>3 DEF Backed, IsRelayable
  <2>4. AnswersBacked'
    BY <1>0, <1>a, <2>1, <2>3 DEF AnswersBacked
  <2> QED
    BY <2>2, <2>4
<1>4. CASE Poll
  <2>1. PICK n \in 0 .. Len(dnsTx) : /\ dnsTx' = SubSeq(dnsTx, n + 1, Len(dnsTx))
                                     /\ answered' = answered \union Tells(n)
    BY <1>4 DEF Poll
  <2>2. UNCHANGED <<now, grants, learned>>
    BY <1>4 DEF Poll
  <2>3. GrantsAccounted'
    BY <2>2 DEF GrantsAccounted
  <2>4. \A d, t : Backed(d, t) => Backed(d, t)'
    BY <2>2 DEF Backed, IsRelayable
  <2>5. \A i \in 1 .. Len(dnsTx') : i + n \in 1 .. Len(dnsTx) /\ dnsTx'[i] = dnsTx[i + n]
    BY <1>0, <2>1, LeftToTell
  <2>6. \A i \in 1 .. Len(dnsTx') : \A d \in dnsTx'[i].ips : Backed(d, dnsTx[i].granted)'
    BY <2>4, <2>5 DEF AnswersBacked
  <2>7. \A a \in Tells(n) : \E i \in 1 .. Len(dnsTx) :
           a.dest \in dnsTx[i].ips /\ a.granted = dnsTx[i].granted
    BY ToldTyped
  <2>8. \A a \in answered' : Backed(a.dest, a.granted)'
    BY <2>1, <2>4, <2>7 DEF AnswersBacked
  <2> QED
    BY <2>3, <2>6, <2>8 DEF AnswersBacked
<1>5. CASE StopLoop
  <2>1. dnsTx' = <<>> /\ UNCHANGED <<now, grants, learned, answered>>
    BY <1>5 DEF StopLoop
  <2>2. GrantsAccounted'
    BY <2>1 DEF GrantsAccounted
  <2>3. AnswersBacked'
    BY <2>1 DEF AnswersBacked, Backed, IsRelayable
  <2> QED
    BY <2>2, <2>3
<1>6. ASSUME NEW q, NEW ips PROVE LookupDone(q, ips) => Quiet
  BY DEF LookupDone, loopVars
<1>7. StartRound \/ QueriesDone \/ RepliesDone \/ RefuseOrDropQuery \/ StartLookup => Quiet
  BY DEF StartRound, QueriesDone, RepliesDone, RefuseOrDropQuery, StartLookup, dnsVars,
         loopVars
<1>8. RelayDatagrams \/ RelayStreams \/ RequestShutdown \/ UNCHANGED vars => Quiet
  BY DEF RelayDatagrams, RelayStreams, RequestShutdown, vars, dnsVars
<1>9. ASSUME NEW p, NEW d
      PROVE  RecvSyn(p, d) \/ RecvNewDatagram(p, d) \/ RecvNextDatagram(p, d)
               \/ RecvEcho(p, d) \/ RecvQuery(p) \/ ConnectDone(p, d) => Quiet
  BY DEF RecvSyn, RecvNewDatagram, RecvNextDatagram, RecvEcho, RecvQuery, ConnectDone,
         dnsVars, loopVars
<1> HIDE DEF Quiet
<1> QED
  BY <1>1, <1>2, <1>3, <1>4, <1>5, <1>6, <1>7, <1>8, <1>9
     DEF Next, Loop, Receive, ResolverThread, ConnectThread

LEMMA RelayedStep ==
    TypeOK /\ GrantsAccounted /\ OnlyListedEgress /\ [Next]_vars => OnlyListedEgress'
<1> SUFFICES ASSUME TypeOK, GrantsAccounted, OnlyListedEgress, [Next]_vars
             PROVE  OnlyListedEgress'
  OBVIOUS
<1> DEFINE Fine(d) == /\ d \notin HostLocal
                      /\ Norm[d] \in StaticDest \union {Norm[x] : x \in learned \ HostLocal}
           NoMore == Relayed' \in SUBSET Relayed /\ learned \in SUBSET learned'
           OneMore(d) == /\ Relayed' \in SUBSET (Relayed \union {d})
                         /\ Fine(d) /\ learned' = learned
<1>1. NoMore => OnlyListedEgress'
  BY DEF OnlyListedEgress
<1>2. ASSUME NEW d \in Dest, OneMore(d) PROVE OnlyListedEgress'
  BY <1>2 DEF OnlyListedEgress
<1>3. ASSUME NEW d \in Dest, Admits(d) PROVE Fine(d)
  BY <1>3, AdmittedIsListed
<1>4. ASSUME NEW p \in TcpPort, NEW d \in Dest, RecvSyn(p, d) PROVE OneMore(d)
  <2> DEFINE k == [port |-> p, dest |-> d]
  <2>1. /\ DOMAIN flowKeys' = DOMAIN flowKeys \union {k} /\ k.dest = d
        /\ UNCHANGED <<udpFlows, icmpFlows, learned>>
    BY <1>4 DEF RecvSyn, Insert, dgramVars, dnsVars
  <2>2. Fine(d)
    BY <1>3, <1>4 DEF RecvSyn
  <2> HIDE DEF k
  <2>3. Relayed' \in SUBSET (Relayed \union {d})
    BY <2>1 DEF Relayed
  <2> QED
    BY <2>1, <2>2, <2>3
<1>5. ASSUME NEW p \in UdpPort, NEW d \in Dest, RecvNewDatagram(p, d) PROVE OneMore(d)
  <2> DEFINE k == [port |-> p, dest |-> d]
  <2>1. /\ DOMAIN udpFlows' = DOMAIN udpFlows \union {k} /\ k.dest = d
        /\ UNCHANGED <<flowKeys, icmpFlows, learned>>
    BY <1>5 DEF RecvNewDatagram, Insert, tcpVars, dnsVars
  <2>2. Fine(d)
    BY <1>3, <1>5 DEF RecvNewDatagram
  <2> HIDE DEF k
  <2>3. Relayed' \in SUBSET (Relayed \union {d})
    BY <2>1 DEF Relayed
  <2> QED
    BY <2>1, <2>2, <2>3
<1>6. ASSUME NEW i \in EchoId, NEW d \in Dest, RecvEcho(i, d) PROVE OneMore(d)
  <2> DEFINE k == [port |-> i, dest |-> d]
  <2>1. /\ DOMAIN icmpFlows' = DOMAIN icmpFlows \union {k} /\ k.dest = d
        /\ UNCHANGED <<flowKeys, udpFlows, learned>>
    BY <1>6 DEF RecvEcho, Insert, tcpVars, dnsVars
  <2>2. Fine(d)
    BY <1>3, <1>6 DEF RecvEcho
  <2> HIDE DEF k
  <2>3. Relayed' \in SUBSET (Relayed \union {d})
    BY <2>1 DEF Relayed
  <2> QED
    BY <2>1, <2>2, <2>3
<1>7. ASSUME NEW p, NEW d, RecvNextDatagram(p, d) PROVE NoMore
  BY <1>7 DEF RecvNextDatagram, Relayed, tcpVars, dnsVars
<1>8. CASE RelayDatagrams
  <2>1. /\ DOMAIN udpFlows' \in SUBSET DOMAIN udpFlows
        /\ DOMAIN icmpFlows' \in SUBSET DOMAIN icmpFlows
        /\ UNCHANGED <<flowKeys, learned>>
    BY <1>8 DEF RelayDatagrams, tcpVars, dnsVars
  <2> QED
    BY <1>1, <2>1 DEF Relayed
<1>9. CASE RelayStreams
  <2>1. /\ DOMAIN flowKeys' \in SUBSET DOMAIN flowKeys
        /\ UNCHANGED <<udpFlows, icmpFlows, learned>>
    BY <1>9 DEF RelayStreams, FlowKeysAfter, Remove, dgramVars, dnsVars
  <2> QED
    BY <1>1, <2>1 DEF Relayed
<1>10. CASE StopLoop
  <2>1. DOMAIN flowKeys' = {} /\ DOMAIN udpFlows' = {} /\ DOMAIN icmpFlows' = {}
    BY <1>10 DEF StopLoop, NoKeys
  <2> QED
    BY <2>1 DEF Relayed, OnlyListedEgress
<1>11. ASSUME NEW q, NEW ips PROVE LookupDone(q, ips) => NoMore
  BY DEF LookupDone, tcpVars, dgramVars, Relayed
<1>12. StartRound \/ Poll \/ QueriesDone \/ RepliesDone \/ RefuseOrDropQuery
         \/ StartLookup \/ AnswerQuery => NoMore
  BY DEF StartRound, Poll, QueriesDone, RepliesDone, RefuseOrDropQuery, StartLookup,
         AnswerQuery, dnsVars, tcpVars, dgramVars, Relayed
<1>13. ASSUME NEW p, NEW d PROVE RecvQuery(p) \/ ConnectDone(p, d) => NoMore
  BY DEF RecvQuery, ConnectDone, dnsVars, tcpVars, dgramVars, Relayed
<1>14. RequestShutdown \/ Tick \/ UNCHANGED vars => NoMore
  BY DEF RequestShutdown, Tick, vars, dnsVars, tcpVars, dgramVars, Relayed
<1> HIDE DEF NoMore, OneMore
<1> QED
  BY <1>1, <1>2, <1>4, <1>5, <1>6, <1>7, <1>8, <1>9, <1>10, <1>11, <1>12, <1>13, <1>14
     DEF Next, Loop, Receive, ResolverThread, ConnectThread

LEMMA EgressAlways == Spec => []EgressInv
<1>1. Init => EgressInv
  <2> SUFFICES ASSUME Init PROVE EgressInv
    OBVIOUS
  <2>1. RepliesListed
    BY DEF Init, RepliesListed
  <2>2. GrantsAccounted
    BY DEF Init, GrantsAccounted, NewFilter, NoEntry
  <2>3. AnswersBacked
    <3>1. Len(dnsTx) = 0 /\ answered = {}
      BY DEF Init
    <3> QED
      BY <3>1 DEF AnswersBacked
  <2>4. OnlyListedEgress
    BY NoKeysIsMap DEF Init, OnlyListedEgress, Relayed
  <2> QED
    BY <2>1, <2>2, <2>3, <2>4 DEF EgressInv
<1>2. TypeOK /\ EgressInv /\ [Next]_vars => EgressInv'
  BY RepliesStep, GrantsStep, RelayedStep DEF EgressInv
<1> QED
  BY <1>1, <1>2, TypeCorrect, PTL DEF Spec

\* Every destination the gate relays to is covered by the policy or was looked
\* up for an allow-listed name, and is written in no form that the guard lists.
THEOREM EgressListed == Spec => []OnlyListedEgress
<1>1. EgressInv => OnlyListedEgress
  BY DEF EgressInv
<1> QED
  BY <1>1, EgressAlways, PTL

\* Whatever the filter admits beyond the policy is traced to a lookup and is
\* bounded in time.
THEOREM GrantsTraced == Spec => []GrantsAccounted
<1>1. EgressInv => GrantsAccounted
  BY DEF EgressInv
<1> QED
  BY <1>1, EgressAlways, PTL

\* The guard's one gap: an address it lists is admitted or reached only through
\* another form of it, which a lookup returned or, for a flow to an address that
\* the policy covers, the guest wrote.
THEOREM GuardGap == Spec => []HostOnlyMapped
<1>1. TypeOK /\ EgressInv => HostOnlyMapped
  <2> SUFFICES ASSUME TypeOK, GrantsAccounted, OnlyListedEgress PROVE HostOnlyMapped
    BY DEF EgressInv
  <2>1. ASSUME NEW d \in HostLocal, grants[d] > now
        PROVE  \E x \in learned : x # d /\ Norm[x] = d
    <3>1. d \in Dest
      BY DestAssumption
    <3> QED
      BY <2>1, <3>1 DEF GrantsAccounted
  <2>2. ASSUME NEW d \in Relayed, Norm[d] \in HostLocal
        PROVE  /\ d # Norm[d]
               /\ \/ Norm[d] \in StaticDest
                  \/ \E x \in learned : x # Norm[x] /\ Norm[x] = Norm[d]
    BY <2>2 DEF OnlyListedEgress
  <2> QED
    BY <2>1, <2>2 DEF HostOnlyMapped
<1> QED
  BY <1>1, EgressAlways, TypeCorrect, PTL

\* An address the guest was told is admitted for the TTL it was told, less the
\* time the answer was queued.
THEOREM AnswersHonoured == Spec => []AnswersAdmitted
<1>1. TypeOK /\ EgressInv => AnswersAdmitted
  <2> SUFFICES ASSUME TypeOK, EgressInv, NEW a \in answered, now + Lag(a) < a.told + AnswerTtl
               PROVE  Admits(a.dest)
    BY DEF AnswersAdmitted
  <2>1. /\ now \in Nat /\ a.granted \in Nat /\ a.told \in Nat /\ AnswerTtl \in Nat
        /\ Norm[a.dest] \in Dest /\ grants[Norm[a.dest]] \in Nat
    BY TimeAssumption, NormAssumption DEF TypeOK, Grants, Answer
  <2>2. now < a.granted + AnswerTtl
    BY <2>1 DEF Lag
  <2>3. IsRelayable(a.dest) /\ grants[Norm[a.dest]] >= a.granted + AnswerTtl
    BY <2>1, <2>2 DEF EgressInv, AnswersBacked, Backed
  <2> QED
    BY <2>1, <2>2, <2>3 DEF Admits, AllowsIp
<1> QED
  BY <1>1, EgressAlways, TypeCorrect, PTL

-----------------------------------------------------------------------------
(***************************************************************************)
(* The gate implements EgressLease, for every set of addresses, names,     *)
(* ports and sockets, every cap and every TTL: each step of the loop, of   *)
(* its threads and of the clock is one step of the promise or none.        *)
(***************************************************************************)
\* A step the promise does not see.
Unseen == UNCHANGED <<learned, Leases, Relayed>>

LEMMA InitPromised == Init => Promise!Init
<1> SUFFICES ASSUME Init PROVE Promise!Init
  OBVIOUS
<1>1. learned = {} /\ Leases = [d \in Dest |-> 0]
  BY DEF Init, Leases, NewFilter, NoEntry
<1>2. Relayed = {}
  BY NoKeysIsMap DEF Init, Relayed
<1> QED
  BY <1>1, <1>2 DEF Promise!Init

\* What admits a flow in the gate admits it in the promise.
LEMMA AdmitsPromised ==
    ASSUME TypeOK, NEW d \in Dest, Admits(d)
    PROVE  Promise!Admitted(d)
<1>1. Norm[d] \in Dest /\ now \in Nat /\ grants[Norm[d]] \in Nat
  BY NormAssumption DEF TypeOK, Grants
<1>2. grants[Norm[d]] > now => Leases[Norm[d]] > 0
  BY <1>1 DEF Leases
<1> QED
  BY <1>2 DEF Admits, AllowsIp, IsRelayable, Promise!Admitted

LEMMA OpenPromised ==
    ASSUME TypeOK, NEW d \in Dest, Admits(d), Relayed' = Relayed \union {d},
           UNCHANGED <<learned, Leases>>
    PROVE  Promise!Next
BY AdmitsPromised DEF Promise!Next, Promise!Open

LEMMA RelayedTyped == TypeOK => Relayed \subseteq Dest
BY DEF TypeOK, IsMap, Relayed, TcpKey, UdpKey, IcmpKey

LEMMA ClosePromised ==
    ASSUME TypeOK, Relayed' \subseteq Relayed, UNCHANGED <<learned, Leases>>
    PROVE  Promise!Next
<1>1. Relayed' = Relayed \ (Relayed \ Relayed') /\ (Relayed \ Relayed') \in SUBSET Dest
  BY RelayedTyped
<1>2. Promise!Close(Relayed \ Relayed')
  BY <1>1 DEF Promise!Close
<1> QED
  BY <1>1, <1>2 DEF Promise!Next

-----------------------------------------------------------------------------
\* The filter's map after a reply, as leases.
LEMMA ObservedLease ==
    ASSUME NEW g \in Grants, NEW D \in SUBSET Dest, NEW t \in Nat, NEW a \in Dest
    PROVE  LET before == IF g[a] > t THEN g[a] - t ELSE 0
               e      == Observed(g, D, AnswerTtl, t)[a]
           IN  (IF e > t THEN e - t ELSE 0)
                  = IF a \in {Norm[x] : x \in D} /\ before < ClampTtl(AnswerTtl)
                    THEN ClampTtl(AnswerTtl) ELSE before
<1>1. ClampTtl(AnswerTtl) \in Nat /\ ClampTtl(AnswerTtl) > 0 /\ g[a] \in Nat
  BY TimeAssumption, ClampBounds DEF Grants
<1> DEFINE expiry == t + ClampTtl(AnswerTtl)
           raised == IF a \in {Norm[x] : x \in D} /\ g[a] < expiry THEN expiry ELSE g[a]
<1>2. Observed(g, D, AnswerTtl, t)[a] = IF raised > t THEN raised ELSE 0
  BY DEF Observed, Live, NoEntry
<1> QED
  BY <1>1, <1>2

LEMMA AnswerPromised ==
    ASSUME TypeOK, RepliesListed, AnswerQuery
    PROVE  Promise!Next
<1> DEFINE ips == Relayable(Head(dnsReplies).ips)
<1>1. /\ dnsReplies \in Seq(Reply) /\ dnsReplies # <<>> /\ now \in Nat /\ grants \in Grants
      /\ learned \in SUBSET Dest
  BY DEF TypeOK, AnswerQuery
<1>2. Head(dnsReplies) = dnsReplies[1] /\ 1 \in 1 .. Len(dnsReplies)
  BY <1>1, QueueParts
<1>3. ips \in SUBSET learned /\ ips \in SUBSET Dest /\ ips \subseteq learned \ HostLocal
  BY <1>1, <1>2 DEF RepliesListed, Relayable, IsRelayable
<1>4. grants' = IF ips # {} THEN Observed(grants, ips, AnswerTtl, now) ELSE grants
  BY <1>2 DEF AnswerQuery, GrantsFor, ObserveEach, MatchesHostname, RepliesListed
<1>5. UNCHANGED <<now, learned, Relayed>>
  BY DEF AnswerQuery, loopVars, tcpVars, dgramVars, Relayed
<1> HIDE DEF ips
<1>6. Leases' = [d \in Dest |-> IF d \in {Norm[x] : x \in ips} /\ Leases[d] < ClampTtl(AnswerTtl)
                                THEN ClampTtl(AnswerTtl) ELSE Leases[d]]
  <2>1. CASE ips = {}
    BY <1>4, <1>5, <2>1 DEF Leases
  <2>2. CASE ips # {}
    <3>1. ASSUME NEW d \in Dest
          PROVE  (IF grants'[d] > now THEN grants'[d] - now ELSE 0)
                    = IF d \in {Norm[x] : x \in ips} /\ Leases[d] < ClampTtl(AnswerTtl)
                      THEN ClampTtl(AnswerTtl) ELSE Leases[d]
      BY <1>1, <1>3, <1>4, <2>2, ObservedLease DEF Leases
    <3> QED
      BY <1>5, <3>1 DEF Leases
  <2> QED
    BY <2>1, <2>2
<1>7. Promise!Grant(ips)
  BY <1>3, <1>5, <1>6 DEF Promise!Grant
<1> QED
  BY <1>3, <1>7 DEF Promise!Next

LEMMA TickPromised ==
    ASSUME TypeOK, Tick
    PROVE  Promise!Next
<1>1. /\ now \in Nat /\ \A d \in Dest : grants[d] \in Nat
      /\ now' = now + 1 /\ UNCHANGED <<grants, learned, Relayed>>
  BY DEF TypeOK, Tick, Grants, dnsVars, tcpVars, dgramVars, Relayed
<1>2. Leases' = [d \in Dest |-> IF Leases[d] > 0 THEN Leases[d] - 1 ELSE 0]
  BY <1>1 DEF Leases
<1> QED
  BY <1>1, <1>2 DEF Promise!Next, Promise!Second

-----------------------------------------------------------------------------
LEMMA StepPromised ==
    TypeOK /\ RepliesListed /\ [Next]_vars => [Promise!Next]_(Promise!vars)
<1> SUFFICES ASSUME TypeOK, RepliesListed, [Next]_vars
             PROVE  Promise!Next \/ Unseen
  BY DEF Promise!vars, Unseen
<1> DEFINE Same == UNCHANGED <<learned, Leases>>
<1>1. ASSUME NEW p \in TcpPort, NEW d \in Dest, RecvSyn(p, d) PROVE Promise!Next
  <2> DEFINE k == [port |-> p, dest |-> d]
  <2>1. /\ DOMAIN flowKeys' = DOMAIN flowKeys \union {k} /\ k.dest = d
        /\ UNCHANGED <<udpFlows, icmpFlows, learned, grants, now>> /\ Admits(d)
    BY <1>1 DEF RecvSyn, Insert, dgramVars, dnsVars, loopVars
  <2> HIDE DEF k
  <2>2. Relayed' = Relayed \union {d}
    BY <2>1 DEF Relayed
  <2> QED
    BY <2>1, <2>2, OpenPromised DEF Leases
<1>2. ASSUME NEW p \in UdpPort, NEW d \in Dest, RecvNewDatagram(p, d) PROVE Promise!Next
  <2> DEFINE k == [port |-> p, dest |-> d]
  <2>1. /\ DOMAIN udpFlows' = DOMAIN udpFlows \union {k} /\ k.dest = d
        /\ UNCHANGED <<flowKeys, icmpFlows, learned, grants, now>> /\ Admits(d)
    BY <1>2 DEF RecvNewDatagram, Insert, tcpVars, dnsVars, loopVars
  <2> HIDE DEF k
  <2>2. Relayed' = Relayed \union {d}
    BY <2>1 DEF Relayed
  <2> QED
    BY <2>1, <2>2, OpenPromised DEF Leases
<1>3. ASSUME NEW i \in EchoId, NEW d \in Dest, RecvEcho(i, d) PROVE Promise!Next
  <2> DEFINE k == [port |-> i, dest |-> d]
  <2>1. /\ DOMAIN icmpFlows' = DOMAIN icmpFlows \union {k} /\ k.dest = d
        /\ UNCHANGED <<flowKeys, udpFlows, learned, grants, now>> /\ Admits(d)
    BY <1>3 DEF RecvEcho, Insert, tcpVars, dnsVars, loopVars
  <2> HIDE DEF k
  <2>2. Relayed' = Relayed \union {d}
    BY <2>1 DEF Relayed
  <2> QED
    BY <2>1, <2>2, OpenPromised DEF Leases
<1>4. ASSUME NEW p \in UdpPort, NEW d \in Dest, RecvNextDatagram(p, d) PROVE Unseen
  <2>1. DOMAIN udpFlows' = DOMAIN udpFlows
        /\ UNCHANGED <<flowKeys, icmpFlows, learned, grants, now>>
    BY <1>4 DEF RecvNextDatagram, tcpVars, dnsVars, loopVars
  <2> QED
    BY <2>1 DEF Unseen, Leases, Relayed
<1>5. CASE RelayDatagrams
  <2>1. /\ DOMAIN udpFlows' \in SUBSET DOMAIN udpFlows
        /\ DOMAIN icmpFlows' \in SUBSET DOMAIN icmpFlows
        /\ UNCHANGED <<flowKeys, learned, grants, now>>
    BY <1>5 DEF RelayDatagrams, tcpVars, dnsVars
  <2>2. Relayed' \subseteq Relayed
    BY <2>1 DEF Relayed
  <2> QED
    BY <2>1, <2>2, ClosePromised DEF Leases
<1>6. CASE RelayStreams
  <2>1. /\ DOMAIN flowKeys' \in SUBSET DOMAIN flowKeys
        /\ UNCHANGED <<udpFlows, icmpFlows, learned, grants, now>>
    BY <1>6 DEF RelayStreams, FlowKeysAfter, Remove, dgramVars, dnsVars
  <2>2. Relayed' \subseteq Relayed
    BY <2>1 DEF Relayed
  <2> QED
    BY <2>1, <2>2, ClosePromised DEF Leases
<1>7. CASE StopLoop
  <2>1. /\ DOMAIN flowKeys' = {} /\ DOMAIN udpFlows' = {} /\ DOMAIN icmpFlows' = {}
        /\ UNCHANGED <<learned, grants, now>>
    BY <1>7 DEF StopLoop, NoKeys
  <2>2. Relayed' \subseteq Relayed
    BY <2>1 DEF Relayed
  <2> QED
    BY <2>1, <2>2, ClosePromised DEF Leases
<1>8. ASSUME NEW q \in resolving, NEW ips \in Resolution, LookupDone(q, ips)
      PROVE  Promise!Next
  <2>1. /\ learned' = learned \union ips
        /\ UNCHANGED <<flowKeys, udpFlows, icmpFlows, grants, now>>
    BY <1>8 DEF LookupDone, RepliesListed, tcpVars, dgramVars, loopVars
  <2>2. UNCHANGED <<Leases, Relayed>>
    BY <2>1 DEF Leases, Relayed
  <2>3. ips \in SUBSET Dest
    BY DestAssumption
  <2> QED
    BY <2>1, <2>2, <2>3 DEF Promise!Next, Promise!Resolve
<1>9. StartRound \/ Poll \/ QueriesDone \/ RepliesDone \/ RefuseOrDropQuery \/ StartLookup
        => Unseen
  BY DEF StartRound, Poll, QueriesDone, RepliesDone, RefuseOrDropQuery, StartLookup,
         dnsVars, tcpVars, dgramVars, loopVars, Relayed, Leases, Unseen
<1>10. ASSUME NEW p, NEW d PROVE RecvQuery(p) \/ ConnectDone(p, d) => Unseen
  BY DEF RecvQuery, ConnectDone, dnsVars, tcpVars, dgramVars, loopVars, Relayed, Leases,
         Unseen
<1>11. RequestShutdown \/ UNCHANGED vars => Unseen
  BY DEF RequestShutdown, vars, dnsVars, tcpVars, dgramVars, Relayed, Leases, Unseen
<1> HIDE DEF Unseen
<1> QED
  BY <1>1, <1>2, <1>3, <1>4, <1>5, <1>6, <1>7, <1>8, <1>9, <1>10, <1>11, AnswerPromised,
     TickPromised DEF Next, Loop, Receive, ResolverThread, ConnectThread

\* The gate gives out leases on what was looked up and opens flows under them,
\* and does nothing else (gate.rs 16-18): the refinement of EgressLease.
THEOREM GateKeepsPromise == Spec => ImplementsLease
<1>1. TypeOK /\ EgressInv /\ [Next]_vars => [Promise!Next]_(Promise!vars)
  BY StepPromised DEF EgressInv
<1> QED
  BY <1>1, InitPromised, TypeCorrect, EgressAlways, PTL DEF Spec, ImplementsLease, Promise!Spec
=============================================================================
