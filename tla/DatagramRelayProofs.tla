------------------------ MODULE DatagramRelayProofs ------------------------
(***************************************************************************)
(* As long as no guest port turns to a server while another port's flow to *)
(* it is alive, replies reach the port that asked, for every set of ports, *)
(* servers and slots and every idle time.                                  *)
(***************************************************************************)
EXTENDS DatagramRelay, TLAPS

\* A socket's queue holds datagrams of one flow only.
Own(k, rx) == \A i \in DOMAIN rx : rx[i].key = k

\* What ties a flow, its slot and its host socket to one guest port.
FlowOwned(k) ==
    LET f == flows[k] IN
    /\ f.slot \in DOMAIN sockets
    /\ sockets[f.slot].dest = k[2]
    /\ Own(k, sockets[f.slot].rx)
    /\ f.guest = k[1] /\ f.asked \subseteq {k[1]} /\ f.replies \subseteq {k[1]}

OnePerServer == \A k, l \in DOMAIN flows : k[2] = l[2] => k = l

SlotsOwned == \A s \in DOMAIN sockets : \E k \in DOMAIN flows : flows[k].slot = s

FramesOwned ==
    /\ \A i \in DOMAIN frames : frames[i].key \in DOMAIN flows
    /\ phase = "relay" => frames = <<>>

Ownership ==
    /\ OnePerServer /\ SlotsOwned /\ FramesOwned
    /\ \A k \in DOMAIN flows : FlowOwned(k)

\* The invariant that carries itself from step to step.
IInv == DatagramTypeOK /\ Ownership /\ RepliesToAsker

LEMMA KeyParts ==
    ASSUME NEW k \in Key
    PROVE  k[1] \in Port /\ k[2] \in Dest /\ k = <<k[1], k[2]>>
BY DEF Key

LEMMA InitHolds == Init => IInv
BY DEF Init, IInv, DatagramTypeOK, Ownership, OnePerServer, SlotsOwned, FramesOwned,
       RepliesToAsker

-----------------------------------------------------------------------------
\* Frames stay sequences of keys.
LEMMA QueueKeeps ==
    ASSUME DatagramTypeOK, NEW k \in Key, Queue(k)
    PROVE  /\ frames' \in Seq(Datagram)
           /\ \A i \in DOMAIN frames' :
                 frames'[i].key = k \/ (i \in DOMAIN frames /\ frames'[i] = frames[i])
           /\ phase = "drain" /\ count' \in Nat /\ UNCHANGED <<out, lost>>
<1> DEFINE g == [key |-> k, id |-> count + 1]
<1>1. /\ frames \in Seq(Datagram) /\ count \in Nat
      /\ phase = "drain" /\ frames' = Append(frames, g) /\ count' = count + 1
      /\ UNCHANGED <<out, lost>>
    BY DEF DatagramTypeOK, Queue
<1>2. g \in Datagram /\ g.key = k
    BY <1>1 DEF Datagram
<1> HIDE DEF g
<1>3. QED
    BY <1>1, <1>2

LEMMA FirstHolds ==
    ASSUME Overlap = FALSE, IInv, NEW k \in Key, RecvFirst(k)
    PROVE  IInv'
<1>1. PICK s \in Slot \ DOMAIN sockets : OpenUdpFlow(k, s)
    BY DEF RecvFirst
<1>k. k[1] \in Port /\ k[2] \in Dest
    BY KeyParts
<1>q. Queue(k) /\ k \notin DOMAIN flows /\ UNCHANGED <<now, phase, delivered>>
    BY DEF RecvFirst
<1>f. /\ DOMAIN flows' = DOMAIN flows \union {k}
      /\ flows'[k] = [slot |-> s, guest |-> k[1], last |-> now, asked |-> {}, replies |-> {}]
      /\ \A l \in DOMAIN flows : flows'[l] = flows[l]
    BY <1>1, <1>q DEF OpenUdpFlow, Put
<1>s. /\ DOMAIN sockets' = DOMAIN sockets \union {s}
      /\ sockets'[s] = [dest |-> k[2], rx |-> <<>>]
      /\ \A t \in DOMAIN sockets : sockets'[t] = sockets[t]
    BY <1>1 DEF OpenUdpFlow, Put
<1>2. DatagramTypeOK'
  <2>1. flows'[k] \in UdpFlow /\ sockets'[s] \in UdpSocket
      BY <1>f, <1>s, <1>k DEF IInv, DatagramTypeOK, UdpFlow, UdpSocket
  <2>2. QED
      BY <2>1, <1>f, <1>s, <1>q, QueueKeeps DEF IInv, DatagramTypeOK
<1>3. OnePerServer'
  <2>1. \A l \in DOMAIN flows : l[2] # k[2]
      BY <1>q DEF Queue, Alone
  <2>2. QED
      BY <2>1, <1>f DEF IInv, Ownership, OnePerServer
<1>4. SlotsOwned'
    BY <1>f, <1>s, <1>q DEF IInv, Ownership, SlotsOwned
<1>5. FramesOwned'
    BY <1>q, <1>f, QueueKeeps DEF IInv, Ownership, FramesOwned
<1>6. \A l \in DOMAIN flows' : FlowOwned(l)'
    BY <1>f, <1>s, <1>1 DEF IInv, Ownership, FlowOwned, Own
<1>7. QED
    BY <1>2, <1>3, <1>4, <1>5, <1>6, <1>q DEF IInv, Ownership, RepliesToAsker

LEMMA NextHolds ==
    ASSUME IInv, NEW k \in Key, RecvNext(k)
    PROVE  IInv'
<1>q. Queue(k) /\ k \in DOMAIN flows /\ UNCHANGED <<now, phase, sockets, delivered>>
    BY DEF RecvNext
<1>f. /\ DOMAIN flows' = DOMAIN flows
      /\ flows'[k] = [flows[k] EXCEPT !.last = now]
      /\ \A l \in DOMAIN flows : l # k => flows'[l] = flows[l]
    BY DEF RecvNext
<1>k. flows[k] \in UdpFlow /\ now \in Nat
    BY <1>q DEF IInv, DatagramTypeOK
<1>e. /\ flows'[k] \in UdpFlow /\ flows'[k].slot = flows[k].slot
      /\ flows'[k].guest = flows[k].guest /\ flows'[k].asked = flows[k].asked
      /\ flows'[k].replies = flows[k].replies
    BY <1>f, <1>k DEF UdpFlow
<1>2. DatagramTypeOK'
    BY <1>e, <1>f, <1>q, QueueKeeps DEF IInv, DatagramTypeOK
<1>3. OnePerServer'
    BY <1>f DEF IInv, Ownership, OnePerServer
<1>4. SlotsOwned'
  <2>1. \A l \in DOMAIN flows : flows'[l].slot = flows[l].slot
      BY <1>f, <1>e
  <2>2. QED
      BY <2>1, <1>f, <1>q DEF IInv, Ownership, SlotsOwned
<1>5. FramesOwned'
    BY <1>q, <1>f, QueueKeeps DEF IInv, Ownership, FramesOwned
<1>6. \A l \in DOMAIN flows' : FlowOwned(l)'
  <2> SUFFICES ASSUME NEW l \in DOMAIN flows PROVE FlowOwned(l)'
      BY <1>f
  <2>1. FlowOwned(l) /\ sockets' = sockets
      BY <1>q DEF IInv, Ownership
  <2>2. /\ flows'[l].slot = flows[l].slot /\ flows'[l].guest = flows[l].guest
        /\ flows'[l].asked = flows[l].asked /\ flows'[l].replies = flows[l].replies
      BY <1>f, <1>e
  <2>3. QED
      BY <2>1, <2>2 DEF FlowOwned
<1>7. QED
    BY <1>2, <1>3, <1>4, <1>5, <1>6, <1>q DEF IInv, Ownership, RepliesToAsker

-----------------------------------------------------------------------------
\* The one socket that claims a datagram is its own flow's.
LEMMA PollHolds ==
    ASSUME IInv, Poll
    PROVE  IInv'
<1> DEFINE g == Head(frames)
           k == g.key
<1>q. /\ frames # <<>> /\ frames' = Tail(frames) /\ phase = "poll"
      /\ UNCHANGED <<now, phase, flows, count, out, delivered>>
    BY DEF Poll
<1>k. k \in DOMAIN flows /\ k[1] \in Port /\ g \in Datagram
  <2>1. frames \in Seq(Datagram) /\ g = frames[1] /\ 1 \in DOMAIN frames
      BY <1>q DEF IInv, DatagramTypeOK
  <2>2. g \in Datagram /\ k \in DOMAIN flows
      BY <2>1 DEF IInv, Ownership, FramesOwned
  <2>3. QED
      BY <2>2, KeyParts DEF Datagram
<1>t. \A s \in Claims(k[2]) : s \in DOMAIN sockets /\ s = flows[k].slot
  <2> SUFFICES ASSUME NEW s \in Claims(k[2]) PROVE s \in DOMAIN sockets /\ s = flows[k].slot
      OBVIOUS
  <2>0. s \in DOMAIN sockets /\ sockets[s].dest = k[2]
      BY DEF Claims, Accepts
  <2>1. PICK l \in DOMAIN flows : flows[l].slot = s
      BY <2>0 DEF IInv, Ownership, SlotsOwned
  <2>2. l[2] = k[2]
      BY <2>0, <2>1 DEF IInv, Ownership, FlowOwned
  <2>3. QED
      BY <2>0, <2>1, <2>2, <1>k DEF IInv, Ownership, OnePerServer
<1>p. /\ lost' \subseteq Datagram
      /\ \/ UNCHANGED sockets
         \/ \E s \in Claims(k[2]) : sockets' = [sockets EXCEPT ![s].rx = Append(@, g)]
  <2>1. lost \subseteq Datagram
      BY DEF IInv, DatagramTypeOK
  <2> HIDE DEF k
  <2>2. QED
      BY <1>k, <2>1 DEF Poll, k
<1> HIDE DEF k, g
<1> DEFINE Fine(s) ==
             /\ sockets'[s] \in UdpSocket /\ sockets'[s].dest = sockets[s].dest
             /\ \/ sockets'[s].rx = sockets[s].rx
                \/ s = flows[k].slot /\ sockets'[s].rx = Append(sockets[s].rx, g)
<1>d. DOMAIN sockets' = DOMAIN sockets /\ \A s \in DOMAIN sockets : Fine(s)
  <2>1. \A s \in DOMAIN sockets : sockets[s] \in UdpSocket
      BY DEF IInv, DatagramTypeOK
  <2>2. CASE UNCHANGED sockets
      BY <2>1, <2>2
  <2>3. ASSUME NEW c \in Claims(k[2]), sockets' = [sockets EXCEPT ![c].rx = Append(@, g)]
        PROVE  DOMAIN sockets' = DOMAIN sockets /\ \A s \in DOMAIN sockets : Fine(s)
    <3>1. c \in DOMAIN sockets /\ c = flows[k].slot
        BY <1>t
    <3>2. sockets[c] \in UdpSocket /\ sockets[c].rx \in Seq(Datagram)
        BY <2>1, <3>1 DEF UdpSocket
    <3>3. /\ sockets'[c] = [sockets[c] EXCEPT !.rx = Append(sockets[c].rx, g)]
          /\ DOMAIN sockets' = DOMAIN sockets
          /\ \A s \in DOMAIN sockets : s # c => sockets'[s] = sockets[s]
        BY <2>3, <3>1
    <3>4. Append(sockets[c].rx, g) \in Seq(Datagram)
        BY <1>k, <3>2
    <3>5. /\ sockets'[c] \in UdpSocket /\ sockets'[c].dest = sockets[c].dest
          /\ sockets'[c].rx = Append(sockets[c].rx, g)
        BY <3>2, <3>3, <3>4 DEF UdpSocket
    <3>6. QED
        BY <2>1, <3>1, <3>3, <3>5
  <2>4. QED
      BY <1>p, <2>2, <2>3
<1>f. /\ frames' \in Seq(Datagram)
      /\ \A i \in DOMAIN frames' : \E j \in DOMAIN frames : frames'[i] = frames[j]
  <2>1. frames \in Seq(Datagram)
      BY DEF IInv, DatagramTypeOK
  <2>2. /\ frames' \in Seq(Datagram) /\ Len(frames') = Len(frames) - 1
        /\ \A i \in 1..Len(frames') : frames'[i] = frames[i + 1] /\ i + 1 \in 1..Len(frames)
      BY <2>1, <1>q
  <2>3. QED
      BY <2>1, <2>2
<1>2. DatagramTypeOK'
    BY <1>d, <1>f, <1>p, <1>q DEF IInv, DatagramTypeOK
<1>3. OnePerServer' /\ SlotsOwned'
    BY <1>d, <1>q DEF IInv, Ownership, OnePerServer, SlotsOwned
<1>5. FramesOwned'
    BY <1>f, <1>q DEF IInv, Ownership, FramesOwned
<1>6. \A l \in DOMAIN flows' : FlowOwned(l)'
  <2> SUFFICES ASSUME NEW l \in DOMAIN flows PROVE FlowOwned(l)'
      BY <1>q
  <2>1. FlowOwned(l) /\ flows' = flows
      BY <1>q DEF IInv, Ownership
  <2>2. flows[l].slot = flows[k].slot => l = k
      BY <1>k DEF IInv, Ownership, FlowOwned, OnePerServer
  <2>3. Own(l, sockets'[flows[l].slot].rx)
    <3> DEFINE s == flows[l].slot
    <3>1. s \in DOMAIN sockets /\ Own(l, sockets[s].rx) /\ Fine(s)
        BY <1>d, <2>1 DEF FlowOwned
    <3>2. sockets[s].rx \in Seq(Datagram)
        BY <3>1 DEF IInv, DatagramTypeOK, UdpSocket
    <3>3. CASE sockets'[s].rx = sockets[s].rx
        BY <3>1, <3>3
    <3>4. CASE s = flows[k].slot /\ sockets'[s].rx = Append(sockets[s].rx, g)
      <4>1. g.key = l
          BY <2>2, <3>4 DEF k
      <4>2. QED
          BY <3>1, <3>2, <3>4, <4>1 DEF Own
    <3>5. QED
        BY <3>1, <3>3, <3>4
  <2>4. QED
      BY <1>d, <2>1, <2>3 DEF FlowOwned
<1>7. QED
    BY <1>2, <1>3, <1>5, <1>6, <1>q DEF IInv, Ownership, RepliesToAsker

-----------------------------------------------------------------------------
\* What a flow's socket holds came from the flow's own guest port.
LEMMA HeldOwned ==
    ASSUME IInv, NEW k \in DOMAIN flows
    PROVE  Held(k) \subseteq Datagram /\ \A g \in Held(k) : g.key = k /\ g.key[1] = k[1]
<1>1. flows[k].slot \in DOMAIN sockets /\ FlowOwned(k)
    BY DEF IInv, Ownership, FlowOwned
<1>2. sockets[flows[k].slot].rx \in Seq(Datagram)
    BY <1>1 DEF IInv, DatagramTypeOK, UdpSocket
<1>3. QED
    BY <1>1, <1>2 DEF Held, FlowOwned, Own

LEMMA RelayHolds ==
    ASSUME IInv, Relay
    PROVE  IInv'
<1>r. PICK refused \in SUBSET UNION {Held(k) : k \in DOMAIN flows},
           full \in SUBSET DOMAIN flows :
        LET after   == [k \in DOMAIN flows |-> Relayed(k, refused, full)]
            expired == {k \in DOMAIN flows : Idle(after[k])}
            served  == {flows[k].slot : k \in DOMAIN flows}
        IN  /\ flows' = [k \in DOMAIN flows \ expired |-> after[k]]
            /\ sockets' = [s \in SocketsAfter(expired) |->
                              IF s \in served THEN [sockets[s] EXCEPT !.rx = <<>>]
                              ELSE sockets[s]]
            /\ out' = out \union UNION {{k} \X (Held(k) \ refused) : k \in DOMAIN flows}
            /\ lost' = lost \union refused
            /\ delivered' = delivered \union
                  UNION {[to : {flows[k].guest}, asker : flows[k].replies] : k \in DOMAIN flows \ full}
    BY DEF Relay
<1> DEFINE after   == [k \in DOMAIN flows |-> Relayed(k, refused, full)]
           expired == {k \in DOMAIN flows : Idle(after[k])}
           served  == {flows[k].slot : k \in DOMAIN flows}
<1>q. phase = "relay" /\ phase' = "drain" /\ UNCHANGED <<now, frames, count>>
    BY DEF Relay
<1>f. flows' = [k \in DOMAIN flows \ expired |-> after[k]]
    BY <1>r
<1>s. sockets' = [s \in SocketsAfter(expired) |->
                     IF s \in served THEN [sockets[s] EXCEPT !.rx = <<>>] ELSE sockets[s]]
    BY <1>r
<1>a. \A k \in DOMAIN flows :
         /\ after[k] \in UdpFlow /\ after[k].slot = flows[k].slot
         /\ after[k].guest = flows[k].guest /\ after[k].replies \subseteq flows[k].replies
         /\ after[k].asked \subseteq flows[k].asked \union {k[1]}
  <2> SUFFICES ASSUME NEW k \in DOMAIN flows
               PROVE  /\ after[k] \in UdpFlow /\ after[k].slot = flows[k].slot
                      /\ after[k].guest = flows[k].guest
                      /\ after[k].replies \subseteq flows[k].replies
                      /\ after[k].asked \subseteq flows[k].asked \union {k[1]}
      OBVIOUS
  <2>1. flows[k] \in UdpFlow /\ now \in Nat /\ k[1] \in Port
      BY KeyParts DEF IInv, DatagramTypeOK
  <2>2. {g.key[1] : g \in Held(k) \ refused} \subseteq {k[1]}
      BY HeldOwned
  <2> DEFINE more == {g.key[1] : g \in Held(k) \ refused}
  <2> DEFINE left  == IF k \in full THEN flows[k].replies ELSE {}
             stamp == IF Held(k) # {} \/ (k \notin full /\ flows[k].replies # {})
                      THEN now ELSE flows[k].last
  <2>3. after[k] = [flows[k] EXCEPT !.asked = flows[k].asked \union more,
                                    !.replies = left, !.last = stamp]
      BY <2>1 DEF Relayed, UdpFlow
  <2>4. more \subseteq {k[1]} /\ left \subseteq flows[k].replies /\ stamp \in Nat
      BY <2>1, <2>2 DEF UdpFlow
  <2> HIDE DEF more, left, stamp, after
  <2> DEFINE asked == flows[k].asked \union more
  <2>5. asked \in SUBSET Port /\ left \in SUBSET Port
      BY <2>1, <2>4 DEF UdpFlow
  <2>6. after[k] = [flows[k] EXCEPT !.asked = asked, !.replies = left, !.last = stamp]
      BY <2>3
  <2> HIDE DEF asked
  <2>7. /\ after[k] \in UdpFlow /\ after[k].slot = flows[k].slot
        /\ after[k].guest = flows[k].guest
        /\ after[k].replies = left /\ after[k].asked = asked
      BY <2>1, <2>4, <2>5, <2>6 DEF UdpFlow
  <2>8. QED
      BY <2>4, <2>7 DEF asked
<1> HIDE DEF after
<1>x. expired \subseteq DOMAIN flows
    OBVIOUS
<1> HIDE DEF expired
<1>g. /\ DOMAIN flows' = DOMAIN flows \ expired
      /\ \A k \in DOMAIN flows' : flows'[k] = after[k]
    BY <1>f
<1>t. /\ DOMAIN sockets' = DOMAIN sockets \ {flows[k].slot : k \in expired}
      /\ \A s \in DOMAIN sockets' : /\ sockets'[s] \in UdpSocket
                                    /\ sockets'[s].dest = sockets[s].dest
                                    /\ s \in served => sockets'[s].rx = <<>>
  <2>1. DOMAIN sockets' = DOMAIN sockets \ {flows[k].slot : k \in expired}
      BY <1>s DEF SocketsAfter
  <2>2. \A s \in DOMAIN sockets : sockets[s] \in UdpSocket
      BY DEF IInv, DatagramTypeOK
  <2>3. ASSUME NEW s \in DOMAIN sockets'
        PROVE  /\ sockets'[s] \in UdpSocket /\ sockets'[s].dest = sockets[s].dest
               /\ s \in served => sockets'[s].rx = <<>>
    <3>1. s \in DOMAIN sockets /\ sockets[s] \in UdpSocket
        BY <2>1, <2>2
    <3>2. sockets'[s] = IF s \in served THEN [sockets[s] EXCEPT !.rx = <<>>] ELSE sockets[s]
        BY <1>s
    <3>3. <<>> \in Seq(Datagram)
        OBVIOUS
    <3> HIDE DEF served
    <3>4. QED
        BY <3>1, <3>2, <3>3 DEF UdpSocket
  <2>4. QED
      BY <2>1, <2>3
<1>d. \A k, l \in DOMAIN flows : flows[k].slot = flows[l].slot => k = l
    BY DEF IInv, Ownership, FlowOwned, OnePerServer
<1>2. DatagramTypeOK'
  <2>1. delivered' \subseteq [to : Port, asker : Port]
    <3>1. \A k \in DOMAIN flows : flows[k].guest \in Port /\ flows[k].replies \subseteq Port
        BY DEF IInv, DatagramTypeOK, UdpFlow
    <3>2. delivered' = delivered \union
              UNION {[to : {flows[k].guest}, asker : flows[k].replies] : k \in DOMAIN flows \ full}
        BY <1>r
    <3>3. delivered \subseteq [to : Port, asker : Port]
        BY DEF IInv, DatagramTypeOK
    <3>4. ASSUME NEW k \in DOMAIN flows
          PROVE  [to : {flows[k].guest}, asker : flows[k].replies] \subseteq [to : Port, asker : Port]
        BY <3>1
    <3>5. QED
        BY <3>2, <3>3, <3>4
  <2>2. DOMAIN flows' \subseteq Key /\ DOMAIN sockets' \subseteq Slot
      BY <1>g, <1>t DEF IInv, DatagramTypeOK
  <2>3. \A k \in DOMAIN flows' : flows'[k] \in UdpFlow
      BY <1>g, <1>a
  <2>4. out' \subseteq Key \X Datagram /\ lost' \subseteq Datagram
    <3>1. /\ out' = out \union UNION {{k} \X (Held(k) \ refused) : k \in DOMAIN flows}
          /\ lost' = lost \union refused
        BY <1>r
    <3>2. \A k \in DOMAIN flows : k \in Key /\ Held(k) \subseteq Datagram
        BY HeldOwned DEF IInv, DatagramTypeOK
    <3>3. out \subseteq Key \X Datagram /\ lost \subseteq Datagram
        BY DEF IInv, DatagramTypeOK
    <3>4. QED
        BY <3>1, <3>2, <3>3
  <2>5. QED
      BY <2>1, <2>2, <2>3, <2>4, <1>t, <1>q DEF IInv, DatagramTypeOK
<1>3. OnePerServer'
    BY <1>g DEF IInv, Ownership, OnePerServer
<1>4. SlotsOwned'
  <2> SUFFICES ASSUME NEW s \in DOMAIN sockets' PROVE \E k \in DOMAIN flows' : flows'[k].slot = s
      BY DEF SlotsOwned
  <2>1. PICK k \in DOMAIN flows : flows[k].slot = s
      BY <1>t DEF IInv, Ownership, SlotsOwned
  <2>2. k \notin expired
      BY <2>1, <1>t
  <2>3. QED
      BY <2>1, <2>2, <1>g, <1>a
<1>5. FramesOwned'
  <2>1. frames' = <<>>
      BY <1>q DEF IInv, Ownership, FramesOwned
  <2>2. QED
      BY <2>1, <1>q DEF FramesOwned
<1>6. \A k \in DOMAIN flows' : FlowOwned(k)'
  <2> SUFFICES ASSUME NEW k \in DOMAIN flows' PROVE FlowOwned(k)'
      OBVIOUS
  <2>1. k \in DOMAIN flows /\ k \notin expired /\ FlowOwned(k)
      BY <1>g DEF IInv, Ownership
  <2>2. /\ flows'[k].slot = flows[k].slot /\ flows'[k].guest = k[1]
        /\ flows'[k].replies \subseteq {k[1]} /\ flows'[k].asked \subseteq {k[1]}
      BY <2>1, <1>g, <1>a DEF FlowOwned
  <2>3. flows[k].slot \in DOMAIN sockets' /\ flows[k].slot \in served
      BY <2>1, <1>t, <1>d, <1>x DEF FlowOwned
  <2>4. sockets'[flows[k].slot].dest = k[2] /\ sockets'[flows[k].slot].rx = <<>>
      BY <2>1, <2>3, <1>t DEF FlowOwned
  <2>5. QED
      BY <2>2, <2>3, <2>4 DEF FlowOwned, Own
<1>7. RepliesToAsker'
  <2> SUFFICES ASSUME NEW d \in delivered' PROVE d.to = d.asker
      BY DEF RepliesToAsker
  <2>1. CASE d \in delivered
      BY <2>1 DEF IInv, RepliesToAsker
  <2>2. CASE d \notin delivered
    <3>1. PICK k \in DOMAIN flows : d \in [to : {flows[k].guest}, asker : flows[k].replies]
        BY <1>r, <2>2
    <3>2. FlowOwned(k)
        BY DEF IInv, Ownership
    <3>3. QED
        BY <3>1, <3>2 DEF FlowOwned
  <2>3. QED
      BY <2>1, <2>2
<1>8. QED
    BY <1>2, <1>3, <1>4, <1>5, <1>6, <1>7 DEF IInv, Ownership

-----------------------------------------------------------------------------
LEMMA AnswersHold ==
    ASSUME IInv, NEW k \in Key, NEW p \in Port, ServerAnswers(k, p)
    PROVE  IInv'
<1>q. /\ k \in DOMAIN flows /\ p \in flows[k].asked
      /\ UNCHANGED <<now, phase, frames, sockets, count, out, lost, delivered>>
    BY DEF ServerAnswers, history
<1>f. /\ DOMAIN flows' = DOMAIN flows
      /\ flows'[k] = [flows[k] EXCEPT !.replies = @ \union {p}]
      /\ \A l \in DOMAIN flows : l # k => flows'[l] = flows[l]
    BY DEF ServerAnswers
<1>k. flows[k] \in UdpFlow
    BY <1>q DEF IInv, DatagramTypeOK
<1>e. /\ flows'[k] \in UdpFlow /\ flows'[k].slot = flows[k].slot
      /\ flows'[k].guest = flows[k].guest /\ flows'[k].asked = flows[k].asked
      /\ flows'[k].replies = flows[k].replies \union {p}
    BY <1>f, <1>k DEF UdpFlow
<1>2. DatagramTypeOK'
    BY <1>e, <1>f, <1>q DEF IInv, DatagramTypeOK
<1>3. OnePerServer' /\ FramesOwned'
    BY <1>f, <1>q DEF IInv, Ownership, OnePerServer, FramesOwned
<1>4. SlotsOwned'
  <2>1. \A l \in DOMAIN flows : flows'[l].slot = flows[l].slot
      BY <1>f, <1>e
  <2>2. QED
      BY <2>1, <1>f, <1>q DEF IInv, Ownership, SlotsOwned
<1>5. p = k[1]
    BY <1>q DEF IInv, Ownership, FlowOwned
<1>6. \A l \in DOMAIN flows' : FlowOwned(l)'
  <2> SUFFICES ASSUME NEW l \in DOMAIN flows PROVE FlowOwned(l)'
      BY <1>f
  <2>1. FlowOwned(l) /\ sockets' = sockets
      BY <1>q DEF IInv, Ownership
  <2>2. /\ flows'[l].slot = flows[l].slot /\ flows'[l].guest = flows[l].guest
        /\ flows'[l].asked = flows[l].asked
        /\ flows'[l].replies \subseteq flows[l].replies \union {l[1]}
      BY <1>f, <1>e, <1>5
  <2>3. QED
      BY <2>1, <2>2 DEF FlowOwned
<1>7. QED
    BY <1>2, <1>3, <1>4, <1>6, <1>q DEF IInv, Ownership, RepliesToAsker

\* The steps that move the clock or the phase only.
LEMMA QuietHolds ==
    ASSUME IInv, now' \in Nat, phase' \in {"drain", "poll", "relay"},
           phase' = "relay" => frames = <<>>,
           UNCHANGED <<frames, flows, sockets, history, delivered>>
    PROVE  IInv'
BY DEF history, IInv, DatagramTypeOK, Ownership, OnePerServer, SlotsOwned, FramesOwned, FlowOwned,
       RepliesToAsker

LEMMA StepHolds ==
    ASSUME Overlap = FALSE, IInv, [Next]_vars
    PROVE  IInv'
<1>t. now \in Nat /\ phase \in {"drain", "poll", "relay"} /\ FramesOwned
    BY DEF IInv, DatagramTypeOK, Ownership
<1>1. CASE DrainDone
    BY <1>1, <1>t, QuietHolds DEF DrainDone
<1>2. CASE Poll
    BY <1>2, PollHolds
<1>3. CASE PollDone
    BY <1>3, <1>t, QuietHolds DEF PollDone
<1>4. CASE Relay
    BY <1>4, RelayHolds
<1>5. CASE Tick
  <2>1. now' \in Nat /\ UNCHANGED <<phase, frames, flows, sockets, history, delivered>>
      BY <1>5, <1>t DEF Tick
  <2>2. QED
      BY <2>1, <1>t, QuietHolds DEF FramesOwned
<1>6. ASSUME NEW k \in Key, RecvFirst(k) PROVE IInv'
    BY <1>6, FirstHolds
<1>7. ASSUME NEW k \in Key, RecvNext(k) PROVE IInv'
    BY <1>7, NextHolds
<1>8. ASSUME NEW k \in Key, NEW p \in Port, ServerAnswers(k, p) PROVE IInv'
    BY <1>8, AnswersHold
<1>9. CASE UNCHANGED vars
    BY <1>9, <1>t, QuietHolds DEF vars, FramesOwned
<1>10. QED
    BY <1>1, <1>2, <1>3, <1>4, <1>5, <1>6, <1>7, <1>8, <1>9 DEF Next, Loop

\* With one port at a time to a server, a reply goes to the guest port whose
\* datagram it answers: flows may expire and their slots be used again
\* meanwhile (gate.rs 663-697, 837-864).
THEOREM RepliesReachAsker ==
    ASSUME Overlap = FALSE
    PROVE  Spec => []RepliesToAsker
<1>1. Init => IInv
    BY InitHolds
<1>2. IInv /\ [Next]_vars => IInv'
    BY StepHolds
<1>3. IInv => RepliesToAsker
    BY DEF IInv
<1>4. QED
    BY <1>1, <1>2, <1>3, PTL DEF Spec
=============================================================================
