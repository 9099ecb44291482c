--------------------------- MODULE DatagramRelay ---------------------------
(***************************************************************************)
(* The UDP translation of the egress gate: a table of flows by guest port  *)
(* and destination, each with a host socket connected to the destination,  *)
(* a fixed guest address for the replies, and a socket of the stack bound  *)
(* to the destination.  Who gets whose datagrams is the question, so a     *)
(* datagram is known by its flow's key and a number of its own; the        *)
(* policy's decision and the cap on flows are EgressGate's.                *)
(*                                                                         *)
(* A round is  drain -> poll -> relay -> drain : frames are peeked and     *)
(* queued without a limit, the stack hands them to sockets with room for a *)
(* few, the flows relay and expire.                                        *)
(***************************************************************************)
EXTENDS Integers, Sequences

CONSTANTS
    Port, Dest,   \* guest ports; destination endpoints
    Slot,         \* places in the socket set, in the order the stack scans it
    Overlap,      \* may a port turn to a destination while another port's
                  \* flow to it is alive?
    UdpIdle,      \* udp_idle
    RxCap,        \* datagrams a socket of the stack holds
    FrameCap,     \* bound: frames in one drain
    MaxSent,      \* bound: datagrams in all
    MaxNow        \* bound on the clock

ASSUME DatagramAssumption ==
    /\ Slot \subseteq Nat /\ Overlap \in BOOLEAN
    /\ {UdpIdle, RxCap, FrameCap, MaxSent, MaxNow} \subseteq Nat /\ RxCap > 0

VARIABLES
    now, phase,
    frames,      \* the device's queue: datagrams not yet polled
    flows,       \* udp_flows
    sockets,     \* the stack's UDP sockets by slot
    count,       \* history: datagrams so far
    out,         \* history: which flow's host socket sent which datagram
    lost,        \* history: datagrams without room or refused by the host socket
    delivered    \* history: which port got a reply to whose datagram

history == <<count, out, lost>>
vars == <<now, phase, frames, flows, sockets, history, delivered>>

Key == Port \X Dest
Datagram == [key : Key, id : Nat]

\* asked: ports whose datagrams went out on the flow's host socket;
\* replies: answers to such datagrams that wait in it.
UdpFlow == [slot : Slot, guest : Port, last : Nat, asked : SUBSET Port,
            replies : SUBSET Port]
UdpSocket == [dest : Dest, rx : Seq(Datagram)]

DatagramTypeOK ==
    /\ now \in Nat /\ phase \in {"drain", "poll", "relay"}
    /\ frames \in Seq(Datagram)
    /\ DOMAIN flows \subseteq Key /\ \A k \in DOMAIN flows : flows[k] \in UdpFlow
    /\ DOMAIN sockets \subseteq Slot /\ \A s \in DOMAIN sockets : sockets[s] \in UdpSocket
    /\ count \in Nat /\ out \subseteq Key \X Datagram /\ lost \subseteq Datagram
    /\ delivered \subseteq [to : Port, asker : Port]

Init ==
    /\ now = 0 /\ phase = "drain" /\ frames = <<>>
    /\ flows = [k \in {} |-> 0] /\ sockets = [s \in {} |-> 0]
    /\ count = 0 /\ out = {} /\ lost = {} /\ delivered = {}

Put(m, k, v) == [x \in DOMAIN m \union {k} |-> IF x = k THEN v ELSE m[x]]

-----------------------------------------------------------------------------
\* open_udp_flow.  TCP sockets share the set, so any free slot may be next.
OpenUdpFlow(k, s) ==
    /\ flows' = Put(flows, k, [slot |-> s, guest |-> k[1], last |-> now,
                               asked |-> {}, replies |-> {}])
    /\ sockets' = Put(sockets, s, [dest |-> k[2], rx |-> <<>>])

Alone(k) == \A other \in DOMAIN flows : other[2] = k[2] => other = k

Queue(k) ==
    /\ phase = "drain" /\ Len(frames) < FrameCap /\ count < MaxSent
    /\ Overlap \/ Alone(k)
    /\ frames' = Append(frames, [key |-> k, id |-> count + 1])
    /\ count' = count + 1 /\ UNCHANGED <<out, lost>>

RecvFirst(k) ==
    /\ k \notin DOMAIN flows
    /\ Queue(k)
    /\ \E s \in Slot \ DOMAIN sockets : OpenUdpFlow(k, s)
    /\ UNCHANGED <<now, phase, delivered>>

RecvNext(k) ==
    /\ k \in DOMAIN flows
    /\ Queue(k)
    /\ flows' = [flows EXCEPT ![k].last = now]
    /\ UNCHANGED <<now, phase, sockets, delivered>>

DrainDone ==
    /\ phase = "drain"
    /\ phase' = "poll"
    /\ UNCHANGED <<now, frames, flows, sockets, history, delivered>>

\* The stack asks a socket for the destination only.
Accepts_AnyAddress(s, dest) == TRUE

Accepts(s, dest) == sockets[s].dest = dest

\* The first socket that accepts a datagram gets it, from whichever port.
Claims(dest) ==
    {s \in DOMAIN sockets : Accepts(s, dest) /\ \A x \in DOMAIN sockets : Accepts(x, dest) => s <= x}

\* A socket has room for RxCap datagrams, and for fewer when they are long:
\* what finds neither room nor socket is dropped by the stack.
Poll ==
    /\ phase = "poll" /\ frames # <<>>
    /\ LET g == Head(frames)
       IN  \/ \E s \in Claims(g.key[2]) :
                 /\ Len(sockets[s].rx) < RxCap
                 /\ sockets' = [sockets EXCEPT ![s].rx = Append(@, g)]
                 /\ UNCHANGED lost
           \/ \E s \in Claims(g.key[2]) :
                 /\ sockets[s].rx # <<>>
                 /\ lost' = lost \union {g}
                 /\ UNCHANGED sockets
           \/ Claims(g.key[2]) = {} /\ UNCHANGED <<sockets, lost>>
    /\ frames' = Tail(frames)
    /\ UNCHANGED <<now, phase, flows, count, out, delivered>>

PollDone ==
    /\ phase = "poll" /\ frames = <<>>
    /\ phase' = "relay"
    /\ UNCHANGED <<now, frames, flows, sockets, history, delivered>>

\* The datagrams in the stack's socket of a flow.
Held(k) == LET rx == sockets[flows[k].slot].rx IN {rx[i] : i \in DOMAIN rx}

\* A flow sends on what its socket holds, whether or not the host socket takes
\* it, and hands its replies to its guest address unless that socket is full;
\* either counts as activity.
Relayed(k, refused, full) ==
    [flows[k] EXCEPT
        !.asked   = @ \union {g.key[1] : g \in Held(k) \ refused},
        !.replies = IF k \in full THEN @ ELSE {},
        !.last    = IF Held(k) # {} \/ (k \notin full /\ flows[k].replies # {})
                    THEN now ELSE @]

Idle(f) == now - f.last > UdpIdle

SocketsAfter_Kept(expired) == DOMAIN sockets

SocketsAfter(expired) == DOMAIN sockets \ {flows[k].slot : k \in expired}

Relay ==
    /\ phase = "relay"
    /\ \E refused \in SUBSET UNION {Held(k) : k \in DOMAIN flows}, full \in SUBSET DOMAIN flows :
         LET after   == [k \in DOMAIN flows |-> Relayed(k, refused, full)]
             expired == {k \in DOMAIN flows : Idle(after[k])}
             served  == {flows[k].slot : k \in DOMAIN flows}
         IN  /\ flows' = [k \in DOMAIN flows \ expired |-> after[k]]
             /\ sockets' = [s \in SocketsAfter(expired) |->
                               IF s \in served THEN [sockets[s] EXCEPT !.rx = <<>>]
                               ELSE sockets[s]]
             /\ out' = out \union UNION {{k} \X (Held(k) \ refused) : k \in DOMAIN flows}
             /\ lost' = lost \union refused
             /\ delivered' = delivered \union
                   UNION {[to : {flows[k].guest}, asker : flows[k].replies] : k \in DOMAIN flows \ full}
    /\ phase' = "drain"
    /\ UNCHANGED <<now, frames, count>>

\* A server answers a datagram on the socket it came from, if it still exists.
ServerAnswers(k, p) ==
    /\ k \in DOMAIN flows /\ p \in flows[k].asked
    /\ flows' = [flows EXCEPT ![k].replies = @ \union {p}]
    /\ UNCHANGED <<now, phase, frames, sockets, history, delivered>>

Tick ==
    /\ now < MaxNow
    /\ now' = now + 1
    /\ UNCHANGED <<phase, frames, flows, sockets, history, delivered>>

Loop == DrainDone \/ Poll \/ PollDone \/ Relay

Next ==
    \/ Loop \/ Tick
    \/ \E k \in Key : RecvFirst(k) \/ RecvNext(k)
    \/ \E k \in Key, p \in Port : ServerAnswers(k, p)

Spec == Init /\ [][Next]_vars

FairSpec == Spec /\ WF_vars(Loop)

-----------------------------------------------------------------------------
\* The state kept for a flow is that flow's: a reply goes to the guest port
\* whose datagram it answers, also when flows expire, slots are used again and
\* another port turns to the same server.
RepliesToAsker == \A d \in delivered : d.to = d.asker

\* A datagram that passed the gate's checks goes out on its own flow's host
\* socket: no other socket of the stack takes it and its flow does not expire in
\* the rounds between.  Two things excuse: the host socket refuses it, or others
\* of the flow came before it in the same drain and left no room.
Gone(n) ==
    \/ \E k \in Key : <<k, [key |-> k, id |-> n]>> \in out
    \/ \E g \in lost : g.id = n

DatagramsRelayed ==
    \A n \in 1..MaxSent : (\E i \in DOMAIN frames : frames[i].id = n) ~> Gone(n)
=============================================================================
