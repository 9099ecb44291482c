----------------------------- MODULE FlowRelay -----------------------------
(***************************************************************************)
(* One TCP flow through the egress gate, from the guest's SYN to the       *)
(* removal of its socket: what gate.rs does with it in every round (wait   *)
(* for the connect thread, relay_once, the test that it is finished), the  *)
(* stack's socket between the gate and the guest, and the host's stream    *)
(* between the gate and the server.  Bytes are numbered chunks.            *)
(*                                                                         *)
(* A round is  poll -> await            while the upstream is connecting   *)
(*             poll -> up -> down -> judge     once the flow relays        *)
(* The guest's segments reach the socket in "poll" only, which is where    *)
(* the loop calls the stack; server and connect thread move at any time.   *)
(* `write` returning Ok(0), which a stream does not do for a non-empty     *)
(* buffer, is left out.                                                    *)
(***************************************************************************)
EXTENDS Integers, Sequences

CONSTANTS
    MaxUp, MaxDown,   \* bounds: chunks the guest and the server write
    RxCap, TxCap,     \* the socket's buffers (TCP_BUFFER)
    UpCap, DownCap    \* what the host's kernel holds in each direction

ASSUME RelayAssumption ==
    /\ MaxUp \in Nat /\ MaxDown \in Nat
    /\ {RxCap, TxCap, UpCap, DownCap} \subseteq Nat \ {0}

VARIABLES
    phase,      \* where the loop is with this flow; "gone" once removed
    upstream,   \* FlowState, with the connect thread's channel folded in
    sock,       \* the stack's socket
    ourFin,     \* close() was called on it
    guestFin,   \* it received the guest's FIN
    rx, tx,     \* its buffers
    pending,    \* pending_to_upstream
    upNet, downNet,      \* chunks in the host's kernel
    serverFin, broken,   \* the server finished writing; it reset the stream
    guest, guestEof,     \* the guest's end; it saw the FIN and acknowledged it
    sentUp, sentDown, serverGot, guestGot   \* history

socketVars == <<sock, ourFin, guestFin, rx, tx>>
serverVars == <<upNet, downNet, serverFin, broken>>
guestVars  == <<guest, guestEof>>
history    == <<sentUp, sentDown, serverGot, guestGot>>
vars == <<phase, upstream, socketVars, pending, serverVars, guestVars, history>>

\* Queues hold chunk numbers.
IsQueue(q, n, cap) == q \in Seq(1..n) /\ Len(q) <= cap
First(q, n) == SubSeq(q, 1, n)
Rest(q, n)  == SubSeq(q, n + 1, Len(q))

TypeOK ==
    /\ phase \in {"poll", "await", "up", "down", "judge", "gone"}
    /\ upstream \in {"connecting", "connected", "refused", "relaying"}
    /\ sock \in {"syn", "open", "listen", "aborted", "closed", "removed"}
    /\ {ourFin, guestFin, serverFin, broken, guestEof} \subseteq BOOLEAN
    /\ guest \in {"opening", "open", "reset"}
    /\ sentUp \in 0..MaxUp /\ sentDown \in 0..MaxDown
    /\ IsQueue(rx, MaxUp, RxCap) /\ IsQueue(pending, MaxUp, RxCap)
    /\ IsQueue(upNet, MaxUp, UpCap) /\ IsQueue(serverGot, MaxUp, MaxUp)
    /\ IsQueue(downNet, MaxDown, DownCap) /\ IsQueue(tx, MaxDown, TxCap)
    /\ IsQueue(guestGot, MaxDown, MaxDown)

\* The SYN was admitted, the listener added and the connect thread started;
\* the same round's poll answers the SYN.
Init ==
    /\ phase = "poll" /\ upstream = "connecting"
    /\ sock = "syn" /\ guest = "opening"
    /\ ourFin = FALSE /\ guestFin = FALSE /\ guestEof = FALSE
    /\ serverFin = FALSE /\ broken = FALSE
    /\ rx = <<>> /\ tx = <<>> /\ pending = <<>>
    /\ upNet = <<>> /\ downNet = <<>>
    /\ sentUp = 0 /\ sentDown = 0 /\ serverGot = <<>> /\ guestGot = <<>>

-----------------------------------------------------------------------------
\* The stack's socket, as the gate calls it.

\* Not in Listen, Closed or TimeWait.
IsActive == sock \in {"syn", "open"} /\ ~(ourFin /\ guestFin /\ guestEof)

\* Established or CloseWait, with room in the buffer.
CanSend == sock = "open" /\ ~ourFin /\ Len(tx) < TxCap

CanRecv == rx # <<>>

\* close(): what is queued goes out, then a FIN.
Close == ourFin' = TRUE /\ UNCHANGED <<sock, guestFin, rx, tx>>

\* abort(): a reset goes out with the next poll; received bytes stay.
Abort ==
    /\ sock' = IF IsActive THEN "aborted" ELSE sock
    /\ tx' = <<>>
    /\ UNCHANGED <<ourFin, guestFin, rx>>

-----------------------------------------------------------------------------
\* The poll: segments in both directions.

GuestAcks ==
    /\ phase = "poll" /\ sock = "syn"
    /\ sock' = "open" /\ guest' = "open"
    /\ UNCHANGED <<phase, upstream, ourFin, guestFin, rx, tx, pending, serverVars,
                   guestEof, history>>

\* Acknowledged, hence the gate's to deliver.
GuestSends ==
    /\ phase = "poll" /\ sock = "open" /\ ~guestFin
    /\ sentUp < MaxUp /\ Len(rx) < RxCap
    /\ sentUp' = sentUp + 1
    /\ rx' = Append(rx, sentUp + 1)
    /\ UNCHANGED <<phase, upstream, sock, ourFin, guestFin, tx, pending, serverVars,
                   guestVars, sentDown, serverGot, guestGot>>

GuestFins ==
    /\ phase = "poll" /\ sock = "open" /\ ~guestFin
    /\ guestFin' = TRUE
    /\ UNCHANGED <<phase, upstream, sock, ourFin, rx, tx, pending, serverVars,
                   guestVars, history>>

\* During the handshake a reset takes the socket back to Listen.
GuestResets ==
    /\ phase = "poll" /\ sock \in {"syn", "open"}
    /\ sock' = IF sock = "syn" THEN "listen" ELSE "closed"
    /\ guest' = "reset" /\ tx' = <<>>
    /\ UNCHANGED <<phase, upstream, ourFin, guestFin, rx, pending, serverVars,
                   guestEof, history>>

GuestGets ==
    /\ phase = "poll" /\ sock = "open" /\ tx # <<>>
    /\ guestGot' = Append(guestGot, Head(tx))
    /\ tx' = Tail(tx)
    /\ UNCHANGED <<phase, upstream, sock, ourFin, guestFin, rx, pending, serverVars,
                   guestVars, sentUp, sentDown, serverGot>>

GuestGetsFin ==
    /\ phase = "poll" /\ sock = "open" /\ ourFin /\ tx = <<>> /\ ~guestEof
    /\ guestEof' = TRUE
    /\ UNCHANGED <<phase, upstream, socketVars, pending, serverVars, guest, history>>

GuestGetsReset ==
    /\ phase = "poll" /\ sock = "aborted"
    /\ sock' = "closed" /\ guest' = "reset"
    /\ UNCHANGED <<phase, upstream, ourFin, guestFin, rx, tx, pending, serverVars,
                   guestEof, history>>

\* Without a socket the stack answers a segment with a reset.
StraySegment ==
    /\ phase = "gone" /\ guest # "reset" /\ ~(guestFin /\ guestEof)
    /\ guest' = "reset"
    /\ UNCHANGED <<phase, upstream, socketVars, pending, serverVars, guestEof, history>>

PollDone ==
    /\ phase = "poll"
    /\ phase' = IF upstream = "relaying" THEN "up" ELSE "await"
    /\ UNCHANGED <<upstream, socketVars, pending, serverVars, guestVars, history>>

-----------------------------------------------------------------------------
\* The connect thread and the wait for it.

ConnectEnds ==
    /\ upstream = "connecting"
    /\ upstream' \in {"connected", "refused"}
    /\ UNCHANGED <<phase, socketVars, pending, serverVars, guestVars, history>>

StillConnecting ==
    /\ phase = "await" /\ upstream = "connecting"
    /\ phase' = "poll"
    /\ UNCHANGED <<upstream, socketVars, pending, serverVars, guestVars, history>>

TakeUpstream ==
    /\ phase = "await" /\ upstream = "connected"
    /\ phase' = "poll" /\ upstream' = "relaying"
    /\ UNCHANGED <<socketVars, pending, serverVars, guestVars, history>>

\* abort() and then, in the same round, sockets.remove: the reset that abort
\* asks for would go out with a poll this socket does not live to see.
RemoveRefused ==
    /\ phase = "await" /\ upstream = "refused"
    /\ phase' = "gone" /\ sock' = "removed" /\ rx' = <<>> /\ tx' = <<>>
    /\ UNCHANGED <<upstream, ourFin, guestFin, pending, serverVars, guestVars, history>>

-----------------------------------------------------------------------------
\* relay_once, guest to upstream.

Takes ==
    /\ CanRecv
    /\ \E n \in 1..Len(rx) : pending' = First(rx, n) /\ rx' = Rest(rx, n)
    /\ UNCHANGED <<phase, upstream, sock, ourFin, guestFin, tx, serverVars, guestVars,
                   history>>

TakeFromGuest_Overwrites == phase = "up" /\ Takes

TakeFromGuest == phase = "up" /\ pending = <<>> /\ Takes

NothingToTake ==
    /\ phase = "up" /\ pending = <<>> /\ ~CanRecv
    /\ phase' = "down"
    /\ UNCHANGED <<upstream, socketVars, pending, serverVars, guestVars, history>>

Writes ==
    /\ phase = "up" /\ pending # <<>> /\ ~broken
    /\ \E n \in 1..Len(pending) :
          /\ n <= UpCap - Len(upNet)
          /\ upNet' = upNet \o First(pending, n)
          /\ pending' = Rest(pending, n)
    /\ UNCHANGED <<phase, upstream, socketVars, downNet, serverFin, broken, guestVars,
                   history>>

WriteSome_OnlyWithMore == CanRecv /\ Writes

WriteSome == Writes

WriteBlocks ==
    /\ phase = "up" /\ pending # <<>> /\ ~broken /\ Len(upNet) = UpCap
    /\ phase' = "down"
    /\ UNCHANGED <<upstream, socketVars, pending, serverVars, guestVars, history>>

\* The bytes stay in pending_to_upstream.
WriteFails ==
    /\ phase = "up" /\ pending # <<>> /\ broken
    /\ Abort
    /\ phase' = "down"
    /\ UNCHANGED <<upstream, pending, serverVars, guestVars, history>>

-----------------------------------------------------------------------------
\* relay_once, upstream to guest.

ReadSome ==
    /\ phase = "down" /\ CanSend
    /\ \E n \in 1..Len(downNet) :
          /\ n <= TxCap - Len(tx)
          /\ tx' = tx \o First(downNet, n)
          /\ downNet' = Rest(downNet, n)
    /\ UNCHANGED <<phase, upstream, sock, ourFin, guestFin, rx, pending, upNet,
                   serverFin, broken, guestVars, history>>

AtEof == phase = "down" /\ CanSend /\ downNet = <<>> /\ serverFin /\ ~broken

ReadEof_NoClose ==
    /\ AtEof
    /\ phase' = "judge"
    /\ UNCHANGED <<upstream, socketVars, pending, serverVars, guestVars, history>>

\* Upstream EOF: half-close toward the guest.
ReadEof ==
    /\ AtEof
    /\ Close
    /\ phase' = "judge"
    /\ UNCHANGED <<upstream, pending, serverVars, guestVars, history>>

ReadBlocks ==
    /\ phase = "down" /\ CanSend /\ downNet = <<>> /\ ~serverFin /\ ~broken
    /\ phase' = "judge"
    /\ UNCHANGED <<upstream, socketVars, pending, serverVars, guestVars, history>>

ReadFails ==
    /\ phase = "down" /\ CanSend /\ broken
    /\ Abort
    /\ phase' = "judge"
    /\ UNCHANGED <<upstream, pending, serverVars, guestVars, history>>

NoRoom ==
    /\ phase = "down" /\ ~CanSend
    /\ phase' = "judge"
    /\ UNCHANGED <<upstream, socketVars, pending, serverVars, guestVars, history>>

-----------------------------------------------------------------------------
GuestDone == ~IsActive
Drained == pending = <<>> /\ ~CanRecv

\* The socket is removed and the stream dropped, which resets it if the server
\* has written what nobody read.
Finish ==
    /\ phase = "judge" /\ GuestDone /\ Drained
    /\ phase' = "gone" /\ sock' = "removed" /\ rx' = <<>> /\ tx' = <<>>
    /\ broken' = (broken \/ downNet # <<>>)
    /\ UNCHANGED <<upstream, ourFin, guestFin, pending, upNet, downNet, serverFin,
                   guestVars, history>>

NextRound ==
    /\ phase = "judge" /\ ~(GuestDone /\ Drained)
    /\ phase' = "poll"
    /\ UNCHANGED <<upstream, socketVars, pending, serverVars, guestVars, history>>

-----------------------------------------------------------------------------
\* The server, on a stream that is connected.

Reachable == upstream \in {"connected", "relaying"} /\ ~broken

ServerReads ==
    /\ Reachable /\ upNet # <<>>
    /\ serverGot' = Append(serverGot, Head(upNet))
    /\ upNet' = Tail(upNet)
    /\ UNCHANGED <<phase, upstream, socketVars, pending, downNet, serverFin, broken,
                   guestVars, sentUp, sentDown, guestGot>>

ServerWrites ==
    /\ Reachable /\ phase # "gone" /\ ~serverFin
    /\ sentDown < MaxDown /\ Len(downNet) < DownCap
    /\ sentDown' = sentDown + 1
    /\ downNet' = Append(downNet, sentDown + 1)
    /\ UNCHANGED <<phase, upstream, socketVars, pending, upNet, serverFin, broken,
                   guestVars, sentUp, serverGot, guestGot>>

ServerFins ==
    /\ Reachable /\ ~serverFin
    /\ serverFin' = TRUE
    /\ UNCHANGED <<phase, upstream, socketVars, pending, upNet, downNet, broken,
                   guestVars, history>>

\* A reset by the server or the path: what was under way may be lost.
StreamBreaks ==
    /\ Reachable
    /\ broken' = TRUE /\ upNet' = <<>>
    /\ downNet' \in {<<>>, downNet}
    /\ UNCHANGED <<phase, upstream, socketVars, pending, serverFin, guestVars, history>>

-----------------------------------------------------------------------------
Loop ==
    \/ PollDone \/ StillConnecting \/ TakeUpstream \/ RemoveRefused
    \/ TakeFromGuest \/ NothingToTake \/ WriteSome \/ WriteBlocks \/ WriteFails
    \/ ReadSome \/ ReadEof \/ ReadBlocks \/ ReadFails \/ NoRoom
    \/ Finish \/ NextRound

GuestAnswers == GuestAcks \/ GuestGets \/ GuestGetsFin \/ GuestGetsReset
GuestActs    == GuestSends \/ GuestFins \/ GuestResets \/ StraySegment
Server       == ServerReads \/ ServerWrites \/ ServerFins \/ StreamBreaks

Next == Loop \/ ConnectEnds \/ GuestAnswers \/ GuestActs \/ Server

Spec == Init /\ [][Next]_vars

\* The loop keeps going round, a connect ends within its ten seconds, the
\* guest's kernel acknowledges what it is sent (in one poll or a later one),
\* and the server reads what reaches it.  Nobody has to write, finish or reset.
FairSpec ==
    /\ Spec
    /\ WF_vars(Loop) /\ WF_vars(ConnectEnds) /\ WF_vars(ServerReads)
    /\ SF_vars(GuestAcks) /\ SF_vars(GuestGets) /\ SF_vars(GuestGetsFin)
    /\ SF_vars(GuestGetsReset)

-----------------------------------------------------------------------------
Numbered(n) == [i \in 1..n |-> i]

\* No byte is lost, repeated or reordered between the partial takes, the
\* partial writes and the half-closes of relay_once: what the guest was
\* acknowledged is with the server or on its way until the stream breaks, also
\* after the flow has been removed; what the server wrote likewise until the
\* guest resets; and the guest sees the end of the stream only behind all of it.
BytesKept ==
    /\ ~broken /\ upstream # "refused" =>
          serverGot \o upNet \o pending \o rx = Numbered(sentUp)
    /\ ~broken /\ sock \in {"syn", "open"} =>
          guestGot \o tx \o downNet = Numbered(sentDown)
    /\ guestEof => serverFin /\ guestGot = Numbered(sentDown)

\* Every chunk the guest was acknowledged reaches a server that reads, although
\* a write took a part of it, would have blocked, or was the last before a FIN.
GuestBytesArrive ==
    \A n \in 1..MaxUp :
        sentUp >= n ~> Len(serverGot) >= n \/ broken \/ upstream = "refused"

\* A flow whose guest is through and whose upstream has ended or broken gives
\* its socket and its place in the table back, in one case not: bytes that a
\* broken upstream will never take keep it for good.
FlowEnds ==
    (guestFin \/ guest = "reset") /\ (serverFin \/ broken \/ upstream = "refused")
        ~> phase = "gone" \/ (broken /\ pending # <<>>)
=============================================================================
