----------------------------- MODULE WireCodec -----------------------------
(***************************************************************************)
(* vz_net/src/wire.rs byte for byte: what the gate reads from a guest's    *)
(* frame before the stack sees it, and the frames it makes up itself, the  *)
(* RST for a refused SYN and the reply to an echo request.                 *)
(***************************************************************************)
EXTENDS Bytes, SequencesExt

EtherV4 == <<8, 0>>
EtherV6 == <<134, 221>>
Icmp == 1
Icmpv6 == 58
Tcp == 6
Udp == 17
Syn == 2
Rst == 4
Ack == 16

IsEther(frame, type) == Len(frame) >= 14 /\ Slice(frame, 12, 14) = type

HeaderLen_NoOptions(frame) == 20

\* The IHL field in bytes.
HeaderLen(frame) == (At(frame, 14) % 16) * 4

PayloadAt(frame) == 14 + HeaderLen(frame)

\* A header longer than the frame is refused, as is one shorter than 20.
Ipv4Slices(frame) ==
    /\ IsEther(frame, EtherV4)
    /\ Len(frame) >= 14 + 20
    /\ At(frame, 14) \div 16 = 4
    /\ HeaderLen(frame) >= 20
    /\ Len(frame) >= PayloadAt(frame)

Ipv6Slices(frame) ==
    /\ IsEther(frame, EtherV6)
    /\ Len(frame) >= 14 + 40
    /\ At(frame, 14) \div 16 = 6

\* (source, destination, protocol, payload); the length of an address tells
\* its family.
IpSlices(frame) ==
    {[src |-> Slice(frame, 26, 30), dst |-> Slice(frame, 30, 34),
      proto |-> At(frame, 23), payload |-> From(frame, PayloadAt(frame))]
        : x \in {y \in {frame} : Ipv4Slices(y)}}
    \union
    {[src |-> Slice(frame, 22, 38), dst |-> Slice(frame, 38, 54),
      proto |-> At(frame, 20), payload |-> From(frame, 54)]
        : x \in {y \in {frame} : Ipv6Slices(y)}}

IsV4(addr) == Len(addr) = 4

PeekTcpSyn(frame) ==
    {[src |-> ip.src, dst |-> ip.dst, srcPort |-> FromBe16(ip.payload, 0),
      dstPort |-> FromBe16(ip.payload, 2), seq |-> Slice(ip.payload, 4, 8)]
        : ip \in {x \in IpSlices(frame) :
            /\ x.proto = Tcp /\ Len(x.payload) >= 20
            /\ HasBit(At(x.payload, 13), Syn)
            /\ ~HasBit(At(x.payload, 13), Ack) /\ ~HasBit(At(x.payload, 13), Rst)}}

PeekUdp(frame) ==
    {[src |-> ip.src, dst |-> ip.dst, srcPort |-> FromBe16(ip.payload, 0),
      dstPort |-> FromBe16(ip.payload, 2)]
        : ip \in {x \in IpSlices(frame) : x.proto = Udp /\ Len(x.payload) >= 8}}

EchoRequestType(ip) == IF IsV4(ip.dst) THEN 8 ELSE 128

PeekIcmpEchoRequest(frame) ==
    {[src |-> ip.src, dst |-> ip.dst, id |-> FromBe16(ip.payload, 4),
      seq |-> FromBe16(ip.payload, 6), data |-> From(ip.payload, 8)]
        : ip \in {x \in IpSlices(frame) :
            /\ x.proto = IF IsV4(x.dst) THEN Icmp ELSE Icmpv6
            /\ Len(x.payload) >= 8
            /\ At(x.payload, 0) = EchoRequestType(x) /\ At(x.payload, 1) = 0}}

-----------------------------------------------------------------------------
\* Big-endian words, the last one padded with a zero byte, added with the
\* carries folded back in.
Words(b) == [i \in 1..((Len(b) + 1) \div 2) |->
                256 * b[2 * i - 1] + (IF 2 * i <= Len(b) THEN b[2 * i] ELSE 0)]

Fold(sum) == (sum % 65536) + (sum \div 65536)

\* `while sum >> 16 != 0`: two rounds for as many words as a frame holds.
Sum(b) == Fold(Fold(FoldLeft(+, 0, Words(b))))

InternetChecksum(b) == Be16(65535 - Sum(b))

PseudoHeader(src, dst, proto, len) ==
    src \o dst \o (IF IsV4(src) THEN <<0, proto>> \o Be16(len)
                   ELSE <<0, 0>> \o Be16(len) \o <<0, 0, 0, proto>>)

TcpChecksum(src, dst, tcp) ==
    InternetChecksum(PseudoHeader(src, dst, Tcp, Len(tcp)) \o tcp)

\* Writes the two bytes of a checksum at an offset.
Patched(b, i, sum) == [b EXCEPT ![i + 1] = sum[1], ![i + 2] = sum[2]]

\* An Ethernet and an IP header that take the place of a request's: MACs and
\* addresses swapped.
Reversed(request) == Slice(request, 6, 12) \o Slice(request, 0, 6)

IpHeader(src, dst, proto, len) ==
    IF IsV4(src)
    THEN LET ip == <<69, 0>> \o Be16(20 + len) \o <<0, 0, 64, 0, 64, proto, 0, 0>>
                   \o src \o dst
         IN  EtherV4 \o Patched(ip, 10, InternetChecksum(ip))
    ELSE EtherV6 \o <<96, 0, 0, 0>> \o Be16(len) \o <<proto, 64>> \o src \o dst

Successor_NoCarry(seq) == [seq EXCEPT ![4] = (@ + 1) % 256]

\* seq.wrapping_add(1), on its bytes.
Successor(seq) ==
    LET carried(i) == \A j \in i + 1..4 : seq[j] = 255
    IN  [i \in 1..4 |-> IF carried(i) THEN (seq[i] + 1) % 256 ELSE seq[i]]

SynthesizeRst(frame, syn) ==
    LET tcp == Be16(syn.dstPort) \o Be16(syn.srcPort) \o Zeros(4) \o Successor(syn.seq)
               \o <<80, Rst + Ack>> \o Zeros(6)
    IN  Reversed(frame) \o IpHeader(syn.dst, syn.src, Tcp, Len(tcp))
        \o Patched(tcp, 16, TcpChecksum(syn.dst, syn.src, tcp))

\* The message the gate hands to the host's ping socket: a v4 checksum is
\* its own to fill in, a v6 one the kernel's.
EchoRequest(echo) ==
    LET packet == <<EchoRequestType(echo), 0, 0, 0>> \o Be16(echo.id) \o Be16(echo.seq)
                  \o echo.data
    IN  IF IsV4(echo.dst) THEN Patched(packet, 2, InternetChecksum(packet)) ELSE packet

\* The id goes back to the guest's, whatever the host's socket made of it.
EchoReplyBody(echo, data) ==
    LET v4   == IsV4(echo.dst)
        icmp == <<IF v4 THEN 0 ELSE 129, 0, 0, 0>> \o Be16(echo.id) \o Be16(echo.seq) \o data
        sums == IF v4 THEN icmp
                ELSE PseudoHeader(echo.dst, echo.src, Icmpv6, Len(icmp)) \o icmp
    IN  Patched(icmp, 2, InternetChecksum(sums))

SynthesizeEchoReply(head, echo, data) ==
    LET body == EchoReplyBody(echo, data)
    IN  Reversed(head) \o IpHeader(echo.dst, echo.src,
                                   IF IsV4(echo.dst) THEN Icmp ELSE Icmpv6, Len(body))
        \o body

\* What the ping socket gives: bare ICMP, or on some platforms with an IPv4
\* header in front, which PingSocket::recv takes off.
BareIcmp(packet) ==
    IF packet # <<>> /\ At(packet, 0) \div 16 = 4 /\ Len(packet) > 20
       /\ (At(packet, 0) % 16) * 4 < Len(packet)
    THEN From(packet, (At(packet, 0) % 16) * 4)
    ELSE packet

\* The loop's answer to one packet from the ping socket of a flow whose first
\* request was `template`; only echo replies go back.
RelayEchoReply(head, template, packet) ==
    LET bare == BareIcmp(packet)
    IN  {SynthesizeEchoReply(head, [template EXCEPT !.seq = FromBe16(b, 6)], From(b, 8))
            : b \in {x \in {bare} : /\ Len(x) >= 8
                                    /\ At(x, 0) = IF IsV4(template.dst) THEN 0 ELSE 129}}
=============================================================================
