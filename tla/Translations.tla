---------------------------- MODULE Translations ----------------------------
(***************************************************************************)
(* The program's pure translations, each on one input: an entry of the     *)
(* allowlist, a policy, a DNS packet, a stream of frames, a guest's frame. *)
(* A step hands one input to one of them; the properties compare what      *)
(* comes out with a definition of their own of what the input says.        *)
(***************************************************************************)
EXTENDS PolicyPlan, DnsCodec, FrameCodec, WireCodec

CONSTANTS
    Entry, Policies,   \* allowlist entries; policies
    ProbePath,         \* paths looked up in the guest
    Question,          \* [id, flags, count, labels, qtype, class, extra, size]
    Resolved,          \* addresses a lookup returned
    Stream,            \* [sent, tail, size]
    Segment            \* [src, dst, options, proto, transport, size]

\* A guest's frame; `options` are the extra words of an IPv4 header.
IpBytes(s) ==
    IF IsV4(s.src)
    THEN EtherV4 \o <<64 + 5 + s.options>> \o Zeros(8) \o <<s.proto>> \o Zeros(2)
         \o s.src \o s.dst \o Zeros(4 * s.options)
    ELSE EtherV6 \o <<96>> \o Zeros(5) \o <<s.proto, 64>> \o s.src \o s.dst

Byte == 0..255

\* Inputs the program may be given: addresses of one family, a header length
\* its field can hold, a cut somewhere in the frame.
ASSUME InputAssumption ==
    /\ Entry \subseteq Entries
    /\ \A x \in Policies : /\ IsOption(x.policy.network, Networks)
                           /\ IsOption(x.policy.filesystem, Filesystems)
    /\ ProbePath \subseteq Seq(Component)
    /\ \A s \in Segment :
          /\ {s.src, s.dst} \subseteq Seq(Byte) /\ Len(s.src) \in {4, 16}
          /\ Len(s.dst) = Len(s.src)
          /\ s.options \in 0..10 /\ s.proto \in Byte /\ s.transport \in Seq(Byte)
          /\ s.size \in 0..12 + Len(IpBytes(s)) + Len(s.transport)

\* A kernel gets to some sequence of components, and to the one it was given
\* unless that says "..".
ASSUME ResolveAssumption ==
    \A x \in Policies : \A fs \in x.policy.filesystem :
        \A p \in ToSet(SharePaths(fs)) \union ToSet(fs.denied) :
            /\ Resolve(p.parts) \in Seq(Component)
            /\ ~Has(p, UP) => Resolve(p.parts) = p.parts

VARIABLE input

Init == input = [about |-> "nothing"]

Takes(about, x) == input' = [about |-> about, is |-> x]

ReadEntry  == \E x \in Entry : Takes("entry", x)
PlanVm     == \E x \in Policies : Takes("policy", x)
AnswerDns  == \E x \in Question : Takes("question", x)
ReadStream == \E x \in Stream : Takes("stream", x)
PeekFrame  == \E x \in Segment : Takes("segment", x)

Next ==
    /\ input.about = "nothing"
    /\ ReadEntry \/ PlanVm \/ AnswerDns \/ ReadStream \/ PeekFrame

Spec == Init /\ [][Next]_input

-----------------------------------------------------------------------------
SamePrefix(a, b, n, width) == \A i \in width - n..width - 1 : a[i] = b[i]
SameHost(a, b) == a = b \/ (b.fam = 4 /\ a = Mapped(b)) \/ (a.fam = 4 /\ b = Mapped(a))

EntryAdmits(entry, dest) ==
    \/ entry.shape = "ip" /\ SameHost(entry.ip, dest)
    \/ entry.shape = "cidr" /\ \E net, ip \in Ip :
          /\ SameHost(net, entry.ip) /\ SameHost(ip, dest)
          /\ \A x \in {net, ip} : x.fam = 4 \/ \A v4 \in Ip : v4.fam = 4 => x # Mapped(v4)
          /\ net.fam = ip.fam /\ entry.prefix <= Width(net.fam)
          /\ SamePrefix(net.bits, ip.bits, entry.prefix, Width(net.fam))

\* An entry of the allowlist admits the addresses that share its leading bits
\* and no others, from the empty prefix to the full one, and decides alike for
\* the plain and the mapped form of an address, in the entry and in the flow; a
\* name is matched up to case, blanks and one final dot (pattern.rs, filter.rs).
PatternsExact ==
    input.about = "entry" =>
        LET entry == input.is IN
        /\ \A dest \in Ip : StaticallyAllowed(Parse(entry), dest) <=> EntryAdmits(entry, dest)
        /\ \A name \in Name(2) : NameAllowed(Parse(entry), name) <=>
              /\ entry.shape = "name" /\ entry.name.letters = name.letters
              /\ entry.name.dots = name.dots \/ {entry.name.dots, name.dots} = {0, 1}

-----------------------------------------------------------------------------
\* The paths of a list, but for the root, that cover a place.
Under(paths, parts) ==
    {p \in ToSet(paths) : Resolve(p.parts) # <<>> /\ IsPrefix(Resolve(p.parts), parts)}

\* The denied path names this place, on a host that is blind to case.
Denies(denied, place) ==
    Folded([abs |-> TRUE, parts |-> Resolve(denied.parts)]) = Folded([abs |-> TRUE, parts |-> place])

\* Between the lists of a policy and the guest stand validation, the numbering
\* of shares, devices, words of a command line and mounts that hide each other:
\* at the end the guest finds at a path exactly what some share below the root
\* covers, at the same path of the host; it can write exactly what a readwrite share covers,
\* also inside a readonly one; and a denied place, in any case of letters, is
\* found by no path, unless it or every share it is found through is written
\* with ".." (validate.rs, vm_spec.rs, guest-init.sh).
GuestSeesPolicy ==
    input.about = "policy" /\ Accepted(input.is.policy, input.is.experimental) =>
        \A fs \in input.is.policy.filesystem, path \in ProbePath :
            LET found == GuestFinds(input.is.policy, path) IN
            /\ found = {} <=> Under(SharePaths(fs), path) = {}
            /\ \A f \in found : f.place = path /\ (f.writable <=> Under(fs.readwrite, path) # {})
            /\ \A d \in ToSet(fs.denied), s \in Under(SharePaths(fs), path) :
                  Denies(d, path) => Has(d, UP) \/ Has(s, UP)

\* What a denied path names is nowhere in the guest, however the path or a share
\* is written (docs/threat-model.md:132-133 and :238, on "..").
DeniedIsAbsent ==
    input.about = "policy" /\ Accepted(input.is.policy, input.is.experimental) =>
        \A fs \in input.is.policy.filesystem, path \in ProbePath :
            \A d \in ToSet(fs.denied) : Denies(d, path) => GuestFinds(input.is.policy, path) = {}

\* A policy that asks for nothing, or for nothing that can be read, gets no
\* network device; an open network needs an explicit word; a list of hosts gets
\* the gate, with the guest's side of it, and the gate's filter admits no
\* address outside the list; an entry left out is warned of.
NetworkAsAsked ==
    input.about = "policy" /\ Accepted(input.is.policy, input.is.experimental) =>
        LET policy == input.is.policy
            nets(default) == {n \in policy.network : n.defaultPolicy = default}
            readable(n)   == {e \in ToSet(n.allowedHosts) : Parse(e) # {}}
        IN  /\ NetworkMode(policy) = "Nat" <=> nets("allow") # {}
            /\ NetworkMode(policy) = "FilteredNat" <=> \E n \in nets("block") : readable(n) # {}
            /\ StaticNet(policy) <=> NetworkMode(policy) = "FilteredNat"
            /\ \A n \in nets("block"), dest \in Ip :
                  StaticallyAllowed(Patterns(n), dest)
                      <=> \E e \in readable(n) : EntryAdmits(e, dest)
            /\ \A n \in policy.network : readable(n) # ToSet(n.allowedHosts)
                  => "SkippedAllowedHost" \in Warnings(policy)

-----------------------------------------------------------------------------
Kept(b, n) == SubSeq(b, 1, Min({n, Len(b)}))

QuestionBytes(q) ==
    FlattenSeq([i \in DOMAIN q.labels |-> <<Len(q.labels[i])>> \o q.labels[i]])
    \o <<0>> \o Be16(q.qtype) \o Be16(q.class)

PacketOf(q) ==
    Kept(Be16(q.id) \o <<q.flags, 0>> \o Be16(q.count) \o Zeros(6) \o QuestionBytes(q)
         \o q.extra, q.size)

NameLen(q) == SumFunction([i \in DOMAIN q.labels |-> Len(q.labels[i]) + 1]) - 1

Undotted(name) == SelectSeq(name, LAMBDA b : b # Dot)

\* One more byte of a text, decoded: what the character is so far, how many
\* bytes it still wants, and the least number worth as many bytes as it has.
Decode(s, b) ==
    IF s.wants > 0
    THEN LET number == 64 * s.number + (b % 64) IN
         [ok |-> /\ s.ok /\ b \div 64 = 2
                 /\ s.wants = 1 => /\ number \in s.least..1114111
                                   /\ number \notin 55296..57343,
          number |-> number, wants |-> s.wants - 1, least |-> s.least]
    ELSE CASE b \div 128 = 0 -> s
           [] b \div 32 = 6 -> [s EXCEPT !.number = b % 32, !.wants = 1, !.least = 128]
           [] b \div 16 = 14 -> [s EXCEPT !.number = b % 16, !.wants = 2, !.least = 2048]
           [] b \div 8 = 30 -> [s EXCEPT !.number = b % 8, !.wants = 3, !.least = 65536]
           [] OTHER -> [s EXCEPT !.ok = FALSE]

IsText(bytes) ==
    LET end == FoldLeft(Decode, [ok |-> TRUE, number |-> 0, wants |-> 0, least |-> 0], bytes)
    IN  end.ok /\ end.wants = 0

Answerable(q) ==
    /\ q.flags \in {0, 1} /\ q.count = 1 /\ q.class = 1 /\ q.qtype \in {1, 28}
    /\ NameLen(q) <= MaxNameLen
    /\ \A i \in DOMAIN q.labels : IsText(q.labels[i])
    /\ q.size >= 12 + Len(QuestionBytes(q))

\* An answer as a resolver would take it apart.
AnswerFits(bytes, q) ==
    LET wanted == SelectSeq(Resolved, LAMBDA ip : Len(ip) = IF q.qtype = 1 THEN 4 ELSE 16)
        body   == 12 + Len(QuestionBytes(q))
        size   == 12 + (IF q.qtype = 1 THEN 4 ELSE 16)
    IN  /\ FromBe16(bytes, 0) = q.id /\ HasBit(At(bytes, 2), 128) /\ At(bytes, 3) = 0
        /\ FromBe16(bytes, 4) = 1 /\ FromBe16(bytes, 6) = Len(wanted)
        /\ Slice(bytes, 12, body) = QuestionBytes(q)
        /\ Len(bytes) = body + size * Len(wanted)
        /\ \A i \in DOMAIN wanted :
              LET at == body + size * (i - 1) IN
              /\ FromBe16(bytes, at) = 49152 + 12
              /\ FromBe16(bytes, at + 2) = q.qtype
              /\ FromBe16(bytes, at + 10) = Len(wanted[i])
              /\ Slice(bytes, at + 12, at + size) = wanted[i]

\* The proxy takes exactly the whole, plain, single questions for an address of
\* a name that is text, whatever stands behind the question or has been cut off, and reads the name
\* that was asked; its answer repeats the question and holds the addresses of
\* the question's family, each in a record of its own size (dns.rs).
DnsExact ==
    input.about = "question" =>
        LET q == input.is
            parsed == ParseQuery(PacketOf(q))
        IN  /\ parsed = {} <=> ~Answerable(q)
            /\ \A p \in parsed :
                  /\ p.id = q.id /\ p.qtype = q.qtype
                  /\ Len(p.name) = IF q.labels = <<>> THEN 0 ELSE NameLen(q)
                  /\ Undotted(p.name) = Undotted(FlattenSeq(q.labels))
                  /\ AnswerFits(BuildResponse(p, Resolved, 60), q)
                  /\ BuildRefused(p) = Header(p, 5, 0) \o QuestionBytes(q)

-----------------------------------------------------------------------------
Written(sent) == SelectSeq(sent, LAMBDA f : Len(f.payload) <= MaxFramePayload)
BytesOf(frames) == FlattenSeq([i \in DOMAIN frames |-> WriteFrame(frames[i]).bytes])

\* Tails behind whole frames, with what a reader has to say of them.
TailError(tail) ==
    CASE tail = <<>>        -> "Closed"
      [] tail[1] > MaxFramePayload \/ (Len(tail) >= 4 /\ tail[4] # 0) ->
            IF Len(tail) < 4 THEN "UnexpectedEof" ELSE "Oversized"
      [] OTHER -> IF Len(tail) < 5 THEN "UnexpectedEof" ELSE "UnknownChannel"

\* A stream that ends anywhere gives the frames that are whole, as they were
\* sent, and then tells a clean close from a cut; a frame the reader would
\* refuse is not written, and one the writer lets through is read (frame.rs).
FramesDelimited ==
    input.about = "stream" =>
        LET s     == input.is
            ok    == Written(s.sent)
            whole == BytesOf(ok)
            read  == ReadAll(Kept(whole, s.size) \o s.tail)
            k     == Max({n \in 0..Len(ok) : Len(BytesOf(SubSeq(ok, 1, n))) <= s.size})
        IN  /\ read.frames = SubSeq(ok, 1, k)
            /\ read.error = IF s.size >= Len(whole) THEN TailError(s.tail)
                            ELSE IF s.size = Len(BytesOf(SubSeq(ok, 1, k))) THEN "Closed"
                            ELSE "UnexpectedEof"

-----------------------------------------------------------------------------
Macs == [i \in 1..12 |-> i]
FrameOf(s) == Kept(Macs \o IpBytes(s) \o s.transport, s.size)
TransportSize(s) == s.size - 12 - Len(IpBytes(s))

Verifies(b) == SumFunction(Words(b)) % 65535 = 0

\* The reply goes back where the request came from, and its checksums hold.
Answering(s, reply, proto) ==
    \E ip \in IpSlices(reply) :
        /\ Slice(reply, 0, 6) = Slice(Macs, 6, 12) /\ Slice(reply, 6, 12) = Slice(Macs, 0, 6)
        /\ ip.src = s.dst /\ ip.dst = s.src /\ ip.proto = proto
        /\ IsV4(ip.src) => /\ Verifies(Slice(reply, 14, 34))
                           /\ FromBe16(reply, 16) = Len(reply) - 14
        /\ ~IsV4(ip.src) => FromBe16(reply, 18) = Len(ip.payload)
        /\ Verifies(IF proto = Icmp THEN ip.payload
                    ELSE ip.src \o ip.dst \o Be16(Len(ip.payload)) \o Be16(proto) \o ip.payload)

\* The flow the gate decides on is the one the guest's stack wrote, for every
\* length of the IP header and every point at which the frame may be cut, and
\* the ports of a frame that is not one of these are never read (wire.rs).
PeeksExact ==
    input.about = "segment" =>
        LET s == input.is
            t == s.transport
            frame == FrameOf(s)
            is(proto, size) == s.proto = proto /\ TransportSize(s) >= size
            flow == [src |-> s.src, dst |-> s.dst, srcPort |-> FromBe16(t, 0),
                     dstPort |-> FromBe16(t, 2)]
        IN  /\ PeekUdp(frame) = {f \in {flow} : is(Udp, 8)}
            /\ PeekTcpSyn(frame) =
                  {[src |-> f.src, dst |-> f.dst, srcPort |-> f.srcPort,
                    dstPort |-> f.dstPort, seq |-> Slice(t, 4, 8)]
                      : f \in {x \in {flow} : is(Tcp, 20) /\ (At(t, 13) % 32) \in {2, 3, 10, 11}}}
            /\ PeekIcmpEchoRequest(frame) =
                  {[src |-> s.src, dst |-> s.dst, id |-> FromBe16(t, 4),
                    seq |-> FromBe16(t, 6), data |-> SubSeq(t, 9, TransportSize(s))]
                      : x \in {y \in {t} : IF IsV4(s.dst) THEN is(Icmp, 8) /\ t[1] = 8 /\ t[2] = 0
                                           ELSE is(Icmpv6, 8) /\ t[1] = 128 /\ t[2] = 0}}

\* What the gate answers in the guest's name of a destination verifies and
\* fits: a reset acknowledges the SYN, also at the end of the sequence space; an
\* echo reply carries the guest's own id and the host's data, although the ping
\* socket uses an id of its own and may leave an IP header in front.
RepliesFit ==
    input.about = "segment" =>
        LET s == input.is
            frame == FrameOf(s)
        IN  /\ \A syn \in PeekTcpSyn(frame) :
                  LET rst == SynthesizeRst(frame, syn)
                      tcp == From(rst, Len(rst) - 20)
                      low == FromBe16(syn.seq, 2)
                  IN  /\ Answering(s, rst, Tcp)
                      /\ Slice(tcp, 0, 4) = Slice(s.transport, 2, 4) \o Slice(s.transport, 0, 2)
                      /\ HasBit(At(tcp, 13), Rst) /\ HasBit(At(tcp, 13), Ack)
                      /\ FromBe16(tcp, 10) = (low + 1) % 65536
                      /\ FromBe16(tcp, 8) = (FromBe16(syn.seq, 0) + (low + 1) \div 65536) % 65536
            /\ \A echo \in PeekIcmpEchoRequest(frame) :
                  LET v4   == IsV4(s.dst)
                      sent == EchoRequest(echo)
                      back == <<IF v4 THEN 0 ELSE 129, 0, 7, 7, 9, 9>> \o From(sent, 6)
                      packets == {back} \union {<<69>> \o Zeros(19) \o back : x \in {y \in {1} : v4}}
                  IN  /\ v4 => Verifies(sent)
                      /\ \A packet \in packets : \E reply \in RelayEchoReply(frame, echo, packet) :
                            LET icmp == From(reply, IF v4 THEN 34 ELSE 54) IN
                            /\ Answering(s, reply, s.proto)
                            /\ At(icmp, 0) = back[1]
                            /\ From(icmp, 4) = SubSeq(s.transport, 5, TransportSize(s))
                      /\ RelayEchoReply(frame, echo, sent) = {}
=============================================================================
