--------------------------- MODULE TranslationsMC ---------------------------
(* Inputs for Translations: two- and four-bit addresses, short names, paths  *)
(* of up to three components, real header layouts.                           *)
EXTENDS Translations

\* The bits of a number.
BitsOf(x, width) == [i \in 0..width - 1 |-> (x \div 2 ^ i) % 2 = 1]

MCMappedHigh == BitsOf(1, V6Bits - V4Bits)

MCEntry ==
    {[shape |-> s] : s \in {"blank", "text/"}}
    \union [shape : {"ip"}, ip : Ip]
    \union [shape : {"cidr"}, ip : Ip, prefix : 0..V6Bits + 1]
    \union [shape : {"name"}, name : Name(2)]

-----------------------------------------------------------------------------
MCLower(c) == IF c = "A" THEN "a" ELSE c

\* ".." takes back the step before it, and stays at the root.
MCResolve(parts) ==
    FoldLeft(LAMBDA at, c : IF c # ".." THEN Append(at, c)
                            ELSE SubSeq(at, 1, Max({Len(at) - 1, 0})), <<>>, parts)

Abs(parts) == [abs |-> TRUE, parts |-> parts]
MCPath == {Abs(p) : p \in {<<>>, <<"a">>, <<"A">>, <<"a", "b">>, <<"a", "w">>, <<"a", "0", "b">>,
                           <<"b", "..", "a">>}}
          \union {[abs |-> FALSE, parts |-> <<"a">>]}
MCProbePath == UNION {[1..n -> {"a", "A", "b"}] : n \in 0..3}

Lists(S, n) == UNION {[1..k -> S] : k \in 0..n}

Plain == [containment |-> "vz", ui |-> {}, network |-> {}, filesystem |-> {},
          options |-> {}, otherBackends |-> {}]

SomeFilesystems ==
    {[readonly |-> ro, readwrite |-> rw, denied |-> d]
        : ro \in Lists(MCPath, 2), rw \in Lists(MCPath, 1), d \in Lists(MCPath, 1)}
    \union {[readonly |-> ro, readwrite |-> rw, denied |-> <<>>]
        : ro \in Lists(MCPath, 1), rw \in Lists(MCPath, 2)}

Hosts == {[shape |-> "blank"],
          [shape |-> "cidr", ip |-> [fam |-> 4, bits |-> BitsOf(2, V4Bits)], prefix |-> 1],
          [shape |-> "cidr", ip |-> [fam |-> 6, bits |-> BitsOf(6, V6Bits)], prefix |-> 0],
          [shape |-> "name", name |-> CHOOSE n \in Name(0) : TRUE]}

SomeNetworks ==
    [defaultPolicy : {"absent", "allow", "block"}, allowedHosts : Lists(Hosts, 2),
     blockedHosts : BOOLEAN, proxy : BOOLEAN, enforcementMode : BOOLEAN]

Uis == [disable : {"absent", "true", "false"}, injection : {"absent", "true"},
        clipboard : {"absent", "none", "read"}]

OptionSets == [cpuCount : {0, 1}, memoryMb : {MinMemoryMb - 1, MinMemoryMb},
               bootTimeoutMs : {0, 1}]

MCPolicies ==
    [policy : {[Plain EXCEPT !.filesystem = {f}] : f \in SomeFilesystems}
              \union {[Plain EXCEPT !.network = {n}] : n \in SomeNetworks}
              \union {[Plain EXCEPT !.ui = {u}] : u \in Uis}
              \union {[Plain EXCEPT !.options = {o}] : o \in OptionSets}
              \union {[Plain EXCEPT !.containment = c, !.otherBackends = o]
                        : c \in {"vz", "lxc", "absent"}, o \in {{}, {"lxc"}}},
     experimental : {TRUE}]
    \union [policy : {Plain}, experimental : {FALSE}]

-----------------------------------------------------------------------------
MCResolved == << <<1, 2, 3, 4>>, [i \in 1..16 |-> i], <<255, 0, 0, 1>> >>

LabelLists == {<<>>, << <<97>> >>, << <<97, 98>>, <<99>> >>, << <<97, 46>>, <<98>> >>,
               << <<97, 98, 99, 100>> >>, << <<97, 98, 99, 100, 101>> >>,
               << <<97, 98>>, <<99, 100>> >>, << <<97, 200>> >>}

\* The first and the last characters of every length, and what is none: cut,
\* too long for its number, a surrogate, too large, torn between two labels.
TextLabels ==
    {<<x>> : x \in {<<97, 195, 169>>, <<194, 128>>, <<223, 191>>, <<224, 160, 128>>,
                    <<237, 159, 191>>, <<238, 128, 128>>, <<239, 191, 191>>,
                    <<240, 144, 128, 128>>, <<244, 143, 191, 191>>, <<240, 159, 152, 128, 97>>}}
OtherLabels ==
    {<<x>> : x \in {<<128>>, <<195>>, <<97, 226, 130>>, <<193, 191>>, <<224, 159, 191>>,
                    <<237, 160, 128>>, <<240, 143, 191, 191>>, <<244, 144, 128, 128>>,
                    <<245, 128, 128, 128>>, <<255>>, <<195, 97>>, <<195, 169, 169>>}}
    \union {<< <<195>>, <<169>> >>}

\* Complete packets of every kind, and one packet cut everywhere.
MCQuestion ==
    [id : {258}, flags : {0, 1, 16, 128}, count : {0, 1, 2}, labels : LabelLists,
     qtype : {1, 28, 15}, class : {1, 3}, extra : {<<>>, <<0, 0, 41, 16, 0>>}, size : {99}]
    \union [id : {258}, flags : {1}, count : {1}, labels : {<<>>, << <<97, 98>>, <<99>> >>},
            qtype : {28}, class : {1}, extra : {<<0, 0, 41>>}, size : 0..26]
    \union [id : {258}, flags : {1}, count : {1}, labels : TextLabels \union OtherLabels,
            qtype : {1}, class : {1}, extra : {<<>>}, size : {99}]

-----------------------------------------------------------------------------
SomeFrames == [channel : {"Control", "Stderr"}, payload : {<<>>, <<7>>, <<4, 0>>, <<1, 2, 3>>}]

MCStream ==
    [sent : Lists(SomeFrames, 2), tail : {<<>>}, size : 0..14]
    \union [sent : Lists(SomeFrames, 1), size : {14},
            tail : {<<3>>, <<3, 0, 0, 0>>, <<0, 0, 0, 64>>, <<3, 0, 0, 0, 9>>,
                    <<0, 0, 0, 0>>, <<0, 0, 0, 0, 4>>}]

-----------------------------------------------------------------------------
Guest(v) == IF v = 4 THEN <<10, 0, 2, 15>> ELSE [i \in 1..16 |-> 250 + (i % 6)]
Peer(v)  == IF v = 4 THEN <<255, 255, 255, 254>> ELSE [i \in 1..16 |-> IF i < 9 THEN 255 ELSE i]

TcpBytes(seq, flags) == <<200, 1, 0, 80>> \o seq \o Zeros(4) \o <<80, flags>> \o Zeros(6)
IcmpBytes(type, data) == <<type, 0, 0, 0, 18, 52, 0, 255>> \o data

Transports ==
    {[proto |-> Tcp, transport |-> TcpBytes(seq, flags)]
        : seq \in {<<0, 0, 0, 0>>, <<1, 2, 3, 255>>, <<0, 0, 255, 255>>, <<255, 255, 255, 255>>},
          flags \in {Syn, Syn + 1, Syn + 8, Syn + Ack, Syn + Rst, Ack}}
    \union {[proto |-> Udp, transport |-> <<200, 1, 0, 53, 0, 8, 0, 0>>]}
    \union {[proto |-> p, transport |-> IcmpBytes(type, data)]
        : p \in {Icmp, Icmpv6}, type \in {0, 8, 128, 129},
          data \in {<<>>, <<255>>, <<255, 255, 255, 255>>, <<1, 2, 3>>}}

Of(v, options, t, cut) ==
    LET s == [src |-> Guest(v), dst |-> Peer(v), options |-> options, proto |-> t.proto,
              transport |-> t.transport]
        whole == 12 + Len(IpBytes([src |-> s.src, dst |-> s.dst, options |-> options,
                                   proto |-> t.proto])) + Len(t.transport)
    IN  [k \in DOMAIN s \union {"size"} |-> IF k = "size" THEN whole - cut ELSE s[k]]

MCSegment ==
    {Of(v, o, t, 0) : v \in {4, 6}, o \in {0, 1, 10}, t \in Transports}
    \union {Of(v, o, [proto |-> Tcp, transport |-> TcpBytes(<<0, 0, 0, 9>>, Syn)], cut)
        : v \in {4, 6}, o \in {0, 2}, cut \in 0..40}
    \union {Of(v, o, [proto |-> Udp, transport |-> <<200, 1, 0, 53, 0, 8, 0, 0>>], cut)
        : v \in {4, 6}, o \in {0, 2}, cut \in 0..30}
=============================================================================
