---------------------------- MODULE HostPattern ----------------------------
(***************************************************************************)
(* vz_net/src/pattern.rs: the entries of allowedHosts and what they match, *)
(* with the static half of EgressFilter::allows_ip that uses them.         *)
(* Addresses are strings of bits, the lowest first, of two widths; a v6    *)
(* address whose upper bits are MappedHigh is the mapped form of a v4 one. *)
(* The letters of a name are one value.  An Option is a set with at most   *)
(* one element.                                                            *)
(***************************************************************************)
EXTENDS Integers

CONSTANTS
    V4Bits, V6Bits,   \* 32 and 128
    MappedHigh,       \* ::ffff:0:0/96
    Letters           \* the text of a name, whatever its case

Bits(width) == [0..width - 1 -> BOOLEAN]

ASSUME AddressAssumption ==
    /\ V4Bits \in Nat \ {0} /\ V6Bits \in Nat /\ V4Bits < V6Bits
    /\ MappedHigh \in Bits(V6Bits - V4Bits)

Width(fam) == IF fam = 4 THEN V4Bits ELSE V6Bits
Ip == UNION {[fam : {f}, bits : Bits(Width(f))] : f \in {4, 6}}

\* v4 in the mapped form.
Mapped(ip) ==
    [fam |-> 6, bits |-> [i \in 0..V6Bits - 1 |->
                            IF i < V4Bits THEN ip.bits[i] ELSE MappedHigh[i - V4Bits]]]

High(bits) == [i \in 0..V6Bits - V4Bits - 1 |-> bits[i + V4Bits]]

NormalizeIp(ip) ==
    IF ip.fam = 6 /\ High(ip.bits) = MappedHigh
    THEN [fam |-> 4, bits |-> [i \in 0..V4Bits - 1 |-> ip.bits[i]]]
    ELSE ip

\* u32::MAX << n and u128::MAX << n: a release build masks the amount.
OnesShifted(n, width) == [i \in 0..width - 1 |-> i >= n % width]

\* A shift by the whole width, unguarded.
Mask_Unguarded(prefix, width) == OnesShifted(width - prefix, width)

Mask(prefix, width) ==
    IF prefix = 0 THEN [i \in 0..width - 1 |-> FALSE] ELSE OnesShifted(width - prefix, width)

And(a, b) == [i \in DOMAIN a |-> a[i] /\ b[i]]

CidrContains(cidr, dest) ==
    LET ip   == NormalizeIp(dest)
        mask == Mask(cidr.prefix, Width(ip.fam))
    IN  ip.fam = cidr.network.fam /\ And(cidr.network.bits, mask) = And(ip.bits, mask)

\* A name as it is written: letters, their case, dots behind, blanks around.
NamesWith(dots) == [letters : Letters, upper : BOOLEAN, dots : dots, blanks : BOOLEAN]
Name(n) == NamesWith(0..n)

NormalizeHostname(name) ==
    [letters |-> name.letters, upper |-> FALSE, blanks |-> FALSE,
     dots |-> IF name.dots > 0 THEN name.dots - 1 ELSE 0]

\* Entries by the shape that decides how they are read; `text` stands for a
\* part that does not parse.
Entries ==
    [shape : {"blank", "text/"}] \union [shape : {"ip"}, ip : Ip]
    \union [shape : {"cidr"}, ip : Ip, prefix : Nat]
    \union [shape : {"name"}, name : NamesWith(Nat)]

Parse(entry) ==
    CASE entry.shape = "blank" -> {}
      [] entry.shape = "ip"    -> {[kind |-> "ip", ip |-> NormalizeIp(entry.ip)]}
      [] entry.shape = "name"  -> {[kind |-> "name", name |-> NormalizeHostname(entry.name)]}
      [] entry.shape = "text/" -> {}
      [] entry.shape = "cidr"  ->
            {[kind |-> "cidr", network |-> n, prefix |-> entry.prefix]
                : n \in {x \in {NormalizeIp(entry.ip)} : entry.prefix <= Width(x.fam)}}

\* EgressFilter::new and the part of allows_ip that no lookup changes.
StaticallyAllowed(patterns, dest) ==
    \E p \in patterns :
        \/ p.kind = "ip" /\ p.ip = NormalizeIp(dest)
        \/ p.kind = "cidr" /\ CidrContains(p, NormalizeIp(dest))

NameAllowed(patterns, name) ==
    \E p \in patterns : p.kind = "name" /\ p.name = NormalizeHostname(name)
=============================================================================
