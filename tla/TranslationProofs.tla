------------------------- MODULE TranslationProofs -------------------------
(***************************************************************************)
(* The translations are right about every input: every width of addresses, *)
(* every policy, every frame.                                              *)
(***************************************************************************)
EXTENDS Translations, SequenceTheorems, WellFoundedInduction, TLAPS

\* An input is none, or one of those a translation may be given.
InputOK ==
    \/ input = [about |-> "nothing"]
    \/ \E x \in Entry : input = [about |-> "entry", is |-> x]
    \/ \E x \in Policies : input = [about |-> "policy", is |-> x]
    \/ \E x \in Question : input = [about |-> "question", is |-> x]
    \/ \E x \in Stream : input = [about |-> "stream", is |-> x]
    \/ \E x \in Segment : input = [about |-> "segment", is |-> x]

LEMMA InputAlways == Spec => []InputOK
<1>1. Init => InputOK
  BY DEF Init, InputOK
<1>2. InputOK /\ [Next]_input => InputOK'
  BY DEF InputOK, Next, ReadEntry, PlanVm, AnswerDns, ReadStream, PeekFrame, Takes
<1> QED
  BY <1>1, <1>2, PTL DEF Spec

-----------------------------------------------------------------------------
\* An address is one of the two families, with the bits of its family.
LEMMA IpParts ==
    ASSUME NEW ip \in Ip
    PROVE  /\ ip = [fam |-> ip.fam, bits |-> ip.bits]
           /\ ip.fam \in {4, 6}
           /\ ip.bits \in Bits(Width(ip.fam))
BY DEF Ip

LEMMA IpOf ==
    ASSUME NEW f \in {4, 6}, NEW b \in Bits(Width(f))
    PROVE  [fam |-> f, bits |-> b] \in Ip
BY DEF Ip

\* Two bit strings of one width are equal when they agree everywhere.
LEMMA BitsEqual ==
    ASSUME NEW w, NEW a \in Bits(w), NEW b \in Bits(w),
           \A i \in 0..w - 1 : a[i] = b[i]
    PROVE  a = b
<1>1. a = [i \in 0..w - 1 |-> a[i]] /\ b = [i \in 0..w - 1 |-> b[i]]
  BY DEF Bits
<1> QED
  BY <1>1

\* The mapped form of a v4 address is a v6 address, and normalizes to it.
LEMMA MappedNormal ==
    ASSUME NEW ip \in Ip, ip.fam = 4
    PROVE  Mapped(ip) \in Ip /\ Mapped(ip).fam = 6 /\ NormalizeIp(Mapped(ip)) = ip
<1> DEFINE m == [i \in 0..V6Bits - 1 |->
                    IF i < V4Bits THEN ip.bits[i] ELSE MappedHigh[i - V4Bits]]
           low == [i \in 0..V4Bits - 1 |-> m[i]]
<1>1. ip.bits \in Bits(V4Bits) /\ ip = [fam |-> 4, bits |-> ip.bits]
  BY IpParts DEF Width
<1>2. \A i \in 0..V6Bits - 1 : m[i] \in BOOLEAN
  BY <1>1, AddressAssumption DEF Bits
<1>3. m \in Bits(V6Bits)
  BY <1>2 DEF Bits
<1>4. Mapped(ip) = [fam |-> 6, bits |-> m]
  BY DEF Mapped
<1>5. Mapped(ip) \in Ip /\ Mapped(ip).fam = 6 /\ Mapped(ip).bits = m
  <2> HIDE DEF m
  <2>1. m \in Bits(Width(6))
    BY <1>3 DEF Width
  <2>2. [fam |-> 6, bits |-> m] \in Ip
    BY <2>1, IpOf
  <2> QED
    BY <2>2, <1>4
<1>6. High(m) = MappedHigh
  <2> HIDE DEF m
  <2>0. \A i \in 0..V6Bits - V4Bits - 1 : m[i + V4Bits] \in BOOLEAN
    BY <1>2, AddressAssumption
  <2>1. High(m) \in Bits(V6Bits - V4Bits)
    BY <2>0 DEF High, Bits
  <2>2. ASSUME NEW i \in 0..V6Bits - V4Bits - 1 PROVE High(m)[i] = MappedHigh[i]
    <3>1. i + V4Bits \in 0..V6Bits - 1 /\ ~(i + V4Bits < V4Bits)
          /\ i + V4Bits - V4Bits = i
      BY AddressAssumption
    <3>2. \A j \in 0..V6Bits - 1 : ~(j < V4Bits) => m[j] = MappedHigh[j - V4Bits]
      BY DEF m
    <3>3. m[i + V4Bits] = MappedHigh[i]
      BY <3>1, <3>2, AddressAssumption
    <3> QED
      BY <3>3 DEF High
  <2> QED
    BY <2>1, <2>2, BitsEqual, AddressAssumption
<1>7. low = ip.bits
  <2>0. \A i \in 0..V4Bits - 1 : low[i] \in BOOLEAN
    <3> HIDE DEF m
    <3> QED BY <1>2, AddressAssumption
  <2>1. low \in Bits(V4Bits)
    BY <2>0 DEF Bits
  <2>2. ASSUME NEW i \in 0..V4Bits - 1 PROVE low[i] = ip.bits[i]
    BY AddressAssumption
  <2> HIDE DEF low
  <2> QED
    BY <2>1, <2>2, <1>1, BitsEqual
<1> QED
  BY <1>1, <1>5, <1>6, <1>7 DEF NormalizeIp

\* An address normalizes to itself, or is the mapped form of what it
\* normalizes to; normalizing again changes nothing.
LEMMA NormalForm ==
    ASSUME NEW ip \in Ip
    PROVE  /\ NormalizeIp(ip) \in Ip
           /\ NormalizeIp(ip) = ip
                \/ (ip.fam = 6 /\ NormalizeIp(ip).fam = 4 /\ ip = Mapped(NormalizeIp(ip)))
           /\ NormalizeIp(NormalizeIp(ip)) = NormalizeIp(ip)
<1>1. CASE ip.fam = 6 /\ High(ip.bits) = MappedHigh
  <2> DEFINE low == [i \in 0..V4Bits - 1 |-> ip.bits[i]]
             v4  == [fam |-> 4, bits |-> low]
             m   == [i \in 0..V6Bits - 1 |->
                       IF i < V4Bits THEN low[i] ELSE MappedHigh[i - V4Bits]]
  <2>1. ip.bits \in Bits(V6Bits) /\ ip = [fam |-> 6, bits |-> ip.bits]
    BY <1>1, IpParts DEF Width
  <2>2. low \in Bits(V4Bits)
    BY <2>1, AddressAssumption DEF Bits
  <2>3. NormalizeIp(ip) = v4
    BY <1>1 DEF NormalizeIp
  <2>4. v4 \in Ip /\ v4.fam = 4
    BY <2>2, IpOf DEF Width
  <2>5. m = ip.bits
    <3>1. ASSUME NEW i \in 0..V6Bits - 1 PROVE m[i] = ip.bits[i]
      <4>1. CASE i < V4Bits
        BY <4>1, AddressAssumption
      <4>2. CASE ~(i < V4Bits)
        <5>1. i - V4Bits \in 0..V6Bits - V4Bits - 1
          BY <4>2, AddressAssumption
        <5>2. High(ip.bits)[i - V4Bits] = ip.bits[i - V4Bits + V4Bits]
          BY <5>1 DEF High
        <5> QED
          BY <5>1, <5>2, <4>2, <1>1, AddressAssumption
      <4> QED
        BY <4>1, <4>2
    <3>2. m \in Bits(V6Bits)
      BY <3>1, <2>1 DEF Bits
    <3> HIDE DEF m
    <3> QED
      BY <3>1, <3>2, <2>1, BitsEqual
  <2>6. Mapped(v4) = ip
    BY <2>1, <2>5 DEF Mapped
  <2> QED
    BY <2>3, <2>4, <2>6, <1>1 DEF NormalizeIp
<1>2. CASE ~(ip.fam = 6 /\ High(ip.bits) = MappedHigh)
  BY <1>2 DEF NormalizeIp
<1> QED
  BY <1>1, <1>2

\* Two forms name one host exactly when they normalize to one address.
LEMMA SameHostNormal ==
    ASSUME NEW a \in Ip, NEW b \in Ip
    PROVE  SameHost(a, b) <=> NormalizeIp(a) = NormalizeIp(b)
<1>1. \A ip \in Ip : ip.fam = 4 => NormalizeIp(ip) = ip /\ NormalizeIp(Mapped(ip)) = ip
  BY MappedNormal DEF NormalizeIp
<1>2. SameHost(a, b) => NormalizeIp(a) = NormalizeIp(b)
  BY <1>1 DEF SameHost
<1>3. ASSUME NormalizeIp(a) = NormalizeIp(b) PROVE SameHost(a, b)
  BY <1>3, NormalForm DEF SameHost
<1> QED
  BY <1>2, <1>3

\* An address that is the mapped form of none is its own normal form.
LEMMA PlainIsNormal ==
    ASSUME NEW x \in Ip
    PROVE  x.fam = 4 \/ (\A v4 \in Ip : v4.fam = 4 => x # Mapped(v4))
             <=> NormalizeIp(x) = x
<1>1. ASSUME x.fam = 4 \/ (\A v4 \in Ip : v4.fam = 4 => x # Mapped(v4))
      PROVE  NormalizeIp(x) = x
  BY <1>1, NormalForm
<1>2. ASSUME NormalizeIp(x) = x, x.fam # 4, NEW v4 \in Ip, v4.fam = 4, x = Mapped(v4)
      PROVE  FALSE
  BY <1>2, MappedNormal
<1> QED
  BY <1>1, <1>2

\* Masked with a prefix, two addresses are equal exactly when they share it.
LEMMA MaskIsPrefix ==
    ASSUME NEW w \in Nat \ {0}, NEW a \in Bits(w), NEW b \in Bits(w), NEW n \in 0..w
    PROVE  And(a, Mask(n, w)) = And(b, Mask(n, w)) <=> SamePrefix(a, b, n, w)
<1> DEFINE mask == Mask(n, w)
<1>1. \A i \in 0..w - 1 : mask[i] \in BOOLEAN /\ (mask[i] <=> i >= w - n)
  <2>1. CASE n = 0
    <3>1. \A i \in 0..w - 1 : ~(i >= w - n)
      BY <2>1
    <3> QED
      BY <3>1, <2>1 DEF Mask
  <2>2. CASE n # 0
    <3>1. w - n \in 0..w - 1
      BY <2>2
    <3>2. (w - n) % w = w - n
      BY <3>1
    <3>3. mask = [i \in 0..w - 1 |-> i >= w - n]
      BY <2>2, <3>2 DEF Mask, OnesShifted
    <3> HIDE DEF mask
    <3>4. \A i \in 0..w - 1 : (i >= w - n) \in BOOLEAN
      OBVIOUS
    <3> QED
      BY <3>3, <3>4, Zenon
  <2> QED
    BY <2>1, <2>2
<1> HIDE DEF mask
<1>2. DOMAIN a = 0..w - 1 /\ DOMAIN b = 0..w - 1
  BY DEF Bits
<1>3. And(a, mask) = [i \in 0..w - 1 |-> a[i] /\ mask[i]]
  BY <1>2 DEF And
<1>4. And(b, mask) = [i \in 0..w - 1 |-> b[i] /\ mask[i]]
  BY <1>2 DEF And
<1>5. And(a, mask) = And(b, mask)
        <=> \A i \in 0..w - 1 : (a[i] /\ mask[i]) = (b[i] /\ mask[i])
  BY <1>3, <1>4
<1>6. \A i \in 0..w - 1 : a[i] \in BOOLEAN /\ b[i] \in BOOLEAN /\ mask[i] \in BOOLEAN
  <2>1. \A i \in 0..w - 1 : a[i] \in BOOLEAN /\ b[i] \in BOOLEAN
    BY DEF Bits
  <2> QED
    BY <2>1, <1>1
<1>7. (\A i \in 0..w - 1 : (a[i] /\ mask[i]) = (b[i] /\ mask[i]))
        <=> \A i \in 0..w - 1 : mask[i] => a[i] = b[i]
  BY <1>6
<1>8. (\A i \in 0..w - 1 : mask[i] => a[i] = b[i]) <=> SamePrefix(a, b, n, w)
  <2>0. \A i \in 0..w - 1 : i >= w - n <=> i \in w - n..w - 1
    OBVIOUS
  <2>1. \A i \in 0..w - 1 : mask[i] <=> i \in w - n..w - 1
    BY <1>1, <2>0
  <2>2. w - n..w - 1 \subseteq 0..w - 1
    OBVIOUS
  <2> QED
    BY <2>1, <2>2 DEF SamePrefix
<1> QED
  BY <1>5, <1>7, <1>8 DEF mask

\* A block admits the addresses that share its prefix, in either form.
LEMMA CidrExact ==
    ASSUME NEW net \in Ip, NEW n \in Nat, NEW dest \in Ip,
           NormalizeIp(net) = net, n <= Width(net.fam)
    PROVE  CidrContains([kind |-> "cidr", network |-> net, prefix |-> n], NormalizeIp(dest))
             <=> LET ip == NormalizeIp(dest) IN
                 net.fam = ip.fam /\ SamePrefix(net.bits, ip.bits, n, Width(net.fam))
<1> DEFINE ip == NormalizeIp(dest)
           w  == Width(net.fam)
<1>1. ip \in Ip /\ NormalizeIp(ip) = ip
  BY NormalForm
<1>2. w \in Nat \ {0} /\ n \in 0..w
  BY AddressAssumption, IpParts DEF Width
<1>3. CidrContains([kind |-> "cidr", network |-> net, prefix |-> n], ip)
        <=> ip.fam = net.fam /\ And(net.bits, Mask(n, w)) = And(ip.bits, Mask(n, w))
  BY <1>1 DEF CidrContains
<1>4. ip.fam = net.fam => net.bits \in Bits(w) /\ ip.bits \in Bits(w)
  BY <1>1, IpParts
<1> HIDE DEF w, ip
<1>5. ip.fam = net.fam => (And(net.bits, Mask(n, w)) = And(ip.bits, Mask(n, w))
                             <=> SamePrefix(net.bits, ip.bits, n, w))
  BY <1>2, <1>4, MaskIsPrefix
<1> QED
  BY <1>3, <1>5 DEF w, ip

\* An entry's address decides as the entry says.
LEMMA EntryDecides ==
    ASSUME NEW e \in Entries, NEW dest \in Ip
    PROVE  StaticallyAllowed(Parse(e), dest) <=> EntryAdmits(e, dest)
<1>1. CASE e.shape \in {"blank", "text/"}
  <2>1. Parse(e) = {}
    BY <1>1 DEF Parse
  <2> QED
    BY <2>1, <1>1 DEF StaticallyAllowed, EntryAdmits
<1>2. CASE e.shape = "name"
  <2>1. \A p \in Parse(e) : p.kind = "name"
    BY <1>2 DEF Parse
  <2> QED
    BY <2>1, <1>2 DEF StaticallyAllowed, EntryAdmits
<1>3. CASE e.shape = "ip"
  <2>1. e.ip \in Ip
    BY <1>3 DEF Entries
  <2>2. Parse(e) = {[kind |-> "ip", ip |-> NormalizeIp(e.ip)]}
    BY <1>3 DEF Parse
  <2>3. StaticallyAllowed(Parse(e), dest) <=> NormalizeIp(e.ip) = NormalizeIp(dest)
    BY <2>2 DEF StaticallyAllowed
  <2> QED
    BY <2>1, <2>3, <1>3, SameHostNormal DEF EntryAdmits
<1>4. CASE e.shape = "cidr"
  <2> DEFINE net == NormalizeIp(e.ip)
             ip  == NormalizeIp(dest)
             fit == e.prefix <= Width(net.fam)
  <2>1. e.ip \in Ip /\ e.prefix \in Nat
    BY <1>4 DEF Entries
  <2>2. net \in Ip /\ NormalizeIp(net) = net /\ ip \in Ip /\ NormalizeIp(ip) = ip
    BY <2>1, NormalForm
  <2>3. Parse(e) = {[kind |-> "cidr", network |-> x, prefix |-> e.prefix]
                      : x \in {y \in {net} : e.prefix <= Width(y.fam)}}
    BY <1>4 DEF Parse
  <2>4. StaticallyAllowed(Parse(e), dest)
          <=> fit /\ CidrContains([kind |-> "cidr", network |-> net, prefix |-> e.prefix], ip)
    BY <2>3 DEF StaticallyAllowed
  <2>5. fit => (CidrContains([kind |-> "cidr", network |-> net, prefix |-> e.prefix], ip)
                  <=> net.fam = ip.fam
                      /\ SamePrefix(net.bits, ip.bits, e.prefix, Width(net.fam)))
    BY <2>1, <2>2, CidrExact
  <2>6. \A x \in Ip : SameHost(x, e.ip)
                        /\ (x.fam = 4 \/ \A v4 \in Ip : v4.fam = 4 => x # Mapped(v4))
                      <=> x = net
    BY <2>1, <2>2, SameHostNormal, PlainIsNormal
  <2>7. \A x \in Ip : SameHost(x, dest)
                        /\ (x.fam = 4 \/ \A v4 \in Ip : v4.fam = 4 => x # Mapped(v4))
                      <=> x = ip
    BY <2>2, SameHostNormal, PlainIsNormal
  <2>8. EntryAdmits(e, dest)
          <=> net.fam = ip.fam /\ fit
              /\ SamePrefix(net.bits, ip.bits, e.prefix, Width(net.fam))
    <3> HIDE DEF net, ip
    <3>1. EntryAdmits(e, dest) <=> \E x, y \in Ip :
            /\ SameHost(x, e.ip) /\ SameHost(y, dest)
            /\ \A z \in {x, y} : z.fam = 4 \/ \A v4 \in Ip : v4.fam = 4 => z # Mapped(v4)
            /\ x.fam = y.fam /\ e.prefix <= Width(x.fam)
            /\ SamePrefix(x.bits, y.bits, e.prefix, Width(x.fam))
      BY <1>4 DEF EntryAdmits
    <3>2. EntryAdmits(e, dest) <=> \E x, y \in Ip :
            /\ x = net /\ y = ip
            /\ x.fam = y.fam /\ e.prefix <= Width(x.fam)
            /\ SamePrefix(x.bits, y.bits, e.prefix, Width(x.fam))
      BY <3>1, <2>6, <2>7
    <3> QED
      BY <3>2, <2>2
  <2> QED
    BY <2>4, <2>5, <2>8
<1> QED
  BY <1>1, <1>2, <1>3, <1>4 DEF Entries

\* A name matches up to case, blanks and one final dot.
LEMMA NameDecides ==
    ASSUME NEW e \in Entries, NEW name \in NamesWith(Nat)
    PROVE  NameAllowed(Parse(e), name)
             <=> /\ e.shape = "name" /\ e.name.letters = name.letters
                 /\ e.name.dots = name.dots \/ {e.name.dots, name.dots} = {0, 1}
<1>1. CASE e.shape \in {"blank", "text/", "ip", "cidr"}
  <2>1. \A p \in Parse(e) : p.kind # "name"
    BY <1>1 DEF Parse
  <2> QED
    BY <2>1, <1>1 DEF NameAllowed
<1>2. CASE e.shape = "name"
  <2> DEFINE cut(n) == IF n > 0 THEN n - 1 ELSE 0
  <2>1. e.name.dots \in Nat /\ name.dots \in Nat
    BY <1>2 DEF Entries, NamesWith
  <2>2. Parse(e) = {[kind |-> "name", name |-> NormalizeHostname(e.name)]}
    BY <1>2 DEF Parse
  <2>3. NameAllowed(Parse(e), name) <=> NormalizeHostname(e.name) = NormalizeHostname(name)
    BY <2>2 DEF NameAllowed
  <2>4. NormalizeHostname(e.name) = NormalizeHostname(name)
          <=> e.name.letters = name.letters /\ cut(e.name.dots) = cut(name.dots)
    BY DEF NormalizeHostname
  <2>5. \A m, n \in Nat : cut(m) = cut(n) <=> m = n \/ {m, n} = {0, 1}
    <3> TAKE m, n \in Nat
    <3>1. {m, n} = {0, 1} <=> (m = 0 /\ n = 1) \/ (m = 1 /\ n = 0)
      OBVIOUS
    <3>2. cut(m) = cut(n) <=> m = n \/ (m = 0 /\ n = 1) \/ (m = 1 /\ n = 0)
      OBVIOUS
    <3> QED
      BY <3>1, <3>2
  <2> HIDE DEF cut
  <2> QED
    BY <1>2, <2>1, <2>3, <2>4, <2>5
<1> QED
  BY <1>1, <1>2 DEF Entries

\* Every entry of an allowlist admits, for all address widths, prefixes and
\* names, exactly the destinations it says (pattern.rs, filter.rs).
THEOREM EntriesExact == Spec => []PatternsExact
<1>1. InputOK => PatternsExact
  <2> SUFFICES ASSUME NEW e \in Entry, input = [about |-> "entry", is |-> e]
               PROVE  PatternsExact
    BY DEF InputOK, PatternsExact
  <2>1. e \in Entries
    BY InputAssumption
  <2>2. Name(2) \subseteq NamesWith(Nat)
    BY DEF Name, NamesWith
  <2> QED
    BY <2>1, <2>2, EntryDecides, NameDecides DEF PatternsExact
<1> QED
  BY <1>1, InputAlways, PTL

-----------------------------------------------------------------------------
\* An option with a value is that value alone.
LEMMA OptionIs ==
    ASSUME NEW S, NEW T, IsOption(S, T), NEW x \in S
    PROVE  S = {x} /\ x \in T /\ (CHOOSE y \in S : TRUE) = x
BY DEF IsOption

\* A list has its elements out of the set it is a list of.
LEMMA ListOf ==
    ASSUME NEW T, NEW s \in Seq(T)
    PROVE  ToSet(s) \subseteq T
BY DEF ToSet

\* A filter made of several entries admits what one of them does.
LEMMA PatternsDecide ==
    ASSUME NEW n \in Networks, NEW dest \in Ip
    PROVE  StaticallyAllowed(Patterns(n), dest)
             <=> \E e \in {x \in ToSet(n.allowedHosts) : Parse(x) # {}} : EntryAdmits(e, dest)
<1>1. ToSet(n.allowedHosts) \subseteq Entries
  BY ListOf DEF Networks
<1>2. StaticallyAllowed(Patterns(n), dest)
        <=> \E e \in ToSet(n.allowedHosts) : StaticallyAllowed(Parse(e), dest)
  BY DEF StaticallyAllowed, Patterns
<1>3. \A e \in ToSet(n.allowedHosts) : StaticallyAllowed(Parse(e), dest) => Parse(e) # {}
  BY DEF StaticallyAllowed
<1> QED
  BY <1>1, <1>2, <1>3, EntryDecides

\* The network a policy asks for is the one its guest gets, for every list of
\* hosts: nothing without a word, everything only by an explicit one, and a
\* filter that admits what the list's readable entries say (vm_spec.rs).
LEMMA PlanIsAsked ==
    ASSUME NEW x \in Policies, input = [about |-> "policy", is |-> x]
    PROVE  NetworkAsAsked
<1> DEFINE policy == x.policy
           nets(default) == {n \in policy.network : n.defaultPolicy = default}
           readable(n)   == {e \in ToSet(n.allowedHosts) : Parse(e) # {}}
<1>1. IsOption(policy.network, Networks)
  BY InputAssumption
<1>2. \A n \in policy.network :
        /\ policy.network = {n} /\ n \in Networks
        /\ n.defaultPolicy \in {"absent", "allow", "block"}
        /\ NetworkMode(policy) = ModeOf(n)
        /\ Patterns(n) # {} <=> readable(n) # {}
  <2> SUFFICES ASSUME NEW n \in policy.network
               PROVE  /\ policy.network = {n} /\ n \in Networks
                      /\ n.defaultPolicy \in {"absent", "allow", "block"}
                      /\ NetworkMode(policy) = ModeOf(n)
                      /\ Patterns(n) # {} <=> readable(n) # {}
    OBVIOUS
  <2>1. policy.network = {n} /\ n \in Networks /\ (CHOOSE y \in policy.network : TRUE) = n
    BY <1>1, OptionIs
  <2> QED
    BY <2>1 DEF Networks, NetworkMode, Patterns
<1>3. policy.network = {} => NetworkMode(policy) = "None"
  BY DEF NetworkMode
<1>4. NetworkMode(policy) = "Nat" <=> nets("allow") # {}
  BY <1>2, <1>3 DEF ModeOf
<1>5. NetworkMode(policy) = "FilteredNat" <=> \E n \in nets("block") : readable(n) # {}
  BY <1>2, <1>3 DEF ModeOf
<1>6. StaticNet(policy) <=> NetworkMode(policy) = "FilteredNat"
  BY DEF StaticNet, KernelCmdline
<1>7. \A n \in nets("block"), dest \in Ip :
        StaticallyAllowed(Patterns(n), dest) <=> \E e \in readable(n) : EntryAdmits(e, dest)
  BY <1>2, PatternsDecide
<1>8. \A n \in policy.network : readable(n) # ToSet(n.allowedHosts)
        => "SkippedAllowedHost" \in Warnings(policy)
  <2> SUFFICES ASSUME NEW n \in policy.network, readable(n) # ToSet(n.allowedHosts)
               PROVE  "SkippedAllowedHost" \in Warnings(policy)
    OBVIOUS
  <2>1. \E e \in ToSet(n.allowedHosts) : Parse(e) = {}
    OBVIOUS
  <2>2. "SkippedAllowedHost" \in When(\E e \in ToSet(n.allowedHosts) : Parse(e) = {},
                                       "SkippedAllowedHost")
    BY <2>1 DEF When
  <2> HIDE DEF policy, readable
  <2> DEFINE of(net) ==
          When(net.enforcementMode, "IgnoredField")
          \union When(net.allowedHosts # <<>> /\ net.defaultPolicy = "allow",
                      "RedundantAllowedHosts")
          \union When(\E e \in ToSet(net.allowedHosts) : Parse(e) = {}, "SkippedAllowedHost")
  <2>3. UNION {of(net) : net \in policy.network} \subseteq Warnings(policy)
    BY DEF Warnings
  <2>4. "SkippedAllowedHost" \in of(n)
    BY <2>2
  <2> QED
    BY <2>3, <2>4
<1> HIDE DEF policy
<1>9. input.about = "policy" /\ input.is.policy = policy
  BY DEF policy
<1> QED
  BY <1>4, <1>5, <1>6, <1>7, <1>8, <1>9 DEF NetworkAsAsked

\* NetworkAsAsked for every policy.
THEOREM NetworkIsAsked == Spec => []NetworkAsAsked
<1>1. InputOK => NetworkAsAsked
  BY PlanIsAsked DEF InputOK, NetworkAsAsked
<1> QED
  BY <1>1, InputAlways, PTL

-----------------------------------------------------------------------------
\* A set of positions in a list has a last one.
LEMMA LastOne ==
    ASSUME NEW n \in Nat, NEW T, T \subseteq 1..n, T # {}
    PROVE  \E m \in T : \A j \in T : j <= m
<1> DEFINE back == {n - i : i \in T}
<1>0. \A i \in T : i \in Int /\ n - i \in Nat
  OBVIOUS
<1>1. back \subseteq Nat /\ back # {}
  BY <1>0
<1>2. \E b \in back : \A c \in back : ~(<<c, b>> \in OpToRel(<, Nat))
  BY <1>1, NatLessThanWellFounded, WFMin
<1>3. PICK b \in back : \A c \in back : ~(c < b)
  BY <1>1, <1>2 DEF OpToRel
<1>4. PICK m \in T : b = n - m
  OBVIOUS
<1>5. ASSUME NEW j \in T PROVE j <= m
  <2>1. ~(n - j < n - m)
    BY <1>3, <1>4
  <2> QED
    BY <2>1, <1>0
<1> QED
  BY <1>5

\* A prefix is shorter and agrees as far as it goes.
LEMMA PrefixMeans ==
    ASSUME NEW S, NEW s \in Seq(S), NEW T, NEW t \in Seq(T)
    PROVE  IsPrefix(s, t) <=> Len(s) <= Len(t) /\ \A i \in 1..Len(s) : s[i] = t[i]
<1>1. Len(s) \in Nat /\ Len(t) \in Nat
  BY LenProperties
<1>2. SubSeq(s, 1, Len(s)) = s
  BY SubSeqFull
<1>3. CASE Len(s) <= Len(t)
  <2> DEFINE u == SubSeq(t, 1, Len(s))
  <2>1. \A i \in 1..Len(s) : t[i] \in T
    BY <1>1, <1>3, ElementOfSeq
  <2>2. u \in Seq(T) /\ Len(u) = Len(s) /\ \A i \in 1..Len(s) : u[i] = t[i]
    BY <1>1, <2>1, SubSeqProperties
  <2>3. s \in Seq(S \union T) /\ u \in Seq(S \union T)
    BY <2>2, SeqMonotonic
  <2>4. s = u <=> \A i \in 1..Len(s) : s[i] = u[i]
    <3> HIDE DEF u
    <3> QED BY <2>2, <2>3, SeqEqual
  <2> QED
    BY <1>2, <1>3, <2>2, <2>4 DEF IsPrefix
<1>4. CASE ~(Len(s) <= Len(t))
  BY <1>4 DEF IsPrefix
<1> QED
  BY <1>3, <1>4

\* A prefix and what stands behind it make the whole.
LEMMA PrefixAndRest ==
    ASSUME NEW S, NEW s \in Seq(S), NEW t \in Seq(S), IsPrefix(s, t)
    PROVE  s \o SubSeq(t, Len(s) + 1, Len(t)) = t
<1>1. Len(s) \in Nat /\ Len(t) \in Nat /\ Len(s) <= Len(t)
  BY LenProperties DEF IsPrefix
<1>2. s = SubSeq(t, 1, Len(s))
  BY SubSeqFull DEF IsPrefix
<1>3. SubSeq(t, 1, Len(s)) \o SubSeq(t, Len(s) + 1, Len(t)) = SubSeq(t, 1, Len(t))
  <2>1. 1 \in 1..Len(t) + 1 /\ Len(s) \in 1 - 1..Len(t) /\ Len(t) \in Len(s)..Len(t)
    BY <1>1
  <2> QED
    BY <2>1, ConcatAdjacentSubSeq
<1> QED
  BY <1>2, <1>3, SubSeqFull

\* Nothing is cut off where the special component does not occur.
LEMMA NothingToCut ==
    ASSUME NEW p \in Paths, NEW special, ~Has(p, special)
    PROVE  Cut(p.parts, special) = p.parts
<1>1. p.parts \in Seq(Component)
  BY DEF Paths
<1>2. \A i \in 1..Len(p.parts) : p.parts[i] # special
  BY <1>1, LenProperties DEF Has, ToSet
<1>3. UpTo(p.parts, special) = 0
  BY <1>2 DEF UpTo, SelectInSeq
<1> QED
  BY <1>3 DEF Cut

\* What validation has made sure of once it accepts a policy.
LEMMA AcceptedMeans ==
    ASSUME NEW policy, NEW experimental, Accepted(policy, experimental),
           NEW fs \in policy.filesystem, fs \in Filesystems
    PROVE  /\ \A p \in ToSet(SharePaths(fs)) :
                 p \in Paths /\ p.abs = TRUE /\ ~Has(p, NUL) /\ ~Has(p, BLANK)
           /\ \A d \in ToSet(fs.denied) : d \in Paths /\ d.abs = TRUE
           /\ \A d \in ToSet(fs.denied), p \in ToSet(SharePaths(fs)) : ~PathContains(p, d)
<1> DEFINE shared == SharePaths(fs)
           all    == ToSet(shared \o fs.denied)
<1>1. shared \in Seq(Paths) /\ fs.denied \in Seq(Paths)
  BY ConcatProperties DEF Filesystems, SharePaths
<1>2. ToSet(shared) \subseteq all /\ ToSet(fs.denied) \subseteq all /\ all \subseteq Paths
  <2> HIDE DEF shared
  <2>1. /\ shared \o fs.denied \in Seq(Paths)
        /\ Len(shared \o fs.denied) = Len(shared) + Len(fs.denied)
        /\ \A i \in 1..Len(shared) + Len(fs.denied) : (shared \o fs.denied)[i] =
               IF i <= Len(shared) THEN shared[i] ELSE fs.denied[i - Len(shared)]
    BY <1>1, ConcatProperties
  <2>2. Len(shared) \in Nat /\ Len(fs.denied) \in Nat
        /\ DOMAIN shared = 1..Len(shared) /\ DOMAIN fs.denied = 1..Len(fs.denied)
        /\ DOMAIN (shared \o fs.denied) = 1..Len(shared) + Len(fs.denied)
    BY <1>1, <2>1, LenProperties
  <2>3. ToSet(shared) \subseteq all
    <3> SUFFICES ASSUME NEW i \in 1..Len(shared) PROVE shared[i] \in all
      BY <2>2 DEF ToSet
    <3>1. i \in 1..Len(shared) + Len(fs.denied) /\ i <= Len(shared)
      BY <2>2
    <3> QED
      BY <3>1, <2>1, <2>2 DEF ToSet
  <2>4. ToSet(fs.denied) \subseteq all
    <3> SUFFICES ASSUME NEW i \in 1..Len(fs.denied) PROVE fs.denied[i] \in all
      BY <2>2 DEF ToSet
    <3>1. /\ i + Len(shared) \in 1..Len(shared) + Len(fs.denied)
          /\ ~(i + Len(shared) <= Len(shared)) /\ i + Len(shared) - Len(shared) = i
      BY <2>2
    <3>2. (shared \o fs.denied)[i + Len(shared)] = fs.denied[i]
      BY <3>1, <2>1
    <3> QED
      BY <3>1, <3>2, <2>2 DEF ToSet
  <2> QED
    BY <2>1, <2>3, <2>4, ListOf
<1>3. FilesystemErrors(policy) = {}
  BY DEF Accepted, Errors
<1>4. /\ When(\E p \in all : Has(p, NUL), "PathContainsNul") = {}
      /\ When(\E p \in all : ~Has(p, NUL) /\ ~p.abs, "NonAbsolutePath") = {}
      /\ SharePathErrors(fs) = {}
      /\ When(\E d \in ToSet(fs.denied), p \in ToSet(shared) : PathContains(p, d),
              "DeniedPathInsideShare") = {}
  <2> DEFINE of(f) ==
          When(\E p \in ToSet(SharePaths(f) \o f.denied) : Has(p, NUL), "PathContainsNul")
          \union When(\E p \in ToSet(SharePaths(f) \o f.denied) : ~Has(p, NUL) /\ ~p.abs,
                      "NonAbsolutePath")
          \union SharePathErrors(f)
          \union When(\E d \in ToSet(f.denied), p \in ToSet(SharePaths(f)) : PathContains(p, d),
                      "DeniedPathInsideShare")
  <2>1. FilesystemErrors(policy) = UNION {of(f) : f \in policy.filesystem}
    BY DEF FilesystemErrors
  <2>2. of(fs) = {}
    <3> HIDE DEF of
    <3> QED BY <1>3, <2>1
  <2> QED
    BY <2>2
<1>5. /\ \A p \in all : ~Has(p, NUL) /\ p.abs
      /\ \A p \in ToSet(shared) : ~Has(p, BLANK)
      /\ \A d \in ToSet(fs.denied), p \in ToSet(shared) : ~PathContains(p, d)
  <2> HIDE DEF all
  <2>1. \A c, what : When(c, what) = {} => ~c
    BY DEF When
  <2> QED
    BY <1>4, <2>1 DEF SharePathErrors
<1>6. \A p \in all : p.abs = TRUE
  BY <1>2, <1>5 DEF Paths
<1> QED
  BY <1>2, <1>5, <1>6

\* The shares that cover a path, by their place in the list, and the last of them.
Covering(fs, path) ==
    {i \in 1..Len(SharePaths(fs)) :
        /\ Resolve(SharePaths(fs)[i].parts) # <<>>
        /\ IsPrefix(Resolve(SharePaths(fs)[i].parts), path)}
LastOf(T) == {m \in T : \A j \in T : j <= m}
LastShown(fs, path) ==
    {[place |-> path, writable |-> i > Len(fs.readonly)] : i \in LastOf(Covering(fs, path))}

\* Between the lists of an accepted policy and what the guest finds at a path,
\* for lists and paths of any length: among the shares that cover the path the
\* last in the list decides, and there is one exactly when some share covers it.
LEMMA FindsLastShare ==
    ASSUME NEW policy, NEW fs, fs \in Filesystems, policy.filesystem = {fs},
           \A p \in ToSet(SharePaths(fs)) :
              /\ p \in Paths /\ ~Has(p, NUL) /\ ~Has(p, BLANK)
              /\ Resolve(p.parts) \in Seq(Component),
           NEW path \in Seq(Component)
    PROVE  GuestFinds(policy, path) = LastShown(fs, path)
<1> DEFINE shared == SharePaths(fs)
           k == Len(fs.readonly)
           D == 1..Len(shared)
           at(i) == Resolve(shared[i].parts)
           T == {i \in D : at(i) # <<>> /\ IsPrefix(at(i), path)}
           share(i) == [tag |-> i, path |-> shared[i], readOnly |-> i <= k]
           mount(i) == [tag |-> i, writable |-> ~(i <= k), at |-> at(i)]
<1>1. shared \in Seq(Paths) /\ DOMAIN shared = D /\ Len(shared) \in Nat /\ k \in Nat
  BY ConcatProperties, LenProperties DEF Filesystems, SharePaths
<1>2. \A i \in D : /\ shared[i] \in ToSet(shared) /\ shared[i] \in Paths
                    /\ shared[i].parts \in Seq(Component) /\ at(i) \in Seq(Component)
  <2>1. \A p \in ToSet(shared) : Resolve(p.parts) \in Seq(Component)
    OBVIOUS
  <2> HIDE DEF shared
  <2>2. \A i \in D : shared[i] \in ToSet(shared) /\ shared[i] \in Paths
    BY <1>1, ListOf DEF ToSet
  <2> QED
    BY <2>1, <2>2 DEF Paths
<1>3. \A i \in D : /\ Cut(shared[i].parts, NUL) = shared[i].parts
                    /\ Cut(shared[i].parts, BLANK) = shared[i].parts
  <2> HIDE DEF shared, D
  <2>1. \A i \in D : ~Has(shared[i], NUL) /\ ~Has(shared[i], BLANK)
    BY <1>2 DEF shared
  <2> QED
    BY <1>2, <2>1, NothingToCut
<1>4. Shares(policy) = {share(i) : i \in D}
  BY <1>1 DEF Shares
<1>5. MountsOf(KernelCmdline(policy)) = {mount(i) : i \in D}
  <2> DEFINE word(i) == [tag |-> i, mode |-> IF i <= k THEN "ro" ELSE "rw",
                         path |-> shared[i].parts]
             toWord(s) == [tag |-> s.tag, mode |-> IF s.readOnly THEN "ro" ELSE "rw",
                           path |-> s.path.parts]
             toMount(w) == [tag |-> w.tag, writable |-> w.mode # "ro",
                            at |-> Resolve(Cut(w.path, BLANK))]
  <2>1. KernelCmdline(policy).shares = {toWord(s) : s \in Shares(policy)}
    BY DEF KernelCmdline
  <2>2. MountsOf(KernelCmdline(policy)) = {toMount(w) : w \in KernelCmdline(policy).shares}
    BY DEF MountsOf
  <2>3. \A i \in D : toWord(share(i)) = word(i)
    BY Zenon
  <2>4. \A i \in D : toMount(word(i)) = mount(i)
    <3> HIDE DEF D, shared, k
    <3> SUFFICES ASSUME NEW i \in D PROVE toMount(word(i)) = mount(i)
      OBVIOUS
    <3>1. ((IF i <= k THEN "ro" ELSE "rw") # "ro") <=> ~(i <= k)
      OBVIOUS
    <3>2. Cut(shared[i].parts, BLANK) = shared[i].parts
      BY <1>3
    <3> QED
      BY <3>1, <3>2
  <2> HIDE DEF toWord, toMount, word, mount, share, D
  <2> QED
    BY <1>4, <2>1, <2>2, <2>3, <2>4
<1>6. Shows(MountsOf(KernelCmdline(policy)), path)
        = {mount(i) : i \in {m \in T : \A j \in T : j <= m}}
  <2> DEFINE over == {m \in MountsOf(KernelCmdline(policy)) : m.at # <<>> /\ IsPrefix(m.at, path)}
  <2>0. \A i \in D : mount(i).tag = i /\ mount(i).at = at(i)
    OBVIOUS
  <2>1. over = {mount(i) : i \in T}
    <3> HIDE DEF mount, D
    <3> QED BY <1>5, <2>0
  <2>2. Shows(MountsOf(KernelCmdline(policy)), path)
          = {m \in over : \A other \in over : other.tag <= m.tag}
    BY DEF Shows
  <2> HIDE DEF over, mount, D
  <2>3. {m \in over : \A other \in over : other.tag <= m.tag}
          = {mount(i) : i \in {m \in T : \A j \in T : j <= m}}
    BY <2>0, <2>1
  <2> QED
    BY <2>2, <2>3
<1>7. \A i \in D : (CHOOSE s \in Shares(policy) : s.tag = i) = share(i)
  <2>1. \A i \in D : share(i).tag = i
    OBVIOUS
  <2> HIDE DEF share, D
  <2> QED
    BY <1>4, <2>1
<1>8. \A i \in T : at(i) \o SubSeq(path, Len(at(i)) + 1, Len(path)) = path
  <2> HIDE DEF at, shared, D
  <2> QED BY <1>2, PrefixAndRest
<1> DEFINE find(m) ==
             LET s == CHOOSE x \in Shares(policy) : x.tag = m.tag IN
             [place    |-> Resolve(Cut(s.path.parts, NUL)) \o SubSeq(path, Len(m.at) + 1, Len(path)),
              writable |-> m.writable /\ ~s.readOnly]
<1>9. GuestFinds(policy, path)
        = {find(m) : m \in Shows(MountsOf(KernelCmdline(policy)), path)}
  BY DEF GuestFinds
<1>10. \A i \in T : find(mount(i)) = [place |-> path, writable |-> i > k]
  <2> SUFFICES ASSUME NEW i \in T
               PROVE  find(mount(i)) = [place |-> path, writable |-> i > k]
    OBVIOUS
  <2>1. /\ mount(i).tag = i /\ mount(i).at = at(i)
        /\ mount(i).writable = ~(i <= k)
        /\ share(i).path = shared[i] /\ share(i).readOnly = (i <= k)
    OBVIOUS
  <2>2. (~(i <= k) /\ ~(i <= k)) = (i > k)
    BY <1>1
  <2> HIDE DEF share, mount, shared, k, D
  <2>3. find(mount(i)) =
          [place |-> Resolve(Cut(shared[i].parts, NUL))
                       \o SubSeq(path, Len(at(i)) + 1, Len(path)),
           writable |-> ~(i <= k) /\ ~(i <= k)]
    BY <1>7, <2>1
  <2> QED
    BY <1>3, <1>8, <2>2, <2>3
<1> HIDE DEF find, mount, T
<1> QED
  BY <1>6, <1>9, <1>10 DEF T, Covering, LastOf, LastShown

\* The shares are the readonly list and behind it the readwrite list.
LEMMA ShareList ==
    ASSUME NEW fs \in Filesystems
    PROVE  LET shared == SharePaths(fs)
               k == Len(fs.readonly)
           IN  /\ shared \in Seq(Paths) /\ DOMAIN shared = 1..Len(shared)
               /\ Len(shared) = k + Len(fs.readwrite)
               /\ k \in Nat /\ Len(fs.readwrite) \in Nat
               /\ DOMAIN fs.readwrite = 1..Len(fs.readwrite)
               /\ \A j \in 1..Len(fs.readwrite) : shared[k + j] = fs.readwrite[j]
<1>1. fs.readonly \in Seq(Paths) /\ fs.readwrite \in Seq(Paths)
  BY DEF Filesystems
<1>2. /\ Len(fs.readonly) \in Nat /\ Len(fs.readwrite) \in Nat
      /\ DOMAIN fs.readwrite = 1..Len(fs.readwrite)
  BY <1>1, LenProperties
<1> DEFINE shared == SharePaths(fs)
           k == Len(fs.readonly)
           n == Len(fs.readwrite)
<1>3. /\ shared \in Seq(Paths)
      /\ Len(shared) = k + n
      /\ \A i \in 1..k + n :
            shared[i] = IF i <= k THEN fs.readonly[i] ELSE fs.readwrite[i - k]
  BY <1>1, ConcatProperties DEF SharePaths
<1> HIDE DEF shared, k, n
<1>3a. k \in Nat /\ n \in Nat
  BY <1>2 DEF k, n
<1>4. \A j \in 1..n : shared[k + j] = fs.readwrite[j]
  <2> SUFFICES ASSUME NEW j \in 1..n PROVE shared[k + j] = fs.readwrite[j]
    OBVIOUS
  <2>1. k + j \in 1..k + n /\ ~(k + j <= k) /\ k + j - k = j
    BY <1>3a
  <2>2. shared[k + j] = fs.readwrite[k + j - k]
    BY <2>1, <1>3, <1>3a
  <2> QED
    BY <2>1, <2>2
<1> QED
  BY <1>2, <1>3, <1>4, LenProperties DEF shared, k, n

\* A share that covers a place named by a denied path contains that path, when
\* both are written as a kernel resolves them.
LEMMA DeniedIsBare ==
    ASSUME NEW d \in Paths, d.abs = TRUE, Resolve(d.parts) = d.parts,
           NEW p \in Paths, p.abs = TRUE,
           NEW path \in Seq(Component), IsPrefix(p.parts, path), Denies(d, path)
    PROVE  PathContains(p, d)
<1> DEFINE of(q) == [i \in 1..Len(q) |-> Lower(q[i])]
           Letter == {Lower(c) : c \in Component}
<1>1. d.parts \in Seq(Component) /\ p.parts \in Seq(Component)
  BY DEF Paths
<1>2. \A q \in Seq(Component) : of(q) \in Seq(Letter) /\ Len(of(q)) = Len(q)
  <2> SUFFICES ASSUME NEW q \in Seq(Component)
               PROVE  of(q) \in Seq(Letter) /\ Len(of(q)) = Len(q)
    OBVIOUS
  <2>1. Len(q) \in Nat /\ \A i \in 1..Len(q) : q[i] \in Component
    BY LenProperties, ElementOfSeq
  <2>2. of(q) \in [1..Len(q) -> Letter]
    BY <2>1
  <2>3. of(q) \in Seq(Letter)
    <3> HIDE DEF of, Letter
    <3> QED BY <2>1, <2>2, SeqDef
  <2>4. DOMAIN of(q) = 1..Len(q) /\ DOMAIN of(q) = 1..Len(of(q)) /\ Len(of(q)) \in Nat
    BY <2>2, <2>3, LenProperties
  <2> QED
    BY <2>1, <2>3, <2>4
<1>3. Folded(d) = of(d.parts) /\ Folded(p) = of(p.parts)
      /\ Folded([abs |-> TRUE, parts |-> path]) = of(path)
      /\ of(d.parts) = of(path)
  BY <1>1, LenProperties DEF Folded, Denies
<1>4. Len(p.parts) <= Len(path) /\ \A i \in 1..Len(p.parts) : p.parts[i] = path[i]
  BY <1>1, PrefixMeans
<1>5. Len(p.parts) \in Nat /\ Len(path) \in Nat
  BY <1>1, LenProperties
<1>6. ASSUME NEW i \in 1..Len(p.parts) PROVE of(p.parts)[i] = of(path)[i]
  <2>1. i \in 1..Len(path) /\ p.parts[i] = path[i]
    BY <1>4, <1>5
  <2>2. of(p.parts)[i] = Lower(p.parts[i]) /\ of(path)[i] = Lower(path[i])
    BY <2>1
  <2> QED
    BY <2>1, <2>2
<1> HIDE DEF of, Letter
<1>7. IsPrefix(of(p.parts), of(path))
  BY <1>1, <1>2, <1>4, <1>6, PrefixMeans
<1> QED
  BY <1>3, <1>7 DEF PathContains

\* GuestSeesPolicy for one accepted policy and one path.
LEMMA GuestIsServed ==
    ASSUME NEW x \in Policies, NEW fs \in x.policy.filesystem, NEW path \in ProbePath,
           Accepted(x.policy, x.experimental)
    PROVE  LET found == GuestFinds(x.policy, path) IN
           /\ found = {} <=> Under(SharePaths(fs), path) = {}
           /\ \A f \in found : f.place = path /\ (f.writable <=> Under(fs.readwrite, path) # {})
           /\ \A d \in ToSet(fs.denied), s \in Under(SharePaths(fs), path) :
                 Denies(d, path) => Has(d, UP) \/ Has(s, UP)
<1> DEFINE policy == x.policy
           shared == SharePaths(fs)
           k == Len(fs.readonly)
           T == Covering(fs, path)
           last == LastOf(T)
           found == GuestFinds(policy, path)
<1>1. path \in Seq(Component) /\ policy.filesystem = {fs} /\ fs \in Filesystems
  BY InputAssumption, OptionIs
<1>2. /\ \A p \in ToSet(shared) : p \in Paths /\ p.abs = TRUE /\ ~Has(p, NUL) /\ ~Has(p, BLANK)
      /\ \A d \in ToSet(fs.denied) : d \in Paths /\ d.abs = TRUE
      /\ \A d \in ToSet(fs.denied), p \in ToSet(shared) : ~PathContains(p, d)
  BY <1>1, AcceptedMeans
<1>3. found = {[place |-> path, writable |-> i > k] : i \in last}
  <2>1. \A p \in ToSet(SharePaths(fs)) : /\ p \in Paths /\ ~Has(p, NUL) /\ ~Has(p, BLANK)
                                          /\ Resolve(p.parts) \in Seq(Component)
    BY <1>2, ResolveAssumption
  <2>2. fs \in Filesystems /\ x.policy.filesystem = {fs} /\ path \in Seq(Component)
    BY <1>1
  <2> HIDE DEF policy, shared, k, T, last, found
  <2>3. GuestFinds(x.policy, path) = LastShown(fs, path)
    BY <2>1, <2>2, FindsLastShare
  <2> QED
    BY <2>3 DEF LastShown, policy, shared, k, T, last, found
<1>4. /\ shared \in Seq(Paths) /\ DOMAIN shared = 1..Len(shared)
      /\ Len(shared) = k + Len(fs.readwrite)
      /\ k \in Nat /\ Len(fs.readwrite) \in Nat
      /\ DOMAIN fs.readwrite = 1..Len(fs.readwrite)
      /\ \A j \in 1..Len(fs.readwrite) : shared[k + j] = fs.readwrite[j]
  BY <1>1, ShareList
<1>4a. T = {i \in 1..Len(shared) :
              Resolve(shared[i].parts) # <<>> /\ IsPrefix(Resolve(shared[i].parts), path)}
  BY DEF Covering
<1> HIDE DEF policy, shared, found, k, T
<1>5. last = {} <=> T = {}
  <2>1. T \subseteq 1..Len(shared) /\ Len(shared) \in Nat
    BY <1>4, <1>4a
  <2>2. T # {} => last # {}
    BY <2>1, LastOne DEF LastOf
  <2> QED
    BY <2>2 DEF LastOf
<1>6. T = {} <=> Under(shared, path) = {}
  BY <1>4, <1>4a DEF Under, ToSet
<1>7. found = {} <=> Under(shared, path) = {}
  BY <1>3, <1>5, <1>6
<1>8. ASSUME NEW i \in last PROVE i > k <=> Under(fs.readwrite, path) # {}
  <2>1. i \in 1..Len(shared) /\ Resolve(shared[i].parts) # <<>>
       /\ IsPrefix(Resolve(shared[i].parts), path) /\ \A j \in T : j <= i
    BY <1>4a DEF LastOf
  <2>2. ASSUME i > k PROVE Under(fs.readwrite, path) # {}
    <3>1. i - k \in 1..Len(fs.readwrite) /\ k + (i - k) = i
      BY <1>4, <2>1, <2>2
    <3>2. shared[i] = fs.readwrite[i - k]
      BY <1>4, <3>1
    <3> QED
      BY <1>4, <2>1, <3>1, <3>2 DEF Under, ToSet
  <2>3. ASSUME Under(fs.readwrite, path) # {} PROVE i > k
    <3>1. PICK j \in 1..Len(fs.readwrite) :
               /\ Resolve(fs.readwrite[j].parts) # <<>>
               /\ IsPrefix(Resolve(fs.readwrite[j].parts), path)
      BY <1>4, <2>3 DEF Under, ToSet
    <3>2. k + j \in 1..Len(shared) /\ shared[k + j] = fs.readwrite[j]
      BY <1>4
    <3>3. k + j <= i
      BY <1>4a, <2>1, <3>1, <3>2
    <3> QED
      BY <1>4, <2>1, <3>3
  <2> QED
    BY <2>2, <2>3
<1>9. \A f \in found : f.place = path /\ (f.writable <=> Under(fs.readwrite, path) # {})
  <2> HIDE DEF last
  <2>1. ASSUME NEW i \in last, NEW f, f = [place |-> path, writable |-> i > k]
        PROVE  f.place = path /\ (f.writable <=> Under(fs.readwrite, path) # {})
    <3>1. f.place = path /\ f.writable = (i > k)
      BY <2>1
    <3> QED
      BY <3>1, <1>8
  <2> QED
    BY <1>3, <2>1
<1>10. ASSUME NEW d \in ToSet(fs.denied), NEW p \in Under(shared, path), Denies(d, path)
       PROVE  Has(d, UP) \/ Has(p, UP)
  <2> SUFFICES ASSUME ~Has(d, UP), ~Has(p, UP) PROVE FALSE
    OBVIOUS
  <2>1. p \in ToSet(shared) /\ IsPrefix(Resolve(p.parts), path)
    BY DEF Under
  <2>2. Resolve(p.parts) = p.parts /\ Resolve(d.parts) = d.parts
    BY <2>1, ResolveAssumption DEF shared
  <2>3. PathContains(p, d)
    BY <1>1, <1>2, <1>10, <2>1, <2>2, DeniedIsBare
  <2> QED
    BY <1>2, <2>1, <2>3
<1> QED
  BY <1>7, <1>9, <1>10 DEF found, shared, policy

\* Under every accepted policy, whatever the number and nesting of its shares,
\* the guest finds exactly what the policy covers below the root, where the host
\* has it, writes exactly what a readwrite share covers, and reaches a denied
\* place only where ".." hides it from validation.
THEOREM GuestSeesItsPolicy == Spec => []GuestSeesPolicy
<1>1. InputOK => GuestSeesPolicy
  <2> SUFFICES ASSUME NEW x \in Policies, input = [about |-> "policy", is |-> x]
               PROVE  GuestSeesPolicy
    BY DEF InputOK, GuestSeesPolicy
  <2> QED
    BY GuestIsServed DEF GuestSeesPolicy
<1> QED
  BY <1>1, InputAlways, PTL

-----------------------------------------------------------------------------
\* Two byte strings one behind the other.
LEMMA SplitAt ==
    ASSUME NEW a, NEW b, NEW c, NEW m \in Nat, NEW n \in Nat,
           \A i \in 1..m + n : c[i] = IF i <= m THEN a[i] ELSE b[i - m]
    PROVE  /\ \A i \in 1..m : c[i] = a[i]
           /\ \A i \in 1..n : c[m + i] = b[i]
<1>1. \A i \in 1..m : c[i] = a[i]
  OBVIOUS
<1>2. ASSUME NEW i \in 1..n PROVE c[m + i] = b[i]
  <2>1. m + i \in 1..m + n /\ ~(m + i <= m) /\ m + i - m = i
    OBVIOUS
  <2>2. c[m + i] = b[m + i - m]
    BY <2>1
  <2> QED
    BY <2>1, <2>2
<1> QED
  BY <1>1, <1>2

LEMMA Joined ==
    ASSUME NEW S, NEW a \in Seq(S), NEW b \in Seq(S)
    PROVE  /\ a \o b \in Seq(S)
           /\ Len(a) \in Nat /\ Len(b) \in Nat
           /\ Len(a \o b) = Len(a) + Len(b)
           /\ \A i \in 1..Len(a) : (a \o b)[i] = a[i]
           /\ \A i \in 1..Len(b) : (a \o b)[Len(a) + i] = b[i]
<1> DEFINE c == a \o b
           m == Len(a)
           n == Len(b)
<1>1. m \in Nat /\ n \in Nat
  BY LenProperties
<1>2. c \in Seq(S) /\ Len(c) = m + n
  BY ConcatProperties
<1>3. \A i \in 1..m + n : c[i] = IF i <= m THEN a[i] ELSE b[i - m]
  BY ConcatProperties
<1> HIDE DEF c, m, n
<1>4. (\A i \in 1..m : c[i] = a[i]) /\ (\A i \in 1..n : c[m + i] = b[i])
  BY <1>1, <1>3, SplitAt
<1> QED
  BY <1>1, <1>2, <1>4 DEF c, m, n

\* The part of a byte string from one offset to another.
IsPart(p, a, m, n) ==
    /\ p \in Seq(Byte) /\ Len(p) = n - m
    /\ \A i \in 1..n - m : p[i] = a[m + i]

LEMMA Part ==
    ASSUME NEW a \in Seq(Byte), NEW m \in Nat, NEW n \in Nat, m <= n, n <= Len(a)
    PROVE  IsPart(Slice(a, m, n), a, m, n)
<1>1. Len(a) \in Nat
  BY LenProperties
<1>2. \A i \in m + 1..n : a[i] \in Byte
  BY <1>1, ElementOfSeq
<1>3. /\ SubSeq(a, m + 1, n) \in Seq(Byte)
      /\ Len(SubSeq(a, m + 1, n)) = IF m + 1 <= n THEN n - (m + 1) + 1 ELSE 0
      /\ \A i \in 1..n - (m + 1) + 1 : SubSeq(a, m + 1, n)[i] = a[m + 1 + i - 1]
  BY <1>2, SubSeqProperties
<1>4. n - (m + 1) + 1 = n - m /\ (IF m + 1 <= n THEN n - (m + 1) + 1 ELSE 0) = n - m
  OBVIOUS
<1>5. ASSUME NEW i \in 1..n - m PROVE SubSeq(a, m + 1, n)[i] = a[m + i]
  <2>1. m + 1 + i - 1 = m + i /\ i \in 1..n - (m + 1) + 1
    OBVIOUS
  <2> QED
    BY <1>3, <2>1
<1> QED
  BY <1>3, <1>4, <1>5 DEF Slice, IsPart

\* There is one such part.
LEMMA PartIs ==
    ASSUME NEW a \in Seq(Byte), NEW m \in Nat, NEW n \in Nat, m <= n, n <= Len(a),
           NEW b, IsPart(b, a, m, n)
    PROVE  Slice(a, m, n) = b
<1> DEFINE p == Slice(a, m, n)
<1>1. IsPart(p, a, m, n)
  BY Part
<1> HIDE DEF p
<1>2. p \in Seq(Byte) /\ b \in Seq(Byte) /\ Len(p) = n - m /\ Len(b) = n - m
  BY <1>1 DEF IsPart
<1>3. \A i \in 1..n - m : p[i] = b[i]
  BY <1>1 DEF IsPart
<1>4. \A i \in 1..Len(p) : p[i] = b[i]
  BY <1>2, <1>3
<1>5. p = b
  BY <1>2, <1>4, SeqEqual
<1> QED
  BY <1>5 DEF p

\* Zero bytes, and strings of one and two bytes.
LEMMA Zeroes ==
    ASSUME NEW n \in Nat
    PROVE  Zeros(n) \in Seq(Byte) /\ Len(Zeros(n)) = n
<1>1. Zeros(n) \in [1..n -> Byte]
  BY DEF Zeros, Byte
<1>2. Zeros(n) \in Seq(Byte)
  BY <1>1, SeqDef
<1>3. DOMAIN Zeros(n) = 1..n /\ DOMAIN Zeros(n) = 1..Len(Zeros(n)) /\ Len(Zeros(n)) \in Nat
  BY <1>1, <1>2, LenProperties
<1> QED
  BY <1>2, <1>3

LEMMA OneByte ==
    ASSUME NEW x \in Byte
    PROVE  <<x>> \in Seq(Byte) /\ Len(<<x>>) = 1 /\ <<x>>[1] = x
OBVIOUS

LEMMA TwoBytes ==
    ASSUME NEW x \in Byte, NEW y \in Byte
    PROVE  <<x, y>> \in Seq(Byte) /\ Len(<<x, y>>) = 2 /\ <<x, y>>[1] = x /\ <<x, y>>[2] = y
OBVIOUS

LEMMA MacBytes == Macs \in Seq(Byte) /\ Len(Macs) = 12
<1>1. Macs \in [1..12 -> Byte]
  BY DEF Macs, Byte
<1>2. Macs \in Seq(Byte)
  BY <1>1, SeqDef
<1>3. DOMAIN Macs = 1..12 /\ DOMAIN Macs = 1..Len(Macs) /\ Len(Macs) \in Nat
  BY <1>1, <1>2, LenProperties
<1> QED
  BY <1>2, <1>3

\* A guest's frame: what it holds, and where.
LEMMA SegmentParts ==
    ASSUME NEW s \in Segment
    PROVE  /\ s.src \in Seq(Byte) /\ s.dst \in Seq(Byte) /\ s.transport \in Seq(Byte)
           /\ Len(s.src) \in {4, 16} /\ Len(s.dst) = Len(s.src)
           /\ s.options \in 0..10 /\ s.proto \in Byte
           /\ s.size \in 0..12 + Len(IpBytes(s)) + Len(s.transport)
BY InputAssumption

\* The bytes of one string behind those of another, by their places.
Behind(c, a, m, b, n) ==
    /\ c \in Seq(Byte) /\ Len(c) = m + n
    /\ \A i \in 1..m : c[i] = a[i]
    /\ \A i \in 1..n : c[m + i] = b[i]

LEMMA JoinedBytes ==
    ASSUME NEW a \in Seq(Byte), NEW b \in Seq(Byte)
    PROVE  Behind(a \o b, a, Len(a), b, Len(b))
<1> DEFINE c == a \o b
           m == Len(a)
           n == Len(b)
<1>1. /\ c \in Seq(Byte) /\ Len(c) = m + n
      /\ \A i \in 1..m : c[i] = a[i]
      /\ \A i \in 1..n : c[m + i] = b[i]
  BY Joined
<1> HIDE DEF c, m, n
<1>2. Behind(c, a, m, b, n)
  BY <1>1 DEF Behind
<1> QED
  BY <1>2 DEF c, m, n

\* The first byte of an IPv4 header, and the bytes of the two Ethernet types.
LEMMA FirstByte ==
    ASSUME NEW o \in 0..10
    PROVE  64 + 5 + o \in Byte /\ 64 + 5 + o = 69 + o /\ 4 * o \in Nat
BY DEF Byte

LEMMA SomeBytes == {0, 8, 64, 96, 134, 221} \subseteq Byte
BY DEF Byte

LEMMA HeaderV4 ==
    ASSUME NEW s \in Segment, IsV4(s.src)
    PROVE  /\ IpBytes(s) \in Seq(Byte) /\ Len(IpBytes(s)) = 22 + 4 * s.options
           /\ IpBytes(s)[1] = 8 /\ IpBytes(s)[2] = 0 /\ IpBytes(s)[3] = 69 + s.options
           /\ IpBytes(s)[12] = s.proto
           /\ \A i \in 1..4 : IpBytes(s)[14 + i] = s.src[i]
           /\ \A i \in 1..4 : IpBytes(s)[18 + i] = s.dst[i]
<1> DEFINE o    == s.options
           one  == <<64 + 5 + o>>
           two  == <<s.proto>>
           gap  == Zeros(8)
           sum  == Zeros(2)
           opts == Zeros(4 * o)
           src  == s.src
           dst  == s.dst
           e == EtherV4 \o one
           z == e \o gap
           p == z \o two
           c == p \o sum
           f == c \o src
           d == f \o dst
           h == d \o opts
<1>1. /\ src \in Seq(Byte) /\ dst \in Seq(Byte) /\ Len(src) = 4 /\ Len(dst) = 4
      /\ o \in 0..10 /\ s.proto \in Byte
  BY SegmentParts DEF IsV4
<1>2. IpBytes(s) = h
  BY DEF IpBytes
<1>3. EtherV4 \in Seq(Byte) /\ Len(EtherV4) = 2 /\ EtherV4[1] = 8 /\ EtherV4[2] = 0
  <2>1. 8 \in Byte /\ 0 \in Byte
    BY SomeBytes
  <2> QED
    BY <2>1, TwoBytes DEF EtherV4
<1>4. one \in Seq(Byte) /\ Len(one) = 1 /\ one[1] = 69 + o
  <2> HIDE DEF o
  <2>1. 64 + 5 + o \in Byte /\ 64 + 5 + o = 69 + o
    BY <1>1, FirstByte
  <2> QED
    BY <2>1, OneByte
<1>5. two \in Seq(Byte) /\ Len(two) = 1 /\ two[1] = s.proto
  BY <1>1, OneByte
<1>6. /\ gap \in Seq(Byte) /\ Len(gap) = 8
      /\ sum \in Seq(Byte) /\ Len(sum) = 2
  BY Zeroes
<1>7. opts \in Seq(Byte) /\ Len(opts) = 4 * o
  <2> HIDE DEF o
  <2>1. 4 * o \in Nat
    BY <1>1, FirstByte
  <2> QED
    BY <2>1, Zeroes
<1> HIDE DEF o, one, two, gap, sum, opts, src, dst
<1> HIDE DEF e
<1>11. Behind(e, EtherV4, 2, one, 1)
  BY <1>3, <1>4, JoinedBytes DEF e
<1> HIDE DEF z
<1>12. Behind(z, e, 3, gap, 8)
  <2>1. e \in Seq(Byte) /\ Len(e) = 3
    BY <1>11 DEF Behind
  <2> QED
    BY <1>6, <2>1, JoinedBytes DEF z
<1> HIDE DEF p
<1>13. Behind(p, z, 11, two, 1)
  <2>1. z \in Seq(Byte) /\ Len(z) = 11
    BY <1>12 DEF Behind
  <2> QED
    BY <1>5, <2>1, JoinedBytes DEF p
<1> HIDE DEF c
<1>14. Behind(c, p, 12, sum, 2)
  <2>1. p \in Seq(Byte) /\ Len(p) = 12
    BY <1>13 DEF Behind
  <2> QED
    BY <1>6, <2>1, JoinedBytes DEF c
<1> HIDE DEF f
<1>15. Behind(f, c, 14, src, 4)
  <2>1. c \in Seq(Byte) /\ Len(c) = 14
    BY <1>14 DEF Behind
  <2> QED
    BY <1>1, <2>1, JoinedBytes DEF f
<1> HIDE DEF d
<1>16. Behind(d, f, 18, dst, 4)
  <2>1. f \in Seq(Byte) /\ Len(f) = 18
    BY <1>15 DEF Behind
  <2> QED
    BY <1>1, <2>1, JoinedBytes DEF d
<1> HIDE DEF h
<1>17. Behind(h, d, 22, opts, 4 * o)
  <2>1. d \in Seq(Byte) /\ Len(d) = 22
    BY <1>16 DEF Behind
  <2> QED
    BY <1>7, <2>1, JoinedBytes DEF h
<1>18. h \in Seq(Byte) /\ Len(h) = 22 + 4 * o /\ \A i \in 1..22 : h[i] = d[i]
  BY <1>17 DEF Behind
<1>19. /\ d[1] = 8 /\ d[2] = 0 /\ d[3] = 69 + o /\ d[12] = s.proto
       /\ \A i \in 1..18 : d[i] = f[i]
       /\ \A i \in 1..4 : d[18 + i] = dst[i]
  <2>1. e[1] = 8 /\ e[2] = 0 /\ e[3] = 69 + o
    BY <1>3, <1>4, <1>11 DEF Behind
  <2>2. z[1] = 8 /\ z[2] = 0 /\ z[3] = 69 + o
    BY <2>1, <1>12 DEF Behind
  <2>3. p[1] = 8 /\ p[2] = 0 /\ p[3] = 69 + o /\ p[12] = s.proto
    BY <2>2, <1>5, <1>13 DEF Behind
  <2>4. /\ \A i \in 1..12 : c[i] = p[i]
        /\ \A i \in 1..14 : f[i] = c[i]
        /\ \A i \in 1..18 : d[i] = f[i]
        /\ \A i \in 1..4 : d[18 + i] = dst[i]
    BY <1>14, <1>15, <1>16 DEF Behind
  <2>5. \A i \in 1..12 : d[i] = p[i]
    BY <2>4
  <2>6. 1 \in 1..12 /\ 2 \in 1..12 /\ 3 \in 1..12 /\ 12 \in 1..12
    OBVIOUS
  <2>7. d[1] = p[1] /\ d[2] = p[2] /\ d[3] = p[3] /\ d[12] = p[12]
    BY <2>5, <2>6
  <2> QED
    BY <2>3, <2>4, <2>7
<1>20. \A i \in 1..4 : f[14 + i] = src[i]
  BY <1>15 DEF Behind
<1>21. /\ \A i \in 1..4 : h[14 + i] = src[i]
       /\ \A i \in 1..4 : h[18 + i] = dst[i]
  <2>1. \A i \in 1..4 : 14 + i \in 1..18 /\ 14 + i \in 1..22 /\ 18 + i \in 1..22
    OBVIOUS
  <2> QED
    BY <1>18, <1>19, <1>20, <2>1
<1>22. h[1] = 8 /\ h[2] = 0 /\ h[3] = 69 + o /\ h[12] = s.proto
  <2>1. 1 \in 1..22 /\ 2 \in 1..22 /\ 3 \in 1..22 /\ 12 \in 1..22
    OBVIOUS
  <2>2. \A i \in 1..22 : h[i] = d[i]
    BY <1>18
  <2>3. h[1] = d[1] /\ h[2] = d[2] /\ h[3] = d[3] /\ h[12] = d[12]
    BY <2>1, <2>2
  <2> QED
    BY <1>19, <2>3
<1> QED
  BY <1>2, <1>18, <1>21, <1>22 DEF o, src, dst

LEMMA HeaderV6 ==
    ASSUME NEW s \in Segment, ~IsV4(s.src)
    PROVE  /\ IpBytes(s) \in Seq(Byte) /\ Len(IpBytes(s)) = 42
           /\ IpBytes(s)[1] = 134 /\ IpBytes(s)[2] = 221 /\ IpBytes(s)[3] = 96
           /\ IpBytes(s)[9] = s.proto
           /\ \A i \in 1..16 : IpBytes(s)[10 + i] = s.src[i]
           /\ \A i \in 1..16 : IpBytes(s)[26 + i] = s.dst[i]
<1> DEFINE one == <<96>>
           gap == Zeros(5)
           two == <<s.proto, 64>>
           src == s.src
           dst == s.dst
           e == EtherV6 \o one
           z == e \o gap
           p == z \o two
           f == p \o src
           h == f \o dst
<1>1. /\ src \in Seq(Byte) /\ dst \in Seq(Byte) /\ Len(src) = 16 /\ Len(dst) = 16
      /\ s.proto \in Byte
  BY SegmentParts DEF IsV4
<1>2. IpBytes(s) = h
  BY DEF IpBytes
<1>3. 134 \in Byte /\ 221 \in Byte /\ 96 \in Byte
  BY SomeBytes
<1>4. /\ EtherV6 \in Seq(Byte) /\ Len(EtherV6) = 2
      /\ one \in Seq(Byte) /\ Len(one) = 1
  BY <1>3, OneByte, TwoBytes DEF EtherV6
<1>7. EtherV6[1] = 134 /\ EtherV6[2] = 221 /\ one[1] = 96
  BY <1>3, OneByte, TwoBytes DEF EtherV6
<1>5. two \in Seq(Byte) /\ Len(two) = 2 /\ two[1] = s.proto
  BY <1>1, SomeBytes, TwoBytes
<1>6. gap \in Seq(Byte) /\ Len(gap) = 5
  BY Zeroes
<1> HIDE DEF one, two, gap, src, dst
<1> HIDE DEF e
<1>11. Behind(e, EtherV6, 2, one, 1)
  BY <1>4, JoinedBytes DEF e
<1> HIDE DEF z
<1>12. Behind(z, e, 3, gap, 5)
  <2>1. e \in Seq(Byte) /\ Len(e) = 3
    BY <1>11 DEF Behind
  <2> QED
    BY <1>6, <2>1, JoinedBytes DEF z
<1> HIDE DEF p
<1>13. Behind(p, z, 8, two, 2)
  <2>1. z \in Seq(Byte) /\ Len(z) = 8
    BY <1>12 DEF Behind
  <2> QED
    BY <1>5, <2>1, JoinedBytes DEF p
<1> HIDE DEF f
<1>14. Behind(f, p, 10, src, 16)
  <2>1. p \in Seq(Byte) /\ Len(p) = 10
    BY <1>13 DEF Behind
  <2> QED
    BY <1>1, <2>1, JoinedBytes DEF f
<1> HIDE DEF h
<1>15. Behind(h, f, 26, dst, 16)
  <2>1. f \in Seq(Byte) /\ Len(f) = 26
    BY <1>14 DEF Behind
  <2> QED
    BY <1>1, <2>1, JoinedBytes DEF h
<1>16. f[1] = 134 /\ f[2] = 221 /\ f[3] = 96 /\ f[9] = s.proto
  <2>1. e[1] = 134 /\ e[2] = 221 /\ e[3] = 96
    BY <1>7, <1>11 DEF Behind
  <2>2. z[1] = 134 /\ z[2] = 221 /\ z[3] = 96
    BY <2>1, <1>12 DEF Behind
  <2>3. p[1] = 134 /\ p[2] = 221 /\ p[3] = 96 /\ p[9] = s.proto
    BY <2>2, <1>5, <1>13 DEF Behind
  <2>4. \A i \in 1..10 : f[i] = p[i]
    BY <1>14 DEF Behind
  <2> QED
    BY <2>3, <2>4
<1>17. h \in Seq(Byte) /\ Len(h) = 42 /\ \A i \in 1..26 : h[i] = f[i]
  BY <1>15 DEF Behind
<1>18. \A i \in 1..16 : h[10 + i] = src[i]
  <2>1. \A i \in 1..16 : f[10 + i] = src[i]
    BY <1>14 DEF Behind
  <2>2. \A i \in 1..16 : 10 + i \in 1..26
    OBVIOUS
  <2> QED
    BY <2>1, <2>2, <1>17
<1>19. \A i \in 1..16 : h[26 + i] = dst[i]
  BY <1>15 DEF Behind
<1>20. h[1] = 134 /\ h[2] = 221 /\ h[3] = 96 /\ h[9] = s.proto
  <2>1. 1 \in 1..26 /\ 2 \in 1..26 /\ 3 \in 1..26 /\ 9 \in 1..26
    OBVIOUS
  <2>2. \A i \in 1..26 : h[i] = f[i]
    BY <1>17
  <2>3. h[1] = f[1] /\ h[2] = f[2] /\ h[3] = f[3] /\ h[9] = f[9]
    BY <2>1, <2>2, Zenon
  <2> QED
    BY <1>16, <2>3
<1> QED
  BY <1>2, <1>17, <1>18, <1>19, <1>20 DEF src, dst

\* The whole frame up to where it is cut: the bytes of the headers, then those
\* of the guest's transport.
HeadSize(s) == 12 + Len(IpBytes(s))

LEMMA FrameParts ==
    ASSUME NEW s \in Segment
    PROVE  /\ FrameOf(s) \in Seq(Byte) /\ Len(FrameOf(s)) = s.size /\ s.size \in Nat
           /\ HeadSize(s) \in Nat
           /\ \A i \in 1..Len(IpBytes(s)) :
                 12 + i <= s.size => FrameOf(s)[12 + i] = IpBytes(s)[i]
           /\ \A i \in 1..s.size - HeadSize(s) :
                 FrameOf(s)[HeadSize(s) + i] = s.transport[i]
<1> DEFINE ip == IpBytes(s)
           t == s.transport
           a == Macs \o ip
           b == a \o t
           k == s.size
<1>1. ip \in Seq(Byte) /\ t \in Seq(Byte) /\ k \in 0..12 + Len(ip) + Len(t)
  BY SegmentParts, HeaderV4, HeaderV6
<1>2. FrameOf(s) = SubSeq(b, 1, Min({k, Len(b)}))
  BY DEF FrameOf, Kept
<1>3. Macs \in Seq(Byte) /\ Len(Macs) = 12
  BY MacBytes
<1>4. Len(ip) \in Nat /\ Len(t) \in Nat
  BY <1>1, LenProperties
<1> DEFINE n == Len(ip)
           w == Len(t)
<1> HIDE DEF ip, t, k, n, w
<1>5. Behind(a, Macs, 12, ip, n)
  BY <1>1, <1>3, JoinedBytes DEF n
<1> HIDE DEF a
<1>6. a \in Seq(Byte) /\ Len(a) = 12 + n
  BY <1>5 DEF Behind
<1>7. Behind(b, a, 12 + n, t, w)
  BY <1>1, <1>6, JoinedBytes DEF w
<1> HIDE DEF b
<1>8. n \in Nat /\ w \in Nat /\ k \in 0..12 + n + w /\ b \in Seq(Byte) /\ Len(b) = 12 + n + w
  BY <1>1, <1>4, <1>7 DEF n, w, Behind
<1>9. Min({k, Len(b)}) = k
  BY <1>8 DEF Min
<1>10. k \in Nat /\ k <= Len(b) /\ 0 <= k /\ k - 0 = k
  BY <1>8
<1> DEFINE fr == Slice(b, 0, k)
<1>11. FrameOf(s) = fr
  <2>1. 0 + 1 = 1
    OBVIOUS
  <2> QED
    BY <1>2, <1>9, <2>1, Zenon DEF Slice
<1>12. fr \in Seq(Byte) /\ Len(fr) = k /\ \A i \in 1..k : fr[i] = b[i]
  <2>1. /\ fr \in Seq(Byte) /\ Len(fr) = k - 0
        /\ \A i \in 1..k - 0 : fr[i] = b[0 + i]
    <3>1. b \in Seq(Byte) /\ 0 \in Nat /\ k \in Nat /\ 0 <= k /\ k <= Len(b)
      BY <1>8, <1>10
    <3>2. IsPart(fr, b, 0, k)
      BY <3>1, Part
    <3> HIDE DEF fr
    <3> QED
      BY <3>2 DEF IsPart
  <2>2. \A i \in 1..k : 0 + i = i
    BY <1>10
  <2> HIDE DEF fr
  <2> QED
    BY <1>10, <2>1, <2>2
<1> HIDE DEF fr
<1>13. ASSUME NEW i \in 1..n, 12 + i <= k PROVE fr[12 + i] = ip[i]
  <2>1. 12 + i \in 1..k /\ 12 + i \in 1..12 + n
    BY <1>8, <1>10, <1>13
  <2>2. fr[12 + i] = b[12 + i]
    BY <1>12, <2>1
  <2>3. b[12 + i] = a[12 + i]
    BY <1>7, <2>1 DEF Behind
  <2>4. a[12 + i] = ip[i]
    BY <1>5 DEF Behind
  <2> QED
    BY <2>2, <2>3, <2>4
<1>14. ASSUME NEW i \in 1..k - (12 + n) PROVE fr[12 + n + i] = t[i]
  <2>1. 12 + n + i \in 1..k /\ i \in 1..w
    BY <1>8, <1>10
  <2>2. fr[12 + n + i] = b[12 + n + i]
    BY <1>12, <2>1
  <2>3. b[12 + n + i] = t[i]
    BY <1>7, <2>1 DEF Behind
  <2> QED
    BY <2>2, <2>3
<1>15. HeadSize(s) = 12 + n /\ 12 + n \in Nat
  BY <1>8 DEF HeadSize, n, ip
<1> QED
  BY <1>10, <1>11, <1>12, <1>13, <1>14, <1>15 DEF n, ip, t, k

\* What is left of the transport where the frame is cut.
Rest(s) == Slice(s.transport, 0, TransportSize(s))

LEMMA RestParts ==
    ASSUME NEW s \in Segment, TransportSize(s) >= 0
    PROVE  /\ TransportSize(s) \in Nat /\ TransportSize(s) <= Len(s.transport)
           /\ Len(s.transport) \in Nat /\ s.transport \in Seq(Byte)
           /\ Rest(s) \in Seq(Byte) /\ Len(Rest(s)) = TransportSize(s)
           /\ \A i \in 1..TransportSize(s) : Rest(s)[i] = s.transport[i]
<1> DEFINE t == s.transport
           n == TransportSize(s)
           w == Len(t)
           h == Len(IpBytes(s))
           r == Rest(s)
<1>1. t \in Seq(Byte) /\ s.size \in 0..12 + h + w
  BY SegmentParts
<1>2. w \in Nat /\ h \in Nat
  BY <1>1, LenProperties, HeaderV4, HeaderV6
<1>3. n = s.size - 12 - h /\ n >= 0
  BY DEF TransportSize
<1>4. r = Slice(t, 0, n)
  BY DEF Rest
<1>5. t = s.transport /\ r = Rest(s) /\ n = TransportSize(s) /\ w = Len(t)
  OBVIOUS
<1> HIDE DEF t, n, w, h, r
<1>6. n \in Nat /\ n <= w /\ 0 \in Nat /\ 0 <= n /\ n - 0 = n
  BY <1>1, <1>2, <1>3
<1>7. r \in Seq(Byte) /\ Len(r) = n - 0 /\ \A i \in 1..n - 0 : r[i] = t[0 + i]
  <2>1. n <= Len(t)
    BY <1>5, <1>6
  <2>2. IsPart(r, t, 0, n)
    BY <1>1, <1>4, <1>6, <2>1, Part
  <2> QED
    BY <2>2 DEF IsPart
<1>8. \A i \in 1..n : 0 + i = i
  BY <1>6
<1>9. Len(r) = n /\ \A i \in 1..n : r[i] = t[i]
  BY <1>6, <1>7, <1>8
<1> QED
  BY <1>1, <1>2, <1>5, <1>6, <1>7, <1>9

\* The addresses the program reads from a frame of either family, and the
\* length of the header it finds there.
LEMMA FrameV4 ==
    ASSUME NEW s \in Segment, IsV4(s.src)
    PROVE  /\ HeadSize(s) = 34 + 4 * s.options /\ s.options \in 0..10
           /\ s.size >= 15 => FrameOf(s)[15] = 69 + s.options
           /\ s.size >= 34 => /\ IsEther(FrameOf(s), EtherV4)
                              /\ Slice(FrameOf(s), 26, 30) = s.src
                              /\ Slice(FrameOf(s), 30, 34) = s.dst
                              /\ FrameOf(s)[24] = s.proto
<1> DEFINE o == s.options
           k == s.size
           ip == IpBytes(s)
           fr == FrameOf(s)
           src == s.src
           dst == s.dst
<1>1. /\ ip \in Seq(Byte) /\ Len(ip) = 22 + 4 * o
      /\ ip[1] = 8 /\ ip[2] = 0 /\ ip[3] = 69 + o /\ ip[12] = s.proto
      /\ \A i \in 1..4 : ip[14 + i] = src[i]
      /\ \A i \in 1..4 : ip[18 + i] = dst[i]
  BY HeaderV4
<1>2. /\ src \in Seq(Byte) /\ dst \in Seq(Byte) /\ Len(src) = 4 /\ Len(dst) = 4
      /\ o \in 0..10
  BY SegmentParts DEF IsV4
<1>3. /\ fr \in Seq(Byte) /\ Len(fr) = k /\ k \in Nat
      /\ \A i \in 1..Len(ip) : 12 + i <= k => fr[12 + i] = ip[i]
  BY FrameParts
<1>4. HeadSize(s) = 12 + Len(ip)
  BY DEF HeadSize
<1> HIDE DEF o, k, ip, fr, src, dst
<1>5. \A i \in 1..22 : 12 + i <= k => fr[12 + i] = ip[i]
  <2>1. \A i \in 1..22 : i \in 1..Len(ip)
    BY <1>1, <1>2
  <2> QED
    BY <1>3, <2>1, Zenon
<1>6. HeadSize(s) = 34 + 4 * o
  BY <1>1, <1>2, <1>4
<1>7. k >= 15 => fr[15] = 69 + o
  <2>1. 3 \in 1..22 /\ 12 + 3 = 15
    OBVIOUS
  <2>2. k >= 15 => fr[12 + 3] = ip[3]
    BY <1>3, <1>5, <2>1
  <2> QED
    BY <1>1, <2>1, <2>2
<1>8. ASSUME k >= 34
      PROVE  /\ IsEther(fr, EtherV4)
             /\ Slice(fr, 26, 30) = src /\ Slice(fr, 30, 34) = dst
             /\ fr[24] = s.proto
  <2>1. \A i \in 1..22 : fr[12 + i] = ip[i]
    <3>1. \A i \in 1..22 : 12 + i <= k
      BY <1>3, <1>8
    <3> QED
      BY <1>5, <3>1, Zenon
  <2>2. fr[13] = 8 /\ fr[14] = 0 /\ fr[24] = s.proto
    <3>1. /\ 1 \in 1..22 /\ 2 \in 1..22 /\ 12 \in 1..22
          /\ 12 + 1 = 13 /\ 12 + 2 = 14 /\ 12 + 12 = 24
      OBVIOUS
    <3>2. fr[12 + 1] = ip[1] /\ fr[12 + 2] = ip[2] /\ fr[12 + 12] = ip[12]
      BY <2>1, <3>1
    <3> QED
      BY <1>1, <3>1, <3>2
  <2>3. Slice(fr, 12, 14) = EtherV4
    <3>1. EtherV4 \in Seq(Byte) /\ Len(EtherV4) = 2 /\ EtherV4[1] = 8 /\ EtherV4[2] = 0
      <4>1. 8 \in Byte /\ 0 \in Byte
        BY SomeBytes
      <4> QED
        BY <4>1, TwoBytes DEF EtherV4
    <3>2. \A i \in 1..Len(EtherV4) : fr[12 + i] = EtherV4[i]
      BY <2>2, <3>1
    <3>3. IsPart(EtherV4, fr, 12, 14)
      BY <3>1, <3>2 DEF IsPart
    <3>4. fr \in Seq(Byte) /\ 14 <= Len(fr) /\ 12 <= 14 /\ 12 \in Nat /\ 14 \in Nat
      BY <1>3, <1>8
    <3> QED
      BY <3>3, <3>4, PartIs
  <2>4. Slice(fr, 26, 30) = src
    <3>1. \A i \in 1..4 : 14 + i \in 1..22 /\ 12 + (14 + i) = 26 + i
      OBVIOUS
    <3>2. \A i \in 1..4 : fr[12 + (14 + i)] = ip[14 + i]
      BY <2>1, <3>1
    <3>3. \A i \in 1..Len(src) : fr[26 + i] = src[i]
      BY <1>1, <1>2, <3>1, <3>2
    <3>4. IsPart(src, fr, 26, 30)
      BY <1>2, <3>3 DEF IsPart
    <3>5. fr \in Seq(Byte) /\ 30 <= Len(fr) /\ 26 <= 30 /\ 26 \in Nat /\ 30 \in Nat
      BY <1>3, <1>8
    <3> QED
      BY <3>4, <3>5, PartIs
  <2>5. Slice(fr, 30, 34) = dst
    <3>1. \A i \in 1..4 : 18 + i \in 1..22 /\ 12 + (18 + i) = 30 + i
      OBVIOUS
    <3>2. \A i \in 1..4 : fr[12 + (18 + i)] = ip[18 + i]
      BY <2>1, <3>1
    <3>3. \A i \in 1..Len(dst) : fr[30 + i] = dst[i]
      BY <1>1, <1>2, <3>1, <3>2
    <3>4. IsPart(dst, fr, 30, 34)
      BY <1>2, <3>3 DEF IsPart
    <3>5. fr \in Seq(Byte) /\ 34 <= Len(fr) /\ 30 <= 34 /\ 30 \in Nat /\ 34 \in Nat
      BY <1>3, <1>8
    <3> QED
      BY <3>4, <3>5, PartIs
  <2>6. Len(fr) >= 14
    BY <1>3, <1>8
  <2> QED
    BY <2>2, <2>3, <2>4, <2>5, <2>6 DEF IsEther
<1> QED
  BY <1>2, <1>6, <1>7, <1>8 DEF o, k, fr, src, dst

LEMMA FrameV6 ==
    ASSUME NEW s \in Segment, ~IsV4(s.src)
    PROVE  /\ HeadSize(s) = 54
           /\ s.size >= 15 => FrameOf(s)[15] = 96
           /\ s.size >= 54 => /\ IsEther(FrameOf(s), EtherV6)
                              /\ Slice(FrameOf(s), 22, 38) = s.src
                              /\ Slice(FrameOf(s), 38, 54) = s.dst
                              /\ FrameOf(s)[21] = s.proto
<1> DEFINE k == s.size
           ip == IpBytes(s)
           fr == FrameOf(s)
           src == s.src
           dst == s.dst
<1>1. /\ ip \in Seq(Byte) /\ Len(ip) = 42
      /\ ip[1] = 134 /\ ip[2] = 221 /\ ip[3] = 96 /\ ip[9] = s.proto
      /\ \A i \in 1..16 : ip[10 + i] = src[i]
      /\ \A i \in 1..16 : ip[26 + i] = dst[i]
  BY HeaderV6
<1>2. src \in Seq(Byte) /\ dst \in Seq(Byte) /\ Len(src) = 16 /\ Len(dst) = 16
  BY SegmentParts DEF IsV4
<1>3. /\ fr \in Seq(Byte) /\ Len(fr) = k /\ k \in Nat
      /\ \A i \in 1..Len(ip) : 12 + i <= k => fr[12 + i] = ip[i]
  BY FrameParts
<1>4. HeadSize(s) = 54
  BY <1>1 DEF HeadSize
<1> HIDE DEF k, ip, fr, src, dst
<1>5. \A i \in 1..42 : 12 + i <= k => fr[12 + i] = ip[i]
  BY <1>1, <1>3
<1>7. k >= 15 => fr[15] = 96
  <2>1. 3 \in 1..42 /\ 12 + 3 = 15
    OBVIOUS
  <2>2. k >= 15 => fr[12 + 3] = ip[3]
    BY <1>3, <1>5, <2>1
  <2> QED
    BY <1>1, <2>1, <2>2
<1>8. ASSUME k >= 54
      PROVE  /\ IsEther(fr, EtherV6)
             /\ Slice(fr, 22, 38) = src /\ Slice(fr, 38, 54) = dst
             /\ fr[21] = s.proto
  <2>1. \A i \in 1..42 : fr[12 + i] = ip[i]
    <3>1. \A i \in 1..42 : 12 + i <= k
      BY <1>3, <1>8
    <3> QED
      BY <1>5, <3>1, Zenon
  <2>2. fr[13] = 134 /\ fr[14] = 221 /\ fr[21] = s.proto
    <3>1. /\ 1 \in 1..42 /\ 2 \in 1..42 /\ 9 \in 1..42
          /\ 12 + 1 = 13 /\ 12 + 2 = 14 /\ 12 + 9 = 21
      OBVIOUS
    <3>2. fr[12 + 1] = ip[1] /\ fr[12 + 2] = ip[2] /\ fr[12 + 9] = ip[9]
      BY <2>1, <3>1
    <3> QED
      BY <1>1, <3>1, <3>2
  <2>3. Slice(fr, 12, 14) = EtherV6
    <3>1. EtherV6 \in Seq(Byte) /\ Len(EtherV6) = 2 /\ EtherV6[1] = 134 /\ EtherV6[2] = 221
      <4>1. 134 \in Byte /\ 221 \in Byte
        BY SomeBytes
      <4> QED
        BY <4>1, TwoBytes DEF EtherV6
    <3>2. \A i \in 1..Len(EtherV6) : fr[12 + i] = EtherV6[i]
      BY <2>2, <3>1
    <3>3. IsPart(EtherV6, fr, 12, 14)
      BY <3>1, <3>2 DEF IsPart
    <3>4. fr \in Seq(Byte) /\ 14 <= Len(fr) /\ 12 <= 14 /\ 12 \in Nat /\ 14 \in Nat
      BY <1>3, <1>8
    <3> QED
      BY <3>3, <3>4, PartIs
  <2>4. Slice(fr, 22, 38) = src
    <3>1. \A i \in 1..16 : 10 + i \in 1..42 /\ 12 + (10 + i) = 22 + i
      OBVIOUS
    <3>2. \A i \in 1..16 : fr[12 + (10 + i)] = ip[10 + i]
      BY <2>1, <3>1
    <3>3. \A i \in 1..38 - 22 : src[i] = fr[22 + i]
      <4>1. \A i \in 1..16 : ip[10 + i] = src[i]
        BY <1>1
      <4>2. \A i \in 1..16 : fr[22 + i] = src[i]
        BY <3>1, <3>2, <4>1
      <4>3. 38 - 22 = 16
        OBVIOUS
      <4> QED
        BY <4>2, <4>3
    <3>4. IsPart(src, fr, 22, 38)
      <4>1. src \in Seq(Byte) /\ Len(src) = 38 - 22
        BY <1>2
      <4> QED
        BY <3>3, <4>1 DEF IsPart
    <3>5. fr \in Seq(Byte) /\ 38 <= Len(fr) /\ 22 <= 38 /\ 22 \in Nat /\ 38 \in Nat
      BY <1>3, <1>8
    <3> QED
      BY <3>4, <3>5, PartIs
  <2>5. Slice(fr, 38, 54) = dst
    <3>1. \A i \in 1..16 : 26 + i \in 1..42 /\ 12 + (26 + i) = 38 + i
      OBVIOUS
    <3>2. \A i \in 1..16 : fr[12 + (26 + i)] = ip[26 + i]
      BY <2>1, <3>1
    <3>3. \A i \in 1..54 - 38 : dst[i] = fr[38 + i]
      <4>1. \A i \in 1..16 : ip[26 + i] = dst[i]
        BY <1>1
      <4>2. \A i \in 1..16 : fr[38 + i] = dst[i]
        BY <3>1, <3>2, <4>1
      <4>3. 54 - 38 = 16
        OBVIOUS
      <4> QED
        BY <4>2, <4>3
    <3>4. IsPart(dst, fr, 38, 54)
      <4>1. dst \in Seq(Byte) /\ Len(dst) = 54 - 38
        BY <1>2
      <4> QED
        BY <3>3, <4>1 DEF IsPart
    <3>5. fr \in Seq(Byte) /\ 54 <= Len(fr) /\ 38 <= 54 /\ 38 \in Nat /\ 54 \in Nat
      BY <1>3, <1>8
    <3> QED
      BY <3>4, <3>5, PartIs
  <2>6. Len(fr) >= 14
    BY <1>3, <1>8
  <2> QED
    BY <2>2, <2>3, <2>4, <2>5, <2>6 DEF IsEther
<1> QED
  BY <1>4, <1>7, <1>8 DEF k, fr, src, dst

\* Behind the headers stands what is left of the transport.
LEMMA FrameRest ==
    ASSUME NEW s \in Segment, TransportSize(s) >= 0
    PROVE  /\ From(FrameOf(s), HeadSize(s)) = Rest(s)
           /\ s.size >= HeadSize(s)
<1> DEFINE fr == FrameOf(s)
           h == HeadSize(s)
           k == s.size
           n == TransportSize(s)
           r == Rest(s)
           t == s.transport
<1>1. /\ fr \in Seq(Byte) /\ Len(fr) = k /\ k \in Nat /\ h \in Nat
      /\ \A i \in 1..k - h : fr[h + i] = t[i]
  BY FrameParts
<1>2. n \in Nat /\ r \in Seq(Byte) /\ Len(r) = n /\ \A i \in 1..n : r[i] = t[i]
  BY RestParts
<1>3. n = k - h
  <2>1. Len(IpBytes(s)) \in Nat
    BY HeaderV4, HeaderV6, LenProperties
  <2>2. n = k - 12 - Len(IpBytes(s)) /\ h = 12 + Len(IpBytes(s))
    BY DEF TransportSize, HeadSize
  <2> HIDE DEF n, k, h
  <2> QED
    BY <1>1, <2>1, <2>2
<1>4. From(fr, h) = Slice(fr, h, k)
  BY <1>1 DEF From
<1> HIDE DEF fr, h, k, n, r, t
<1>5. h <= k /\ k <= Len(fr) /\ Len(r) = k - h
  BY <1>1, <1>2, <1>3
<1>6. \A i \in 1..Len(r) : fr[h + i] = r[i]
  BY <1>1, <1>2, <1>3
<1>7. Slice(fr, h, k) = r
  <2>1. IsPart(r, fr, h, k)
    BY <1>2, <1>5, <1>6 DEF IsPart
  <2> QED
    BY <1>1, <1>5, <2>1, PartIs
<1> QED
  BY <1>1, <1>2, <1>3, <1>4, <1>7 DEF fr, h, k, r

\* The first byte of an IP header tells the family and the length.
LEMMA VersionV4 ==
    ASSUME NEW o \in 0..10
    PROVE  /\ (69 + o) \div 16 = 4
           /\ ((69 + o) % 16) * 4 = 20 + 4 * o
           /\ 14 + (20 + 4 * o) = 34 + 4 * o
           /\ 20 + 4 * o >= 20 /\ 34 + 4 * o >= 34 /\ 34 + 4 * o \in Nat
OBVIOUS

LEMMA VersionV6 == 96 \div 16 = 6
OBVIOUS

\* What the program reads from a frame is what was put there, and the transport
\* as far as it goes; a frame cut in its headers is not read.
Parts(s) == [src |-> s.src, dst |-> s.dst, proto |-> s.proto, payload |-> Rest(s)]

LEMMA FrameRead ==
    ASSUME NEW s \in Segment
    PROVE  IpSlices(FrameOf(s)) = {x \in {Parts(s)} : TransportSize(s) >= 0}
<1> DEFINE fr == FrameOf(s)
           h == HeadSize(s)
           k == s.size
           n == TransportSize(s)
           v4 == [src |-> Slice(fr, 26, 30), dst |-> Slice(fr, 30, 34),
                  proto |-> At(fr, 23), payload |-> From(fr, PayloadAt(fr))]
           v6 == [src |-> Slice(fr, 22, 38), dst |-> Slice(fr, 38, 54),
                  proto |-> At(fr, 20), payload |-> From(fr, 54)]
<1>1. IpSlices(fr) = {v4 : x \in {y \in {fr} : Ipv4Slices(y)}}
                     \union {v6 : x \in {y \in {fr} : Ipv6Slices(y)}}
  BY DEF IpSlices
<1>2. fr \in Seq(Byte) /\ Len(fr) = k /\ k \in Nat /\ h \in Nat
  BY FrameParts
<1>3. n \in Int /\ (n >= 0 <=> k >= h)
  <2>1. Len(IpBytes(s)) \in Nat
    BY HeaderV4, HeaderV6, LenProperties
  <2>2. n = k - 12 - Len(IpBytes(s)) /\ h = 12 + Len(IpBytes(s))
    BY DEF TransportSize, HeadSize
  <2> HIDE DEF n, k, h
  <2> QED
    BY <1>2, <2>1, <2>2
<1>4. n >= 0 => From(fr, h) = Rest(s)
  BY FrameRest
<1>5. At(fr, 14) = fr[15] /\ At(fr, 23) = fr[24] /\ At(fr, 20) = fr[21]
  BY DEF At
<1>6. CASE IsV4(s.src)
  <2> DEFINE o == s.options
  <2>1. /\ h = 34 + 4 * o /\ o \in 0..10
        /\ k >= 15 => fr[15] = 69 + o
        /\ k >= 34 => /\ IsEther(fr, EtherV4)
                      /\ Slice(fr, 26, 30) = s.src /\ Slice(fr, 30, 34) = s.dst
                      /\ fr[24] = s.proto
    BY <1>6, FrameV4
  <2> HIDE DEF o
  <2>2. /\ (69 + o) \div 16 = 4 /\ ((69 + o) % 16) * 4 = 20 + 4 * o
        /\ 14 + (20 + 4 * o) = 34 + 4 * o
        /\ 20 + 4 * o >= 20 /\ 34 + 4 * o >= 34 /\ 34 + 4 * o \in Nat
    BY <2>1, VersionV4
  <2>3. k >= 15 => /\ HeaderLen(fr) = 20 + 4 * o /\ PayloadAt(fr) = h
                   /\ At(fr, 14) \div 16 = 4
    BY <1>5, <2>1, <2>2 DEF HeaderLen, PayloadAt
  <2> HIDE DEF fr, k, h, n
  <2>4. ~Ipv6Slices(fr)
    <3>1. k >= 14 + 40 => k >= 15
      BY <1>2
    <3>2. 4 # 6
      OBVIOUS
    <3> QED
      BY <1>2, <2>3, <3>1, <3>2 DEF Ipv6Slices
  <2>5. Ipv4Slices(fr) <=> k >= h
    <3>1. ASSUME Ipv4Slices(fr) PROVE k >= h
      <4>1. k >= 14 + 20 /\ k >= PayloadAt(fr)
        BY <1>2, <3>1 DEF Ipv4Slices
      <4>2. k >= 15
        BY <1>2, <4>1
      <4> QED
        BY <2>3, <4>1, <4>2
    <3>2. ASSUME k >= h PROVE Ipv4Slices(fr)
      <4>1. k >= 34 /\ k >= 14 + 20 /\ k >= 15
        BY <1>2, <2>1, <2>2, <3>2
      <4>2. HeaderLen(fr) >= 20 /\ PayloadAt(fr) = h /\ At(fr, 14) \div 16 = 4
        BY <2>2, <2>3, <4>1
      <4> QED
        BY <1>2, <2>1, <3>2, <4>1, <4>2 DEF Ipv4Slices
    <3> QED
      BY <3>1, <3>2
  <2>6. k >= h => v4 = Parts(s)
    <3> SUFFICES ASSUME k >= h PROVE v4 = Parts(s)
      OBVIOUS
    <3>1. k >= 34 /\ k >= 15
      BY <1>2, <2>1, <2>2
    <3>2. From(fr, PayloadAt(fr)) = Rest(s)
      BY <1>3, <1>4, <2>3, <3>1
    <3>3. At(fr, 23) = s.proto /\ Slice(fr, 26, 30) = s.src /\ Slice(fr, 30, 34) = s.dst
      BY <1>5, <2>1, <3>1
    <3> QED
      BY <3>2, <3>3 DEF Parts
  <2> HIDE DEF v4, v6
  <2>7. IpSlices(fr) = {x \in {Parts(s)} : k >= h}
    BY <1>1, <2>4, <2>5, <2>6
  <2> QED
    BY <1>3, <2>7 DEF fr, n
<1>7. CASE ~IsV4(s.src)
  <2>1. /\ h = 54
        /\ k >= 15 => fr[15] = 96
        /\ k >= 54 => /\ IsEther(fr, EtherV6)
                      /\ Slice(fr, 22, 38) = s.src /\ Slice(fr, 38, 54) = s.dst
                      /\ fr[21] = s.proto
    BY <1>7, FrameV6
  <2>3. k >= 15 => At(fr, 14) \div 16 = 6
    BY <1>5, <2>1, VersionV6
  <2> HIDE DEF fr, k, h, n
  <2>4. ~Ipv4Slices(fr)
    <3>1. k >= 14 + 20 => k >= 15
      BY <1>2
    <3>2. 4 # 6
      OBVIOUS
    <3> QED
      BY <1>2, <2>3, <3>1, <3>2 DEF Ipv4Slices
  <2>5. Ipv6Slices(fr) <=> k >= h
    <3>1. (k >= 14 + 40 <=> k >= h) /\ (k >= h => k >= 54 /\ k >= 15)
      BY <1>2, <2>1
    <3> QED
      BY <1>2, <2>1, <2>3, <3>1 DEF Ipv6Slices
  <2>6. k >= h => v6 = Parts(s)
    <3> SUFFICES ASSUME k >= h PROVE v6 = Parts(s)
      OBVIOUS
    <3>1. k >= 54
      BY <1>2, <2>1
    <3>2. From(fr, 54) = Rest(s)
      BY <1>3, <1>4, <2>1
    <3>3. At(fr, 20) = s.proto /\ Slice(fr, 22, 38) = s.src /\ Slice(fr, 38, 54) = s.dst
      BY <1>5, <2>1, <3>1
    <3> QED
      BY <3>2, <3>3 DEF Parts
  <2> HIDE DEF v4, v6
  <2>7. IpSlices(fr) = {x \in {Parts(s)} : k >= h}
    BY <1>1, <2>4, <2>5, <2>6
  <2> QED
    BY <1>3, <2>7 DEF fr, n
<1> QED
  BY <1>6, <1>7

\* A flag byte that opens a connection, in its low bits.
LEMMA SynOnly ==
    ASSUME NEW b \in Byte
    PROVE  HasBit(b, Syn) /\ ~HasBit(b, Ack) /\ ~HasBit(b, Rst) <=> b % 32 \in {2, 3, 10, 11}
<1> DEFINE r == b % 32
           q == b \div 32
<1>1. b \in Nat /\ r \in 0..31 /\ q \in Nat /\ b = 32 * q + r
  BY DEF Byte
<1> HIDE DEF r, q
<1>2. /\ (b \div 2) % 2 = 1 <=> (r \div 2) % 2 = 1
      /\ (b \div 4) % 2 = 1 <=> (r \div 4) % 2 = 1
      /\ (b \div 16) % 2 = 1 <=> (r \div 16) % 2 = 1
  BY <1>1
<1>3. (r \div 2) % 2 = 1 /\ ~((r \div 16) % 2 = 1) /\ ~((r \div 4) % 2 = 1)
         <=> r \in {2, 3, 10, 11}
  BY <1>1
<1> QED
  BY <1>2, <1>3 DEF HasBit, Syn, Ack, Rst, r

\* The fields of a transport header are where they were, if it is whole.
LEMMA HeaderFields ==
    ASSUME NEW s \in Segment, TransportSize(s) >= 8
    PROVE  /\ At(Rest(s), 0) = s.transport[1] /\ At(Rest(s), 1) = s.transport[2]
           /\ \A i \in {0, 2, 4, 6} : FromBe16(Rest(s), i) = FromBe16(s.transport, i)
           /\ Slice(Rest(s), 4, 8) = Slice(s.transport, 4, 8)
           /\ From(Rest(s), 8) = SubSeq(s.transport, 9, TransportSize(s))
<1> DEFINE n == TransportSize(s)
           r == Rest(s)
           t == s.transport
           w == Len(t)
<1>1. TransportSize(s) >= 0
  <2>1. s.size \in Int /\ Len(IpBytes(s)) \in Int
    BY FrameParts, HeaderV4, HeaderV6, LenProperties
  <2>2. n \in Int
    BY <2>1 DEF TransportSize
  <2> HIDE DEF n
  <2>3. n >= 8 => n >= 0
    BY <2>2
  <2> QED
    BY <2>3 DEF n
<1>2. /\ n \in Nat /\ n <= w /\ w \in Nat /\ t \in Seq(Byte)
      /\ r \in Seq(Byte) /\ Len(r) = n /\ \A i \in 1..n : r[i] = t[i]
  BY <1>1, RestParts
<1>3. n >= 8
  OBVIOUS
<1>4. w = Len(t)
  OBVIOUS
<1>5. From(r, 8) = Slice(r, 8, n) /\ SubSeq(t, 9, n) = Slice(t, 8, n)
  <2>1. 8 + 1 = 9
    OBVIOUS
  <2> QED
    BY <1>2, <2>1 DEF From, Slice
<1> HIDE DEF n, r, t, w
<1>6. \A i \in 1..8 : r[i] = t[i]
  BY <1>2, <1>3
<1>7. \A i \in 0..7 : At(r, i) = At(t, i)
  <2>1. \A i \in 0..7 : i + 1 \in 1..8
    OBVIOUS
  <2> QED
    BY <1>6, <2>1 DEF At
<1>8. \A i \in {0, 2, 4, 6} : FromBe16(r, i) = FromBe16(t, i)
  <2>1. \A i \in {0, 2, 4, 6} : i \in 0..7 /\ i + 1 \in 0..7
    OBVIOUS
  <2>2. \A i \in {0, 2, 4, 6} : At(r, i) = At(t, i) /\ At(r, i + 1) = At(t, i + 1)
    BY <1>7, <2>1
  <2> QED
    BY <2>2 DEF FromBe16
<1>9. At(r, 0) = t[1] /\ At(r, 1) = t[2]
  BY <1>6 DEF At
<1>10. ASSUME NEW i \in Nat, NEW k \in Nat, i <= k, k <= n
       PROVE  Slice(r, i, k) = Slice(t, i, k)
  <2> DEFINE x == Slice(t, i, k)
  <2>1. k <= Len(t) /\ k <= Len(r)
    BY <1>2, <1>4, <1>10
  <2>2. x \in Seq(Byte) /\ Len(x) = k - i /\ \A j \in 1..k - i : x[j] = t[i + j]
    <3>1. t \in Seq(Byte) /\ i <= k /\ k <= Len(t)
      BY <1>2, <1>10, <2>1
    <3>2. IsPart(x, t, i, k)
      BY <3>1, Part
    <3> HIDE DEF x
    <3> QED
      BY <3>2 DEF IsPart
  <2> HIDE DEF x
  <2>3. IsPart(x, r, i, k)
    <3>1. \A j \in 1..k - i : i + j \in 1..n
      BY <1>2, <1>10
    <3>2. \A j \in 1..k - i : x[j] = r[i + j]
      BY <1>2, <2>2, <3>1
    <3> QED
      BY <2>2, <3>2 DEF IsPart
  <2>4. Slice(r, i, k) = x
    <3>1. r \in Seq(Byte) /\ i <= k /\ k <= Len(r)
      BY <1>2, <1>10, <2>1
    <3> QED
      BY <2>3, <3>1, PartIs
  <2> QED
    BY <2>4 DEF x
<1>11. Slice(r, 4, 8) = Slice(t, 4, 8)
  BY <1>2, <1>3, <1>10
<1>12. Slice(r, 8, n) = Slice(t, 8, n)
  BY <1>2, <1>3, <1>10
<1> QED
  BY <1>5, <1>8, <1>9, <1>11, <1>12 DEF n, r, t

\* A frame is read by the protocol it names and by what is left of the
\* transport.
LEMMA ReadBy ==
    ASSUME NEW s \in Segment, NEW size \in Nat
    PROVE  /\ Parts(s).proto = s.proto /\ Parts(s).src = s.src /\ Parts(s).dst = s.dst
           /\ Parts(s).payload = Rest(s)
           /\ TransportSize(s) >= 0 /\ Len(Rest(s)) >= size <=> TransportSize(s) >= size
<1> DEFINE n == TransportSize(s)
           m == Len(Rest(s))
<1>1. n \in Int
  <2>1. s.size \in Int /\ Len(IpBytes(s)) \in Int
    BY FrameParts, HeaderV4, HeaderV6, LenProperties
  <2> QED
    BY <2>1 DEF TransportSize
<1>2. n >= 0 => m = n
  BY RestParts
<1>3. n >= 0 /\ m >= size <=> n >= size
  <2> HIDE DEF n, m
  <2> QED
    BY <1>1, <1>2
<1> QED
  BY <1>3 DEF Parts

FlowOf(s) == [src |-> s.src, dst |-> s.dst, srcPort |-> FromBe16(s.transport, 0),
              dstPort |-> FromBe16(s.transport, 2)]

LEMMA UdpPeeked ==
    ASSUME NEW s \in Segment
    PROVE  PeekUdp(FrameOf(s)) = {f \in {FlowOf(s)} : s.proto = Udp /\ TransportSize(s) >= 8}
<1> DEFINE ips == {x \in IpSlices(FrameOf(s)) : x.proto = Udp /\ Len(x.payload) >= 8}
           of(ip) == [src |-> ip.src, dst |-> ip.dst, srcPort |-> FromBe16(ip.payload, 0),
                      dstPort |-> FromBe16(ip.payload, 2)]
           is == s.proto = Udp /\ TransportSize(s) >= 8
<1>1. PeekUdp(FrameOf(s)) = {of(ip) : ip \in ips}
  BY DEF PeekUdp
<1>2. ips = {x \in {Parts(s)} : is}
  <2>1. /\ Parts(s).proto = s.proto /\ Parts(s).payload = Rest(s)
        /\ TransportSize(s) >= 0 /\ Len(Rest(s)) >= 8 <=> TransportSize(s) >= 8
    BY ReadBy
  <2> QED
    BY <2>1, FrameRead
<1>3. ASSUME is PROVE of(Parts(s)) = FlowOf(s)
  <2>1. \A i \in {0, 2, 4, 6} : FromBe16(Rest(s), i) = FromBe16(s.transport, i)
    BY <1>3, HeaderFields
  <2>2. Parts(s).src = s.src /\ Parts(s).dst = s.dst /\ Parts(s).payload = Rest(s)
    BY DEF Parts
  <2> QED
    BY <2>1, <2>2 DEF FlowOf
<1> HIDE DEF ips, of, is
<1>4. {of(ip) : ip \in ips} = {f \in {FlowOf(s)} : is}
  BY <1>2, <1>3
<1> QED
  BY <1>1, <1>4 DEF is

LEMMA SynPeeked ==
    ASSUME NEW s \in Segment
    PROVE  PeekTcpSyn(FrameOf(s)) =
              {[src |-> f.src, dst |-> f.dst, srcPort |-> f.srcPort,
                dstPort |-> f.dstPort, seq |-> Slice(s.transport, 4, 8)]
                  : f \in {x \in {FlowOf(s)} :
                        /\ s.proto = Tcp /\ TransportSize(s) >= 20
                        /\ (At(s.transport, 13) % 32) \in {2, 3, 10, 11}}}
<1> DEFINE syn(b) == HasBit(b, Syn) /\ ~HasBit(b, Ack) /\ ~HasBit(b, Rst)
           ips == {x \in IpSlices(FrameOf(s)) :
                      x.proto = Tcp /\ Len(x.payload) >= 20 /\ syn(At(x.payload, 13))}
           of(ip) == [src |-> ip.src, dst |-> ip.dst, srcPort |-> FromBe16(ip.payload, 0),
                      dstPort |-> FromBe16(ip.payload, 2), seq |-> Slice(ip.payload, 4, 8)]
           is == /\ s.proto = Tcp /\ TransportSize(s) >= 20
                 /\ (At(s.transport, 13) % 32) \in {2, 3, 10, 11}
           to(f) == [src |-> f.src, dst |-> f.dst, srcPort |-> f.srcPort,
                     dstPort |-> f.dstPort, seq |-> Slice(s.transport, 4, 8)]
<1>1. PeekTcpSyn(FrameOf(s)) = {of(ip) : ip \in ips}
  BY DEF PeekTcpSyn
<1>2. TransportSize(s) >= 20 =>
         /\ TransportSize(s) >= 8 /\ TransportSize(s) >= 0
         /\ syn(At(Rest(s), 13)) <=> (At(s.transport, 13) % 32) \in {2, 3, 10, 11}
  <2> SUFFICES ASSUME TransportSize(s) >= 20
               PROVE  /\ TransportSize(s) >= 8 /\ TransportSize(s) >= 0
                      /\ syn(At(Rest(s), 13))
                            <=> (At(s.transport, 13) % 32) \in {2, 3, 10, 11}
    OBVIOUS
  <2>1. TransportSize(s) >= 8 /\ TransportSize(s) >= 0
    <3>1. \A n \in Int : n >= 20 => n >= 8 /\ n >= 0
      OBVIOUS
    <3>2. TransportSize(s) \in Int
      <4>1. s.size \in Int /\ Len(IpBytes(s)) \in Int
        BY FrameParts, HeaderV4, HeaderV6, LenProperties
      <4> QED
        BY <4>1 DEF TransportSize
    <3> QED
      BY <3>1, <3>2
  <2>2. Rest(s)[14] = s.transport[14] /\ s.transport[14] \in Byte
    <3>1. /\ TransportSize(s) \in Nat /\ TransportSize(s) <= Len(s.transport)
          /\ Len(s.transport) \in Nat /\ s.transport \in Seq(Byte)
          /\ \A i \in 1..TransportSize(s) : Rest(s)[i] = s.transport[i]
      BY <2>1, RestParts
    <3>2. 14 \in 1..TransportSize(s) /\ 14 \in 1..Len(s.transport)
      BY <3>1
    <3>3. Rest(s)[14] = s.transport[14]
      BY <3>1, <3>2
    <3> QED
      BY <3>1, <3>2, <3>3, ElementOfSeq
  <2>3. At(Rest(s), 13) = At(s.transport, 13) /\ At(s.transport, 13) \in Byte
    <3>1. 13 + 1 = 14
      OBVIOUS
    <3> QED
      BY <2>2, <3>1 DEF At
  <2>4. syn(At(s.transport, 13)) <=> (At(s.transport, 13) % 32) \in {2, 3, 10, 11}
    BY <2>3, SynOnly
  <2> QED
    BY <2>1, <2>3, <2>4
<1> HIDE DEF syn
<1>3. ips = {x \in {Parts(s)} : is}
  <2>1. /\ Parts(s).proto = s.proto /\ Parts(s).payload = Rest(s)
        /\ TransportSize(s) >= 0 /\ Len(Rest(s)) >= 20 <=> TransportSize(s) >= 20
    BY ReadBy
  <2> QED
    BY <1>2, <2>1, FrameRead
<1>4. ASSUME is PROVE of(Parts(s)) = to(FlowOf(s))
  <2>1. /\ \A i \in {0, 2, 4, 6} : FromBe16(Rest(s), i) = FromBe16(s.transport, i)
        /\ Slice(Rest(s), 4, 8) = Slice(s.transport, 4, 8)
    BY <1>2, <1>4, HeaderFields
  <2>2. Parts(s).src = s.src /\ Parts(s).dst = s.dst /\ Parts(s).payload = Rest(s)
    BY DEF Parts
  <2> QED
    BY <2>1, <2>2 DEF FlowOf
<1> HIDE DEF ips, of, is
<1>5. {of(ip) : ip \in ips} = {to(f) : f \in {x \in {FlowOf(s)} : is}}
  <2> HIDE DEF to
  <2> QED
    BY <1>3, <1>4
<1> QED
  BY <1>1, <1>5 DEF is, to

LEMMA EchoPeeked ==
    ASSUME NEW s \in Segment
    PROVE  PeekIcmpEchoRequest(FrameOf(s)) =
              {[src |-> s.src, dst |-> s.dst, id |-> FromBe16(s.transport, 4),
                seq |-> FromBe16(s.transport, 6),
                data |-> SubSeq(s.transport, 9, TransportSize(s))]
                  : x \in {y \in {s.transport} :
                        IF IsV4(s.dst)
                        THEN /\ s.proto = Icmp /\ TransportSize(s) >= 8
                             /\ s.transport[1] = 8 /\ s.transport[2] = 0
                        ELSE /\ s.proto = Icmpv6 /\ TransportSize(s) >= 8
                             /\ s.transport[1] = 128 /\ s.transport[2] = 0}}
<1> DEFINE asks(x) == /\ x.proto = IF IsV4(x.dst) THEN Icmp ELSE Icmpv6
                      /\ Len(x.payload) >= 8
                      /\ At(x.payload, 0) = EchoRequestType(x) /\ At(x.payload, 1) = 0
           ips == {x \in IpSlices(FrameOf(s)) : asks(x)}
           of(ip) == [src |-> ip.src, dst |-> ip.dst, id |-> FromBe16(ip.payload, 4),
                      seq |-> FromBe16(ip.payload, 6), data |-> From(ip.payload, 8)]
           is == IF IsV4(s.dst)
                 THEN /\ s.proto = Icmp /\ TransportSize(s) >= 8
                      /\ s.transport[1] = 8 /\ s.transport[2] = 0
                 ELSE /\ s.proto = Icmpv6 /\ TransportSize(s) >= 8
                      /\ s.transport[1] = 128 /\ s.transport[2] = 0
           echo == [src |-> s.src, dst |-> s.dst, id |-> FromBe16(s.transport, 4),
                    seq |-> FromBe16(s.transport, 6),
                    data |-> SubSeq(s.transport, 9, TransportSize(s))]
<1>1. PeekIcmpEchoRequest(FrameOf(s)) = {of(ip) : ip \in ips}
  BY DEF PeekIcmpEchoRequest
<1>2. /\ Parts(s).proto = s.proto /\ Parts(s).src = s.src /\ Parts(s).dst = s.dst
      /\ Parts(s).payload = Rest(s)
      /\ TransportSize(s) >= 0 /\ Len(Rest(s)) >= 8 <=> TransportSize(s) >= 8
  BY ReadBy
<1>3. TransportSize(s) >= 8 =>
        At(Rest(s), 0) = s.transport[1] /\ At(Rest(s), 1) = s.transport[2]
  BY HeaderFields
<1>4. TransportSize(s) >= 0 /\ asks(Parts(s)) <=> is
  BY <1>2, <1>3 DEF EchoRequestType
<1>5. ips = {x \in {Parts(s)} : is}
  <2> HIDE DEF asks, is
  <2> QED
    BY <1>4, FrameRead
<1>6. ASSUME is PROVE of(Parts(s)) = echo
  <2>1. TransportSize(s) >= 8
    BY <1>6
  <2>2. /\ \A i \in {0, 2, 4, 6} : FromBe16(Rest(s), i) = FromBe16(s.transport, i)
        /\ From(Rest(s), 8) = SubSeq(s.transport, 9, TransportSize(s))
    BY <2>1, HeaderFields
  <2> QED
    BY <1>2, <2>2
<1> HIDE DEF ips, of, is, echo, asks
<1>7. {of(ip) : ip \in ips} = {echo : x \in {y \in {s.transport} : is}}
  BY <1>5, <1>6
<1> QED
  BY <1>1, <1>7 DEF is, echo

\* Whatever the addresses, the options of the IPv4 header, the transport and the
\* point at which the frame is cut, the gate reads the flow the guest wrote, and
\* reads none from a frame that is not whole or not of the kind it looks for.
THEOREM FramesPeeked == Spec => []PeeksExact
<1>1. InputOK => PeeksExact
  <2> SUFFICES ASSUME NEW s \in Segment, input = [about |-> "segment", is |-> s]
               PROVE  PeeksExact
    BY DEF InputOK, PeeksExact
  <2> QED
    BY UdpPeeked, SynPeeked, EchoPeeked DEF PeeksExact, FlowOf
<1> QED
  BY <1>1, InputAlways, PTL

-----------------------------------------------------------------------------
\* The number four bytes stand for, most significant first, by its halves.
Half(seq, i) == 256 * seq[i] + seq[i + 1]
Number(seq) == 65536 * Half(seq, 1) + Half(seq, 3)

\* A half is below 65536, and full when both its bytes are.
LEMMA HalfBounds ==
    ASSUME NEW x \in Byte, NEW y \in Byte
    PROVE  /\ 256 * x + y \in Nat /\ 256 * x + y < 65536
           /\ 256 * x + y = 65535 <=> x = 255 /\ y = 255
<1>1. x \in Nat /\ y \in Nat /\ x < 256 /\ y < 256
  BY DEF Byte
<1> QED
  BY <1>1, SMT

\* The sequence number a reset acknowledges is the one behind the SYN's, around
\* the end of the sequence space as well (wire.rs, seq.wrapping_add(1)).
THEOREM NextSequence ==
    ASSUME NEW seq \in [1..4 -> Byte]
    PROVE  /\ Successor(seq) \in [1..4 -> Byte]
           /\ Number(Successor(seq)) = (Number(seq) + 1) % (65536 * 65536)
<1> DEFINE a == seq[1]
           b == seq[2]
           c == seq[3]
           d == seq[4]
           n == Successor(seq)
           bump(x, carry) == IF carry THEN (x + 1) % 256 ELSE x
<1>1. a \in Byte /\ b \in Byte /\ c \in Byte /\ d \in Byte
  BY SMT
<1>2. n = [i \in 1..4 |-> bump(seq[i], \A j \in i + 1..4 : seq[j] = 255)]
  BY SMT DEF Successor
<1>3. /\ (\A j \in 1 + 1..4 : seq[j] = 255) <=> b = 255 /\ c = 255 /\ d = 255
      /\ (\A j \in 2 + 1..4 : seq[j] = 255) <=> c = 255 /\ d = 255
      /\ (\A j \in 3 + 1..4 : seq[j] = 255) <=> d = 255
      /\ (\A j \in 4 + 1..4 : seq[j] = 255)
  <2>1. /\ \A j : j \in 1 + 1..4 <=> j = 2 \/ j = 3 \/ j = 4
        /\ \A j : j \in 2 + 1..4 <=> j = 3 \/ j = 4
        /\ \A j : j \in 3 + 1..4 <=> j = 4
        /\ \A j : ~(j \in 4 + 1..4)
    BY SMT
  <2> QED
    BY <2>1, SMT
<1>4. /\ n[1] = bump(a, b = 255 /\ c = 255 /\ d = 255)
      /\ n[2] = bump(b, c = 255 /\ d = 255)
      /\ n[3] = bump(c, d = 255)
      /\ n[4] = (d + 1) % 256
  <2>1. \A i \in 1..4 : n[i] = bump(seq[i], \A j \in i + 1..4 : seq[j] = 255)
    BY <1>2, SMT
  <2>2. 1 \in 1..4 /\ 2 \in 1..4 /\ 3 \in 1..4 /\ 4 \in 1..4
    BY SMT
  <2> HIDE DEF n
  <2> QED
    BY <1>3, <2>1, <2>2, SMT
<1>5. n \in [1..4 -> Byte]
  <2>1. \A x \in Byte : (x + 1) % 256 \in Byte
    BY SMT DEF Byte
  <2> QED
    BY <1>2, <2>1, SMT
<1>6. /\ Half(seq, 1) = 256 * a + b /\ Half(seq, 3) = 256 * c + d
      /\ Half(n, 1) = 256 * n[1] + n[2] /\ Half(n, 3) = 256 * n[3] + n[4]
  <2> HIDE DEF n
  <2>1. 1 + 1 = 2 /\ 3 + 1 = 4
    BY SMT
  <2> QED
    BY <2>1, SMT DEF Half
<1> DEFINE hi == 256 * a + b
           lo == 256 * c + d
           hin == 256 * n[1] + n[2]
           lon == 256 * n[3] + n[4]
<1>7. /\ hi \in Nat /\ hi < 65536 /\ lo \in Nat /\ lo < 65536
      /\ lo = 65535 <=> c = 255 /\ d = 255
      /\ hi = 65535 <=> a = 255 /\ b = 255
  BY <1>1, HalfBounds, SMT
<1>8. lon = IF lo = 65535 THEN 0 ELSE lo + 1
  <2> HIDE DEF n, a, b, c, d
  <2>1. c \in Nat /\ d \in Nat /\ c < 256 /\ d < 256
    BY <1>1 DEF Byte
  <2> QED
    BY <1>4, <2>1, SMT
<1>9. hin = IF lo # 65535 THEN hi ELSE IF hi = 65535 THEN 0 ELSE hi + 1
  <2> HIDE DEF n, a, b, c, d
  <2>1. a \in Nat /\ b \in Nat /\ a < 256 /\ b < 256
    BY <1>1 DEF Byte
  <2> HIDE DEF lo
  <2> QED
    BY <1>4, <1>7, <2>1, SMT
<1>10. Number(seq) = 65536 * hi + lo /\ Number(n) = 65536 * hin + lon
  <2> HIDE DEF n, a, b, c, d
  <2> QED
    BY <1>6, SMT DEF Number
<1> HIDE DEF hi, lo, hin, lon
<1>11. 65536 * hin + lon = (65536 * hi + lo + 1) % (65536 * 65536)
  BY <1>7, <1>8, <1>9, SMT
<1> QED
  BY <1>5, <1>10, <1>11, SMT

\* One number for another, as ones' complement counts.
SameOnes(x, y) ==
    /\ y \in Nat /\ (y = 0 <=> x = 0)
    /\ \E q \in Nat : x = y + 65535 * q

LEMMA FoldOnce ==
    ASSUME NEW x \in Nat
    PROVE  /\ SameOnes(x, Fold(x))
           /\ x < 65536 * 65536 => Fold(x) < 131071
           /\ x < 131071 => Fold(x) < 65536
<1> DEFINE q == x \div 65536
           r == x % 65536
<1>1. q \in Nat /\ r \in Nat /\ r < 65536 /\ x = 65536 * q + r
  BY SMT
<1>2. Fold(x) = r + q
  BY SMT DEF Fold
<1> HIDE DEF q, r
<1>3. r + q \in Nat /\ (r + q = 0 <=> x = 0)
  BY <1>1, SMT
<1>4. q \in Nat /\ x = r + q + 65535 * q
  BY <1>1, SMT
<1>5. SameOnes(x, r + q)
  BY <1>3, <1>4 DEF SameOnes
<1>6. x < 65536 * 65536 => r + q < 131071
  BY <1>1, SMT
<1>7. x < 131071 => r + q < 65536
  BY <1>1, SMT
<1> QED
  BY <1>2, <1>5, <1>6, <1>7, SMT

\* Two rounds of folding the carries back are as many as a 32-bit sum can need:
\* the sum fits sixteen bits, keeps its value as a ones' complement number, and
\* is zero only when every word was (wire.rs, the loop of internet_checksum).
THEOREM TwoRoundsFold ==
    ASSUME NEW sum \in Nat, sum < 65536 * 65536
    PROVE  /\ Fold(Fold(sum)) \in Nat /\ Fold(Fold(sum)) < 65536
           /\ Fold(Fold(sum)) % 65535 = sum % 65535
           /\ Fold(Fold(sum)) = 0 <=> sum = 0
<1> DEFINE y == Fold(sum)
           z == Fold(y)
<1>1. SameOnes(sum, y) /\ y < 131071
  BY FoldOnce, SMT
<1> HIDE DEF y
<1>2. y \in Nat
  BY <1>1 DEF SameOnes
<1>3. SameOnes(y, z) /\ z < 65536
  BY <1>1, <1>2, FoldOnce, SMT
<1> HIDE DEF z
<1>4. PICK p \in Nat : sum = y + 65535 * p
  BY <1>1, SMT DEF SameOnes
<1>5. PICK q \in Nat : y = z + 65535 * q
  BY <1>3, SMT DEF SameOnes
<1>6. z \in Nat /\ (z = 0 <=> sum = 0)
  BY <1>1, <1>3, SMT DEF SameOnes
<1>7. sum = z + 65535 * (p + q)
  BY <1>4, <1>5, <1>6, SMT
<1>8. z % 65535 = sum % 65535
  BY <1>6, <1>7, SMT
<1> QED
  BY <1>3, <1>6, <1>8, SMT DEF y, z
=============================================================================
