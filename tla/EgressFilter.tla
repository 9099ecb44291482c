---------------------------- MODULE EgressFilter ----------------------------
(***************************************************************************)
(* The allowed-address set of vz_net/src/filter.rs.  A filter is a value   *)
(* owned by one event loop, so this module gives its operations as         *)
(* operators on the dynamic part of that value (the HashMap from address   *)
(* to expiry instant); the static part never changes and is a constant.    *)
(***************************************************************************)
EXTENDS Integers

CONSTANTS
    Dest,        \* addresses as they are written in a frame or an answer
    Norm,        \* normalize_ip: a mapped IPv6 form goes to its IPv4 form
    StaticDest,  \* addresses a policy literal or CIDR block covers
    Name,        \* host names a guest may ask about
    AllowedName, \* the allow-listed ones
    MinTtl,      \* MIN_DNS_TTL
    MaxTtl       \* MAX_DNS_TTL

ASSUME NormAssumption ==
    /\ Norm \in [Dest -> Dest]
    /\ \A d \in Dest : Norm[Norm[d]] = Norm[d]

ASSUME PolicyAssumption ==
    /\ StaticDest \subseteq {Norm[d] : d \in Dest}
    /\ AllowedName \subseteq Name

ASSUME TtlAssumption ==
    /\ MinTtl \in Nat \ {0}
    /\ MaxTtl \in Nat
    /\ MinTtl <= MaxTtl

(***************************************************************************)
(* An instant is a positive number, so an expiry of 0 is never later than  *)
(* any instant: it stands for an address that is not in the map.           *)
(***************************************************************************)
NoEntry == 0

Grants == [Dest -> Nat]

\* EgressFilter::new: the dynamic set starts empty.
NewFilter == [d \in Dest |-> NoEntry]

MatchesHostname_Any(n) == TRUE

\* Exact match against the allow-listed names.
MatchesHostname(n) == n \in AllowedName

\* ttl.clamp(MIN_DNS_TTL, MAX_DNS_TTL)
ClampTtl(ttl) ==
    IF ttl < MinTtl THEN MinTtl ELSE IF ttl > MaxTtl THEN MaxTtl ELSE ttl

\* `retain`: entries that have expired at instant t leave the map.
Live(grants, t) ==
    [d \in Dest |-> IF grants[d] > t THEN grants[d] ELSE NoEntry]

Observed_Unnormalized(grants, D, ttl, t) ==
    LET expiry == t + ClampTtl(ttl)
    IN  Live([d \in Dest |-> IF d \in D /\ grants[d] < expiry
                             THEN expiry ELSE grants[d]], t)

\* Answers D (at least one) with this TTL, seen at instant t: each address
\* keeps the later of its expiry and the new one, then expired entries go.
Observed(grants, D, ttl, t) ==
    LET expiry   == t + ClampTtl(ttl)
        answered == {Norm[x] : x \in D}
    IN  Live([d \in Dest |-> IF d \in answered /\ grants[d] < expiry
                             THEN expiry ELSE grants[d]], t)

\* EgressFilter::observe_dns: an answer for any other name is ignored.
ObserveDns(grants, n, d, ttl, t) ==
    IF MatchesHostname(n) THEN Observed(grants, {d}, ttl, t) ELSE grants

\* The gate's `for ip in &ips { filter.observe_dns(...) }`, one instant for
\* all of them: the order of the calls does not matter.
ObserveEach(grants, n, D, ttl, t) ==
    IF MatchesHostname(n) /\ D # {} THEN Observed(grants, D, ttl, t) ELSE grants

\* EgressFilter::allows_ip: may the guest open a flow to d at instant t?
AllowsIp(grants, d, t) ==
    \/ Norm[d] \in StaticDest
    \/ grants[Norm[d]] > t
=============================================================================
