---------------------------- MODULE FilterLedger ----------------------------
(***************************************************************************)
(* The egress filter as its caller uses it: observations of DNS answers    *)
(* with any name, address and TTL, at any instants, in any order.  The     *)
(* ledger keeps every observation for ever; it is what the filter's map,   *)
(* which overwrites entries and drops expired ones, has to stand for.      *)
(***************************************************************************)
EXTENDS EgressFilter, FiniteSets

CONSTANTS
    Ttl,         \* TTLs an answer may claim
    MaxNow,      \* bound on the clock
    MaxLedger    \* bound on the length of the history

ASSUME LedgerAssumption ==
    /\ Ttl \subseteq Nat
    /\ MaxNow \in Nat
    /\ MaxLedger \in Nat

VARIABLES
    now,         \* the monotonic clock
    grants,      \* EgressFilter::dynamic
    ledger       \* history: every answer seen for an allow-listed name

vars == <<now, grants, ledger>>

Observation == [dest : Dest, ttl : Nat, at : Nat]

TypeOK ==
    /\ now \in Nat \ {0}
    /\ grants \in Grants
    /\ ledger \in SUBSET Observation

Init ==
    /\ now = 1
    /\ grants = NewFilter
    /\ ledger = {}

Observe(n, d, ttl) ==
    /\ n \in AllowedName => Cardinality(ledger) < MaxLedger
    /\ grants' = ObserveDns(grants, n, d, ttl, now)
    /\ ledger' = IF n \in AllowedName
                 THEN ledger \union {[dest |-> d, ttl |-> ttl, at |-> now]}
                 ELSE ledger
    /\ UNCHANGED now

Tick ==
    /\ now < MaxNow
    /\ now' = now + 1
    /\ UNCHANGED <<grants, ledger>>

Next ==
    \/ \E n \in Name, d \in Dest, ttl \in Ttl : Observe(n, d, ttl)
    \/ Tick

Spec == Init /\ [][Next]_vars

-----------------------------------------------------------------------------
\* An observation of address d, in any of its forms, is still in force.
InForce(d) ==
    \E o \in ledger : Norm[o.dest] = Norm[d] /\ o.at + ClampTtl(o.ttl) > now

\* The map decides exactly as the whole history of answers would: a
\* destination is allowed iff the policy covers it or some answer for an
\* allow-listed name is within its clamped TTL.  A short answer that retracts
\* a longer one, an expired entry that lingers, a mapped address counted as
\* another one, or a collection that drops a live entry would break this.
AllowsIffInForce ==
    \A d \in Dest : AllowsIp(grants, d, now) <=> (Norm[d] \in StaticDest \/ InForce(d))

\* No answer, whatever TTL it claims, admits an address for longer than the
\* upper bound from now on (filter.rs, MAX_DNS_TTL).
GrantsExpire == \A d \in Dest : grants[d] <= now + MaxTtl

\* An admission that is still running is never shortened: an observation may
\* only push the expiry of any address further out.
NeverRetracted ==
    [][\A d \in Dest : grants[d] > now' => grants'[d] >= grants[d]]_vars

=============================================================================
