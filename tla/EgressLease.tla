---------------------------- MODULE EgressLease ----------------------------
(***************************************************************************)
(* What the egress gate promises, without its loop, its threads and its    *)
(* tables: an address may be reached while the policy lists it or while a  *)
(* lease on it runs, a lease is given only for what a lookup has returned, *)
(* and leases run out by themselves.  EgressGate implements this.          *)
(***************************************************************************)
EXTENDS Integers

CONSTANTS
    Dest, Norm, StaticDest,   \* as in EgressFilter
    HostLocal,                \* forms of a destination the gate never serves
    LeaseTime                 \* seconds an answer is good for

VARIABLES
    known,   \* addresses that lookups of allow-listed names have returned
    lease,   \* seconds left, per normal form of an address
    open     \* destinations with a flow

vars == <<known, lease, open>>

Init ==
    /\ known = {}
    /\ lease = [d \in Dest |-> 0]
    /\ open = {}

Admitted(d) == d \notin HostLocal /\ (Norm[d] \in StaticDest \/ lease[Norm[d]] > 0)

Resolve(ips) ==
    /\ known' = known \union ips
    /\ UNCHANGED <<lease, open>>

\* An answer renews the leases of its addresses and shortens none.
Grant(ips) ==
    /\ ips \subseteq known \ HostLocal
    /\ lease' = [d \in Dest |-> IF d \in {Norm[x] : x \in ips} /\ lease[d] < LeaseTime
                                THEN LeaseTime ELSE lease[d]]
    /\ UNCHANGED <<known, open>>

Open(d) ==
    /\ Admitted(d)
    /\ open' = open \union {d}
    /\ UNCHANGED <<known, lease>>

Close(ds) ==
    /\ open' = open \ ds
    /\ UNCHANGED <<known, lease>>

Second ==
    /\ lease' = [d \in Dest |-> IF lease[d] > 0 THEN lease[d] - 1 ELSE 0]
    /\ UNCHANGED <<known, open>>

Next ==
    \/ \E ips \in SUBSET Dest : Resolve(ips) \/ Grant(ips) \/ Close(ips)
    \/ \E d \in Dest : Open(d)
    \/ Second

Spec == Init /\ [][Next]_vars
=============================================================================
