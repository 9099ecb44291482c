---------------------------- MODULE EgressGateMC ----------------------------
EXTENDS EgressGate

CONSTANTS a4, lo, loMapped, listed, other, s1, s2, s3, p1, p2, p3, e1, q1, q2

\* A destination the policy covers, and a host-local one in both of its forms,
\* which lookups return.
MCDest == {a4, lo, loMapped}
MCNorm == [d \in MCDest |-> IF d = loMapped THEN lo ELSE d]
MCStaticDest == {a4}
MCHostLocal == {lo}
MCName == {listed, other}
MCAllowedName == {listed}
MCResolution == {{lo, loMapped}}

Entries == DOMAIN flows \union DOMAIN udpFlows \union DOMAIN icmpFlows

NothingAsked == dnsRx = <<>> /\ inflightDns = 0 /\ learned = {}

(***************************************************************************)
(* A bound on the guest, and on nothing else: in one behaviour it either   *)
(* fills the tables with flows to the destination of the policy, or it     *)
(* asks, and has one flow at a time to what the answers name, from one     *)
(* TCP port.                                                               *)
(***************************************************************************)
GuestOpens == Cardinality(Entries') > Cardinality(Entries)
GuestAsks  == Len(dnsRx') > Len(dnsRx)

GuestBound ==
    /\ GuestOpens => \/ NothingAsked
                     \/ /\ Entries = {}
                        /\ a4 \notin Relayed'
                        /\ {k.port : k \in DOMAIN flowKeys'} \subseteq {p1}
    /\ GuestAsks => a4 \notin Relayed
=============================================================================
