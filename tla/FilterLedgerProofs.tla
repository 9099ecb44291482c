------------------------- MODULE FilterLedgerProofs -------------------------
(***************************************************************************)
(* The filter's map decides as its whole history would, for every policy,  *)
(* every bound on TTLs and every sequence of observations.                 *)
(***************************************************************************)
EXTENDS FilterLedger, TLAPS

\* The filter's operators first, by the lemmas that EgressGateProofs has too.

\* A clamped TTL is a number between the two bounds, so never zero.
LEMMA ClampBounds ==
    ASSUME NEW ttl \in Nat
    PROVE  /\ ClampTtl(ttl) \in Nat
           /\ MinTtl <= ClampTtl(ttl)
           /\ ClampTtl(ttl) <= MaxTtl
           /\ 0 < ClampTtl(ttl)
           /\ ttl <= MaxTtl => ttl <= ClampTtl(ttl)
BY TtlAssumption DEF ClampTtl

\* The entry of one address after an observation.
LEMMA ObservedEntry ==
    ASSUME NEW g \in Grants, NEW D \in SUBSET Dest, NEW ttl \in Nat, NEW t \in Nat,
           NEW a \in Dest
    PROVE  LET expiry == t + ClampTtl(ttl)
               hit    == a \in {Norm[x] : x \in D}
               e      == Observed(g, D, ttl, t)[a]
           IN  /\ e \in Nat
               /\ hit => e >= expiry
               /\ g[a] > t => e >= g[a]
               /\ e > t => e = g[a] \/ (hit /\ e = expiry)
<1> DEFINE expiry == t + ClampTtl(ttl)
           hit == a \in {Norm[x] : x \in D}
           raised == IF hit /\ g[a] < expiry THEN expiry ELSE g[a]
<1>1. g[a] \in Nat /\ expiry \in Nat /\ expiry > t
  BY ClampBounds DEF Grants
<1>2. raised \in Nat
  BY <1>1
<1>3. Observed(g, D, ttl, t)[a] = IF raised > t THEN raised ELSE 0
  BY DEF Observed, Live, NoEntry
<1> QED
  BY <1>1, <1>2, <1>3

\* An observation yields a filter again.
LEMMA ObservedType ==
    ASSUME NEW g \in Grants, NEW D \in SUBSET Dest, NEW ttl \in Nat, NEW t \in Nat
    PROVE  Observed(g, D, ttl, t) \in Grants
<1>1. \A a \in Dest : Observed(g, D, ttl, t)[a] \in Nat
  BY ObservedEntry
<1>2. Observed(g, D, ttl, t) = [a \in Dest |-> Observed(g, D, ttl, t)[a]]
  BY DEF Observed, Live
<1> QED
  BY <1>1, <1>2 DEF Grants

-----------------------------------------------------------------------------

\* Type correctness of the filter and its history.
THEOREM TypeCorrect == Spec => []TypeOK
<1>1. Init => TypeOK
  BY DEF Init, TypeOK, NewFilter, NoEntry, Grants
<1>2. TypeOK /\ [Next]_vars => TypeOK'
  <2> SUFFICES ASSUME TypeOK, [Next]_vars PROVE TypeOK'
    OBVIOUS
  <2> USE DEF TypeOK
  <2>1. ASSUME NEW n \in Name, NEW d \in Dest, NEW ttl \in Ttl, Observe(n, d, ttl)
        PROVE  TypeOK'
    <3>1. ttl \in Nat /\ {d} \in SUBSET Dest
      BY LedgerAssumption
    <3>2. Observed(grants, {d}, ttl, now) \in Grants
      BY <3>1, ObservedType
    <3>3. grants' \in Grants
      BY <2>1, <3>2 DEF Observe, ObserveDns
    <3>4. ledger' \in SUBSET Observation
      BY <2>1, <3>1 DEF Observe, Observation
    <3> QED
      BY <2>1, <3>3, <3>4 DEF Observe
  <2>2. CASE Tick
    BY <2>2 DEF Tick
  <2>3. CASE UNCHANGED vars
    BY <2>3 DEF vars
  <2> QED
    BY <2>1, <2>2, <2>3 DEF Next
<1> QED
  BY <1>1, <1>2, PTL DEF Spec

-----------------------------------------------------------------------------
Until(o) == o.at + ClampTtl(o.ttl)

\* An entry that has not expired is the expiry of some answer in the history,
\* and no answer still in force has a smaller entry.  AllowsIffInForce alone
\* is not inductive: it says nothing of how long an entry will last.
MapIsLedger ==
    /\ \A a \in Dest : grants[a] > now =>
          \E o \in ledger : Norm[o.dest] = a /\ Until(o) = grants[a]
    /\ \A o \in ledger : Until(o) > now => grants[Norm[o.dest]] >= Until(o)

LEMMA MapIsLedgerStep == TypeOK /\ MapIsLedger /\ [Next]_vars => MapIsLedger'
<1> SUFFICES ASSUME TypeOK, MapIsLedger, [Next]_vars PROVE MapIsLedger'
  OBVIOUS
<1> USE NormAssumption
<1>0. \A o \in ledger : Norm[o.dest] \in Dest /\ Until(o) \in Nat
  BY ClampBounds DEF TypeOK, Observation, Until
<1>1. ASSUME NEW n \in Name, NEW d \in Dest, NEW ttl \in Ttl, Observe(n, d, ttl)
      PROVE  MapIsLedger'
  <2>1. CASE ~MatchesHostname(n)
    BY <1>1, <2>1 DEF Observe, ObserveDns, MatchesHostname, MapIsLedger, Until
  <2>2. CASE MatchesHostname(n)
    <3> DEFINE new == [dest |-> d, ttl |-> ttl, at |-> now]
               g == Observed(grants, {d}, ttl, now)
    <3>1. ttl \in Nat /\ now \in Nat /\ grants \in Grants
      BY LedgerAssumption DEF TypeOK
    <3>2. /\ grants' = g /\ ledger' = ledger \union {new} /\ now' = now
      BY <1>1, <2>2 DEF Observe, ObserveDns, MatchesHostname
    <3>3. /\ new.dest = d /\ Until(new) = now + ClampTtl(ttl)
          /\ Until(new) \in Nat /\ Until(new) > now
      BY <3>1, ClampBounds DEF Until
    <3>4. ASSUME NEW a \in Dest
          PROVE  /\ g[a] \in Nat
                 /\ a = Norm[d] => g[a] >= Until(new)
                 /\ grants[a] > now => g[a] >= grants[a]
                 /\ g[a] > now => g[a] = grants[a] \/ (a = Norm[d] /\ g[a] = Until(new))
      <4>1. {d} \in SUBSET Dest /\ (a \in {Norm[x] : x \in {d}} <=> a = Norm[d])
        OBVIOUS
      <4>2. LET e == Observed(grants, {d}, ttl, now)[a]
            IN  /\ e \in Nat
                /\ a = Norm[d] => e >= now + ClampTtl(ttl)
                /\ grants[a] > now => e >= grants[a]
                /\ e > now => e = grants[a] \/ (a = Norm[d] /\ e = now + ClampTtl(ttl))
        BY <3>1, <4>1, ObservedEntry
      <4> QED
        BY <3>3, <4>2
    <3> HIDE DEF g, new
    <3>5. ASSUME NEW a \in Dest, g[a] > now
          PROVE  \E o \in ledger' : Norm[o.dest] = a /\ Until(o) = g[a]
      <4>1. CASE g[a] = grants[a]
        BY <3>2, <3>5, <4>1 DEF MapIsLedger
      <4>2. CASE a = Norm[d] /\ g[a] = Until(new)
        BY <3>2, <3>3, <4>2
      <4> QED
        BY <3>4, <3>5, <4>1, <4>2
    <3>6. ASSUME NEW o \in ledger', Until(o) > now
          PROVE  g[Norm[o.dest]] >= Until(o)
      <4>1. CASE o = new
        BY <3>3, <3>4, <4>1
      <4>2. CASE o \in ledger
        <5>1. grants[Norm[o.dest]] >= Until(o)
          BY <3>6, <4>2 DEF MapIsLedger
        <5>2. grants[Norm[o.dest]] \in Nat
          BY <3>1, <1>0, <4>2 DEF Grants
        <5> QED
          BY <1>0, <3>1, <3>4, <3>6, <4>2, <5>1, <5>2
      <4> QED
        BY <3>2, <4>1, <4>2
    <3>7. \A o \in ledger' : Until(o)' = Until(o)
      BY DEF Until
    <3> QED
      BY <3>2, <3>5, <3>6, <3>7 DEF MapIsLedger, Until
  <2> QED
    BY <2>1, <2>2
<1>2. CASE Tick
  BY <1>0, <1>2 DEF Tick, MapIsLedger, Until, TypeOK, Grants
<1>3. CASE UNCHANGED vars
  BY <1>3 DEF vars, MapIsLedger, Until
<1> QED
  BY <1>1, <1>2, <1>3 DEF Next

LEMMA MapIsLedgerAlways == Spec => []MapIsLedger
<1>1. Init => MapIsLedger
  BY NormAssumption DEF Init, MapIsLedger, NewFilter, NoEntry
<1> QED
  BY <1>1, TypeCorrect, MapIsLedgerStep, PTL DEF Spec

\* The filter's decision is the history's: a destination is allowed iff the
\* policy covers it or an answer for an allow-listed name is still in force.
THEOREM DecidesAsHistory == Spec => []AllowsIffInForce
<1>1. TypeOK /\ MapIsLedger => AllowsIffInForce
  <2> SUFFICES ASSUME TypeOK, MapIsLedger, NEW d \in Dest
               PROVE  AllowsIp(grants, d, now) <=> Norm[d] \in StaticDest \/ InForce(d)
    BY DEF AllowsIffInForce
  <2>1. Norm[d] \in Dest
    BY NormAssumption
  <2>2. grants[Norm[d]] > now => InForce(d)
    BY <2>1 DEF MapIsLedger, InForce, Until
  <2>3. InForce(d) => grants[Norm[d]] > now
    <3> SUFFICES ASSUME NEW o \in ledger, Norm[o.dest] = Norm[d], Until(o) > now
                 PROVE  grants[Norm[d]] > now
      BY DEF InForce, Until
    <3>1. grants[Norm[d]] >= Until(o)
      BY DEF MapIsLedger
    <3>2. grants[Norm[d]] \in Nat /\ Until(o) \in Nat /\ now \in Nat
      BY <2>1, ClampBounds DEF TypeOK, Grants, Observation, Until
    <3> QED
      BY <3>1, <3>2
  <2> QED
    BY <2>2, <2>3 DEF AllowsIp
<1> QED
  BY <1>1, TypeCorrect, MapIsLedgerAlways, PTL

\* No admission outlives the upper TTL bound.
THEOREM AdmissionsExpire == Spec => []GrantsExpire
<1>1. Init => GrantsExpire
  <2> SUFFICES ASSUME Init, NEW d \in Dest PROVE grants[d] <= now + MaxTtl
    BY DEF GrantsExpire
  <2>1. grants[d] = 0 /\ now = 1 /\ MaxTtl \in Nat
    BY TtlAssumption DEF Init, NewFilter, NoEntry
  <2> QED
    BY <2>1
<1>2. TypeOK /\ GrantsExpire /\ [Next]_vars => GrantsExpire'
  <2> SUFFICES ASSUME TypeOK, GrantsExpire, [Next]_vars PROVE GrantsExpire'
    OBVIOUS
  <2>1. ASSUME NEW n \in Name, NEW d \in Dest, NEW ttl \in Ttl, Observe(n, d, ttl),
               NEW a \in Dest
        PROVE  grants'[a] <= now' + MaxTtl
    <3>1. /\ ttl \in Nat /\ now \in Nat /\ grants \in Grants /\ grants[a] \in Nat
          /\ {d} \in SUBSET Dest
      BY LedgerAssumption DEF TypeOK, Grants
    <3>2. LET e == Observed(grants, {d}, ttl, now)[a]
          IN  e \in Nat /\ (e > now => e = grants[a] \/ e = now + ClampTtl(ttl))
      BY <3>1, ObservedEntry
    <3>3. Observed(grants, {d}, ttl, now)[a] <= now + MaxTtl
      BY <3>1, <3>2, ClampBounds, TtlAssumption DEF GrantsExpire
    <3> QED
      BY <2>1, <3>3 DEF Observe, ObserveDns, GrantsExpire
  <2>2. CASE Tick
    BY <2>2, TtlAssumption DEF Tick, GrantsExpire, TypeOK, Grants
  <2>3. CASE UNCHANGED vars
    BY <2>3 DEF vars, GrantsExpire
  <2> QED
    BY <2>1, <2>2, <2>3 DEF Next, GrantsExpire
<1> QED
  BY <1>1, <1>2, TypeCorrect, PTL DEF Spec

\* An admission that is still running is never shortened.
THEOREM AdmissionsHold == Spec => NeverRetracted
<1>1. TypeOK /\ [Next]_vars =>
        [\A d \in Dest : grants[d] > now' => grants'[d] >= grants[d]]_vars
  <2> SUFFICES ASSUME TypeOK, Next, NEW a \in Dest, grants[a] > now'
               PROVE  grants'[a] >= grants[a]
    OBVIOUS
  <2>1. grants[a] \in Nat /\ now \in Nat
    BY DEF TypeOK, Grants
  <2>2. ASSUME NEW n \in Name, NEW d \in Dest, NEW ttl \in Ttl, Observe(n, d, ttl)
        PROVE  grants'[a] >= grants[a]
    <3>1. ttl \in Nat
      BY LedgerAssumption
    <3>2. Observed(grants, {d}, ttl, now)[a] >= grants[a]
      BY <2>1, <2>2, <3>1, ObservedEntry DEF TypeOK, Observe
    <3> QED
      BY <2>1, <2>2, <3>2 DEF Observe, ObserveDns
  <2>3. CASE Tick
    BY <2>1, <2>3 DEF Tick
  <2> QED
    BY <2>2, <2>3 DEF Next
<1> QED
  BY <1>1, TypeCorrect, PTL DEF Spec, NeverRetracted
=============================================================================
