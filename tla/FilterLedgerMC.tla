--------------------------- MODULE FilterLedgerMC ---------------------------
EXTENDS FilterLedger

CONSTANTS a4, aMapped, b4, s4, listed, other

MCDest == {a4, aMapped, b4, s4}
MCNorm == [d \in MCDest |-> IF d = aMapped THEN a4 ELSE d]
MCStaticDest == {s4}
MCName == {listed, other}
MCAllowedName == {listed}
\* Below the lower bound, between the bounds, and beyond the upper bound.
MCTtl == {0, 2, 9}
=============================================================================
