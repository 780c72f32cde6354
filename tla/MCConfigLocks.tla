---------------------------- MODULE MCConfigLocks ----------------------------
EXTENDS ConfigLocks, TLC
CONSTANTS t1, t2, t3, p1, p2
MCHome == [t \in {t1, t2, t3} |-> IF t = t3 THEN p2 ELSE p1]
Symmetry == Permutations({t1, t2})
=============================================================================
