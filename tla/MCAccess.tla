----------------------------- MODULE MCAccess ------------------------------
EXTENDS Access, TLC
CONSTANTS t1, t2, u1, u2
MCHome == [k \in Kbs |-> t1]
MCFounder == [t \in Tenants |-> IF t = t1 THEN u1 ELSE u2]
Symmetry == Permutations(Sessions)
=============================================================================
