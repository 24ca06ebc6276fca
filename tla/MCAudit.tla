------------------------------ MODULE MCAudit -------------------------------
EXTENDS Audit, TLC
AuditSymmetry == Permutations(Writers)
=============================================================================
