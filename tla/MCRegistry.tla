---------------------------- MODULE MCRegistry -----------------------------
EXTENDS Registry, TLC
CONSTANTS t1, t2, m1, m2, m3, m4, llm, embedding
MCOwner == m1 :> t1 @@ m2 :> t1 @@ m3 :> t1 @@ m4 :> System
MCKind == m1 :> llm @@ m2 :> llm @@ m3 :> embedding @@ m4 :> llm
=============================================================================
