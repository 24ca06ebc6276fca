----------------------------- MODULE MCIndexing -----------------------------
EXTENDS Indexing, TLC
WorkerSymmetry == Permutations(Workers)
=============================================================================
