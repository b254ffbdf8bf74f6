--------------------------- MODULE MCEmbeddingRun ---------------------------
EXTENDS EmbeddingRun
NoResident == [p \in {} |-> None]
Symmetric == Permutations(Ids) \cup Permutations(Procs) \cup Permutations(Models)
IdSymmetry == Permutations(Ids)
=============================================================================
