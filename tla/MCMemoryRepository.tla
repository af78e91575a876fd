------------------------- MODULE MCMemoryRepository -------------------------
\* Instances of MemoryRepository for TLC.
EXTENDS MemoryRepository, TLC

\* Ids, names and part lists are interchangeable.
Symmetric == Permutations(Nodes \ {Root}) \cup Permutations(Names) \cup Permutations(Digests)
=============================================================================
