------------------------ MODULE MCRecycleMaintenance ------------------------
\* Instances of RecycleMaintenance for TLC.
EXTENDS RecycleMaintenance, TLC

\* Node ids other than the root's, and workers, are interchangeable.
Symmetric == Permutations(Nodes \ {Root}) \cup Permutations(Workers)
=============================================================================
