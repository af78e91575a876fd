------------------------ MODULE MCStagingController ------------------------
\* Instances of StagingController for TLC.
EXTENDS StagingController, TLC

\* Versions, run identities and calls are interchangeable.
Symmetric == Permutations(Versions) \cup Permutations(Runs) \cup Permutations(Calls)
=============================================================================
