-------------------------- MODULE MCGovernanceApi --------------------------
\* Instances of GovernanceApi for TLC.
EXTENDS GovernanceApi, TLC

CONSTANTS root, dir

\* The tenant was bootstrapped with owners.
Owners == [p \in Seeds |-> "owner"]

\* A directory below the root.
Tree == [n \in Nodes |-> IF n = root THEN None ELSE root]
=============================================================================
