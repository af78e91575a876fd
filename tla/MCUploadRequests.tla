-------------------------- MODULE MCUploadRequests --------------------------
(* Small instances of UploadRequests. *)
EXTENDS UploadRequestsLifecycle, TLC

\* Every session was created for the one name.
OneSlot == [s \in Sessions |-> CHOOSE k \in Slots : TRUE]

Symmetric == Permutations(Requests) \cup Permutations(Digests)
=============================================================================
