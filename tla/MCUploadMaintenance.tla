------------------------ MODULE MCUploadMaintenance ------------------------
(* Small instances of UploadMaintenance and MemoryMaintenance. *)
EXTENDS MemoryMaintenance, UploadRequestsLifecycle, TLC

\* Every session was created for the one name.
OneSlot == [s \in Sessions |-> CHOOSE k \in Slots : TRUE]
=============================================================================
