---------------------- MODULE UploadRequestsLifecycle ----------------------
\* The upload rows of UploadRequests as the session they stand for.
EXTENDS UploadRequests

StageOf(status) ==
    CASE status \in {"created", "uploading"} -> "open"
      [] status = "completing" -> "frozen"
      [] status = "object_completed" -> "stored"
      [] status \in {"aborted", "expired"} -> "cancelled"
      [] status = "failed" -> "refused"
      [] status = "committed" -> "committed"
Stage == [s \in Sessions |-> StageOf(row[s].status)]
Frozen == [s \in Sessions |-> row[s].digest]
Made == {s \in Sessions : file[s] # "none"}
Dirty == {s \in Sessions : row[s].cleanup = "pending"}

\* No step of a request is a claim, and on PostgreSQL none is ever settled.
Unclaimed == [s \in Sessions |-> "none"]

Lifecycle == INSTANCE UploadLifecycle
               WITH stage <- Stage, frozen <- Frozen, made <- Made, dirty <- Dirty,
                    claimed <- Unclaimed

\* Completions, cancellations, expiries and part signatures of one session, cut
\* short and interleaved at every transaction and storage call, add up to one life
\* of UploadLifecycle: its list is frozen once, its file appears with the commit
\* and nothing that comes late moves a session that ended, loops included.
ImplementsUploadLifecycle == Lifecycle!LifecycleSpec
=============================================================================
