------------------------- MODULE UploadMaintenance -------------------------
(***************************************************************************)
(* The upload part of the maintenance loop of internal/maintenance/loop.go *)
(* beside the request handlers of UploadRequests, on PostgreSQL.  Every    *)
(* API instance may run a loop (a worker) with its own owner token; a      *)
(* session is claimed under an expiring lease, which no handler looks at   *)
(* and which work on the session may outlast.  A job is the local state of *)
(* processUpload for one claimed session: the claim's snapshot of the row, *)
(* the call to make next, and in the end what finishUpload is called with. *)
(*                                                                         *)
(* Time is only what it enables: a lease may lapse, and a session may be   *)
(* stale, whenever the clock could have moved that far; the backoff of     *)
(* maintenance_not_before is part of the delay before the next claim.      *)
(***************************************************************************)
EXTENDS UploadRequests

CONSTANTS Workers,    \* API instances, each of which may run a maintenance loop
          Extra       \* bound: handlers that run only where no loop does

ASSUME BoundAssumption == Extra \subseteq Requests

VARIABLES loops,      \* workers with ASTERIA_MAINTENANCE_ENABLED
          leased,     \* sessions with maintenance_lease_until > now
          job,        \* worker -> session -> local state of processUpload
          settled     \* no call of a loop fails and no instance crashes any more

mvars == <<loops, leased, job, settled>>
allvars == <<vars, mvars>>

\* A claim that has not been made; a job in progress has the same fields.
NoJob == [pc      |-> "idle",     \* the next call: "cleanup", "stat", "delete", "mark", ...
          seen    |-> "created",  \* upload.Status
          failure |-> "", digest |-> NoDigest,
          status  |-> "created",  \* finishUpload(status, complete, err)
          complete |-> FALSE, error |-> FALSE]

MaintenanceInit ==
    /\ Init
    /\ loops \in SUBSET Workers
    /\ leased = {}
    /\ job = [w \in Workers |-> [s \in Sessions |-> NoJob]]
    /\ settled = (loops = {})

SetJob(w, s, j) == job' = [job EXCEPT ![w][s] = j]

Fault == ~settled /\ UNCHANGED settled

NoFault == UNCHANGED settled

\* The next call is finishUpload(claim, status, complete, err).
ToFinish(w, s, status, complete, error) ==
    SetJob(w, s, [NoJob EXCEPT !.pc = "finish", !.status = status,
                               !.complete = complete, !.error = error])

-----------------------------------------------------------------------------
(* Claims.                                                                 *)

\* Mutant: only completions that hang are looked for.
DueStaleOnly(s) == row[s].status \in {"completing", "object_completed"}

\* Mutant: an object that is complete but not committed is forgotten.
DueCompletingOnly(s) ==
    \/ row[s].status \in {"created", "uploading"} /\ elapsed[s]
    \/ row[s].status = "completing"
    \/ row[s].cleanup = "pending"

Due(s) ==
    \/ row[s].status \in {"created", "uploading"} /\ elapsed[s]
    \/ row[s].status \in {"completing", "object_completed"}
    \/ row[s].cleanup = "pending"
    \/ row[s].error

(* One session of ClaimUploadsForMaintenance, and the branch processUpload *)
(* takes on the snapshot.                                                  *)
Claim(w, s) ==
    /\ w \in loops /\ job[w][s].pc = "idle"
    /\ s \notin leased /\ Due(s)
    /\ leased' = leased \cup {s}
    /\ LET pending == row[s].cleanup = "pending"
           stale == ~pending /\ row[s].status \in {"completing", "object_completed"}
           expire == ~pending /\ row[s].status \in {"created", "uploading"}
       IN  SetJob(w, s, [NoJob EXCEPT
                           !.pc = IF stale THEN "stat" ELSE "cleanup",
                           !.seen = row[s].status, !.failure = row[s].failure,
                           !.digest = row[s].digest,
                           !.status = IF expire THEN "expired" ELSE row[s].status])
    /\ UNCHANGED <<vars, loops, settled>>

\* Time passes the end of a lease, whether its owner is done or not.
Lapse(s) ==
    /\ s \in leased
    /\ leased' = leased \ {s}
    /\ UNCHANGED <<vars, loops, job, settled>>

Crash(w) ==
    /\ \E s \in Sessions : job[w][s].pc # "idle"
    /\ job' = [job EXCEPT ![w] = [s \in Sessions |-> NoJob]]
    /\ Fault
    /\ UNCHANGED <<vars, loops, leased>>

-----------------------------------------------------------------------------
(* processUpload.  A call that fails with a storage or database error is a *)
(* fault; a failed storage call may have been applied.                     *)

\* Mutant: the object is deleted whatever became of the session.
CleanupDeletes(w, s) ==
    LET j == job[w][s]
    IN  /\ j.pc = "cleanup"
        /\ DeleteObject(s) /\ NoFault /\ ToFinish(w, s, j.status, TRUE, FALSE)
        /\ UNCHANGED <<db, elapsed, namespace, req, loops, leased>>

\* cleanupUpload, NotFound counting as success.
Cleanup(w, s) ==
    LET j == job[w][s]
        Work == IF j.seen = "failed" /\ j.failure \in HasObject
                THEN DeleteObject(s) ELSE AbortMultipart(s)
    IN  /\ j.pc = "cleanup"
        /\ \/ Work /\ NoFault /\ ToFinish(w, s, j.status, TRUE, FALSE)
           \/ /\ Work \/ UNCHANGED storage
              /\ Fault /\ ToFinish(w, s, j.status, FALSE, TRUE)
        /\ UNCHANGED <<db, elapsed, namespace, req, loops, leased>>

WorkerStat(w, s) ==
    LET j == job[w][s]
    IN  /\ j.pc = "stat"
        /\ \/ /\ object[s] = "absent"
              /\ SetJob(w, s, [j EXCEPT !.pc = "cleanup", !.status = "failed"])
              /\ NoFault
           \/ /\ object[s] = "wrong_size"
              /\ SetJob(w, s, [j EXCEPT !.pc = "delete"])
              /\ NoFault
           \/ /\ object[s] \notin {"absent", "wrong_size"}
              /\ SetJob(w, s, [j EXCEPT !.pc = IF j.seen = "completing"
                                               THEN "mark" ELSE "commit"])
              /\ NoFault
           \/ ToFinish(w, s, j.seen, TRUE, TRUE) /\ Fault
        /\ UNCHANGED <<vars, loops, leased>>

\* DeleteObject after a size mismatch or a rejected commit.
WorkerDelete(w, s) ==
    /\ job[w][s].pc = "delete"
    /\ \/ DeleteObject(s) /\ NoFault /\ ToFinish(w, s, "failed", TRUE, FALSE)
       \/ /\ DeleteObject(s) \/ UNCHANGED storage
          /\ Fault /\ ToFinish(w, s, "failed", FALSE, TRUE)
    /\ UNCHANGED <<db, elapsed, namespace, req, loops, leased>>

WorkerMark(w, s) ==
    LET j == job[w][s]
    IN  /\ j.pc = "mark"
        /\ \/ /\ MarkObjectCompleted(s, "ok")
              /\ SetJob(w, s, [j EXCEPT !.pc = "commit", !.seen = "object_completed"])
              /\ NoFault
           \/ /\ MarkObjectCompleted(s, "invalid_state")
              /\ ToFinish(w, s, j.seen, TRUE, TRUE)
              /\ NoFault
           \/ Keep /\ ToFinish(w, s, j.seen, TRUE, TRUE) /\ Fault
        /\ UNCHANGED <<elapsed, namespace, storage, req, loops, leased>>

WorkerCommit(w, s) ==
    LET j == job[w][s]
    IN  /\ j.pc = "commit"
        /\ \/ \E out \in CommitOutcome :
                 /\ CommitUpload(s, j.digest, TRUE, out)
                 /\ \/ /\ out \in {"committed", "replayed"}
                       /\ ToFinish(w, s, "committed", TRUE, FALSE)
                    \/ /\ out \in {"name_conflict", "not_found"}
                       /\ SetJob(w, s, [j EXCEPT !.pc = "delete"])
                    \/ /\ out \in {"conflict", "invalid_state", "internal"}
                       /\ ToFinish(w, s, j.seen, TRUE, TRUE)
                 /\ NoFault
           \/ Keep /\ ToFinish(w, s, j.seen, TRUE, TRUE) /\ Fault
        /\ UNCHANGED <<elapsed, namespace, storage, req, loops, leased>>

(* FinishUploadMaintenance.  The statement binds eight arguments and names *)
(* seven of them: PostgreSQL cannot type the unnamed $3 and refuses it.    *)
(* Whatever the arguments, the row keeps its status, owner and lease, and  *)
(* stays due.                                                              *)
Finish(w, s) ==
    /\ job[w][s].pc = "finish"
    /\ SetJob(w, s, NoJob)
    /\ UNCHANGED <<vars, loops, leased, settled>>

-----------------------------------------------------------------------------
\* The storage and database calls between a claim and finishUpload.
Call(w, s) ==
    \/ Cleanup(w, s) \/ WorkerStat(w, s) \/ WorkerDelete(w, s)
    \/ WorkerMark(w, s) \/ WorkerCommit(w, s)

Work(w, s) == Call(w, s) \/ Finish(w, s)

\* A request handler runs, whoever has claimed its session.
HandlerStep(r) ==
    /\ r \in Extra => loops = {}
    /\ RequestStep(r)
    /\ UNCHANGED mvars

Surroundings ==
    /\ (\E s \in Sessions : Elapse(s)) \/ NamespaceStep
    /\ UNCHANGED mvars

\* Storage, database and instances work from here on.
Settle == ~settled /\ settled' = TRUE /\ UNCHANGED <<vars, loops, leased, job>>

MaintenanceNext ==
    \/ \E r \in Requests : HandlerStep(r)
    \/ \E w \in Workers, s \in Sessions : Claim(w, s) \/ Work(w, s)
    \/ \E s \in Sessions : Lapse(s)
    \/ \E w \in Workers : Crash(w)
    \/ Surroundings \/ Settle

MaintenanceSpec == MaintenanceInit /\ [][MaintenanceNext]_allvars

\* A loop that was started runs on (Start), a lease ends by the clock, and faults
\* end at last.  Nothing is assumed of the handlers.
Fairness ==
    /\ \A w \in Workers, s \in Sessions : WF_allvars(Work(w, s))
    /\ \A s \in Sessions : WF_allvars(\E w \in Workers : Claim(w, s))
    /\ \A s \in Sessions : WF_allvars(Lapse(s))
    /\ WF_allvars(Settle)

FairMaintenance == MaintenanceSpec /\ Fairness

-----------------------------------------------------------------------------
(* Properties.                                                             *)

\* Where no loop runs, no action deletes or replaces the bytes of a committed
\* file: the object HEAD showed with the declared size and checksum stays.
VerifiedFileKept == loops = {} => CommittedFileHasObject

\* Where loops run, the object of a committed file is there with the declared
\* size (the loop does not compare the checksum), whatever a loop that saw
\* another status, or whose lease is long over, deletes.
CommittedObjectPresent ==
    \A s \in Sessions :
        row[s].status = "committed" \/ file[s] # "none"
        => object[s] \in {"good", "wrong_checksum"}

\* Requests and loops keep terminal statuses, although a loop acts on the
\* status its claim saw and goes on after its lease was taken over.
TerminalKept ==
    [][\A s \in Sessions : row[s].status \in Terminal
                             => row'[s].status = row[s].status]_allvars

Stored(s) ==
    /\ row[s].status \in {"completing", "object_completed"}
    /\ object[s] \in {"good", "wrong_checksum"}

\* A completion that was cut short after its object was stored is taken to an
\* end by a loop, though FinishUploadMaintenance records nothing.
StoredEnds ==
    \A s \in Sessions : loops # {} /\ Stored(s) ~> row[s].status \in Terminal

\* What the cleanup of a session has to remove from storage.
Leftover(s) ==
    IF row[s].status = "failed" /\ row[s].failure \in HasObject
    THEN object[s] # "absent" ELSE multipart[s] = "open"

\* The leftovers of every session that is due (inactive, hanging in its
\* completion, or ended with its cleanup pending) are removed from storage by
\* a loop, though the row never says so.
LeftoversRemoved == \A s \in Sessions : loops # {} /\ Due(s) ~> ~Leftover(s)

\* An inactive session is expired where a loop runs.  FALSE: the loop aborts
\* its multipart upload, and the statement that would record EXPIRED fails.
InactiveExpires ==
    \A s \in Sessions :
        /\ loops # {} /\ elapsed[s]
        /\ row[s].status \in {"created", "uploading"}
        ~> row[s].status \notin {"created", "uploading"}
=============================================================================
