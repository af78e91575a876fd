--------------------------- MODULE UploadRequests ---------------------------
(***************************************************************************)
(* The upload session protocol as the API requests run it: CompleteUpload, *)
(* AbortUpload and SignUploadPart of internal/drive/service.go over the    *)
(* row transactions of internal/postgres/upload.go and the object storage. *)
(*                                                                         *)
(* One action per database transaction and per storage call.  A request    *)
(* may stop after any of them (Return): a crash, a cancelled context and   *)
(* a dependency error on which the handler returns all look the same.      *)
(* CreateUpload has run: a session starts with its row 'created' and its   *)
(* multipart upload open.                                                  *)
(***************************************************************************)
CONSTANTS Sessions,   \* upload sessions
          Slots,      \* (parent directory, normalized name) pairs
          Target,     \* the slot each session was created for
          Requests,   \* request handlers that may run at the same time
          Digests,    \* digests of the part lists clients complete with
          NoDigest,   \* completion_digest = ''
          NoSession   \* session of a handler that runs nothing

ASSUME TargetAssumption == Target \in [Sessions -> Slots]
ASSUME NoDigestAssumption == NoDigest \notin Digests
ASSUME NoSessionAssumption == NoSession \notin Sessions

VARIABLES row,        \* upload_session rows
          elapsed,    \* sessions whose expires_at has passed
          parent,     \* slot -> its directory is active
          other,      \* slot -> another active item has the name
          file,       \* the node, version and blob a session committed
          multipart,  \* multipart upload of a session in storage
          object,     \* object under the session's key in storage
          req         \* the request handlers

db == <<row, file>>
namespace == <<parent, other>>
storage == <<multipart, object>>
vars == <<row, elapsed, parent, other, file, multipart, object, req>>

Status == {"created", "uploading", "completing", "object_completed",
           "committed", "aborted", "expired", "failed"}

Terminal == {"committed", "aborted", "expired", "failed"}

\* Failure codes after which an object may be left under the key.
HasObject == {"size_mismatch", "checksum_mismatch", "parent_unavailable",
              "name_conflict"}

FailureCode == HasObject \cup {"", "storage_rejected"}

\* What a completed multipart upload may hold.
Content == {"good", "wrong_size", "wrong_checksum"}

Row == [status  : Status,
        digest  : Digests \cup {NoDigest},
        failure : FailureCode,
        cleanup : {"none", "pending", "complete"},
        error   : BOOLEAN]     \* maintenance_error_code <> ''

\* Where a handler is; "idle" and "acked" run nothing, "acked" is a
\* CompleteUpload that answered with the committed file.
Waiting == {"idle", "acked"}

Pc == Waiting \cup
      {"begin", "replay", "complete", "stat", "fail", "mark", "commit",
       "delete", "abort_multipart", "mark_clean", "abort", "read",
       "mark_uploading", "expire", "expire_multipart"}

Req == [pc      : Pc,
        session : Sessions \cup {NoSession},
        digest  : Digests \cup {NoDigest},
        late    : BOOLEAN,     \* now >= expires_at when the handler read the clock
        resumed : BOOLEAN,     \* BeginComplete returned 'object_completed'
        result  : {"ok", "invalid_request", "not_found", "unavailable"},
        code    : FailureCode]

TypeOK ==
    /\ row \in [Sessions -> Row]
    /\ elapsed \in [Sessions -> BOOLEAN]
    /\ parent \in [Slots -> BOOLEAN]
    /\ other \in [Slots -> BOOLEAN]
    /\ file \in [Sessions -> {"none", "listed", "elsewhere"}]
    /\ multipart \in [Sessions -> {"open", "gone"}]
    /\ object \in [Sessions -> Content \cup {"absent"}]
    /\ req \in [Requests -> Req]

Handler(pc, s, d, late) ==
    [pc |-> pc, session |-> s, digest |-> d, late |-> late,
     resumed |-> FALSE, result |-> "ok", code |-> ""]

Idle == Handler("idle", NoSession, NoDigest, FALSE)

NewRow == [status |-> "created", digest |-> NoDigest, failure |-> "",
           cleanup |-> "none", error |-> FALSE]

Init ==
    /\ row = [s \in Sessions |-> NewRow]
    /\ elapsed = [s \in Sessions |-> FALSE]
    /\ parent = [k \in Slots |-> TRUE]
    /\ other = [k \in Slots |-> FALSE]
    /\ file = [s \in Sessions |-> "none"]
    /\ multipart = [s \in Sessions |-> "open"]
    /\ object = [s \in Sessions |-> "absent"]
    /\ req = [r \in Requests |-> Idle]

-----------------------------------------------------------------------------
(* Row transactions.  Each holds the row lock (CommitUpload the tenant's   *)
(* namespace lock as well), so each is one step; `out' names the result.   *)

NameExists(k) ==
    other[k] \/ \E s \in Sessions : Target[s] = k /\ file[s] = "listed"

SetRow(s, r) == row' = [row EXCEPT ![s] = r]

Keep == UNCHANGED db

BeginComplete(s, d, late, out) ==
    \/ /\ out = "conflict"
       /\ row[s].digest \notin {NoDigest, d}
       /\ Keep
    \/ /\ out = "existing"
       /\ row[s].digest \in {NoDigest, d}
       /\ row[s].status \in {"committed", "object_completed", "completing"}
       /\ Keep
    \/ /\ out = "invalid_state"
       /\ row[s].digest \in {NoDigest, d}
       /\ \/ row[s].status \in {"aborted", "expired", "failed"}
          \/ row[s].status \in {"created", "uploading"} /\ late
       /\ Keep
    \/ /\ out = "begun"
       /\ row[s].digest \in {NoDigest, d}
       /\ row[s].status \in {"created", "uploading"} /\ ~late
       /\ SetRow(s, [row[s] EXCEPT !.status = "completing", !.digest = d])
       /\ UNCHANGED file

MarkUploading(s, out) ==
    \/ /\ out = "ok" /\ row[s].status = "uploading"
       /\ Keep
    \/ /\ out = "ok" /\ row[s].status = "created"
       /\ SetRow(s, [row[s] EXCEPT !.status = "uploading"])
       /\ UNCHANGED file
    \/ /\ out = "invalid_state" /\ row[s].status \notin {"created", "uploading"}
       /\ Keep

FailUploadCompletion(s, d, code, out) ==
    \/ /\ out = "conflict" /\ row[s].digest # d
       /\ Keep
    \/ /\ out = "ok" /\ row[s].digest = d /\ row[s].status = "failed"
       /\ Keep
    \/ /\ out = "ok" /\ row[s].digest = d /\ row[s].status = "completing"
       /\ SetRow(s, [row[s] EXCEPT !.status = "failed", !.failure = code,
                                   !.cleanup = "pending"])
       /\ UNCHANGED file
    \/ /\ out = "invalid_state" /\ row[s].digest = d
       /\ row[s].status \notin {"failed", "completing"}
       /\ Keep

\* Mutant: only a committed session is left alone.
MarkObjectCompletedAny(s, out) ==
    /\ out = "ok"
    /\ IF row[s].status = "committed"
       THEN row' = row
       ELSE SetRow(s, [row[s] EXCEPT !.status = "object_completed"])
    /\ UNCHANGED file

MarkObjectCompleted(s, out) ==
    \/ /\ out = "ok" /\ row[s].status \in {"object_completed", "committed"}
       /\ Keep
    \/ /\ out = "ok" /\ row[s].status = "completing"
       /\ SetRow(s, [row[s] EXCEPT !.status = "object_completed"])
       /\ UNCHANGED file
    \/ /\ out = "invalid_state"
       /\ row[s].status \notin {"object_completed", "committed", "completing"}
       /\ Keep

\* Mutant: the refusal is rolled back with the rest of the transaction.
RejectRolledBack(s, code) == Keep

\* rejectUploadCommit: the namespace does not admit the completed object.
Reject(s, code) ==
    /\ SetRow(s, [row[s] EXCEPT !.status = "failed", !.failure = code,
                                !.cleanup = "pending"])
    /\ UNCHANGED file

(* `fresh' says the caller passed new node, version and blob ids; the      *)
(* replay of a committed session passes none, and an insert then fails, as *)
(* does the insert of a second blob for one object key.                    *)
CommitUpload(s, d, fresh, out) ==
    \/ /\ out = "conflict" /\ row[s].digest # d
       /\ Keep
    \/ /\ out = "replayed" /\ row[s].digest = d /\ row[s].status = "committed"
       /\ Keep
    \/ /\ out = "invalid_state" /\ row[s].digest = d
       /\ row[s].status \notin {"committed", "object_completed"}
       /\ Keep
    \/ /\ row[s].digest = d /\ row[s].status = "object_completed"
       /\ \/ /\ out = "not_found" /\ ~parent[Target[s]]
             /\ Reject(s, "parent_unavailable")
          \/ /\ out = "name_conflict"
             /\ parent[Target[s]] /\ NameExists(Target[s])
             /\ Reject(s, "name_conflict")
          \/ /\ out = "internal"
             /\ parent[Target[s]] /\ ~NameExists(Target[s])
             /\ file[s] # "none" \/ ~fresh
             /\ Keep
          \/ /\ out = "committed"
             /\ parent[Target[s]] /\ ~NameExists(Target[s])
             /\ file[s] = "none" /\ fresh
             /\ file' = [file EXCEPT ![s] = "listed"]
             /\ SetRow(s, [row[s] EXCEPT !.status = "committed"])

CommitOutcome == {"conflict", "replayed", "invalid_state", "not_found",
                  "name_conflict", "internal", "committed"}

\* Mutant: a session whose completion began can still be cancelled.
AbortUploadCompleting(s, target, out) ==
    \/ /\ out = "existing" /\ row[s].status \in {"aborted", "expired", "failed"}
       /\ Keep
    \/ /\ out = "done" /\ row[s].status \in {"created", "uploading", "completing"}
       /\ SetRow(s, [row[s] EXCEPT !.status = target, !.cleanup = "pending"])
       /\ UNCHANGED file

AbortUpload(s, target, out) ==
    \/ /\ out = "existing" /\ row[s].status \in {"aborted", "expired", "failed"}
       /\ Keep
    \/ /\ out = "invalid_state"
       /\ row[s].status \in {"committed", "completing", "object_completed"}
       /\ Keep
    \/ /\ out = "done" /\ row[s].status \in {"created", "uploading"}
       /\ SetRow(s, [row[s] EXCEPT !.status = target, !.cleanup = "pending"])
       /\ UNCHANGED file

MarkUploadCleanupComplete(s) ==
    /\ IF row[s].status \in {"aborted", "expired", "failed"}
       THEN SetRow(s, [row[s] EXCEPT !.cleanup = "complete", !.error = FALSE])
       ELSE row' = row
    /\ UNCHANGED file

-----------------------------------------------------------------------------
(* Object storage.  A call may be applied and still answer with an error.  *)

CompleteMultipart(s, out) ==
    \/ /\ multipart[s] = "open" /\ out \in {"ok", "unavailable"}
       /\ multipart' = [multipart EXCEPT ![s] = "gone"]
       /\ \E c \in Content : object' = [object EXCEPT ![s] = c]
    \/ /\ multipart[s] = "open" /\ out \in {"invalid_request", "unavailable"}
       /\ UNCHANGED storage
    \/ /\ multipart[s] = "gone" /\ out \in {"not_found", "unavailable"}
       /\ UNCHANGED storage
    \/ /\ multipart[s] = "gone" /\ object[s] # "absent" /\ out = "ok"
       /\ UNCHANGED storage

AbortMultipart(s) ==
    /\ multipart' = [multipart EXCEPT ![s] = "gone"]
    /\ UNCHANGED object

DeleteObject(s) ==
    /\ object' = [object EXCEPT ![s] = "absent"]
    /\ UNCHANGED multipart

-----------------------------------------------------------------------------
(* Requests.                                                               *)

Session(r) == req[r].session

SetReq(r, q) == req' = [req EXCEPT ![r] = q]

Goto(r, pc) == SetReq(r, [req[r] EXCEPT !.pc = pc])

Stop(r) == SetReq(r, Idle)

\* The handler answered with the committed file.
Ack(r) == SetReq(r, Handler("acked", Session(r), req[r].digest, FALSE))

\* The handler is over: it returned an error or it was cut short.
Return(r) ==
    /\ req[r].pc \notin Waiting
    /\ Stop(r)
    /\ UNCHANGED <<db, elapsed, namespace, storage>>

\* A request arrives; CompleteUpload reads the clock before it locks the row.
Arrive(r, s, d, pc) ==
    /\ req[r].pc \in Waiting
    /\ SetReq(r, Handler(pc, s, d, elapsed[s] /\ pc = "begin"))
    /\ UNCHANGED <<db, elapsed, namespace, storage>>

Begin(r) ==
    /\ req[r].pc = "begin"
    /\ \E out \in {"conflict", "existing", "invalid_state", "begun"} :
        /\ BeginComplete(Session(r), req[r].digest, req[r].late, out)
        /\ \/ /\ out \in {"conflict", "invalid_state"}
              /\ Stop(r)
           \/ /\ \/ out = "begun"
                 \/ out = "existing" /\ row[Session(r)].status = "completing"
              /\ Goto(r, "complete")
           \/ /\ out = "existing" /\ row[Session(r)].status = "committed"
              /\ Goto(r, "replay")
           \/ /\ out = "existing" /\ row[Session(r)].status = "object_completed"
              /\ SetReq(r, [req[r] EXCEPT !.pc = "stat", !.resumed = TRUE])
    /\ UNCHANGED <<elapsed, namespace, storage>>

Replay(r) ==
    /\ req[r].pc = "replay"
    /\ \E out \in CommitOutcome :
        /\ CommitUpload(Session(r), req[r].digest, FALSE, out)
        /\ IF out = "replayed" THEN Ack(r) ELSE Stop(r)
    /\ UNCHANGED <<elapsed, namespace, storage>>

Complete(r) ==
    /\ req[r].pc = "complete"
    /\ \E out \in {"ok", "invalid_request", "not_found", "unavailable"} :
        /\ CompleteMultipart(Session(r), out)
        /\ SetReq(r, [req[r] EXCEPT !.pc = "stat", !.result = out])
    /\ UNCHANGED <<db, elapsed, namespace>>

GotoFail(r, code) == SetReq(r, [req[r] EXCEPT !.pc = "fail", !.code = code])

(* StatObject and the checks on its answer, the checksum before the size.  *)
(* An error with nothing proved about the object returns (Return).         *)
Stat(r) ==
    /\ req[r].pc = "stat"
    /\ \/ /\ object[Session(r)] = "absent"
          /\ ~req[r].resumed /\ req[r].result = "invalid_request"
          /\ GotoFail(r, "storage_rejected")
       \/ /\ object[Session(r)] = "wrong_checksum"
          /\ GotoFail(r, "checksum_mismatch")
       \/ /\ object[Session(r)] = "wrong_size"
          /\ GotoFail(r, "size_mismatch")
       \/ /\ object[Session(r)] = "good"
          /\ Goto(r, IF req[r].resumed THEN "commit" ELSE "mark")
    /\ UNCHANGED <<db, elapsed, namespace, storage>>

Fail(r) ==
    /\ req[r].pc = "fail"
    /\ \E out \in {"conflict", "ok", "invalid_state"} :
        /\ FailUploadCompletion(Session(r), req[r].digest, req[r].code, out)
        /\ IF out = "ok"
           THEN Goto(r, IF req[r].code = "storage_rejected"
                        THEN "abort_multipart" ELSE "delete")
           ELSE Stop(r)
    /\ UNCHANGED <<elapsed, namespace, storage>>

Mark(r) ==
    /\ req[r].pc = "mark"
    /\ \E out \in {"ok", "invalid_state"} :
        /\ MarkObjectCompleted(Session(r), out)
        /\ IF out = "ok" THEN Goto(r, "commit")
                         ELSE Stop(r)
    /\ UNCHANGED <<elapsed, namespace, storage>>

\* Mutant: a session that someone else finished counts as committed.
CommitAcksFinished(r) ==
    /\ req[r].pc = "commit"
    /\ \E out \in CommitOutcome :
        /\ CommitUpload(Session(r), req[r].digest, TRUE, out)
        /\ \/ /\ out \in {"committed", "replayed", "invalid_state"}
              /\ Ack(r)
           \/ /\ out \in {"name_conflict", "not_found"}
              /\ Goto(r, "delete")
    /\ UNCHANGED <<elapsed, namespace, storage>>

Commit(r) ==
    /\ req[r].pc = "commit"
    /\ \E out \in CommitOutcome :
        /\ CommitUpload(Session(r), req[r].digest, TRUE, out)
        /\ \/ /\ out \in {"committed", "replayed"}
              /\ Ack(r)
           \/ /\ out \in {"name_conflict", "not_found"}
              /\ Goto(r, "delete")
           \/ /\ out \in {"conflict", "invalid_state", "internal"}
              /\ Stop(r)
    /\ UNCHANGED <<elapsed, namespace, storage>>

\* Exact-key deletion after a failure that leaves an object.
Delete(r) ==
    /\ req[r].pc = "delete"
    /\ DeleteObject(Session(r))
    /\ Goto(r, "mark_clean")
    /\ UNCHANGED <<db, elapsed, namespace>>

AbortParts(r) ==
    /\ req[r].pc \in {"abort_multipart", "expire_multipart"}
    /\ AbortMultipart(Session(r))
    /\ IF req[r].pc = "abort_multipart"
       THEN Goto(r, "mark_clean")
       ELSE Stop(r)
    /\ UNCHANGED <<db, elapsed, namespace>>

MarkClean(r) ==
    /\ req[r].pc = "mark_clean"
    /\ MarkUploadCleanupComplete(Session(r))
    /\ Stop(r)
    /\ UNCHANGED <<elapsed, namespace, storage>>

Abort(r) ==
    /\ req[r].pc = "abort"
    /\ \E out \in {"existing", "invalid_state", "done"} :
        /\ AbortUpload(Session(r), "aborted", out)
        /\ \/ /\ out = "invalid_state"
              /\ Stop(r)
           \/ /\ out # "invalid_state"
              /\ Goto(r, IF /\ row'[Session(r)].status = "failed"
                            /\ row'[Session(r)].failure \in HasObject
                         THEN "delete" ELSE "abort_multipart")
    /\ UNCHANGED <<elapsed, namespace, storage>>

\* SignUploadPart reads the session; signing itself changes no state here.
Read(r) ==
    /\ req[r].pc = "read"
    /\ \/ /\ elapsed[Session(r)]
          /\ Goto(r, "expire")
       \/ /\ ~elapsed[Session(r)] /\ row[Session(r)].status = "created"
          /\ Goto(r, "mark_uploading")
       \/ /\ ~elapsed[Session(r)] /\ row[Session(r)].status # "created"
          /\ Stop(r)
    /\ UNCHANGED <<db, elapsed, namespace, storage>>

Sign(r) ==
    /\ req[r].pc = "mark_uploading"
    /\ \E out \in {"ok", "invalid_state"} : MarkUploading(Session(r), out)
    /\ Stop(r)
    /\ UNCHANGED <<elapsed, namespace, storage>>

Expire(r) ==
    /\ req[r].pc = "expire"
    /\ \E out \in {"existing", "invalid_state", "done"} :
        /\ AbortUpload(Session(r), "expired", out)
        /\ IF out = "invalid_state"
           THEN Stop(r)
           ELSE Goto(r, "expire_multipart")
    /\ UNCHANGED <<elapsed, namespace, storage>>

-----------------------------------------------------------------------------
(* The rest of the system, as far as uploads see it.                       *)

Elapse(s) ==
    /\ ~elapsed[s]
    /\ elapsed' = [elapsed EXCEPT ![s] = TRUE]
    /\ UNCHANGED <<db, namespace, storage, req>>

\* Recycle and Restore of the directory, or of one above it.
ToggleParent(k) ==
    /\ parent' = [parent EXCEPT ![k] = ~@]
    /\ UNCHANGED <<db, elapsed, other, storage, req>>

\* CreateDirectory, rename, move or restore of another item into the name.
TakeName(k) ==
    /\ parent[k] /\ ~NameExists(k)
    /\ other' = [other EXCEPT ![k] = TRUE]
    /\ UNCHANGED <<db, elapsed, parent, storage, req>>

FreeName(k) ==
    /\ parent[k] /\ other[k]
    /\ other' = [other EXCEPT ![k] = FALSE]
    /\ UNCHANGED <<db, elapsed, parent, storage, req>>

\* UpdateNode, Recycle and Restore applied to a committed file itself.
FileLeaves(s) ==
    /\ parent[Target[s]] /\ file[s] = "listed"
    /\ file' = [file EXCEPT ![s] = "elsewhere"]
    /\ UNCHANGED <<row, elapsed, namespace, storage, req>>

FileReturns(s) ==
    /\ parent[Target[s]] /\ ~NameExists(Target[s]) /\ file[s] = "elsewhere"
    /\ file' = [file EXCEPT ![s] = "listed"]
    /\ UNCHANGED <<row, elapsed, namespace, storage, req>>

NamespaceStep ==
    \/ \E k \in Slots : ToggleParent(k) \/ TakeName(k) \/ FreeName(k)
    \/ \E s \in Sessions : FileLeaves(s) \/ FileReturns(s)

Step(r) ==
    \/ Begin(r) \/ Replay(r) \/ Complete(r) \/ Stat(r) \/ Fail(r) \/ Mark(r)
    \/ Commit(r) \/ Delete(r) \/ AbortParts(r) \/ MarkClean(r) \/ Abort(r)
    \/ Read(r) \/ Sign(r) \/ Expire(r)

RequestStep(r) ==
    \/ \E s \in Sessions :
          \/ \E d \in Digests : Arrive(r, s, d, "begin")
          \/ Arrive(r, s, NoDigest, "abort")
          \/ Arrive(r, s, NoDigest, "read")
    \/ Step(r)
    \/ Return(r)

Next ==
    \/ \E r \in Requests : RequestStep(r)
    \/ \E s \in Sessions : Elapse(s)
    \/ NamespaceStep

Spec == Init /\ [][Next]_vars

-----------------------------------------------------------------------------
(* Properties.                                                             *)

\* No action deletes or replaces the bytes of a committed file: as long as
\* its row says committed, and once its node exists, the object HEAD showed
\* with the declared size and checksum is under the key.
CommittedFileHasObject ==
    \A s \in Sessions :
        row[s].status = "committed" \/ file[s] # "none" => object[s] = "good"

\* A node exists exactly for the committed sessions: no failed, aborted or
\* expired session left a visible file, and a committed one never loses it.
FileIffCommitted ==
    \A s \in Sessions : file[s] # "none" <=> row[s].status = "committed"

\* CommitUpload, renames and restores never leave two active items of one
\* name, whichever uploads of that name race.
OneItemPerName ==
    \A s, t \in Sessions :
        file[s] = "listed" => /\ ~other[Target[s]]
                              /\ file[t] = "listed" /\ Target[s] = Target[t] => s = t

\* A CompleteUpload that answered success stays right: the session is
\* committed with the part list of that very request.
AckedIsCommitted ==
    \A r \in Requests :
        req[r].pc = "acked" => LET s == Session(r) IN
                               /\ row[s].status = "committed"
                               /\ row[s].digest = req[r].digest
                               /\ file[s] # "none"

\* A cancelled or expired session whose cleanup is recorded as complete has
\* neither parts nor an object in storage, whatever requests were in flight.
CancelledLeavesNothing ==
    \A s \in Sessions :
        /\ row[s].status \in {"aborted", "expired"}
        /\ row[s].cleanup = "complete"
        => multipart[s] = "gone" /\ object[s] = "absent"

\* A failed session whose cleanup is recorded as complete leaves no object
\* behind that a repeated cancellation would not delete.  FALSE: a
\* completion rejected by storage may race another one that succeeds.
FailedLeavesNothing ==
    \A s \in Sessions :
        row[s].status = "failed" /\ row[s].cleanup = "complete"
        => object[s] = "absent" \/ row[s].failure \in HasObject

\* No request moves a session out of a terminal status.
TerminalStable ==
    [][\A s \in Sessions : row[s].status \in Terminal
                             => row'[s].status = row[s].status]_vars

\* An object disappears only after FAILED was persisted for its session.
DeleteOnlyAfterFailed ==
    [][\A s \in Sessions : object[s] # "absent" /\ object'[s] = "absent"
                             => row[s].status = "failed"]_vars

\* The part list frozen by the first BeginComplete is never replaced.
DigestFrozen ==
    [][\A s \in Sessions : row[s].digest # NoDigest
                             => row'[s].digest = row[s].digest]_vars
=============================================================================
