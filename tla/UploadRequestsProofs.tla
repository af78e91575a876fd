------------------------ MODULE UploadRequestsProofs ------------------------
(***************************************************************************)
(* Proofs that the request protocol of UploadRequests is right for any     *)
(* number of sessions, names, concurrent requests and part lists, and that *)
(* it implements UploadLifecycle.                                          *)
(*                                                                         *)
(* The argument: Evolves says how one step may change one session; what a  *)
(* handler knows about its session (HandlerOK) is stable under Evolves, so *)
(* the steps of other handlers cannot invalidate it, and together with     *)
(* SessionOK it makes every step of the handler itself safe.  A step       *)
(* writes at most one row, and each way it may write it (Moves) is a step  *)
(* of the lifecycle of that session, or none.                              *)
(*                                                                         *)
(* The last part adds the background loops of UploadMaintenance, with no   *)
(* assumption on how they, the handlers and the leases overlap.  A loop    *)
(* may delete an object of the wrong size before FAILED is persisted, so   *)
(* its steps advance a session in a weaker sense (Advances); what handlers *)
(* know, and the little a job relies on (JobOK), is stable under that.     *)
(***************************************************************************)
EXTENDS UploadRequestsLifecycle, UploadMaintenance, TLAPS

\* The session a handler works on, its part list, and what earlier steps of
\* the handler established and no other handler can undo.
HandlerOK(r) ==
    LET q == req[r]
        s == req[r].session
    IN  /\ q.pc # "idle" => s \in Sessions
        /\ q.pc = "begin" => q.digest \in Digests
        /\ q.pc \in {"begin", "complete"} => q.resumed = FALSE
        /\ q.pc \in {"replay", "acked"}
           => row[s].status = "committed" /\ row[s].digest = q.digest
        /\ q.pc \in {"complete", "stat", "fail", "mark", "commit"}
           => /\ row[s].digest = q.digest
              /\ q.digest \in Digests
              /\ row[s].status \in {"completing", "object_completed",
                                    "committed", "failed"}
        /\ q.pc = "commit" \/ (q.pc = "stat" /\ q.resumed)
           => row[s].status \in {"object_completed", "committed", "failed"}
        /\ q.pc = "mark" => object[s] = "good" \/ row[s].status = "failed"
        /\ q.pc = "delete" => row[s].status = "failed"
        /\ q.pc \in {"abort_multipart", "expire_multipart", "mark_clean"}
           => row[s].status \in {"aborted", "expired", "failed"}
        /\ q.pc = "mark_clean"
           => row[s].status = "failed" \/ multipart[s] = "gone"

\* How row, file and storage of one session fit together.
SessionOK(s) ==
    /\ row[s].status \in {"created", "uploading", "aborted", "expired"}
       => row[s].digest = NoDigest /\ object[s] = "absent"
    /\ row[s].status \in {"completing", "object_completed", "committed", "failed"}
       => row[s].digest \in Digests
    /\ row[s].status \in {"object_completed", "committed"}
       => object[s] \in {"good", "wrong_checksum"}
    /\ file[s] # "none" <=> row[s].status = "committed"
    /\ object[s] # "absent" => multipart[s] = "gone"
    /\ row[s].status \in {"aborted", "expired"} /\ row[s].cleanup = "complete"
       => multipart[s] = "gone"

IInv ==
    /\ TypeOK
    /\ \A r \in Requests : HandlerOK(r)
    /\ \A s \in Sessions : SessionOK(s)
    /\ OneItemPerName

\* What a step may do to a session, a loop's included.
Advances(s) ==
    /\ row[s].status \in Terminal => row'[s].status = row[s].status
    /\ row[s].status = "object_completed"
       => row'[s].status \in {"object_completed", "committed", "failed"}
    /\ row[s].status = "completing"
       => row'[s].status \in {"completing", "object_completed", "failed"}
    /\ row[s].digest # NoDigest => row'[s].digest = row[s].digest
    /\ object[s] \in {"good", "wrong_checksum"}
       => object'[s] = object[s] \/ row[s].status = "failed"
    /\ multipart[s] = "gone"
       => multipart'[s] = "gone" /\ object'[s] \in {object[s], "absent"}

\* What a request may do to it: it deletes objects of failed sessions only.
Evolves(s) ==
    /\ Advances(s)
    /\ object[s] # "absent" => \/ object'[s] = object[s]
                               \/ row[s].status = "failed"

StepOK == IInv' /\ \A s \in Sessions : Evolves(s)

-----------------------------------------------------------------------------
\* A running handler has a session.
LEMMA Runs ==
    ASSUME IInv, NEW r \in Requests, req[r].pc # "idle"
    PROVE  Session(r) \in Sessions
  BY Zenon DEF IInv, HandlerOK, Session

LEMMA PcValues ==
    Pc = {"idle", "acked", "begin", "replay", "complete", "stat", "fail",
          "mark", "commit", "delete", "abort_multipart", "mark_clean", "abort",
          "read", "mark_uploading", "expire", "expire_multipart"}
  BY Zenon DEF Pc, Waiting

LEMMA CodeValues ==
    FailureCode = {"", "storage_rejected", "size_mismatch", "checksum_mismatch",
                   "parent_unavailable", "name_conflict"}
  BY Zenon DEF FailureCode, HasObject

LEMMA Types ==
    ASSUME IInv
    PROVE  /\ row \in [Sessions -> Row]
           /\ file \in [Sessions -> {"none", "listed", "elsewhere"}]
           /\ multipart \in [Sessions -> {"open", "gone"}]
           /\ object \in [Sessions -> Content \cup {"absent"}]
           /\ req \in [Requests -> Req]
  BY Zenon DEF IInv, TypeOK

\* Writing one row.
LEMMA SetRowFacts ==
    ASSUME row \in [Sessions -> Row], NEW s \in Sessions, NEW x \in Row,
           SetRow(s, x)
    PROVE  /\ row' \in [Sessions -> Row]
           /\ row'[s] = x
           /\ \A t \in Sessions \ {s} : row'[t] = row[t]
  BY Zenon DEF SetRow

\* Moving a handler to another place in its code, and ending it.
LEMMA SetReqFacts ==
    ASSUME req \in [Requests -> Req], NEW r \in Requests, NEW x \in Req,
           SetReq(r, x)
    PROVE  /\ req' \in [Requests -> Req]
           /\ req'[r] = x
           /\ \A q \in Requests \ {r} : req'[q] = req[q]
  BY Zenon DEF SetReq

LEMMA GotoFacts ==
    ASSUME req \in [Requests -> Req], NEW r \in Requests, NEW pc \in Pc,
           Goto(r, pc)
    PROVE  /\ req' \in [Requests -> Req]
           /\ req'[r].pc = pc
           /\ req'[r].session = req[r].session
           /\ req'[r].digest = req[r].digest
           /\ req'[r].resumed = req[r].resumed
           /\ \A q \in Requests \ {r} : req'[q] = req[q]
  <1> DEFINE x == [req[r] EXCEPT !.pc = pc]
  <1>1. /\ x \in Req /\ x.pc = pc /\ x.session = req[r].session
        /\ x.digest = req[r].digest /\ x.resumed = req[r].resumed
    BY Zenon DEF Req
  <1> QED
    BY <1>1, SetReqFacts, Zenon DEF Goto

\* Moving on with what the last step found out.
LEMMA ResumeFacts ==
    ASSUME req \in [Requests -> Req], NEW r \in Requests,
           SetReq(r, [req[r] EXCEPT !.pc = "stat", !.resumed = TRUE])
    PROVE  /\ req' \in [Requests -> Req]
           /\ req'[r].pc = "stat"
           /\ req'[r].session = req[r].session
           /\ req'[r].digest = req[r].digest
           /\ \A q \in Requests \ {r} : req'[q] = req[q]
  <1> DEFINE x == [req[r] EXCEPT !.pc = "stat", !.resumed = TRUE]
  <1>1. /\ x \in Req /\ x.pc = "stat" /\ x.session = req[r].session
        /\ x.digest = req[r].digest
    <2>1. "stat" \in Pc
      BY PcValues, Zenon
    <2> QED BY <2>1, Zenon DEF Req
  <1> QED
    BY <1>1, SetReqFacts, Zenon

LEMMA ResultFacts ==
    ASSUME req \in [Requests -> Req], NEW r \in Requests,
           NEW out \in {"ok", "invalid_request", "not_found", "unavailable"},
           SetReq(r, [req[r] EXCEPT !.pc = "stat", !.result = out])
    PROVE  /\ req' \in [Requests -> Req]
           /\ req'[r].pc = "stat"
           /\ req'[r].session = req[r].session
           /\ req'[r].digest = req[r].digest
           /\ req'[r].resumed = req[r].resumed
           /\ \A q \in Requests \ {r} : req'[q] = req[q]
  <1> DEFINE x == [req[r] EXCEPT !.pc = "stat", !.result = out]
  <1>1. /\ x \in Req /\ x.pc = "stat" /\ x.session = req[r].session
        /\ x.digest = req[r].digest /\ x.resumed = req[r].resumed
    <2>1. "stat" \in Pc
      BY PcValues, Zenon
    <2> QED BY <2>1, Zenon DEF Req
  <1> QED
    BY <1>1, SetReqFacts, Zenon

LEMMA GotoFailFacts ==
    ASSUME req \in [Requests -> Req], NEW r \in Requests,
           NEW code \in FailureCode, GotoFail(r, code)
    PROVE  /\ req' \in [Requests -> Req]
           /\ req'[r].pc = "fail"
           /\ req'[r].session = req[r].session
           /\ req'[r].digest = req[r].digest
           /\ \A q \in Requests \ {r} : req'[q] = req[q]
  <1> DEFINE x == [req[r] EXCEPT !.pc = "fail", !.code = code]
  <1>1. /\ x \in Req /\ x.pc = "fail" /\ x.session = req[r].session
        /\ x.digest = req[r].digest
    <2>1. "fail" \in Pc
      BY PcValues, Zenon
    <2> QED BY <2>1, Zenon DEF Req
  <1> QED
    BY <1>1, SetReqFacts, Zenon DEF GotoFail

LEMMA HandlerType ==
    ASSUME NEW pc \in Pc, NEW s \in Sessions \cup {NoSession},
           NEW d \in Digests \cup {NoDigest}, NEW late \in BOOLEAN
    PROVE  Handler(pc, s, d, late) \in Req
  BY CodeValues, Zenon DEF Handler, Req

LEMMA StopFacts ==
    ASSUME req \in [Requests -> Req], NEW r \in Requests, Stop(r)
    PROVE  /\ req' \in [Requests -> Req]
           /\ req'[r].pc = "idle"
           /\ \A q \in Requests \ {r} : req'[q] = req[q]
  <1>1. Idle \in Req
    BY PcValues, HandlerType, Zenon DEF Idle
  <1>2. Idle.pc = "idle"
    BY Zenon DEF Idle, Handler
  <1> QED
    BY <1>1, <1>2, SetReqFacts, Zenon DEF Stop

LEMMA AckFacts ==
    ASSUME req \in [Requests -> Req], NEW r \in Requests, Ack(r)
    PROVE  /\ req' \in [Requests -> Req]
           /\ req'[r].pc = "acked"
           /\ req'[r].session = req[r].session
           /\ req'[r].digest = req[r].digest
           /\ \A q \in Requests \ {r} : req'[q] = req[q]
  <1>1. Session(r) \in Sessions \cup {NoSession} /\ req[r].digest \in Digests \cup {NoDigest}
    BY Zenon DEF Req, Session
  <1> DEFINE x == Handler("acked", Session(r), req[r].digest, FALSE)
  <1>2. x \in Req
    BY <1>1, PcValues, HandlerType, Zenon
  <1>3. x.pc = "acked" /\ x.session = req[r].session /\ x.digest = req[r].digest
    BY Zenon DEF Handler, Session
  <1>4. SetReq(r, x)
    BY Zenon DEF Ack
  <1> HIDE DEF x
  <1> QED
    BY <1>2, <1>3, <1>4, SetReqFacts, Zenon

-----------------------------------------------------------------------------
(* What each row transaction does.                                         *)

LEMMA BeginCompleteFacts ==
    ASSUME row \in [Sessions -> Row], NEW s \in Sessions, NEW d \in Digests,
           NEW late, NEW out, BeginComplete(s, d, late, out)
    PROVE  /\ row' \in [Sessions -> Row]
           /\ file' = file
           /\ row[s].digest \in {NoDigest, d} \/ out = "conflict"
           /\ \/ row' = row
              \/ /\ out = "begun"
                 /\ row[s].status \in {"created", "uploading"}
                 /\ row'[s].status = "completing"
                 /\ row'[s].digest = d
                 /\ \A t \in Sessions \ {s} : row'[t] = row[t]
           /\ out = "begun" => row'[s].status = "completing" /\ row'[s].digest = d
           /\ out # "begun" => row' = row
  <1>1. CASE out = "begun"
    <2>1. row[s] \in Row
      BY Zenon
    <2>2. [row[s] EXCEPT !.status = "completing", !.digest = d] \in Row
      BY <2>1, Zenon DEF Row, Status
    <2>3. SetRow(s, [row[s] EXCEPT !.status = "completing", !.digest = d])
      BY <1>1, Zenon DEF BeginComplete
    <2>4. [row[s] EXCEPT !.status = "completing", !.digest = d].status = "completing"
          /\ [row[s] EXCEPT !.status = "completing", !.digest = d].digest = d
      BY <2>1, Zenon DEF Row
    <2> QED
      BY <1>1, <2>2, <2>3, <2>4, SetRowFacts, Zenon DEF BeginComplete
  <1>2. CASE out # "begun"
    BY <1>2, Zenon DEF BeginComplete, Keep, db
  <1> QED
    BY <1>1, <1>2, Zenon

LEMMA MarkUploadingFacts ==
    ASSUME row \in [Sessions -> Row], NEW s \in Sessions, NEW out,
           MarkUploading(s, out)
    PROVE  /\ row' \in [Sessions -> Row]
           /\ file' = file
           /\ \/ row' = row
              \/ /\ row[s].status = "created"
                 /\ row'[s].status = "uploading"
                 /\ row'[s].digest = row[s].digest
                 /\ \A t \in Sessions \ {s} : row'[t] = row[t]
  <1> DEFINE x == [row[s] EXCEPT !.status = "uploading"]
  <1>1. x \in Row /\ x.status = "uploading" /\ x.digest = row[s].digest
    BY Zenon DEF Row, Status
  <1>2. CASE row[s].status = "created" /\ SetRow(s, x) /\ file' = file
    BY <1>1, <1>2, SetRowFacts, Zenon
  <1>3. CASE Keep
    BY <1>3, Zenon DEF Keep, db
  <1> QED
    BY <1>2, <1>3, Zenon DEF MarkUploading

LEMMA FailFacts ==
    ASSUME row \in [Sessions -> Row], NEW s \in Sessions, NEW d,
           NEW code \in FailureCode, NEW out, FailUploadCompletion(s, d, code, out)
    PROVE  /\ row' \in [Sessions -> Row]
           /\ file' = file
           /\ \/ row' = row
              \/ /\ row[s].status = "completing"
                 /\ row'[s].status = "failed"
                 /\ row'[s].digest = row[s].digest
                 /\ \A t \in Sessions \ {s} : row'[t] = row[t]
           /\ out = "ok" => row'[s].status = "failed"
  <1> DEFINE x == [row[s] EXCEPT !.status = "failed", !.failure = code,
                                 !.cleanup = "pending"]
  <1>1. x \in Row /\ x.status = "failed" /\ x.digest = row[s].digest
    BY Zenon DEF Row, Status
  <1>2. CASE row[s].status = "completing" /\ SetRow(s, x) /\ file' = file
    BY <1>1, <1>2, SetRowFacts, Zenon
  <1>3. CASE Keep /\ (out = "ok" => row[s].status = "failed")
    BY <1>3, Zenon DEF Keep, db
  <1> QED
    BY <1>2, <1>3, Zenon DEF FailUploadCompletion

LEMMA MarkObjectFacts ==
    ASSUME row \in [Sessions -> Row], NEW s \in Sessions, NEW out,
           MarkObjectCompleted(s, out)
    PROVE  /\ row' \in [Sessions -> Row]
           /\ file' = file
           /\ \/ row' = row
              \/ /\ row[s].status = "completing"
                 /\ row'[s].status = "object_completed"
                 /\ row'[s].digest = row[s].digest
                 /\ \A t \in Sessions \ {s} : row'[t] = row[t]
           /\ out = "ok" => row'[s].status \in {"object_completed", "committed"}
  <1> DEFINE x == [row[s] EXCEPT !.status = "object_completed"]
  <1>1. x \in Row /\ x.status = "object_completed" /\ x.digest = row[s].digest
    BY Zenon DEF Row, Status
  <1>2. CASE row[s].status = "completing" /\ SetRow(s, x) /\ file' = file
    BY <1>1, <1>2, SetRowFacts, Zenon
  <1>3. CASE /\ Keep
             /\ out = "ok" => row[s].status \in {"object_completed", "committed"}
    BY <1>3, Zenon DEF Keep, db
  <1> QED
    BY <1>2, <1>3, Zenon DEF MarkObjectCompleted

LEMMA CommitFacts ==
    ASSUME row \in [Sessions -> Row], NEW s \in Sessions, NEW d, NEW fresh,
           NEW out, CommitUpload(s, d, fresh, out)
    PROVE  /\ row' \in [Sessions -> Row]
           /\ \/ row' = row /\ file' = file
              \/ /\ row[s].status = "object_completed"
                 /\ row'[s].status = "failed"
                 /\ file' = file
              \/ /\ row[s].status = "object_completed"
                 /\ row'[s].status = "committed"
                 /\ file[s] = "none"
                 /\ ~NameExists(Target[s])
                 /\ file' = [file EXCEPT ![s] = "listed"]
           /\ row'[s].digest = row[s].digest
           /\ \A t \in Sessions \ {s} : row'[t] = row[t]
           /\ out \in {"committed", "replayed"}
              => row'[s].status = "committed" /\ row[s].digest = d
           /\ out \in {"name_conflict", "not_found"} => row'[s].status = "failed"
  <1> DEFINE x(code) == [row[s] EXCEPT !.status = "failed", !.failure = code,
                                       !.cleanup = "pending"]
             y == [row[s] EXCEPT !.status = "committed"]
  <1>1. ASSUME NEW code \in FailureCode
        PROVE  x(code) \in Row /\ x(code).status = "failed"
               /\ x(code).digest = row[s].digest
    BY Zenon DEF Row, Status
  <1>2. y \in Row /\ y.status = "committed" /\ y.digest = row[s].digest
    BY Zenon DEF Row, Status
  <1>3. CASE /\ row[s].status = "object_completed" /\ out \in {"name_conflict", "not_found"}
             /\ \E code \in FailureCode : Reject(s, code)
    <2>1. PICK code \in FailureCode : Reject(s, code)
      BY <1>3, Zenon
    <2>2. SetRow(s, x(code)) /\ file' = file
      BY <2>1, Zenon DEF Reject
    <2>3. /\ row' \in [Sessions -> Row]
          /\ row'[s] = x(code)
          /\ \A t \in Sessions \ {s} : row'[t] = row[t]
      BY <1>1, <2>2, SetRowFacts, Zenon
    <2> QED
      BY <1>1, <1>3, <2>2, <2>3, Zenon
  <1>4. CASE /\ row[s].status = "object_completed" /\ row[s].digest = d
             /\ out = "committed" /\ file[s] = "none" /\ ~NameExists(Target[s])
             /\ file' = [file EXCEPT ![s] = "listed"] /\ SetRow(s, y)
    <2>1. /\ row' \in [Sessions -> Row]
          /\ row'[s] = y
          /\ \A t \in Sessions \ {s} : row'[t] = row[t]
      BY <1>2, <1>4, SetRowFacts, Zenon
    <2> QED
      BY <1>2, <1>4, <2>1, Zenon
  <1>5. CASE /\ Keep
             /\ out \in {"conflict", "replayed", "invalid_state", "internal"}
             /\ out = "replayed" => row[s].digest = d /\ row[s].status = "committed"
    BY <1>5, Zenon DEF Keep, db
  <1> QED
    BY <1>3, <1>4, <1>5, CodeValues, Zenon DEF CommitUpload

LEMMA AbortFacts ==
    ASSUME row \in [Sessions -> Row], NEW s \in Sessions,
           NEW target \in {"aborted", "expired"}, NEW out,
           AbortUpload(s, target, out)
    PROVE  /\ row' \in [Sessions -> Row]
           /\ file' = file
           /\ \/ row' = row
              \/ /\ row[s].status \in {"created", "uploading"}
                 /\ row'[s].status = target
                 /\ row'[s].cleanup = "pending"
                 /\ row'[s].digest = row[s].digest
                 /\ \A t \in Sessions \ {s} : row'[t] = row[t]
           /\ out \in {"existing", "done"}
              => row'[s].status \in {"aborted", "expired", "failed"}
  <1> DEFINE x == [row[s] EXCEPT !.status = target, !.cleanup = "pending"]
  <1>1. /\ x \in Row /\ x.status = target /\ x.cleanup = "pending"
        /\ x.digest = row[s].digest
    BY Zenon DEF Row, Status
  <1>2. CASE row[s].status \in {"created", "uploading"} /\ SetRow(s, x) /\ file' = file
    BY <1>1, <1>2, SetRowFacts, Zenon
  <1>3. CASE /\ Keep
             /\ out \in {"existing", "done"}
                => row[s].status \in {"aborted", "expired", "failed"}
    BY <1>3, Zenon DEF Keep, db
  <1> QED
    BY <1>2, <1>3, Zenon DEF AbortUpload

LEMMA CleanFacts ==
    ASSUME row \in [Sessions -> Row], NEW s \in Sessions,
           MarkUploadCleanupComplete(s)
    PROVE  /\ row' \in [Sessions -> Row]
           /\ file' = file
           /\ row'[s].status = row[s].status
           /\ row'[s].digest = row[s].digest
           /\ \A t \in Sessions \ {s} : row'[t] = row[t]
  <1> DEFINE x == [row[s] EXCEPT !.cleanup = "complete", !.error = FALSE]
  <1>1. x \in Row /\ x.status = row[s].status /\ x.digest = row[s].digest
    BY Zenon DEF Row
  <1>2. CASE SetRow(s, x) /\ file' = file
    BY <1>1, <1>2, SetRowFacts, Zenon
  <1>3. CASE row' = row /\ file' = file
    BY <1>3, Zenon
  <1> QED
    BY <1>2, <1>3, Zenon DEF MarkUploadCleanupComplete

-----------------------------------------------------------------------------
(* Putting a step together.                                                *)

\* What a handler knows survives the steps of the others.
LEMMA Stable ==
    ASSUME NEW r \in Requests, HandlerOK(r), req'[r] = req[r],
           \A s \in Sessions : SessionOK(s) /\ Advances(s)
    PROVE  HandlerOK(r)'
  <1> DEFINE s == req[r].session
  <1>1. CASE req[r].pc = "idle"
    BY <1>1, Zenon DEF HandlerOK
  <1>2. CASE req[r].pc # "idle"
    <2>1. s \in Sessions
      BY <1>2, Zenon DEF HandlerOK
    <2>2. SessionOK(s) /\ Advances(s)
      BY <2>1, Zenon
    <2>3. row[s].digest = NoDigest => row[s].status \notin
            {"completing", "object_completed", "committed", "failed"}
      BY <2>2, NoDigestAssumption, Zenon DEF SessionOK
    <2>4. /\ row[s].status \in {"committed", "failed", "aborted", "expired"}
             => row'[s].status = row[s].status
          /\ row[s].status \in {"completing", "object_completed", "committed", "failed"}
             => /\ row'[s].status \in
                     {"completing", "object_completed", "committed", "failed"}
                /\ row'[s].digest = row[s].digest
      BY <2>2, <2>3, Zenon DEF Advances, Terminal
    <2>5. /\ row[s].status \in {"object_completed", "committed", "failed"}
             => row'[s].status \in {"object_completed", "committed", "failed"}
          /\ object[s] = "good" => object'[s] = "good" \/ row[s].status = "failed"
          /\ multipart[s] = "gone" => multipart'[s] = "gone"
      BY <2>2, <2>4, Zenon DEF Advances
    <2> QED
      BY <1>2, <2>1, <2>4, <2>5, Zenon DEF HandlerOK
  <1> QED
    BY <1>1, <1>2, Zenon

\* A session that a step leaves alone.
LEMMA Frame ==
    ASSUME NEW t \in Sessions, SessionOK(t), row'[t] = row[t], file'[t] = file[t],
           multipart'[t] = multipart[t], object'[t] = object[t]
    PROVE  SessionOK(t)' /\ Evolves(t)
  BY Zenon DEF SessionOK, Evolves, Advances

LEMMA TypeFrame ==
    ASSUME IInv, UNCHANGED <<elapsed, namespace>>,
           row' \in [Sessions -> Row],
           file' \in [Sessions -> {"none", "listed", "elsewhere"}],
           multipart' \in [Sessions -> {"open", "gone"}],
           object' \in [Sessions -> Content \cup {"absent"}],
           req' \in [Requests -> Req]
    PROVE  TypeOK'
  BY Zenon DEF IInv, TypeOK, namespace

LEMMA NamesFrame ==
    ASSUME IInv, UNCHANGED <<namespace, file>>
    PROVE  OneItemPerName'
  BY Zenon DEF IInv, OneItemPerName, namespace

\* A step of handler r that touches at most session s.
LEMMA Combine ==
    ASSUME IInv, NEW r \in Requests, NEW s \in Sessions, TypeOK',
           \A q \in Requests \ {r} : req'[q] = req[q],
           \A t \in Sessions \ {s} :
               /\ row'[t] = row[t] /\ file'[t] = file[t]
               /\ multipart'[t] = multipart[t] /\ object'[t] = object[t],
           Evolves(s), SessionOK(s)', HandlerOK(r)', OneItemPerName'
    PROVE  StepOK
  <1>1. \A t \in Sessions : SessionOK(t)
    BY Zenon DEF IInv
  <1>2. \A t \in Sessions \ {s} : SessionOK(t)' /\ Evolves(t)
    BY <1>1, Frame, Zenon
  <1>3. \A t \in Sessions : SessionOK(t)' /\ Evolves(t)
    BY <1>2, Zenon
  <1>4. \A q \in Requests \ {r} : HandlerOK(q)'
    <2> TAKE q \in Requests \ {r}
    <2>1. HandlerOK(q) /\ req'[q] = req[q]
      BY Zenon DEF IInv
    <2> QED
      BY <1>1, <1>3, <2>1, Stable, Zenon DEF Evolves
  <1> QED
    BY <1>3, <1>4, Zenon DEF IInv, StepOK

\* A step of handler r that writes at most the row of session s.
LEMMA RowStep ==
    ASSUME IInv, NEW r \in Requests, NEW s \in Sessions,
           UNCHANGED <<file, elapsed, namespace, storage>>,
           row' \in [Sessions -> Row], req' \in [Requests -> Req],
           \A t \in Sessions \ {s} : row'[t] = row[t],
           \A q \in Requests \ {r} : req'[q] = req[q],
           Evolves(s), SessionOK(s)', HandlerOK(r)'
    PROVE  StepOK
  <1>1. UNCHANGED <<multipart, object>>
    BY Zenon DEF storage
  <1>2. TypeOK'
    BY <1>1, Types, TypeFrame, Zenon
  <1>3. OneItemPerName'
    BY NamesFrame, Zenon
  <1> QED
    BY <1>1, <1>2, <1>3, Combine, Zenon

\* A step of handler r that changes nothing but where it is.
LEMMA LocalStep ==
    ASSUME IInv, NEW r \in Requests, NEW s \in Sessions,
           UNCHANGED <<db, elapsed, namespace, storage>>,
           req' \in [Requests -> Req],
           \A q \in Requests \ {r} : req'[q] = req[q], HandlerOK(r)'
    PROVE  StepOK
  <1>1. UNCHANGED <<row, file, multipart, object>>
    BY Zenon DEF storage, db
  <1>2. SessionOK(s)' /\ Evolves(s)
    BY <1>1, Frame, Zenon DEF IInv
  <1> QED
    BY <1>1, <1>2, Types, RowStep, Zenon

-----------------------------------------------------------------------------
(* One lemma per action of a handler.                                      *)

LEMMA IdleOK ==
    ASSUME NEW r \in Requests, req'[r].pc = "idle"
    PROVE  HandlerOK(r)'
  BY Zenon DEF HandlerOK

LEMMA ReturnStep ==
    ASSUME IInv, NEW r \in Requests, Return(r)
    PROVE  StepOK
  <1>1. Session(r) \in Sessions
    BY Runs, Zenon DEF Return, Waiting
  <1> QED
    BY <1>1, Types, StopFacts, IdleOK, LocalStep, Zenon DEF Return

LEMMA ArriveStep ==
    ASSUME IInv, NEW r \in Requests, NEW s \in Sessions,
           NEW d \in Digests \cup {NoDigest}, NEW pc \in {"begin", "abort", "read"},
           pc = "begin" => d \in Digests, Arrive(r, s, d, pc)
    PROVE  StepOK
  <1> DEFINE x == Handler(pc, s, d, elapsed[s] /\ pc = "begin")
  <1>1. x \in Req
    BY PcValues, HandlerType, Zenon
  <1>2. x.pc = pc /\ x.session = s /\ x.digest = d /\ x.resumed = FALSE
    BY Zenon DEF Handler
  <1>3. SetReq(r, x)
    BY Zenon DEF Arrive
  <1> HIDE DEF x
  <1>4. /\ req' \in [Requests -> Req]
        /\ req'[r].pc = pc /\ req'[r].session = s /\ req'[r].digest = d
        /\ req'[r].resumed = FALSE
        /\ \A q \in Requests \ {r} : req'[q] = req[q]
    BY <1>1, <1>2, <1>3, Types, SetReqFacts, Zenon
  <1>5. HandlerOK(r)'
    BY <1>4, Zenon DEF HandlerOK
  <1> QED
    BY <1>4, <1>5, LocalStep, Zenon DEF Arrive

LEMMA BeginStep ==
    ASSUME IInv, NEW r \in Requests, Begin(r)
    PROVE  StepOK
  <1>1. PICK s \in Sessions, d \in Digests :
            Session(r) = s /\ req[r].digest = d /\ req[r].resumed = FALSE
    BY Runs, Zenon DEF Begin, IInv, HandlerOK
  <1>2. PICK out : /\ BeginComplete(s, d, req[r].late, out)
                   /\ \/ out \in {"conflict", "invalid_state"} /\ Stop(r)
                      \/ /\ \/ out = "begun"
                            \/ out = "existing" /\ row[s].status = "completing"
                         /\ Goto(r, "complete")
                      \/ /\ out = "existing" /\ row[s].status = "committed"
                         /\ Goto(r, "replay")
                      \/ /\ out = "existing" /\ row[s].status = "object_completed"
                         /\ SetReq(r, [req[r] EXCEPT !.pc = "stat", !.resumed = TRUE])
    BY <1>1, Zenon DEF Begin
  <1>3. SessionOK(s)
    BY <1>1, Zenon DEF IInv
  <1>4. /\ row' \in [Sessions -> Row]
        /\ file' = file
        /\ row[s].digest \in {NoDigest, d} \/ out = "conflict"
        /\ \/ row' = row
           \/ /\ row[s].status \in {"created", "uploading"}
              /\ row'[s].status = "completing"
              /\ row'[s].digest = d
              /\ \A t \in Sessions \ {s} : row'[t] = row[t]
        /\ out = "begun" => row'[s].status = "completing" /\ row'[s].digest = d
        /\ out # "begun" => row' = row
    BY <1>1, <1>2, Types, BeginCompleteFacts
  <1>5. UNCHANGED <<elapsed, namespace, storage, multipart, object>>
    BY Zenon DEF Begin, storage
  <1>6. SessionOK(s)' /\ Evolves(s)
    BY <1>1, <1>3, <1>4, <1>5, NoDigestAssumption, Zenon DEF SessionOK, Evolves, Advances, Terminal
  <1>7. /\ req' \in [Requests -> Req]
        /\ \A q \in Requests \ {r} : req'[q] = req[q]
        /\ \/ req'[r].pc = "idle"
           \/ /\ req'[r].session = s /\ req'[r].digest = d
              /\ \/ /\ req'[r].pc = "complete" /\ req'[r].resumed = FALSE
                    /\ \/ out = "begun"
                       \/ out = "existing" /\ row[s].status = "completing"
                 \/ /\ req'[r].pc = "replay" /\ out = "existing"
                    /\ row[s].status = "committed"
                 \/ /\ req'[r].pc = "stat" /\ out = "existing"
                    /\ row[s].status = "object_completed"
    <2>1. CASE Stop(r)
      BY <2>1, Types, StopFacts, Zenon
    <2>2. CASE Goto(r, "complete") /\ (out = "begun" \/ (out = "existing" /\ row[s].status = "completing"))
      BY <1>1, <2>2, Types, GotoFacts, PcValues, Zenon DEF Session
    <2>3. CASE Goto(r, "replay") /\ out = "existing" /\ row[s].status = "committed"
      BY <1>1, <2>3, Types, GotoFacts, PcValues, Zenon DEF Session
    <2>4. CASE /\ SetReq(r, [req[r] EXCEPT !.pc = "stat", !.resumed = TRUE])
               /\ out = "existing" /\ row[s].status = "object_completed"
      BY <1>1, <2>4, Types, ResumeFacts, Zenon DEF Session
    <2> QED
      BY <1>2, <2>1, <2>2, <2>3, <2>4, Zenon
  <1>8. HandlerOK(r)'
    BY <1>1, <1>3, <1>4, <1>7, NoDigestAssumption, Zenon DEF HandlerOK, SessionOK
  <1> QED
    BY <1>1, <1>4, <1>5, <1>6, <1>7, <1>8, RowStep, Zenon

\* The commit transaction, whoever runs it.
LEMMA CommitSession ==
    ASSUME IInv, NEW s \in Sessions, NEW d, NEW fresh, NEW out,
           CommitUpload(s, d, fresh, out), UNCHANGED <<namespace, storage>>
    PROVE  /\ row' \in [Sessions -> Row]
           /\ file' \in [Sessions -> {"none", "listed", "elsewhere"}]
           /\ \A t \in Sessions \ {s} : row'[t] = row[t] /\ file'[t] = file[t]
           /\ row'[s].digest = row[s].digest
           /\ SessionOK(s)' /\ Evolves(s) /\ OneItemPerName'
  <1>1. SessionOK(s)
    BY Zenon DEF IInv
  <1>2. UNCHANGED <<multipart, object, other>>
    BY Zenon DEF storage, namespace
  <1>3. /\ row' \in [Sessions -> Row]
        /\ \/ row' = row /\ file' = file
           \/ /\ row[s].status = "object_completed"
              /\ row'[s].status = "failed"
              /\ file' = file
           \/ /\ row[s].status = "object_completed"
              /\ row'[s].status = "committed"
              /\ file[s] = "none"
              /\ ~NameExists(Target[s])
              /\ file' = [file EXCEPT ![s] = "listed"]
        /\ row'[s].digest = row[s].digest
        /\ \A t \in Sessions \ {s} : row'[t] = row[t]
    BY Types, CommitFacts, Zenon
  <1>4. /\ file' \in [Sessions -> {"none", "listed", "elsewhere"}]
        /\ \A t \in Sessions \ {s} : file'[t] = file[t]
        /\ file' # file => file'[s] = "listed"
    BY <1>3, Types
  <1>5. SessionOK(s)' /\ Evolves(s)
    BY <1>1, <1>2, <1>3, <1>4, Zenon DEF SessionOK, Evolves, Advances, Terminal
  <1>6. OneItemPerName'
    <2>1. CASE file' = file
      BY <2>1, NamesFrame, Zenon
    <2>2. CASE ~NameExists(Target[s]) /\ file' = [file EXCEPT ![s] = "listed"]
      BY <1>2, <1>4, <2>2, Types DEF OneItemPerName, NameExists, IInv
    <2> QED
      BY <1>3, <2>1, <2>2, Zenon
  <1> QED
    BY <1>3, <1>4, <1>5, <1>6, Zenon

LEMMA CommitStepOK ==
    ASSUME IInv, NEW r \in Requests, NEW s \in Sessions, NEW d, NEW fresh, NEW out,
           CommitUpload(s, d, fresh, out), UNCHANGED <<elapsed, namespace, storage>>,
           req' \in [Requests -> Req],
           \A q \in Requests \ {r} : req'[q] = req[q], HandlerOK(r)'
    PROVE  StepOK
  <1>1. UNCHANGED <<multipart, object>>
    BY Zenon DEF storage
  <1>2. /\ row' \in [Sessions -> Row]
        /\ file' \in [Sessions -> {"none", "listed", "elsewhere"}]
        /\ \A t \in Sessions \ {s} : row'[t] = row[t] /\ file'[t] = file[t]
        /\ SessionOK(s)' /\ Evolves(s) /\ OneItemPerName'
    BY CommitSession, Zenon
  <1>3. TypeOK'
    BY <1>1, <1>2, Types, TypeFrame, Zenon
  <1> QED
    BY <1>1, <1>2, <1>3, Combine, Zenon

LEMMA ReplayStep ==
    ASSUME IInv, NEW r \in Requests, Replay(r)
    PROVE  StepOK
  <1>1. PICK s \in Sessions, d \in {req[r].digest} :
            /\ Session(r) = s /\ req[r].digest = d
            /\ row[s].status = "committed" /\ row[s].digest = d
    BY Runs, Zenon DEF Replay, IInv, HandlerOK, Session
  <1>2. PICK out : /\ CommitUpload(s, d, FALSE, out)
                   /\ (out = "replayed" /\ Ack(r)) \/ Stop(r)
    BY <1>1, Zenon DEF Replay
  <1>3. row'[s].status = "committed" /\ row'[s].digest = d
    BY <1>1, <1>2, Types, CommitFacts, Zenon
  <1>4. /\ req' \in [Requests -> Req]
        /\ \A q \in Requests \ {r} : req'[q] = req[q]
        /\ HandlerOK(r)'
    <2>1. CASE Stop(r)
      BY <2>1, Types, StopFacts, IdleOK, Zenon
    <2>2. CASE Ack(r)
      <3>1. /\ req' \in [Requests -> Req]
            /\ req'[r].pc = "acked" /\ req'[r].session = s /\ req'[r].digest = d
            /\ \A q \in Requests \ {r} : req'[q] = req[q]
        BY <1>1, <2>2, Types, AckFacts, Zenon DEF Session
      <3> QED
        BY <1>3, <3>1, Zenon DEF HandlerOK
    <2> QED
      BY <1>2, <2>1, <2>2, Zenon
  <1> QED
    BY <1>2, <1>4, CommitStepOK, Zenon DEF Replay

LEMMA CommitStep ==
    ASSUME IInv, NEW r \in Requests, Commit(r)
    PROVE  StepOK
  <1>1. PICK s \in Sessions, d \in {req[r].digest} : Session(r) = s /\ req[r].digest = d
    BY Runs, Zenon DEF Commit
  <1>2. PICK out : /\ CommitUpload(s, d, TRUE, out)
                   /\ \/ out \in {"committed", "replayed"} /\ Ack(r)
                      \/ out \in {"name_conflict", "not_found"} /\ Goto(r, "delete")
                      \/ Stop(r)
    BY <1>1, Zenon DEF Commit
  <1>3. /\ row'[s].digest = row[s].digest
        /\ out \in {"committed", "replayed"}
           => row'[s].status = "committed" /\ row[s].digest = d
        /\ out \in {"name_conflict", "not_found"} => row'[s].status = "failed"
    BY <1>2, Types, CommitFacts, Zenon
  <1>4. /\ req' \in [Requests -> Req]
        /\ \A q \in Requests \ {r} : req'[q] = req[q]
        /\ HandlerOK(r)'
    <2>1. CASE Stop(r)
      BY <2>1, Types, StopFacts, IdleOK, Zenon
    <2>2. CASE out \in {"committed", "replayed"} /\ Ack(r)
      <3>1. /\ req' \in [Requests -> Req]
            /\ req'[r].pc = "acked" /\ req'[r].session = s /\ req'[r].digest = d
            /\ \A q \in Requests \ {r} : req'[q] = req[q]
        BY <1>1, <2>2, Types, AckFacts, Zenon DEF Session
      <3> QED
        BY <1>3, <2>2, <3>1, Zenon DEF HandlerOK
    <2>3. CASE out \in {"name_conflict", "not_found"} /\ Goto(r, "delete")
      <3>1. /\ req' \in [Requests -> Req]
            /\ req'[r].pc = "delete" /\ req'[r].session = s
            /\ \A q \in Requests \ {r} : req'[q] = req[q]
        BY <1>1, <2>3, Types, GotoFacts, PcValues, Zenon DEF Session
      <3> QED
        BY <1>3, <2>3, <3>1, Zenon DEF HandlerOK
    <2> QED
      BY <1>2, <2>1, <2>2, <2>3, Zenon
  <1> QED
    BY <1>2, <1>4, CommitStepOK, Zenon DEF Commit

\* A storage call of handler r on the multipart upload or object of session s.
LEMMA StorageStep ==
    ASSUME IInv, NEW r \in Requests, NEW s \in Sessions,
           UNCHANGED <<db, elapsed, namespace>>,
           multipart' \in [Sessions -> {"open", "gone"}],
           object' \in [Sessions -> Content \cup {"absent"}],
           \A t \in Sessions \ {s} :
               multipart'[t] = multipart[t] /\ object'[t] = object[t],
           req' \in [Requests -> Req],
           \A q \in Requests \ {r} : req'[q] = req[q],
           Evolves(s), SessionOK(s)', HandlerOK(r)'
    PROVE  StepOK
  <1>1. UNCHANGED <<row, file>>
    BY Zenon DEF db
  <1>2. TypeOK'
    BY <1>1, Types, TypeFrame, Zenon
  <1>3. OneItemPerName'
    BY <1>1, NamesFrame, Zenon
  <1> QED
    BY <1>1, <1>2, <1>3, Combine, Zenon

LEMMA CompleteStep ==
    ASSUME IInv, NEW r \in Requests, Complete(r)
    PROVE  StepOK
  <1>1. PICK s \in Sessions, d \in Digests :
            /\ Session(r) = s /\ req[r].digest = d /\ row[s].digest = d
            /\ row[s].status \in {"completing", "object_completed",
                                  "committed", "failed"}
            /\ req[r].pc = "complete"
    BY Runs, Zenon DEF Complete, IInv, HandlerOK, Session
  <1>2. PICK out \in {"ok", "invalid_request", "not_found", "unavailable"} :
            /\ CompleteMultipart(s, out)
            /\ SetReq(r, [req[r] EXCEPT !.pc = "stat", !.result = out])
    BY <1>1, Zenon DEF Complete
  <1>3. SessionOK(s) /\ UNCHANGED <<row, file>>
    BY Zenon DEF IInv, Complete, db
  <1>4. /\ multipart' \in [Sessions -> {"open", "gone"}]
        /\ object' \in [Sessions -> Content \cup {"absent"}]
        /\ \A t \in Sessions \ {s} :
               multipart'[t] = multipart[t] /\ object'[t] = object[t]
        /\ \/ multipart'[s] = multipart[s] /\ object'[s] = object[s]
           \/ multipart[s] = "open" /\ multipart'[s] = "gone"
    BY <1>2, Types DEF CompleteMultipart, storage
  <1>5. SessionOK(s)' /\ Evolves(s)
    BY <1>1, <1>3, <1>4, Zenon DEF SessionOK, Evolves, Advances
  <1>6. /\ req' \in [Requests -> Req]
        /\ req'[r].pc = "stat" /\ req'[r].session = s /\ req'[r].digest = d
        /\ req'[r].resumed = req[r].resumed
        /\ \A q \in Requests \ {r} : req'[q] = req[q]
    BY <1>1, <1>2, Types, ResultFacts, Zenon DEF Session
  <1>7. req[r].resumed = FALSE
    BY <1>1, Zenon DEF IInv, HandlerOK
  <1>8. HandlerOK(r)'
    BY <1>1, <1>3, <1>6, <1>7, Zenon DEF HandlerOK
  <1> QED
    BY <1>4, <1>5, <1>6, <1>8, StorageStep, Zenon DEF Complete

LEMMA StatStep ==
    ASSUME IInv, NEW r \in Requests, Stat(r)
    PROVE  StepOK
  <1>1. PICK s \in Sessions, d \in Digests :
            /\ Session(r) = s /\ req[r].digest = d /\ row[s].digest = d
            /\ row[s].status \in {"completing", "object_completed",
                                  "committed", "failed"}
            /\ req[r].resumed
               => row[s].status \in {"object_completed", "committed", "failed"}
    BY Runs, Zenon DEF Stat, IInv, HandlerOK, Session
  <1>2. UNCHANGED <<row, object, multipart>>
    BY Zenon DEF Stat, db, storage
  <1>3. \/ \E code \in FailureCode : GotoFail(r, code)
        \/ object[s] = "good" /\ Goto(r, "mark")
        \/ req[r].resumed /\ Goto(r, "commit")
    BY <1>1, CodeValues, Zenon DEF Stat
  <1>4. /\ req' \in [Requests -> Req]
        /\ req'[r].session = s /\ req'[r].digest = d
        /\ \A q \in Requests \ {r} : req'[q] = req[q]
        /\ \/ req'[r].pc = "fail"
           \/ object[s] = "good" /\ req'[r].pc = "mark"
           \/ req[r].resumed /\ req'[r].pc = "commit"
    <2>1. CASE \E code \in FailureCode : GotoFail(r, code)
      BY <1>1, <2>1, Types, GotoFailFacts, Zenon DEF Session
    <2>2. CASE object[s] = "good" /\ Goto(r, "mark")
      BY <1>1, <2>2, Types, GotoFacts, PcValues, Zenon DEF Session
    <2>3. CASE req[r].resumed /\ Goto(r, "commit")
      BY <1>1, <2>3, Types, GotoFacts, PcValues, Zenon DEF Session
    <2> QED
      BY <1>3, <2>1, <2>2, <2>3, Zenon
  <1>5. HandlerOK(r)'
    BY <1>1, <1>2, <1>4, Zenon DEF HandlerOK
  <1> QED
    BY <1>4, <1>5, LocalStep, Zenon DEF Stat

LEMMA FailStep ==
    ASSUME IInv, NEW r \in Requests, Fail(r)
    PROVE  StepOK
  <1>1. PICK s \in Sessions, d \in {req[r].digest}, code \in FailureCode :
            Session(r) = s /\ req[r].digest = d /\ req[r].code = code
    <2>1. req[r].code \in FailureCode
      BY Types, Zenon DEF Req
    <2>2. Session(r) \in Sessions
      BY Runs, Zenon DEF Fail
    <2> QED
      BY <2>1, <2>2, Zenon
  <1>2. PICK out : /\ FailUploadCompletion(s, d, code, out)
                   /\ \/ out = "ok" /\ Goto(r, "abort_multipart")
                      \/ out = "ok" /\ Goto(r, "delete")
                      \/ Stop(r)
    BY <1>1, Zenon DEF Fail
  <1>3. /\ row' \in [Sessions -> Row]
        /\ file' = file
        /\ \/ row' = row
           \/ /\ row[s].status = "completing"
              /\ row'[s].status = "failed"
              /\ row'[s].digest = row[s].digest
              /\ \A t \in Sessions \ {s} : row'[t] = row[t]
        /\ out = "ok" => row'[s].status = "failed"
    BY <1>2, Types, FailFacts, Zenon
  <1>4. SessionOK(s) /\ UNCHANGED <<multipart, object>>
    BY Zenon DEF IInv, Fail, storage
  <1>5. SessionOK(s)' /\ Evolves(s)
    BY <1>3, <1>4, Zenon DEF SessionOK, Evolves, Advances, Terminal
  <1>6. /\ req' \in [Requests -> Req]
        /\ \A q \in Requests \ {r} : req'[q] = req[q]
        /\ \/ req'[r].pc = "idle"
           \/ /\ out = "ok" /\ req'[r].session = s
              /\ req'[r].pc \in {"abort_multipart", "delete"}
    <2>1. CASE Stop(r)
      BY <2>1, Types, StopFacts, Zenon
    <2>2. CASE out = "ok" /\ Goto(r, "abort_multipart")
      BY <1>1, <2>2, Types, GotoFacts, PcValues, Zenon DEF Session
    <2>3. CASE out = "ok" /\ Goto(r, "delete")
      BY <1>1, <2>3, Types, GotoFacts, PcValues, Zenon DEF Session
    <2> QED
      BY <1>2, <2>1, <2>2, <2>3, Zenon
  <1>7. HandlerOK(r)'
    BY <1>3, <1>6, Zenon DEF HandlerOK
  <1> QED
    BY <1>3, <1>5, <1>6, <1>7, RowStep, Zenon DEF Fail

LEMMA MarkStep ==
    ASSUME IInv, NEW r \in Requests, Mark(r)
    PROVE  StepOK
  <1>1. PICK s \in Sessions, d \in Digests :
            /\ Session(r) = s /\ req[r].digest = d /\ row[s].digest = d
            /\ object[s] = "good" \/ row[s].status = "failed"
    BY Runs, Zenon DEF Mark, IInv, HandlerOK, Session
  <1>2. PICK out : /\ MarkObjectCompleted(s, out)
                   /\ (out = "ok" /\ Goto(r, "commit")) \/ Stop(r)
    BY <1>1, Zenon DEF Mark
  <1>3. /\ row' \in [Sessions -> Row]
        /\ file' = file
        /\ \/ row' = row
           \/ /\ row[s].status = "completing"
              /\ row'[s].status = "object_completed"
              /\ row'[s].digest = row[s].digest
              /\ \A t \in Sessions \ {s} : row'[t] = row[t]
        /\ out = "ok" => row'[s].status \in {"object_completed", "committed"}
    BY <1>2, Types, MarkObjectFacts, Zenon
  <1>4. SessionOK(s) /\ UNCHANGED <<multipart, object>>
    BY Zenon DEF IInv, Mark, storage
  <1>5. SessionOK(s)' /\ Evolves(s)
    BY <1>1, <1>3, <1>4, Zenon DEF SessionOK, Evolves, Advances, Terminal
  <1>6. /\ req' \in [Requests -> Req]
        /\ \A q \in Requests \ {r} : req'[q] = req[q]
        /\ \/ req'[r].pc = "idle"
           \/ /\ out = "ok" /\ req'[r].session = s /\ req'[r].digest = d
              /\ req'[r].pc = "commit"
    <2>1. CASE Stop(r)
      BY <2>1, Types, StopFacts, Zenon
    <2>2. CASE out = "ok" /\ Goto(r, "commit")
      BY <1>1, <2>2, Types, GotoFacts, PcValues, Zenon DEF Session
    <2> QED
      BY <1>2, <2>1, <2>2, Zenon
  <1>7. HandlerOK(r)'
    BY <1>1, <1>3, <1>6, Zenon DEF HandlerOK
  <1> QED
    BY <1>3, <1>5, <1>6, <1>7, RowStep, Zenon DEF Mark

LEMMA DeleteStep ==
    ASSUME IInv, NEW r \in Requests, Delete(r)
    PROVE  StepOK
  <1>1. PICK s \in Sessions : Session(r) = s /\ row[s].status = "failed"
    BY Runs, Zenon DEF Delete, IInv, HandlerOK, Session
  <1>2. SessionOK(s) /\ UNCHANGED <<row, file>>
    BY Zenon DEF IInv, Delete, db
  <1>3. /\ multipart' = multipart
        /\ object' \in [Sessions -> Content \cup {"absent"}]
        /\ \A t \in Sessions \ {s} : object'[t] = object[t]
        /\ object'[s] = "absent"
    BY <1>1, Types, Zenon DEF Delete, DeleteObject
  <1>4. SessionOK(s)' /\ Evolves(s)
    BY <1>1, <1>2, <1>3, Zenon DEF SessionOK, Evolves, Advances, Terminal
  <1>5. /\ req' \in [Requests -> Req]
        /\ req'[r].pc = "mark_clean" /\ req'[r].session = s
        /\ \A q \in Requests \ {r} : req'[q] = req[q]
    BY <1>1, Types, GotoFacts, PcValues, Zenon DEF Session, Delete
  <1>6. HandlerOK(r)'
    BY <1>1, <1>2, <1>5, Zenon DEF HandlerOK
  <1> QED
    BY <1>3, <1>4, <1>5, <1>6, Types, StorageStep, Zenon DEF Delete

LEMMA AbortPartsStep ==
    ASSUME IInv, NEW r \in Requests, AbortParts(r)
    PROVE  StepOK
  <1>1. PICK s \in Sessions :
            Session(r) = s /\ row[s].status \in {"aborted", "expired", "failed"}
    BY Runs, Zenon DEF AbortParts, IInv, HandlerOK, Session
  <1>2. SessionOK(s) /\ UNCHANGED <<row, file>>
    BY Zenon DEF IInv, AbortParts, db
  <1>3. /\ object' = object
        /\ multipart' \in [Sessions -> {"open", "gone"}]
        /\ \A t \in Sessions \ {s} : multipart'[t] = multipart[t]
        /\ multipart'[s] = "gone"
    BY <1>1, Types, Zenon DEF AbortParts, AbortMultipart
  <1>4. SessionOK(s)' /\ Evolves(s)
    BY <1>1, <1>2, <1>3, Zenon DEF SessionOK, Evolves, Advances, Terminal
  <1>5. /\ req' \in [Requests -> Req]
        /\ \/ req'[r].pc = "idle"
           \/ req'[r].pc = "mark_clean" /\ req'[r].session = s
        /\ \A q \in Requests \ {r} : req'[q] = req[q]
    <2>1. Stop(r) \/ Goto(r, "mark_clean")
      BY Zenon DEF AbortParts
    <2>2. CASE Stop(r)
      BY <2>2, Types, StopFacts, Zenon
    <2>3. CASE Goto(r, "mark_clean")
      BY <1>1, <2>3, Types, GotoFacts, PcValues, Zenon DEF Session
    <2> QED
      BY <2>1, <2>2, <2>3, Zenon
  <1>6. HandlerOK(r)'
    BY <1>1, <1>2, <1>3, <1>5, Zenon DEF HandlerOK
  <1> QED
    BY <1>3, <1>4, <1>5, <1>6, Types, StorageStep, Zenon DEF AbortParts

LEMMA MarkCleanStep ==
    ASSUME IInv, NEW r \in Requests, MarkClean(r)
    PROVE  StepOK
  <1>1. PICK s \in Sessions :
            /\ Session(r) = s
            /\ row[s].status \in {"aborted", "expired", "failed"}
            /\ row[s].status = "failed" \/ multipart[s] = "gone"
    BY Runs, Zenon DEF MarkClean, IInv, HandlerOK, Session
  <1>2. SessionOK(s) /\ UNCHANGED <<multipart, object>>
    BY Zenon DEF IInv, MarkClean, storage
  <1>3. /\ row' \in [Sessions -> Row]
        /\ file' = file
        /\ row'[s].status = row[s].status
        /\ row'[s].digest = row[s].digest
        /\ \A t \in Sessions \ {s} : row'[t] = row[t]
    BY <1>1, Types, CleanFacts, Zenon DEF MarkClean
  <1>4. SessionOK(s)' /\ Evolves(s)
    BY <1>1, <1>2, <1>3, Zenon DEF SessionOK, Evolves, Advances, Terminal
  <1>5. /\ req' \in [Requests -> Req]
        /\ req'[r].pc = "idle"
        /\ \A q \in Requests \ {r} : req'[q] = req[q]
    BY Types, StopFacts, Zenon DEF MarkClean
  <1> QED
    BY <1>3, <1>4, <1>5, IdleOK, RowStep, Zenon DEF MarkClean

\* AbortUpload to either target, followed by where the handler goes next.
LEMMA CancelStep ==
    ASSUME IInv, NEW r \in Requests, NEW s \in Sessions, Session(r) = s,
           NEW target \in {"aborted", "expired"}, NEW out,
           AbortUpload(s, target, out), UNCHANGED <<elapsed, namespace, storage>>,
           \/ Stop(r)
           \/ /\ out \in {"existing", "done"}
              /\ \/ /\ row'[s].status = "failed"
                    /\ Goto(r, "delete")
                 \/ Goto(r, "abort_multipart")
                 \/ Goto(r, "expire_multipart")
    PROVE  StepOK
  <1>1. SessionOK(s) /\ UNCHANGED <<multipart, object>>
    BY Zenon DEF IInv, storage
  <1>2. /\ row' \in [Sessions -> Row]
        /\ file' = file
        /\ \/ row' = row
           \/ /\ row[s].status \in {"created", "uploading"}
              /\ row'[s].status = target
              /\ row'[s].cleanup = "pending"
              /\ row'[s].digest = row[s].digest
              /\ \A t \in Sessions \ {s} : row'[t] = row[t]
        /\ out \in {"existing", "done"}
           => row'[s].status \in {"aborted", "expired", "failed"}
    BY Types, AbortFacts, Zenon
  <1>3. SessionOK(s)' /\ Evolves(s)
    BY <1>1, <1>2, Zenon DEF SessionOK, Evolves, Advances, Terminal
  <1>4. /\ req' \in [Requests -> Req]
        /\ \A q \in Requests \ {r} : req'[q] = req[q]
        /\ HandlerOK(r)'
    <2>1. CASE Stop(r)
      BY <2>1, Types, StopFacts, IdleOK, Zenon
    <2>2. ASSUME NEW pc \in {"delete", "abort_multipart", "expire_multipart"},
                 Goto(r, pc), out \in {"existing", "done"},
                 pc = "delete" => row'[s].status = "failed"
          PROVE  /\ req' \in [Requests -> Req]
                 /\ \A q \in Requests \ {r} : req'[q] = req[q]
                 /\ HandlerOK(r)'
      <3>1. /\ req' \in [Requests -> Req]
            /\ req'[r].pc = pc /\ req'[r].session = s
            /\ \A q \in Requests \ {r} : req'[q] = req[q]
        BY <2>2, Types, GotoFacts, PcValues, Zenon DEF Session
      <3> QED
        BY <1>2, <2>2, <3>1, Zenon DEF HandlerOK
    <2> QED
      BY <2>1, <2>2, Zenon
  <1> QED
    BY <1>2, <1>3, <1>4, RowStep, Zenon

LEMMA AbortStep ==
    ASSUME IInv, NEW r \in Requests, Abort(r)
    PROVE  StepOK
  <1>1. PICK s \in Sessions : Session(r) = s
    BY Runs, Zenon DEF Abort
  <1>2. PICK out : /\ AbortUpload(s, "aborted", out)
                   /\ \/ Stop(r)
                      \/ /\ out \in {"existing", "done"}
                         /\ \/ row'[s].status = "failed" /\ Goto(r, "delete")
                            \/ Goto(r, "abort_multipart")
    BY <1>1, Zenon DEF Abort
  <1> QED
    BY <1>1, <1>2, CancelStep, Zenon DEF Abort

LEMMA ExpireStep ==
    ASSUME IInv, NEW r \in Requests, Expire(r)
    PROVE  StepOK
  <1>1. PICK s \in Sessions : Session(r) = s
    BY Runs, Zenon DEF Expire
  <1>2. PICK out : /\ AbortUpload(s, "expired", out)
                   /\ \/ Stop(r)
                      \/ /\ out \in {"existing", "done"}
                         /\ Goto(r, "expire_multipart")
    BY <1>1, Zenon DEF Expire
  <1> QED
    BY <1>1, <1>2, CancelStep, Zenon DEF Expire

LEMMA ReadStep ==
    ASSUME IInv, NEW r \in Requests, Read(r)
    PROVE  StepOK
  <1>1. PICK s \in Sessions : Session(r) = s
    BY Runs, Zenon DEF Read
  <1>2. Goto(r, "expire") \/ Goto(r, "mark_uploading") \/ Stop(r)
    BY Zenon DEF Read
  <1>3. /\ req' \in [Requests -> Req]
        /\ \A q \in Requests \ {r} : req'[q] = req[q]
        /\ HandlerOK(r)'
    <2>1. CASE Stop(r)
      BY <2>1, Types, StopFacts, IdleOK, Zenon
    <2>2. ASSUME NEW pc \in {"expire", "mark_uploading"}, Goto(r, pc)
          PROVE  /\ req' \in [Requests -> Req]
                 /\ \A q \in Requests \ {r} : req'[q] = req[q]
                 /\ HandlerOK(r)'
      <3>1. /\ req' \in [Requests -> Req]
            /\ req'[r].pc = pc /\ req'[r].session = s
            /\ \A q \in Requests \ {r} : req'[q] = req[q]
        BY <1>1, <2>2, Types, GotoFacts, PcValues, Zenon DEF Session
      <3> QED
        BY <3>1, Zenon DEF HandlerOK
    <2> QED
      BY <1>2, <2>1, <2>2, Zenon
  <1> QED
    BY <1>3, LocalStep, Zenon DEF Read

LEMMA SignStep ==
    ASSUME IInv, NEW r \in Requests, Sign(r)
    PROVE  StepOK
  <1>1. PICK s \in Sessions : Session(r) = s
    BY Runs, Zenon DEF Sign
  <1>2. PICK out : MarkUploading(s, out)
    BY <1>1, Zenon DEF Sign
  <1>3. /\ row' \in [Sessions -> Row]
        /\ file' = file
        /\ \/ row' = row
           \/ /\ row[s].status = "created"
              /\ row'[s].status = "uploading"
              /\ row'[s].digest = row[s].digest
              /\ \A t \in Sessions \ {s} : row'[t] = row[t]
    BY <1>2, Types, MarkUploadingFacts, Zenon
  <1>4. SessionOK(s) /\ UNCHANGED <<multipart, object>>
    BY Zenon DEF IInv, Sign, storage
  <1>5. SessionOK(s)' /\ Evolves(s)
    BY <1>3, <1>4, Zenon DEF SessionOK, Evolves, Advances, Terminal
  <1>6. /\ req' \in [Requests -> Req]
        /\ req'[r].pc = "idle"
        /\ \A q \in Requests \ {r} : req'[q] = req[q]
    BY Types, StopFacts, Zenon DEF Sign
  <1> QED
    BY <1>3, <1>5, <1>6, IdleOK, RowStep, Zenon DEF Sign

-----------------------------------------------------------------------------
(* The rest of the system.  These steps move no handler and write no row.  *)

LEMMA Environment ==
    ASSUME IInv, TypeOK', UNCHANGED <<row, storage, req>>, OneItemPerName',
           \A s \in Sessions : file'[s] = "none" <=> file[s] = "none"
    PROVE  StepOK
  <1>1. UNCHANGED <<multipart, object>>
    BY Zenon DEF storage
  <1>2. \A s \in Sessions : SessionOK(s) /\ SessionOK(s)' /\ Evolves(s)
    BY <1>1, Zenon DEF IInv, SessionOK, Evolves, Advances
  <1>3. \A r \in Requests : HandlerOK(r)'
    BY <1>2, Stable, Zenon DEF IInv, Evolves
  <1> QED
    BY <1>2, <1>3, Zenon DEF IInv, StepOK

LEMMA ElapseStep ==
    ASSUME IInv, NEW s \in Sessions, Elapse(s)
    PROVE  StepOK
  <1>1. UNCHANGED <<row, file, parent, other, multipart, object, req>>
    BY Zenon DEF Elapse, db, namespace, storage
  <1>2. TypeOK'
    BY <1>1, Zenon DEF IInv, TypeOK, Elapse
  <1>3. OneItemPerName'
    BY <1>1, Zenon DEF IInv, OneItemPerName
  <1> QED
    BY <1>1, <1>2, <1>3, Environment, Zenon DEF storage

LEMMA SlotStep ==
    ASSUME IInv, NEW k \in Slots, ToggleParent(k) \/ TakeName(k) \/ FreeName(k)
    PROVE  StepOK
  <1>1. UNCHANGED <<row, file, elapsed, multipart, object, req>>
    BY Zenon DEF ToggleParent, TakeName, FreeName, db, storage
  <1>2. /\ parent' \in [Slots -> BOOLEAN]
        /\ other' \in [Slots -> BOOLEAN]
        /\ \A j \in Slots : other'[j] => \/ other[j]
                                          \/ ~NameExists(j)
    BY Zenon DEF IInv, TypeOK, ToggleParent, TakeName, FreeName
  <1>3. TypeOK'
    BY <1>1, <1>2, Zenon DEF IInv, TypeOK
  <1>4. OneItemPerName'
    BY <1>1, <1>2, TargetAssumption, Zenon DEF IInv, OneItemPerName, NameExists
  <1> QED
    BY <1>1, <1>3, <1>4, Environment, Zenon DEF storage

LEMMA FileStep ==
    ASSUME IInv, NEW s \in Sessions, FileLeaves(s) \/ FileReturns(s)
    PROVE  StepOK
  <1>1. UNCHANGED <<row, elapsed, parent, other, multipart, object, req>>
    BY Zenon DEF FileLeaves, FileReturns, namespace, storage
  <1>2. /\ file' \in [Sessions -> {"none", "listed", "elsewhere"}]
        /\ file[s] # "none" /\ file'[s] # "none"
        /\ \A t \in Sessions \ {s} : file'[t] = file[t]
        /\ file'[s] = "listed" => ~NameExists(Target[s])
    <2>1. file \in [Sessions -> {"none", "listed", "elsewhere"}]
      BY Zenon DEF IInv, TypeOK
    <2>2. CASE FileLeaves(s)
      BY <2>1, <2>2, Zenon DEF FileLeaves
    <2>3. CASE FileReturns(s)
      BY <2>1, <2>3, Zenon DEF FileReturns
    <2> QED BY <2>2, <2>3, Zenon
  <1>3. TypeOK'
    BY <1>1, <1>2, Zenon DEF IInv, TypeOK
  <1>4. OneItemPerName'
    BY <1>1, <1>2, Zenon DEF IInv, OneItemPerName, NameExists
  <1> QED
    BY <1>1, <1>2, <1>3, <1>4, Environment, Zenon DEF storage

-----------------------------------------------------------------------------
(* The inductive invariant, and the theorems it gives.                     *)

LEMMA InitOK == Init => IInv
  <1> SUFFICES ASSUME Init PROVE IInv
    BY Zenon
  <1>1. NewRow \in Row /\ NewRow.status = "created" /\ NewRow.digest = NoDigest
    BY CodeValues, Zenon DEF NewRow, Row, Status
  <1>2. Idle \in Req /\ Idle.pc = "idle"
    BY CodeValues, PcValues, Zenon DEF Idle, Handler, Req
  <1>3. TypeOK
    BY <1>1, <1>2, Zenon DEF Init, TypeOK
  <1>4. \A r \in Requests : HandlerOK(r)
    BY <1>2, Zenon DEF Init, HandlerOK
  <1>5. \A s \in Sessions : SessionOK(s)
    BY <1>1, Zenon DEF Init, SessionOK
  <1>6. OneItemPerName
    BY Zenon DEF Init, OneItemPerName
  <1> QED
    BY <1>3, <1>4, <1>5, <1>6, Zenon DEF IInv

LEMMA RequestStepOK ==
    ASSUME IInv, NEW r \in Requests, RequestStep(r)
    PROVE  StepOK
  <1>1. CASE \E s \in Sessions :
                \/ \E d \in Digests : Arrive(r, s, d, "begin")
                \/ Arrive(r, s, NoDigest, "abort")
                \/ Arrive(r, s, NoDigest, "read")
    BY <1>1, ArriveStep, Zenon
  <1>2. CASE Step(r)
    BY Zenon, <1>2, BeginStep, ReplayStep, CompleteStep, StatStep, FailStep, MarkStep,
       CommitStep, DeleteStep, AbortPartsStep, MarkCleanStep, AbortStep, ReadStep,
       SignStep, ExpireStep DEF Step
  <1>3. CASE Return(r)
    BY <1>3, ReturnStep, Zenon
  <1> QED
    BY <1>1, <1>2, <1>3, Zenon DEF RequestStep

LEMMA NextOK ==
    ASSUME IInv, [Next]_vars
    PROVE  StepOK
  <1>1. CASE \E r \in Requests : RequestStep(r)
    BY <1>1, RequestStepOK, Zenon
  <1>2. CASE \E s \in Sessions : Elapse(s)
    BY <1>2, ElapseStep, Zenon
  <1>3. CASE NamespaceStep
    BY <1>3, SlotStep, FileStep, Zenon DEF NamespaceStep
  <1>4. CASE UNCHANGED vars
    <2>1. UNCHANGED <<row, elapsed, parent, other, file, multipart, object, req>>
      BY <1>4, Zenon DEF vars
    <2>2. TypeOK' /\ OneItemPerName'
      BY <2>1, Zenon DEF IInv, TypeOK, OneItemPerName
    <2> QED
      BY <2>1, <2>2, Environment, Zenon DEF storage
  <1> QED
    BY <1>1, <1>2, <1>3, <1>4, Zenon DEF Next

\* IInv is an invariant of the request protocol.
THEOREM Invariance == Spec => []IInv
  <1>1. Init => IInv
    BY InitOK, Zenon
  <1>2. IInv /\ [Next]_vars => IInv'
    BY NextOK, Zenon DEF StepOK
  <1> QED
    BY <1>1, <1>2, PTL DEF Spec

\* Every variable keeps its type.
THEOREM TypeCorrect == Spec => []TypeOK
  BY Invariance, PTL DEF IInv

\* The commit transaction and the status of the session never disagree.
THEOREM FilesAreCommitted == Spec => []FileIffCommitted
  <1>1. IInv => FileIffCommitted
    BY Zenon DEF IInv, SessionOK, FileIffCommitted
  <1> QED
    BY <1>1, Invariance, PTL

\* Racing commits, renames and restores keep names unique.
THEOREM NamesUnique == Spec => []OneItemPerName
  BY Invariance, PTL DEF IInv

\* An acknowledged CompleteUpload stays true.
THEOREM AckHolds == Spec => []AckedIsCommitted
  <1>1. IInv => AckedIsCommitted
    BY Zenon DEF IInv, HandlerOK, SessionOK, AckedIsCommitted, Session
  <1> QED
    BY <1>1, Invariance, PTL

\* Completed cleanup of a cancelled session left nothing in storage.
THEOREM CancelledClean == Spec => []CancelledLeavesNothing
  <1>1. IInv => CancelledLeavesNothing
    BY Zenon DEF IInv, SessionOK, CancelledLeavesNothing
  <1> QED
    BY <1>1, Invariance, PTL

\* Terminal statuses are final.
THEOREM TerminalIsFinal == Spec => TerminalStable
  <1>1. IInv /\ [Next]_vars
        => [\A s \in Sessions : row[s].status \in Terminal
                                  => row'[s].status = row[s].status]_vars
    BY NextOK, Zenon DEF StepOK, Evolves, Advances
  <1> QED
    BY <1>1, Invariance, PTL DEF Spec, TerminalStable

\* Objects are deleted only for sessions that are already failed.
THEOREM DeletesFollowFailure == Spec => DeleteOnlyAfterFailed
  <1>1. IInv /\ [Next]_vars
        => [\A s \in Sessions : object[s] # "absent" /\ object'[s] = "absent"
                                  => row[s].status = "failed"]_vars
    BY NextOK, Zenon DEF StepOK, Evolves, Advances
  <1> QED
    BY <1>1, Invariance, PTL DEF Spec, DeleteOnlyAfterFailed

\* The part list of a session is frozen once.
THEOREM DigestIsFrozen == Spec => DigestFrozen
  <1>1. IInv /\ [Next]_vars
        => [\A s \in Sessions : row[s].digest # NoDigest
                                  => row'[s].digest = row[s].digest]_vars
    BY NextOK, Zenon DEF StepOK, Evolves, Advances
  <1> QED
    BY <1>1, Invariance, PTL DEF Spec, DigestFrozen

\* How a transaction may write the row of a session: nothing the lifecycle sees,
\* or one of its steps.
Stays(s, x) ==
    /\ row[s].status \in {"created", "uploading"} /\ x.status = "uploading"
    /\ x.digest = row[s].digest /\ x.cleanup = row[s].cleanup
    /\ file' = file
Freezes(s, x) ==
    /\ row[s].status \in {"created", "uploading"} /\ x.status = "completing"
    /\ x.digest \in Digests /\ x.cleanup = row[s].cleanup
    /\ file' = file
Stores(s, x) ==
    /\ row[s].status = "completing" /\ x.status = "object_completed"
    /\ object[s] = "good"
    /\ x.digest = row[s].digest /\ x.cleanup = row[s].cleanup
    /\ file' = file
Commits(s, x) ==
    /\ row[s].status = "object_completed" /\ x.status = "committed"
    /\ x.digest = row[s].digest /\ x.cleanup = row[s].cleanup
    /\ file' = [file EXCEPT ![s] = "listed"]
Cancels(s, x) ==
    /\ row[s].status \in {"created", "uploading"} /\ x.status \in {"aborted", "expired"}
    /\ x.digest = row[s].digest /\ x.cleanup = "pending"
    /\ file' = file
Refuses(s, x) ==
    /\ row[s].status \in {"completing", "object_completed"} /\ x.status = "failed"
    /\ x.digest = row[s].digest /\ x.cleanup = "pending"
    /\ file' = file
Cleans(s, x) ==
    /\ row[s].status \in {"aborted", "expired", "failed"} /\ x.status = row[s].status
    /\ x.digest = row[s].digest /\ x.cleanup = "complete"
    /\ file' = file

Moves(s, x) ==
    \/ Stays(s, x) \/ Freezes(s, x) \/ Stores(s, x) \/ Commits(s, x)
    \/ Cancels(s, x) \/ Refuses(s, x) \/ Cleans(s, x)

Writes(s) == \E x \in Row : SetRow(s, x) /\ Moves(s, x)

\* Nothing the lifecycle sees.
Quiet == row' = row /\ \A s \in Sessions : file'[s] = "none" <=> file[s] = "none"

-----------------------------------------------------------------------------
\* The row transactions.

LEMMA BeginWrites ==
    ASSUME IInv, NEW s \in Sessions, NEW d \in Digests, NEW late, NEW out,
           BeginComplete(s, d, late, out)
    PROVE  Quiet \/ Writes(s)
  <1> DEFINE x == [row[s] EXCEPT !.status = "completing", !.digest = d]
  <1>1. row[s] \in Row
    BY Types, Zenon
  <1>2. x \in Row /\ x.status = "completing" /\ x.digest = d /\ x.cleanup = row[s].cleanup
    BY <1>1, Zenon DEF Row, Status
  <1>3. CASE Keep
    BY <1>3, Zenon DEF Keep, db, Quiet
  <1>4. CASE /\ row[s].status \in {"created", "uploading"}
             /\ SetRow(s, x) /\ UNCHANGED file
    BY <1>2, <1>4, Zenon DEF Writes, Moves, Freezes
  <1> QED
    BY <1>3, <1>4, Zenon DEF BeginComplete

LEMMA SignWrites ==
    ASSUME IInv, NEW s \in Sessions, NEW out, MarkUploading(s, out)
    PROVE  Quiet \/ Writes(s)
  <1> DEFINE x == [row[s] EXCEPT !.status = "uploading"]
  <1>1. row[s] \in Row
    BY Types, Zenon
  <1>2. x \in Row /\ x.status = "uploading" /\ x.digest = row[s].digest
        /\ x.cleanup = row[s].cleanup
    BY <1>1, Zenon DEF Row, Status
  <1>3. CASE Keep
    BY <1>3, Zenon DEF Keep, db, Quiet
  <1>4. CASE row[s].status = "created" /\ SetRow(s, x) /\ UNCHANGED file
    BY <1>2, <1>4, Zenon DEF Writes, Moves, Stays
  <1> QED
    BY <1>3, <1>4, Zenon DEF MarkUploading

LEMMA FailWrites ==
    ASSUME IInv, NEW s \in Sessions, NEW d, NEW code \in FailureCode, NEW out,
           FailUploadCompletion(s, d, code, out)
    PROVE  Quiet \/ Writes(s)
  <1> DEFINE x == [row[s] EXCEPT !.status = "failed", !.failure = code, !.cleanup = "pending"]
  <1>1. row[s] \in Row
    BY Types, Zenon
  <1>2. x \in Row /\ x.status = "failed" /\ x.digest = row[s].digest /\ x.cleanup = "pending"
    BY <1>1, Zenon DEF Row, Status
  <1>3. CASE Keep
    BY <1>3, Zenon DEF Keep, db, Quiet
  <1>4. CASE row[s].status = "completing" /\ SetRow(s, x) /\ UNCHANGED file
    BY <1>2, <1>4, Zenon DEF Writes, Moves, Refuses
  <1> QED
    BY <1>3, <1>4, Zenon DEF FailUploadCompletion

LEMMA MarkWrites ==
    ASSUME IInv, NEW s \in Sessions, NEW out, MarkObjectCompleted(s, out),
           object[s] = "good" \/ row[s].status = "failed"
    PROVE  Quiet \/ Writes(s)
  <1> DEFINE x == [row[s] EXCEPT !.status = "object_completed"]
  <1>1. row[s] \in Row
    BY Types, Zenon
  <1>2. x \in Row /\ x.status = "object_completed" /\ x.digest = row[s].digest
        /\ x.cleanup = row[s].cleanup
    BY <1>1, Zenon DEF Row, Status
  <1>3. CASE Keep
    BY <1>3, Zenon DEF Keep, db, Quiet
  <1>4. CASE row[s].status = "completing" /\ SetRow(s, x) /\ UNCHANGED file
    BY <1>2, <1>4, Zenon DEF Writes, Moves, Stores
  <1> QED
    BY <1>3, <1>4, Zenon DEF MarkObjectCompleted

LEMMA CommitWrites ==
    ASSUME IInv, NEW s \in Sessions, NEW d, NEW fresh, NEW out,
           CommitUpload(s, d, fresh, out)
    PROVE  Quiet \/ Writes(s)
  <1> DEFINE x == [row[s] EXCEPT !.status = "committed"]
             y(code) == [row[s] EXCEPT !.status = "failed", !.failure = code,
                                       !.cleanup = "pending"]
  <1>1. row[s] \in Row
    BY Types, Zenon
  <1>2. x \in Row /\ x.status = "committed" /\ x.digest = row[s].digest
        /\ x.cleanup = row[s].cleanup
    BY <1>1, Zenon DEF Row, Status
  <1>3. ASSUME NEW code \in FailureCode
        PROVE  /\ y(code) \in Row /\ y(code).status = "failed"
               /\ y(code).digest = row[s].digest /\ y(code).cleanup = "pending"
    BY <1>1, Zenon DEF Row, Status
  <1>4. CASE Keep
    BY <1>4, Zenon DEF Keep, db, Quiet
  <1>5. ASSUME NEW code \in FailureCode, row[s].status = "object_completed", Reject(s, code)
        PROVE  Writes(s)
    BY <1>3, <1>5, Zenon DEF Reject, Writes, Moves, Refuses
  <1>6. CASE /\ row[s].status = "object_completed" /\ SetRow(s, x)
             /\ file' = [file EXCEPT ![s] = "listed"]
    BY <1>2, <1>6, Zenon DEF Writes, Moves, Commits
  <1>7. "parent_unavailable" \in FailureCode /\ "name_conflict" \in FailureCode
    BY CodeValues, Zenon
  <1> QED
    BY <1>4, <1>5, <1>6, <1>7, Zenon DEF CommitUpload

LEMMA AbortWrites ==
    ASSUME IInv, NEW s \in Sessions, NEW target \in {"aborted", "expired"}, NEW out,
           AbortUpload(s, target, out)
    PROVE  Quiet \/ Writes(s)
  <1> DEFINE x == [row[s] EXCEPT !.status = target, !.cleanup = "pending"]
  <1>1. row[s] \in Row
    BY Types, Zenon
  <1>2. x \in Row /\ x.status = target /\ x.digest = row[s].digest /\ x.cleanup = "pending"
    BY <1>1, Zenon DEF Row, Status
  <1>3. CASE Keep
    BY <1>3, Zenon DEF Keep, db, Quiet
  <1>4. CASE /\ row[s].status \in {"created", "uploading"}
             /\ SetRow(s, x) /\ UNCHANGED file
    BY <1>2, <1>4, Zenon DEF Writes, Moves, Cancels
  <1> QED
    BY <1>3, <1>4, Zenon DEF AbortUpload

LEMMA CleanWrites ==
    ASSUME IInv, NEW s \in Sessions, MarkUploadCleanupComplete(s)
    PROVE  Quiet \/ Writes(s)
  <1> DEFINE x == [row[s] EXCEPT !.cleanup = "complete", !.error = FALSE]
  <1>1. row[s] \in Row
    BY Types, Zenon
  <1>2. x \in Row /\ x.status = row[s].status /\ x.digest = row[s].digest
        /\ x.cleanup = "complete"
    BY <1>1, Zenon DEF Row, Status
  <1>3. CASE row[s].status \in {"aborted", "expired", "failed"}
    BY <1>2, <1>3, Zenon DEF MarkUploadCleanupComplete, Writes, Moves, Cleans
  <1>4. CASE row[s].status \notin {"aborted", "expired", "failed"}
    BY <1>4, Zenon DEF MarkUploadCleanupComplete, Quiet
  <1> QED
    BY <1>3, <1>4, Zenon

-----------------------------------------------------------------------------
\* Every step of the protocol is quiet or writes one row.

Seen == Quiet \/ \E s \in Sessions : Writes(s)

LEMMA StepWrites ==
    ASSUME IInv, NEW r \in Requests, Step(r)
    PROVE  Quiet \/ Writes(Session(r))
  <1> DEFINE s == Session(r)
  <1>1. s \in Sessions
    <2>1. req[r].pc # "idle"
      BY Zenon DEF Step, Begin, Replay, Complete, Stat, Fail, Mark, Commit, Delete, AbortParts,
             MarkClean, Abort, Read, Sign, Expire
    <2> QED BY <2>1, Runs, Zenon
  <1>2. CASE Begin(r)
    <2>1. req[r].digest \in Digests
      BY <1>2, Zenon DEF Begin, IInv, HandlerOK
    <2>2. PICK out : BeginComplete(s, req[r].digest, req[r].late, out)
      BY <1>2, Zenon DEF Begin
    <2> QED BY <1>1, <2>1, <2>2, BeginWrites, Zenon
  <1>3. CASE Replay(r)
    <2>1. PICK out : CommitUpload(s, req[r].digest, FALSE, out)
      BY <1>3, Zenon DEF Replay
    <2> QED BY <1>1, <2>1, CommitWrites, Zenon
  <1>4. CASE Complete(r) \/ Stat(r) \/ Delete(r) \/ AbortParts(r) \/ Read(r)
    BY <1>4, Zenon DEF Complete, Stat, Delete, AbortParts, Read, db, Quiet
  <1>5. CASE Fail(r)
    <2>1. req[r].code \in FailureCode
      BY Types, Zenon DEF Req
    <2>2. PICK out : FailUploadCompletion(s, req[r].digest, req[r].code, out)
      BY <1>5, Zenon DEF Fail
    <2> QED BY <1>1, <2>1, <2>2, FailWrites, Zenon
  <1>6. CASE Mark(r)
    <2>1. PICK out : MarkObjectCompleted(s, out)
      BY <1>6, Zenon DEF Mark
    <2>2. object[s] = "good" \/ row[s].status = "failed"
      BY <1>6, Zenon DEF Mark, IInv, HandlerOK, Session
    <2> QED BY <1>1, <2>1, <2>2, MarkWrites, Zenon
  <1>7. CASE Commit(r)
    <2>1. PICK out : CommitUpload(s, req[r].digest, TRUE, out)
      BY <1>7, Zenon DEF Commit
    <2> QED BY <1>1, <2>1, CommitWrites, Zenon
  <1>8. CASE MarkClean(r)
    <2>1. MarkUploadCleanupComplete(s)
      BY <1>8, Zenon DEF MarkClean
    <2> QED BY <1>1, <2>1, CleanWrites, Zenon
  <1>9. CASE Abort(r)
    <2>1. PICK out : AbortUpload(s, "aborted", out)
      BY <1>9, Zenon DEF Abort
    <2> QED BY <1>1, <2>1, AbortWrites, Zenon
  <1>10. CASE Sign(r)
    <2>1. PICK out : MarkUploading(s, out)
      BY <1>10, Zenon DEF Sign
    <2> QED BY <1>1, <2>1, SignWrites, Zenon
  <1>11. CASE Expire(r)
    <2>1. PICK out : AbortUpload(s, "expired", out)
      BY <1>11, Zenon DEF Expire
    <2> QED BY <1>1, <2>1, AbortWrites, Zenon
  <1> QED
    BY <1>2, <1>3, <1>4, <1>5, <1>6, <1>7, <1>8, <1>9, <1>10, <1>11, Zenon DEF Step

LEMMA StepSeen ==
    ASSUME IInv, NEW r \in Requests, Step(r)
    PROVE  Seen
  <1>1. Quiet \/ Writes(Session(r))
    BY StepWrites, Zenon
  <1>2. Session(r) \in Sessions
    <2>1. req[r].pc # "idle"
      BY Zenon DEF Step, Begin, Replay, Complete, Stat, Fail, Mark, Commit, Delete, AbortParts,
             MarkClean, Abort, Read, Sign, Expire
    <2> QED BY <2>1, Runs, Zenon
  <1> QED
    BY <1>1, <1>2, Zenon DEF Seen

LEMMA NextSeen ==
    ASSUME IInv, [Next]_vars
    PROVE  Seen
  <1>1. CASE \E r \in Requests : Step(r)
    BY <1>1, StepSeen, Zenon
  <1>2. CASE \E r \in Requests : Return(r)
    BY <1>2, Zenon DEF Return, db, Seen, Quiet
  <1>3. CASE \E r \in Requests, t \in Sessions, d \in Digests \cup {NoDigest},
                pc \in {"begin", "abort", "read"} : Arrive(r, t, d, pc)
    BY <1>3, Zenon DEF Arrive, db, Seen, Quiet
  <1>4. CASE \E t \in Sessions : Elapse(t)
    BY <1>4, Zenon DEF Elapse, db, Seen, Quiet
  <1>5. CASE \E k \in Slots : ToggleParent(k) \/ TakeName(k) \/ FreeName(k)
    BY <1>5, Zenon DEF ToggleParent, TakeName, FreeName, db, Seen, Quiet
  <1>6. CASE \E t \in Sessions : FileLeaves(t) \/ FileReturns(t)
    <2>1. PICK t \in Sessions : FileLeaves(t) \/ FileReturns(t)
      BY <1>6, Zenon
    <2>2. file \in [Sessions -> {"none", "listed", "elsewhere"}]
      BY Types, Zenon
    <2>3. row' = row
      BY <2>1, Zenon DEF FileLeaves, FileReturns
    <2>4. file[t] # "none" /\ file'[t] # "none" /\ \A u \in Sessions \ {t} : file'[u] = file[u]
      BY <2>1, <2>2, Zenon DEF FileLeaves, FileReturns
    <2> QED BY <2>3, <2>4, Zenon DEF Seen, Quiet
  <1>7. CASE UNCHANGED vars
    BY <1>7, Zenon DEF vars, Seen, Quiet
  <1> QED
    BY <1>1, <1>2, <1>3, <1>4, <1>5, <1>6, <1>7, Zenon DEF Next, RequestStep, NamespaceStep

-----------------------------------------------------------------------------
\* Requests store only what they verified.

Verified ==
    \A s \in Sessions : row[s].status \in {"object_completed", "committed"} => object[s] = "good"

LEMMA VerifiedKept ==
    ASSUME IInv, Verified, [Next]_vars
    PROVE  Verified'
  <1> SUFFICES ASSUME NEW s \in Sessions, row'[s].status \in {"object_completed", "committed"}
               PROVE  object'[s] = "good"
    BY Zenon DEF Verified
  <1>1. Evolves(s)
    BY NextOK, Zenon DEF StepOK
  <1>2. row[s].status # "failed" /\ object[s] = "good"
    <2>1. CASE row'[s] = row[s]
      BY <2>1, Zenon DEF Verified
    <2>2. CASE \E x \in Row : SetRow(s, x) /\ Moves(s, x)
      <3>1. PICK x \in Row : SetRow(s, x) /\ Moves(s, x)
        BY <2>2, Zenon
      <3>2. row'[s] = x
        BY <3>1, Types, SetRowFacts, Zenon
      <3> QED
        BY <3>1, <3>2, Zenon DEF Verified, Moves, Stays, Freezes, Stores, Commits, Cancels,
               Refuses, Cleans
    <2>3. CASE \E t \in Sessions \ {s} : Writes(t)
      BY <2>3, <2>1, Types, SetRowFacts, Zenon DEF Writes
    <2> QED
      BY <2>1, <2>2, <2>3, NextSeen, Zenon DEF Seen, Quiet, Writes
  <1> QED
    BY <1>1, <1>2, Zenon DEF Evolves, Advances

\* CommitUpload publishes only a verified object, and no handler, however
\* late it runs, deletes or replaces it.
THEOREM CommittedFileKept == Spec => []CommittedFileHasObject
  <1>1. Init => Verified
    <2>1. NewRow.status = "created"
      BY Zenon DEF NewRow
    <2>2. ASSUME Init, NEW s \in Sessions PROVE row[s].status = "created"
      BY <2>1, <2>2, Zenon DEF Init
    <2> QED BY <2>2, Zenon DEF Verified
  <1>2. IInv /\ Verified /\ [Next]_vars => Verified'
    BY VerifiedKept, Zenon
  <1>3. IInv /\ Verified => CommittedFileHasObject
    BY Zenon DEF IInv, SessionOK, Verified, CommittedFileHasObject
  <1> QED
    BY <1>1, <1>2, <1>3, Invariance, PTL DEF Spec

-----------------------------------------------------------------------------
\* Each of these is a step of the lifecycle.

LEMMA Stages ==
    /\ StageOf("created") = "open" /\ StageOf("uploading") = "open"
    /\ StageOf("completing") = "frozen" /\ StageOf("object_completed") = "stored"
    /\ StageOf("committed") = "committed" /\ StageOf("failed") = "refused"
    /\ StageOf("aborted") = "cancelled" /\ StageOf("expired") = "cancelled"
  BY Zenon DEF StageOf

\* What the lifecycle sees of a row that is written.
LEMMA SeenRow ==
    ASSUME IInv, NEW s \in Sessions, NEW x \in Row, SetRow(s, x)
    PROVE  /\ Stage' = [Stage EXCEPT ![s] = StageOf(x.status)]
           /\ Frozen' = [Frozen EXCEPT ![s] = x.digest]
           /\ Dirty' = IF x.cleanup = "pending" THEN Dirty \cup {s} ELSE Dirty \ {s}
           /\ Stage[s] = StageOf(row[s].status)
           /\ Frozen[s] = row[s].digest
           /\ s \in Dirty <=> row[s].cleanup = "pending"
  <1>1. /\ row'[s] = x /\ \A t \in Sessions \ {s} : row'[t] = row[t]
    BY SetRowFacts, Types, Zenon
  <1>2. Stage' = [Stage EXCEPT ![s] = StageOf(x.status)]
    BY <1>1, Zenon DEF Stage
  <1>3. Frozen' = [Frozen EXCEPT ![s] = x.digest]
    BY <1>1, Zenon DEF Frozen
  <1>4. Dirty' = IF x.cleanup = "pending" THEN Dirty \cup {s} ELSE Dirty \ {s}
    BY <1>1, Zenon DEF Dirty
  <1> QED
    BY <1>2, <1>3, <1>4, Zenon DEF Stage, Frozen, Dirty

LEMMA NoClaims == Unclaimed' = Unclaimed
  BY Zenon DEF Unclaimed

LEMMA SameMade ==
    ASSUME file' = file
    PROVE  Made' = Made
  BY Zenon DEF Made

LEMMA WriteRefines ==
    ASSUME IInv, NEW s \in Sessions, Writes(s)
    PROVE  [Lifecycle!LifecycleNext]_(Lifecycle!lifecycleVars)
  <1>1. PICK x \in Row : SetRow(s, x) /\ Moves(s, x)
    BY Zenon DEF Writes
  <1>2. /\ Stage' = [Stage EXCEPT ![s] = StageOf(x.status)]
        /\ Frozen' = [Frozen EXCEPT ![s] = x.digest]
        /\ Dirty' = IF x.cleanup = "pending" THEN Dirty \cup {s} ELSE Dirty \ {s}
        /\ Stage[s] = StageOf(row[s].status)
        /\ Frozen[s] = row[s].digest
        /\ s \in Dirty <=> row[s].cleanup = "pending"
    BY <1>1, SeenRow, Zenon
  <1>3. Stage = [t \in Sessions |-> Stage[t]] /\ Frozen = [t \in Sessions |-> Frozen[t]]
    BY Zenon DEF Stage, Frozen
  <1>4. x.digest = row[s].digest => Frozen' = Frozen
    BY <1>2, <1>3, Zenon
  <1>5. x.cleanup = row[s].cleanup => Dirty' = Dirty
    BY <1>2, Zenon
  <1>6. CASE Stays(s, x)
    <2>1. Stage' = Stage
      <3>1. StageOf(x.status) = StageOf(row[s].status)
        BY <1>6, Stages, Zenon DEF Stays
      <3> QED BY <1>2, <1>3, <3>1, Zenon
    <2> QED BY <2>1, <1>4, <1>5, <1>6, SameMade, NoClaims, Zenon DEF Stays, Lifecycle!lifecycleVars
  <1>7. CASE Freezes(s, x)
    <2>1. Lifecycle!Freeze(s, x.digest)
      BY <1>2, <1>5, <1>7, SameMade, NoClaims, Stages, Zenon DEF Freezes, Lifecycle!Freeze, Lifecycle!Enter
    <2> QED BY <2>1, <1>7, Zenon DEF Freezes, Lifecycle!LifecycleNext
  <1>8. CASE Stores(s, x)
    <2>1. Lifecycle!Store(s)
      BY <1>2, <1>4, <1>5, <1>8, SameMade, NoClaims, Stages, Zenon DEF Stores, Lifecycle!Store, Lifecycle!Enter
    <2> QED BY <2>1, Zenon DEF Lifecycle!LifecycleNext
  <1>9. CASE Commits(s, x)
    <2>1. Made' = Made \cup {s}
      <3>1. file \in [Sessions -> {"none", "listed", "elsewhere"}]
        BY Types, Zenon
      <3> QED BY <3>1, <1>9, Zenon DEF Commits, Made
    <2>2. Lifecycle!Commit(s)
      BY <1>2, <1>4, <1>5, <1>9, <2>1, NoClaims, Stages, Zenon DEF Commits, Lifecycle!Commit, Lifecycle!Enter
    <2> QED BY <2>2, Zenon DEF Lifecycle!LifecycleNext
  <1>10. CASE Cancels(s, x)
    <2>1. Lifecycle!Cancel(s)
      BY <1>2, <1>4, <1>10, SameMade, NoClaims, Stages, Zenon DEF Cancels, Lifecycle!Cancel, Lifecycle!Enter
    <2> QED BY <2>1, Zenon DEF Lifecycle!LifecycleNext
  <1>11. CASE Refuses(s, x)
    <2>1. Lifecycle!Refuse(s)
      BY <1>2, <1>4, <1>11, SameMade, NoClaims, Stages, Zenon DEF Refuses, Lifecycle!Refuse, Lifecycle!Enter
    <2> QED BY <2>1, Zenon DEF Lifecycle!LifecycleNext
  <1>12. CASE Cleans(s, x)
    <2>1. Stage' = Stage
      BY <1>2, <1>3, <1>12, Zenon DEF Cleans
    <2>2. Lifecycle!Clean(s)
      BY <1>2, <1>4, <1>12, <2>1, SameMade, NoClaims, Stages DEF Cleans, Lifecycle!Clean
    <2> QED BY <2>2, Zenon DEF Lifecycle!LifecycleNext
  <1> QED
    BY <1>1, <1>6, <1>7, <1>8, <1>9, <1>10, <1>11, <1>12, Zenon DEF Moves

LEMMA QuietRefines ==
    ASSUME Quiet
    PROVE  UNCHANGED Lifecycle!lifecycleVars
  <1>1. Stage' = Stage /\ Frozen' = Frozen /\ Dirty' = Dirty
    BY Zenon DEF Quiet, Stage, Frozen, Dirty
  <1>2. Made' = Made
    BY Zenon DEF Quiet, Made
  <1> QED
    BY <1>1, <1>2, NoClaims, Zenon DEF Lifecycle!lifecycleVars

LEMMA LifecycleStarts == Init => Lifecycle!LifecycleInit
  <1> SUFFICES ASSUME Init PROVE Lifecycle!LifecycleInit
    BY Zenon
  <1>1. /\ NewRow.status = "created" /\ NewRow.digest = NoDigest /\ NewRow.cleanup = "none"
    BY Zenon DEF NewRow
  <1>2. Stage = [s \in Sessions |-> "open"] /\ Frozen = [s \in Sessions |-> NoDigest]
    BY <1>1, Stages, Zenon DEF Init, Stage, Frozen
  <1>3. Made = {} /\ Dirty = {}
    BY <1>1, Zenon DEF Init, Made, Dirty
  <1> QED
    BY <1>2, <1>3, Zenon DEF Lifecycle!LifecycleInit, Unclaimed

LEMMA LifecycleSteps ==
    ASSUME IInv, [Next]_vars
    PROVE  [Lifecycle!LifecycleNext]_(Lifecycle!lifecycleVars)
  BY NextSeen, WriteRefines, QuietRefines, Zenon DEF Seen

\* The request protocol implements the lifecycle its clients rely on: whatever
\* requests run at the same time, are cut short or come late, each session takes
\* only the steps of UploadLifecycle.
THEOREM LifecycleImplemented == Spec => ImplementsUploadLifecycle
  <1>1. Init => Lifecycle!LifecycleInit
    BY LifecycleStarts, Zenon
  <1>2. IInv /\ [Next]_vars => [Lifecycle!LifecycleNext]_(Lifecycle!lifecycleVars)
    BY LifecycleSteps, Zenon
  <1> QED
    BY <1>1, <1>2, Invariance, PTL DEF Spec, ImplementsUploadLifecycle, Lifecycle!LifecycleSpec

-----------------------------------------------------------------------------
(***************************************************************************)
(* The maintenance loops beside the requests (UploadMaintenance).  Jobs    *)
(* act on what their claim saw, while handlers and other loops go on, and  *)
(* after their lease has lapsed.  JobOK is all a job relies on: a deletion *)
(* meets a failed session or an object that was never good, and a mark an  *)
(* object of the declared size.                                            *)
(***************************************************************************)
JobPc == {"idle", "cleanup", "stat", "delete", "mark", "commit", "finish"}
Job == [pc : JobPc, seen : Status, failure : FailureCode, digest : Digests \cup {NoDigest},
        status : Status, complete : BOOLEAN, error : BOOLEAN]

\* What a job j may rely on in its session s.
Relies(j, s) ==
    /\ j.pc = "cleanup" /\ j.seen = "failed" => row[s].status = "failed"
    /\ j.pc = "stat" => j.seen # "failed"
    /\ j.pc = "delete"
       => \/ row[s].status = "failed"
          \/ multipart[s] = "gone" /\ object[s] \in {"wrong_size", "absent"}
    /\ j.pc = "mark"
       => row[s].status = "failed" \/ object[s] \in {"good", "wrong_checksum"}

JobOK(w, s) == Relies(job[w][s], s)

LoopInv ==
    /\ IInv
    /\ job \in [Workers -> [Sessions -> Job]]
    /\ \A w \in Workers, s \in Sessions : JobOK(w, s)

LoopStepOK == LoopInv' /\ \A s \in Sessions : Advances(s)

-----------------------------------------------------------------------------
\* Jobs.

LEMMA SetJobFacts ==
    ASSUME job \in [Workers -> [Sessions -> Job]], NEW w \in Workers, NEW s \in Sessions,
           NEW x \in Job, SetJob(w, s, x)
    PROVE  /\ job' \in [Workers -> [Sessions -> Job]]
           /\ job'[w][s] = x
           /\ \A v \in Workers, t \in Sessions : v # w \/ t # s => job'[v][t] = job[v][t]
  <1>1. job' = [job EXCEPT ![w] = [job[w] EXCEPT ![s] = x]]
    BY DEF SetJob
  <1>2. job[w] \in [Sessions -> Job] /\ [job[w] EXCEPT ![s] = x] \in [Sessions -> Job]
    BY Zenon
  <1>3. job'[w] = [job[w] EXCEPT ![s] = x] /\ \A v \in Workers \ {w} : job'[v] = job[v]
    BY <1>1, Zenon
  <1>4. job' \in [Workers -> [Sessions -> Job]]
    BY <1>1, <1>2, Zenon
  <1>5. job'[w][s] = x /\ \A t \in Sessions \ {s} : job'[w][t] = job[w][t]
    BY <1>2, <1>3, Zenon
  <1> QED
    BY <1>3, <1>4, <1>5, Zenon

\* The next call is finishUpload.
LEMMA ToFinishFacts ==
    ASSUME NEW w \in Workers, NEW s \in Sessions, NEW st \in Status,
           NEW c \in BOOLEAN, NEW e \in BOOLEAN, ToFinish(w, s, st, c, e)
    PROVE  \E x \in Job : SetJob(w, s, x) /\ x.pc = "finish"
  <1> DEFINE x == [NoJob EXCEPT !.pc = "finish", !.status = st, !.complete = c, !.error = e]
  <1>1. x \in Job /\ x.pc = "finish"
    BY CodeValues DEF NoJob, Job, JobPc, Status
  <1>2. SetJob(w, s, x)
    BY Zenon DEF ToFinish
  <1> HIDE DEF x
  <1> QED BY <1>1, <1>2, Zenon

\* Another call on the same claim.
LEMMA TurnFacts ==
    ASSUME NEW j \in Job, NEW pc \in JobPc
    PROVE  /\ [j EXCEPT !.pc = pc] \in Job
           /\ [j EXCEPT !.pc = pc].pc = pc
           /\ [j EXCEPT !.pc = pc].seen = j.seen
  BY DEF Job

LEMMA IdleJob == NoJob \in Job /\ NoJob.pc = "idle"
  BY CodeValues, Zenon DEF NoJob, Job, JobPc, Status

\* What a job relies on survives the steps of handlers and of other loops.
LEMMA ReliesStable ==
    ASSUME NEW j, NEW s \in Sessions, Relies(j, s), Advances(s)
    PROVE  Relies(j, s)'
  <1>1. row[s].status = "failed" => row'[s].status = "failed"
    BY Zenon DEF Advances, Terminal
  <1>2. multipart[s] = "gone" /\ object[s] \in {"wrong_size", "absent"}
        => multipart'[s] = "gone" /\ object'[s] \in {"wrong_size", "absent"}
    BY Zenon DEF Advances
  <1>3. object[s] \in {"good", "wrong_checksum"}
        => object'[s] \in {"good", "wrong_checksum"} \/ row[s].status = "failed"
    BY Zenon DEF Advances
  <1> QED
    BY <1>1, <1>2, <1>3, Zenon DEF Relies

\* A step that keeps IInv and sets at most job x of worker w on session s.
LEMMA JobStep ==
    ASSUME LoopInv, IInv', \A t \in Sessions : Advances(t),
           NEW w \in Workers, NEW s \in Sessions, NEW x \in Job, SetJob(w, s, x),
           Relies(x, s)'
    PROVE  LoopStepOK
  <1>1. /\ job' \in [Workers -> [Sessions -> Job]]
        /\ job'[w][s] = x
        /\ \A v \in Workers, t \in Sessions : v # w \/ t # s => job'[v][t] = job[v][t]
    BY SetJobFacts, Zenon DEF LoopInv
  <1>2. JobOK(w, s)'
    BY <1>1, Zenon DEF JobOK, Relies
  <1>3. ASSUME NEW v \in Workers, NEW t \in Sessions, v # w \/ t # s
        PROVE  JobOK(v, t)'
    <2>1. PICK j \in Job : j = job[v][t] /\ j = job'[v][t]
      BY <1>1, <1>3, Zenon DEF LoopInv
    <2>2. Relies(j, t)
      BY <2>1, Zenon DEF LoopInv, JobOK
    <2>3. Relies(j, t)'
      BY <2>2, ReliesStable, Zenon
    <2> QED
      BY <2>1, <2>3, Zenon DEF JobOK, Relies
  <1> QED
    BY <1>1, <1>2, <1>3, Zenon DEF LoopStepOK, LoopInv

\* A step that sets no job.
LEMMA OtherStep ==
    ASSUME LoopInv, IInv', \A t \in Sessions : Advances(t), job' = job
    PROVE  LoopStepOK
  <1>1. ASSUME NEW v \in Workers, NEW t \in Sessions PROVE JobOK(v, t)'
    <2>1. PICK j \in Job : j = job[v][t] /\ j = job'[v][t]
      BY Zenon DEF LoopInv
    <2>2. Relies(j, t)
      BY <2>1, Zenon DEF LoopInv, JobOK
    <2>3. Relies(j, t)'
      BY <2>2, ReliesStable, Zenon
    <2> QED
      BY <2>1, <2>3, Zenon DEF JobOK, Relies
  <1> QED
    BY <1>1, Zenon DEF LoopStepOK, LoopInv

\* A call of a loop that touches at most session s.
LEMMA CallCombine ==
    ASSUME IInv, NEW s \in Sessions, TypeOK', UNCHANGED req,
           \A t \in Sessions \ {s} :
               /\ row'[t] = row[t] /\ file'[t] = file[t]
               /\ multipart'[t] = multipart[t] /\ object'[t] = object[t],
           Advances(s), SessionOK(s)', OneItemPerName'
    PROVE  IInv' /\ \A t \in Sessions : Advances(t)
  <1>1. \A t \in Sessions : SessionOK(t)
    BY Zenon DEF IInv
  <1>2. \A t \in Sessions \ {s} : SessionOK(t)' /\ Evolves(t)
    BY <1>1, Frame, Zenon
  <1>3. \A t \in Sessions : SessionOK(t)' /\ Advances(t)
    BY <1>2, Zenon DEF Evolves
  <1>4. \A q \in Requests : HandlerOK(q)'
    <2> TAKE q \in Requests
    <2>1. HandlerOK(q) /\ req'[q] = req[q]
      BY Zenon DEF IInv
    <2> QED
      BY <1>1, <1>3, <2>1, Stable, Zenon
  <1> QED
    BY <1>3, <1>4, Zenon DEF IInv

\* A step of a loop that leaves the sessions alone.
LEMMA SameSessions ==
    ASSUME IInv, UNCHANGED vars
    PROVE  IInv' /\ \A t \in Sessions : Advances(t)
  BY NextOK, Zenon DEF StepOK, Evolves

-----------------------------------------------------------------------------
\* Storage calls of a loop.

LEMMA LoopDelete ==
    ASSUME IInv, NEW s \in Sessions, DeleteObject(s),
           UNCHANGED <<db, elapsed, namespace, req>>,
           \/ row[s].status = "failed"
           \/ multipart[s] = "gone" /\ object[s] \in {"wrong_size", "absent"}
    PROVE  IInv' /\ \A t \in Sessions : Advances(t)
  <1>1. SessionOK(s) /\ UNCHANGED <<row, file>>
    BY Zenon DEF IInv, db
  <1>2. /\ multipart' = multipart
        /\ object' \in [Sessions -> Content \cup {"absent"}]
        /\ \A t \in Sessions \ {s} : object'[t] = object[t]
        /\ object'[s] = "absent"
    BY Types, Zenon DEF DeleteObject
  <1>3. row[s].status \notin {"object_completed", "committed"}
    BY <1>1, Zenon DEF SessionOK
  <1>4. SessionOK(s)' /\ Advances(s)
    BY <1>1, <1>2, <1>3, Zenon DEF SessionOK, Advances
  <1>5. TypeOK' /\ OneItemPerName'
    BY <1>1, <1>2, Types, TypeFrame, NamesFrame, Zenon
  <1> QED
    BY <1>1, <1>2, <1>4, <1>5, CallCombine, Zenon

LEMMA LoopAbort ==
    ASSUME IInv, NEW s \in Sessions, AbortMultipart(s),
           UNCHANGED <<db, elapsed, namespace, req>>
    PROVE  IInv' /\ \A t \in Sessions : Advances(t)
  <1>1. SessionOK(s) /\ UNCHANGED <<row, file>>
    BY Zenon DEF IInv, db
  <1>2. /\ object' = object
        /\ multipart' \in [Sessions -> {"open", "gone"}]
        /\ \A t \in Sessions \ {s} : multipart'[t] = multipart[t]
        /\ multipart'[s] = "gone"
    BY Types, Zenon DEF AbortMultipart
  <1>3. SessionOK(s)' /\ Advances(s)
    BY <1>1, <1>2, Zenon DEF SessionOK, Advances
  <1>4. TypeOK' /\ OneItemPerName'
    BY <1>1, <1>2, Types, TypeFrame, NamesFrame, Zenon
  <1> QED
    BY <1>1, <1>2, <1>3, <1>4, CallCombine, Zenon

LEMMA LoopIdles ==
    ASSUME IInv, UNCHANGED <<db, elapsed, namespace, storage, req>>
    PROVE  IInv' /\ \A t \in Sessions : Advances(t)
  BY SameSessions, Zenon DEF db, namespace, storage, vars

-----------------------------------------------------------------------------
\* One lemma per call of processUpload.

\* A job that only finishUpload is left of relies on nothing.
LEMMA ToFinishStep ==
    ASSUME LoopInv, IInv', \A t \in Sessions : Advances(t),
           NEW w \in Workers, NEW s \in Sessions, NEW st \in Status,
           NEW c \in BOOLEAN, NEW e \in BOOLEAN, ToFinish(w, s, st, c, e)
    PROVE  LoopStepOK
  <1>1. PICK x \in Job : SetJob(w, s, x) /\ x.pc = "finish"
    BY ToFinishFacts, Zenon
  <1>2. Relies(x, s)'
    BY <1>1, Zenon DEF Relies
  <1> QED
    BY <1>1, <1>2, JobStep, Zenon

LEMMA CleanupWork ==
    ASSUME LoopInv, NEW w \in Workers, NEW s \in Sessions, Cleanup(w, s)
    PROVE  LoopStepOK
  <1>1. PICK j \in Job : j = job[w][s] /\ j.pc = "cleanup" /\ Relies(j, s)
    BY Zenon DEF LoopInv, JobOK, Cleanup
  <1>2. IInv /\ j.status \in Status
    BY Zenon DEF LoopInv, Job
  <1>3. /\ \/ j.seen = "failed" /\ DeleteObject(s)
           \/ AbortMultipart(s)
           \/ UNCHANGED storage
        /\ ToFinish(w, s, j.status, TRUE, FALSE) \/ ToFinish(w, s, j.status, FALSE, TRUE)
        /\ UNCHANGED <<db, elapsed, namespace, req>>
    BY <1>1, Zenon DEF Cleanup
  <1>4. j.seen = "failed" => row[s].status = "failed"
    BY <1>1, Zenon DEF Relies
  <1>5. IInv' /\ \A t \in Sessions : Advances(t)
    BY <1>2, <1>3, <1>4, LoopDelete, LoopAbort, LoopIdles, Zenon
  <1> QED
    BY <1>2, <1>3, <1>5, ToFinishStep, Zenon

LEMMA DeleteWork ==
    ASSUME LoopInv, NEW w \in Workers, NEW s \in Sessions, WorkerDelete(w, s)
    PROVE  LoopStepOK
  <1>1. IInv /\ JobOK(w, s) /\ job[w][s].pc = "delete"
    BY Zenon DEF LoopInv, WorkerDelete
  <1>2. \/ row[s].status = "failed"
        \/ multipart[s] = "gone" /\ object[s] \in {"wrong_size", "absent"}
    BY <1>1, Zenon DEF JobOK, Relies
  <1>3. /\ DeleteObject(s) \/ UNCHANGED storage
        /\ ToFinish(w, s, "failed", TRUE, FALSE) \/ ToFinish(w, s, "failed", FALSE, TRUE)
        /\ UNCHANGED <<db, elapsed, namespace, req>>
    BY Zenon DEF WorkerDelete
  <1>4. IInv' /\ \A t \in Sessions : Advances(t)
    BY <1>1, <1>2, <1>3, LoopDelete, LoopIdles, Zenon
  <1>5. "failed" \in Status
    BY Zenon DEF Status
  <1> QED
    BY <1>3, <1>4, <1>5, ToFinishStep, Zenon

LEMMA StatWork ==
    ASSUME LoopInv, NEW w \in Workers, NEW s \in Sessions, WorkerStat(w, s)
    PROVE  LoopStepOK
  <1>1. PICK j \in Job : j = job[w][s] /\ j.pc = "stat" /\ Relies(j, s)
    BY Zenon DEF LoopInv, JobOK, WorkerStat
  <1>2. IInv /\ j.seen \in Status /\ j.seen # "failed" /\ SessionOK(s)
    BY <1>1, Zenon DEF LoopInv, IInv, Job, Relies
  <1>3. UNCHANGED vars
    BY Zenon DEF WorkerStat
  <1>4. IInv' /\ \A t \in Sessions : Advances(t)
    BY <1>2, <1>3, SameSessions, Zenon
  <1>5. UNCHANGED <<row, multipart, object>>
    BY <1>3, Zenon DEF vars
  <1>6. ASSUME SetJob(w, s, [j EXCEPT !.pc = "cleanup", !.status = "failed"])
        PROVE  LoopStepOK
    <2> DEFINE x == [j EXCEPT !.pc = "cleanup", !.status = "failed"]
    <2>1. x \in Job /\ x.pc = "cleanup" /\ x.seen = j.seen
      BY DEF Job, JobPc, Status
    <2>2. Relies(x, s)'
      BY <1>2, <2>1, Zenon DEF Relies
    <2> HIDE DEF x
    <2>3. SetJob(w, s, x)
      BY <1>6 DEF x
    <2> QED
      BY <1>4, <2>1, <2>2, <2>3, JobStep, Zenon
  <1>7. ASSUME NEW pc \in {"delete", "mark", "commit"}, SetJob(w, s, [j EXCEPT !.pc = pc]),
               pc = "delete" => object[s] = "wrong_size",
               pc = "mark" => object[s] \in {"good", "wrong_checksum"}
        PROVE  LoopStepOK
    <2>1. pc \in JobPc
      BY <1>7, Zenon DEF JobPc
    <2>2. PICK x \in Job : SetJob(w, s, x) /\ x.pc = pc
      BY <1>7, <2>1, TurnFacts, Zenon
    <2>3. pc = "delete" => multipart[s] = "gone"
      BY <1>2, <1>7, Zenon DEF SessionOK
    <2>4. Relies(x, s)'
      BY <1>5, <1>7, <2>2, <2>3, Zenon DEF Relies
    <2> QED
      BY <1>4, <2>2, <2>4, JobStep, Zenon
  <1>8. object[s] \in {"good", "wrong_checksum", "wrong_size", "absent"}
    BY <1>2, Types, Zenon DEF Content
  <1>9. \/ SetJob(w, s, [j EXCEPT !.pc = "cleanup", !.status = "failed"])
        \/ object[s] = "wrong_size" /\ SetJob(w, s, [j EXCEPT !.pc = "delete"])
        \/ /\ object[s] \notin {"absent", "wrong_size"}
           /\ \/ SetJob(w, s, [j EXCEPT !.pc = "mark"])
              \/ SetJob(w, s, [j EXCEPT !.pc = "commit"])
        \/ ToFinish(w, s, j.seen, TRUE, TRUE)
    BY <1>1, Zenon DEF WorkerStat
  <1>10. CASE ToFinish(w, s, j.seen, TRUE, TRUE)
    BY <1>2, <1>4, <1>10, ToFinishStep, Zenon
  <1> QED
    BY <1>6, <1>7, <1>8, <1>9, <1>10, Zenon

\* MarkObjectCompleted and CommitUpload, called by a loop.
LEMMA LoopMarks ==
    ASSUME IInv, NEW s \in Sessions, NEW out, MarkObjectCompleted(s, out),
           row[s].status = "failed" \/ object[s] \in {"good", "wrong_checksum"},
           UNCHANGED <<elapsed, namespace, storage, req>>
    PROVE  IInv' /\ \A t \in Sessions : Advances(t)
  <1>1. /\ row' \in [Sessions -> Row]
        /\ file' = file
        /\ \/ row' = row
           \/ /\ row[s].status = "completing"
              /\ row'[s].status = "object_completed"
              /\ row'[s].digest = row[s].digest
              /\ \A t \in Sessions \ {s} : row'[t] = row[t]
    BY Types, MarkObjectFacts, Zenon
  <1>2. SessionOK(s) /\ UNCHANGED <<multipart, object>>
    BY Zenon DEF IInv, storage
  <1>3. SessionOK(s)' /\ Advances(s)
    BY <1>1, <1>2, Zenon DEF SessionOK, Advances, Terminal
  <1>4. TypeOK' /\ OneItemPerName'
    BY <1>1, <1>2, Types, TypeFrame, NamesFrame, Zenon
  <1> QED
    BY <1>1, <1>2, <1>3, <1>4, CallCombine, Zenon

LEMMA LoopCommits ==
    ASSUME IInv, NEW s \in Sessions, NEW d, NEW fresh, NEW out,
           CommitUpload(s, d, fresh, out), UNCHANGED <<elapsed, namespace, storage, req>>
    PROVE  IInv' /\ \A t \in Sessions : Advances(t)
  <1>1. UNCHANGED <<multipart, object>>
    BY Zenon DEF storage
  <1>2. /\ row' \in [Sessions -> Row]
        /\ file' \in [Sessions -> {"none", "listed", "elsewhere"}]
        /\ \A t \in Sessions \ {s} : row'[t] = row[t] /\ file'[t] = file[t]
        /\ SessionOK(s)' /\ Evolves(s) /\ OneItemPerName'
    BY CommitSession, Zenon
  <1>3. TypeOK'
    BY <1>1, <1>2, Types, TypeFrame, Zenon
  <1> QED
    BY <1>1, <1>2, <1>3, CallCombine, Zenon DEF Evolves

LEMMA MarkWork ==
    ASSUME LoopInv, NEW w \in Workers, NEW s \in Sessions, WorkerMark(w, s)
    PROVE  LoopStepOK
  <1>1. PICK j \in Job : j = job[w][s] /\ j.pc = "mark" /\ Relies(j, s)
    BY Zenon DEF LoopInv, JobOK, WorkerMark
  <1>2. /\ IInv /\ j.seen \in Status
        /\ row[s].status = "failed" \/ object[s] \in {"good", "wrong_checksum"}
        /\ UNCHANGED <<elapsed, namespace, storage, req>>
    BY <1>1, Zenon DEF LoopInv, Job, Relies, WorkerMark
  <1>3. /\ (\E out : MarkObjectCompleted(s, out)) \/ Keep
        /\ \/ SetJob(w, s, [j EXCEPT !.pc = "commit", !.seen = "object_completed"])
           \/ ToFinish(w, s, j.seen, TRUE, TRUE)
    BY <1>1, Zenon DEF WorkerMark
  <1>4. IInv' /\ \A t \in Sessions : Advances(t)
    BY <1>2, <1>3, LoopMarks, LoopIdles, Zenon DEF Keep
  <1>5. CASE SetJob(w, s, [j EXCEPT !.pc = "commit", !.seen = "object_completed"])
    <2> DEFINE x == [j EXCEPT !.pc = "commit", !.seen = "object_completed"]
    <2>1. x \in Job /\ x.pc = "commit"
      BY DEF Job, JobPc, Status
    <2>2. Relies(x, s)'
      BY <2>1, Zenon DEF Relies
    <2> HIDE DEF x
    <2>3. SetJob(w, s, x)
      BY <1>5 DEF x
    <2> QED
      BY <1>4, <2>1, <2>2, <2>3, JobStep, Zenon
  <1>6. CASE ToFinish(w, s, j.seen, TRUE, TRUE)
    BY <1>2, <1>4, <1>6, ToFinishStep, Zenon
  <1> QED
    BY <1>3, <1>5, <1>6, Zenon

LEMMA CommitWork ==
    ASSUME LoopInv, NEW w \in Workers, NEW s \in Sessions, WorkerCommit(w, s)
    PROVE  LoopStepOK
  <1>1. PICK j \in Job : j = job[w][s]
    BY Zenon DEF LoopInv
  <1>2. /\ IInv /\ j.seen \in Status /\ "committed" \in Status
        /\ UNCHANGED <<elapsed, namespace, storage, req>>
    BY <1>1, Zenon DEF LoopInv, Job, WorkerCommit, Status
  <1>3. \/ \E out : /\ CommitUpload(s, j.digest, TRUE, out)
                    /\ \/ ToFinish(w, s, "committed", TRUE, FALSE)
                       \/ /\ out \in {"name_conflict", "not_found"}
                          /\ SetJob(w, s, [j EXCEPT !.pc = "delete"])
                       \/ ToFinish(w, s, j.seen, TRUE, TRUE)
        \/ Keep /\ ToFinish(w, s, j.seen, TRUE, TRUE)
    BY <1>1, Zenon DEF WorkerCommit
  <1>4. CASE Keep /\ ToFinish(w, s, j.seen, TRUE, TRUE)
    BY <1>2, <1>4, LoopIdles, ToFinishStep, Zenon DEF Keep
  <1>5. ASSUME NEW out, CommitUpload(s, j.digest, TRUE, out)
        PROVE  IInv' /\ \A t \in Sessions : Advances(t)
    BY <1>2, <1>5, LoopCommits, Zenon
  <1>6. ASSUME NEW out \in {"name_conflict", "not_found"}, CommitUpload(s, j.digest, TRUE, out),
               SetJob(w, s, [j EXCEPT !.pc = "delete"])
        PROVE  LoopStepOK
    <2>1. row'[s].status = "failed"
      BY <1>2, <1>6, Types, CommitFacts, Zenon
    <2>2. "delete" \in JobPc
      BY Zenon DEF JobPc
    <2>3. PICK x \in Job : SetJob(w, s, x) /\ x.pc = "delete"
      BY <1>6, <2>2, TurnFacts, Zenon
    <2>4. Relies(x, s)'
      BY <2>1, <2>3, Zenon DEF Relies
    <2> QED
      BY <1>5, <1>6, <2>3, <2>4, JobStep, Zenon
  <1> QED
    BY <1>2, <1>3, <1>4, <1>5, <1>6, ToFinishStep, Zenon

-----------------------------------------------------------------------------
\* Claims, refused results, the clock and crashes leave every session alone.

LEMMA FinishWork ==
    ASSUME LoopInv, NEW w \in Workers, NEW s \in Sessions, Finish(w, s)
    PROVE  LoopStepOK
  <1>1. UNCHANGED vars /\ SetJob(w, s, NoJob)
    BY Zenon DEF Finish
  <1>2. IInv' /\ \A t \in Sessions : Advances(t)
    BY <1>1, SameSessions, Zenon DEF LoopInv
  <1>3. Relies(NoJob, s)'
    BY IdleJob, Zenon DEF Relies
  <1> QED
    BY <1>1, <1>2, <1>3, IdleJob, JobStep, Zenon

LEMMA ClaimWork ==
    ASSUME LoopInv, NEW w \in Workers, NEW s \in Sessions, Claim(w, s)
    PROVE  LoopStepOK
  <1>1. IInv /\ row[s] \in Row
    BY Types, Zenon DEF LoopInv
  <1>2. UNCHANGED vars
    BY Zenon DEF Claim
  <1>3. IInv' /\ \A t \in Sessions : Advances(t)
    BY <1>1, <1>2, SameSessions, Zenon
  <1>4. PICK pc \in {"stat", "cleanup"}, st \in Status :
            /\ SetJob(w, s, [NoJob EXCEPT !.pc = pc,
                               !.seen = row[s].status, !.failure = row[s].failure,
                               !.digest = row[s].digest, !.status = st])
            /\ pc = "stat" => row[s].status \in {"completing", "object_completed"}
    BY <1>1 DEF Claim, Row, Status
  <1> DEFINE y == [NoJob EXCEPT !.pc = pc,
                     !.seen = row[s].status, !.failure = row[s].failure,
                     !.digest = row[s].digest, !.status = st]
  <1>5. y \in Job /\ y.pc = pc /\ y.seen = row[s].status
    BY <1>1 DEF NoJob, Job, JobPc, Row
  <1>6. SetJob(w, s, y)
    BY <1>4
  <1> HIDE DEF y
  <1>7. PICK x \in Job : SetJob(w, s, x) /\ x.pc = pc /\ x.seen = row[s].status
    BY <1>5, <1>6, Zenon
  <1>8. Relies(x, s)
    BY <1>4, <1>7, Zenon DEF Relies
  <1>9. Relies(x, s)'
    BY <1>3, <1>8, ReliesStable, Zenon
  <1> QED
    BY <1>3, <1>7, <1>9, JobStep, Zenon

LEMMA CrashWork ==
    ASSUME LoopInv, NEW w \in Workers, Crash(w)
    PROVE  LoopStepOK
  <1>1. UNCHANGED vars /\ job' = [job EXCEPT ![w] = [s \in Sessions |-> NoJob]]
    BY Zenon DEF Crash
  <1>2. IInv' /\ \A t \in Sessions : Advances(t)
    BY <1>1, SameSessions, Zenon DEF LoopInv
  <1>3. job' \in [Workers -> [Sessions -> Job]]
    BY <1>1, IdleJob, Zenon DEF LoopInv
  <1>4. ASSUME NEW v \in Workers, NEW t \in Sessions PROVE JobOK(v, t)'
    <2>1. CASE v = w
      <3>1. job'[v][t] = NoJob
        BY <1>1, <2>1, Zenon DEF LoopInv
      <3> QED BY <3>1, IdleJob, Zenon DEF JobOK, Relies
    <2>2. CASE v # w
      <3>1. PICK j \in Job : j = job[v][t] /\ j = job'[v][t]
        BY <1>1, <2>2, Zenon DEF LoopInv
      <3>2. Relies(j, t)
        BY <3>1, Zenon DEF LoopInv, JobOK
      <3>3. Relies(j, t)'
        BY <1>2, <3>2, ReliesStable, Zenon
      <3> QED BY <3>1, <3>3, Zenon DEF JobOK, Relies
    <2> QED BY <2>1, <2>2, Zenon
  <1> QED
    BY <1>2, <1>3, <1>4, Zenon DEF LoopStepOK, LoopInv

\* Handlers and the rest of the system take their own steps beside the loops.
LEMMA RequestWork ==
    ASSUME LoopInv, [Next]_vars, job' = job
    PROVE  LoopStepOK
  BY NextOK, OtherStep, Zenon DEF LoopInv, StepOK, Evolves

LEMMA LoopStart ==
    ASSUME MaintenanceInit
    PROVE  LoopInv
  <1>1. IInv
    BY InitOK, Zenon DEF MaintenanceInit
  <1>2. /\ job \in [Workers -> [Sessions -> Job]]
        /\ \A w \in Workers, s \in Sessions : job[w][s].pc = "idle"
    BY IdleJob, Zenon DEF MaintenanceInit
  <1> QED
    BY <1>1, <1>2, Zenon DEF LoopInv, JobOK, Relies

\* A step that is not a loop's call is one of UploadRequests, or leaves it alone.
LEMMA Beside ==
    ASSUME [MaintenanceNext]_allvars
    PROVE  \/ [Next]_vars /\ job' = job /\ loops' = loops
           \/ \E w \in Workers : Crash(w)
           \/ \E w \in Workers, s \in Sessions : Claim(w, s) \/ Work(w, s)
  <1>1. CASE \E r \in Requests : HandlerStep(r)
    BY <1>1, Zenon DEF HandlerStep, Next, mvars
  <1>2. CASE Surroundings
    BY <1>2, Zenon DEF Surroundings, Next, mvars
  <1>3. CASE Settle \/ \E s \in Sessions : Lapse(s)
    BY <1>3, Zenon DEF Settle, Lapse
  <1>4. CASE UNCHANGED allvars
    BY <1>4, Zenon DEF allvars, mvars
  <1> QED
    BY <1>1, <1>2, <1>3, <1>4, Zenon DEF MaintenanceNext

LEMMA LoopStep ==
    ASSUME LoopInv, [MaintenanceNext]_allvars
    PROVE  LoopStepOK
  BY Beside, RequestWork, CrashWork, ClaimWork, CleanupWork, StatWork, DeleteWork, MarkWork,
     CommitWork, FinishWork, Zenon DEF Work, Call

\* LoopInv is an invariant of requests and loops, however they overlap.
THEOREM LoopInvariance == MaintenanceSpec => []LoopInv
  <1>1. MaintenanceInit => LoopInv
    BY LoopStart, Zenon
  <1>2. LoopInv /\ [MaintenanceNext]_allvars => LoopInv'
    BY LoopStep, Zenon DEF LoopStepOK
  <1> QED
    BY <1>1, <1>2, PTL DEF MaintenanceSpec

\* Neither requests nor loops lose the object of a committed file, for any number
\* of loops that crash, fail, outlast their leases and act on what is no longer so
\* (processUpload).
THEOREM ObjectsStay == MaintenanceSpec => []CommittedObjectPresent
  <1>1. LoopInv => CommittedObjectPresent
    BY Zenon DEF LoopInv, IInv, SessionOK, CommittedObjectPresent
  <1> QED
    BY <1>1, LoopInvariance, PTL

\* What the loops do to a session never takes back an acknowledged completion.
THEOREM AckHoldsWithLoops == MaintenanceSpec => []AckedIsCommitted
  <1>1. LoopInv => AckedIsCommitted
    BY Zenon DEF LoopInv, IInv, HandlerOK, SessionOK, AckedIsCommitted, Session
  <1> QED
    BY <1>1, LoopInvariance, PTL

\* No session leaves a terminal status, whatever status a loop acts on
\* (MarkObjectCompleted and CommitUpload look at the row again).
THEOREM LoopsKeepTerminal == MaintenanceSpec => TerminalKept
  <1>1. LoopInv /\ [MaintenanceNext]_allvars
        => [\A s \in Sessions : row[s].status \in Terminal
                                  => row'[s].status = row[s].status]_allvars
    BY LoopStep, Zenon DEF LoopStepOK, Advances
  <1> QED
    BY <1>1, LoopInvariance, PTL DEF MaintenanceSpec, TerminalKept

-----------------------------------------------------------------------------
\* The calls of a loop as steps of the lifecycle.

LEMMA MarkRefines ==
    ASSUME IInv, NEW s \in Sessions, NEW out, MarkObjectCompleted(s, out)
    PROVE  [Lifecycle!LifecycleNext]_(Lifecycle!lifecycleVars)
  <1> DEFINE x == [row[s] EXCEPT !.status = "object_completed"]
  <1>1. row[s] \in Row
    BY Types, Zenon
  <1>2. x \in Row /\ x.status = "object_completed" /\ x.digest = row[s].digest
        /\ x.cleanup = row[s].cleanup
    BY <1>1, Zenon DEF Row, Status
  <1>3. CASE Keep
    BY <1>3, QuietRefines, Zenon DEF Keep, db, Quiet
  <1>4. CASE row[s].status = "completing" /\ SetRow(s, x) /\ UNCHANGED file
    <2> HIDE DEF x
    <2>1. /\ Stage' = [Stage EXCEPT ![s] = StageOf(x.status)]
          /\ Frozen' = [Frozen EXCEPT ![s] = x.digest]
          /\ Dirty' = IF x.cleanup = "pending" THEN Dirty \cup {s} ELSE Dirty \ {s}
          /\ Stage[s] = StageOf(row[s].status)
          /\ Frozen[s] = row[s].digest
          /\ s \in Dirty <=> row[s].cleanup = "pending"
      BY <1>2, <1>4, SeenRow, Zenon
    <2>2. Frozen = [t \in Sessions |-> Frozen[t]]
      BY Zenon DEF Frozen
    <2>3. Frozen' = Frozen /\ Dirty' = Dirty
      BY <1>2, <2>1, <2>2, Zenon
    <2>4. Lifecycle!Store(s)
      BY <1>2, <1>4, <2>1, <2>3, SameMade, NoClaims, Stages, Zenon
         DEF Lifecycle!Store, Lifecycle!Enter
    <2> QED BY <2>4, Zenon DEF Lifecycle!LifecycleNext
  <1> QED
    BY <1>3, <1>4, Zenon DEF MarkObjectCompleted

LEMMA CallRefines ==
    ASSUME IInv, NEW w \in Workers, NEW s \in Sessions, Call(w, s)
    PROVE  [Lifecycle!LifecycleNext]_(Lifecycle!lifecycleVars)
  <1>1. CASE UNCHANGED db
    BY <1>1, QuietRefines, Zenon DEF db, Quiet
  <1>2. CASE WorkerMark(w, s)
    <2>1. Keep \/ \E out : MarkObjectCompleted(s, out)
      BY <1>2, Zenon DEF WorkerMark
    <2> QED BY <1>1, <2>1, MarkRefines, Zenon DEF Keep
  <1>3. CASE WorkerCommit(w, s)
    <2>1. Keep \/ \E out : CommitUpload(s, job[w][s].digest, TRUE, out)
      BY <1>3, Zenon DEF WorkerCommit
    <2>2. ASSUME NEW out, CommitUpload(s, job[w][s].digest, TRUE, out)
          PROVE  Quiet \/ Writes(s)
      BY <2>2, CommitWrites, Zenon
    <2> QED BY <1>1, <2>1, <2>2, WriteRefines, QuietRefines, Zenon DEF Keep
  <1>4. CASE WorkerStat(w, s)
    BY <1>1, <1>4, Zenon DEF WorkerStat, vars, db
  <1> QED
    BY <1>1, <1>2, <1>3, <1>4, Zenon DEF Call, Cleanup, WorkerDelete

\* With loops that overlap requests and each other, each session still takes only
\* the steps of UploadLifecycle, none of them a settlement by a claim.
THEOREM LoopsFollowLifecycle == MaintenanceSpec => ImplementsUploadLifecycle
  <1>1. MaintenanceInit => Lifecycle!LifecycleInit
    BY LifecycleStarts, Zenon DEF MaintenanceInit
  <1>2. ASSUME LoopInv, [MaintenanceNext]_allvars
        PROVE  [Lifecycle!LifecycleNext]_(Lifecycle!lifecycleVars)
    <2>1. IInv
      BY <1>2, Zenon DEF LoopInv
    <2>2. CASE [Next]_vars
      BY <2>1, <2>2, LifecycleSteps, Zenon
    <2>3. CASE UNCHANGED vars
      BY <2>2, <2>3, Zenon
    <2>4. CASE \E w \in Workers, s \in Sessions : Call(w, s)
      BY <2>1, <2>4, CallRefines, Zenon
    <2>5. \/ [Next]_vars \/ UNCHANGED vars
          \/ \E w \in Workers, s \in Sessions : Call(w, s)
      BY <1>2, Beside, Zenon DEF Crash, Claim, Finish, Work
    <2> QED BY <2>2, <2>3, <2>4, <2>5, Zenon
  <1> QED
    BY <1>1, <1>2, LoopInvariance, PTL
       DEF MaintenanceSpec, ImplementsUploadLifecycle, Lifecycle!LifecycleSpec

\* Where every instance has its loop switched off, nothing is ever claimed.
SwitchedOff ==
    loops = {} => Verified /\ \A w \in Workers, s \in Sessions : job[w][s].pc = "idle"

\* Where no loop runs, CommitUpload publishes only a verified object, and no
\* handler, however late it runs, deletes or replaces it.
THEOREM VerifiedWithoutLoops == MaintenanceSpec => []VerifiedFileKept
  <1>1. MaintenanceInit => SwitchedOff
    <2>1. NewRow.status = "created"
      BY Zenon DEF NewRow
    <2>2. ASSUME Init, NEW s \in Sessions PROVE row[s].status = "created"
      BY <2>1, <2>2, Zenon DEF Init
    <2>3. Init => Verified
      BY <2>2, Zenon DEF Verified
    <2>4. ASSUME MaintenanceInit, NEW w \in Workers, NEW s \in Sessions
          PROVE  job[w][s].pc = "idle"
      BY <2>4, IdleJob, Zenon DEF MaintenanceInit
    <2> QED BY <2>3, <2>4, Zenon DEF MaintenanceInit, SwitchedOff
  <1>2. ASSUME LoopInv, SwitchedOff, [MaintenanceNext]_allvars
        PROVE  SwitchedOff'
    <2>1. CASE [Next]_vars /\ job' = job /\ loops' = loops
      BY <1>2, <2>1, VerifiedKept, Zenon DEF SwitchedOff, LoopInv
    <2>2. ASSUME NEW w \in Workers, NEW s \in Sessions, Claim(w, s) \/ Work(w, s)
          PROVE  loops # {} /\ loops' = loops
      <3>1. loops' = loops
        BY <2>2, Zenon DEF Claim, Work, Call, Cleanup, WorkerStat, WorkerDelete, WorkerMark,
               WorkerCommit, Finish
      <3>2. w \in loops \/ job[w][s].pc # "idle"
        BY <2>2, Zenon DEF Claim, Work, Call, Cleanup, WorkerStat, WorkerDelete, WorkerMark,
               WorkerCommit, Finish
      <3> QED BY <1>2, <3>1, <3>2, Zenon DEF SwitchedOff
    <2>3. ASSUME NEW w \in Workers, Crash(w) PROVE loops # {} /\ loops' = loops
      BY <1>2, <2>3, Zenon DEF Crash, SwitchedOff
    <2> QED BY <1>2, <2>1, <2>2, <2>3, Beside, Zenon DEF SwitchedOff
  <1>3. LoopInv /\ SwitchedOff => VerifiedFileKept
    BY Zenon DEF LoopInv, IInv, SessionOK, SwitchedOff, Verified, VerifiedFileKept,
           CommittedFileHasObject
  <1> QED
    BY <1>1, <1>2, <1>3, LoopInvariance, PTL DEF MaintenanceSpec
=============================================================================
