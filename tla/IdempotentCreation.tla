------------------------- MODULE IdempotentCreation -------------------------
(***************************************************************************)
(* Creation of directories and upload sessions under an Idempotency-Key:   *)
(* CreateDirectoryWithIdempotency and CreateUploadWithIdempotency of       *)
(* internal/drive/service.go over internal/postgres/idempotency.go.        *)
(*                                                                         *)
(* An attempt is one HTTP request.  It generates its own ids, so the       *)
(* attempt itself names its claim token, the resource it would create and  *)
(* its multipart upload.  A client that got no answer retries: that is     *)
(* another attempt with the same key and digest.                           *)
(***************************************************************************)
EXTENDS Integers

CONSTANTS Attempts,    \* requests
          Keys,        \* hashed idempotency keys of one principal
          Digests,     \* canonical request digests
          None,        \* no key, no token, no resource
          ClaimTTL,    \* idempotencyClaimTTL
          Retention,   \* idempotencyRetention
          MaxNow       \* bound: the clock stops here

ASSUME NoneAssumption == None \notin Attempts \cup Keys
ASSUME TimeAssumption == ClaimTTL \in Nat /\ Retention \in Nat /\ MaxNow \in Nat

Scopes == {"create_directory", "create_upload"}

VARIABLES now,         \* the database and API clock
          record,      \* idempotency_record rows
          life,        \* history: how often the record of a key expired
          created,     \* attempt -> the life its resource was created in, or -1
          multipart,   \* attempt -> its multipart upload
          att          \* attempts

vars == <<now, record, life, created, multipart, att>>
rows == <<record, life>>

Instant == 0 .. MaxNow + ClaimTTL + Retention

Record == [state : {"none", "pending", "completed"}, digest : Digests \cup {None},
           token : Attempts \cup {None}, resource : Attempts \cup {None},
           locked : Instant, expires : Instant]

NoRecord == [state |-> "none", digest |-> None, token |-> None, resource |-> None,
             locked |-> 0, expires |-> 0]

Attempt == [pc     : {"new", "parent", "clock", "claim", "multipart", "create", "replay",
                      "abort", "release", "done"},
            scope  : Scopes,
            key    : Keys \cup {None},
            digest : Digests \cup {None},
            now    : 0..MaxNow,                 \* clock read by claimCreation
            found  : Attempts \cup {None},      \* resource of a completed claim
            answer : Attempts \cup {None},      \* resource answered to the client
            cut    : BOOLEAN]                   \* ended by a crash or an unknown error

TypeOK ==
    /\ now \in 0..MaxNow
    /\ record \in [Scopes -> [Keys -> Record]]
    /\ life \in [Scopes -> [Keys -> Nat]]
    /\ created \in [Attempts -> Nat \cup {-1}]
    /\ multipart \in [Attempts -> {"none", "open", "aborted"}]
    /\ att \in [Attempts -> Attempt]

Init ==
    /\ now = 0
    /\ record = [c \in Scopes |-> [k \in Keys |-> NoRecord]]
    /\ life = [c \in Scopes |-> [k \in Keys |-> 0]]
    /\ created = [a \in Attempts |-> -1]
    /\ multipart = [a \in Attempts |-> "none"]
    /\ att = [a \in Attempts |->
                [pc |-> "new", scope |-> "create_upload", key |-> None, digest |-> None,
                 now |-> 0, found |-> None, answer |-> None, cut |-> FALSE]]

Rec(a) == record[att[a].scope][att[a].key]

SetRec(a, x) == record' = [record EXCEPT ![att[a].scope][att[a].key] = x]

SetAtt(a, x) == att' = [att EXCEPT ![a] = x]

Goto(a, pc) == SetAtt(a, [att[a] EXCEPT !.pc = pc])

Answer(a, b) == SetAtt(a, [att[a] EXCEPT !.pc = "done", !.answer = b])

CutShort(a) == SetAtt(a, [att[a] EXCEPT !.pc = "done", !.cut = TRUE])

-----------------------------------------------------------------------------
(* Repository transactions on the record; each holds its row lock.         *)

Claimed(a) ==
    [state |-> "pending", digest |-> att[a].digest, token |-> a, resource |-> None,
     locked |-> att[a].now + ClaimTTL, expires |-> att[a].now + Retention]

\* Mutant: the digest of the earlier request is not compared.
ClaimAnyDigest(a, out) ==
    \/ /\ out = "claimed" /\ Rec(a).state = "none"
       /\ SetRec(a, Claimed(a)) /\ UNCHANGED life
    \/ /\ out = "completed" /\ Rec(a).state = "completed"
       /\ UNCHANGED rows

ClaimIdempotency(a, out) ==
    LET r == Rec(a)
        expired == r.state # "none" /\ att[a].now >= r.expires
        live == r.state # "none" /\ att[a].now < r.expires
    IN  \/ /\ out = "claimed" /\ r.state = "none"
           /\ SetRec(a, Claimed(a)) /\ UNCHANGED life
        \/ /\ out = "claimed" /\ expired
           /\ SetRec(a, Claimed(a))
           /\ life' = [life EXCEPT ![att[a].scope][att[a].key] = @ + 1]
        \/ /\ out = "conflict" /\ live /\ r.digest # att[a].digest
           /\ UNCHANGED rows
        \/ /\ out = "completed" /\ live /\ r.digest = att[a].digest
           /\ r.state = "completed"
           /\ UNCHANGED rows
        \/ /\ out = "in_progress" /\ live /\ r.digest = att[a].digest
           /\ r.state = "pending" /\ att[a].now < r.locked
           /\ UNCHANGED rows
        \/ /\ out = "claimed" /\ live /\ r.digest = att[a].digest
           /\ r.state = "pending" /\ att[a].now >= r.locked
           /\ SetRec(a, Claimed(a)) /\ UNCHANGED life

Owns(a) ==
    /\ Rec(a).state = "pending" /\ Rec(a).token = a
    /\ Rec(a).digest = att[a].digest

\* Mutant: the number of completed rows is not looked at.
CompleteUnchecked(a) ==
    IF att[a].key = None THEN UNCHANGED rows
    ELSE /\ IF Owns(a) THEN SetRec(a, [Rec(a) EXCEPT !.state = "completed", !.token = None,
                                                     !.resource = a, !.locked = 0])
                       ELSE UNCHANGED record
         /\ UNCHANGED life

\* The transaction that creates the resource also completes the claim.
CompleteIdempotency(a) ==
    IF att[a].key = None
    THEN UNCHANGED rows
    ELSE /\ Owns(a)
         /\ SetRec(a, [Rec(a) EXCEPT !.state = "completed", !.token = None,
                                     !.resource = a, !.locked = 0])
         /\ UNCHANGED life

ReleaseIdempotency(a) ==
    /\ IF Owns(a) THEN SetRec(a, NoRecord) ELSE UNCHANGED record
    /\ UNCHANGED life

-----------------------------------------------------------------------------
(* Attempts.                                                               *)

Arrive(a, scope, k, d) ==
    /\ att[a].pc = "new"
    /\ SetAtt(a, [att[a] EXCEPT !.pc = IF scope = "create_upload" THEN "parent" ELSE "clock",
                                !.scope = scope, !.key = k, !.digest = d])
    /\ UNCHANGED <<now, rows, created, multipart>>

\* An upload reads its parent first; `active' is what the tree says now.
CheckParent(a, active) ==
    /\ att[a].pc = "parent"
    /\ Goto(a, IF active THEN "clock" ELSE "done")
    /\ UNCHANGED <<now, rows, created, multipart>>

\* The call after the claim: storage for an upload, the transaction else.
Creating(a) == IF att[a].scope = "create_upload" THEN "multipart" ELSE "create"

\* claimCreation reads the clock before it asks the repository.
ReadClock(a) ==
    /\ att[a].pc = "clock"
    /\ SetAtt(a, [att[a] EXCEPT !.now = now,
                                !.pc = IF att[a].key = None THEN Creating(a) ELSE "claim"])
    /\ UNCHANGED <<now, rows, created, multipart>>

Claim(a) ==
    /\ att[a].pc = "claim"
    /\ \E out \in {"claimed", "completed", "conflict", "in_progress"} :
        /\ ClaimIdempotency(a, out)
        /\ \/ /\ out = "claimed"
              /\ Goto(a, Creating(a))
           \/ /\ out = "completed"
              /\ SetAtt(a, [att[a] EXCEPT !.pc = "replay", !.found = Rec(a).resource])
           \/ /\ out \in {"conflict", "in_progress"}
              /\ Goto(a, "done")
    /\ UNCHANGED <<now, created, multipart>>

\* The resource of a completed claim is read and answered.
Replay(a) ==
    /\ att[a].pc = "replay"
    /\ created[att[a].found] >= 0
    /\ Answer(a, att[a].found)
    /\ UNCHANGED <<now, rows, created, multipart>>

(* CreateMultipart; a refusal releases the claim, an unknown failure leaves *)
(* it, and perhaps a multipart upload nobody will refer to (CutShort).      *)
CreateMultipart(a) ==
    /\ att[a].pc = "multipart"
    /\ \/ /\ multipart' = [multipart EXCEPT ![a] = "open"]
          /\ Goto(a, "create") \/ CutShort(a)
       \/ /\ Goto(a, IF att[a].key = None THEN "done" ELSE "release")
          /\ UNCHANGED multipart
    /\ UNCHANGED <<now, rows, created>>

\* What follows a creation that is known to have failed.
KnownFailure(a) ==
    IF att[a].scope = "create_upload" THEN Goto(a, "abort")
    ELSE Goto(a, IF att[a].key = None THEN "done" ELSE "release")

\* Mutant: the multipart upload is aborted after any error.
UnknownFailureAborts(a) ==
    IF att[a].scope = "create_upload" THEN Goto(a, "abort") ELSE CutShort(a)

\* A creation of which it is not known whether it was committed.
UnknownFailure(a) ==
    IF att[a].scope = "create_upload" /\ att[a].key = None THEN Goto(a, "abort")
    ELSE CutShort(a)

(* The transaction of CreateUpload or CreateDirectory: refused by the      *)
(* namespace, refused since the claim went to another attempt, committed,  *)
(* or ended by an error on either side of its commit.                      *)
Create(a) ==
    /\ att[a].pc = "create"
    /\ \/ /\ KnownFailure(a)
          /\ UNCHANGED <<rows, created>>
       \/ /\ UnknownFailure(a)
          /\ UNCHANGED <<rows, created>>
       \/ /\ CompleteIdempotency(a)
          /\ created' = [created EXCEPT ![a] = IF att[a].key = None THEN 0
                                               ELSE life[att[a].scope][att[a].key]]
          /\ Answer(a, a) \/ UnknownFailure(a)
    /\ UNCHANGED <<now, multipart>>

\* Best effort: its failure changes nothing but what is left in storage.
Abort(a) ==
    /\ att[a].pc = "abort"
    /\ \E ok \in BOOLEAN :
        /\ multipart' = [multipart EXCEPT ![a] = IF ok THEN "aborted" ELSE @]
        /\ SetAtt(a, [att[a] EXCEPT !.pc = IF att[a].key = None THEN "done" ELSE "release",
                                    !.cut = ~ok])
    /\ UNCHANGED <<now, rows, created>>

Release(a) ==
    /\ att[a].pc = "release"
    /\ ReleaseIdempotency(a)
    /\ Goto(a, "done")
    /\ UNCHANGED <<now, created, multipart>>

\* The process dies or a call fails.
Crash(a) ==
    /\ att[a].pc \notin {"new", "done"}
    /\ CutShort(a)
    /\ UNCHANGED <<now, rows, created, multipart>>

-----------------------------------------------------------------------------
\* DeleteExpiredIdempotency of the maintenance loop.
DeleteExpired(scope, k) ==
    /\ record[scope][k].state # "none" /\ record[scope][k].expires <= now
    /\ record' = [record EXCEPT ![scope][k] = NoRecord]
    /\ life' = [life EXCEPT ![scope][k] = @ + 1]
    /\ UNCHANGED <<now, created, multipart, att>>

Tick ==
    /\ now < MaxNow
    /\ now' = now + 1
    /\ UNCHANGED <<rows, created, multipart, att>>

Step(a) ==
    \/ \E active \in BOOLEAN : CheckParent(a, active)
    \/ ReadClock(a) \/ Claim(a) \/ Replay(a) \/ CreateMultipart(a) \/ Create(a)
    \/ Abort(a) \/ Release(a) \/ Crash(a)

Next ==
    \/ \E a \in Attempts :
          \/ \E c \in Scopes, k \in Keys \cup {None}, d \in Digests : Arrive(a, c, k, d)
          \/ Step(a)
    \/ \E c \in Scopes, k \in Keys : DeleteExpired(c, k)
    \/ Tick

Spec == Init /\ [][Next]_vars

-----------------------------------------------------------------------------
(* Properties.                                                             *)

\* As long as the record of a key does not expire, all the attempts with
\* that key create one resource at most, however claims lapse, are taken
\* over by a retry, released, or completed by a request already given up.
OneResourcePerKey ==
    \A a, b \in Attempts :
        /\ att[a].key # None
        /\ att[a].scope = att[b].scope /\ att[a].key = att[b].key
        /\ created[a] >= 0 /\ created[a] = created[b]
        => a = b

\* What a client is answered, at once or by a replay, is a resource that an
\* equal request created: the digest of a reused key is compared.
AnswerIsOfThisRequest ==
    \A a \in Attempts : LET b == att[a].answer IN
        b # None => /\ created[b] >= 0
                    /\ att[b].scope = att[a].scope
                    /\ att[b].key = att[a].key
                    /\ att[b].digest = att[a].digest

\* An upload session that is answered to a client can be uploaded to: no
\* failure path aborted its multipart upload, even when the commit that
\* created it was reported as an error first.
AnsweredUploadUsable ==
    \A a \in Attempts : LET b == att[a].answer IN
        b # None /\ att[b].scope = "create_upload" => multipart[b] = "open"

\* An attempt that ended by itself, also one that lost its claim to a retry,
\* leaves neither an open multipart upload without a session nor a claim
\* that blocks the key.
FinishedLeavesNothing ==
    \A a \in Attempts :
        att[a].pc = "done" /\ ~att[a].cut =>
            /\ multipart[a] = "open" => created[a] >= 0
            /\ ~(att[a].key # None /\ Rec(a).state = "pending" /\ Rec(a).token = a)

=============================================================================
