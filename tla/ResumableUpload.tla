-------------------------- MODULE ResumableUpload --------------------------
(***************************************************************************)
(* One upload session and the browser tabs that transfer it: a tab signs   *)
(* and sends parts to storage, may reload at any moment, and then resumes  *)
(* with the file the user selects again, skipping the parts storage proves *)
(* it holds (web/src/features/uploads, ListUploadParts and SignUploadPart  *)
(* of internal/drive/service.go, ListParts of internal/s3store).           *)
(*                                                                         *)
(* The files a user may select agree in name, size and date and differ in  *)
(* every part; a part's content, digest and ETag are the file it is of.    *)
(* The tab, the network, the API and storage take their steps in any       *)
(* order.  What completes and commits a session is UploadRequests' matter: *)
(* here a completion freezes its list and then succeeds or fails.          *)
(***************************************************************************)
EXTENDS Integers, Sequences

CONSTANTS
    Files,       \* files that look the same to the client
    NParts,      \* parts of each of them
    Tabs,        \* browser tabs that know the session
    None,
    MaxReloads,  \* bound: how often a tab is reloaded
    MaxPuts,     \* bound: part requests sent in all
    MaxTries     \* UPLOAD_LIMITS.completionAttempts

Parts == 1 .. NParts

ASSUME ResumeAssumption ==
    /\ None \notin Files /\ None \notin [Parts -> Files] /\ NParts \in Nat \ {0}
    /\ MaxReloads \in Nat /\ MaxPuts \in Nat /\ MaxTries \in Nat \ {0}

VARIABLES
    backend,  \* how this deployment's storage treats parts
    status,   \* of the upload session
    elapsed,  \* its expires_at has passed
    frozen,   \* upload_part: the list of the first completion
    signed,   \* upload_part_signature: the digest last declared for a part
    stored,   \* what the multipart upload holds for a part
    open,     \* the multipart upload exists
    object,   \* parts of the object, None before there is one
    puts,     \* part requests on their way to storage
    sent,     \* how many there were
    calls,    \* completion requests in the service
    tab       \* the tabs

session == <<status, elapsed, frozen, signed>>
storage == <<backend, stored, open, object>>
network == <<puts, sent, calls>>
vars == <<backend, status, elapsed, frozen, signed, stored, open, object, puts, sent, calls, tab>>

\* binds: checksumHeaders, a signature covers the digest of its part; attests:
\* trustPartChecksums, which needs them, the digests storage reports are of what it
\* stores; keeps: every PUT of a part number is kept beside the earlier ones.
Backends ==
    {b \in [binds : BOOLEAN, attests : BOOLEAN, keeps : BOOLEAN] : b.attests => b.binds}

Nothing == [i \in Parts |-> None]
Lists == [Parts -> Files]
Statuses == {"uploading", "completing", "committed", "failed", "aborted", "expired"}
Ended == {"closed", "done", "failed"}

\* Session, storage, network and tabs have their shape; a list is frozen exactly
\* while a completion began, and the object is the multipart upload's successor.
ResumeTypeOK ==
    /\ status \in Statuses
    /\ backend \in Backends
    /\ elapsed \in BOOLEAN /\ open \in BOOLEAN
    /\ frozen \in Lists \cup {None}
    /\ signed \in [Parts -> Files \cup {None}]
    /\ stored \in [Parts -> Seq(Files)]
    /\ object \in Lists \cup {None}
    /\ puts \in SUBSET [tab : Tabs, load : 0 .. MaxReloads, part : Parts, content : Files]
    /\ sent \in 0 .. MaxPuts
    /\ calls \in SUBSET [list : Lists, begun : BOOLEAN]
    /\ tab \in [Tabs -> [pc : Ended \cup {"row", "recorded", "pages", "sending", "submit",
                                          "completing"},
                         load : 0 .. MaxReloads, file : Files, seen : Statuses \cup {""}, next : 1 .. NParts + 1,
                         done : [Parts -> Files \cup {None}], tries : 0 .. MaxTries]]
    /\ frozen # None <=> status \in {"completing", "committed", "failed"}
    /\ object # None => ~open /\ object = frozen

NewTab(pc, f) ==
    [pc |-> pc, load |-> 0, file |-> f, seen |-> "", next |-> 1, done |-> Nothing, tries |-> 0]

\* uploadMultipart created the session; any tab may know its handle.
Init ==
    /\ backend \in Backends
    /\ status = "uploading" /\ elapsed = FALSE
    /\ frozen = None /\ signed = Nothing
    /\ stored = [i \in Parts |-> <<>>] /\ open = TRUE /\ object = None
    /\ puts = {} /\ sent = 0 /\ calls = {}
    /\ \E first \in Tabs, f \in Files :
         tab = [t \in Tabs |-> NewTab(IF t = first THEN "sending" ELSE "closed", f)]

SetTab(t, x) == tab' = [tab EXCEPT ![t] = x]
Goto(t, pc) == SetTab(t, [tab[t] EXCEPT !.pc = pc])

-----------------------------------------------------------------------------
\* ListUploadParts, as resumeMultipart asks for it

\* The user selects a file with the name, size and date of the handle.
Resume(t, f) ==
    /\ tab[t].pc = "closed"
    /\ SetTab(t, [NewTab("row", f) EXCEPT !.load = tab[t].load])
    /\ UNCHANGED <<session, storage, network>>

\* Repository.Upload; a session that is over ends the resume, an elapsed one is
\* reported as expired and not touched.
ReadRow(t) ==
    /\ tab[t].pc = "row"
    /\ SetTab(t, [tab[t] EXCEPT
         !.seen = status,
         !.pc = CASE elapsed /\ status \in {"uploading", "completing"} -> "failed"
                  [] ~elapsed /\ status \in {"uploading", "completing"} -> "recorded"
                  [] status = "committed" -> "done"
                  [] status \in {"failed", "aborted", "expired"} -> "failed"])
    /\ UNCHANGED <<session, storage, network>>

\* Repository.UploadParts is a query of its own.  planResume: what was frozen is
\* replayed when the row said so and is no proof of anything otherwise.
ReadRecorded(t) ==
    /\ tab[t].pc = "recorded"
    /\ \/ /\ frozen # None /\ tab[t].seen = "completing"
          /\ SetTab(t, [tab[t] EXCEPT !.done = frozen, !.pc = "submit"])
       \/ /\ frozen # None /\ tab[t].seen # "completing"
          /\ Goto(t, "sending")
       \/ /\ frozen = None
          /\ Goto(t, "pages")
    /\ UNCHANGED <<session, storage, network>>

Held(i) == {stored[i][k] : k \in DOMAIN stored[i]}

\* Mutant: what a client declared when it signed counts as stored.
reusableDeclared(i) == IF stored[i] # <<>> THEN {signed[i]} \ {None} ELSE {}

\* reusableStoredParts: the digest of the only part stored under a number, if the
\* provider attests it.
reusable(i) == IF backend.attests /\ Len(stored[i]) = 1 THEN Held(i) ELSE {}

\* Mutant: the part the server calls reusable is not compared with the file.
proofOmitted(t, i) == IF reusable(i) # {} THEN stored[i][1] ELSE None

\* The client keeps the listed ETag when its own bytes have the digest reported.
proof(t, i) == IF tab[t].file \in reusable(i) THEN stored[i][1] ELSE None

\* Storage lists its parts page by page, and PUTs land in between.
ListPage(t) ==
    LET i == tab[t].next IN
    /\ tab[t].pc = "pages"
    /\ \/ /\ ~open
          /\ Goto(t, "failed")
       \/ /\ open /\ i <= NParts
          /\ SetTab(t, [tab[t] EXCEPT !.done[i] = proof(t, i), !.next = i + 1])
       \/ /\ open /\ i > NParts
          /\ Goto(t, "sending")
    /\ UNCHANGED <<session, storage, network>>

-----------------------------------------------------------------------------
\* Parts

\* SignUploadPart on an elapsed session expires it and aborts its parts.
SignExpires(t) ==
    /\ elapsed /\ status = "uploading"
    /\ status' = "expired"
    /\ open' = FALSE
    /\ Goto(t, "failed")
    /\ UNCHANGED <<backend, elapsed, frozen, signed, stored, object, network>>

SignRefused(t) ==
    /\ status # "uploading"
    /\ Goto(t, "failed")
    /\ UNCHANGED <<session, storage, network>>

\* uploadPart: sign the part, then PUT its bytes with the signed digest, which is
\* recorded where it is part of the signature.
SignUploadPart(t, i) ==
    /\ tab[t].pc = "sending" /\ tab[t].done[i] = None
    /\ \/ SignExpires(t)
       \/ SignRefused(t)
       \/ /\ status = "uploading" /\ ~elapsed
          /\ sent < MaxPuts
          /\ signed' = IF backend.binds THEN [signed EXCEPT ![i] = tab[t].file] ELSE signed
          /\ puts' = puts \cup {[tab |-> t, load |-> tab[t].load, part |-> i,
                                 content |-> tab[t].file]}
          /\ sent' = sent + 1
          /\ UNCHANGED <<status, elapsed, frozen, storage, calls, tab>>

\* A PUT reaches storage, if need be long after its tab is gone.
PutPart(p) ==
    /\ open
    /\ stored' = [stored EXCEPT ![p.part] = IF backend.keeps THEN Append(@, p.content)
                                                   ELSE <<p.content>>]
    /\ UNCHANGED <<backend, open, object>>

\* The tab that sent it gets its ETag.
Answered(p) ==
    LET t == p.tab IN
    IF tab[t].pc = "sending" /\ tab[t].load = p.load
    THEN SetTab(t, [tab[t] EXCEPT !.done[p.part] = p.content])
    ELSE tab' = tab

Land(p) ==
    /\ PutPart(p)
    /\ puts' = puts \ {p}
    /\ Answered(p) \/ tab' = tab
    /\ UNCHANGED <<session, sent, calls>>

Lose(p) ==
    /\ puts' = puts \ {p}
    /\ UNCHANGED <<session, storage, sent, calls, tab>>

\* The service aborts a session that is not completing.
AbortUpload ==
    /\ IF status = "uploading"
       THEN status' = "aborted" /\ open' = FALSE
       ELSE UNCHANGED <<status, open>>
    /\ UNCHANGED <<backend, elapsed, frozen, signed, stored, object, network>>

\* A part failed for the last time: a first upload gives its session up, a resumed
\* one leaves it for another resume.
Exhausted(t) ==
    /\ tab[t].pc = "sending"
    /\ Goto(t, "failed")
    /\ \/ tab[t].seen = "" /\ AbortUpload
       \/ tab[t].seen # "" /\ UNCHANGED <<session, storage, network>>

-----------------------------------------------------------------------------
\* Completion

AllSent(t) ==
    /\ tab[t].pc = "sending"
    /\ \A i \in Parts : tab[t].done[i] # None
    /\ Goto(t, "submit")
    /\ UNCHANGED <<session, storage, network>>

\* Mutant: attempts are not counted.
SubmitForever(t) ==
    /\ tab[t].pc = "submit"
    /\ Goto(t, "completing")
    /\ calls' = calls \cup {[list |-> tab[t].done, begun |-> FALSE]}
    /\ UNCHANGED <<session, storage, puts, sent>>

\* completeWithRetries: the same list each time.
Submit(t) ==
    /\ tab[t].pc = "submit"
    /\ tab[t].tries < MaxTries
    /\ SetTab(t, [tab[t] EXCEPT !.pc = "completing", !.tries = @ + 1])
    /\ calls' = calls \cup {[list |-> tab[t].done, begun |-> FALSE]}
    /\ UNCHANGED <<session, storage, puts, sent>>

\* An answer, an error or a timeout: read the session before deciding.
Recheck(t) ==
    /\ tab[t].pc = "completing"
    /\ \/ /\ status = "committed"
          /\ Goto(t, "done")
       \/ /\ status \in {"failed", "aborted", "expired"}
          /\ Goto(t, "failed")
       \/ /\ status \in {"uploading", "completing"}
          /\ Goto(t, IF tab[t].tries < MaxTries THEN "submit" ELSE "failed")
       \/ /\ frozen \notin {None, tab[t].done} /\ status # "committed"
          /\ Goto(t, "failed")
    /\ UNCHANGED <<session, storage, network>>

\* BeginComplete: the first list is frozen, any other is refused.
BeginComplete(c) ==
    /\ ~c.begun
    /\ \/ /\ status = "uploading" /\ ~elapsed
          /\ status' = "completing"
          /\ frozen' = c.list
          /\ calls' = (calls \ {c}) \cup {[c EXCEPT !.begun = TRUE]}
       \/ /\ status = "completing" /\ frozen = c.list
          /\ calls' = (calls \ {c}) \cup {[c EXCEPT !.begun = TRUE]}
          /\ UNCHANGED <<status, frozen>>
       \/ /\ \/ frozen \notin {None, c.list}
             \/ status \notin {"uploading", "completing"}
             \/ status = "uploading" /\ elapsed
          /\ calls' = calls \ {c}
          /\ UNCHANGED <<status, frozen>>
    /\ UNCHANGED <<elapsed, signed, storage, puts, sent, tab>>

\* Mutant: the ETags of the list are not compared with what is stored.
CompleteAnyETag(c) ==
    /\ c.begun /\ open /\ status = "completing"
    /\ \A i \in Parts : stored[i] # <<>>
    /\ object' = [i \in Parts |-> stored[i][Len(stored[i])]]
    /\ open' = FALSE
    /\ status' = "committed"
    /\ calls' = calls \ {c}
    /\ UNCHANGED <<backend, elapsed, frozen, signed, stored, puts, sent, tab>>

\* CompleteMultipart takes the parts the ETags name or refuses the list, and the
\* session is committed or failed accordingly.
CompleteMultipart(c) ==
    /\ c.begun
    /\ \/ /\ open /\ \A i \in Parts : c.list[i] \in Held(i)
          /\ object' = c.list
          /\ open' = FALSE
          /\ status' = "committed"
       \/ /\ open /\ \E i \in Parts : c.list[i] \notin Held(i)
          /\ open' = FALSE
          /\ status' = "failed"
          /\ object' = object
       \/ /\ ~open
          /\ UNCHANGED <<open, object, status>>
    /\ calls' = calls \ {c}
    /\ UNCHANGED <<backend, elapsed, frozen, signed, stored, puts, sent, tab>>

\* The request is cut short in the service.
Die(c) ==
    /\ calls' = calls \ {c}
    /\ UNCHANGED <<session, storage, puts, sent, tab>>

-----------------------------------------------------------------------------
\* A reload, a pause or a closed page: what was sent goes on.
Reload(t) ==
    /\ tab[t].pc # "closed" /\ tab[t].load < MaxReloads
    /\ SetTab(t, [tab[t] EXCEPT !.pc = "closed", !.load = @ + 1])
    /\ UNCHANGED <<session, storage, network>>

\* The user gives the upload up: never once a completion may have been sent.
Cancel(t) ==
    /\ tab[t].pc \in {"row", "recorded", "pages", "sending"}
    /\ Goto(t, "failed")
    /\ AbortUpload

Elapse ==
    /\ ~elapsed
    /\ elapsed' = TRUE
    /\ UNCHANGED <<status, frozen, signed, storage, network, tab>>

Run(t) ==
    \/ ReadRow(t) \/ ReadRecorded(t) \/ ListPage(t) \/ AllSent(t) \/ Submit(t) \/ Recheck(t)
    \/ \E i \in Parts : SignUploadPart(t, i)

Serve == \E c \in calls : BeginComplete(c) \/ CompleteMultipart(c)

Next ==
    \/ \E t \in Tabs : \/ Run(t) \/ Exhausted(t) \/ Reload(t) \/ Cancel(t)
                       \/ \E f \in Files : Resume(t, f)
    \/ \E p \in puts : Land(p) \/ Lose(p)
    \/ Serve
    \/ \E c \in calls : Die(c)
    \/ Elapse

\* A tab runs its code, and gives up when its attempts are used up; nothing is
\* assumed of users, the network, the service or storage.
Fairness == \A t \in Tabs : WF_vars(Run(t)) /\ WF_vars(Exhausted(t))

Spec == Init /\ [][Next]_vars /\ Fairness

-----------------------------------------------------------------------------
\* No object mixes two files, whichever tabs sent parts of whichever file, early or
\* late, and whatever a resume skipped (reusableStoredParts, resumeMultipart).
NoMixture == object # None => \E f \in Files : \A i \in Parts : object[i] = f

\* A tab completes with its own file's parts or with the frozen list, never with
\* anything in between, although row and list are read in two queries.
WholeList ==
    \A t \in Tabs :
        tab[t].pc \in {"submit", "completing"} =>
            tab[t].done = frozen \/ \A i \in Parts : tab[t].done[i] = tab[t].file

\* A transfer comes to an end: committed, failed, or gone with its tab.
TransferEnds == \A t \in Tabs : tab[t].pc \notin Ended ~> tab[t].pc \in Ended
=============================================================================
