-------------------------- MODULE MemoryRepository --------------------------
(***************************************************************************)
(* The in-memory repository the server runs on in development and most     *)
(* tests run on (internal/memory/repository.go): the tree and the upload   *)
(* sessions of one tenant.  Every method holds the repository's mutex, so  *)
(* every method is one step; a purge spans several of them, and its caller *)
(* may stop anywhere.  As in Namespace, a blob is named by its node.       *)
(***************************************************************************)
EXTENDS Integers, FiniteSets

CONSTANTS Nodes, Root, Names, Uploads, Digests, NoDigest, None,
          MaxRevision   \* bound of a node's revision (exploration only)

ASSUME NodesAssumption ==
    /\ IsFiniteSet(Nodes) /\ Root \in Nodes
    /\ None \notin Nodes \cup Names
    /\ NoDigest \notin Digests
ASSUME BoundAssumption == MaxRevision \in Nat \ {0}

VARIABLES nodes,     \* r.nodes
          blobs,     \* status of the blob of a file
          objects,   \* files whose object no purge has deleted
          uploads,   \* r.uploads, with its lease in r.uploadMaintenance
          plans,     \* purge plans callers hold
          finished   \* roots whose recycle lease rests until the year 9999

tree == <<nodes, blobs, objects, plans, finished>>
vars == <<nodes, blobs, objects, uploads, plans, finished>>

Absent == [parent |-> None, dir |-> FALSE, name |-> None, status |-> "absent",
           trash |-> None, origin |-> None, revision |-> 0]
NoUpload == [status |-> "absent", parent |-> None, name |-> None, digest |-> NoDigest,
             node |-> None, cleanup |-> FALSE, error |-> FALSE, claim |-> "never"]

Terminal == {"committed", "aborted", "expired", "failed"}

Row == [parent : Nodes \cup {None}, dir : BOOLEAN, name : Names \cup {None},
        status : {"absent", "active", "trashed", "purging"}, trash : Nodes \cup {None},
        origin : Nodes \cup {None}, revision : 0 .. MaxRevision]
Status == Terminal \cup {"created", "uploading", "completing", "object_completed"}
Session == [status : Status \cup {"absent"},
            parent : Nodes \cup {None}, name : Names \cup {None},
            digest : Digests \cup {NoDigest}, node : Nodes \cup {None},
            cleanup : BOOLEAN,                  \* cleanupPending
            error : BOOLEAN,                    \* errorCode # ""
            claim : Status \cup {"never", "free"}]   \* the status the claim in hand saw
Plan == [root : Nodes, blobs : SUBSET Nodes, left : SUBSET Nodes]

\* Nodes, uploads and plans have their shape: an upload that was frozen has a part
\* list, a committed one a node of its own, and one that has a node is committed
\* unless the maintenance loop ever claimed it: only FinishUploadMaintenance
\* writes a status without looking at the one it replaces.
MemoryTypeOK ==
    /\ nodes \in [Nodes -> Row]
    /\ blobs \in [Nodes -> {"none", "available", "pending_delete", "deleted"}]
    /\ objects \in SUBSET Nodes /\ finished \in SUBSET Nodes
    /\ uploads \in [Uploads -> Session]
    /\ plans \in SUBSET Plan
    /\ \A u \in Uploads :
         /\ uploads[u].status \in {"completing", "object_completed", "committed", "failed"}
              => uploads[u].digest # NoDigest
         /\ uploads[u].status = "committed" => uploads[u].node # None
         /\ uploads[u].node # None /\ uploads[u].claim = "never"
              => uploads[u].status = "committed"
         /\ \A v \in Uploads \ {u} : uploads[u].node # None => uploads[v].node # uploads[u].node

\* EnsureTenant
Init ==
    /\ nodes = [n \in Nodes |-> IF n = Root THEN [Absent EXCEPT !.dir = TRUE, !.status = "active",
                                                                !.revision = 1]
                                ELSE Absent]
    /\ blobs = [n \in Nodes |-> "none"]
    /\ objects = {} /\ plans = {} /\ finished = {}
    /\ uploads = [u \in Uploads |-> NoUpload]

-----------------------------------------------------------------------------
\* Lookups

visible(n) == nodes[n].status = "active" /\ nodes[n].trash = None
activeDirectory(p) == visible(p) /\ nodes[p].dir
fresh(n) == nodes[n].status = "absent"

nameExists(p, q, n) ==
    \E m \in Nodes \ {n} : visible(m) /\ nodes[m].parent = p /\ nodes[m].name = q

\* Mutant: only the parent itself is looked at.
isDescendantShallow(c, a) == c = a

\* c or a node above it is a.
isDescendant(c, a) ==
    LET walk[x \in Nodes] == x = a \/ (nodes[x].parent # None /\ walk[nodes[x].parent])
    IN  walk[c]

\* n and the visible nodes below it: the list grows until nothing is to be appended.
activeSubtree(n) ==
    LET grow[S \in SUBSET Nodes] ==
          LET more == S \cup {x \in Nodes : visible(x) /\ nodes[x].parent \in S}
          IN  IF more = S THEN S ELSE grow[more]
    IN  grow[{n}]

trashedSubtree(r) == {n \in Nodes : nodes[n].trash = r}
recycleEntry(n) == nodes[n].status \in {"trashed", "purging"} /\ nodes[n].trash = n

-----------------------------------------------------------------------------
\* The tree

Insert(n, p, q, d) ==
    nodes' = [nodes EXCEPT ![n] = [Absent EXCEPT !.parent = p, !.name = q, !.dir = d,
                                                 !.status = "active", !.revision = 1]]

CreateDirectory(n, p, q) ==
    /\ fresh(n) /\ activeDirectory(p) /\ ~nameExists(p, q, n)
    /\ Insert(n, p, q, TRUE)
    /\ UNCHANGED <<blobs, objects, uploads, plans, finished>>

UpdateNode(n, rev, p, q) ==
    LET parent == IF p = None THEN nodes[n].parent ELSE p
        name == IF q = None THEN nodes[n].name ELSE q
    IN  /\ n # Root /\ visible(n) /\ nodes[n].revision = rev
        /\ p # None => activeDirectory(p) /\ (nodes[n].dir => ~isDescendant(p, n))
        /\ ~nameExists(parent, name, n)
        /\ rev < MaxRevision
        /\ nodes' = [nodes EXCEPT ![n].parent = parent, ![n].name = name, ![n].revision = @ + 1]
        /\ UNCHANGED <<blobs, objects, uploads, plans, finished>>

\* A second recycle of an entry is answered without an error and does nothing.
Recycle(n, rev) ==
    /\ n # Root /\ visible(n) /\ nodes[n].revision = rev /\ rev < MaxRevision
    /\ nodes' = [x \in Nodes |->
         IF x = n THEN [nodes[n] EXCEPT !.trash = n, !.status = "trashed",
                                        !.origin = nodes[n].parent, !.revision = @ + 1]
         ELSE IF x \in activeSubtree(n) THEN [nodes[x] EXCEPT !.trash = n]
         ELSE nodes[x]]
    /\ UNCHANGED <<blobs, objects, uploads, plans, finished>>

\* Mutant: an entry whose purge began is restored.
RestorePurging(n, rev) ==
    LET old == nodes[n] IN
    /\ recycleEntry(n) /\ old.revision = rev /\ rev < MaxRevision
    /\ activeDirectory(old.origin) /\ ~nameExists(old.origin, old.name, n)
    /\ nodes' = [x \in Nodes |->
         IF x = n THEN [old EXCEPT !.trash = None, !.status = "active", !.parent = old.origin,
                                   !.origin = None, !.revision = @ + 1]
         ELSE IF x \in trashedSubtree(n) THEN [nodes[x] EXCEPT !.trash = None]
         ELSE nodes[x]]
    /\ UNCHANGED <<blobs, objects, uploads, plans, finished>>

Restore(n, rev) ==
    LET old == nodes[n] IN
    /\ old.status = "trashed" /\ old.trash = n /\ old.revision = rev /\ rev < MaxRevision
    /\ activeDirectory(old.origin) /\ ~nameExists(old.origin, old.name, n)
    /\ nodes' = [x \in Nodes |->
         IF x = n THEN [old EXCEPT !.trash = None, !.status = "active", !.parent = old.origin,
                                   !.origin = None, !.revision = @ + 1]
         ELSE IF x \in trashedSubtree(n) THEN [nodes[x] EXCEPT !.trash = None]
         ELSE nodes[x]]
    /\ UNCHANGED <<blobs, objects, uploads, plans, finished>>

\* The blobs a purge of the entry deletes.
Planned(n) == {x \in trashedSubtree(n) : blobs[x] \in {"available", "pending_delete"}}

PreparePurge(n, rev) ==
    /\ recycleEntry(n) /\ nodes[n].revision = rev
    /\ nodes' = [x \in Nodes |-> IF x \in trashedSubtree(n)
                                 THEN [nodes[x] EXCEPT !.status = "purging"] ELSE nodes[x]]
    /\ blobs' = [x \in Nodes |-> IF x \in Planned(n) THEN "pending_delete" ELSE blobs[x]]
    /\ plans' = plans \cup {[root |-> n, blobs |-> Planned(n), left |-> Planned(n)]}
    /\ UNCHANGED <<objects, uploads, finished>>

\* Service.Purge deletes the objects of its plan one by one.
DeleteObject(p, x) ==
    /\ p \in plans /\ x \in p.left
    /\ objects' = objects \ {x}
    /\ plans' = (plans \ {p}) \cup {[p EXCEPT !.left = @ \ {x}]}
    /\ UNCHANGED <<nodes, blobs, uploads, finished>>

FinishPurge(p) ==
    /\ p \in plans /\ p.left = {}
    /\ nodes[p.root].status = "purging"
    /\ blobs' = [x \in Nodes |-> IF x \in p.blobs /\ blobs[x] = "pending_delete"
                                 THEN "deleted" ELSE blobs[x]]
    /\ finished' = finished \cup {p.root}
    /\ plans' = plans \ {p}
    /\ UNCHANGED <<nodes, objects, uploads>>

\* A deletion fails or the caller goes away.
GiveUp(p) ==
    /\ p \in plans
    /\ plans' = plans \ {p}
    /\ UNCHANGED <<nodes, blobs, objects, uploads, finished>>

\* ClaimRecycleForMaintenance on an entry past its retention marks the entry alone;
\* the purge that follows marks the rest.
ClaimRecycle(n) ==
    /\ recycleEntry(n) /\ n \notin finished
    /\ nodes' = [nodes EXCEPT ![n].status = "purging"]
    /\ UNCHANGED <<blobs, objects, uploads, plans, finished>>

-----------------------------------------------------------------------------
\* Upload sessions

SetUpload(u, x) == uploads' = [uploads EXCEPT ![u] = x]

CreateUpload(u, p, q) ==
    /\ uploads[u].status = "absent"
    /\ activeDirectory(p) /\ ~nameExists(p, q, None)
    /\ SetUpload(u, [NoUpload EXCEPT !.status = "created", !.parent = p, !.name = q])
    /\ UNCHANGED tree

MarkUploading(u) ==
    /\ uploads[u].status = "created"
    /\ SetUpload(u, [uploads[u] EXCEPT !.status = "uploading"])
    /\ UNCHANGED tree

\* Mutant: the part list is not recorded.
BeginCompleteForgets(u, d) ==
    /\ uploads[u].digest \in {NoDigest, d}
    /\ uploads[u].status \in {"created", "uploading"}
    /\ SetUpload(u, [uploads[u] EXCEPT !.status = "completing"])
    /\ UNCHANGED tree

\* On a session that has not expired; the replay of a completion changes nothing.
BeginComplete(u, d) ==
    /\ uploads[u].digest \in {NoDigest, d}
    /\ uploads[u].status \in {"created", "uploading"}
    /\ SetUpload(u, [uploads[u] EXCEPT !.status = "completing", !.digest = d])
    /\ UNCHANGED tree

Failed(u) == SetUpload(u, [uploads[u] EXCEPT !.status = "failed", !.cleanup = TRUE])

FailUploadCompletion(u, d) ==
    /\ uploads[u].digest = d /\ uploads[u].status = "completing"
    /\ Failed(u)
    /\ UNCHANGED tree

MarkObjectCompleted(u) ==
    /\ uploads[u].status = "completing"
    /\ SetUpload(u, [uploads[u] EXCEPT !.status = "object_completed"])
    /\ UNCHANGED tree

\* A completed object becomes a file, or its session fails for good.
CommitUpload(u, d, n) ==
    LET p == uploads[u].parent
        q == uploads[u].name
    IN  /\ uploads[u].digest = d /\ uploads[u].status = "object_completed"
        /\ \/ /\ ~activeDirectory(p) \/ nameExists(p, q, None)
              /\ Failed(u)
              /\ UNCHANGED tree
           \/ /\ fresh(n) /\ activeDirectory(p) /\ ~nameExists(p, q, None)
              /\ Insert(n, p, q, FALSE)
              /\ blobs' = [blobs EXCEPT ![n] = "available"]
              /\ objects' = objects \cup {n}
              /\ SetUpload(u, [uploads[u] EXCEPT !.status = "committed", !.node = n])
              /\ UNCHANGED <<plans, finished>>

\* Mutant: a session whose completion began can still be cancelled.
AbortUploadLate(u, target) ==
    /\ uploads[u].status \in {"created", "uploading", "completing", "object_completed"}
    /\ SetUpload(u, [uploads[u] EXCEPT !.status = target, !.cleanup = TRUE])
    /\ UNCHANGED tree

AbortUpload(u, target) ==
    /\ uploads[u].status \in {"created", "uploading"}
    /\ SetUpload(u, [uploads[u] EXCEPT !.status = target, !.cleanup = TRUE])
    /\ UNCHANGED tree

MarkUploadCleanupComplete(u) ==
    /\ uploads[u].status \in Terminal
    /\ SetUpload(u, [uploads[u] EXCEPT !.cleanup = FALSE, !.error = FALSE])
    /\ UNCHANGED tree

\* One session of ClaimUploadsForMaintenance.  It is due past its deadline, when its
\* completion hangs, or after an error; an earlier lease has ended by the clock.
ClaimUpload(u) ==
    /\ uploads[u].status \in {"created", "uploading", "completing", "object_completed"}
         \/ uploads[u].cleanup \/ uploads[u].error
    /\ SetUpload(u, [uploads[u] EXCEPT !.claim = uploads[u].status])
    /\ UNCHANGED tree

Maintained(status, complete, error) ==
    [status |-> status, complete |-> complete, error |-> error]

\* What the loop calls finishUpload with, by the status its claim saw: the session
\* ends, with its cleanup done or failed; its completion failed again; or
\* CommitUpload answered, which it does once the session has its node.
Results(u) ==
    LET saw == uploads[u].claim
        Ends(status) == {Maintained(status, TRUE, FALSE), Maintained(status, FALSE, TRUE)}
    IN  IF saw \in Terminal THEN Ends(saw)
        ELSE IF saw \in {"created", "uploading"} THEN Ends("expired")
        ELSE Ends("failed")
             \cup {Maintained(saw, TRUE, TRUE), Maintained("object_completed", TRUE, TRUE)}
             \cup {x \in {Maintained("committed", TRUE, FALSE)} : uploads[u].node # None}

\* The owner of the claim writes its result, whatever the session has become.
FinishUploadMaintenance(u, x) ==
    /\ SetUpload(u, [uploads[u] EXCEPT !.status = x.status, !.cleanup = ~x.complete,
                                       !.error = x.error, !.claim = "free"])
    /\ UNCHANGED tree

-----------------------------------------------------------------------------
TreeStep ==
    \/ \E n, p \in Nodes, q \in Names : CreateDirectory(n, p, q)
    \/ \E n \in Nodes, rev \in 1 .. MaxRevision :
         \/ \E p \in Nodes \cup {None}, q \in Names \cup {None} :
              (p # None \/ q # None) /\ UpdateNode(n, rev, p, q)
         \/ Recycle(n, rev) \/ Restore(n, rev) \/ PreparePurge(n, rev)
    \/ \E n \in Nodes : ClaimRecycle(n)
    \/ \E p \in plans : FinishPurge(p) \/ GiveUp(p) \/ \E x \in p.left : DeleteObject(p, x)

UploadStep(u) ==
    \/ \E p \in Nodes, q \in Names : CreateUpload(u, p, q)
    \/ MarkUploading(u) \/ MarkObjectCompleted(u) \/ MarkUploadCleanupComplete(u)
    \/ \E d \in Digests : \/ BeginComplete(u, d) \/ FailUploadCompletion(u, d)
                          \/ \E n \in Nodes : CommitUpload(u, d, n)
    \/ \E target \in {"aborted", "expired"} : AbortUpload(u, target)

MaintenanceStep(u) ==
    \/ ClaimUpload(u)
    \/ /\ uploads[u].claim \in Status
       /\ \E x \in Results(u) : FinishUploadMaintenance(u, x)

Next == TreeStep \/ \E u \in Uploads : UploadStep(u) \/ MaintenanceStep(u)

Spec == Init /\ [][Next]_vars

-----------------------------------------------------------------------------
\* DownloadBlob of a file a client can see finds its content: nothing that is
\* purged beside it, above it or twice over takes it away.  Files of sessions the
\* maintenance loop claimed are left out: reopened, such a session can lose its
\* object to a rejected second commit, or share it with a second file.
DownloadFindsContent ==
    \A u \in Uploads :
        LET n == uploads[u].node
        IN  uploads[u].claim = "never" /\ n # None /\ visible(n)
            => blobs[n] = "available" /\ n \in objects

TreePlace == [n \in Nodes |-> [parent |-> nodes[n].parent, name |-> nodes[n].name,
                                dir |-> nodes[n].dir]]
TreeEntry == [n \in Nodes |-> nodes[n].trash]
TreePurging == {n \in Nodes : nodes[n].trash = n /\ nodes[n].status = "purging"}

Tree == INSTANCE DriveTree
          WITH place <- TreePlace, entry <- TreeEntry, purging <- TreePurging, content <- objects

StageOf(status) ==
    CASE status = "absent" -> "absent"
      [] status \in {"created", "uploading"} -> "open"
      [] status = "completing" -> "frozen"
      [] status = "object_completed" -> "stored"
      [] status \in {"aborted", "expired"} -> "cancelled"
      [] status = "failed" -> "refused"
      [] status = "committed" -> "committed"

LifeStage == [u \in Uploads |-> StageOf(uploads[u].status)]
LifeFrozen == [u \in Uploads |-> uploads[u].digest]
LifeMade == {u \in Uploads : uploads[u].node # None}
LifeDirty == {u \in Uploads : uploads[u].cleanup}
LifeClaimed == [u \in Uploads |-> IF uploads[u].claim \in {"never", "free"} THEN "none"
                                  ELSE StageOf(uploads[u].claim)]

Lifecycle == INSTANCE UploadLifecycle
               WITH Sessions <- Uploads, stage <- LifeStage, frozen <- LifeFrozen,
                    made <- LifeMade, dirty <- LifeDirty, claimed <- LifeClaimed

\* The development backend promises the same tree as PostgreSQL: its walks up and
\* down the maps find what the recursive queries find, and its claims and purges,
\* cut short anywhere, are whole operations of DriveTree.
MemoryImplementsTree == Tree!TreeSpec

\* And the same life of an upload session, whatever order its methods are called in;
\* what the maintenance loop overrules is no more than its claim allows it to.
MemoryImplementsLifecycle == Lifecycle!LifecycleSpec
=============================================================================
