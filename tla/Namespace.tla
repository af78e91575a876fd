----------------------------- MODULE Namespace -----------------------------
(***************************************************************************)
(* The directory tree of one tenant: creating, renaming, moving, recycling,*)
(* restoring and purging nodes (internal/postgres/namespace.go, recycle.go,*)
(* locking.go and the purge of internal/drive/service.go).                 *)
(*                                                                         *)
(* Every transaction that changes the tree first locks the tenant row.     *)
(* Lock is that lock with the reads and checks that follow it; one action  *)
(* per operation is the write and the commit.  Steps that do not take the  *)
(* tenant lock (storage calls, FinishPurge) run in between.  A check that  *)
(* fails answers with an error and changes nothing: Leave.                 *)
(*                                                                         *)
(* CommitUpload makes the node of a file with its version and its blob,    *)
(* and nothing else makes any of them, so a blob is named by its node.     *)
(***************************************************************************)
EXTENDS Integers

CONSTANTS
    Nodes,        \* node ids, the root's included
    Root,         \* the root directory of the tenant
    Names,        \* normalized names
    Actors,       \* requests in flight
    Ops,          \* the operations an instance asks for
    None,         \* NULL
    MaxRevision   \* bound of the revision counter (exploration only)

ASSUME NodesAssumption == Root \in Nodes /\ None \notin Nodes \cup Names \cup Actors
ASSUME BoundsAssumption ==
    MaxRevision \in Nat
    /\ Ops \subseteq {"mkdir", "commit", "update", "recycle", "restore", "purge"}

VARIABLES
    node,      \* the rows of file_node
    blob,      \* status of the blob of a file, None before there is one
    object,    \* files whose object storage holds
    finished,  \* purged roots: maintenance_not_before is infinity
    lock,      \* holder of the tenant row lock
    req        \* what each request knows and where it is

vars == <<node, blob, object, finished, lock, req>>

Row == [parent: Nodes \cup {None}, dir: BOOLEAN, name: Names \cup {None},
        status: {"absent", "active", "trashed", "purging"},
        trash: Nodes \cup {None}, origin: Nodes \cup {None}, revision: Nat]

Absent == [parent |-> None, dir |-> FALSE, name |-> None, status |-> "absent",
           trash |-> None, origin |-> None, revision |-> 0]

AllOps == {"mkdir", "commit", "update", "recycle", "restore", "purge"}

\* op on node, with the row the client saw, the parent and the name it asks
\* for (None: keep), the blobs a purge planned and those still to be deleted.
Req == [pc: {"idle", "sent", "locked", "deleting"},
        op: AllOps \cup {"none"},
        node: Nodes, seen: Row, parent: Nodes \cup {None}, name: Names \cup {None},
        plan: SUBSET Nodes, left: SUBSET Nodes]

Idle == [pc |-> "idle", op |-> "none", node |-> Root, seen |-> Absent,
         parent |-> None, name |-> None, plan |-> {}, left |-> {}]

\* Rows, blobs and requests have their shape; every node but the root has a
\* parent and a name (file_node_one_root_per_tenant).
TypeOK ==
    /\ node \in [Nodes -> Row]
    /\ \A n \in Nodes \ {Root} :
         node[n].status # "absent" => node[n].parent # None /\ node[n].name # None
    /\ blob \in [Nodes -> {"none", "available", "pending_delete", "deleted"}]
    /\ object \in SUBSET Nodes
    /\ finished \in SUBSET Nodes
    /\ lock \in Actors \cup {None}
    /\ req \in [Actors -> Req]

\* EnsureTenant: a tenant starts with its root directory.
Init ==
    /\ node = [n \in Nodes |-> IF n = Root
                               THEN [Absent EXCEPT !.dir = TRUE, !.status = "active",
                                                   !.revision = 1]
                               ELSE Absent]
    /\ blob = [n \in Nodes |-> "none"]
    /\ object = {}
    /\ finished = {}
    /\ lock = None
    /\ req = [a \in Actors |-> Idle]

-----------------------------------------------------------------------------
\* Queries

Exists(n) == node[n].status # "absent"
Visible(n) == node[n].status = "active" /\ node[n].trash = None
ActiveDirectory(n) == n \in Nodes /\ node[n].dir /\ Visible(n)

\* A recycle-bin entry, and the nodes recycled with it.
RecycleRoot(n) == node[n].status \in {"trashed", "purging"} /\ node[n].trash = n
Members(r) == {n \in Nodes : node[n].trash = r}

\* No other visible child of p is called q: file_node_active_name_unique.
NameFree(p, q, n) ==
    \A m \in Nodes \ {n} : ~(Visible(m) /\ node[m].parent = p /\ node[m].name = q)

\* The recursive query of UpdateNode: n and what lies above it.
ParentClosed(S) == \A y \in S : node[y].parent # None => node[y].parent \in S
Ancestors(n) ==
    {x \in Nodes : \A S \in SUBSET Nodes : (n \in S /\ ParentClosed(S)) => x \in S}

\* The recursive query of Recycle: n and the visible nodes below it.
ChildClosed(S) == \A y \in Nodes : (Visible(y) /\ node[y].parent \in S) => y \in S
ActiveTree(n) ==
    {x \in Nodes : \A S \in SUBSET Nodes : (n \in S /\ ChildClosed(S)) => x \in S}

\* A mutant: every descendant, the ones recycled before included.
WholeTree(n) ==
    {x \in Nodes : \A S \in SUBSET Nodes :
        (n \in S /\ (\A y \in Nodes : node[y].parent \in S => y \in S)) => x \in S}

-----------------------------------------------------------------------------
\* Requests

SetReq(a, x) == req' = [req EXCEPT ![a] = x]
Goto(a, pc) == SetReq(a, [req[a] EXCEPT !.pc = pc])

\* The client read a node or a recycle-bin entry some time ago and now asks
\* for an operation on it, with the revision it saw.
Send(a, op, n, p, q) ==
    /\ req[a].pc = "idle"
    /\ CASE op \in {"mkdir", "commit"} -> ~Exists(n) /\ p # None /\ q # None
         [] op = "update" -> Visible(n) /\ (p # None \/ q # None)
         [] op = "recycle" -> Visible(n) /\ p = None /\ q = None
         [] op \in {"restore", "purge"} ->
              node[n].status = "trashed" /\ RecycleRoot(n) /\ p = None /\ q = None
    /\ SetReq(a, [pc |-> "sent", op |-> op, node |-> n, seen |-> node[n],
                  parent |-> p, name |-> q, plan |-> {}, left |-> {}])
    /\ UNCHANGED <<node, blob, object, finished, lock>>

\* Any error, a crash, a cancelled request: the transaction is rolled back.
Leave(a) ==
    /\ req[a].pc # "idle"
    /\ SetReq(a, Idle)
    /\ lock' = IF lock = a THEN None ELSE lock
    /\ UNCHANGED <<node, blob, object, finished>>

-----------------------------------------------------------------------------
\* What a transaction checks under the tenant lock

Current(r) == node[r.node].revision = r.seen.revision

CanCreate(r) == ~Exists(r.node) /\ ActiveDirectory(r.parent)

\* A mutant: the revision the client saw is not compared.
CanUpdateStale(r) ==
    /\ Visible(r.node)
    /\ r.node # Root
    /\ r.parent # None =>
         /\ ActiveDirectory(r.parent)
         /\ node[r.node].dir => r.node \notin Ancestors(r.parent)

CanUpdate(r) ==
    /\ Visible(r.node)
    /\ r.node # Root
    /\ Current(r)
    /\ r.parent # None =>
         /\ ActiveDirectory(r.parent)
         /\ node[r.node].dir => r.node \notin Ancestors(r.parent)

CanRecycle(r) == r.node # Root /\ Visible(r.node) /\ Current(r)

\* A mutant: an entry that is being purged is restored.
CanRestorePurging(r) ==
    /\ RecycleRoot(r.node)
    /\ Current(r)
    /\ ActiveDirectory(node[r.node].origin)
    /\ NameFree(node[r.node].origin, node[r.node].name, r.node)

CanRestore(r) ==
    /\ node[r.node].status = "trashed"
    /\ RecycleRoot(r.node)
    /\ Current(r)
    /\ ActiveDirectory(node[r.node].origin)
    /\ NameFree(node[r.node].origin, node[r.node].name, r.node)

CanPurge(r) == RecycleRoot(r.node) /\ Current(r)

Admitted(r) ==
    \/ r.op \in {"mkdir", "commit"} /\ CanCreate(r)
    \/ r.op = "update" /\ CanUpdate(r)
    \/ r.op = "recycle" /\ CanRecycle(r)
    \/ r.op = "restore" /\ CanRestore(r)
    \/ r.op = "purge" /\ CanPurge(r)

\* A mutant: the tenant row is read without a lock.
LockShared(a) ==
    /\ req[a].pc = "sent"
    /\ Admitted(req[a])
    /\ lock' = a
    /\ Goto(a, "locked")
    /\ UNCHANGED <<node, blob, object, finished>>

\* lockNamespace, then the reads and checks of the operation.
Lock(a) ==
    /\ req[a].pc = "sent"
    /\ lock = None
    /\ Admitted(req[a])
    /\ lock' = a
    /\ Goto(a, "locked")
    /\ UNCHANGED <<node, blob, object, finished>>

Unlock(a) == lock' = IF lock = a THEN None ELSE lock

-----------------------------------------------------------------------------
\* The writes, each with the commit that ends its transaction

Locked(a, op) == req[a].pc = "locked" /\ req[a].op = op

Insert(a, dir) ==
    LET r == req[a] IN
    /\ ~Exists(r.node)
    /\ NameFree(r.parent, r.name, r.node)
    /\ node' = [node EXCEPT ![r.node] =
         [parent |-> r.parent, dir |-> dir, name |-> r.name, status |-> "active",
          trash |-> None, origin |-> None, revision |-> 1]]
    /\ SetReq(a, Idle)
    /\ Unlock(a)

CreateDirectory(a) ==
    /\ Locked(a, "mkdir")
    /\ Insert(a, TRUE)
    /\ UNCHANGED <<blob, object, finished>>

\* The tree's side of CommitUpload: storage completed the object before.
CommitUpload(a) ==
    /\ Locked(a, "commit")
    /\ Insert(a, FALSE)
    /\ blob' = [blob EXCEPT ![req[a].node] = "available"]
    /\ object' = object \cup {req[a].node}
    /\ UNCHANGED finished

\* Bound: a node is updated, recycled or restored while its revision is below
\* MaxRevision.
UpdateNode(a) ==
    LET r == req[a]
        old == node[r.node]
        p == IF r.parent = None THEN old.parent ELSE r.parent
        q == IF r.name = None THEN old.name ELSE r.name
    IN  /\ Locked(a, "update")
        /\ Current(r)
        /\ old.revision < MaxRevision
        /\ NameFree(p, q, r.node)
        /\ node' = [node EXCEPT ![r.node] =
             [old EXCEPT !.parent = p, !.name = q, !.revision = @ + 1]]
        /\ SetReq(a, Idle)
        /\ Unlock(a)
        /\ UNCHANGED <<blob, object, finished>>

Recycled(x, n) ==
    IF x = n
    THEN [node[x] EXCEPT !.trash = n, !.status = "trashed", !.origin = node[x].parent,
                         !.revision = @ + 1]
    ELSE [node[x] EXCEPT !.trash = n]

Recycle(a) ==
    LET n == req[a].node IN
    /\ Locked(a, "recycle")
    /\ node[n].revision < MaxRevision
    /\ node' = [x \in Nodes |-> IF x \in ActiveTree(n) /\ Visible(x)
                                THEN Recycled(x, n) ELSE node[x]]
    /\ SetReq(a, Idle)
    /\ Unlock(a)
    /\ UNCHANGED <<blob, object, finished>>

Restored(x, n) ==
    IF x = n
    THEN [node[x] EXCEPT !.trash = None, !.status = "active", !.parent = node[x].origin,
                         !.origin = None, !.revision = @ + 1]
    ELSE [node[x] EXCEPT !.trash = None]

Restore(a) ==
    LET n == req[a].node IN
    /\ Locked(a, "restore")
    /\ node[n].revision < MaxRevision
    /\ NameFree(node[n].origin, node[n].name, n)
    /\ node' = [x \in Nodes |-> IF x \in Members(n) THEN Restored(x, n) ELSE node[x]]
    /\ SetReq(a, Idle)
    /\ Unlock(a)
    /\ UNCHANGED <<blob, object, finished>>

\* Mutants: only the blob of the entry itself; those of every node below it.
PurgeRootBlob(n) == {x \in {n} : blob[x] \in {"available", "pending_delete"}}
PurgeTreeBlobs(n) == {x \in WholeTree(n) : blob[x] \in {"available", "pending_delete"}}

\* The blobs a purge of n may delete: of its tree, not deleted yet, and with
\* no version on a node that stays.
PurgeBlobs(n) == {x \in Members(n) : blob[x] \in {"available", "pending_delete"}}

PreparePurge(a) ==
    LET n == req[a].node IN
    /\ Locked(a, "purge")
    /\ node' = [x \in Nodes |-> IF x \in Members(n)
                                THEN [node[x] EXCEPT !.status = "purging"] ELSE node[x]]
    /\ blob' = [x \in Nodes |-> IF x \in PurgeBlobs(n) THEN "pending_delete" ELSE blob[x]]
    /\ SetReq(a, [req[a] EXCEPT !.pc = "deleting", !.plan = PurgeBlobs(n),
                                   !.left = PurgeBlobs(n)])
    /\ Unlock(a)
    /\ UNCHANGED <<object, finished>>

\* Service.Purge deletes one object after the other.
DeleteObject(a, x) ==
    /\ req[a].pc = "deleting"
    /\ x \in req[a].left
    /\ object' = object \ {x}
    /\ SetReq(a, [req[a] EXCEPT !.left = @ \ {x}])
    /\ UNCHANGED <<node, blob, finished, lock>>

FinishPurge(a) ==
    LET r == req[a] IN
    /\ r.pc = "deleting"
    /\ r.left = {}
    /\ node[r.node].status = "purging"
    /\ blob' = [x \in Nodes |-> IF x \in r.plan /\ blob[x] = "pending_delete"
                                THEN "deleted" ELSE blob[x]]
    /\ finished' = finished \cup {r.node}
    /\ SetReq(a, Idle)
    /\ UNCHANGED <<node, object, lock>>

\* The purge failed on the way and its client repeats it with the revision it
\* knows: the entry is not listed any more.
RetryPurge(a) ==
    /\ req[a].pc = "deleting"
    /\ SetReq(a, [req[a] EXCEPT !.pc = "sent", !.plan = {}, !.left = {}])
    /\ UNCHANGED <<node, blob, object, finished, lock>>

-----------------------------------------------------------------------------
Write(a) ==
    \/ CreateDirectory(a)
    \/ CommitUpload(a)
    \/ UpdateNode(a)
    \/ Recycle(a)
    \/ Restore(a)
    \/ PreparePurge(a)

Step(a) ==
    \/ \E op \in Ops, n \in Nodes, p \in Nodes \cup {None}, q \in Names \cup {None} :
            Send(a, op, n, p, q)
    \/ Lock(a)
    \/ Write(a)
    \/ \E x \in Nodes : DeleteObject(a, x)
    \/ FinishPurge(a)
    \/ RetryPurge(a)
    \/ Leave(a)

Next == \E a \in Actors : Step(a)

Spec == Init /\ [][Next]_vars

-----------------------------------------------------------------------------
\* Properties

\* The tree has no cycle: going up from any node, recycled ones included, ends
\* at the root, whatever moves run side by side (UpdateNode, Restore).
Rooted == \A n \in Nodes : Exists(n) => Root \in Ancestors(n)

\* A visible node lies in a visible directory: a parent is not recycled from
\* under a creation, a commit, a move or a restore.
NoActiveOrphan ==
    \A n \in Nodes \ {Root} : Visible(n) => ActiveDirectory(node[n].parent)

\* Two visible nodes of one directory have different names, also after a tree
\* that was recycled with its names is restored.
NamesUnique ==
    \A m, n \in Nodes \ {Root} :
        (m # n /\ Visible(m) /\ Visible(n) /\ node[m].parent = node[n].parent)
            => node[m].name # node[n].name

\* The file of a node that is not being purged has its blob and its object:
\* no purge, repeated or concurrent, deletes what can still be restored.
ContentKept ==
    \A n \in Nodes :
        (Exists(n) /\ ~node[n].dir /\ node[n].status # "purging")
            => blob[n] = "available" /\ n \in object

\* A purge that was recorded left nothing: every blob of the tree is marked
\* deleted, and a blob so marked has no object (FinishPurge).
PurgeComplete ==
    /\ \A n \in Nodes : blob[n] = "deleted" => n \notin object
    /\ \A r \in finished : \A n \in Members(r) :
         node[n].status = "purging" /\ (~node[n].dir => blob[n] = "deleted")

\* A change is applied to the node its client saw: same place, same name, same
\* recycle-bin entry (the revision check of UpdateNode, Recycle, Restore).
AppliedAsSeen ==
    \A a \in Actors :
        (req[a].pc = "locked" /\ req[a].op \in {"update", "recycle", "restore"}) =>
            LET now == node[req[a].node]
                seen == req[a].seen
            IN  /\ now.parent = seen.parent
                /\ now.name = seen.name
                /\ now.trash = seen.trash
                /\ now.origin = seen.origin

\* Recycle-bin entries are independent: a node leaves its entry only when the
\* entry is restored, and then all of the entry leaves with it (ADR-0009).
IndependentEntries ==
    [][\A n \in Nodes :
        node[n].trash # None =>
            \/ node'[n].trash = node[n].trash
            \/ \A m \in Members(node[n].trash) : node'[m].trash = None]_vars
=============================================================================
