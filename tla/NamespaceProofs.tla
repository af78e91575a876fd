-------------------------- MODULE NamespaceProofs ---------------------------
(***************************************************************************)
(* The inductive invariant of Namespace, that every step preserves it, and *)
(* what follows for any sets of nodes, names and requests: the properties  *)
(* of the tree, and that its transactions implement DriveTree.  Under the  *)
(* invariant the queries of both say the same; each write is then one      *)
(* operation of the tree, and nothing else shows in it.                    *)
(*                                                                         *)
(* The last part is about recycle retention (RecycleMaintenance), whose    *)
(* claims mark the root of an entry alone: an invariant of its own says    *)
(* that what a worker goes on with is still the claimed root.              *)
(***************************************************************************)
EXTENDS NamespaceTree, RecycleMaintenance, TLAPS

-----------------------------------------------------------------------------
\* Going up a parent function f: sets closed under f, and "every way up from x
\* meets the root", the constant-level form of Root \in Ancestors(x).

Closed(f, S) == \A y \in S : f[y] # None => f[y] \in S
Up(f, x) == \A S \in SUBSET Nodes : (x \in S /\ Closed(f, S)) => Root \in S
Par == [n \in Nodes |-> node[n].parent]

\* The recursive query and the parent function say the same.
LEMMA UpIsAncestor ==
    ASSUME NEW n \in Nodes
    PROVE  Up(Par, n) <=> Root \in Ancestors(n)
  <1>1. ASSUME NEW S \in SUBSET Nodes PROVE Closed(Par, S) <=> ParentClosed(S)
    BY <1>1, Zenon DEF Closed, ParentClosed, Par
  <1> QED BY <1>1, NodesAssumption, Zenon DEF Up, Ancestors

LEMMA UpIsAncestorNext ==
    ASSUME NEW n \in Nodes
    PROVE  Up(Par', n) <=> Root \in Ancestors(n)'
  <1>1. ASSUME NEW S \in SUBSET Nodes PROVE Closed(Par', S) <=> ParentClosed(S)'
    BY <1>1, Zenon DEF Closed, ParentClosed, Par
  <1> QED BY <1>1, NodesAssumption, Zenon DEF Up, Ancestors

\* The recursive query returns a set that holds n and is closed upwards.
LEMMA AncestorsClosed ==
    ASSUME NEW n \in Nodes, node \in [Nodes -> Row]
    PROVE  n \in Ancestors(n) /\ Closed(Par, Ancestors(n)) /\ Ancestors(n) \in SUBSET Nodes
  <1>1. ASSUME NEW y \in Ancestors(n), node[y].parent # None
        PROVE  node[y].parent \in Ancestors(n)
    <2>1. y \in Nodes /\ node[y].parent \in Nodes
      BY <1>1, Zenon DEF Ancestors, Row
    <2> SUFFICES ASSUME NEW S \in SUBSET Nodes, n \in S, ParentClosed(S)
                 PROVE  node[y].parent \in S
      BY <2>1, Zenon DEF Ancestors
    <2>2. y \in S
      BY Zenon DEF Ancestors
    <2> QED BY <1>1, <2>2, Zenon DEF ParentClosed
  <1> QED BY <1>1, Zenon DEF Closed, Par, Ancestors

\* What lies above p stays above it when nodes that are not above p move.
LEMMA UpMoved ==
    ASSUME NEW f, NEW g, NEW n \in Nodes, NEW p \in Nodes, NEW x \in Nodes,
           f \in [Nodes -> Nodes \cup {None}],
           g = [f EXCEPT ![n] = p],
           Up(f, x), Up(f, p),
           NEW U \in SUBSET Nodes, p \in U, Closed(f, U), n \notin U
    PROVE  Up(g, x)
  <1> SUFFICES ASSUME NEW S \in SUBSET Nodes, x \in S, Closed(g, S)
               PROVE  Root \in S
    BY Zenon DEF Up
  <1>0. /\ \A y \in Nodes : y # n => g[y] = f[y]
        /\ g[n] = p
        /\ p # None
    BY NodesAssumption, Zenon
  <1>1. CASE p \in S
    <2>1. Closed(f, S \cap U)
      BY <1>0, Zenon DEF Closed
    <2>2. p \in S \cap U /\ S \cap U \in SUBSET Nodes
      BY <1>1, Zenon
    <2> QED BY <2>1, <2>2, Zenon DEF Up
  <1>2. CASE p \notin S
    <2>1. n \notin S
      BY <1>0, <1>2, Zenon DEF Closed
    <2>2. Closed(f, S)
      BY <1>0, <2>1, Zenon DEF Closed
    <2> QED BY <2>2, Zenon DEF Up
  <1> QED BY <1>1, <1>2, Zenon

\* A node that had no parent and was nobody's gets one.
LEMMA UpAdded ==
    ASSUME NEW f, NEW g, NEW n \in Nodes, NEW p \in Nodes, NEW x \in Nodes,
           f \in [Nodes -> Nodes \cup {None}],
           g = [f EXCEPT ![n] = p],
           f[n] = None, Up(f, p), x # n => Up(f, x)
    PROVE  Up(g, x)
  <1> SUFFICES ASSUME NEW S \in SUBSET Nodes, x \in S, Closed(g, S)
               PROVE  Root \in S
    BY Zenon DEF Up
  <1>0. /\ \A y \in Nodes : y # n => g[y] = f[y]
        /\ g[n] = p
        /\ p # None
    BY NodesAssumption, Zenon
  <1>1. Closed(f, S)
    BY <1>0, Zenon DEF Closed
  <1>2. CASE x = n
    <2>1. p \in S
      BY <1>0, <1>2, Zenon DEF Closed
    <2> QED BY <1>1, <2>1, Zenon DEF Up
  <1>3. CASE x # n
    BY <1>1, <1>3, Zenon DEF Up
  <1> QED BY <1>2, <1>3, Zenon

-----------------------------------------------------------------------------
\* The inductive invariant

\* Which statuses go with which entry of the recycle bin.
StatusOK(n) ==
    /\ node[n].status = "absent" => node[n].trash = None /\ node[n].parent = None
    /\ node[n].trash = None => node[n].status \in {"absent", "active"}
    /\ node[n].trash = n => node[n].status \in {"trashed", "purging"}
    /\ (node[n].trash # None /\ node[n].trash # n) =>
         LET r == node[n].trash IN
         /\ node[r].trash = r
         /\ node[r].status = "purging" => node[n].status = "purging"
         /\ node[r].status # "purging" => node[n].status = "active"

\* A node lies in a directory, and what is recycled together hangs together.
PlaceOK(n) ==
    (node[n].status # "absent" /\ n # Root) =>
         LET p == node[n].parent IN
         /\ p \in Nodes
         /\ node[p].status # "absent"
         /\ node[p].dir
         /\ node[n].trash = n => node[n].origin = p
         /\ node[n].trash # n => node[p].trash = node[n].trash

\* Blob and object of a file go with its status.
ContentOK(n) ==
    /\ (node[n].status = "absent" \/ node[n].dir) => blob[n] = "none"
    /\ (node[n].status = "purging" /\ ~node[n].dir) =>
         blob[n] = "pending_delete" \/ blob[n] = "deleted"
    /\ (node[n].status \notin {"absent", "purging"} /\ ~node[n].dir) => blob[n] = "available"
    /\ blob[n] = "available" => n \in object
    /\ blob[n] = "deleted" => n \notin object

FinishedOK(n) ==
    n \in finished =>
         /\ node[n].trash = n
         /\ node[n].status = "purging"
         /\ \A m \in Members(n) : blob[m] \in {"none", "deleted"}

NodeOK(n) == StatusOK(n) /\ PlaceOK(n) /\ ContentOK(n) /\ FinishedOK(n)

RootOK ==
    /\ node[Root].status = "active"
    /\ node[Root].trash = None
    /\ node[Root].dir
    /\ node[Root].parent = None

\* Siblings of one entry, or of the visible tree, have different names.
NamesOK ==
    \A m, n \in Nodes \ {Root} :
        (/\ m # n
         /\ node[m].status # "absent" /\ node[n].status # "absent"
         /\ node[m].trash # m /\ node[n].trash # n
         /\ node[m].trash = node[n].trash
         /\ node[m].parent = node[n].parent)
            => node[m].name # node[n].name

RowsOK == (\A n \in Nodes : NodeOK(n)) /\ RootOK /\ NamesOK

\* What a request can rely on.
ReqOK(a) ==
    /\ req[a].pc = "locked" <=> lock = a
    /\ req[a].pc = "locked" => Admitted(req[a])
    /\ (req[a].pc # "idle" /\ req[a].op \in {"mkdir", "commit"}) => req[a].name # None
    /\ (req[a].pc # "idle" /\ req[a].op \in {"update", "recycle", "restore", "purge"}) =>
         LET n == req[a].node
             s == req[a].seen
         IN  /\ node[n].status # "absent"
             /\ s.revision <= node[n].revision
             /\ s.revision = node[n].revision =>
                  s.parent = node[n].parent /\ s.name = node[n].name /\ s.origin = node[n].origin
             /\ req[a].op \in {"update", "recycle"} => s.trash = None
             /\ req[a].op = "restore" => s.trash = n
    /\ req[a].pc = "deleting" =>
         LET n == req[a].node IN
         /\ req[a].op = "purge"
         /\ node[n].status = "purging"
         /\ node[n].trash = n
         /\ req[a].left \subseteq req[a].plan
         /\ req[a].plan \subseteq Members(n)
         /\ \A x \in req[a].plan :
              /\ blob[x] \in {"pending_delete", "deleted"}
              /\ x \notin req[a].left => x \notin object
         /\ \A x \in Members(n) : blob[x] # "pending_delete" \/ x \in req[a].plan
         /\ \A x \in Members(n) : blob[x] # "available"

ReqsOK == \A a \in Actors : ReqOK(a)

IInv == TypeOK /\ RowsOK /\ Rooted /\ ReqsOK

\* The fields of a row, and what the invariant says of it.
LEMMA RowFields ==
    ASSUME IInv, NEW n \in Nodes
    PROVE  /\ node[n] \in Row
           /\ node[n].parent \in Nodes \cup {None}
           /\ node[n].trash \in Nodes \cup {None}
           /\ node[n].revision \in Nat
  <1>1. node[n] \in Row
    BY Zenon DEF IInv, TypeOK
  <1> QED BY <1>1, Zenon DEF Row

LEMMA RowFacts ==
    ASSUME IInv, NEW n \in Nodes
    PROVE  StatusOK(n) /\ PlaceOK(n) /\ ContentOK(n)
  BY Zenon DEF IInv, RowsOK, NodeOK

-----------------------------------------------------------------------------
\* How any step may change a row: an existing node stays, its revision tells
\* changes of its place, name and origin, and what is being purged is fixed
\* but for its blob.

Keeps(x) ==
    /\ node[x].status # "absent" =>
         /\ node'[x].status # "absent"
         /\ node[x].revision <= node'[x].revision
         /\ node[x].revision = node'[x].revision =>
              /\ node'[x].parent = node[x].parent
              /\ node'[x].name = node[x].name
              /\ node'[x].origin = node[x].origin
    /\ node[x].status = "purging" =>
         /\ node'[x].status = "purging"
         /\ node'[x].trash = node[x].trash
         /\ blob'[x] = blob[x] \/ blob'[x] = "deleted"
         /\ x \in object' => x \in object
    /\ (node'[x].trash # node[x].trash /\ node'[x].trash # None) =>
         node[node'[x].trash].status # "purging"

\* A node that is purged with an entry is being purged when the entry is.
LEMMA MembersPurging ==
    ASSUME TypeOK, RowsOK, NEW n \in Nodes, node[n].status = "purging", node[n].trash = n
    PROVE  \A x \in Members(n) : node[x].status = "purging"
  BY NodesAssumption DEF Members, RowsOK, NodeOK, StatusOK, PlaceOK, ContentOK, FinishedOK

\* Checks made under the lock hold as long as the rows do not change.
LEMMA AdmittedStable ==
    ASSUME NEW r, node' = node
    PROVE  Admitted(r) => Admitted(r)'
  <1>1. \A n : Ancestors(n)' = Ancestors(n)
    BY Zenon DEF Ancestors, ParentClosed
  <1>2. \A p, q, n : NameFree(p, q, n)' <=> NameFree(p, q, n)
    BY Zenon DEF NameFree, Visible
  <1> QED
    BY <1>1, <1>2, Zenon DEF Admitted, CanCreate, CanUpdate, CanRecycle, CanRestore, CanPurge, Exists,
       ActiveDirectory, Visible, RecycleRoot, Current

\* What another request relies on survives a step that Keeps the rows.
LEMMA OtherOK ==
    ASSUME IInv, NEW b \in Actors, req'[b] = req[b],
           \A x \in Nodes : Keeps(x), node' \in [Nodes -> Row],
           req[b].pc = "locked" => node' = node,
           req[b].pc = "locked" <=> lock' = b
    PROVE  ReqOK(b)'
  <1>0. req[b] \in Req /\ req[b].node \in Nodes /\ ReqOK(b) /\ req[b].seen \in Row
    BY Zenon DEF IInv, TypeOK, ReqsOK, Req
  <1> PICK n \in Nodes : n = req[b].node
    BY <1>0, Zenon
  <1> PICK s \in Row : s = req[b].seen
    BY <1>0, Zenon
  <1>1. req[b].pc = "locked" => Admitted(req[b])'
    BY <1>0, AdmittedStable, Zenon DEF ReqOK
  <1>2. (req[b].pc # "idle" /\ req[b].op \in {"update", "recycle", "restore", "purge"}) =>
             /\ node'[n].status # "absent"
             /\ s.revision <= node'[n].revision
             /\ s.revision = node'[n].revision =>
                  s.parent = node'[n].parent /\ s.name = node'[n].name /\ s.origin = node'[n].origin
             /\ req[b].op \in {"update", "recycle"} => s.trash = None
             /\ req[b].op = "restore" => s.trash = n
    <2>1. s.revision \in Nat /\ node[n].revision \in Nat /\ node'[n].revision \in Nat
      BY <1>0, Zenon DEF IInv, TypeOK, Row
    <2> QED BY <2>1, <1>0 DEF ReqOK, Keeps
  <1>3. req[b].pc = "deleting" =>
         /\ req[b].op = "purge"
         /\ node'[n].status = "purging"
         /\ node'[n].trash = n
         /\ req[b].left \subseteq req[b].plan
         /\ req[b].plan \subseteq Members(n)'
         /\ \A x \in req[b].plan :
              /\ blob'[x] \in {"pending_delete", "deleted"}
              /\ x \notin req[b].left => x \notin object'
         /\ \A x \in Members(n)' : blob'[x] # "pending_delete" \/ x \in req[b].plan
         /\ \A x \in Members(n)' : blob'[x] # "available"
    <2> HAVE req[b].pc = "deleting"
    <2>1. node[n].status = "purging" /\ node[n].trash = n
      BY <1>0, Zenon DEF ReqOK
    <2>2. \A x \in Members(n) : node[x].status = "purging"
      BY <2>1, MembersPurging, Zenon DEF IInv
    <2>3. Members(n)' = Members(n)
      BY <2>1, <2>2, NodesAssumption DEF Members, Keeps
    <2> QED BY <1>0, <2>1, <2>2, <2>3 DEF ReqOK, Keeps, Members
  <1> QED BY <1>0, <1>1, <1>2, <1>3, Zenon DEF ReqOK

-----------------------------------------------------------------------------
\* The invariant holds initially.
LEMMA InitOK == Init => IInv
  <1> SUFFICES ASSUME Init PROVE IInv
    BY Zenon
  <1>0. Absent \in Row /\ Idle \in Req
    BY NodesAssumption, Zenon DEF Absent, Row, Idle, Req, AllOps
  <1>1. /\ node[Root] = [Absent EXCEPT !.dir = TRUE, !.status = "active", !.revision = 1]
        /\ \A n \in Nodes : n # Root => node[n] = Absent
    BY NodesAssumption, Zenon DEF Init
  <1>2. /\ node[Root].status = "active" /\ node[Root].trash = None
        /\ node[Root].dir = TRUE /\ node[Root].parent = None
        /\ node[Root] \in Row
    <2>1. node[Root] = [parent |-> None, dir |-> TRUE, name |-> None, status |-> "active",
                        trash |-> None, origin |-> None, revision |-> 1]
      BY <1>1, Zenon DEF Absent
    <2> QED BY <2>1, NodesAssumption DEF Row
  <1>3. \A n \in Nodes : n # Root => node[n].status = "absent" /\ node[n].trash = None
                                    /\ node[n].parent = None /\ node[n].dir = FALSE
    BY <1>1 DEF Absent
  <1>4. TypeOK
    BY <1>0, <1>1, <1>2, <1>3, Zenon DEF Init, TypeOK
  <1>5. RowsOK
    <2>1. NodeOK(Root)
      BY <1>2, NodesAssumption, Zenon DEF Init, NodeOK, StatusOK, PlaceOK, ContentOK, FinishedOK
    <2>2. ASSUME NEW n \in Nodes, n # Root PROVE NodeOK(n)
      BY <1>3, <2>2, NodesAssumption, Zenon DEF Init, NodeOK, StatusOK, PlaceOK, ContentOK, FinishedOK
    <2> QED BY <1>2, <1>3, <2>1, <2>2, Zenon DEF RowsOK, RootOK, NamesOK
  <1>6. Rooted
    <2>1. Root \in Ancestors(Root)
      BY NodesAssumption, Zenon DEF Ancestors
    <2> QED BY <1>3, <2>1, Zenon DEF Rooted, Exists
  <1>7. ReqsOK
    BY NodesAssumption, Zenon DEF Init, ReqsOK, ReqOK, Idle
  <1> QED BY <1>4, <1>5, <1>6, <1>7, Zenon DEF IInv

\* A step of one request: its own facts, the rows, and that others go on.
LEMMA StepTo ==
    ASSUME IInv, NEW a \in Actors, NEW x \in Req, SetReq(a, x),
           node' \in [Nodes -> Row], TypeOK', RowsOK', Rooted',
           \A n \in Nodes : Keeps(n),
           \A b \in Actors : (b # a /\ req[b].pc = "locked") => node' = node,
           \A b \in Actors : b # a => (req[b].pc = "locked" <=> lock' = b),
           ReqOK(a)'
    PROVE  IInv'
  <1>1. ASSUME NEW b \in Actors, b # a PROVE ReqOK(b)'
    <2>1. req'[b] = req[b]
      BY <1>1, Zenon DEF SetReq, IInv, TypeOK
    <2>2. /\ req[b].pc = "locked" => node' = node
          /\ req[b].pc = "locked" <=> lock' = b
      BY <1>1, Zenon
    <2> QED BY <2>1, <2>2, OtherOK, Zenon
  <1> QED BY <1>1, Zenon DEF IInv, ReqsOK

\* A step that leaves rows, blobs, objects and the lock alone.
LEMMA StepIn ==
    ASSUME IInv, NEW a \in Actors, NEW x \in Req, SetReq(a, x),
           UNCHANGED <<node, blob, object, finished>>,
           lock' \in Actors \cup {None},
           \A b \in Actors : b # a => (lock' = b <=> lock = b),
           ReqOK(a)'
    PROVE  IInv'
  <1>1. TypeOK'
    BY Zenon DEF IInv, TypeOK, SetReq
  <1>2. RowsOK'
    BY DEF IInv, RowsOK, NodeOK, StatusOK, PlaceOK, ContentOK, FinishedOK, RootOK, NamesOK, Members
  <1>3. Rooted'
    BY Zenon DEF IInv, Rooted, Exists, Ancestors, ParentClosed
  <1>4. ASSUME NEW n \in Nodes PROVE Keeps(n)
    <2>1. node[n].revision \in Nat
      BY Zenon DEF IInv, TypeOK, Row
    <2> QED BY <2>1 DEF Keeps
  <1>5. node' \in [Nodes -> Row]
    BY Zenon DEF IInv, TypeOK
  <1>6. \A b \in Actors : (b # a /\ req[b].pc = "locked") => node' = node
    BY Zenon
  <1>7. \A b \in Actors : b # a => (req[b].pc = "locked" <=> lock' = b)
    BY Zenon DEF IInv, ReqsOK, ReqOK
  <1> QED BY <1>1, <1>2, <1>3, <1>4, <1>5, <1>6, <1>7, StepTo, Zenon

LEMMA SendOK ==
    ASSUME IInv, NEW a \in Actors, NEW op \in Ops, NEW n \in Nodes,
           NEW p \in Nodes \cup {None}, NEW q \in Names \cup {None}, Send(a, op, n, p, q)
    PROVE  IInv'
  <1> DEFINE x == [pc |-> "sent", op |-> op, node |-> n, seen |-> node[n],
                   parent |-> p, name |-> q, plan |-> {}, left |-> {}]
  <1>0. node[n] \in Row /\ node[n].revision \in Nat /\ op \in AllOps
    BY BoundsAssumption, Zenon DEF IInv, TypeOK, Row, AllOps
  <1>1. x \in Req /\ SetReq(a, x)
    BY <1>0, Zenon DEF Req, Send
  <1>2. x.pc = "sent" /\ x.op = op /\ x.node = n /\ x.seen = node[n] /\ x.name = q
    BY Zenon
  <1> HIDE DEF x
  <1>3. req'[a] = x /\ UNCHANGED <<node, blob, object, finished, lock>>
    BY <1>1, Zenon DEF Send, SetReq, IInv, TypeOK
  <1>4. lock # a
    BY Zenon DEF IInv, ReqsOK, ReqOK, Send
  <1>5. /\ op \in {"mkdir", "commit"} => q # None
        /\ op \in {"update", "recycle"} => node[n].status # "absent" /\ node[n].trash = None
        /\ op \in {"restore", "purge"} => node[n].status # "absent" /\ node[n].trash = n
    BY Zenon DEF Send, Visible, RecycleRoot
  <1>6. ReqOK(a)'
    BY <1>0, <1>2, <1>3, <1>4, <1>5 DEF ReqOK
  <1> QED BY <1>1, <1>3, <1>6, StepIn, Zenon DEF IInv, TypeOK

LEMMA LeaveOK ==
    ASSUME IInv, NEW a \in Actors, Leave(a)
    PROVE  IInv'
  <1>1. Idle \in Req /\ Idle.pc = "idle"
    BY NodesAssumption, Zenon DEF Absent, Row, Idle, Req, AllOps
  <1>2. req'[a] = Idle /\ SetReq(a, Idle) /\ UNCHANGED <<node, blob, object, finished>>
    BY Zenon DEF Leave, SetReq, IInv, TypeOK
  <1>3. /\ lock' \in Actors \cup {None}
        /\ lock' # a
        /\ \A b \in Actors : b # a => (lock' = b <=> lock = b)
    BY NodesAssumption, Zenon DEF Leave, IInv, TypeOK
  <1>4. ReqOK(a)'
    BY <1>1, <1>2, <1>3, Zenon DEF ReqOK
  <1> QED BY <1>1, <1>2, <1>3, <1>4, StepIn, Zenon

LEMMA RetryOK ==
    ASSUME IInv, NEW a \in Actors, RetryPurge(a)
    PROVE  IInv'
  <1> DEFINE x == [req[a] EXCEPT !.pc = "sent", !.plan = {}, !.left = {}]
  <1>0. req[a] \in Req /\ ReqOK(a)
    BY Zenon DEF IInv, TypeOK, ReqsOK
  <1>1. x \in Req /\ SetReq(a, x)
    BY <1>0, Zenon DEF Req, RetryPurge
  <1>2. x.pc = "sent" /\ x.op = req[a].op /\ x.node = req[a].node /\ x.seen = req[a].seen
    BY <1>0, Zenon DEF Req
  <1> HIDE DEF x
  <1>3. req'[a] = x /\ UNCHANGED <<node, blob, object, finished, lock>> /\ req[a].pc = "deleting"
    BY <1>1, Zenon DEF RetryPurge, SetReq, IInv, TypeOK
  <1>4. ReqOK(a)'
    BY <1>0, <1>2, <1>3, Zenon DEF ReqOK
  <1> QED BY <1>1, <1>3, <1>4, StepIn, Zenon DEF IInv, TypeOK

LEMMA LockOK ==
    ASSUME IInv, NEW a \in Actors, Lock(a)
    PROVE  IInv'
  <1>0. req[a] \in Req /\ ReqOK(a)
    BY Zenon DEF IInv, TypeOK, ReqsOK
  <1> PICK x \in Req : x = [req[a] EXCEPT !.pc = "locked"]
    BY <1>0, Zenon DEF Req
  <1>1. SetReq(a, x)
    BY Zenon DEF Lock, Goto
  <1>2. /\ x.pc = "locked" /\ x.op = req[a].op /\ x.node = req[a].node /\ x.seen = req[a].seen
        /\ x.parent = req[a].parent /\ x.name = req[a].name
    BY <1>0, Zenon DEF Req
  <1>3. /\ req'[a] = x /\ UNCHANGED <<node, blob, object, finished>> /\ req[a].pc = "sent"
        /\ lock' = a /\ lock = None
    BY <1>1, Zenon DEF Lock, SetReq, IInv, TypeOK
  <1>4. Admitted(x)
    BY <1>2, Zenon DEF Lock, Admitted, CanCreate, CanUpdate, CanRecycle, CanRestore, CanPurge, Current
  <1>5. Admitted(x)'
    BY <1>4, <1>3, AdmittedStable, Zenon
  <1>6. ReqOK(a)'
    BY <1>0, <1>2, <1>3, <1>5 DEF ReqOK
  <1> QED BY <1>1, <1>3, <1>6, StepIn, NodesAssumption, Zenon

LEMMA DeleteOK ==
    ASSUME IInv, NEW a \in Actors, NEW o \in Nodes, DeleteObject(a, o)
    PROVE  IInv'
  <1>0. req[a] \in Req /\ ReqOK(a)
    BY Zenon DEF IInv, TypeOK, ReqsOK
  <1> PICK x \in Req : x = [req[a] EXCEPT !.left = @ \ {o}]
    BY <1>0, Zenon DEF Req
  <1>1. SetReq(a, x)
    BY Zenon DEF DeleteObject
  <1>2. /\ x.pc = "deleting" /\ x.op = req[a].op /\ x.node = req[a].node /\ x.seen = req[a].seen
        /\ x.plan = req[a].plan /\ x.left = req[a].left \ {o}
    BY <1>0, Zenon DEF Req, DeleteObject
  <1>3. /\ req'[a] = x /\ UNCHANGED <<node, blob, finished, lock>> /\ req[a].pc = "deleting"
        /\ object' = object \ {o} /\ o \in req[a].left
    BY <1>1, Zenon DEF DeleteObject, SetReq, IInv, TypeOK
  <1>4. blob[o] \in {"pending_delete", "deleted"}
    BY <1>0, <1>3, Zenon DEF ReqOK
  <1>5. TypeOK'
    BY <1>1, <1>3, Zenon DEF IInv, TypeOK, SetReq
  <1>6. RowsOK'
    BY <1>3, <1>4 DEF IInv, RowsOK, NodeOK, StatusOK, PlaceOK, ContentOK, FinishedOK, RootOK, NamesOK, Members
  <1>7. Rooted'
    BY <1>3, Zenon DEF IInv, Rooted, Exists, Ancestors, ParentClosed
  <1>8. ASSUME NEW n \in Nodes PROVE Keeps(n)
    <2>1. node[n].revision \in Nat
      BY Zenon DEF IInv, TypeOK, Row
    <2> QED BY <1>3, <2>1 DEF Keeps
  <1>9. ReqOK(a)'
    BY <1>0, <1>2, <1>3 DEF ReqOK, Members
  <1>10. /\ node' \in [Nodes -> Row]
         /\ \A b \in Actors : req[b].pc = "locked" <=> lock' = b
    BY <1>3, Zenon DEF IInv, TypeOK, ReqsOK, ReqOK
  <1> QED BY <1>1, <1>3, <1>5, <1>6, <1>7, <1>8, <1>9, <1>10, StepTo, Zenon

LEMMA FinishOK ==
    ASSUME IInv, NEW a \in Actors, FinishPurge(a)
    PROVE  IInv'
  <1>0. req[a] \in Req /\ ReqOK(a)
    BY Zenon DEF IInv, TypeOK, ReqsOK
  <1>1. Idle \in Req /\ Idle.pc = "idle"
    BY NodesAssumption, Zenon DEF Absent, Row, Idle, Req, AllOps
  <1> PICK r \in Nodes, P \in SUBSET Nodes : r = req[a].node /\ P = req[a].plan
    BY <1>0, Zenon DEF Req
  <1>2. /\ SetReq(a, Idle) /\ req'[a] = Idle
        /\ UNCHANGED <<node, object, lock>>
        /\ finished' = finished \cup {r}
        /\ blob' = [x \in Nodes |-> IF x \in P /\ blob[x] = "pending_delete"
                                    THEN "deleted" ELSE blob[x]]
    BY Zenon DEF FinishPurge, SetReq, IInv, TypeOK
  <1>3. /\ node[r].status = "purging" /\ node[r].trash = r
        /\ P \subseteq Members(r)
        /\ \A x \in P : blob[x] \in {"pending_delete", "deleted"} /\ x \notin object
        /\ \A x \in Members(r) : blob[x] # "pending_delete" \/ x \in P
        /\ \A x \in Members(r) : blob[x] # "available"
        /\ lock # a
    BY <1>0, Zenon DEF FinishPurge, ReqOK
  <1>4. \A x \in Members(r) : node[x].status = "purging"
    BY <1>3, MembersPurging, Zenon DEF IInv
  <1>5. TypeOK'
    BY <1>1, <1>2, Zenon DEF IInv, TypeOK, SetReq
  <1>6. /\ \A x \in Nodes : blob'[x] = blob[x] \/ (x \in P /\ blob'[x] = "deleted")
        /\ \A x \in Members(r) : blob'[x] \in {"none", "deleted"}
    BY <1>2, <1>3, Zenon DEF Members, IInv, TypeOK
  <1>7. ASSUME NEW n \in Nodes PROVE NodeOK(n)'
    <2>1. NodeOK(n)
      BY Zenon DEF IInv, RowsOK
    <2>2. n \in P => node[n].status = "purging" /\ blob[n] # "none" /\ n \notin object
      BY <1>3, <1>4, Zenon
    <2>3. \A x : Members(x)' = Members(x)
      BY <1>2, Zenon DEF Members
    <2>4. n \in finished' =>
             /\ node[n].trash = n
             /\ node[n].status = "purging"
             /\ \A m \in Members(n) : blob'[m] \in {"none", "deleted"}
      BY <1>2, <1>3, <1>6, <2>1 DEF NodeOK, StatusOK, PlaceOK, ContentOK, FinishedOK, Members
    <2> QED BY <1>2, <1>6, <2>1, <2>2, <2>3, <2>4, Zenon DEF NodeOK, StatusOK, PlaceOK, ContentOK, FinishedOK
  <1>8. RowsOK'
    BY <1>2, <1>7, Zenon DEF IInv, RowsOK, RootOK, NamesOK
  <1>9. Rooted'
    BY <1>2, Zenon DEF IInv, Rooted, Exists, Ancestors, ParentClosed
  <1>10. ASSUME NEW n \in Nodes PROVE Keeps(n)
    <2>1. node[n].revision \in Nat
      BY Zenon DEF IInv, TypeOK, Row
    <2> QED BY <1>2, <1>6, <2>1 DEF Keeps
  <1>11. ReqOK(a)'
    BY <1>1, <1>2, <1>3, Zenon DEF ReqOK
  <1>12. /\ node' \in [Nodes -> Row]
         /\ \A b \in Actors : req[b].pc = "locked" <=> lock' = b
    BY <1>2, Zenon DEF IInv, TypeOK, ReqsOK, ReqOK
  <1> QED BY <1>1, <1>2, <1>5, <1>8, <1>9, <1>10, <1>11, <1>12, StepTo, Zenon

-----------------------------------------------------------------------------
\* The writes

\* A write under the lock: nobody else holds it, and it is given back.
LEMMA WriteTo ==
    ASSUME IInv, NEW a \in Actors, NEW x \in Req, SetReq(a, x), req[a].pc = "locked",
           Unlock(a), TypeOK', RowsOK', Rooted', \A n \in Nodes : Keeps(n),
           lock' # a => ReqOK(a)'
    PROVE  IInv'
  <1>1. lock = a /\ lock' = None
    BY Zenon DEF IInv, ReqsOK, ReqOK, Unlock
  <1>2. /\ \A b \in Actors : b # a => req[b].pc # "locked"
        /\ \A b \in Actors : lock' # b
    BY <1>1, NodesAssumption, Zenon DEF IInv, ReqsOK, ReqOK
  <1>3. node' \in [Nodes -> Row]
    BY Zenon DEF TypeOK
  <1> QED BY <1>2, <1>3, StepTo, Zenon

\* A write that ends its request.
LEMMA WriteLast ==
    ASSUME IInv, NEW a \in Actors, SetReq(a, Idle), req[a].pc = "locked",
           Unlock(a), TypeOK', RowsOK', Rooted', \A n \in Nodes : Keeps(n)
    PROVE  IInv'
  <1>1. Idle \in Req /\ Idle.pc = "idle"
    BY NodesAssumption, Zenon DEF Absent, Row, Idle, Req, AllOps
  <1>2. req'[a] = Idle
    BY Zenon DEF SetReq, IInv, TypeOK
  <1>3. lock' # a => ReqOK(a)'
    BY <1>1, <1>2, Zenon DEF ReqOK
  <1> QED BY <1>1, <1>3, WriteTo, Zenon

\* Ways up do not change when parents do not.
LEMMA RootedSame ==
    ASSUME Rooted, TypeOK, TypeOK', \A x \in Nodes : node'[x].parent = node[x].parent,
           \A x \in Nodes : Exists(x)' => Exists(x)
    PROVE  Rooted'
  <1>1. ASSUME NEW n \in Nodes PROVE Ancestors(n)' = Ancestors(n)
    BY Zenon DEF Ancestors, ParentClosed
  <1> QED BY <1>1, Zenon DEF Rooted

\* Recorded purges stay complete.
LEMMA FinishedStable ==
    ASSUME IInv, UNCHANGED finished, TypeOK', \A x \in Nodes : Keeps(x), NEW n \in Nodes
    PROVE  FinishedOK(n)'
  <1> SUFFICES ASSUME n \in finished PROVE FinishedOK(n)'
    BY Zenon DEF FinishedOK
  <1>1. node[n].trash = n /\ node[n].status = "purging"
        /\ \A m \in Members(n) : blob[m] \in {"none", "deleted"}
    BY Zenon DEF IInv, RowsOK, NodeOK, FinishedOK
  <1>2. \A x \in Members(n) : node[x].status = "purging"
    BY <1>1, MembersPurging, Zenon DEF IInv
  <1>3. Members(n)' = Members(n)
    BY <1>1, <1>2, NodesAssumption DEF Members, Keeps
  <1> QED BY <1>1, <1>2, <1>3, Zenon DEF FinishedOK, Keeps, Members

-----------------------------------------------------------------------------
\* What CommitUpload makes besides the node, and CreateDirectory does not.
NewContent(n, dir) ==
    \/ dir /\ UNCHANGED <<blob, object>>
    \/ ~dir /\ blob' = [blob EXCEPT ![n] = "available"] /\ object' = object \cup {n}

\* A node is added below a visible directory.
LEMMA InsertOK ==
    ASSUME IInv, NEW a \in Actors, req[a].pc = "locked", req[a].op \in {"mkdir", "commit"},
           NEW dir \in BOOLEAN, Insert(a, dir), UNCHANGED finished,
           NewContent(req[a].node, dir)
    PROVE  IInv'
  <1>0. req[a] \in Req /\ ReqOK(a) /\ Admitted(req[a])
    BY Zenon DEF IInv, TypeOK, ReqsOK, ReqOK
  <1>1. CanCreate(req[a])
    BY <1>0, Zenon DEF Admitted
  <1> PICK n \in Nodes, p \in Nodes, q \in Names :
            n = req[a].node /\ p = req[a].parent /\ q = req[a].name
    BY <1>0, <1>1, Zenon DEF Req, CanCreate, ActiveDirectory, ReqOK
  <1> PICK w \in Row : w = [parent |-> p, dir |-> dir, name |-> q, status |-> "active",
                            trash |-> None, origin |-> None, revision |-> 1]
    BY Zenon DEF Row
  <1>2. /\ w.parent = p /\ w.dir = dir /\ w.name = q /\ w.status = "active" /\ w.trash = None
    BY Zenon
  <1>3. /\ node[n].status = "absent" /\ node[n].trash = None /\ node[n].parent = None
        /\ blob[n] = "none" /\ n # Root /\ n # p
        /\ node[p].dir /\ node[p].status = "active" /\ node[p].trash = None
    BY <1>1, Zenon DEF CanCreate, Exists, ActiveDirectory, Visible, IInv, RowsOK, NodeOK, StatusOK,
       ContentOK, RootOK
  <1>4. /\ node' = [node EXCEPT ![n] = w]
        /\ NameFree(p, q, n)
        /\ SetReq(a, Idle) /\ Unlock(a)
    BY Zenon DEF Insert
  <1>5. /\ node'[n] = w
        /\ \A x \in Nodes : x # n => node'[x] = node[x]
        /\ \A x \in Nodes : x # n => blob'[x] = blob[x]
        /\ \A x \in Nodes : x # n => (x \in object' <=> x \in object)
        /\ dir => blob'[n] = "none"
        /\ ~dir => blob'[n] = "available" /\ n \in object'
    <2>1. node'[n] = w /\ \A x \in Nodes : x # n => node'[x] = node[x]
      BY <1>4, Zenon DEF IInv, TypeOK
    <2> QED BY <1>3, <2>1, Zenon DEF IInv, TypeOK, NewContent
  <1>6. TypeOK'
    <2>1. Idle \in Req
      BY NodesAssumption, Zenon DEF Absent, Row, Idle, Req, AllOps
    <2>2. node' \in [Nodes -> Row]
      BY <1>4, Zenon DEF IInv, TypeOK
    <2>3. blob' \in [Nodes -> {"none", "available", "pending_delete", "deleted"}]
      BY Zenon DEF IInv, TypeOK, NewContent
    <2>4. \A m \in Nodes \ {Root} : node'[m].status # "absent" =>
              node'[m].parent # None /\ node'[m].name # None
      BY <1>2, <1>5, NodesAssumption DEF IInv, TypeOK
    <2>5. object' \in SUBSET Nodes
      BY Zenon DEF IInv, TypeOK, NewContent
    <2> QED BY <1>4, <2>1, <2>2, <2>3, <2>4, <2>5, Zenon DEF IInv, TypeOK, SetReq, Unlock
  <1>11. ASSUME NEW x \in Nodes PROVE Keeps(x)
    <2>1. node[x].revision \in Nat
      BY RowFields, Zenon
    <2> QED BY <1>2, <1>3, <1>5, <2>1 DEF Keeps
  <1>7. ASSUME NEW m \in Nodes PROVE NodeOK(m)'
    <2>1. StatusOK(m) /\ PlaceOK(m) /\ ContentOK(m)
      BY RowFacts, Zenon
    <2>2. StatusOK(m)'
      <3>1. CASE m = n
        <4>1. node'[m].status = "active" /\ node'[m].trash = None
          BY <1>2, <1>5, <3>1, Zenon
        <4> QED BY <4>1, NodesAssumption, Zenon DEF StatusOK
      <3>2. CASE m # n
        <4>1. node'[m] = node[m] /\ node[m].trash \in Nodes \cup {None}
          BY <1>5, <3>2, RowFields, Zenon
        <4>2. CASE node[m].trash \in {None, m}
          BY <2>1, <4>1, <4>2, Zenon DEF StatusOK
        <4>3. CASE node[m].trash \notin {None, m}
          <5> PICK r \in Nodes : r = node[m].trash
            BY <4>1, <4>3, Zenon
          <5>1. node[r].trash = r
            BY <2>1, <4>3, Zenon DEF StatusOK
          <5>2. node'[r] = node[r]
            BY <1>3, <1>5, <5>1, NodesAssumption
          <5> QED BY <2>1, <4>1, <4>3, <5>2, Zenon DEF StatusOK
        <4> QED BY <4>2, <4>3, Zenon
      <3> QED BY <3>1, <3>2, Zenon
    <2>3. PlaceOK(m)'
      <3>1. CASE m = n
        <4>1. node'[m].parent = p /\ node'[m].trash = None /\ node'[p] = node[p]
          BY <1>2, <1>3, <1>5, <3>1, Zenon
        <4> QED BY <1>3, <4>1, NodesAssumption, Zenon DEF PlaceOK
      <3>2. CASE m # n
        <4>1. node'[m] = node[m]
          BY <1>5, <3>2, Zenon
        <4>2. \A x \in Nodes : node[x].status # "absent" => node'[x] = node[x]
          BY <1>3, <1>5, Zenon
        <4> QED BY <2>1, <4>1, <4>2, Zenon DEF PlaceOK
      <3> QED BY <3>1, <3>2, Zenon
    <2>4. ContentOK(m)'
      BY <1>2, <1>3, <1>5, <2>1 DEF ContentOK
    <2> QED BY <1>6, <1>11, <2>2, <2>3, <2>4, FinishedStable, Zenon DEF NodeOK
  <1>8. RootOK'
    BY <1>3, <1>5, NodesAssumption, Zenon DEF RootOK, IInv, RowsOK
  <1>9. NamesOK'
    <2> SUFFICES ASSUME NEW x \in Nodes \ {Root}, NEW y \in Nodes \ {Root}, x # y,
                        node'[x].status # "absent", node'[y].status # "absent",
                        node'[x].trash # x, node'[y].trash # y,
                        node'[x].trash = node'[y].trash,
                        node'[x].parent = node'[y].parent
                 PROVE  node'[x].name # node'[y].name
      BY Zenon DEF NamesOK
    <2>1. \A z \in Nodes \ {n} : (node[z].status # "absent" /\ node[z].trash = None
                                  /\ node[z].parent = p) => node[z].name # q
      BY <1>4, Zenon DEF NameFree, Visible, IInv, RowsOK, NodeOK, StatusOK
    <2>2. CASE x = n
      <3>1. node'[x] = w /\ node'[y] = node[y]
        BY <1>5, <2>2, Zenon
      <3>2. node[y].trash = None /\ node[y].parent = p
        BY <1>2, <3>1, Zenon
      <3> QED BY <1>2, <2>1, <2>2, <3>1, <3>2
    <2>3. CASE y = n
      <3>1. node'[y] = w /\ node'[x] = node[x]
        BY <1>5, <2>3, Zenon
      <3>2. node[x].trash = None /\ node[x].parent = p
        BY <1>2, <3>1, Zenon
      <3> QED BY <1>2, <2>1, <2>3, <3>1, <3>2
    <2>4. CASE x # n /\ y # n
      <3>1. node'[x] = node[x] /\ node'[y] = node[y] /\ NamesOK
        BY <1>5, <2>4, Zenon DEF IInv, RowsOK
      <3> QED BY <3>1, Zenon DEF NamesOK
    <2> QED BY <2>2, <2>3, <2>4, Zenon
  <1>10. Rooted'
    <2> PICK f : f = Par
      BY Zenon
    <2> PICK g : g = [f EXCEPT ![n] = p]
      BY Zenon
    <2>1. f \in [Nodes -> Nodes \cup {None}] /\ f[n] = None
      BY <1>3, RowFields, Zenon DEF Par
    <2>2. g = Par'
      BY <1>2, <1>5, <2>1 DEF Par
    <2>3. ASSUME NEW x \in Nodes, x = n \/ Exists(x) PROVE Root \in Ancestors(x)'
      <3>1. Up(f, p)
        BY <1>3, UpIsAncestor, Zenon DEF IInv, Rooted, Exists
      <3>2. x # n => Up(f, x)
        BY <2>3, UpIsAncestor, Zenon DEF IInv, Rooted
      <3>3. Up(g, x)
        BY <2>1, <3>1, <3>2, UpAdded, Zenon
      <3> QED BY <2>2, <3>3, UpIsAncestorNext, Zenon
    <2> QED BY <2>3, <1>5, Zenon DEF Rooted, Exists
  <1> QED BY <1>4, <1>6, <1>7, <1>8, <1>9, <1>10, <1>11, WriteLast, Zenon DEF RowsOK

\* What renaming and moving leave of a row.
Moved(r, p, q) == [r EXCEPT !.parent = p, !.name = q, !.revision = @ + 1]

LEMMA RowMoved ==
    ASSUME NEW r \in Row, NEW p \in Nodes, NEW q \in Names
    PROVE  /\ Moved(r, p, q) \in Row
           /\ Moved(r, p, q).parent = p
           /\ Moved(r, p, q).name = q
           /\ Moved(r, p, q).revision = r.revision + 1
           /\ Moved(r, p, q).dir = r.dir
           /\ Moved(r, p, q).status = r.status
           /\ Moved(r, p, q).trash = r.trash
  <1>1. r.revision + 1 \in Nat
    BY DEF Row
  <1> QED BY <1>1, Zenon DEF Row, Moved

\* A node is renamed or moved.
LEMMA UpdateOK ==
    ASSUME IInv, NEW a \in Actors, UpdateNode(a)
    PROVE  IInv'
  <1>0. /\ req[a] \in Req /\ ReqOK(a) /\ req[a].pc = "locked" /\ req[a].op = "update"
        /\ CanUpdate(req[a])
    BY Zenon DEF IInv, TypeOK, ReqsOK, ReqOK, UpdateNode, Locked, Admitted
  <1> PICK n \in Nodes : n = req[a].node
    BY <1>0, Zenon DEF Req
  <1>1. /\ node[n] \in Row /\ node[n].revision \in Nat
        /\ node[n].status = "active" /\ node[n].trash = None /\ n # Root
        /\ StatusOK(n) /\ PlaceOK(n) /\ ContentOK(n)
        /\ node[n].parent \in Nodes /\ node[n].name \in Names
    BY <1>0, Zenon DEF CanUpdate, Visible, IInv, TypeOK, Row, RowsOK, NodeOK, PlaceOK
  <1>2a. PICK p \in Nodes, q \in Names :
            /\ p = IF req[a].parent = None THEN node[n].parent ELSE req[a].parent
            /\ q = IF req[a].name = None THEN node[n].name ELSE req[a].name
    BY <1>0, <1>1, Zenon DEF Req
  <1>2. PICK w \in Row :
           /\ node' = [node EXCEPT ![n] = w]
           /\ w.parent = p /\ w.name = q /\ w.revision = node[n].revision + 1
           /\ w.dir = node[n].dir /\ w.status = "active" /\ w.trash = None
    <2>1. node' = [node EXCEPT ![n] = Moved(node[n], p, q)]
      BY <1>2a, Zenon DEF UpdateNode, Moved
    <2>2. node[n] \in Row
      BY <1>1, Zenon
    <2> PICK w : w = Moved(node[n], p, q)
      BY Zenon
    <2>3. w \in Row
      BY <2>2, RowMoved, Zenon
    <2>4. /\ w.parent = p /\ w.name = q /\ w.revision = node[n].revision + 1
          /\ w.dir = node[n].dir /\ w.status = node[n].status /\ w.trash = node[n].trash
      BY <2>2, RowMoved
    <2> QED BY <1>1, <2>1, <2>3, <2>4, Zenon
  <1>2b. /\ req[a].parent = None => p = node[n].parent
         /\ req[a].parent # None => p = req[a].parent
    BY <1>2a, Zenon
  <1>3. node[p].dir /\ node[p].status = "active" /\ node[p].trash = None
    <2>1. CASE req[a].parent = None
      <3>1. StatusOK(p)
        BY Zenon DEF IInv, RowsOK, NodeOK
      <3> QED BY <1>1, <1>2b, <2>1, <3>1, Zenon DEF PlaceOK, StatusOK
    <2>2. CASE req[a].parent # None
      BY <1>0, <1>2b, <2>2, Zenon DEF CanUpdate, ActiveDirectory, Visible
    <2> QED BY <2>1, <2>2, Zenon
  <1>4. /\ node' = [node EXCEPT ![n] = w]
        /\ NameFree(p, q, n)
        /\ SetReq(a, Idle) /\ Unlock(a)
        /\ UNCHANGED <<blob, object, finished>>
    BY <1>2, <1>2a, Zenon DEF UpdateNode
  <1>5. /\ node'[n] = w
        /\ \A x \in Nodes : x # n => node'[x] = node[x]
    BY <1>4, Zenon DEF IInv, TypeOK
  <1>6. TypeOK'
    <2>1. Idle \in Req
      BY NodesAssumption, Zenon DEF Absent, Row, Idle, Req, AllOps
    <2>2. node' \in [Nodes -> Row]
      BY <1>4, Zenon DEF IInv, TypeOK
    <2>4. \A m \in Nodes \ {Root} : node'[m].status # "absent" =>
              node'[m].parent # None /\ node'[m].name # None
      BY <1>2, <1>5, NodesAssumption, Zenon DEF IInv, TypeOK
    <2> QED BY <1>4, <2>1, <2>2, <2>4, Zenon DEF IInv, TypeOK, SetReq, Unlock
  <1>7. ASSUME NEW x \in Nodes PROVE Keeps(x)
    <2>1. node[x].revision \in Nat
      BY RowFields, Zenon
    <2>2. CASE x = n
      <3>1. /\ node'[x].status = "active" /\ node'[x].trash = None
            /\ node'[x].revision = node[x].revision + 1
        BY <1>1, <1>2, <1>5, <2>2, Zenon
      <3>2. node[x].status = "active"
        BY <1>1, <2>2, Zenon
      <3> QED BY <2>1, <3>1, <3>2 DEF Keeps
    <2>3. CASE x # n
      <3>1. node'[x] = node[x] /\ UNCHANGED <<blob, object>>
        BY <1>4, <1>5, <2>3, Zenon
      <3> QED BY <2>1, <3>1 DEF Keeps
    <2> QED BY <2>2, <2>3, Zenon
  <1>8. n # p
    <2>1. CASE req[a].parent # None /\ node[n].dir
      BY <1>0, <1>2b, <2>1, AncestorsClosed, Zenon DEF CanUpdate, IInv, TypeOK
    <2>2. CASE ~node[n].dir
      BY <1>3, <2>2, Zenon
    <2>3. CASE req[a].parent = None
      <3>1. Up(Par, n)
        BY <1>1, UpIsAncestor, Zenon DEF IInv, Rooted, Exists
      <3>2. node[n].parent # n
        <4> SUFFICES ASSUME node[n].parent = n PROVE FALSE
          BY Zenon
        <4>1. Closed(Par, {n})
          BY Zenon DEF Closed, Par
        <4> QED BY <1>1, <3>1, <4>1, Zenon DEF Up
      <3> QED BY <1>2b, <2>3, <3>2, Zenon
    <2> QED BY <2>1, <2>2, <2>3, Zenon
  <1>9. ASSUME NEW m \in Nodes PROVE NodeOK(m)'
    <2>1. StatusOK(m) /\ PlaceOK(m) /\ ContentOK(m)
      BY Zenon DEF IInv, RowsOK, NodeOK
    <2>0. \A x \in Nodes : /\ node'[x].status = node[x].status
                          /\ node'[x].trash = node[x].trash
                          /\ node'[x].dir = node[x].dir
      BY <1>1, <1>2, <1>5, Zenon
    <2>2. StatusOK(m)'
      <3>1. CASE m = n
        BY <1>2, <1>5, <3>1, NodesAssumption, Zenon DEF StatusOK
      <3>2. CASE m # n
        <4>1. node'[m] = node[m] /\ node[m].trash \in Nodes \cup {None}
          BY <1>5, <3>2, Zenon DEF IInv, TypeOK, Row
        <4> QED BY <2>0, <2>1, <4>1, Zenon DEF StatusOK
      <3> QED BY <3>1, <3>2, Zenon
    <2>3. PlaceOK(m)'
      <3>1. CASE m = n
        <4>1. node'[m].parent = p /\ node'[m].trash = None
          BY <1>2, <1>5, <3>1, Zenon
        <4> QED BY <1>3, <2>0, <4>1, NodesAssumption, Zenon DEF PlaceOK
      <3>2. CASE m # n
        <4>1. node'[m] = node[m]
          BY <1>5, <3>2, Zenon
        <4> QED BY <2>0, <2>1, <4>1 DEF PlaceOK
      <3> QED BY <3>1, <3>2, Zenon
    <2>4. ContentOK(m)'
      BY <1>4, <2>0, <2>1 DEF ContentOK
    <2>5. FinishedOK(m)'
      BY <1>4, <1>6, <1>7, FinishedStable, Zenon
    <2> QED BY <2>2, <2>3, <2>4, <2>5, Zenon DEF NodeOK
  <1>10. RootOK'
    BY <1>1, <1>5, NodesAssumption, Zenon DEF RootOK, IInv, RowsOK
  <1>11. NamesOK'
    <2> SUFFICES ASSUME NEW x \in Nodes \ {Root}, NEW y \in Nodes \ {Root}, x # y,
                        node'[x].status # "absent", node'[y].status # "absent",
                        node'[x].trash # x, node'[y].trash # y,
                        node'[x].trash = node'[y].trash,
                        node'[x].parent = node'[y].parent
                 PROVE  node'[x].name # node'[y].name
      BY Zenon DEF NamesOK
    <2>1. \A z \in Nodes \ {n} : (node[z].status # "absent" /\ node[z].trash = None
                                  /\ node[z].parent = p) => node[z].name # q
      BY <1>4, Zenon DEF NameFree, Visible, IInv, RowsOK, NodeOK, StatusOK
    <2>2. CASE x = n
      BY <1>2, <1>5, <2>1, <2>2
    <2>3. CASE y = n
      BY <1>2, <1>5, <2>1, <2>3
    <2>4. CASE x # n /\ y # n
      BY <1>5, <2>4 DEF IInv, RowsOK, NamesOK
    <2> QED BY <2>2, <2>3, <2>4, Zenon
  <1>12. Rooted'
    <2>1. CASE req[a].parent = None
      <3>1. \A x \in Nodes : node'[x].parent = node[x].parent
        BY <1>2, <1>2b, <1>5, <2>1, Zenon
      <3>2. \A x \in Nodes : Exists(x)' => Exists(x)
        BY <1>1, <1>5, Zenon DEF Exists
      <3> QED BY <1>6, <3>1, <3>2, RootedSame, Zenon DEF IInv
    <2>2. CASE req[a].parent # None
      <3> PICK f : f = Par
        BY Zenon
      <3> PICK g : g = [f EXCEPT ![n] = p]
        BY Zenon
      <3>1. f \in [Nodes -> Nodes \cup {None}]
        BY Zenon DEF Par, IInv, TypeOK, Row
      <3>2. g = Par'
        BY <1>2, <1>5, <3>1, Zenon DEF Par
      <3>3. PICK U \in SUBSET Nodes : p \in U /\ Closed(f, U) /\ n \notin U
        <4>1. CASE node[n].dir
          <5>1. n \notin Ancestors(p)
            BY <1>0, <1>2b, <2>2, <4>1, Zenon DEF CanUpdate
          <5> QED BY <5>1, AncestorsClosed, Zenon DEF IInv, TypeOK
        <4>2. CASE ~node[n].dir
          <5> DEFINE U == {y \in Nodes : node[y].dir}
          <5>1. Closed(f, U)
            <6>1. ASSUME NEW y \in U, node[y].parent # None PROVE node[y].parent \in U
              <7>1. PlaceOK(y) /\ StatusOK(y) /\ y \in Nodes
                BY Zenon DEF IInv, RowsOK, NodeOK
              <7>2. y # Root /\ node[y].status # "absent"
                BY <6>1, <7>1, Zenon DEF StatusOK, IInv, RowsOK, RootOK
              <7> QED BY <7>1, <7>2, Zenon DEF PlaceOK
            <6> QED BY <6>1, Zenon DEF Closed, Par
          <5> QED BY <1>3, <4>2, <5>1, Zenon
        <4> QED BY <4>1, <4>2, Zenon
      <3>4. ASSUME NEW x \in Nodes, Exists(x) PROVE Root \in Ancestors(x)'
        <4>1. Up(f, p)
          BY <1>3, UpIsAncestor, Zenon DEF IInv, Rooted, Exists
        <4>2. Up(f, x)
          BY <3>4, UpIsAncestor, Zenon DEF IInv, Rooted
        <4>3. Up(g, x)
          BY <3>1, <3>3, <4>1, <4>2, UpMoved, Zenon
        <4> QED BY <3>2, <4>3, UpIsAncestorNext, Zenon
      <3> QED BY <1>1, <1>5, <3>4, Zenon DEF Rooted, Exists
    <2> QED BY <2>1, <2>2, Zenon
  <1> QED BY <1>0, <1>4, <1>6, <1>7, <1>9, <1>10, <1>11, <1>12, WriteLast, Zenon DEF RowsOK

\* What the recursive query of Recycle returns: a connected visible tree that
\* holds every visible child of its nodes.
LEMMA TreeOK ==
    ASSUME NEW n \in Nodes
    PROVE  /\ n \in ActiveTree(n)
           /\ ActiveTree(n) \in SUBSET Nodes
           /\ ChildClosed(ActiveTree(n))
           /\ \A x \in ActiveTree(n) : x # n => Visible(x) /\ node[x].parent \in ActiveTree(n)
  <1>1. n \in ActiveTree(n) /\ ActiveTree(n) \in SUBSET Nodes
    BY Zenon DEF ActiveTree
  <1>2. ASSUME NEW y \in Nodes, Visible(y), node[y].parent \in ActiveTree(n)
        PROVE  y \in ActiveTree(n)
    <2> SUFFICES ASSUME NEW S \in SUBSET Nodes, n \in S, ChildClosed(S) PROVE y \in S
      BY Zenon DEF ActiveTree
    <2>1. node[y].parent \in S
      BY <1>2, Zenon DEF ActiveTree
    <2> QED BY <1>2, <2>1, Zenon DEF ChildClosed
  <1>3. ASSUME NEW x \in ActiveTree(n), x # n
        PROVE  Visible(x) /\ node[x].parent \in ActiveTree(n)
    <2> DEFINE S == ActiveTree(n) \ {x}
    <2>1. S \in SUBSET Nodes /\ n \in S /\ x \notin S
      BY <1>1, <1>3, Zenon
    <2>2. ~ChildClosed(S)
      BY <2>1, Zenon DEF ActiveTree
    <2>3. PICK y \in Nodes : Visible(y) /\ node[y].parent \in S /\ y \notin S
      BY <2>2, Zenon DEF ChildClosed
    <2>4. y = x
      BY <1>2, <2>3, Zenon
    <2> QED BY <2>3, <2>4, Zenon
  <1> QED BY <1>1, <1>2, <1>3, Zenon DEF ChildClosed

\* What recycling leaves of a row.
LEMMA RowRecycled ==
    ASSUME node \in [Nodes -> Row], NEW x \in Nodes, NEW n \in Nodes
    PROVE  /\ Recycled(x, n) \in Row
           /\ Recycled(x, n).trash = n
           /\ Recycled(x, n).parent = node[x].parent
           /\ Recycled(x, n).name = node[x].name
           /\ Recycled(x, n).dir = node[x].dir
           /\ x = n => /\ Recycled(x, n).status = "trashed"
                       /\ Recycled(x, n).origin = node[x].parent
                       /\ Recycled(x, n).revision = node[x].revision + 1
           /\ x # n => /\ Recycled(x, n).status = node[x].status
                       /\ Recycled(x, n).origin = node[x].origin
                       /\ Recycled(x, n).revision = node[x].revision
  <1> PICK r \in Row : r = node[x]
    BY Zenon
  <1>1. r.revision + 1 \in Nat
    BY DEF Row
  <1>2. CASE x = n
    BY <1>1, <1>2, Zenon DEF Row, Recycled
  <1>3. CASE x # n
    BY <1>3, Zenon DEF Row, Recycled
  <1> QED BY <1>2, <1>3, Zenon

\* A node goes to the recycle bin with the visible nodes below it.
LEMMA RecycleOK ==
    ASSUME IInv, NEW a \in Actors, Recycle(a)
    PROVE  IInv'
  <1>0. /\ req[a] \in Req /\ ReqOK(a) /\ req[a].pc = "locked" /\ req[a].op = "recycle"
        /\ CanRecycle(req[a])
    BY Zenon DEF IInv, TypeOK, ReqsOK, ReqOK, Recycle, Locked, Admitted
  <1> PICK n \in Nodes : n = req[a].node
    BY <1>0, Zenon DEF Req
  <1> PICK T \in SUBSET Nodes : T = ActiveTree(n)
    BY TreeOK, Zenon
  <1>1. n # Root /\ node[n].status = "active" /\ node[n].trash = None
    BY <1>0, Zenon DEF CanRecycle, Visible
  <1>2. /\ n \in T
        /\ \A x \in T : node[x].status = "active" /\ node[x].trash = None
        /\ \A x \in T : x # n => node[x].parent \in T
        /\ \A y \in Nodes : (node[y].status = "active" /\ node[y].trash = None
                             /\ node[y].parent \in T) => y \in T
    BY <1>1, TreeOK, Zenon DEF ChildClosed, Visible
  <1>3. /\ node' = [x \in Nodes |-> IF x \in T THEN Recycled(x, n) ELSE node[x]]
        /\ SetReq(a, Idle) /\ Unlock(a)
        /\ UNCHANGED <<blob, object, finished>>
    BY <1>2, Zenon DEF Recycle, Visible
  <1>4. node \in [Nodes -> Row]
    BY Zenon DEF IInv, TypeOK
  <1>5. /\ node' \in [Nodes -> Row]
        /\ \A x \in Nodes : /\ node'[x].parent = node[x].parent
                            /\ node'[x].name = node[x].name
                            /\ node'[x].dir = node[x].dir
        /\ \A x \in Nodes \ T : node'[x] = node[x]
        /\ \A x \in T : node'[x].trash = n
        /\ \A x \in T : x # n => /\ node'[x].status = "active"
                                 /\ node'[x].origin = node[x].origin
                                 /\ node'[x].revision = node[x].revision
        /\ node'[n].status = "trashed"
        /\ node'[n].origin = node[n].parent
        /\ node'[n].revision = node[n].revision + 1
    <2>1. /\ \A x \in T : node'[x] = Recycled(x, n)
          /\ \A x \in Nodes \ T : node'[x] = node[x]
      BY <1>3, Zenon
    <2>2. node' \in [Nodes -> Row]
      BY <1>3, <1>4, RowRecycled, Zenon
    <2>3. /\ node'[n].parent = node[n].parent /\ node'[n].name = node[n].name
          /\ node'[n].dir = node[n].dir /\ node'[n].trash = n
          /\ node'[n].status = "trashed" /\ node'[n].origin = node[n].parent
          /\ node'[n].revision = node[n].revision + 1
      <3>1. node'[n] = Recycled(n, n)
        BY <1>2, <2>1, Zenon
      <3> QED BY <1>4, <3>1, RowRecycled
    <2>4. ASSUME NEW x \in T, x # n
          PROVE  /\ node'[x].parent = node[x].parent /\ node'[x].name = node[x].name
                 /\ node'[x].dir = node[x].dir
                 /\ node'[x].trash = n /\ node'[x].status = "active"
                 /\ node'[x].origin = node[x].origin
                 /\ node'[x].revision = node[x].revision
      <3>1. node'[x] = Recycled(x, n) /\ node[x].status = "active"
        BY <1>2, <2>1, <2>4, Zenon
      <3> QED BY <1>4, <2>4, <3>1, RowRecycled
    <2>5. ASSUME NEW x \in Nodes
          PROVE  /\ node'[x].parent = node[x].parent /\ node'[x].name = node[x].name
                 /\ node'[x].dir = node[x].dir
      BY <2>1, <2>3, <2>4
    <2> QED BY <2>1, <2>2, <2>3, <2>4, <2>5, Zenon
  <1>6. Root \notin T
    <2>1. node[Root].parent = None
      BY Zenon DEF IInv, RowsOK, RootOK
    <2> QED BY <1>1, <1>2, <2>1, NodesAssumption, Zenon
  <1>7. TypeOK'
    <2>1. Idle \in Req
      BY NodesAssumption, Zenon DEF Absent, Row, Idle, Req, AllOps
    <2>2. \A m \in Nodes : node'[m].status # "absent" => node[m].status # "absent"
      BY <1>2, <1>5, Zenon
    <2>3. \A m \in Nodes \ {Root} : node'[m].status # "absent" =>
              node'[m].parent # None /\ node'[m].name # None
      BY <1>5, <2>2 DEF IInv, TypeOK
    <2>4. node' \in [Nodes -> Row]
      BY <1>5, Zenon
    <2> QED BY <1>3, <2>1, <2>3, <2>4, Zenon DEF IInv, TypeOK, SetReq, Unlock
  <1>8. ASSUME NEW x \in Nodes PROVE Keeps(x)
    <2>1. node[x].revision \in Nat
      BY RowFields, Zenon
    <2>2. CASE x = n
      <3>1. /\ node'[x].revision = node[x].revision + 1 /\ node'[x].status = "trashed"
            /\ node'[x].trash = x
        BY <1>2, <1>5, <2>2, Zenon
      <3>2. node[x].status = "active" /\ node[x].trash = None
        BY <1>1, <2>2, Zenon
      <3> QED BY <2>1, <3>1, <3>2 DEF Keeps
    <2>3. CASE x \in T \ {n}
      <3>1. /\ node'[x].parent = node[x].parent /\ node'[x].name = node[x].name
            /\ node'[x].origin = node[x].origin /\ node'[x].revision = node[x].revision
            /\ node'[x].status = "active" /\ node'[x].trash = n
        BY <1>5, <2>3, Zenon
      <3>2. node[x].status = "active"
        BY <1>2, <2>3, Zenon
      <3> QED BY <1>1, <2>1, <3>1, <3>2 DEF Keeps
    <2>4. CASE x \notin T
      <3>1. node'[x] = node[x]
        BY <1>5, <2>4, Zenon
      <3>2. UNCHANGED <<blob, object>>
        BY <1>3, Zenon
      <3> QED BY <2>1, <3>1, <3>2 DEF Keeps
    <2> QED BY <2>2, <2>3, <2>4, Zenon
  <1>9. ASSUME NEW m \in Nodes PROVE NodeOK(m)'
    <2>1. StatusOK(m) /\ PlaceOK(m) /\ ContentOK(m)
      BY RowFacts, Zenon
    <2>2. StatusOK(m)'
      <3>1. CASE m \in T
        <4>1. /\ n # None /\ node'[m].trash = n /\ node'[n].trash = n
              /\ node'[n].status = "trashed" /\ node'[m].status # "absent"
              /\ m # n => node'[m].status = "active"
          BY <1>2, <1>5, <3>1, NodesAssumption, Zenon
        <4> QED BY <4>1, Zenon DEF StatusOK
      <3>2. CASE m \notin T
        <4>1. node'[m] = node[m] /\ node[m].trash \in Nodes \cup {None}
          BY <1>4, <1>5, <3>2, Zenon DEF Row
        <4>2. CASE node[m].trash \in {None, m}
          BY <2>1, <4>1, <4>2, Zenon DEF StatusOK
        <4>3. CASE node[m].trash \notin {None, m}
          <5> PICK r \in Nodes : r = node[m].trash
            BY <4>1, <4>3, Zenon
          <5>1. node[r].trash = r
            BY <2>1, <4>3, Zenon DEF StatusOK
          <5>2. r \notin T /\ node'[r] = node[r]
            BY <1>2, <1>5, <5>1, NodesAssumption
          <5> QED BY <2>1, <4>1, <4>3, <5>2, Zenon DEF StatusOK
        <4> QED BY <4>2, <4>3, Zenon
      <3> QED BY <3>1, <3>2, Zenon
    <2>3. PlaceOK(m)'
      <3> SUFFICES ASSUME node'[m].status # "absent", m # Root PROVE PlaceOK(m)'
        BY Zenon DEF PlaceOK
      <3>1. node[m].status # "absent"
        <4>1. CASE m \in T
          BY <1>2, <4>1, Zenon
        <4>2. CASE m \notin T
          BY <1>5, <4>2, Zenon
        <4> QED BY <4>1, <4>2, Zenon
      <3> PICK p \in Nodes : p = node[m].parent
        BY <2>1, <3>1, Zenon DEF PlaceOK
      <3>2. /\ node[p].status # "absent" /\ node[p].dir
            /\ node[m].trash = m => node[m].origin = p
            /\ node[m].trash # m => node[p].trash = node[m].trash
        BY <2>1, <3>1, Zenon DEF PlaceOK
      <3>3. node'[m].parent = p /\ node'[p].status # "absent" /\ node'[p].dir
        BY <1>2, <1>5, <3>2
      <3>4. /\ node'[m].trash = m => node'[m].origin = p
            /\ node'[m].trash # m => node'[p].trash = node'[m].trash
        <4>1. CASE m = n
          BY <1>2, <1>5, <4>1, Zenon
        <4>2. CASE m \in T \ {n}
          <5>1. p \in T /\ m # n
            BY <1>2, <4>2, Zenon
          <5> QED BY <1>2, <1>5, <4>2, <5>1
        <4>3. CASE m \notin T /\ node[m].trash = m
          BY <1>5, <3>2, <4>3
        <4>4. CASE m \notin T /\ node[m].trash # m
          <5>1. p \notin T
            <6>1. node[m].trash = None => node[m].status = "active"
              BY <2>1, <3>1, Zenon DEF StatusOK
            <6> QED BY <1>2, <3>2, <4>4, <6>1, Zenon
          <5> QED BY <1>5, <3>2, <4>4, <5>1
        <4> QED BY <4>1, <4>2, <4>3, <4>4, Zenon
      <3> QED BY <3>3, <3>4, Zenon DEF PlaceOK
    <2>4. ContentOK(m)'
      <3>1. /\ node'[m].dir = node[m].dir
            /\ node'[m].status = "absent" <=> node[m].status = "absent"
            /\ node'[m].status = "purging" <=> node[m].status = "purging"
        BY <1>1, <1>2, <1>5
      <3> QED BY <1>3, <2>1, <3>1, Zenon DEF ContentOK
    <2>5. FinishedOK(m)'
      BY <1>3, <1>7, <1>8, FinishedStable, Zenon
    <2> QED BY <2>2, <2>3, <2>4, <2>5, Zenon DEF NodeOK
  <1>10. RootOK'
    BY <1>5, <1>6, NodesAssumption, Zenon DEF RootOK, IInv, RowsOK
  <1>11. NamesOK'
    <2> SUFFICES ASSUME NEW x \in Nodes \ {Root}, NEW y \in Nodes \ {Root}, x # y,
                        node'[x].status # "absent", node'[y].status # "absent",
                        node'[x].trash # x, node'[y].trash # y,
                        node'[x].trash = node'[y].trash,
                        node'[x].parent = node'[y].parent
                 PROVE  node'[x].name # node'[y].name
      BY Zenon DEF NamesOK
    <2>1. ASSUME NEW z \in Nodes \ T, node'[z].trash # z PROVE node'[z].trash # n
      <3>1. StatusOK(z) /\ node'[z] = node[z]
        BY <1>5, Zenon DEF IInv, RowsOK, NodeOK
      <3> QED BY <1>1, <2>1, <3>1, NodesAssumption, Zenon DEF StatusOK
    <2>2. x \in T <=> y \in T
      BY <1>5, <2>1
    <2>3. x # n /\ y # n
      BY <1>2, <1>5, Zenon
    <2>4. /\ node[x].status # "absent" /\ node[y].status # "absent"
          /\ node[x].trash # x /\ node[y].trash # y
          /\ node[x].trash = node[y].trash
          /\ node[x].parent = node[y].parent
      <3>1. node[x].parent = node[y].parent
        BY <1>5, Zenon
      <3>2. CASE x \in T
        BY <1>2, <2>2, <3>1, <3>2, NodesAssumption, Zenon
      <3>3. CASE x \notin T
        <4>1. node'[x] = node[x] /\ node'[y] = node[y]
          BY <1>5, <2>2, <3>3, Zenon
        <4> QED BY <3>1, <4>1, Zenon
      <3> QED BY <3>2, <3>3, Zenon
    <2>5. node'[x].name = node[x].name /\ node'[y].name = node[y].name
      BY <1>5, Zenon
    <2> QED BY <2>4, <2>5, Zenon DEF IInv, RowsOK, NamesOK
  <1>12. Rooted'
    <2>1. \A x \in Nodes : Exists(x)' => Exists(x)
      BY <1>2, <1>5, Zenon DEF Exists
    <2>2. \A x \in Nodes : node'[x].parent = node[x].parent
      BY <1>5, Zenon
    <2> QED BY <1>7, <2>1, <2>2, RootedSame, Zenon DEF IInv
  <1> QED BY <1>0, <1>3, <1>7, <1>8, <1>9, <1>10, <1>11, <1>12, WriteLast, Zenon DEF RowsOK


-----------------------------------------------------------------------------
\* What restoring leaves of a row.
LEMMA RowRestored ==
    ASSUME node \in [Nodes -> Row], NEW x \in Nodes, NEW n \in Nodes
    PROVE  /\ Restored(x, n) \in Row
           /\ Restored(x, n).trash = None
           /\ Restored(x, n).name = node[x].name
           /\ Restored(x, n).dir = node[x].dir
           /\ x = n => /\ Restored(x, n).parent = node[x].origin
                       /\ Restored(x, n).status = "active"
                       /\ Restored(x, n).origin = None
                       /\ Restored(x, n).revision = node[x].revision + 1
           /\ x # n => /\ Restored(x, n).parent = node[x].parent
                       /\ Restored(x, n).status = node[x].status
                       /\ Restored(x, n).origin = node[x].origin
                       /\ Restored(x, n).revision = node[x].revision
  <1> PICK r \in Row : r = node[x]
    BY Zenon
  <1>1. r.revision + 1 \in Nat
    BY DEF Row
  <1>2. CASE x = n
    BY <1>1, <1>2, Zenon DEF Row, Restored
  <1>3. CASE x # n
    BY <1>3, Zenon DEF Row, Restored
  <1> QED BY <1>2, <1>3, Zenon

\* An entry of the recycle bin goes back to where it was.
LEMMA RestoreOK ==
    ASSUME IInv, NEW a \in Actors, Restore(a)
    PROVE  IInv'
  <1>0. /\ req[a] \in Req /\ ReqOK(a) /\ req[a].pc = "locked" /\ req[a].op = "restore"
        /\ CanRestore(req[a])
    BY Zenon DEF IInv, TypeOK, ReqsOK, ReqOK, Restore, Locked, Admitted
  <1> PICK n \in Nodes : n = req[a].node
    BY <1>0, Zenon DEF Req
  <1> PICK M \in SUBSET Nodes : M = Members(n)
    BY Zenon DEF Members
  <1>1. /\ n # Root /\ node[n].status = "trashed" /\ node[n].trash = n
        /\ NodeOK(n)
    BY <1>0, NodesAssumption, Zenon DEF CanRestore, RecycleRoot, IInv, RowsOK, RootOK
  <1> PICK p \in Nodes : p = node[n].parent
    BY <1>1, Zenon DEF NodeOK, PlaceOK
  <1>2. /\ p = node[n].origin /\ node[p].dir
        /\ node[p].status = "active" /\ node[p].trash = None
        /\ NameFree(p, node[n].name, n)
    <2>1. p = node[n].origin
      BY <1>1, Zenon DEF NodeOK, PlaceOK
    <2> QED BY <1>0, <2>1, Zenon DEF CanRestore, ActiveDirectory, Visible
  <1>3. /\ n \in M
        /\ \A x \in M : node[x].trash = n
        /\ \A x \in Nodes \ M : node[x].trash # n
        /\ \A x \in M : x # n => node[x].status = "active"
    <2>1. \A x \in Nodes : node[x].trash = n <=> x \in M
      BY Zenon DEF Members
    <2>2. ASSUME NEW x \in M, x # n PROVE node[x].status = "active"
      BY <1>1, <2>1, <2>2, NodesAssumption DEF IInv, RowsOK, NodeOK, StatusOK
    <2> QED BY <1>1, <2>1, <2>2, Zenon
  <1>4. /\ node' = [x \in Nodes |-> IF x \in M THEN Restored(x, n) ELSE node[x]]
        /\ SetReq(a, Idle) /\ Unlock(a)
        /\ UNCHANGED <<blob, object, finished>>
    BY Zenon DEF Restore
  <1>5. node \in [Nodes -> Row]
    BY Zenon DEF IInv, TypeOK
  <1>6. /\ node' \in [Nodes -> Row]
        /\ \A x \in Nodes : /\ node'[x].parent = node[x].parent
                            /\ node'[x].name = node[x].name
                            /\ node'[x].dir = node[x].dir
        /\ \A x \in Nodes \ M : node'[x] = node[x]
        /\ \A x \in M : node'[x].trash = None /\ node'[x].status = "active"
        /\ \A x \in M : x # n => /\ node'[x].origin = node[x].origin
                                 /\ node'[x].revision = node[x].revision
        /\ node'[n].revision = node[n].revision + 1
    <2>1. /\ \A x \in M : node'[x] = Restored(x, n)
          /\ \A x \in Nodes \ M : node'[x] = node[x]
      BY <1>4, Zenon
    <2>2. node' \in [Nodes -> Row]
      BY <1>4, <1>5, RowRestored, Zenon
    <2>3. /\ node'[n].parent = p /\ node'[n].name = node[n].name /\ node'[n].dir = node[n].dir
          /\ node'[n].trash = None /\ node'[n].status = "active"
          /\ node'[n].revision = node[n].revision + 1
      <3>1. node'[n] = Restored(n, n) /\ node[n].origin = p
        BY <1>2, <1>3, <2>1, Zenon
      <3> QED BY <1>5, <3>1, RowRestored
    <2>4. ASSUME NEW x \in M, x # n
          PROVE  /\ node'[x].parent = node[x].parent /\ node'[x].name = node[x].name
                 /\ node'[x].dir = node[x].dir
                 /\ node'[x].trash = None /\ node'[x].status = "active"
                 /\ node'[x].origin = node[x].origin
                 /\ node'[x].revision = node[x].revision
      <3>1. node'[x] = Restored(x, n) /\ node[x].status = "active"
        BY <1>3, <2>1, <2>4, Zenon
      <3> QED BY <1>5, <2>4, <3>1, RowRestored
    <2> QED BY <2>1, <2>2, <2>3, <2>4, Zenon
  <1>7. TypeOK'
    <2>1. Idle \in Req
      BY NodesAssumption, Zenon DEF Absent, Row, Idle, Req, AllOps
    <2>2. \A m \in Nodes : node'[m].status # "absent" => node[m].status # "absent"
      BY <1>1, <1>3, <1>6, Zenon
    <2>3. \A m \in Nodes \ {Root} : node'[m].status # "absent" =>
              node'[m].parent # None /\ node'[m].name # None
      BY <1>6, <2>2 DEF IInv, TypeOK
    <2> QED BY <1>4, <1>6, <2>1, <2>3, Zenon DEF IInv, TypeOK, SetReq, Unlock
  <1>8. ASSUME NEW x \in Nodes PROVE Keeps(x)
    <2>1. node[x].revision \in Nat
      BY Zenon DEF IInv, TypeOK, Row
    <2>2. CASE x = n
      <3>1. /\ node'[x].revision = node[x].revision + 1 /\ node'[x].status = "active"
            /\ node'[x].trash = None /\ node[x].status = "trashed"
        BY <1>1, <1>3, <1>6, <2>2, Zenon
      <3> QED BY <2>1, <3>1 DEF Keeps
    <2>3. CASE x \in M \ {n}
      <3>1. /\ node'[x].revision = node[x].revision /\ node'[x].origin = node[x].origin
            /\ node'[x].parent = node[x].parent /\ node'[x].name = node[x].name
            /\ node'[x].dir = node[x].dir
            /\ node'[x].status = "active" /\ node'[x].trash = None /\ node[x].status = "active"
        BY <1>3, <1>6, <2>3, Zenon
      <3> QED BY <2>1, <3>1 DEF Keeps
    <2>4. CASE x \notin M
      BY <1>4, <1>6, <2>1, <2>4 DEF Keeps
    <2> QED BY <2>2, <2>3, <2>4, Zenon
  <1>9. ASSUME NEW m \in Nodes PROVE NodeOK(m)'
    <2>1. StatusOK(m) /\ PlaceOK(m) /\ ContentOK(m)
      BY Zenon DEF IInv, RowsOK, NodeOK
    <2>2. StatusOK(m)'
      <3>1. CASE m \in M
        BY <1>6, <3>1, NodesAssumption DEF StatusOK
      <3>2. CASE m \notin M
        <4>1. node'[m] = node[m] /\ node[m].trash \in Nodes \cup {None}
          BY <1>5, <1>6, <3>2, Zenon DEF Row
        <4>2. CASE node[m].trash \in {None, m}
          BY <2>1, <4>1, <4>2, Zenon DEF StatusOK
        <4>3. CASE node[m].trash \notin {None, m}
          <5> PICK r \in Nodes : r = node[m].trash
            BY <4>1, <4>3, Zenon
          <5>1. node[r].trash = r
            BY <2>1, <4>3, Zenon DEF StatusOK
          <5>2. r \notin M /\ node'[r] = node[r]
            BY <1>3, <1>6, <3>2, <5>1
          <5> QED BY <2>1, <4>1, <4>3, <5>2, Zenon DEF StatusOK
        <4> QED BY <4>2, <4>3, Zenon
      <3> QED BY <3>1, <3>2, Zenon
    <2>3. PlaceOK(m)'
      <3> SUFFICES ASSUME node'[m].status # "absent", m # Root PROVE PlaceOK(m)'
        BY Zenon DEF PlaceOK
      <3>1. node[m].status # "absent"
        BY <1>1, <1>3, <1>6, Zenon
      <3> PICK u \in Nodes : u = node[m].parent
        BY <2>1, <3>1, Zenon DEF PlaceOK
      <3>2. /\ node[u].status # "absent" /\ node[u].dir
            /\ node[m].trash = m => node[m].origin = u
            /\ node[m].trash # m => node[u].trash = node[m].trash
        BY <2>1, <3>1, Zenon DEF PlaceOK
      <3>3. node'[m].parent = u /\ node'[u].status # "absent" /\ node'[u].dir
        BY <1>6, <3>2, Zenon
      <3>4. /\ node'[m].trash = m => node'[m].origin = u
            /\ node'[m].trash # m => node'[u].trash = node'[m].trash
        <4>1. CASE m = n
          <5>1. u = p /\ p \notin M
            BY <1>2, <1>3, <4>1, NodesAssumption, Zenon
          <5>2. node'[u] = node[u] /\ node'[m].trash = None
            BY <1>3, <1>6, <4>1, <5>1, Zenon
          <5> QED BY <1>2, <5>1, <5>2, NodesAssumption, Zenon
        <4>2. CASE m \in M \ {n}
          BY <1>3, <1>6, <3>2, <4>2, NodesAssumption
        <4>3. CASE m \notin M
          BY <1>3, <1>6, <3>2, <4>3
        <4> QED BY <4>1, <4>2, <4>3, Zenon
      <3> QED BY <3>3, <3>4, Zenon DEF PlaceOK
    <2>4. ContentOK(m)'
      <3>1. /\ node'[m].dir = node[m].dir
            /\ node'[m].status = "absent" <=> node[m].status = "absent"
            /\ node'[m].status = "purging" <=> node[m].status = "purging"
        BY <1>1, <1>3, <1>6
      <3> QED BY <1>4, <2>1, <3>1, Zenon DEF ContentOK
    <2>5. FinishedOK(m)'
      BY <1>4, <1>7, <1>8, FinishedStable, Zenon
    <2> QED BY <2>2, <2>3, <2>4, <2>5, Zenon DEF NodeOK
  <1>10. RootOK'
    <2>1. Root \notin M
      BY <1>3, NodesAssumption, Zenon DEF RootOK, IInv, RowsOK
    <2> QED BY <1>6, <2>1, NodesAssumption, Zenon DEF RootOK, IInv, RowsOK
  <1>11. NamesOK'
    <2>0. ASSUME NEW z \in M, z # n PROVE node[z].parent \in Nodes /\ node[node[z].parent].trash = n
      <3>1. node[z].trash = n /\ node[z].status = "active" /\ z \in Nodes
        BY <1>3, <2>0, Zenon
      <3>2. z # Root /\ PlaceOK(z)
        BY <3>1, NodesAssumption, Zenon DEF IInv, RowsOK, RootOK, NodeOK
      <3> QED BY <2>0, <3>1, <3>2, Zenon DEF PlaceOK
    <2>1. ASSUME NEW z \in Nodes \ M, z # Root, node'[z].trash = None, node'[z].status # "absent"
          PROVE  /\ node[z].trash = None /\ node[z].status = "active"
                 /\ node[z].parent \in Nodes /\ node[node[z].parent].trash = None
      <3>1. StatusOK(z) /\ PlaceOK(z) /\ node'[z] = node[z]
        BY <1>6, Zenon DEF IInv, RowsOK, NodeOK
      <3> QED BY <2>1, <3>1, NodesAssumption, Zenon DEF StatusOK, PlaceOK
    <2>2. ASSUME NEW x \in M, NEW y \in Nodes \ {Root}, x # y,
                 node'[y].status # "absent", node'[y].trash = None,
                 node[x].parent = node[y].parent
          PROVE  node[x].name # node[y].name
      <3>1. CASE x # n /\ y \in M \ {n}
        BY <1>3, <2>0, <2>2, <3>1, NodesAssumption DEF IInv, RowsOK, NamesOK, RootOK
      <3>2. CASE x # n /\ y = n
        BY <1>2, <2>0, <2>2, <3>2, NodesAssumption, Zenon
      <3>3. CASE x # n /\ y \notin M
        BY <2>0, <2>1, <2>2, <3>3, NodesAssumption
      <3>4. CASE x = n /\ y \in M
        BY <1>2, <2>0, <2>2, <3>4, NodesAssumption, Zenon
      <3>5. CASE x = n /\ y \notin M
        <4>1. Visible(y) /\ node[y].parent = p
          BY <2>1, <2>2, <3>5, Zenon DEF Visible
        <4> QED BY <1>2, <2>2, <3>5, <4>1, Zenon DEF NameFree
      <3> QED BY <3>1, <3>2, <3>3, <3>4, <3>5, Zenon
    <2> SUFFICES ASSUME NEW x \in Nodes \ {Root}, NEW y \in Nodes \ {Root}, x # y,
                        node'[x].status # "absent", node'[y].status # "absent",
                        node'[x].trash # x, node'[y].trash # y,
                        node'[x].trash = node'[y].trash,
                        node'[x].parent = node'[y].parent
                 PROVE  node'[x].name # node'[y].name
      BY Zenon DEF NamesOK
    <2>3. CASE x \in M
      BY <1>6, <2>2, <2>3
    <2>4. CASE y \in M
      BY <1>6, <2>2, <2>4
    <2>5. CASE x \notin M /\ y \notin M
      BY <1>6, <2>5 DEF IInv, RowsOK, NamesOK
    <2> QED BY <2>3, <2>4, <2>5, Zenon
  <1>12. Rooted'
    <2>1. \A x \in Nodes : Exists(x)' => Exists(x)
      BY <1>1, <1>3, <1>6, Zenon DEF Exists
    <2> QED BY <1>6, <1>7, <2>1, RootedSame, Zenon DEF IInv
  <1> QED BY <1>0, <1>4, <1>7, <1>8, <1>9, <1>10, <1>11, <1>12, WriteLast, Zenon DEF RowsOK

\* An entry and its blobs are marked, and the request goes on to delete.
LEMMA PreparePurgeOK ==
    ASSUME IInv, NEW a \in Actors, PreparePurge(a)
    PROVE  IInv'
  <1>0. /\ req[a] \in Req /\ ReqOK(a) /\ req[a].pc = "locked" /\ req[a].op = "purge"
        /\ CanPurge(req[a])
    BY Zenon DEF IInv, TypeOK, ReqsOK, ReqOK, PreparePurge, Locked, Admitted
  <1> PICK n \in Nodes : n = req[a].node
    BY <1>0, Zenon DEF Req
  <1> PICK M \in SUBSET Nodes : M = Members(n)
    BY Zenon DEF Members
  <1> PICK B \in SUBSET Nodes : B = PurgeBlobs(n)
    BY Zenon DEF PurgeBlobs, Members
  <1>1. /\ node[n].status \in {"trashed", "purging"} /\ node[n].trash = n /\ n # Root
        /\ \A x \in Nodes : node[x].trash = n <=> x \in M
        /\ \A x \in Nodes : x \in B <=> x \in M /\ blob[x] \in {"available", "pending_delete"}
    BY <1>0, NodesAssumption, Zenon DEF CanPurge, RecycleRoot, Members, PurgeBlobs, IInv, RowsOK, RootOK
  <1>2. PICK x \in Req : /\ SetReq(a, x) /\ req'[a] = x
                         /\ x.pc = "deleting" /\ x.op = "purge" /\ x.node = n
                         /\ x.seen = req[a].seen /\ x.plan = B /\ x.left = B
    <2> DEFINE x == [req[a] EXCEPT !.pc = "deleting", !.plan = B, !.left = B]
    <2>1. x \in Req
      BY <1>0, Zenon DEF Req
    <2>2. /\ x.pc = "deleting" /\ x.op = req[a].op /\ x.node = n
          /\ x.seen = req[a].seen /\ x.plan = B /\ x.left = B
      BY <1>0, Zenon DEF Req
    <2>3. SetReq(a, x)
      BY Zenon DEF PreparePurge
    <2> HIDE DEF x
    <2>4. req'[a] = x
      BY <2>3, Zenon DEF SetReq, IInv, TypeOK
    <2> QED BY <1>0, <2>1, <2>2, <2>3, <2>4, Zenon
  <1>3. /\ node' = [y \in Nodes |-> IF y \in M THEN [node[y] EXCEPT !.status = "purging"]
                                              ELSE node[y]]
        /\ blob' = [y \in Nodes |-> IF y \in B THEN "pending_delete" ELSE blob[y]]
        /\ Unlock(a)
        /\ UNCHANGED <<object, finished>>
    BY Zenon DEF PreparePurge
  <1>4. node \in [Nodes -> Row]
    BY Zenon DEF IInv, TypeOK
  <1>5. ASSUME NEW y \in Nodes
        PROVE  /\ node'[y] \in Row
               /\ node'[y].parent = node[y].parent /\ node'[y].name = node[y].name
               /\ node'[y].dir = node[y].dir /\ node'[y].trash = node[y].trash
               /\ node'[y].origin = node[y].origin /\ node'[y].revision = node[y].revision
               /\ y \in M => node'[y].status = "purging"
               /\ y \notin M => node'[y].status = node[y].status
    <2>1. CASE y \in M
      <3> PICK r \in Row : r = node[y]
        BY <1>4, Zenon
      <3>1. node'[y] = [r EXCEPT !.status = "purging"]
        BY <1>3, <2>1, Zenon
      <3> QED BY <2>1, <3>1, Zenon DEF Row
    <2>2. CASE y \notin M
      BY <1>3, <1>4, <2>2, Zenon
    <2> QED BY <2>1, <2>2, Zenon
  <1>6. /\ \A y \in B : blob'[y] = "pending_delete"
        /\ \A y \in Nodes \ B : blob'[y] = blob[y]
    BY <1>3, Zenon
  <1>7. ASSUME NEW y \in Nodes PROVE StatusOK(y) /\ PlaceOK(y) /\ ContentOK(y)
    BY Zenon DEF IInv, RowsOK, NodeOK
  <1>8. \A y \in M : node[y].status # "absent"
    <2>1. ASSUME NEW y \in M PROVE node[y].status # "absent"
      <3>1. StatusOK(y) /\ node[y].trash = n /\ n # None
        BY <1>1, <1>7, NodesAssumption, Zenon
      <3> QED BY <3>1, Zenon DEF StatusOK
    <2> QED BY <2>1, Zenon
  <1>9. TypeOK'
    <2>1. node' \in [Nodes -> Row]
      BY <1>3, <1>5, Zenon
    <2>2. blob' \in [Nodes -> {"none", "available", "pending_delete", "deleted"}]
      BY <1>3, Zenon DEF IInv, TypeOK
    <2>3. \A m \in Nodes \ {Root} : node'[m].status # "absent" =>
              node'[m].parent # None /\ node'[m].name # None
      BY <1>5, <1>8 DEF IInv, TypeOK
    <2> QED BY <1>2, <1>3, <2>1, <2>2, <2>3, Zenon DEF IInv, TypeOK, SetReq, Unlock
  <1>10. ASSUME NEW y \in Nodes PROVE Keeps(y)
    <2>1. node[y].revision \in Nat
      BY Zenon DEF IInv, TypeOK, Row
    <2>2. /\ node'[y].revision = node[y].revision /\ node'[y].parent = node[y].parent
          /\ node'[y].name = node[y].name /\ node'[y].origin = node[y].origin
          /\ node'[y].trash = node[y].trash
          /\ node[y].status # "absent" => node'[y].status # "absent"
          /\ node[y].status = "purging" => node'[y].status = "purging"
      BY <1>5, Zenon
    <2>3. node[y].status = "purging" => blob'[y] = blob[y]
      BY <1>1, <1>6, <1>7 DEF ContentOK
    <2> QED BY <1>3, <2>1, <2>2, <2>3 DEF Keeps
  <1>11. ASSUME NEW m \in Nodes PROVE NodeOK(m)'
    <2>1. StatusOK(m)'
      <3>1. CASE m \in M
        BY <1>1, <1>5, <1>7, <3>1, NodesAssumption DEF StatusOK
      <3>2. CASE m \notin M
        <4>1. node[m].trash \in Nodes \cup {None}
          BY <1>4, Zenon DEF Row
        <4>2. CASE node[m].trash \in {None, m}
          BY <1>5, <1>7, <3>2, <4>2 DEF StatusOK
        <4>3. CASE node[m].trash \notin {None, m}
          <5> PICK r \in Nodes : r = node[m].trash
            BY <4>1, <4>3, Zenon
          <5>1. r \notin M
            BY <1>1, <1>7, <3>2, <4>3 DEF StatusOK
          <5> QED BY <1>5, <1>7, <3>2, <4>3, <5>1 DEF StatusOK
        <4> QED BY <4>2, <4>3, Zenon
      <3> QED BY <3>1, <3>2, Zenon
    <2>2. PlaceOK(m)'
      <3> SUFFICES ASSUME node'[m].status # "absent", m # Root PROVE PlaceOK(m)'
        BY Zenon DEF PlaceOK
      <3>1. node[m].status # "absent"
        BY <1>5, <1>8, Zenon
      <3> PICK u \in Nodes : u = node[m].parent
        BY <1>7, <3>1, Zenon DEF PlaceOK
      <3>2. /\ node[u].status # "absent" /\ node[u].dir
            /\ node[m].trash = m => node[m].origin = u
            /\ node[m].trash # m => node[u].trash = node[m].trash
        BY <1>7, <3>1, Zenon DEF PlaceOK
      <3> QED BY <1>5, <3>2 DEF PlaceOK
    <2>3. ContentOK(m)'
      <3>1. CASE m \in M
        <4>1. /\ node'[m].status = "purging" /\ node'[m].dir = node[m].dir
              /\ node[m].status # "absent" /\ ContentOK(m) /\ object' = object
              /\ blob[m] \in {"available", "pending_delete"} => blob'[m] = "pending_delete"
              /\ blob[m] \notin {"available", "pending_delete"} => blob'[m] = blob[m]
          BY <1>1, <1>3, <1>5, <1>6, <1>7, <1>8, <3>1, Zenon
        <4> QED BY <4>1, Zenon DEF ContentOK
      <3>2. CASE m \notin M
        BY <1>1, <1>3, <1>5, <1>6, <1>7, <3>2, Zenon DEF ContentOK
      <3> QED BY <3>1, <3>2, Zenon
    <2>4. FinishedOK(m)'
      BY <1>3, <1>9, <1>10, FinishedStable, Zenon
    <2> QED BY <2>1, <2>2, <2>3, <2>4, Zenon DEF NodeOK
  <1>12. RootOK'
    <2>1. Root \notin M
      BY <1>1, NodesAssumption, Zenon DEF RootOK, IInv, RowsOK
    <2> QED BY <1>5, <2>1, NodesAssumption, Zenon DEF RootOK, IInv, RowsOK
  <1>13. NamesOK'
    <2>1. \A y \in Nodes : node'[y].status # "absent" => node[y].status # "absent"
      BY <1>5, <1>8, Zenon
    <2> QED BY <1>5, <2>1 DEF IInv, RowsOK, NamesOK
  <1>14. Rooted'
    <2>1. \A y \in Nodes : Exists(y)' => Exists(y)
      BY <1>5, <1>8, Zenon DEF Exists
    <2> QED BY <1>5, <1>9, <2>1, RootedSame, Zenon DEF IInv
  <1>15. lock' # a => ReqOK(a)'
    <2>1. /\ node'[n].status = "purging" /\ node'[n].trash = n
          /\ node'[n].parent = node[n].parent /\ node'[n].name = node[n].name
          /\ node'[n].origin = node[n].origin /\ node'[n].revision = node[n].revision
      BY <1>1, <1>5, Zenon
    <2>2. Members(n)' = M
      BY <1>1, <1>5, Zenon DEF Members
    <2>3. /\ B \subseteq M
          /\ \A y \in B : blob'[y] = "pending_delete"
          /\ \A y \in M : blob'[y] # "pending_delete" \/ y \in B
          /\ \A y \in M : blob'[y] # "available"
      BY <1>1, <1>6, Zenon
    <2>4. LET v == req[a].seen IN
          /\ v.revision <= node[n].revision
          /\ v.revision = node[n].revision =>
               v.parent = node[n].parent /\ v.name = node[n].name /\ v.origin = node[n].origin
      BY <1>0, Zenon DEF ReqOK
    <2> QED BY <1>2, <2>1, <2>2, <2>3, <2>4, Zenon DEF ReqOK
  <1>16. RowsOK'
    BY <1>11, <1>12, <1>13, Zenon DEF RowsOK
  <1> QED BY <1>0, <1>2, <1>3, <1>9, <1>10, <1>14, <1>15, <1>16, WriteTo, Zenon

-----------------------------------------------------------------------------
\* Every step keeps the invariant.
LEMMA NextOK == IInv /\ [Next]_vars => IInv'
  <1> SUFFICES ASSUME IInv, [Next]_vars PROVE IInv'
    BY Zenon
  <1>1. CASE UNCHANGED vars
    <2>1. TypeOK'
      BY <1>1, Zenon DEF vars, IInv, TypeOK
    <2>2. RowsOK'
      <3>1. ASSUME NEW n \in Nodes PROVE NodeOK(n)'
        BY <1>1, Zenon DEF vars, IInv, RowsOK, NodeOK, StatusOK, PlaceOK, ContentOK, FinishedOK, Members
      <3> QED BY <1>1, <3>1, Zenon DEF vars, IInv, RowsOK, RootOK, NamesOK
    <2>3. Rooted'
      BY <1>1, Zenon DEF vars, IInv, Rooted, Exists, Ancestors, ParentClosed
    <2>4. ASSUME NEW b \in Actors PROVE ReqOK(b)'
      <3>1. Admitted(req[b]) => Admitted(req[b])'
        BY <1>1, AdmittedStable, Zenon DEF vars
      <3> QED BY <1>1, <3>1, Zenon DEF vars, IInv, ReqsOK, ReqOK, Members
    <2> QED BY <2>1, <2>2, <2>3, <2>4, Zenon DEF IInv, ReqsOK
  <1>2. ASSUME NEW a \in Actors, CreateDirectory(a) PROVE IInv'
    BY <1>2, InsertOK, Zenon DEF CreateDirectory, Locked, NewContent
  <1>3. ASSUME NEW a \in Actors, CommitUpload(a) PROVE IInv'
    BY <1>3, InsertOK, Zenon DEF CommitUpload, Locked, NewContent
  <1>4. ASSUME NEW a \in Actors, Step(a) PROVE IInv'
    <2>1. CASE Write(a)
      BY <1>2, <1>3, <2>1, UpdateOK, RecycleOK, RestoreOK, PreparePurgeOK, Zenon DEF Write
    <2> QED
      BY <1>4, <2>1, SendOK, LockOK, DeleteOK, FinishOK, RetryOK, LeaveOK, Zenon DEF Step
  <1> QED BY <1>1, <1>4, Zenon DEF Next

\* Every reachable state of the directory tree satisfies the invariant.
THEOREM Invariance == Spec => []IInv
  BY InitOK, NextOK, PTL DEF Spec

\* Rows, blobs and requests keep their shape, and every node but the root has
\* a parent and a name (UpdateNode, Restore).
THEOREM TypeCorrect == Spec => []TypeOK
  <1>1. IInv => TypeOK
    BY Zenon DEF IInv
  <1> QED BY <1>1, Invariance, PTL

\* The tree has no cycle: from every node the way up ends at the root
\* (UpdateNode under the tenant lock).
THEOREM TreeRooted == Spec => []Rooted
  <1>1. IInv => Rooted
    BY Zenon DEF IInv
  <1> QED BY <1>1, Invariance, PTL

\* Visible nodes lie in visible directories (Recycle against creations, moves
\* and restores).
THEOREM NoOrphans == Spec => []NoActiveOrphan
  <1>1. IInv => NoActiveOrphan
    <2> SUFFICES ASSUME IInv, NEW n \in Nodes \ {Root}, Visible(n)
                 PROVE  ActiveDirectory(node[n].parent)
      BY Zenon DEF NoActiveOrphan
    <2>1. PlaceOK(n) /\ node[n].status = "active" /\ node[n].trash = None
      BY Zenon DEF IInv, RowsOK, NodeOK, Visible
    <2> PICK p \in Nodes : p = node[n].parent
      BY <2>1, Zenon DEF PlaceOK
    <2>2. node[p].dir /\ node[p].trash = None /\ node[p].status # "absent"
      BY <2>1, NodesAssumption, Zenon DEF PlaceOK
    <2>3. StatusOK(p)
      BY Zenon DEF IInv, RowsOK, NodeOK
    <2> QED BY <2>2, <2>3, Zenon DEF StatusOK, ActiveDirectory, Visible
  <1> QED BY <1>1, Invariance, PTL

\* Visible siblings have different names (file_node_active_name_unique, and the
\* restore of a tree with its names).
THEOREM SiblingNames == Spec => []NamesUnique
  <1>1. IInv => NamesUnique
    BY NodesAssumption, Zenon DEF IInv, RowsOK, NamesOK, NamesUnique, Visible
  <1> QED BY <1>1, Invariance, PTL

\* What is not being purged has its content (PreparePurge, DeleteObject).
THEOREM ContentSafe == Spec => []ContentKept
  <1>1. IInv => ContentKept
    BY Zenon DEF IInv, RowsOK, NodeOK, ContentOK, ContentKept, Exists
  <1> QED BY <1>1, Invariance, PTL

\* A recorded purge left nothing of its tree (FinishPurge).
THEOREM PurgesComplete == Spec => []PurgeComplete
  <1>1. ASSUME IInv PROVE PurgeComplete
    <2>1. \A n \in Nodes : blob[n] = "deleted" => n \notin object
      BY <1>1, Zenon DEF IInv, RowsOK, NodeOK, ContentOK
    <2>2. ASSUME NEW r \in finished, NEW n \in Members(r)
          PROVE  node[n].status = "purging" /\ (~node[n].dir => blob[n] = "deleted")
      <3>1. r \in Nodes /\ n \in Nodes
        BY <1>1, <2>2, Zenon DEF IInv, TypeOK, Members
      <3>2. node[r].trash = r /\ node[r].status = "purging" /\ blob[n] \in {"none", "deleted"}
        BY <1>1, <2>2, <3>1, Zenon DEF IInv, RowsOK, NodeOK, FinishedOK
      <3>3. node[n].status = "purging"
        BY <1>1, <3>1, <3>2, MembersPurging, Zenon DEF IInv
      <3>4. ContentOK(n)
        BY <1>1, <3>1, Zenon DEF IInv, RowsOK, NodeOK
      <3> QED BY <3>2, <3>3, <3>4, Zenon DEF ContentOK
    <2> QED BY <2>1, <2>2, Zenon DEF PurgeComplete
  <1> QED BY <1>1, Invariance, PTL

\* A change under the lock meets the node its client saw (the revision check
\* of UpdateNode, Recycle and Restore).
THEOREM ChangesAsSeen == Spec => []AppliedAsSeen
  <1>1. ASSUME IInv, NEW a \in Actors, req[a].pc = "locked",
               req[a].op \in {"update", "recycle", "restore"}
        PROVE  /\ node[req[a].node].parent = req[a].seen.parent
               /\ node[req[a].node].name = req[a].seen.name
               /\ node[req[a].node].trash = req[a].seen.trash
               /\ node[req[a].node].origin = req[a].seen.origin
    <2>1. ReqOK(a) /\ Admitted(req[a])
      BY <1>1, Zenon DEF IInv, ReqsOK, ReqOK
    <2>2. /\ node[req[a].node].revision = req[a].seen.revision
          /\ req[a].op \in {"update", "recycle"} => node[req[a].node].trash = None
          /\ req[a].op = "restore" => node[req[a].node].trash = req[a].node
      BY <1>1, <2>1, Zenon DEF Admitted, CanUpdate, CanRecycle, CanRestore, Current, Visible, RecycleRoot
    <2> QED BY <1>1, <2>1, <2>2, Zenon DEF ReqOK
  <1>2. IInv => AppliedAsSeen
    BY <1>1, Zenon DEF AppliedAsSeen
  <1> QED BY <1>2, Invariance, PTL

\* One step of the next theorem: what may happen to the entries.
EntriesStep ==
    \A n \in Nodes :
        node[n].trash # None =>
            \/ node'[n].trash = node[n].trash
            \/ \A m \in Members(node[n].trash) : node'[m].trash = None

LEMMA EntriesOK == IInv /\ [Next]_vars => EntriesStep
  <1> SUFFICES ASSUME IInv, [Next]_vars PROVE EntriesStep
    BY Zenon
  <1>0. node \in [Nodes -> Row]
    BY Zenon DEF IInv, TypeOK
  <1>1. CASE node' = node
    BY <1>1, Zenon DEF EntriesStep
  <1>2. ASSUME NEW a \in Actors, NEW dir \in BOOLEAN, Insert(a, dir) PROVE EntriesStep
    <2>0. req[a] \in Req
      BY Zenon DEF IInv, TypeOK
    <2> PICK n \in Nodes : n = req[a].node
      BY <2>0, Zenon DEF Req
    <2>1. node[n].trash = None
      BY <1>2, Zenon DEF Insert, Exists, IInv, RowsOK, NodeOK, StatusOK
    <2>2. \A x \in Nodes : x # n => node'[x] = node[x]
      BY <1>0, <1>2, Zenon DEF Insert
    <2> QED BY <2>1, <2>2, Zenon DEF EntriesStep
  <1>3. ASSUME NEW a \in Actors, UpdateNode(a) PROVE EntriesStep
    <2>0. req[a] \in Req /\ Admitted(req[a]) /\ req[a].op = "update"
      BY <1>3, Zenon DEF IInv, TypeOK, ReqsOK, ReqOK, UpdateNode, Locked
    <2> PICK n \in Nodes : n = req[a].node
      BY <2>0, Zenon DEF Req
    <2>1. node[n].trash = None
      BY <2>0, Zenon DEF Admitted, CanUpdate, Visible
    <2>2. \A x \in Nodes : x # n => node'[x] = node[x]
      BY <1>0, <1>3, Zenon DEF UpdateNode
    <2> QED BY <2>1, <2>2, Zenon DEF EntriesStep
  <1>4. ASSUME NEW a \in Actors, Recycle(a) PROVE EntriesStep
    BY <1>4, Zenon DEF Recycle, Visible, EntriesStep
  <1>5. ASSUME NEW a \in Actors, Restore(a) PROVE EntriesStep
    <2>0. req[a] \in Req
      BY Zenon DEF IInv, TypeOK
    <2> PICK n \in Nodes : n = req[a].node
      BY <2>0, Zenon DEF Req
    <2>1. node' = [x \in Nodes |-> IF x \in Members(n) THEN Restored(x, n) ELSE node[x]]
      BY <1>5, Zenon DEF Restore
    <2>2. /\ \A x \in Nodes : node[x].trash = n => node'[x].trash = None
          /\ \A x \in Nodes : node[x].trash # n => node'[x] = node[x]
      BY <1>0, <2>1, RowRestored, Zenon DEF Members
    <2> QED BY <2>2, Zenon DEF EntriesStep, Members
  <1>6. ASSUME NEW a \in Actors, PreparePurge(a) PROVE EntriesStep
    <2>1. ASSUME NEW x \in Nodes PROVE node'[x].trash = node[x].trash
      <3> PICK r \in Row : r = node[x]
        BY <1>0, Zenon
      <3>1. node'[x] = [r EXCEPT !.status = "purging"] \/ node'[x] = r
        BY <1>6, Zenon DEF PreparePurge
      <3> QED BY <3>1, Zenon DEF Row
    <2> QED BY <2>1, Zenon DEF EntriesStep
  <1>7. ASSUME NEW a \in Actors, Step(a) PROVE EntriesStep
    <2>1. CASE Write(a)
      BY <1>2, <1>3, <1>4, <1>5, <1>6, <2>1, Zenon DEF Write, CreateDirectory, CommitUpload
    <2>2. CASE ~Write(a)
      BY <1>1, <1>7, <2>2, Zenon DEF Step, Send, Lock, DeleteObject, FinishPurge, RetryPurge, Leave
    <2> QED BY <2>1, <2>2, Zenon
  <1> QED BY <1>1, <1>7, Zenon DEF Next, vars

\* Entries of the recycle bin are independent: a node leaves its entry only
\* together with the whole entry (Recycle, Restore, ADR-0009).
THEOREM EntriesIndependent == Spec => IndependentEntries
  <1>1. IInv /\ [Next]_vars => [EntriesStep]_vars
    BY EntriesOK, Zenon
  <1>2. Spec => [][EntriesStep]_vars
    BY <1>1, Invariance, PTL DEF Spec
  <1> QED BY <1>2, Zenon DEF IndependentEntries, EntriesStep

-----------------------------------------------------------------------------
\* The queries

\* Sets, places and entries of the tree are read off the rows.
LEMMA Mapped ==
    ASSUME NEW n \in Nodes
    PROVE  /\ TreePlace[n].parent = node[n].parent
           /\ TreePlace[n].name = node[n].name
           /\ TreePlace[n].dir = node[n].dir
           /\ TreeEntry[n] = node[n].trash
           /\ n \in TreePurging <=> (node[n].trash = n /\ node[n].status = "purging")
  BY Zenon DEF TreePlace, TreeEntry, TreePurging

\* A node is shown when its row is visible.
LEMMA ShownVisible ==
    ASSUME IInv, NEW n \in Nodes
    PROVE  /\ Tree!InUse(n) <=> Exists(n)
           /\ Tree!Shown(n) <=> Visible(n)
           /\ Tree!Directory(n) <=> ActiveDirectory(n)
  <1>1. StatusOK(n) /\ RootOK
    BY Zenon DEF IInv, RowsOK, NodeOK
  <1>2. n # Root => (node[n].parent # None <=> node[n].status # "absent")
    BY <1>1, Zenon DEF StatusOK, IInv, TypeOK
  <1>3. Tree!InUse(n) <=> Exists(n)
    BY <1>1, <1>2, Mapped, Zenon DEF Tree!InUse, Exists, RootOK
  <1>4. Tree!Shown(n) <=> Visible(n)
    BY <1>1, <1>3, Mapped, Zenon DEF Tree!Shown, Visible, Exists, StatusOK
  <1> QED BY <1>3, <1>4, Mapped, Zenon DEF Tree!Directory, ActiveDirectory

\* A name the unique index admits is free.
LEMMA FreeName ==
    ASSUME IInv, NEW n \in Nodes, NEW p, NEW q, NameFree(p, q, n)
    PROVE  Tree!Free(p, q, n)
  BY ShownVisible, Mapped, Zenon DEF Tree!Free, NameFree

\* The recursive queries walk the tree.
LEMMA SameWalks ==
    ASSUME IInv, NEW n \in Nodes
    PROVE  Tree!Above(n) = Ancestors(n) /\ Tree!Below(n) = ActiveTree(n)
  <1>1. ASSUME NEW S \in SUBSET Nodes
        PROVE  ParentClosed(S) <=>
                 \A y \in S : TreePlace[y].parent # None => TreePlace[y].parent \in S
    BY <1>1, Mapped, Zenon DEF ParentClosed
  <1>2. ASSUME NEW S \in SUBSET Nodes
        PROVE  ChildClosed(S) <=>
                 \A y \in Nodes : (Tree!Shown(y) /\ TreePlace[y].parent \in S) => y \in S
    BY <1>2, Mapped, ShownVisible, Zenon DEF ChildClosed
  <1>3. Tree!Above(n) = Ancestors(n)
    BY <1>1, Zenon DEF Tree!Above, Ancestors
  <1>4. Tree!Below(n) = ActiveTree(n)
    BY <1>2, Zenon DEF Tree!Below, ActiveTree
  <1> QED BY <1>3, <1>4, Zenon

\* What lies above y lies above its parent, y itself apart.
LEMMA AboveParent ==
    ASSUME node \in [Nodes -> Row], NEW y \in Nodes, node[y].parent # None,
           NEW x \in Ancestors(y), x # y
    PROVE  x \in Ancestors(node[y].parent)
  <1> PICK p \in Nodes : p = node[y].parent
    BY Zenon DEF Row
  <1>1. p \in Ancestors(p) /\ Closed(Par, Ancestors(p)) /\ Ancestors(p) \in SUBSET Nodes
    BY AncestorsClosed, Zenon
  <1> DEFINE S == Ancestors(p) \cup {y}
  <1>2. S \in SUBSET Nodes /\ y \in S /\ ParentClosed(S)
    BY <1>1, Zenon DEF Closed, Par, ParentClosed
  <1>3. x \in S
    BY <1>2, Zenon DEF Ancestors
  <1> QED BY <1>3, Zenon

\* No node lies above its own parent: the tree has no cycle.
LEMMA NoCycle ==
    ASSUME IInv, NEW n \in Nodes, n # Root, Exists(n), node[n].parent \in Nodes
    PROVE  n \notin Ancestors(node[n].parent)
  <1> SUFFICES ASSUME n \in Ancestors(node[n].parent) PROVE FALSE
    BY Zenon
  <1>0. node \in [Nodes -> Row] /\ node[Root].parent = None
    BY Zenon DEF IInv, TypeOK, RowsOK, RootOK
  <1> DEFINE S == {x \in Nodes : n \in Ancestors(x)}
  <1>1. ASSUME NEW y \in S, node[y].parent # None PROVE node[y].parent \in S
    <2>1. node[y].parent \in Nodes
      BY <1>0, <1>1, Zenon DEF Row
    <2>2. CASE y = n
      BY <2>1, <2>2, Zenon
    <2>3. CASE y # n
      BY <1>0, <1>1, <2>1, <2>3, AboveParent, Zenon
    <2> QED BY <2>2, <2>3, Zenon
  <1>2. n \in S
    BY <1>0, AncestorsClosed, Zenon
  <1>3. Root \in S
    <2>1. Root \in Ancestors(n)
      BY Zenon DEF IInv, Rooted
    <2>2. ParentClosed(S)
      BY <1>1, Zenon DEF ParentClosed
    <2>3. S \in SUBSET Nodes
      BY Zenon
    <2> HIDE DEF S
    <2> QED BY <1>2, <2>1, <2>2, <2>3, Zenon DEF Ancestors
  <1>4. n \in Ancestors(Root)
    BY <1>3, Zenon
  <1>5. ParentClosed({Root}) /\ {Root} \in SUBSET Nodes
    BY <1>0, NodesAssumption, Zenon DEF ParentClosed
  <1> QED BY <1>4, <1>5, Zenon DEF Ancestors

-----------------------------------------------------------------------------
\* The operations

\* A row write that keeps every place, entry and purge shows as nothing.
LEMMA SamePlace ==
    ASSUME \A n \in Nodes : /\ node'[n].parent = node[n].parent
                            /\ node'[n].name = node[n].name
                            /\ node'[n].dir = node[n].dir
    PROVE  TreePlace' = TreePlace
  BY Zenon DEF TreePlace

LEMMA InsertAdds ==
    ASSUME IInv, NEW a \in Actors, req[a].pc = "locked", req[a].op \in {"mkdir", "commit"},
           NEW dir \in BOOLEAN, Insert(a, dir), NewContent(req[a].node, dir)
    PROVE  Tree!Operation
  <1>0. req[a] \in Req /\ ReqOK(a) /\ Admitted(req[a])
    BY Zenon DEF IInv, TypeOK, ReqsOK, ReqOK
  <1>1. CanCreate(req[a])
    BY <1>0, Zenon DEF Admitted
  <1> PICK n \in Nodes, p \in Nodes, q \in Names :
            n = req[a].node /\ p = req[a].parent /\ q = req[a].name
    BY <1>0, <1>1, Zenon DEF Req, CanCreate, ActiveDirectory, ReqOK
  <1>2. ~Tree!InUse(n) /\ Tree!Directory(p) /\ Tree!Free(p, q, n)
    BY <1>1, ShownVisible, FreeName, Zenon DEF CanCreate, Insert
  <1>3. node[n].trash = None
    BY <1>1, Zenon DEF CanCreate, Exists, IInv, RowsOK, NodeOK, StatusOK
  <1>4. /\ node'[n].parent = p /\ node'[n].name = q /\ node'[n].dir = dir
        /\ node'[n].trash = None
        /\ \A x \in Nodes : x # n => node'[x] = node[x]
    BY Zenon DEF Insert, IInv, TypeOK
  <1>5. TreePlace' = [TreePlace EXCEPT ![n] = [parent |-> p, name |-> q, dir |-> dir]]
    BY <1>4, Zenon DEF TreePlace
  <1>6. TreeEntry' = TreeEntry /\ TreePurging' = TreePurging
    BY <1>3, <1>4, NodesAssumption DEF TreeEntry, TreePurging
  <1>7. object' = IF dir THEN object ELSE object \cup {n}
    BY Zenon DEF NewContent
  <1>8. Tree!Add(n, p, q, dir)
    BY <1>2, <1>5, <1>6, <1>7, Zenon DEF Tree!Add
  <1> QED BY <1>8, Zenon DEF Tree!Operation

LEMMA UpdateMoves ==
    ASSUME IInv, NEW a \in Actors, UpdateNode(a)
    PROVE  Tree!Operation
  <1>0. req[a] \in Req /\ CanUpdate(req[a])
    BY Zenon DEF IInv, TypeOK, ReqsOK, ReqOK, UpdateNode, Locked, Admitted
  <1> PICK n \in Nodes : n = req[a].node
    BY <1>0, Zenon DEF Req
  <1>1. /\ node[n] \in Row /\ n # Root /\ Visible(n) /\ Exists(n) /\ PlaceOK(n)
        /\ node[n].parent \in Nodes /\ node[n].name \in Names /\ node[n].trash = None
    BY <1>0, Zenon DEF CanUpdate, Visible, Exists, IInv, TypeOK, Row, RowsOK, NodeOK, PlaceOK
  <1>2. PICK p \in Nodes, q \in Names :
            /\ p = IF req[a].parent = None THEN node[n].parent ELSE req[a].parent
            /\ q = IF req[a].name = None THEN node[n].name ELSE req[a].name
    BY <1>0, <1>1, Zenon DEF Req
  <1>3. /\ req[a].parent = None => p = node[n].parent
        /\ req[a].parent # None => p = req[a].parent
    BY <1>2, Zenon
  <1>4. node' = [node EXCEPT ![n] = Moved(node[n], p, q)] /\ NameFree(p, q, n)
        /\ UNCHANGED object
    BY <1>2, Zenon DEF UpdateNode, Moved
  <1>5. /\ node'[n].parent = p /\ node'[n].name = q /\ node'[n].dir = node[n].dir
        /\ node'[n].trash = None
        /\ \A x \in Nodes : x # n => node'[x] = node[x]
    <2>1. node'[n] = Moved(node[n], p, q) /\ \A x \in Nodes : x # n => node'[x] = node[x]
      BY <1>4, Zenon DEF IInv, TypeOK
    <2> PICK r \in Row : r = node[n]
      BY <1>1, Zenon
    <2>2. /\ Moved(r, p, q).parent = p /\ Moved(r, p, q).name = q
          /\ Moved(r, p, q).dir = r.dir /\ Moved(r, p, q).trash = r.trash
      BY RowMoved
    <2> QED BY <1>1, <2>1, <2>2, Zenon
  <1>6. ActiveDirectory(p) /\ (node[n].dir => n \notin Ancestors(p))
    <2>1. CASE req[a].parent = None
      <3>1. StatusOK(p) /\ p = node[n].parent
        BY <1>3, <2>1, Zenon DEF IInv, RowsOK, NodeOK
      <3>2. ActiveDirectory(p)
        BY <1>1, <3>1, NodesAssumption, Zenon DEF PlaceOK, StatusOK, ActiveDirectory, Visible
      <3> QED BY <1>1, <3>1, <3>2, NoCycle, Zenon
    <2>2. CASE req[a].parent # None
      BY <1>0, <1>3, <2>2, Zenon DEF CanUpdate
    <2> QED BY <2>1, <2>2, Zenon
  <1>7. TreePlace' = [TreePlace EXCEPT ![n] =
                        [parent |-> p, name |-> q, dir |-> TreePlace[n].dir]]
    BY <1>5, Mapped, Zenon DEF TreePlace
  <1>8. TreeEntry' = TreeEntry /\ TreePurging' = TreePurging
    BY <1>1, <1>5, NodesAssumption DEF TreeEntry, TreePurging
  <1>9. /\ Tree!Shown(n) /\ Tree!Directory(p) /\ Tree!Free(p, q, n)
        /\ TreePlace[n].dir => n \notin Tree!Above(p)
    BY <1>1, <1>4, <1>6, ShownVisible, FreeName, SameWalks, Mapped, Zenon
  <1>10. Tree!Move(n, p, q)
    BY <1>1, <1>4, <1>7, <1>8, <1>9, Zenon DEF Tree!Move
  <1> QED BY <1>10, Zenon DEF Tree!Operation

LEMMA RecycleDiscards ==
    ASSUME IInv, NEW a \in Actors, Recycle(a)
    PROVE  Tree!Operation
  <1>0. req[a] \in Req /\ CanRecycle(req[a])
    BY Zenon DEF IInv, TypeOK, ReqsOK, ReqOK, Recycle, Locked, Admitted
  <1> PICK n \in Nodes : n = req[a].node
    BY <1>0, Zenon DEF Req
  <1> PICK T \in SUBSET Nodes : T = ActiveTree(n)
    BY TreeOK, Zenon
  <1>1. n # Root /\ Visible(n)
    BY <1>0, Zenon DEF CanRecycle
  <1>2. n \in T /\ \A x \in T : Visible(x)
    BY <1>1, TreeOK, Zenon
  <1>3. node' = [x \in Nodes |-> IF x \in T THEN Recycled(x, n) ELSE node[x]]
        /\ UNCHANGED object
    BY <1>2, Zenon DEF Recycle
  <1>4. node \in [Nodes -> Row]
    BY Zenon DEF IInv, TypeOK
  <1>5. ASSUME NEW x \in Nodes
        PROVE  /\ node'[x].parent = node[x].parent
               /\ node'[x].name = node[x].name
               /\ node'[x].dir = node[x].dir
               /\ x \in T => node'[x].trash = n /\ (x = n => node'[x].status = "trashed")
               /\ x \notin T => node'[x] = node[x]
    BY <1>3, <1>4, RowRecycled, Zenon
  <1>6. TreePlace' = TreePlace
    BY <1>5, SamePlace, Zenon
  <1>7. TreeEntry' = [x \in Nodes |-> IF x \in T THEN n ELSE TreeEntry[x]]
    BY <1>5, Mapped DEF TreeEntry
  <1>8. TreePurging' = TreePurging
    <2>1. ASSUME NEW x \in T PROVE ~(node[x].trash = x) /\ ~(node'[x].trash = x /\ node'[x].status = "purging")
      BY <1>2, <1>5, NodesAssumption DEF Visible
    <2> QED BY <1>5, <2>1 DEF TreePurging
  <1>9. Tree!Shown(n) /\ Tree!Below(n) = T
    BY <1>1, ShownVisible, SameWalks, Zenon
  <1>10. Tree!Discard(n)
    BY <1>1, <1>3, <1>6, <1>7, <1>8, <1>9, Zenon DEF Tree!Discard
  <1> QED BY <1>10, Zenon DEF Tree!Operation

LEMMA RestoreReturns ==
    ASSUME IInv, NEW a \in Actors, Restore(a)
    PROVE  Tree!Operation
  <1>0. req[a] \in Req /\ CanRestore(req[a])
    BY Zenon DEF IInv, TypeOK, ReqsOK, ReqOK, Restore, Locked, Admitted
  <1> PICK n \in Nodes : n = req[a].node
    BY <1>0, Zenon DEF Req
  <1>1. /\ node[n].status = "trashed" /\ node[n].trash = n
        /\ ActiveDirectory(node[n].origin)
        /\ NameFree(node[n].origin, node[n].name, n)
    BY <1>0, Zenon DEF CanRestore, RecycleRoot
  <1>2. n # Root /\ node[n].origin = node[n].parent /\ node[n].parent \in Nodes
    BY <1>1, Zenon DEF IInv, RowsOK, RootOK, NodeOK, PlaceOK
  <1>3. node' = [x \in Nodes |-> IF x \in Members(n) THEN Restored(x, n) ELSE node[x]]
        /\ UNCHANGED object
    BY Zenon DEF Restore
  <1>4. node \in [Nodes -> Row]
    BY Zenon DEF IInv, TypeOK
  <1>5. ASSUME NEW x \in Nodes
        PROVE  /\ node'[x].parent = node[x].parent
               /\ node'[x].name = node[x].name
               /\ node'[x].dir = node[x].dir
               /\ node[x].trash = n => node'[x].trash = None
               /\ node[x].trash # n => node'[x] = node[x]
    <2>1. CASE x \in Members(n)
      BY <1>2, <1>3, <1>4, <2>1, RowRestored DEF Members
    <2>2. CASE x \notin Members(n)
      BY <1>3, <2>2, Zenon DEF Members
    <2> QED BY <2>1, <2>2, Zenon
  <1>6. TreePlace' = TreePlace
    BY <1>5, SamePlace, Zenon
  <1>7. TreeEntry' = [x \in Nodes |-> IF TreeEntry[x] = n THEN None ELSE TreeEntry[x]]
    BY <1>5, Mapped, Zenon DEF TreeEntry
  <1>8. TreePurging' = TreePurging
    <2>1. ASSUME NEW x \in Nodes, node[x].trash = n
          PROVE  /\ ~(node[x].trash = x /\ node[x].status = "purging")
                 /\ ~(node'[x].trash = x)
      BY <1>1, <1>5, <2>1, NodesAssumption, Zenon
    <2> QED BY <1>5, <2>1 DEF TreePurging
  <1>9. /\ TreeEntry[n] = n /\ n \notin TreePurging
        /\ Tree!Directory(TreePlace[n].parent)
        /\ Tree!Free(TreePlace[n].parent, TreePlace[n].name, n)
    <2>1. TreePlace[n].parent = node[n].parent /\ TreePlace[n].name = node[n].name
      BY Mapped, Zenon
    <2>2. Tree!Directory(node[n].parent)
      BY <1>1, <1>2, ShownVisible, Zenon
    <2>3. Tree!Free(node[n].parent, node[n].name, n)
      BY <1>1, <1>2, FreeName, Zenon
    <2> QED BY <1>1, <2>1, <2>2, <2>3, Mapped, Zenon
  <1>10. Tree!Return(n)
    BY <1>3, <1>6, <1>7, <1>8, <1>9, Zenon DEF Tree!Return
  <1> QED BY <1>10, Zenon DEF Tree!Operation

LEMMA PrepareMarks ==
    ASSUME IInv, NEW a \in Actors, PreparePurge(a)
    PROVE  Tree!Operation
  <1>0. req[a] \in Req /\ CanPurge(req[a])
    BY Zenon DEF IInv, TypeOK, ReqsOK, ReqOK, PreparePurge, Locked, Admitted
  <1> PICK n \in Nodes : n = req[a].node
    BY <1>0, Zenon DEF Req
  <1>1. node[n].trash = n
    BY <1>0, Zenon DEF CanPurge, RecycleRoot
  <1>2. ASSUME NEW x \in Nodes
        PROVE  /\ node'[x].parent = node[x].parent
               /\ node'[x].name = node[x].name
               /\ node'[x].dir = node[x].dir
               /\ node'[x].trash = node[x].trash
               /\ node[x].trash = n => node'[x].status = "purging"
               /\ node[x].trash # n => node'[x].status = node[x].status
    <2> PICK r \in Row : r = node[x]
      BY Zenon DEF IInv, TypeOK
    <2>1. CASE node[x].trash = n
      <3>1. node'[x] = [r EXCEPT !.status = "purging"]
        BY <2>1, Zenon DEF PreparePurge, Members
      <3> QED BY <2>1, <3>1, Zenon DEF Row
    <2>2. CASE node[x].trash # n
      BY <2>2, Zenon DEF PreparePurge, Members
    <2> QED BY <2>1, <2>2, Zenon
  <1>3. TreePlace' = TreePlace
    BY <1>2, SamePlace, Zenon
  <1>4. TreeEntry' = TreeEntry
    BY <1>2, Zenon DEF TreeEntry
  <1>5. TreePurging' = TreePurging \cup {n}
    BY <1>1, <1>2 DEF TreePurging
  <1>6. TreeEntry[n] = n
    BY <1>1, Mapped, Zenon
  <1>7. UNCHANGED object
    BY Zenon DEF PreparePurge
  <1>8. Tree!Purge(n)
    BY <1>3, <1>4, <1>5, <1>6, <1>7, Zenon DEF Tree!Purge
  <1> QED BY <1>8, Zenon DEF Tree!Operation

LEMMA DeleteErases ==
    ASSUME IInv, NEW a \in Actors, NEW o \in Nodes, DeleteObject(a, o)
    PROVE  Tree!Operation
  <1>0. req[a] \in Req /\ ReqOK(a)
    BY Zenon DEF IInv, TypeOK, ReqsOK
  <1> PICK n \in Nodes : n = req[a].node
    BY <1>0, Zenon DEF Req
  <1>1. node[n].status = "purging" /\ node[n].trash = n /\ node[o].trash = n
    BY <1>0, Zenon DEF ReqOK, DeleteObject, Members
  <1>2. n \in TreePurging /\ TreeEntry[o] = n
    BY <1>1, Mapped, Zenon
  <1>3. TreePlace' = TreePlace /\ TreeEntry' = TreeEntry /\ TreePurging' = TreePurging
    BY Zenon DEF DeleteObject, TreePlace, TreeEntry, TreePurging
  <1>4. Tree!Erase(n, {o})
    BY <1>2, <1>3, Zenon DEF DeleteObject, Tree!Erase
  <1>5. {o} \in SUBSET Nodes
    BY Zenon
  <1> QED BY <1>4, <1>5, Zenon DEF Tree!Operation

\* A step that writes neither rows nor objects.
LEMMA QuietTree ==
    ASSUME node' = node, object' = object
    PROVE  UNCHANGED Tree!treeVars
  BY Zenon DEF Tree!treeVars, TreePlace, TreeEntry, TreePurging

\* Requests, locks, revisions and failures never show: whatever runs side by
\* side, the tree a user sees changes by whole operations of DriveTree only.
THEOREM TreeImplemented == Spec => ImplementsDriveTree
  <1>1. Init => Tree!TreeInit
    <2> SUFFICES ASSUME Init PROVE Tree!TreeInit
      BY Zenon
    <2>1. ASSUME NEW n \in Nodes
          PROVE  /\ node[n].parent = None /\ node[n].name = None
                 /\ node[n].dir = (n = Root) /\ node[n].trash = None
      <3>1. CASE n = Root
        BY <3>1, Zenon DEF Init, Absent
      <3>2. CASE n # Root
        BY <3>2, Zenon DEF Init, Absent
      <3> QED BY <3>1, <3>2, Zenon
    <2>2. TreePlace = [n \in Nodes |-> [Tree!Nowhere EXCEPT !.dir = (n = Root)]]
      BY <2>1, Zenon DEF TreePlace, Tree!Nowhere
    <2>3. TreeEntry = [n \in Nodes |-> None] /\ TreePurging = {}
      BY <2>1, NodesAssumption, Zenon DEF TreeEntry, TreePurging
    <2> QED BY <2>2, <2>3, Zenon DEF Init, Tree!TreeInit
  <1>2. IInv /\ [Next]_vars => [Tree!TreeNext]_(Tree!treeVars)
    <2> SUFFICES ASSUME IInv, [Next]_vars
                 PROVE  Tree!Operation \/ UNCHANGED Tree!treeVars
      BY Zenon DEF Tree!TreeNext
    <2>1. CASE UNCHANGED vars
      BY <2>1, QuietTree, Zenon DEF vars
    <2>2. ASSUME NEW a \in Actors, Write(a) PROVE Tree!Operation
      <3>1. CASE CreateDirectory(a)
        BY <3>1, InsertAdds, Zenon DEF CreateDirectory, Locked, NewContent
      <3>2. CASE CommitUpload(a)
        BY <3>2, InsertAdds, Zenon DEF CommitUpload, Locked, NewContent
      <3> QED BY <2>2, <3>1, <3>2, UpdateMoves, RecycleDiscards, RestoreReturns, PrepareMarks, Zenon
              DEF Write
    <2>3. ASSUME NEW a \in Actors, Step(a), ~Write(a)
          PROVE  Tree!Operation \/ UNCHANGED Tree!treeVars
      <3>1. CASE \E o \in Nodes : DeleteObject(a, o)
        BY <3>1, DeleteErases, Zenon
      <3>2. CASE ~\E o \in Nodes : DeleteObject(a, o)
        <4>1. node' = node /\ object' = object
          BY <2>3, <3>2, Zenon DEF Step, Send, Lock, FinishPurge, RetryPurge, Leave
        <4> QED BY <4>1, QuietTree, Zenon
      <3> QED BY <3>1, <3>2, Zenon
    <2> QED BY <2>1, <2>2, <2>3, Zenon DEF Next
  <1> QED
    BY <1>1, <1>2, Invariance, PTL DEF Spec, ImplementsDriveTree, Tree!TreeSpec

-----------------------------------------------------------------------------
\* Recycle retention.  A claim marks its entry as purging before anything of
\* it is prepared, so the invariant of Namespace does not hold beside workers;
\* what does is that nobody touches an entry that is being purged.

\* What the holder of the tenant row checked still holds.
HeldOK(a) == req[a].pc = "locked" => lock = a /\ Admitted(req[a])

\* A worker's entry is being purged since its claim, with the revision it had.
ClaimOK(w) ==
    req[w].pc # "idle" =>
        /\ req[w].op = "purge"
        /\ node[req[w].node].status = "purging"
        /\ node[req[w].node].trash = req[w].node
        /\ node[req[w].node].revision = req[w].seen.revision

ClaimsOK ==
    /\ node \in [Nodes -> Row]
    /\ req \in [Actors -> Req]
    /\ \A a \in Actors : HeldOK(a)
    /\ \A w \in Workers : ClaimOK(w)

\* No step takes an entry that is being purged out of the purge.
PurgeGoesOn ==
    \A y \in Nodes : (node[y].status = "purging" /\ node[y].trash = y) =>
        /\ node'[y].status = "purging"
        /\ node'[y].trash = y
        /\ node'[y].revision = node[y].revision

\* A step of request a, under the tenant row or without writing a row.
LEMMA RequestKeepsClaims ==
    ASSUME ClaimsOK, NEW a \in Actors, NEW x \in Req, SetReq(a, x),
           node' \in [Nodes -> Row], PurgeGoesOn,
           x.pc = "locked" => lock' = a /\ Admitted(x)',
           a \in Workers => ClaimOK(a)',
           \A b \in Actors : (b # a /\ req[b].pc = "locked") => lock' = lock /\ node' = node
    PROVE  ClaimsOK'
  <1>1. req' \in [Actors -> Req] /\ req'[a] = x /\ \A b \in Actors : b # a => req'[b] = req[b]
    BY DEF ClaimsOK, SetReq
  <1>2. ASSUME NEW b \in Actors PROVE HeldOK(b)'
    <2>1. CASE b = a
      BY <1>1, <2>1, Zenon DEF HeldOK
    <2>2. CASE b # a /\ req[b].pc = "locked"
      <3> PICK r : r = req[b]
        BY Zenon
      <3>1. lock = b /\ Admitted(r) /\ lock' = lock /\ node' = node
        BY <2>2, Zenon DEF ClaimsOK, HeldOK
      <3>2. Admitted(r)'
        BY <3>1, AdmittedStable, Zenon
      <3> QED BY <1>1, <2>2, <3>1, <3>2, Zenon DEF HeldOK
    <2>3. CASE b # a /\ req[b].pc # "locked"
      BY <1>1, <2>3, Zenon DEF HeldOK
    <2> QED BY <2>1, <2>2, <2>3, Zenon
  <1>3. ASSUME NEW w \in Workers PROVE ClaimOK(w)'
    <2>1. CASE w # a
      <3>1. w \in Actors /\ req'[w] = req[w] /\ ClaimOK(w)
        BY <1>1, <2>1, WorkersAssumption, Zenon DEF ClaimsOK
      <3>2. req[w].node \in Nodes
        BY <3>1 DEF ClaimsOK, Req
      <3> QED BY <3>1, <3>2, Zenon DEF ClaimOK, PurgeGoesOn
    <2> QED BY <2>1, Zenon
  <1> QED BY <1>1, <1>2, <1>3, Zenon DEF ClaimsOK

\* Requests that write no row.
LEMMA SameRows ==
    ASSUME node' = node, ClaimsOK
    PROVE  node' \in [Nodes -> Row] /\ PurgeGoesOn
  BY Zenon DEF PurgeGoesOn, ClaimsOK

LEMMA IdleKeepsClaims ==
    ASSUME ClaimsOK, NEW a \in Actors, SetReq(a, Idle), node' \in [Nodes -> Row], PurgeGoesOn,
           \A b \in Actors : (b # a /\ req[b].pc = "locked") => lock' = lock /\ node' = node
    PROVE  ClaimsOK'
  <1>1. Idle \in Req /\ Idle.pc = "idle"
    BY NodesAssumption, Zenon DEF Absent, Row, Idle, Req, AllOps
  <1>2. req'[a] = Idle
    BY DEF ClaimsOK, SetReq
  <1>3. ClaimOK(a)'
    BY <1>1, <1>2, Zenon DEF ClaimOK
  <1> QED BY <1>1, <1>3, RequestKeepsClaims

-----------------------------------------------------------------------------
\* The steps of requests, clients' and workers' alike.

LEMMA LeaveKeepsClaims ==
    ASSUME ClaimsOK, NEW a \in Actors, Leave(a)
    PROVE  ClaimsOK'
  <1>1. SetReq(a, Idle) /\ node' = node
    BY Zenon DEF Leave
  <1>2. \A b \in Actors : (b # a /\ req[b].pc = "locked") => lock' = lock /\ node' = node
    BY Zenon DEF Leave, ClaimsOK, HeldOK
  <1> QED BY <1>1, <1>2, SameRows, IdleKeepsClaims, Zenon

LEMMA FinishKeepsClaims ==
    ASSUME ClaimsOK, NEW a \in Actors, FinishPurge(a)
    PROVE  ClaimsOK'
  <1>1. SetReq(a, Idle) /\ node' = node /\ lock' = lock
    BY Zenon DEF FinishPurge
  <1> QED BY <1>1, SameRows, IdleKeepsClaims, Zenon

LEMMA SendKeepsClaims ==
    ASSUME ClaimsOK, NEW a \in Actors \ Workers, NEW op \in Ops, NEW n \in Nodes,
           NEW p \in Nodes \cup {None}, NEW q \in Names \cup {None}, Send(a, op, n, p, q)
    PROVE  ClaimsOK'
  <1> PICK x : x = [pc |-> "sent", op |-> op, node |-> n, seen |-> node[n],
                    parent |-> p, name |-> q, plan |-> {}, left |-> {}]
    BY Zenon
  <1>1. op \in AllOps \cup {"none"} /\ node[n] \in Row
    BY BoundsAssumption DEF AllOps, ClaimsOK
  <1>2. x \in Req /\ x.pc = "sent"
    BY <1>1 DEF Req
  <1>3. SetReq(a, x) /\ node' = node /\ lock' = lock
    BY Zenon DEF Send
  <1> QED BY <1>2, <1>3, SameRows, RequestKeepsClaims, Zenon

\* A request that goes on with its entry keeps what it claimed.
LEMMA GoingOnKeepsClaims ==
    ASSUME ClaimsOK, NEW a \in Actors, NEW x \in Req, SetReq(a, x), req[a].pc # "idle",
           x.op = req[a].op, x.node = req[a].node, x.seen = req[a].seen,
           node' \in [Nodes -> Row], PurgeGoesOn,
           x.pc = "locked" => lock' = a /\ Admitted(x)',
           \A b \in Actors : (b # a /\ req[b].pc = "locked") => lock' = lock /\ node' = node
    PROVE  ClaimsOK'
  <1>1. req'[a] = x /\ x.node \in Nodes
    BY DEF ClaimsOK, SetReq, Req
  <1>2. ASSUME a \in Workers PROVE ClaimOK(a)'
    <2>1. ClaimOK(a)
      BY <1>2, Zenon DEF ClaimsOK
    <2> QED BY <1>1, <2>1, Zenon DEF ClaimOK, PurgeGoesOn
  <1> QED BY <1>2, RequestKeepsClaims, Zenon

LEMMA LockKeepsClaims ==
    ASSUME ClaimsOK, NEW a \in Actors, Lock(a)
    PROVE  ClaimsOK'
  <1> PICK r \in Req : r = req[a]
    BY DEF ClaimsOK
  <1> PICK x : x = [r EXCEPT !.pc = "locked"]
    BY Zenon
  <1>1. /\ x \in Req /\ x.op = r.op /\ x.node = r.node /\ x.seen = r.seen
        /\ x.parent = r.parent /\ x.name = r.name
    BY Zenon DEF Req
  <1>2. SetReq(a, x) /\ node' = node /\ lock' = a /\ Admitted(r) /\ lock = None /\ r.pc = "sent"
    BY Zenon DEF Lock, Goto
  <1>3. Admitted(x)
    BY <1>1, <1>2, Zenon DEF Admitted, CanCreate, CanUpdate, CanRecycle, CanRestore, CanPurge,
       Current
  <1>4. Admitted(x)'
    BY <1>2, <1>3, AdmittedStable, Zenon
  <1>5. \A b \in Actors : req[b].pc # "locked"
    BY <1>2, NodesAssumption, Zenon DEF ClaimsOK, HeldOK
  <1> QED BY <1>1, <1>2, <1>4, <1>5, SameRows, GoingOnKeepsClaims, Zenon

LEMMA DeleteKeepsClaims ==
    ASSUME ClaimsOK, NEW a \in Actors, NEW z \in Nodes, DeleteObject(a, z)
    PROVE  ClaimsOK'
  <1> PICK r \in Req : r = req[a]
    BY DEF ClaimsOK
  <1> PICK x : x = [r EXCEPT !.left = @ \ {z}]
    BY Zenon
  <1>1. r.left \ {z} \in SUBSET Nodes
    BY DEF Req
  <1>2. /\ x \in Req /\ x.op = r.op /\ x.node = r.node /\ x.seen = r.seen /\ x.pc = r.pc
    BY <1>1, Zenon DEF Req
  <1>3. SetReq(a, x) /\ node' = node /\ lock' = lock /\ r.pc = "deleting"
    BY Zenon DEF DeleteObject
  <1> QED BY <1>2, <1>3, SameRows, GoingOnKeepsClaims, Zenon

LEMMA RetryKeepsClaims ==
    ASSUME ClaimsOK, NEW a \in Actors, RetryPurge(a)
    PROVE  ClaimsOK'
  <1> PICK r \in Req : r = req[a]
    BY DEF ClaimsOK
  <1> PICK x : x = [r EXCEPT !.pc = "sent", !.plan = {}, !.left = {}]
    BY Zenon
  <1>1. /\ x \in Req /\ x.op = r.op /\ x.node = r.node /\ x.seen = r.seen /\ x.pc = "sent"
    BY Zenon DEF Req
  <1>2. SetReq(a, x) /\ node' = node /\ lock' = lock /\ r.pc = "deleting"
    BY Zenon DEF RetryPurge
  <1> QED BY <1>1, <1>2, SameRows, GoingOnKeepsClaims, Zenon

-----------------------------------------------------------------------------
\* The writes.  Who writes holds the tenant row, and nobody else does.

LEMMA Alone ==
    ASSUME ClaimsOK, NEW a \in Actors, req[a].pc = "locked"
    PROVE  /\ \A b \in Actors : b # a => req[b].pc # "locked"
           /\ Admitted(req[a]) /\ req[a] \in Req
  BY Zenon DEF ClaimsOK, HeldOK

\* A row that is written leaves entries that are being purged alone.
LEMMA OneRow ==
    ASSUME ClaimsOK, NEW n \in Nodes, NEW r \in Row, node' = [node EXCEPT ![n] = r],
           node[n].status # "purging"
    PROVE  node' \in [Nodes -> Row] /\ PurgeGoesOn
  <1>1. node' \in [Nodes -> Row] /\ \A y \in Nodes : y # n => node'[y] = node[y]
    BY DEF ClaimsOK
  <1> QED BY <1>1, Zenon DEF PurgeGoesOn

LEMMA InsertKeepsClaims ==
    ASSUME ClaimsOK, NEW a \in Actors, NEW dir \in BOOLEAN, req[a].pc = "locked", Insert(a, dir)
    PROVE  ClaimsOK'
  <1> PICK q \in Req : q = req[a]
    BY DEF ClaimsOK
  <1> PICK r : r = [parent |-> q.parent, dir |-> dir, name |-> q.name, status |-> "active",
                    trash |-> None, origin |-> None, revision |-> 1]
    BY Zenon
  <1>1. q.node \in Nodes /\ q.parent \in Nodes \cup {None} /\ q.name \in Names \cup {None}
    BY DEF Req
  <1>2. r \in Row
    BY <1>1 DEF Row
  <1>3. /\ node' = [node EXCEPT ![q.node] = r] /\ node[q.node].status = "absent"
        /\ SetReq(a, Idle)
    BY Zenon DEF Insert, Exists
  <1>4. node' \in [Nodes -> Row] /\ PurgeGoesOn
    BY <1>1, <1>2, <1>3, OneRow, Zenon
  <1> QED BY <1>3, <1>4, Alone, IdleKeepsClaims, Zenon

LEMMA UpdateKeepsClaims ==
    ASSUME ClaimsOK, NEW a \in Actors, UpdateNode(a)
    PROVE  ClaimsOK'
  <1> PICK q \in Req : q = req[a]
    BY DEF ClaimsOK
  <1>1. /\ q.node \in Nodes /\ q.parent \in Nodes \cup {None} /\ q.name \in Names \cup {None}
        /\ node[q.node] \in Row
    BY DEF Req, ClaimsOK
  <1> PICK old \in Row : old = node[q.node]
    BY <1>1, Zenon
  <1>2. PICK p \in Nodes \cup {None}, m \in Names \cup {None} :
            /\ p = IF q.parent = None THEN old.parent ELSE q.parent
            /\ m = IF q.name = None THEN old.name ELSE q.name
    BY <1>1 DEF Row
  <1> PICK r : r = [old EXCEPT !.parent = p, !.name = m, !.revision = @ + 1]
    BY Zenon
  <1>3. old.revision + 1 \in Nat
    BY DEF Row
  <1>4. r \in Row
    BY <1>3, Zenon DEF Row
  <1>5. req[a].pc = "locked" /\ req[a].op = "update" /\ SetReq(a, Idle)
    BY Zenon DEF UpdateNode, Locked
  <1>6. node' = [node EXCEPT ![q.node] = r]
    BY <1>2, Zenon DEF UpdateNode
  <1>7. node[q.node].status = "active"
    BY <1>5, Alone, Zenon DEF Admitted, CanUpdate, Visible
  <1>8. node' \in [Nodes -> Row] /\ PurgeGoesOn
    BY <1>1, <1>4, <1>6, <1>7, OneRow, Zenon
  <1> QED BY <1>5, <1>8, Alone, IdleKeepsClaims, Zenon

LEMMA RecycleKeepsClaims ==
    ASSUME ClaimsOK, NEW a \in Actors, Recycle(a)
    PROVE  ClaimsOK'
  <1> PICK n \in Nodes : n = req[a].node
    BY DEF ClaimsOK, Req
  <1>1. /\ req[a].pc = "locked" /\ SetReq(a, Idle)
        /\ node' = [x \in Nodes |-> IF x \in ActiveTree(n) /\ Visible(x)
                                    THEN Recycled(x, n) ELSE node[x]]
    BY Zenon DEF Recycle, Locked
  <1>2. \A x \in Nodes : Recycled(x, n) \in Row /\ node[x] \in Row
    BY RowRecycled, Zenon DEF ClaimsOK
  <1>3. node' \in [Nodes -> Row]
    BY <1>1, <1>2, Zenon
  <1>4. PurgeGoesOn
    BY <1>1, Zenon DEF PurgeGoesOn, Visible
  <1> QED BY <1>1, <1>3, <1>4, Alone, IdleKeepsClaims, Zenon

LEMMA RestoreKeepsClaims ==
    ASSUME ClaimsOK, NEW a \in Actors, Restore(a)
    PROVE  ClaimsOK'
  <1> PICK n \in Nodes : n = req[a].node
    BY DEF ClaimsOK, Req
  <1>1. /\ req[a].pc = "locked" /\ req[a].op = "restore" /\ SetReq(a, Idle)
        /\ node' = [x \in Nodes |-> IF x \in Members(n) THEN Restored(x, n) ELSE node[x]]
    BY Zenon DEF Restore, Locked
  <1>2. node[n].status = "trashed"
    BY <1>1, Alone, Zenon DEF Admitted, CanRestore
  <1>3. \A x \in Nodes : Restored(x, n) \in Row /\ node[x] \in Row
    BY RowRestored, Zenon DEF ClaimsOK
  <1>4. node' \in [Nodes -> Row]
    BY <1>1, <1>3, Zenon
  <1>5. PurgeGoesOn
    BY <1>1, <1>2, Zenon DEF PurgeGoesOn, Members
  <1> QED BY <1>1, <1>4, <1>5, Alone, IdleKeepsClaims, Zenon

\* Marking a row as purging changes nothing else of it.
LEMMA RowMarked ==
    ASSUME NEW r \in Row
    PROVE  LET x == [r EXCEPT !.status = "purging"] IN
           /\ x \in Row /\ x.status = "purging" /\ x.trash = r.trash /\ x.revision = r.revision
           /\ x.parent = r.parent /\ x.dir = r.dir /\ x.name = r.name /\ x.origin = r.origin
  BY Zenon DEF Row

LEMMA PrepareKeepsClaims ==
    ASSUME ClaimsOK, NEW a \in Actors, PreparePurge(a)
    PROVE  ClaimsOK'
  <1> PICK r \in Req : r = req[a]
    BY DEF ClaimsOK
  <1> PICK B \in SUBSET Nodes : B = PurgeBlobs(r.node)
    BY Zenon DEF PurgeBlobs, Members
  <1> PICK x : x = [r EXCEPT !.pc = "deleting", !.plan = B, !.left = B]
    BY Zenon
  <1>1. /\ x \in Req /\ x.op = r.op /\ x.node = r.node /\ x.seen = r.seen /\ x.pc = "deleting"
    BY Zenon DEF Req
  <1>2. /\ req[a].pc = "locked" /\ SetReq(a, x)
        /\ node' = [y \in Nodes |-> IF y \in Members(r.node)
                                    THEN [node[y] EXCEPT !.status = "purging"] ELSE node[y]]
    BY Zenon DEF PreparePurge, Locked
  <1>3. ASSUME NEW y \in Nodes
        PROVE  /\ node'[y] \in Row
               /\ node'[y].trash = node[y].trash /\ node'[y].revision = node[y].revision
               /\ node[y].status = "purging" => node'[y].status = "purging"
    <2> PICK z \in Row : z = node[y]
      BY DEF ClaimsOK
    <2>1. node'[y] \in {z, [z EXCEPT !.status = "purging"]}
      BY <1>2, Zenon
    <2> QED BY <2>1, RowMarked, Zenon
  <1>4. node' \in [Nodes -> Row]
    BY <1>2, <1>3, Zenon
  <1>5. PurgeGoesOn
    BY <1>3, Zenon DEF PurgeGoesOn
  <1> QED BY <1>1, <1>2, <1>4, <1>5, Alone, GoingOnKeepsClaims, Zenon

-----------------------------------------------------------------------------
\* Claims

\* What a claim changes of the rows shows in no check on another entry.
LEMMA ClaimAdmits ==
    ASSUME ClaimsOK, NEW n \in Nodes, RecycleRoot(n), NEW r \in Req, r.node # n, Admitted(r),
           node' = [node EXCEPT ![n].status = "purging"]
    PROVE  Admitted(r)'
  <1>1. /\ \A x \in Nodes : x # n => node'[x] = node[x]
        /\ \A x \in Nodes : node'[x].parent = node[x].parent
        /\ \A x \in Nodes : Visible(x)' <=> Visible(x)
    <2> PICK z \in Row : z = node[n]
      BY DEF ClaimsOK
    <2>1. node'[n] = [z EXCEPT !.status = "purging"] /\ \A x \in Nodes : x # n => node'[x] = node[x]
      BY DEF ClaimsOK
    <2>2. node'[n].parent = node[n].parent /\ node'[n].status = "purging"
      BY <2>1, RowMarked, Zenon
    <2> QED BY <2>1, <2>2 DEF Visible, RecycleRoot
  <1>2. \A x \in Nodes : Ancestors(x)' = Ancestors(x)
    <2>1. ASSUME NEW S \in SUBSET Nodes PROVE ParentClosed(S)' <=> ParentClosed(S)
      BY <1>1, Zenon DEF ParentClosed
    <2> QED BY <2>1, Zenon DEF Ancestors
  <1>3. r.node \in Nodes /\ r.parent \in Nodes \cup {None} /\ node'[r.node] = node[r.node]
    BY <1>1 DEF Req
  <1>4. ASSUME NEW p, ActiveDirectory(p) PROVE ActiveDirectory(p)' /\ p \in Nodes
    <2>1. p \in Nodes /\ node[p].dir /\ Visible(p)
      BY <1>4, Zenon DEF ActiveDirectory
    <2>2. p # n
      BY <2>1, Zenon DEF Visible, RecycleRoot
    <2> QED BY <1>1, <2>1, <2>2, Zenon DEF ActiveDirectory
  <1>5. ASSUME NEW p, NEW q, NameFree(p, q, r.node) PROVE NameFree(p, q, r.node)'
    <2> SUFFICES ASSUME NEW m \in Nodes \ {r.node}, Visible(m), node'[m].parent = p,
                        node'[m].name = q
                 PROVE  FALSE
      BY <1>1, Zenon DEF NameFree
    <2>1. m # n
      BY Zenon DEF Visible, RecycleRoot
    <2> QED BY <1>1, <1>5, <2>1, Zenon DEF NameFree
  <1>6. CASE r.op \in {"mkdir", "commit"} /\ CanCreate(r)
    BY <1>3, <1>4, <1>6, Zenon DEF Admitted, CanCreate, Exists
  <1>7. CASE r.op = "update" /\ CanUpdate(r)
    <2>1. /\ Visible(r.node)' /\ Current(r)' /\ r.node # Root
      BY <1>1, <1>3, <1>7, Zenon DEF CanUpdate, Current
    <2>2. ASSUME r.parent # None
          PROVE  ActiveDirectory(r.parent)' /\ (node'[r.node].dir => r.node \notin Ancestors(r.parent)')
      <3>1. ActiveDirectory(r.parent) /\ (node[r.node].dir => r.node \notin Ancestors(r.parent))
        BY <1>7, <2>2, Zenon DEF CanUpdate
      <3>2. ActiveDirectory(r.parent)' /\ r.parent \in Nodes
        BY <1>4, <3>1, Zenon
      <3> QED BY <1>2, <1>3, <3>1, <3>2, Zenon
    <2> QED BY <1>7, <2>1, <2>2, Zenon DEF Admitted, CanUpdate
  <1>8. CASE r.op = "recycle" /\ CanRecycle(r)
    BY <1>1, <1>3, <1>8, Zenon DEF Admitted, CanRecycle, Current
  <1>9. CASE r.op = "restore" /\ CanRestore(r)
    BY <1>3, <1>4, <1>5, <1>9, Zenon DEF Admitted, CanRestore, Current, RecycleRoot
  <1>10. CASE r.op = "purge" /\ CanPurge(r)
    BY <1>3, <1>10, Zenon DEF Admitted, CanPurge, Current, RecycleRoot
  <1> QED BY <1>6, <1>7, <1>8, <1>9, <1>10, Zenon DEF Admitted

LEMMA ClaimKeepsClaims ==
    ASSUME ClaimsOK, NEW w \in Workers, NEW n \in Nodes, ClaimRecycle(w, n)
    PROVE  ClaimsOK'
  <1> PICK x : x = [pc |-> "sent", op |-> "purge", node |-> n, seen |-> node[n],
                    parent |-> None, name |-> None, plan |-> {}, left |-> {}]
    BY Zenon
  <1> PICK z \in Row : z = node[n]
    BY DEF ClaimsOK
  <1>1. /\ RecycleRoot(n) /\ ~RowLocked(n) /\ req[w].pc = "idle" /\ SetReq(w, x)
        /\ node' = [node EXCEPT ![n].status = "purging"] /\ lock' = lock
    BY Zenon DEF ClaimRecycle, Claimable, Take
  <1>2. /\ w \in Actors /\ x \in Req
        /\ x.pc = "sent" /\ x.op = "purge" /\ x.node = n /\ x.seen = node[n]
    BY WorkersAssumption DEF Req, AllOps
  <1>3. /\ req' \in [Actors -> Req] /\ req'[w] = x
        /\ \A b \in Actors : b # w => req'[b] = req[b]
    BY <1>1, <1>2 DEF ClaimsOK, SetReq
  <1>4. /\ node'[n] = [z EXCEPT !.status = "purging"]
        /\ \A y \in Nodes : y # n => node'[y] = node[y]
        /\ node' \in [Nodes -> Row]
    BY <1>1, RowMarked DEF ClaimsOK
  <1>5. /\ node'[n].status = "purging" /\ node'[n].trash = n
        /\ node'[n].revision = node[n].revision
    BY <1>1, <1>4, RowMarked, Zenon DEF RecycleRoot
  <1>6. PurgeGoesOn
    BY <1>4, <1>5, Zenon DEF PurgeGoesOn
  <1>7. ASSUME NEW b \in Actors PROVE HeldOK(b)'
    <2>1. CASE b = w
      BY <1>2, <1>3, <2>1, Zenon DEF HeldOK
    <2>2. CASE b # w /\ req[b].pc = "locked"
      <3> PICK r \in Req : r = req[b]
        BY DEF ClaimsOK
      <3>1. lock = b /\ Admitted(r) /\ r.node # n
        BY <1>1, <2>2, Zenon DEF ClaimsOK, HeldOK, RowLocked
      <3>2. Admitted(r)'
        BY <1>1, <3>1, ClaimAdmits, Zenon
      <3> QED BY <1>1, <1>3, <2>2, <3>1, <3>2, Zenon DEF HeldOK
    <2>3. CASE b # w /\ req[b].pc # "locked"
      BY <1>3, <2>3, Zenon DEF HeldOK
    <2> QED BY <2>1, <2>2, <2>3, Zenon
  <1>8. ASSUME NEW v \in Workers PROVE ClaimOK(v)'
    <2>1. CASE v = w
      BY <1>2, <1>3, <1>5, <2>1, Zenon DEF ClaimOK
    <2>2. CASE v # w
      <3>1. v \in Actors /\ req'[v] = req[v] /\ ClaimOK(v)
        BY <1>3, <2>2, WorkersAssumption, Zenon DEF ClaimsOK
      <3>2. req[v].node \in Nodes
        BY <3>1 DEF ClaimsOK, Req
      <3> QED BY <1>6, <3>1, <3>2, Zenon DEF ClaimOK, PurgeGoesOn
    <2> QED BY <2>1, <2>2, Zenon
  <1> QED BY <1>3, <1>4, <1>7, <1>8, Zenon DEF ClaimsOK

-----------------------------------------------------------------------------
\* Every step of clients and workers keeps the claims.
LEMMA MaintenanceKeepsClaims == ClaimsOK /\ [MaintenanceNext]_allVars => ClaimsOK'
  <1> SUFFICES ASSUME ClaimsOK, [MaintenanceNext]_allVars PROVE ClaimsOK'
    OBVIOUS
  <1>1. ASSUME NEW a \in Actors \ Workers, ClientStep(a) PROVE ClaimsOK'
    <2>1. CASE RestoreEntry(a)
      BY <2>1, RestoreKeepsClaims, Zenon DEF RestoreEntry
    <2>2. CASE Finish(a)
      BY <2>2, FinishKeepsClaims, Zenon DEF Finish
    <2>3. CASE \E op \in Ops, n \in Nodes, p \in Nodes \cup {None}, q \in Names \cup {None} :
                  Send(a, op, n, p, q)
      BY <2>3, SendKeepsClaims, Zenon
    <2>4. CASE Lock(a)
      BY <2>4, LockKeepsClaims, Zenon
    <2>5. CASE CreateDirectory(a)
      BY <2>5, InsertKeepsClaims, Zenon DEF CreateDirectory, Locked
    <2>6. CASE CommitUpload(a)
      BY <2>6, InsertKeepsClaims, Zenon DEF CommitUpload, Locked
    <2>7. CASE UpdateNode(a)
      BY <2>7, UpdateKeepsClaims, Zenon
    <2>8. CASE Recycle(a)
      BY <2>8, RecycleKeepsClaims, Zenon
    <2>9. CASE PreparePurge(a)
      BY <2>9, PrepareKeepsClaims, Zenon
    <2>10. CASE \E x \in Nodes : DeleteObject(a, x)
      BY <2>10, DeleteKeepsClaims, Zenon
    <2>11. CASE RetryPurge(a)
      BY <2>11, RetryKeepsClaims, Zenon
    <2>12. CASE Leave(a)
      BY <2>12, LeaveKeepsClaims, Zenon
    <2> QED BY <1>1, <2>1, <2>2, <2>3, <2>4, <2>5, <2>6, <2>7, <2>8, <2>9, <2>10, <2>11, <2>12,
               Zenon DEF ClientStep
  <1>2. ASSUME NEW w \in Workers, Work(w) \/ ReleaseRecycle(w) \/ Crash(w) PROVE ClaimsOK'
    <2>0. w \in Actors
      BY WorkersAssumption, Zenon
    <2>1. CASE Finish(w)
      BY <2>0, <2>1, FinishKeepsClaims, Zenon DEF Finish
    <2>2. CASE Lock(w)
      BY <2>0, <2>2, LockKeepsClaims, Zenon
    <2>3. CASE PreparePurge(w)
      BY <2>0, <2>3, PrepareKeepsClaims, Zenon
    <2>4. CASE \E x \in Nodes : DeleteObject(w, x)
      BY <2>0, <2>4, DeleteKeepsClaims, Zenon
    <2>5. CASE Leave(w)
      BY <2>0, <2>5, LeaveKeepsClaims, Zenon
    <2> QED BY <1>2, <2>1, <2>2, <2>3, <2>4, <2>5, Zenon DEF Work, ReleaseRecycle, Crash
  <1>3. ASSUME UNCHANGED vars PROVE ClaimsOK'
    <2>1. node' = node /\ req' = req /\ lock' = lock
      BY <1>3, Zenon DEF vars
    <2>2. ASSUME NEW b \in Actors PROVE HeldOK(b)'
      <3> PICK r : r = req[b]
        BY Zenon
      <3>1. r.pc = "locked" => lock = b /\ Admitted(r)
        BY Zenon DEF ClaimsOK, HeldOK
      <3>2. Admitted(r) => Admitted(r)'
        BY <2>1, AdmittedStable, Zenon
      <3> QED BY <2>1, <3>1, <3>2, Zenon DEF HeldOK
    <2>3. ASSUME NEW w \in Workers PROVE ClaimOK(w)'
      BY <2>1, Zenon DEF ClaimsOK, ClaimOK
    <2> QED BY <2>1, <2>2, <2>3, Zenon DEF ClaimsOK
  <1>4. CASE UNCHANGED vars
    BY <1>3, <1>4, Zenon
  <1>5. CASE MaintenanceNext
    <2>1. CASE \E n \in Nodes : Age(n) \/ LeaseEnds(n) \/ BackoffEnds(n)
      BY <2>1, <1>3, Zenon DEF Age, LeaseEnds, BackoffEnds
    <2> QED BY <1>1, <1>2, <1>5, <2>1, ClaimKeepsClaims, Zenon DEF MaintenanceNext
  <1> QED BY <1>4, <1>5, Zenon DEF allVars

LEMMA ClaimsStart == MaintenanceInit => ClaimsOK
  <1> SUFFICES ASSUME MaintenanceInit PROVE ClaimsOK
    OBVIOUS
  <1>1. IInv
    BY InitOK, Zenon DEF MaintenanceInit
  <1>2. /\ node \in [Nodes -> Row] /\ req \in [Actors -> Req]
        /\ \A a \in Actors : req[a].pc = "idle"
    BY <1>1, Zenon DEF IInv, TypeOK, MaintenanceInit, Init, Idle
  <1> QED BY <1>2, WorkersAssumption, Zenon DEF ClaimsOK, HeldOK, ClaimOK

\* A claim cannot be undone, for any number of workers, clients and entries:
\* from ClaimRecycle on the entry passes the checks of PreparePurge, whatever
\* restores, purges, failing calls, crashes and lapsed leases come between.
THEOREM ClaimsHold == MaintenanceSpec => []ClaimHolds
  <1>1. ClaimsOK => ClaimHolds
    <2> SUFFICES ASSUME ClaimsOK, NEW w \in Workers, req[w].pc \in {"sent", "locked"}
                 PROVE  Admitted(req[w])
      BY Zenon DEF ClaimHolds
    <2>1. ClaimOK(w) /\ req[w].pc # "idle"
      BY Zenon DEF ClaimsOK
    <2> QED BY <2>1, Zenon DEF ClaimOK, Admitted, CanPurge, RecycleRoot, Current
  <1> QED BY <1>1, ClaimsStart, MaintenanceKeepsClaims, PTL DEF MaintenanceSpec
=============================================================================
