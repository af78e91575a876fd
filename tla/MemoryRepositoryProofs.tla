----------------------- MODULE MemoryRepositoryProofs -----------------------
(***************************************************************************)
(* Proofs that the in-memory repository keeps the content of every visible *)
(* file and implements DriveTree and UploadLifecycle, for any finite set   *)
(* of nodes and any names, sessions and part lists.                        *)
(*                                                                         *)
(* The two loops of the code, up the parents (isDescendant) and down the   *)
(* visible children (activeSubtree), are recursive functions.  They are    *)
(* shown to compute least closed sets, the first because every node is     *)
(* below the root (Rooted), the second because there are finitely many     *)
(* nodes; from there on no induction is needed.                            *)
(***************************************************************************)
EXTENDS MemoryRepository, FiniteSetTheorems, TLAPS

-----------------------------------------------------------------------------
\* Going up a parent function f: sets closed under f, and "every way up from x
\* meets the root".

Closed(f, S) == \A y \in S : f[y] # None => f[y] \in S
Up(f, x) == \A S \in SUBSET Nodes : (x \in S /\ Closed(f, S)) => Root \in S
Par == [n \in Nodes |-> nodes[n].parent]

-----------------------------------------------------------------------------
\* The inductive invariant

\* Which statuses go with which entry of the recycle bin.
StatusOK(n) ==
    LET r == nodes[n].trash IN
    /\ nodes[n].status = "absent" => nodes[n] = Absent
    /\ nodes[n].status = "active" => r # n
    /\ nodes[n].status = "trashed" => r = n
    /\ nodes[n].status = "purging" => r # None /\ nodes[r].status = "purging"
    /\ r # None => nodes[r].trash = r /\ nodes[r].status \in {"trashed", "purging"}
    /\ r = n => nodes[n].origin = nodes[n].parent

\* Where a node lies: in a directory, and in the entry of that directory unless
\* it is an entry itself.
PlaceOK(n) ==
    nodes[n].status # "absent" /\ n # Root =>
        /\ nodes[n].parent \in Nodes /\ nodes[n].name \in Names
        /\ nodes[nodes[n].parent].dir
        /\ nodes[n].trash # n => nodes[nodes[n].parent].trash = nodes[n].trash

\* A file has its content until the purge of its entry begins.
ContentOK(n) ==
    /\ nodes[n].status # "absent" /\ ~nodes[n].dir
    /\ nodes[n].trash = None \/ nodes[nodes[n].trash].status = "trashed"
    => blobs[n] = "available" /\ n \in objects

RootOK ==
    /\ visible(Root) /\ nodes[Root].dir
    /\ nodes[Root].parent = None /\ nodes[Root].name = None

Rooted == \A n \in Nodes : nodes[n].status # "absent" => Up(Par, n)

\* A plan is about an entry whose purge has begun.
PlanOK(p) ==
    /\ nodes[p.root].trash = p.root /\ nodes[p.root].status = "purging"
    /\ p.left \subseteq p.blobs
    /\ \A x \in p.blobs : nodes[x].trash = p.root

TreeOK ==
    /\ nodes \in [Nodes -> Row]
    /\ blobs \in [Nodes -> {"none", "available", "pending_delete", "deleted"}]
    /\ objects \in SUBSET Nodes /\ finished \in SUBSET Nodes
    /\ plans \in SUBSET Plan
    /\ \A n \in Nodes : StatusOK(n) /\ PlaceOK(n) /\ ContentOK(n)
    /\ RootOK /\ Rooted
    /\ \A p \in plans : PlanOK(p)

\* The statuses that come after a part list.
Frozen == {"completing", "object_completed", "committed", "failed"}

\* What a session has when.  What a claim saw still binds what it may write.
Good(s) ==
    /\ s.status # "absent" /\ s.parent \in Nodes /\ s.name \in Names
    /\ s.status \in Frozen \/ s.claim \in Frozen => s.digest # NoDigest
    /\ s.status = "committed" \/ s.claim = "committed" => s.node # None
    /\ s.node # None /\ s.claim = "never" => s.status = "committed"

\* ... and that its file is a node in use.
SessionOK(u) ==
    /\ uploads[u].status = "absent" => uploads[u] = NoUpload
    /\ uploads[u].status # "absent" => Good(uploads[u])
    /\ uploads[u].node # None => /\ nodes[uploads[u].node].status # "absent"
                                 /\ nodes[uploads[u].node].dir = FALSE

UploadsOK ==
    /\ uploads \in [Uploads -> Session]
    /\ \A u \in Uploads : SessionOK(u)
    /\ \A u, v \in Uploads :
         u # v /\ uploads[u].node # None => uploads[v].node # uploads[u].node

IInv == TreeOK /\ UploadsOK

LEMMA IsTyped == IInv => MemoryTypeOK
  <1> SUFFICES ASSUME IInv PROVE MemoryTypeOK
    BY Zenon
  <1>1. ASSUME NEW u \in Uploads
        PROVE  /\ uploads[u].status \in Frozen => uploads[u].digest # NoDigest
               /\ uploads[u].status = "committed" => uploads[u].node # None
               /\ uploads[u].node # None /\ uploads[u].claim = "never"
                    => uploads[u].status = "committed"
    <2>1. CASE uploads[u].status = "absent"
      <3>1. uploads[u] = NoUpload
        BY <2>1, Zenon DEF IInv, UploadsOK, SessionOK
      <3>2. NoUpload.node = None
        BY Zenon DEF NoUpload
      <3> QED BY <2>1, <3>1, <3>2, Zenon DEF Frozen
    <2>2. CASE uploads[u].status # "absent"
      BY <2>2, Zenon DEF IInv, UploadsOK, SessionOK, Good
    <2> QED BY <2>1, <2>2, Zenon
  <1> QED BY <1>1, Zenon DEF IInv, TreeOK, UploadsOK, MemoryTypeOK, Frozen

-----------------------------------------------------------------------------
\* The walk up

Above(n) == {x \in Nodes : \A S \in SUBSET Nodes : (n \in S /\ Closed(Par, S)) => x \in S}

LEMMA AboveClosed ==
    ASSUME nodes \in [Nodes -> Row], NEW n \in Nodes
    PROVE  n \in Above(n) /\ Closed(Par, Above(n)) /\ Above(n) \in SUBSET Nodes
  <1>1. ASSUME NEW y \in Above(n), Par[y] # None PROVE Par[y] \in Above(n)
    <2>1. y \in Nodes /\ Par[y] \in Nodes
      BY <1>1, Zenon DEF Above, Par, Row
    <2> SUFFICES ASSUME NEW S \in SUBSET Nodes, n \in S, Closed(Par, S) PROVE Par[y] \in S
      BY <2>1, Zenon DEF Above
    <2>2. y \in S
      BY Zenon DEF Above
    <2> QED BY <1>1, <2>2, Zenon DEF Closed
  <1> QED BY <1>1, Zenon DEF Closed, Above

\* What lies above y lies above its parent, y itself apart.
LEMMA AboveParent ==
    ASSUME nodes \in [Nodes -> Row], NEW y \in Nodes, NEW p \in Nodes, p = nodes[y].parent
    PROVE  Above(y) = {y} \cup Above(p)
  <1>1. /\ p \in Above(p) /\ Closed(Par, Above(p)) /\ Above(p) \in SUBSET Nodes
        /\ y \in Above(y) /\ Closed(Par, Above(y)) /\ Above(y) \in SUBSET Nodes
        /\ Par[y] = p /\ p # None
    BY AboveClosed, NodesAssumption, Zenon DEF Par
  <1>2. Above(y) \subseteq {y} \cup Above(p)
    <2> DEFINE S == {y} \cup Above(p)
    <2>1. S \in SUBSET Nodes /\ y \in S /\ Closed(Par, S)
      BY <1>1, Zenon DEF Closed
    <2> QED BY <2>1, Zenon DEF Above
  <1>3. Above(p) \subseteq Above(y)
    <2>1. p \in Above(y)
      BY <1>1, Zenon DEF Closed
    <2> QED BY <1>1, <2>1, Zenon DEF Above
  <1> QED BY <1>1, <1>2, <1>3, Zenon

\* The tree has no cycle: in every set of nodes one has its parent outside.
LEMMA Forest ==
    ASSUME TreeOK, NEW S \in SUBSET Nodes, S # {}
    PROVE  \E x \in S : nodes[x].parent \notin S
  <1> SUFFICES ASSUME \A x \in S : nodes[x].parent \in S PROVE FALSE
    BY Zenon
  <1>1. Closed(Par, S)
    BY Zenon DEF Closed, Par
  <1>2. PICK x \in S : TRUE
    BY Zenon
  <1>3. nodes[x].status # "absent"
    <2>1. nodes[x].parent # None
      BY NodesAssumption, Zenon
    <2>2. Absent.parent = None
      BY Zenon DEF Absent
    <2> QED BY <2>1, <2>2, Zenon DEF TreeOK, StatusOK
  <1>4. Root \in S
    BY <1>1, <1>2, <1>3, Zenon DEF TreeOK, Rooted, Up
  <1> QED BY <1>4, NodesAssumption, Zenon DEF TreeOK, RootOK

WalkBody(f, a) ==
    [x \in Nodes |-> x = a \/ (nodes[x].parent # None /\ f[nodes[x].parent])]

\* The loop over the parents is well defined ...
LEMMA WalkExists ==
    ASSUME nodes \in [Nodes -> Row], NEW a \in Nodes
    PROVE  \E f : f = WalkBody(f, a)
  <1> DEFINE f == [x \in Nodes |-> a \in Above(x)]
  <1>1. ASSUME NEW x \in Nodes
        PROVE  f[x] <=> x = a \/ (nodes[x].parent # None /\ f[nodes[x].parent])
    <2>1. CASE nodes[x].parent = None
      <3>1. Closed(Par, {x}) /\ {x} \in SUBSET Nodes
        BY <2>1, Zenon DEF Closed, Par
      <3>2. Above(x) = {x}
        BY <3>1, AboveClosed, Zenon DEF Above
      <3> QED BY <2>1, <3>2, Zenon
    <2>2. CASE nodes[x].parent # None
      <3> PICK p \in Nodes : p = nodes[x].parent
        BY <2>2, Zenon DEF Row
      <3>1. Above(x) = {x} \cup Above(p)
        BY AboveParent, Zenon
      <3> QED BY <2>2, <3>1, Zenon
    <2> QED BY <2>1, <2>2, Zenon
  <1> DEFINE g == WalkBody(f, a)
  <1>2. ASSUME NEW x \in Nodes PROVE f[x] = g[x]
    <2>1. f[x] \in BOOLEAN
      BY SMT
    <2> HIDE DEF f
    <2>2. g[x] = (x = a \/ (nodes[x].parent # None /\ f[nodes[x].parent]))
      BY Zenon DEF WalkBody
    <2>3. f[x] <=> x = a \/ (nodes[x].parent # None /\ f[nodes[x].parent])
      BY <1>1, Zenon
    <2> QED BY <2>1, <2>2, <2>3
  <1>3. f = g
    <2>1. /\ DOMAIN f = Nodes /\ DOMAIN g = Nodes
          /\ f = [x \in Nodes |-> f[x]] /\ g = [x \in Nodes |-> g[x]]
      BY Zenon DEF WalkBody
    <2> HIDE DEF f, g
    <2> QED BY <1>2, <2>1
  <1> QED BY <1>3, Zenon

\* ... and finds what is above: were it to answer yes for no reason, it would
\* never have ended.
LEMMA WalkFinds ==
    ASSUME TreeOK, NEW a \in Nodes, NEW f, f = WalkBody(f, a), NEW n \in Nodes
    PROVE  f[n] <=> a \in Above(n)
  <1>0. \A x \in Nodes : f[x] = (x = a \/ (nodes[x].parent # None /\ f[nodes[x].parent]))
    BY Zenon DEF WalkBody
  <1>t. nodes \in [Nodes -> Row]
    BY Zenon DEF TreeOK
  <1>1. ASSUME a \in Above(n), ~f[n] PROVE FALSE
    <2> DEFINE S == {x \in Nodes : ~f[x]}
    <2>1. ASSUME NEW x \in S, Par[x] # None PROVE Par[x] \in S
      <3>1. Par[x] = nodes[x].parent /\ nodes[x].parent \in Nodes
        BY <1>t, <2>1, Zenon DEF Par, Row
      <3> QED BY <1>0, <2>1, <3>1, Zenon
    <2>2. S \in SUBSET Nodes /\ n \in S /\ Closed(Par, S)
      BY <1>1, <2>1, Zenon DEF Closed
    <2>3. a \in S
      BY <1>1, <2>2, Zenon DEF Above
    <2> QED BY <1>0, <2>3, Zenon
  <1>2. ASSUME f[n], a \notin Above(n) PROVE FALSE
    <2> DEFINE S == {x \in Above(n) : f[x]}
    <2>1. S \in SUBSET Nodes /\ S # {} /\ Above(n) \in SUBSET Nodes /\ Closed(Par, Above(n))
      BY <1>t, <1>2, AboveClosed, Zenon
    <2>2. PICK x \in S : nodes[x].parent \notin S
      BY <2>1, Forest, Zenon
    <2>a. x \in Nodes /\ x # a /\ f[x]
      BY <1>2, <2>1, <2>2, Zenon
    <2>3. x \in Nodes /\ nodes[x].parent # None /\ f[nodes[x].parent]
      BY <1>0, <2>a, Zenon
    <2>4. nodes[x].parent \in Above(n)
      BY <2>1, <2>2, <2>3, Zenon DEF Closed, Par
    <2> QED BY <2>2, <2>3, <2>4, Zenon
  <1> QED BY <1>1, <1>2, Zenon

LEMMA DescendantIsBelow ==
    ASSUME TreeOK, NEW c \in Nodes, NEW a \in Nodes
    PROVE  isDescendant(c, a) <=> a \in Above(c)
  <1> DEFINE walk[x \in Nodes] == x = a \/ (nodes[x].parent # None /\ walk[nodes[x].parent])
  <1>1. walk = WalkBody(walk, a)
    BY WalkExists, Zenon DEF WalkBody, TreeOK
  <1>2. isDescendant(c, a) <=> walk[c]
    BY Zenon DEF isDescendant
  <1> HIDE DEF walk
  <1> QED BY <1>1, <1>2, WalkFinds, Zenon

-----------------------------------------------------------------------------
\* The walk down

Hanging(S) == \A y \in Nodes : visible(y) /\ nodes[y].parent \in S => y \in S
Below(B) == {x \in Nodes : \A S \in SUBSET Nodes : (B \subseteq S /\ Hanging(S)) => x \in S}
More(S) == S \cup {x \in Nodes : visible(x) /\ nodes[x].parent \in S}

LEMMA BelowMore ==
    ASSUME NEW B \in SUBSET Nodes
    PROVE  /\ More(B) \in SUBSET Nodes /\ B \subseteq More(B)
           /\ More(B) = B => Below(B) = B
           /\ Below(More(B)) = Below(B)
  <1>1. More(B) \in SUBSET Nodes /\ B \subseteq More(B)
    BY Zenon DEF More
  <1>2. ASSUME More(B) = B PROVE Below(B) = B
    <2>1. Hanging(B)
      BY <1>2, Zenon DEF Hanging, More
    <2> QED BY <2>1, Zenon DEF Below
  <1>3. ASSUME NEW S \in SUBSET Nodes, Hanging(S) PROVE B \subseteq S <=> More(B) \subseteq S
    BY <1>3, Zenon DEF Hanging, More
  <1>4. Below(More(B)) = Below(B)
    BY <1>3, Zenon DEF Below
  <1> QED BY <1>1, <1>2, <1>4, Zenon

GrowBody(f) == [S \in SUBSET Nodes |-> IF More(S) = S THEN S ELSE f[More(S)]]

\* The loop over the children is well defined ...
LEMMA GrowExists == \E f : f = GrowBody(f)
  <1> DEFINE f == [S \in SUBSET Nodes |-> Below(S)]
  <1>1. ASSUME NEW S \in SUBSET Nodes PROVE f[S] = IF More(S) = S THEN S ELSE f[More(S)]
    BY BelowMore, Zenon
  <1>2. f = GrowBody(f)
    BY <1>1, Zenon DEF GrowBody
  <1> QED BY <1>2, Zenon

\* ... and there is no largest set of nodes for which it answers anything but
\* what is below.
LEMMA GrowFinds ==
    ASSUME NEW f, f = GrowBody(f), NEW B \in SUBSET Nodes
    PROVE  f[B] = Below(B)
  <1>0. \A S \in SUBSET Nodes : f[S] = IF More(S) = S THEN S ELSE f[More(S)]
    BY Zenon DEF GrowBody
  <1> SUFFICES ASSUME f[B] # Below(B) PROVE FALSE
    BY Zenon
  <1> DEFINE Wrong == {S \in SUBSET Nodes : f[S] # Below(S)}
             T == {R \in SUBSET Nodes : Nodes \ R \in Wrong}
  <1>1. T \subseteq FiniteSubsetsOf(Nodes)
    BY NodesAssumption, FS_FiniteSubsetsOfFinite, Zenon
  <1>2. T # {}
    <2>1. Nodes \ (Nodes \ B) = B
      BY Zenon
    <2> QED BY <2>1, Zenon
  <1>3. PICK R \in T : \A Q \in T : <<Q, R>> \notin StrictSubsetOrdering(Nodes)
    <2> HIDE DEF T
    <2> QED BY <1>1, <1>2, FS_StrictSubsetOrderingWellFounded, WFMin, Zenon
  <1>4. PICK S \in Wrong : S = Nodes \ R
    BY Zenon
  <1>5. S \in SUBSET Nodes /\ f[S] # Below(S)
    BY Zenon
  <1>6. More(S) # S /\ f[More(S)] # Below(More(S)) /\ More(S) \in SUBSET Nodes /\ S \subseteq More(S)
    BY <1>0, <1>5, BelowMore, Zenon
  <1> DEFINE Q == Nodes \ More(S)
  <1>7. Q \in SUBSET Nodes /\ Q \subseteq R /\ Q # R /\ Nodes \ Q = More(S)
    BY <1>4, <1>5, <1>6
  <1>8. Q \in T
    <2> HIDE DEF Q
    <2> QED BY <1>6, <1>7, Zenon
  <1>9. <<Q, R>> \in StrictSubsetOrdering(Nodes)
    <2>1. R \in SUBSET Nodes
      BY Zenon
    <2> HIDE DEF Q, T
    <2> QED BY <1>7, <2>1 DEF StrictSubsetOrdering
  <1> QED BY <1>3, <1>8, <1>9, Zenon

\* What Recycle takes along: a connected visible tree that holds every visible
\* child of its nodes.
LEMMA SubtreeIsBelow ==
    ASSUME NEW n \in Nodes
    PROVE  activeSubtree(n) = Below({n})
  <1> DEFINE grow[S \in SUBSET Nodes] ==
               LET more == S \cup {x \in Nodes : visible(x) /\ nodes[x].parent \in S}
               IN  IF more = S THEN S ELSE grow[more]
  <1>1. grow = GrowBody(grow)
    BY GrowExists, Zenon DEF GrowBody, More
  <1>2. activeSubtree(n) = grow[{n}]
    BY Zenon DEF activeSubtree
  <1>3. {n} \in SUBSET Nodes
    BY Zenon
  <1> HIDE DEF grow
  <1> QED BY <1>1, <1>2, <1>3, GrowFinds, Zenon

LEMMA SubtreeOK ==
    ASSUME NEW n \in Nodes
    PROVE  /\ n \in activeSubtree(n)
           /\ activeSubtree(n) \in SUBSET Nodes
           /\ Hanging(activeSubtree(n))
           /\ \A x \in activeSubtree(n) :
                x # n => visible(x) /\ nodes[x].parent \in activeSubtree(n)
  <1> PICK T : T = Below({n})
    BY Zenon
  <1>1. n \in T /\ T \in SUBSET Nodes
    BY Zenon DEF Below
  <1>2. ASSUME NEW y \in Nodes, visible(y), nodes[y].parent \in T PROVE y \in T
    <2> SUFFICES ASSUME NEW S \in SUBSET Nodes, {n} \subseteq S, Hanging(S) PROVE y \in S
      BY Zenon DEF Below
    <2>1. nodes[y].parent \in S
      BY <1>2, Zenon DEF Below
    <2> QED BY <1>2, <2>1, Zenon DEF Hanging
  <1>3. ASSUME NEW x \in T, x # n PROVE visible(x) /\ nodes[x].parent \in T
    <2> DEFINE S == T \ {x}
    <2>1. S \in SUBSET Nodes /\ {n} \subseteq S /\ x \notin S
      BY <1>1, <1>3, Zenon
    <2>2. ~Hanging(S)
      BY <2>1, Zenon DEF Below
    <2>3. PICK y \in Nodes : visible(y) /\ nodes[y].parent \in S /\ y \notin S
      BY <2>2, Zenon DEF Hanging
    <2>4. y = x
      BY <1>2, <2>3, Zenon
    <2> QED BY <2>3, <2>4, Zenon
  <1> QED BY <1>1, <1>2, <1>3, SubtreeIsBelow, Zenon DEF Hanging

-----------------------------------------------------------------------------
\* Moving a node

\* What lies above p stays above it when a node that is not above p moves there.
LEMMA UpMoved ==
    ASSUME NEW f, NEW g, NEW n \in Nodes, NEW p \in Nodes, NEW x \in Nodes,
           f \in [Nodes -> Nodes \cup {None}],
           g = [f EXCEPT ![n] = p],
           Up(f, x), Up(f, p),
           NEW U \in SUBSET Nodes, p \in U, Closed(f, U), n \notin U
    PROVE  Up(g, x)
  <1> SUFFICES ASSUME NEW S \in SUBSET Nodes, x \in S, Closed(g, S) PROVE Root \in S
    BY Zenon DEF Up
  <1>0. (\A y \in Nodes : y # n => g[y] = f[y]) /\ g[n] = p /\ p # None
    BY NodesAssumption, Zenon
  <1>1. CASE p \in S
    <2>1. p \in S \cap U /\ S \cap U \in SUBSET Nodes /\ Closed(f, S \cap U)
      BY <1>0, <1>1, Zenon DEF Closed
    <2> QED BY <2>1, Zenon DEF Up
  <1>2. CASE p \notin S
    <2>1. n \notin S
      BY <1>0, <1>2, Zenon DEF Closed
    <2>2. Closed(f, S)
      BY <1>0, <2>1, Zenon DEF Closed
    <2> QED BY <2>2, Zenon DEF Up
  <1> QED BY <1>1, <1>2, Zenon

\* A node that had no parent gets one.
LEMMA UpAdded ==
    ASSUME NEW f, NEW g, NEW n \in Nodes, NEW p \in Nodes, NEW x \in Nodes,
           f \in [Nodes -> Nodes \cup {None}],
           g = [f EXCEPT ![n] = p],
           f[n] = None, Up(f, p), x # n => Up(f, x)
    PROVE  Up(g, x)
  <1> SUFFICES ASSUME NEW S \in SUBSET Nodes, x \in S, Closed(g, S) PROVE Root \in S
    BY Zenon DEF Up
  <1>0. (\A y \in Nodes : y # n => g[y] = f[y]) /\ g[n] = p /\ p # None
    BY NodesAssumption, Zenon
  <1>1. Closed(f, S)
    BY <1>0, Zenon DEF Closed
  <1>2. CASE x = n
    <2>1. p \in S
      BY <1>0, <1>2, Zenon DEF Closed
    <2> QED BY <1>1, <2>1, Zenon DEF Up
  <1>3. CASE x # n
    BY <1>1, <1>3, Zenon DEF Up
  <1> QED BY <1>2, <1>3, Zenon

-----------------------------------------------------------------------------
\* The steps of the tree

\* What a step of the tree has to show: nodes in use stay in use, files are files.
InUse ==
    \A x \in Nodes : nodes[x].status # "absent"
                      => nodes'[x].status # "absent" /\ nodes'[x].dir = nodes[x].dir

TreeStepOK == TreeOK' /\ InUse

LEMMA Fields ==
    ASSUME TreeOK, NEW x \in Nodes
    PROVE  /\ nodes[x] \in Row
           /\ nodes[x].parent \in Nodes \cup {None} /\ nodes[x].trash \in Nodes \cup {None}
           /\ StatusOK(x) /\ PlaceOK(x) /\ ContentOK(x)
           /\ None \notin Nodes
  <1>1. nodes[x] \in Row /\ StatusOK(x) /\ PlaceOK(x) /\ ContentOK(x)
    BY Zenon DEF TreeOK
  <1> QED BY <1>1, NodesAssumption, Zenon DEF Row

LEMMA AbsentFields ==
    /\ Absent \in Row
    /\ Absent.parent = None /\ Absent.dir = FALSE /\ Absent.name = None
    /\ Absent.status = "absent" /\ Absent.trash = None /\ Absent.revision = 0
  BY NodesAssumption, BoundAssumption DEF Absent, Row

\* Rooted only looks at parents and at which nodes are in use.
LEMMA RootedSame ==
    ASSUME TreeOK,
           \A x \in Nodes : /\ nodes'[x].parent = nodes[x].parent
                            /\ nodes'[x].status # "absent" => nodes[x].status # "absent"
    PROVE  Rooted'
  <1>1. Par' = Par
    BY Zenon DEF Par
  <1> QED BY <1>1, Zenon DEF TreeOK, Rooted

\* A new directory or file.
LEMMA InsertOK ==
    ASSUME TreeOK, NEW n \in Nodes, NEW p \in Nodes, NEW q \in Names, NEW d \in BOOLEAN,
           fresh(n), activeDirectory(p), Insert(n, p, q, d), UNCHANGED <<plans, finished>>,
           blobs' \in [Nodes -> {"none", "available", "pending_delete", "deleted"}],
           objects' \in SUBSET Nodes,
           \A x \in Nodes \ {n} : blobs'[x] = blobs[x] /\ (x \in objects => x \in objects'),
           d = FALSE => blobs'[n] = "available" /\ n \in objects'
    PROVE  TreeStepOK
  <1> DEFINE new == [Absent EXCEPT !.parent = p, !.name = q, !.dir = d,
                                   !.status = "active", !.revision = 1]
  <1>0. 1 \in 0 .. MaxRevision
    BY BoundAssumption
  <1>1. /\ new \in Row /\ new.parent = p /\ new.name = q /\ new.dir = d
        /\ new.status = "active" /\ new.trash = None
    BY <1>0, Zenon DEF Absent, Row
  <1>2. nodes' = [nodes EXCEPT ![n] = new]
    BY Zenon DEF Insert
  <1> HIDE DEF new
  <1>3. /\ nodes' \in [Nodes -> Row] /\ nodes'[n] = new
        /\ \A x \in Nodes : x # n => nodes'[x] = nodes[x]
    BY <1>1, <1>2, Zenon DEF TreeOK
  <1>4. nodes[n] = Absent /\ n # Root /\ nodes[n].status = "absent"
    BY Zenon DEF TreeOK, StatusOK, fresh, RootOK, visible
  <1>5. p # n /\ nodes[p].dir /\ nodes[p].trash = None /\ nodes[p].status = "active"
    BY <1>4, Zenon DEF activeDirectory, visible
  <1>6. ASSUME NEW x \in Nodes, x # n
        PROVE  /\ nodes[x].trash # n
               /\ nodes[x].status # "absent" => nodes[x].parent # n
    <2>1. nodes[n].trash = None /\ nodes[n].dir = FALSE /\ n # None
      BY <1>4, AbsentFields, NodesAssumption, Zenon
    <2>2. ASSUME nodes[x].trash = n PROVE FALSE
      <3>1. nodes[n].trash = n
        BY <2>1, <2>2, Fields, Zenon DEF StatusOK
      <3> QED BY <2>1, <3>1, Zenon
    <2>3. CASE x = Root
      BY <2>1, <2>2, <2>3, Zenon DEF TreeOK, RootOK
    <2>4. CASE x # Root
      BY <2>1, <2>2, <2>4, Fields, Zenon DEF PlaceOK
    <2> QED BY <2>3, <2>4, Zenon
  <1>7. ASSUME NEW x \in Nodes PROVE StatusOK(x)' /\ PlaceOK(x)' /\ ContentOK(x)'
    <2>1. CASE x = n
      <3>1. StatusOK(n)'
        BY <1>1, <1>3, NodesAssumption, Zenon DEF StatusOK
      <3>2. PlaceOK(n)'
        BY <1>1, <1>3, <1>5, Zenon DEF PlaceOK
      <3>3. ContentOK(n)'
        BY <1>1, <1>3, Zenon DEF ContentOK
      <3> QED BY <2>1, <3>1, <3>2, <3>3, Zenon
    <2>2. CASE x # n
      <3>0. /\ nodes'[x] = nodes[x] /\ StatusOK(x) /\ PlaceOK(x) /\ ContentOK(x)
            /\ nodes[x].trash \in Nodes \cup {None} /\ nodes[x].parent \in Nodes \cup {None}
            /\ nodes[x].trash # None => nodes'[nodes[x].trash] = nodes[nodes[x].trash]
            /\ nodes[x].status # "absent" /\ nodes[x].parent \in Nodes
                 => nodes'[nodes[x].parent] = nodes[nodes[x].parent]
        BY <1>3, <1>6, <2>2, Fields, Zenon
      <3>1. StatusOK(x)'
        BY <3>0, Zenon DEF StatusOK
      <3>2. PlaceOK(x)'
        BY <3>0, Zenon DEF PlaceOK
      <3>3. ContentOK(x)'
        BY <2>2, <3>0, Zenon DEF ContentOK
      <3> QED BY <3>1, <3>2, <3>3, Zenon
    <2> QED BY <2>1, <2>2, Zenon
  <1>8. RootOK'
    BY <1>3, <1>4, NodesAssumption, Zenon DEF TreeOK, RootOK, visible
  <1>9. Rooted'
    <2>1. /\ Par \in [Nodes -> Nodes \cup {None}] /\ Par[n] = None
          /\ Par' = [Par EXCEPT ![n] = p]
      BY <1>1, <1>3, <1>4, Fields, AbsentFields, Zenon DEF Par
    <2>2. Up(Par, p) /\ \A x \in Nodes : x # n /\ nodes'[x].status # "absent" => Up(Par, x)
      BY <1>3, <1>5, Zenon DEF TreeOK, Rooted
    <2>3. ASSUME NEW x \in Nodes, nodes'[x].status # "absent" PROVE Up(Par', x)
      <3> PICK f, g : f = Par /\ g = Par'
        BY Zenon
      <3> QED BY <2>1, <2>2, <2>3, UpAdded, Zenon
    <2> QED BY <2>3, Zenon DEF Rooted
  <1>10. \A y \in plans' : PlanOK(y)'
    <2> SUFFICES ASSUME NEW y \in plans PROVE PlanOK(y)'
      BY Zenon
    <2>1. PlanOK(y) /\ y.root \in Nodes /\ y.blobs \in SUBSET Nodes
      BY Zenon DEF TreeOK, Plan
    <2>2. y.root # n /\ \A x \in y.blobs : x # n
      <3>1. nodes[y.root].trash # None /\ \A x \in y.blobs : nodes[x].trash # None
        BY <2>1, NodesAssumption, Zenon DEF PlanOK
      <3>2. nodes[n].trash = None
        BY <1>4, AbsentFields, Zenon
      <3> QED BY <3>1, <3>2, Zenon
    <2> QED BY <1>3, <2>1, <2>2, Zenon DEF PlanOK
  <1>11. InUse
    BY <1>3, <1>4, Zenon DEF InUse
  <1> QED
    BY <1>3, <1>7, <1>8, <1>9, <1>10, <1>11, Zenon DEF TreeOK, TreeStepOK

\* A new name, a new parent or both.  The record keeps everything else.
Moved(r, p, q) == [r EXCEPT !.parent = p, !.name = q, !.revision = @ + 1]

LEMMA RowMoved ==
    ASSUME NEW r \in Row, NEW p \in Nodes, NEW q \in Names, r.revision < MaxRevision
    PROVE  /\ Moved(r, p, q) \in Row
           /\ Moved(r, p, q).parent = p /\ Moved(r, p, q).name = q
           /\ Moved(r, p, q).dir = r.dir /\ Moved(r, p, q).status = r.status
           /\ Moved(r, p, q).trash = r.trash
  <1>1. r.revision + 1 \in 0 .. MaxRevision
    BY BoundAssumption DEF Row
  <1> QED BY <1>1, Zenon DEF Row, Moved

\* A file has nothing below it.
LEMMA FileNotAbove ==
    ASSUME TreeOK, NEW n \in Nodes, nodes[n].dir = FALSE, NEW p \in Nodes, p # n
    PROVE  n \notin Above(p)
  <1> DEFINE S == Nodes \ {n}
  <1>1. ASSUME NEW y \in S, Par[y] # None PROVE Par[y] \in S
    <2>1. Par[y] = nodes[y].parent /\ y \in Nodes
      BY Zenon DEF Par
    <2>2. nodes[y].status # "absent" /\ y # Root
      <3>1. nodes[y].parent # None
        BY <1>1, <2>1, Zenon
      <3>2. nodes[y].status # "absent"
        BY <2>1, <3>1, Fields, AbsentFields, Zenon DEF StatusOK
      <3> QED BY <3>1, <3>2, Zenon DEF TreeOK, RootOK
    <2>3. nodes[y].parent \in Nodes /\ nodes[nodes[y].parent].dir
      BY <2>1, <2>2, Fields, Zenon DEF PlaceOK
    <2> QED BY <2>1, <2>3, Zenon
  <1>2. S \in SUBSET Nodes /\ p \in S /\ Closed(Par, S)
    BY <1>1, Zenon DEF Closed
  <1> QED BY <1>2, Zenon DEF Above

\* What UpdateNode writes: p and q are the parent and the name n has from now on.
LEMMA UpdateWrites ==
    ASSUME TreeOK, NEW n \in Nodes, NEW rev \in 1 .. MaxRevision,
           NEW pp \in Nodes \cup {None}, NEW qq \in Names \cup {None},
           UpdateNode(n, rev, pp, qq)
    PROVE  \E p \in Nodes, q \in Names :
             /\ nodes' = [nodes EXCEPT ![n] = Moved(nodes[n], p, q)]
             /\ nodes[n].revision < MaxRevision /\ n # Root /\ visible(n)
             /\ ~nameExists(p, q, n)
             /\ pp = None => p = nodes[n].parent
             /\ pp # None => /\ p = pp /\ activeDirectory(p)
                             /\ nodes[n].dir => ~isDescendant(p, n)
             /\ UNCHANGED <<blobs, objects, uploads, plans, finished>>
  <1>1. /\ n # Root /\ visible(n) /\ nodes[n].revision = rev /\ rev < MaxRevision
        /\ UNCHANGED <<blobs, objects, uploads, plans, finished>>
    BY Zenon DEF UpdateNode
  <1>2. nodes[n].parent \in Nodes /\ nodes[n].name \in Names
    BY <1>1, Fields, Zenon DEF PlaceOK, visible
  <1>3. PICK p \in Nodes, q \in Names : /\ p = IF pp = None THEN nodes[n].parent ELSE pp
                                        /\ q = IF qq = None THEN nodes[n].name ELSE qq
    BY <1>2, Zenon
  <1>4. nodes' = [nodes EXCEPT ![n].parent = p, ![n].name = q, ![n].revision = @ + 1]
    BY <1>3, Zenon DEF UpdateNode
  <1>5. nodes' = [nodes EXCEPT ![n] = Moved(nodes[n], p, q)]
    BY <1>4 DEF Moved, TreeOK, Row
  <1>6. /\ ~nameExists(p, q, n)
        /\ pp # None => activeDirectory(pp) /\ (nodes[n].dir => ~isDescendant(pp, n))
    BY <1>3, Zenon DEF UpdateNode
  <1>7. (pp = None => p = nodes[n].parent) /\ (pp # None => p = pp)
    BY <1>3, Zenon
  <1> QED BY <1>1, <1>5, <1>6, <1>7, Zenon

LEMMA UpdateOK ==
    ASSUME TreeOK, NEW n \in Nodes, NEW rev \in 1 .. MaxRevision,
           NEW pp \in Nodes \cup {None}, NEW qq \in Names \cup {None},
           UpdateNode(n, rev, pp, qq)
    PROVE  TreeStepOK
  <1>1. PICK p \in Nodes, q \in Names :
             /\ nodes' = [nodes EXCEPT ![n] = Moved(nodes[n], p, q)]
             /\ nodes[n].revision < MaxRevision /\ n # Root /\ visible(n)
             /\ ~nameExists(p, q, n)
             /\ pp = None => p = nodes[n].parent
             /\ pp # None => /\ p = pp /\ activeDirectory(p)
                             /\ nodes[n].dir => ~isDescendant(p, n)
             /\ UNCHANGED <<blobs, objects, uploads, plans, finished>>
    BY UpdateWrites, Zenon
  <1> PICK r \in Row : r = nodes[n]
    BY Fields, Zenon
  <1>m. /\ Moved(r, p, q) \in Row
        /\ Moved(r, p, q).parent = p /\ Moved(r, p, q).name = q
        /\ Moved(r, p, q).dir = r.dir /\ Moved(r, p, q).status = r.status
        /\ Moved(r, p, q).trash = r.trash
    BY <1>1, RowMoved
  <1> PICK m \in Row : m = Moved(r, p, q)
    BY <1>m, Zenon
  <1>2. /\ m.parent = p /\ m.name = q /\ m.dir = nodes[n].dir /\ m.status = "active"
        /\ m.trash = None /\ nodes[n].status = "active" /\ nodes[n].trash = None
    BY <1>1, <1>m, Zenon DEF visible
  <1>3. /\ nodes' \in [Nodes -> Row] /\ nodes'[n] = m
        /\ \A x \in Nodes : x # n => nodes'[x] = nodes[x]
    BY <1>1, Zenon DEF TreeOK
  <1>4. \A x \in Nodes : /\ nodes'[x].dir = nodes[x].dir /\ nodes'[x].status = nodes[x].status
                         /\ nodes'[x].trash = nodes[x].trash
    BY <1>2, <1>3, Zenon
  <1>5. nodes[p].dir /\ nodes[p].trash = None
    <2>1. CASE pp = None
      BY <1>1, <1>2, <2>1, Fields, Zenon DEF PlaceOK
    <2>2. CASE pp # None
      BY <1>1, <2>2, Zenon DEF activeDirectory, visible
    <2> QED BY <2>1, <2>2, Zenon
  <1>6. ASSUME NEW x \in Nodes PROVE StatusOK(x)' /\ PlaceOK(x)' /\ ContentOK(x)'
    <2>0. /\ StatusOK(x) /\ PlaceOK(x) /\ ContentOK(x)
          /\ nodes[x].trash \in Nodes \cup {None} /\ nodes[x].parent \in Nodes \cup {None}
      BY Fields, Zenon
    <2>1. StatusOK(x)'
      <3>1. CASE x = n
        BY <1>2, <1>3, <3>1, NodesAssumption, Zenon DEF StatusOK
      <3>2. CASE x # n
        BY <1>3, <1>4, <2>0, <3>2, Zenon DEF StatusOK
      <3> QED BY <3>1, <3>2, Zenon
    <2>2. PlaceOK(x)'
      <3>1. CASE x = n
        <4>1. nodes'[x].parent = p /\ nodes'[x].name = q /\ nodes'[x].trash = None
          BY <1>2, <1>3, <3>1, Zenon
        <4>2. nodes'[p].dir /\ nodes'[p].trash = None
          BY <1>4, <1>5, Zenon
        <4> QED BY <4>1, <4>2, Zenon DEF PlaceOK
      <3>2. CASE x # n
        BY <1>3, <1>4, <2>0, <3>2, Zenon DEF PlaceOK
      <3> QED BY <3>1, <3>2, Zenon
    <2>3. ContentOK(x)'
      BY <1>1, <1>4, <2>0, Zenon DEF ContentOK
    <2> QED BY <2>1, <2>2, <2>3, Zenon
  <1>7. RootOK'
    BY <1>1, <1>3, NodesAssumption, Zenon DEF TreeOK, RootOK, visible
  <1>8. Rooted'
    <2>1. CASE pp = None
      <3>1. \A x \in Nodes : nodes'[x].parent = nodes[x].parent
        BY <1>1, <1>2, <1>3, <2>1, Zenon
      <3> QED BY <1>4, <3>1, RootedSame, Zenon
    <2>2. CASE pp # None
      <3>1. n \notin Above(p)
        <4>1. CASE nodes[n].dir
          BY <1>1, <2>2, <4>1, DescendantIsBelow, Zenon
        <4>2. CASE ~nodes[n].dir
          <5>1. nodes[n].dir = FALSE
            BY <4>2, Fields, Zenon DEF Row
          <5> QED BY <1>5, <4>2, <5>1, FileNotAbove, Zenon
        <4> QED BY <4>1, <4>2, Zenon
      <3>2. p \in Above(p) /\ Closed(Par, Above(p)) /\ Above(p) \in SUBSET Nodes
        BY AboveClosed, Zenon DEF TreeOK
      <3>3. Par \in [Nodes -> Nodes \cup {None}] /\ Par' = [Par EXCEPT ![n] = p]
        BY <1>2, <1>3, Fields, Zenon DEF Par
      <3>4. nodes[p].status # "absent"
        BY <1>1, <2>2, Zenon DEF activeDirectory, visible
      <3>5. ASSUME NEW x \in Nodes, nodes'[x].status # "absent" PROVE Up(Par', x)
        <4> PICK f, g, U : f = Par /\ g = Par' /\ U = Above(p)
          BY Zenon
        <4>1. Up(f, x) /\ Up(f, p)
          BY <1>4, <3>4, <3>5, Zenon DEF TreeOK, Rooted
        <4> QED BY <3>1, <3>2, <3>3, <4>1, UpMoved, Zenon
      <3> QED BY <3>5, Zenon DEF Rooted
    <2> QED BY <2>1, <2>2, Zenon
  <1>9. \A y \in plans' : PlanOK(y)'
    <2> SUFFICES ASSUME NEW y \in plans PROVE PlanOK(y)'
      BY <1>1, Zenon
    <2>1. PlanOK(y) /\ y.root \in Nodes /\ y.blobs \in SUBSET Nodes
      BY Zenon DEF TreeOK, Plan
    <2> QED BY <1>4, <2>1, Zenon DEF PlanOK
  <1> QED
    BY <1>1, <1>3, <1>4, <1>6, <1>7, <1>8, <1>9, Zenon DEF TreeOK, TreeStepOK, InUse

\* In use and in no entry means active; an entry and what lies in one is not visible.
LEMMA VisibleFacts ==
    ASSUME TreeOK, NEW x \in Nodes
    PROVE  /\ visible(x) <=> nodes[x].status # "absent" /\ nodes[x].trash = None
           /\ nodes[x].trash # None => nodes[x].status # "absent" /\ nodes[x].trash \in Nodes
           /\ nodes[x].trash # None => ~visible(x) /\ ~visible(nodes[x].trash)
  <1>1. /\ StatusOK(x) /\ nodes[x].trash \in Nodes \cup {None} /\ None \notin Nodes
        /\ nodes[x].status \in {"absent", "active", "trashed", "purging"}
    BY Fields, Zenon DEF Row
  <1>2. nodes[x].trash # None => nodes[x].status # "absent"
    BY <1>1, AbsentFields, Zenon DEF StatusOK
  <1>3. nodes[x].trash = None /\ nodes[x].status # "absent" => nodes[x].status = "active"
    BY <1>1, Zenon DEF StatusOK
  <1>4. nodes[x].trash # None => nodes[nodes[x].trash].trash # None
    BY <1>1, Zenon DEF StatusOK
  <1> QED BY <1>1, <1>2, <1>3, <1>4, Zenon DEF visible

\* What recycling leaves of the rows.
LEMMA RecycleWrites ==
    ASSUME TreeOK, NEW n \in Nodes, NEW rev \in 1 .. MaxRevision, Recycle(n, rev)
    PROVE  /\ n # Root /\ visible(n)
           /\ nodes' \in [Nodes -> Row]
           /\ UNCHANGED <<blobs, objects, uploads, plans, finished>>
           /\ \A x \in Nodes :
                /\ nodes'[x].parent = nodes[x].parent /\ nodes'[x].name = nodes[x].name
                /\ nodes'[x].dir = nodes[x].dir
                /\ x \notin activeSubtree(n) => nodes'[x] = nodes[x]
                /\ x \in activeSubtree(n) => nodes'[x].trash = n
                /\ x \in activeSubtree(n) /\ x # n => nodes'[x].status = nodes[x].status
                /\ x = n => nodes'[x].status = "trashed" /\ nodes'[x].origin = nodes[x].parent
  <1>1. /\ n # Root /\ visible(n) /\ nodes[n].revision = rev /\ rev < MaxRevision
        /\ UNCHANGED <<blobs, objects, uploads, plans, finished>>
    BY Zenon DEF Recycle
  <1> PICK T \in SUBSET Nodes : T = activeSubtree(n) /\ n \in T
    BY SubtreeOK, Zenon
  <1>2. nodes' = [x \in Nodes |->
         IF x = n THEN [nodes[n] EXCEPT !.trash = n, !.status = "trashed",
                                        !.origin = nodes[n].parent, !.revision = @ + 1]
         ELSE IF x \in T THEN [nodes[x] EXCEPT !.trash = n]
         ELSE nodes[x]]
    BY Zenon DEF Recycle
  <1>3. ASSUME NEW x \in Nodes
        PROVE  /\ nodes'[x] \in Row
               /\ nodes'[x].parent = nodes[x].parent /\ nodes'[x].name = nodes[x].name
               /\ nodes'[x].dir = nodes[x].dir
               /\ x \notin T => nodes'[x] = nodes[x]
               /\ x \in T => nodes'[x].trash = n
               /\ x \in T /\ x # n => nodes'[x].status = nodes[x].status
               /\ x = n => nodes'[x].status = "trashed" /\ nodes'[x].origin = nodes[x].parent
    <2> PICK r \in Row : r = nodes[x]
      BY Fields, Zenon
    <2>1. CASE x = n
      <3>1. r.revision + 1 \in 0 .. MaxRevision /\ r.parent \in Nodes \cup {None}
        BY <1>1, <2>1, BoundAssumption DEF Row
      <3>2. nodes'[x] = [r EXCEPT !.trash = n, !.status = "trashed", !.origin = r.parent,
                                  !.revision = @ + 1]
        BY <1>2, <2>1, Zenon
      <3> QED BY <2>1, <3>1, <3>2, Zenon DEF Row
    <2>2. CASE x # n /\ x \in T
      <3>1. nodes'[x] = [r EXCEPT !.trash = n]
        BY <1>2, <2>2, Zenon
      <3> QED BY <2>2, <3>1, Zenon DEF Row
    <2>3. CASE x \notin T
      BY <1>2, <2>3, Zenon
    <2> QED BY <2>1, <2>2, <2>3, Zenon
  <1>4. nodes' \in [Nodes -> Row]
    BY <1>2, <1>3, Zenon
  <1> QED BY <1>1, <1>3, <1>4, Zenon

LEMMA RecycleOK ==
    ASSUME TreeOK, NEW n \in Nodes, NEW rev \in 1 .. MaxRevision, Recycle(n, rev)
    PROVE  TreeStepOK
  <1> PICK T \in SUBSET Nodes : T = activeSubtree(n)
    BY SubtreeOK, Zenon
  <1>1. /\ n # Root /\ visible(n) /\ nodes' \in [Nodes -> Row]
        /\ UNCHANGED <<blobs, objects, uploads, plans, finished>>
    BY RecycleWrites, Zenon
  <1>2. \A x \in Nodes :
          /\ nodes'[x].parent = nodes[x].parent /\ nodes'[x].name = nodes[x].name
          /\ nodes'[x].dir = nodes[x].dir
          /\ x \notin T => nodes'[x] = nodes[x]
          /\ x \in T => nodes'[x].trash = n
          /\ x \in T /\ x # n => nodes'[x].status = nodes[x].status
          /\ x = n => nodes'[x].status = "trashed" /\ nodes'[x].origin = nodes[x].parent
    BY RecycleWrites, Zenon
  <1>3. /\ n \in T /\ Hanging(T)
        /\ \A x \in T : visible(x) /\ (x # n => nodes[x].parent \in T)
    BY <1>1, SubtreeOK, Zenon
  <1>4. ASSUME NEW x \in Nodes, x \notin T
        PROVE  /\ nodes[x].trash # None => nodes[x].trash \in Nodes /\ nodes[x].trash \notin T
               /\ nodes[x].status # "absent" /\ x # Root /\ nodes[x].trash # x
                  => nodes[x].parent \notin T
    <2>1. nodes[x].trash # None => nodes[x].trash \in Nodes /\ nodes[x].trash \notin T
      BY <1>3, VisibleFacts, Zenon
    <2>2. ASSUME nodes[x].status # "absent", x # Root, nodes[x].trash # x,
                 nodes[x].parent \in T
          PROVE  FALSE
      <3>1. nodes[nodes[x].parent].trash = nodes[x].trash
        BY <2>2, Fields, Zenon DEF PlaceOK
      <3>2. nodes[x].trash = None
        BY <1>3, <2>2, <3>1, Zenon DEF visible
      <3>3. visible(x)
        BY <2>2, <3>2, VisibleFacts, Zenon
      <3> QED BY <1>3, <1>4, <2>2, <3>3, Zenon DEF Hanging
    <2> QED BY <2>1, <2>2, Zenon
  <1>5. ASSUME NEW x \in Nodes PROVE StatusOK(x)' /\ PlaceOK(x)' /\ ContentOK(x)'
    <2>0. /\ StatusOK(x) /\ PlaceOK(x) /\ ContentOK(x) /\ None \notin Nodes
          /\ nodes[x].trash \in Nodes \cup {None} /\ nodes[x].parent \in Nodes \cup {None}
      BY Fields, Zenon
    <2>n. nodes'[n].trash = n /\ nodes'[n].status = "trashed"
      BY <1>2, <1>3, Zenon
    <2>1. CASE x \in T
      <3>a. nodes[x].status = "active" /\ nodes[x].trash = None
        BY <1>3, <2>1, Zenon DEF visible
      <3>0. /\ nodes[x].status = "active" /\ nodes[x].trash = None /\ nodes'[x].trash = n
            /\ x = n => nodes'[x].status = "trashed"
            /\ x # n => nodes'[x].status = "active"
        BY <1>2, <2>1, <3>a, Zenon
      <3>1. StatusOK(x)'
        <4>1. CASE x = n
          BY <1>2, <2>n, <3>0, <4>1, Zenon DEF StatusOK
        <4>2. CASE x # n
          BY <2>n, <3>0, <4>2, Zenon DEF StatusOK
        <4> QED BY <4>1, <4>2, Zenon
      <3>2. PlaceOK(x)'
        <4>1. nodes'[x].parent = nodes[x].parent /\ nodes'[x].name = nodes[x].name
          BY <1>2, Zenon
        <4>2. x # Root => /\ nodes[x].parent \in Nodes /\ nodes[x].name \in Names
                          /\ nodes'[nodes[x].parent].dir
          BY <1>2, <2>0, <3>0, Zenon DEF PlaceOK
        <4>3. x # n => nodes'[nodes[x].parent].trash = n
          BY <1>2, <1>3, <2>1, Zenon
        <4> QED BY <3>0, <4>1, <4>2, <4>3, Zenon DEF PlaceOK
      <3>3. ContentOK(x)'
        BY <1>1, <1>2, <2>0, <3>0, Zenon DEF ContentOK
      <3> QED BY <3>1, <3>2, <3>3, Zenon
    <2>2. CASE x \notin T
      <3>0. /\ nodes'[x] = nodes[x]
            /\ nodes[x].trash # None => nodes'[nodes[x].trash] = nodes[nodes[x].trash]
        BY <1>2, <1>4, <2>2, Zenon
      <3>1. StatusOK(x)'
        BY <2>0, <3>0, Zenon DEF StatusOK
      <3>2. PlaceOK(x)'
        <4>1. nodes[x].parent \in Nodes => nodes'[nodes[x].parent].dir = nodes[nodes[x].parent].dir
          BY <1>2, Zenon
        <4>2. nodes[x].status # "absent" /\ x # Root /\ nodes[x].trash # x
              => nodes'[nodes[x].parent] = nodes[nodes[x].parent]
          BY <1>2, <1>4, <2>0, <2>2, Zenon DEF PlaceOK
        <4> QED BY <2>0, <3>0, <4>1, <4>2, Zenon DEF PlaceOK
      <3>3. ContentOK(x)'
        <4>1. CASE nodes[x].trash = None
          <5>1. nodes[x].status # "absent" /\ ~nodes[x].dir
                => blobs[x] = "available" /\ x \in objects
            BY <2>0, <4>1, Zenon DEF ContentOK
          <5>2. blobs' = blobs /\ objects' = objects
            BY <1>1, Zenon
          <5>3. nodes'[x].status # "absent" /\ ~nodes'[x].dir
                => blobs'[x] = "available" /\ x \in objects'
            <6>1. nodes'[x].status = nodes[x].status /\ nodes'[x].dir = nodes[x].dir
              BY <3>0, Zenon
            <6> QED BY <6>1, <5>1, <5>2, Zenon
          <5> QED BY <5>3, Zenon DEF ContentOK
        <4>2. CASE nodes[x].trash # None
          <5>1. nodes'[nodes'[x].trash].status = nodes[nodes[x].trash].status
            BY <3>0, <4>2, Zenon
          <5>2. blobs' = blobs /\ objects' = objects
            BY <1>1, Zenon
          <5> QED BY <2>0, <3>0, <4>2, <5>1, <5>2, Zenon DEF ContentOK
        <4> QED BY <4>1, <4>2, Zenon
      <3> QED BY <3>1, <3>2, <3>3, Zenon
    <2> QED BY <2>1, <2>2, Zenon
  <1>6. RootOK'
    <2>1. Root \notin T
      BY <1>1, <1>3, NodesAssumption, Zenon DEF TreeOK, RootOK
    <2> QED BY <1>2, <2>1, NodesAssumption, Zenon DEF TreeOK, RootOK, visible
  <1>7. \A x \in Nodes : (nodes'[x].status = "absent") <=> (nodes[x].status = "absent")
    BY <1>2, <1>3, Zenon DEF visible
  <1>8. Rooted'
    BY <1>2, <1>7, RootedSame, Zenon
  <1>9. \A y \in plans' : PlanOK(y)'
    <2> SUFFICES ASSUME NEW y \in plans PROVE PlanOK(y)'
      BY <1>1, Zenon
    <2>1. PlanOK(y) /\ y.root \in Nodes /\ y.blobs \in SUBSET Nodes
      BY Zenon DEF TreeOK, Plan
    <2>2. y.root \notin T /\ \A x \in y.blobs : x \notin T
      BY <1>3, <2>1, NodesAssumption, Zenon DEF PlanOK, visible
    <2>3. nodes'[y.root] = nodes[y.root] /\ \A x \in y.blobs : nodes'[x] = nodes[x]
      BY <1>2, <2>1, <2>2, Zenon
    <2> QED BY <2>1, <2>3, Zenon DEF PlanOK
  <1> QED
    BY <1>1, <1>2, <1>5, <1>6, <1>7, <1>8, <1>9, Zenon DEF TreeOK, TreeStepOK, InUse

\* A file that had to have its content before still has it.
LEMMA ContentKept ==
    ASSUME NEW x \in Nodes, ContentOK(x), nodes'[x].dir = nodes[x].dir,
           nodes'[x].status # "absent" => nodes[x].status # "absent",
           nodes'[x].trash = None \/ nodes'[nodes'[x].trash].status = "trashed"
             => /\ nodes[x].trash = None \/ nodes[nodes[x].trash].status = "trashed"
                /\ blobs'[x] = blobs[x] /\ (x \in objects => x \in objects')
    PROVE  ContentOK(x)'
  BY Zenon DEF ContentOK

\* What restoring an entry leaves of the rows.
LEMMA RestoreWrites ==
    ASSUME TreeOK, NEW n \in Nodes, NEW rev \in 1 .. MaxRevision, Restore(n, rev)
    PROVE  /\ nodes[n].status = "trashed" /\ nodes[n].trash = n
           /\ activeDirectory(nodes[n].parent) /\ ~nameExists(nodes[n].parent, nodes[n].name, n)
           /\ nodes' \in [Nodes -> Row]
           /\ UNCHANGED <<blobs, objects, uploads, plans, finished>>
           /\ \A x \in Nodes :
                /\ nodes'[x].parent = nodes[x].parent /\ nodes'[x].name = nodes[x].name
                /\ nodes'[x].dir = nodes[x].dir
                /\ nodes[x].trash # n => nodes'[x] = nodes[x]
                /\ nodes[x].trash = n => nodes'[x].trash = None /\ nodes'[x].status = "active"
  <1>1. /\ nodes[n].status = "trashed" /\ nodes[n].trash = n
        /\ nodes[n].revision = rev /\ rev < MaxRevision
        /\ activeDirectory(nodes[n].origin) /\ ~nameExists(nodes[n].origin, nodes[n].name, n)
        /\ UNCHANGED <<blobs, objects, uploads, plans, finished>>
    BY Zenon DEF Restore
  <1>0. nodes[n].origin = nodes[n].parent
    BY <1>1, Fields, Zenon DEF StatusOK
  <1>2. nodes' = [x \in Nodes |->
         IF x = n THEN [nodes[n] EXCEPT !.trash = None, !.status = "active",
                                        !.parent = nodes[n].origin,
                                        !.origin = None, !.revision = @ + 1]
         ELSE IF x \in trashedSubtree(n) THEN [nodes[x] EXCEPT !.trash = None]
         ELSE nodes[x]]
    BY Zenon DEF Restore
  <1>3. ASSUME NEW x \in Nodes
        PROVE  /\ nodes'[x] \in Row
               /\ nodes'[x].parent = nodes[x].parent /\ nodes'[x].name = nodes[x].name
               /\ nodes'[x].dir = nodes[x].dir
               /\ nodes[x].trash # n => nodes'[x] = nodes[x]
               /\ nodes[x].trash = n => nodes'[x].trash = None /\ nodes'[x].status = "active"
    <2> PICK r \in Row : r = nodes[x]
      BY Fields, Zenon
    <2>1. CASE x = n
      <3>1. r.revision + 1 \in 0 .. MaxRevision /\ r.origin = r.parent
        BY <1>0, <1>1, <2>1, BoundAssumption DEF Row
      <3>2. nodes'[x] = [r EXCEPT !.trash = None, !.status = "active", !.parent = r.origin,
                                  !.origin = None, !.revision = @ + 1]
        BY <1>2, <2>1, Zenon
      <3>3. r.trash = n
        BY <1>1, <2>1, Zenon
      <3> QED BY <3>1, <3>2, <3>3, Zenon DEF Row
    <2>2. CASE x # n /\ nodes[x].trash = n
      <3>1. nodes'[x] = [r EXCEPT !.trash = None]
        BY <1>2, <2>2, Zenon DEF trashedSubtree
      <3>2. r.status = "active"
        <4>1. StatusOK(x) /\ n # None /\ nodes[x].status \in {"absent", "active", "trashed", "purging"}
          BY Fields, Zenon DEF Row
        <4>2. nodes[x].status # "absent"
          BY <2>2, <4>1, VisibleFacts, Zenon
        <4> QED BY <1>1, <2>2, <4>1, <4>2, Zenon DEF StatusOK
      <3>3. r.trash = n
        BY <2>2, Zenon
      <3> QED BY <2>2, <3>1, <3>2, <3>3, Zenon DEF Row
    <2>3. CASE nodes[x].trash # n
      <3>1. x # n /\ x \notin trashedSubtree(n)
        BY <1>1, <2>3, Zenon DEF trashedSubtree
      <3>2. nodes'[x] = nodes[x]
        BY <1>2, <3>1, Zenon
      <3> QED BY <2>3, <3>2, Zenon
    <2> QED BY <2>1, <2>2, <2>3, <1>1, Zenon
  <1>4. nodes' \in [Nodes -> Row]
    BY <1>2, <1>3, Zenon
  <1> QED BY <1>0, <1>1, <1>3, <1>4, Zenon

LEMMA RestoreOK ==
    ASSUME TreeOK, NEW n \in Nodes, NEW rev \in 1 .. MaxRevision, Restore(n, rev)
    PROVE  TreeStepOK
  <1>1. /\ nodes[n].status = "trashed" /\ nodes[n].trash = n
        /\ activeDirectory(nodes[n].parent) /\ nodes' \in [Nodes -> Row]
        /\ UNCHANGED <<blobs, objects, uploads, plans, finished>>
    BY RestoreWrites, Zenon
  <1>2. \A x \in Nodes :
          /\ nodes'[x].parent = nodes[x].parent /\ nodes'[x].name = nodes[x].name
          /\ nodes'[x].dir = nodes[x].dir
          /\ nodes[x].trash # n => nodes'[x] = nodes[x]
          /\ nodes[x].trash = n => nodes'[x].trash = None /\ nodes'[x].status = "active"
    BY RestoreWrites, Zenon
  <1>3. n # None /\ None \notin Nodes
    BY NodesAssumption, Zenon
  <1>4. blobs' = blobs /\ objects' = objects /\ plans' = plans /\ finished' = finished
    BY <1>1, Zenon
  <1>5. ASSUME NEW x \in Nodes PROVE StatusOK(x)' /\ PlaceOK(x)' /\ ContentOK(x)'
    <2>0. /\ StatusOK(x) /\ PlaceOK(x) /\ ContentOK(x)
          /\ nodes[x].trash \in Nodes \cup {None} /\ nodes[x].parent \in Nodes \cup {None}
      BY Fields, Zenon
    <2>1. CASE nodes[x].trash = n
      <3>0. nodes'[x].trash = None /\ nodes'[x].status = "active" /\ nodes[x].status # "absent"
        BY <1>2, <1>3, <2>1, VisibleFacts, Zenon
      <3>1. StatusOK(x)'
        BY <1>3, <3>0, Zenon DEF StatusOK
      <3>2. PlaceOK(x)'
        <4>1. nodes'[x].parent = nodes[x].parent /\ nodes'[x].name = nodes[x].name
          BY <1>2, Zenon
        <4>2. x # Root => /\ nodes[x].parent \in Nodes /\ nodes[x].name \in Names
                          /\ nodes'[nodes[x].parent].dir
          BY <1>2, <2>0, <3>0, Zenon DEF PlaceOK
        <4>3. x # Root /\ x # n => nodes'[nodes[x].parent].trash = None
          BY <1>2, <2>0, <2>1, <3>0, <4>2, Zenon DEF PlaceOK
        <4>4. x # Root /\ x = n => nodes'[nodes[x].parent].trash = None
          <5>1. nodes[nodes[n].parent].trash = None
            BY <1>1, Zenon DEF activeDirectory, visible
          <5>2. x = n => nodes[nodes[x].parent].trash = None
            BY <5>1, Zenon
          <5>3. x # Root /\ x = n => nodes'[nodes[x].parent] = nodes[nodes[x].parent]
            BY <1>2, <1>3, <4>2, <5>2, Zenon
          <5> QED BY <5>2, <5>3, Zenon
        <4> QED BY <3>0, <4>1, <4>2, <4>3, <4>4, Zenon DEF PlaceOK
      <3>3. ContentOK(x)'
        <4>1. nodes[nodes[x].trash].status = "trashed"
          BY <1>1, <2>1, Zenon
        <4>2. nodes'[x].dir = nodes[x].dir
          BY <1>2, Zenon
        <4> QED BY <1>4, <2>0, <3>0, <4>1, <4>2, ContentKept, Zenon
      <3> QED BY <3>1, <3>2, <3>3, Zenon
    <2>2. CASE nodes[x].trash # n
      <3>0. nodes'[x] = nodes[x]
        BY <1>2, <2>2, Zenon
      <3>a. nodes[x].trash # None => nodes'[nodes[x].trash] = nodes[nodes[x].trash]
        <4>1. nodes[x].trash # None => nodes[nodes[x].trash].trash = nodes[x].trash
          BY <2>0, Zenon DEF StatusOK
        <4> QED BY <1>2, <2>0, <2>2, <4>1, Zenon
      <3>1. StatusOK(x)'
        BY <2>0, <3>0, <3>a, Zenon DEF StatusOK
      <3>2. PlaceOK(x)'
        <4>1. nodes[x].parent \in Nodes => nodes'[nodes[x].parent].dir = nodes[nodes[x].parent].dir
          BY <1>2, Zenon
        <4>2. nodes[x].status # "absent" /\ x # Root /\ nodes[x].trash # x
              => nodes'[nodes[x].parent] = nodes[nodes[x].parent]
          BY <1>2, <2>0, <2>2, Zenon DEF PlaceOK
        <4> QED BY <2>0, <3>0, <4>1, <4>2, Zenon DEF PlaceOK
      <3>3. ContentOK(x)'
        <4>1. nodes'[x].dir = nodes[x].dir /\ nodes'[x].trash = nodes[x].trash
              /\ nodes'[x].status = nodes[x].status
          BY <3>0, Zenon
        <4>2. nodes[x].trash # None
              => nodes'[nodes'[x].trash].status = nodes[nodes[x].trash].status
          BY <3>0, <3>a, Zenon
        <4> QED BY <1>4, <2>0, <4>1, <4>2, ContentKept, Zenon
      <3> QED BY <3>1, <3>2, <3>3, Zenon
    <2> QED BY <2>1, <2>2, Zenon
  <1>6. RootOK'
    <2>1. nodes[Root].trash # n
      BY <1>3, NodesAssumption, Zenon DEF TreeOK, RootOK, visible
    <2> QED BY <1>2, <2>1, NodesAssumption, Zenon DEF TreeOK, RootOK, visible
  <1>7. \A x \in Nodes : (nodes'[x].status = "absent") <=> (nodes[x].status = "absent")
    BY <1>2, <1>3, VisibleFacts, Zenon
  <1>8. Rooted'
    BY <1>2, <1>7, RootedSame, Zenon
  <1>9. \A y \in plans' : PlanOK(y)'
    <2> SUFFICES ASSUME NEW y \in plans PROVE PlanOK(y)'
      BY <1>4, Zenon
    <2>1. PlanOK(y) /\ y.root \in Nodes /\ y.blobs \in SUBSET Nodes
      BY Zenon DEF TreeOK, Plan
    <2>2. nodes[y.root].trash # n /\ \A x \in y.blobs : nodes[x].trash # n
      BY <1>1, <2>1, Zenon DEF PlanOK
    <2>3. nodes'[y.root] = nodes[y.root] /\ \A x \in y.blobs : nodes'[x] = nodes[x]
      BY <1>2, <2>1, <2>2, Zenon
    <2> QED BY <2>1, <2>3, Zenon DEF PlanOK
  <1> QED
    BY <1>1, <1>2, <1>4, <1>5, <1>6, <1>7, <1>8, <1>9, Zenon DEF TreeOK, TreeStepOK, InUse

\* Beginning a purge: the rows of S change to purging and S holds the entry.
LEMMA PurgingOK ==
    ASSUME TreeOK, NEW n \in Nodes, nodes[n].trash = n,
           nodes' \in [Nodes -> Row],
           blobs' \in [Nodes -> {"none", "available", "pending_delete", "deleted"}],
           UNCHANGED <<objects, finished>>,
           \A x \in Nodes :
             /\ nodes'[x].parent = nodes[x].parent /\ nodes'[x].name = nodes[x].name
             /\ nodes'[x].dir = nodes[x].dir /\ nodes'[x].trash = nodes[x].trash
             /\ nodes'[x].origin = nodes[x].origin
             /\ \/ nodes'[x] = nodes[x]
                \/ nodes[x].trash = n /\ nodes'[x].status = "purging"
             /\ nodes[x].trash # n => blobs'[x] = blobs[x],
           nodes'[n].status = "purging",
           plans' \in SUBSET Plan,
           \A y \in plans' : y \in plans \/ PlanOK(y)'
    PROVE  TreeStepOK
  <1>1. objects' = objects /\ finished' = finished /\ n # None /\ None \notin Nodes
    BY NodesAssumption, Zenon
  <1>2. \A x \in Nodes :
          /\ nodes'[x].parent = nodes[x].parent /\ nodes'[x].name = nodes[x].name
          /\ nodes'[x].dir = nodes[x].dir /\ nodes'[x].trash = nodes[x].trash
          /\ nodes'[x].origin = nodes[x].origin
          /\ \/ nodes'[x] = nodes[x]
             \/ nodes[x].trash = n /\ nodes'[x].status = "purging"
          /\ nodes[x].trash # n => nodes'[x] = nodes[x] /\ blobs'[x] = blobs[x]
    BY Zenon
  <1>3. \A x \in Nodes : (nodes'[x].status = "absent") <=> (nodes[x].status = "absent")
    <2> SUFFICES ASSUME NEW x \in Nodes
                 PROVE  (nodes'[x].status = "absent") <=> (nodes[x].status = "absent")
      BY Zenon
    <2>1. nodes[x].trash # None => nodes[x].status # "absent"
      BY VisibleFacts, Zenon
    <2>2. CASE nodes'[x] = nodes[x]
      BY <2>2, Zenon
    <2>3. CASE nodes[x].trash = n /\ nodes'[x].status = "purging"
      BY <1>1, <2>1, <2>3, Zenon
    <2> QED BY <1>2, <2>2, <2>3, Zenon
  <1>5. ASSUME NEW x \in Nodes PROVE StatusOK(x)' /\ PlaceOK(x)' /\ ContentOK(x)'
    <2>0. /\ StatusOK(x) /\ PlaceOK(x) /\ ContentOK(x)
          /\ nodes[x].trash \in Nodes \cup {None} /\ nodes[x].parent \in Nodes \cup {None}
      BY Fields, Zenon
    <2>a. nodes[x].trash # None => nodes[nodes[x].trash].trash = nodes[x].trash
      BY <2>0, Zenon DEF StatusOK
    <2>1. StatusOK(x)'
      <3>1. nodes[x].trash # None /\ nodes[x].trash # n
            => nodes'[x] = nodes[x] /\ nodes'[nodes[x].trash] = nodes[nodes[x].trash]
        BY <1>2, <2>0, <2>a, Zenon
      <3>2. CASE nodes[x].trash = n
        <4>1. /\ nodes'[x].trash = n /\ nodes'[n].trash = n /\ nodes'[n].status = "purging"
              /\ nodes[x].status # "absent"
          BY <1>1, <1>2, <3>2, VisibleFacts, Zenon
        <4>2. n = x => nodes'[x].origin = nodes'[x].parent /\ nodes'[x].status = "purging"
          BY <1>2, <2>0, <3>2, Zenon DEF StatusOK
        <4>3. n # x => nodes'[x].status # "trashed"
          BY <1>2, <2>0, <3>2, Zenon DEF StatusOK
        <4>4. nodes'[x].status # "absent"
          BY <1>3, <4>1, Zenon
        <4> QED BY <1>1, <4>1, <4>2, <4>3, <4>4, Zenon DEF StatusOK
      <3>3. CASE nodes[x].trash # n
        <4>1. nodes'[x] = nodes[x]
          BY <1>2, <3>3, Zenon
        <4> QED BY <2>0, <3>1, <3>3, <4>1, Zenon DEF StatusOK
      <3> QED BY <3>2, <3>3, Zenon
    <2>2. PlaceOK(x)'
      <3>1. nodes[x].parent \in Nodes
            => /\ nodes'[nodes[x].parent].dir = nodes[nodes[x].parent].dir
               /\ nodes'[nodes[x].parent].trash = nodes[nodes[x].parent].trash
        BY <1>2, Zenon
      <3>2. /\ nodes'[x].parent = nodes[x].parent /\ nodes'[x].name = nodes[x].name
            /\ nodes'[x].trash = nodes[x].trash
            /\ nodes'[x].status # "absent" => nodes[x].status # "absent"
        BY <1>2, <1>3, Zenon
      <3> QED BY <2>0, <3>1, <3>2, Zenon DEF PlaceOK
    <2>3. ContentOK(x)'
      <3>1. /\ nodes'[x].dir = nodes[x].dir /\ nodes'[x].trash = nodes[x].trash
            /\ nodes'[x].status # "absent" => nodes[x].status # "absent"
        BY <1>2, <1>3, Zenon
      <3>2. CASE nodes[x].trash = n
        <4>1. nodes'[x].trash # None /\ nodes'[nodes'[x].trash].status # "trashed"
          BY <1>1, <3>1, <3>2, Zenon
        <4> QED BY <2>0, <3>1, <4>1, ContentKept, Zenon
      <3>3. CASE nodes[x].trash # n
        <4>1. nodes[x].trash # None
              => nodes'[nodes'[x].trash].status = nodes[nodes[x].trash].status
          <5>1. nodes[x].trash # None => nodes'[nodes[x].trash] = nodes[nodes[x].trash]
            BY <1>2, <2>0, <2>a, <3>3, Zenon
          <5> QED BY <3>1, <5>1, Zenon
        <4>2. blobs'[x] = blobs[x]
          BY <1>2, <3>3, Zenon
        <4> QED BY <1>1, <2>0, <3>1, <4>1, <4>2, ContentKept, Zenon
      <3> QED BY <3>2, <3>3, Zenon
    <2> QED BY <2>1, <2>2, <2>3, Zenon
  <1>6. RootOK'
    <2>1. nodes[Root].trash # n
      BY <1>1, NodesAssumption, Zenon DEF TreeOK, RootOK, visible
    <2> QED BY <1>2, <2>1, NodesAssumption, Zenon DEF TreeOK, RootOK, visible
  <1>8. Rooted'
    BY <1>2, <1>3, RootedSame, Zenon
  <1>9. \A y \in plans' : PlanOK(y)'
    <2> SUFFICES ASSUME NEW y \in plans PROVE PlanOK(y)'
      BY Zenon
    <2>1. PlanOK(y) /\ y.root \in Nodes /\ y.blobs \in SUBSET Nodes
      BY Zenon DEF TreeOK, Plan
    <2>2. nodes'[y.root].trash = y.root /\ nodes'[y.root].status = "purging"
      BY <1>2, <2>1, Zenon DEF PlanOK
    <2>3. \A x \in y.blobs : nodes'[x].trash = y.root
      BY <1>2, <2>1, Zenon DEF PlanOK
    <2> QED BY <2>1, <2>2, <2>3, Zenon DEF PlanOK
  <1> QED
    BY <1>1, <1>2, <1>3, <1>5, <1>6, <1>8, <1>9, Zenon DEF TreeOK, TreeStepOK, InUse

LEMMA PreparePurgeOK ==
    ASSUME TreeOK, NEW n \in Nodes, NEW rev \in 1 .. MaxRevision, PreparePurge(n, rev)
    PROVE  TreeStepOK
  <1>1. /\ nodes[n].trash = n /\ UNCHANGED <<objects, finished>>
        /\ nodes' = [x \in Nodes |-> IF x \in trashedSubtree(n)
                                     THEN [nodes[x] EXCEPT !.status = "purging"] ELSE nodes[x]]
        /\ blobs' = [x \in Nodes |-> IF x \in Planned(n) THEN "pending_delete" ELSE blobs[x]]
        /\ plans' = plans \cup {[root |-> n, blobs |-> Planned(n), left |-> Planned(n)]}
    BY Zenon DEF PreparePurge, recycleEntry
  <1>2. ASSUME NEW x \in Nodes
        PROVE  /\ nodes'[x] \in Row
               /\ nodes'[x].parent = nodes[x].parent /\ nodes'[x].name = nodes[x].name
               /\ nodes'[x].dir = nodes[x].dir /\ nodes'[x].trash = nodes[x].trash
               /\ nodes'[x].origin = nodes[x].origin
               /\ nodes[x].trash # n => nodes'[x] = nodes[x]
               /\ nodes[x].trash = n => nodes'[x].status = "purging"
    <2> PICK r \in Row : r = nodes[x]
      BY Fields, Zenon
    <2>1. CASE r.trash = n
      <3>1. nodes'[x] = [r EXCEPT !.status = "purging"]
        BY <1>1, <2>1, Zenon DEF trashedSubtree
      <3> QED BY <2>1, <3>1, Zenon DEF Row
    <2>2. CASE r.trash # n
      <3>1. nodes'[x] = r
        BY <1>1, <2>2, Zenon DEF trashedSubtree
      <3> QED BY <2>2, <3>1, Zenon
    <2> QED BY <2>1, <2>2, Zenon
  <1>3. nodes' \in [Nodes -> Row] /\ nodes'[n].status = "purging"
    BY <1>1, <1>2, Zenon
  <1>4. Planned(n) \in SUBSET Nodes /\ \A x \in Planned(n) : nodes[x].trash = n
    BY Zenon DEF Planned, trashedSubtree
  <1>5. /\ blobs' \in [Nodes -> {"none", "available", "pending_delete", "deleted"}]
        /\ \A x \in Nodes : nodes[x].trash # n => blobs'[x] = blobs[x]
    BY <1>1, <1>4, Zenon DEF TreeOK
  <1> PICK new : new = [root |-> n, blobs |-> Planned(n), left |-> Planned(n)]
    BY Zenon
  <1>6. new \in Plan /\ new.root = n /\ new.blobs = Planned(n) /\ new.left = Planned(n)
    BY <1>4, Zenon DEF Plan
  <1>7. PlanOK(new)'
    <2>1. nodes'[n].trash = n /\ nodes'[n].status = "purging"
          /\ \A x \in Planned(n) : nodes'[x].trash = n
      BY <1>1, <1>2, <1>4, Zenon
    <2> QED BY <1>6, <2>1, Zenon DEF PlanOK
  <1>8. plans' \in SUBSET Plan /\ \A y \in plans' : y \in plans \/ PlanOK(y)'
    BY <1>1, <1>6, <1>7, Zenon DEF TreeOK
  <1> QED BY <1>1, <1>2, <1>3, <1>5, <1>8, PurgingOK, Zenon

LEMMA ClaimOK ==
    ASSUME TreeOK, NEW n \in Nodes, ClaimRecycle(n)
    PROVE  TreeStepOK
  <1>1. /\ nodes[n].trash = n /\ nodes' = [nodes EXCEPT ![n].status = "purging"]
        /\ blobs' = blobs /\ plans' = plans /\ UNCHANGED <<objects, finished>>
    BY Zenon DEF ClaimRecycle, recycleEntry
  <1>2. ASSUME NEW x \in Nodes
        PROVE  /\ nodes'[x] \in Row
               /\ nodes'[x].parent = nodes[x].parent /\ nodes'[x].name = nodes[x].name
               /\ nodes'[x].dir = nodes[x].dir /\ nodes'[x].trash = nodes[x].trash
               /\ nodes'[x].origin = nodes[x].origin
               /\ x # n => nodes'[x] = nodes[x]
               /\ x = n => nodes'[x].status = "purging"
    <2> PICK r \in Row : r = nodes[x]
      BY Fields, Zenon
    <2>1. CASE x = n
      <3>1. nodes'[x] = [r EXCEPT !.status = "purging"]
        BY <1>1, <2>1, Zenon DEF TreeOK
      <3> QED BY <2>1, <3>1, Zenon DEF Row
    <2>2. CASE x # n
      <3>1. nodes'[x] = r
        BY <1>1, <2>2, Zenon DEF TreeOK
      <3> QED BY <2>2, <3>1, Zenon
    <2> QED BY <2>1, <2>2, Zenon
  <1>3. nodes' \in [Nodes -> Row]
    BY <1>1, <1>2, Zenon DEF TreeOK
  <1>4. /\ blobs' \in [Nodes -> {"none", "available", "pending_delete", "deleted"}]
        /\ plans' \in SUBSET Plan
    BY <1>1, Zenon DEF TreeOK
  <1>5. \A x \in Nodes : \/ nodes'[x] = nodes[x]
                         \/ nodes[x].trash = n /\ nodes'[x].status = "purging"
    BY <1>1, <1>2, Zenon
  <1>6. \A x \in Nodes :
          /\ nodes'[x].parent = nodes[x].parent /\ nodes'[x].name = nodes[x].name
          /\ nodes'[x].dir = nodes[x].dir /\ nodes'[x].trash = nodes[x].trash
          /\ nodes'[x].origin = nodes[x].origin
          /\ \/ nodes'[x] = nodes[x]
             \/ nodes[x].trash = n /\ nodes'[x].status = "purging"
          /\ nodes[x].trash # n => blobs'[x] = blobs[x]
    BY <1>1, <1>2, <1>5, Zenon
  <1>7. nodes'[n].status = "purging" /\ \A y \in plans' : y \in plans \/ PlanOK(y)'
    BY <1>1, <1>2, Zenon
  <1> QED BY <1>1, <1>3, <1>4, <1>6, <1>7, PurgingOK, Zenon

\* The steps of a purge after its plan leave the rows alone and reach only content
\* of entries whose purge has begun.
LEMMA RowsStayOK ==
    ASSUME TreeOK, nodes' = nodes,
           blobs' \in [Nodes -> {"none", "available", "pending_delete", "deleted"}],
           objects' \in SUBSET Nodes, finished' \in SUBSET Nodes,
           plans' \in SUBSET Plan, \A y \in plans' : PlanOK(y),
           \A x \in Nodes :
             nodes[x].trash = None \/ nodes[nodes[x].trash].status = "trashed"
             => blobs'[x] = blobs[x] /\ (x \in objects => x \in objects')
    PROVE  TreeStepOK
  <1>1. ASSUME NEW x \in Nodes PROVE StatusOK(x)' /\ PlaceOK(x)' /\ ContentOK(x)'
    <2>1. StatusOK(x) /\ PlaceOK(x) /\ ContentOK(x)
      BY Fields, Zenon
    <2>2. nodes'[x].dir = nodes[x].dir
      BY Zenon
    <2>3. ContentOK(x)'
      BY <2>1, <2>2, ContentKept, Zenon
    <2> QED BY <2>1, <2>3, Zenon DEF StatusOK, PlaceOK
  <1>2. RootOK' /\ Rooted'
    BY Zenon DEF TreeOK, RootOK, Rooted, visible, Par
  <1>3. \A y \in plans' : PlanOK(y)'
    BY Zenon DEF PlanOK
  <1> QED BY <1>1, <1>2, <1>3, Zenon DEF TreeOK, TreeStepOK, InUse

\* What a plan names lies in an entry whose purge has begun.
LEMMA PlannedGone ==
    ASSUME TreeOK, NEW p \in plans
    PROVE  /\ p \in Plan /\ PlanOK(p)
           /\ p.root \in Nodes /\ p.blobs \in SUBSET Nodes /\ p.left \in SUBSET Nodes
           /\ \A x \in p.blobs : ~(nodes[x].trash = None \/ nodes[nodes[x].trash].status = "trashed")
  <1>1. p \in Plan /\ PlanOK(p) /\ p.root \in Nodes /\ p.blobs \in SUBSET Nodes
        /\ p.left \in SUBSET Nodes
    BY Zenon DEF TreeOK, Plan
  <1>2. ASSUME NEW x \in p.blobs
        PROVE  ~(nodes[x].trash = None \/ nodes[nodes[x].trash].status = "trashed")
    <2>1. nodes[x].trash = p.root /\ nodes[p.root].status = "purging" /\ p.root # None
      BY <1>1, NodesAssumption, Zenon DEF PlanOK
    <2> QED BY <2>1, Zenon
  <1> QED BY <1>1, <1>2, Zenon

LEMMA DeleteOK ==
    ASSUME TreeOK, NEW p \in plans, NEW x \in p.left, DeleteObject(p, x)
    PROVE  TreeStepOK
  <1>1. /\ objects' = objects \ {x}
        /\ plans' = (plans \ {p}) \cup {[p EXCEPT !.left = @ \ {x}]}
        /\ nodes' = nodes /\ blobs' = blobs /\ finished' = finished
    BY Zenon DEF DeleteObject
  <1>2. /\ p \in Plan /\ PlanOK(p) /\ x \in p.blobs
        /\ \A y \in p.blobs : ~(nodes[y].trash = None \/ nodes[nodes[y].trash].status = "trashed")
    BY PlannedGone, Zenon DEF PlanOK
  <1> PICK new : new = [p EXCEPT !.left = @ \ {x}]
    BY Zenon
  <1>3. new \in Plan /\ new.root = p.root /\ new.blobs = p.blobs /\ new.left = p.left \ {x}
    BY <1>2, Zenon DEF Plan
  <1>4. PlanOK(new)
    BY <1>2, <1>3, Zenon DEF PlanOK
  <1>5. /\ blobs' \in [Nodes -> {"none", "available", "pending_delete", "deleted"}]
        /\ objects' \in SUBSET Nodes /\ finished' \in SUBSET Nodes
        /\ plans' \in SUBSET Plan /\ \A y \in plans' : PlanOK(y)
    BY <1>1, <1>3, <1>4, Zenon DEF TreeOK
  <1>6. \A y \in Nodes : nodes[y].trash = None \/ nodes[nodes[y].trash].status = "trashed"
                         => blobs'[y] = blobs[y] /\ (y \in objects => y \in objects')
    BY <1>1, <1>2, Zenon
  <1> QED BY <1>1, <1>5, <1>6, RowsStayOK, Zenon

LEMMA FinishOK ==
    ASSUME TreeOK, NEW p \in plans, FinishPurge(p)
    PROVE  TreeStepOK
  <1>1. /\ blobs' = [x \in Nodes |-> IF x \in p.blobs /\ blobs[x] = "pending_delete"
                                     THEN "deleted" ELSE blobs[x]]
        /\ finished' = finished \cup {p.root} /\ plans' = plans \ {p}
        /\ nodes' = nodes /\ objects' = objects
    BY Zenon DEF FinishPurge
  <1>2. /\ p.root \in Nodes
        /\ \A y \in p.blobs : ~(nodes[y].trash = None \/ nodes[nodes[y].trash].status = "trashed")
    BY PlannedGone, Zenon
  <1>5. /\ blobs' \in [Nodes -> {"none", "available", "pending_delete", "deleted"}]
        /\ objects' \in SUBSET Nodes /\ finished' \in SUBSET Nodes
        /\ plans' \in SUBSET Plan /\ \A y \in plans' : PlanOK(y)
    BY <1>1, <1>2, Zenon DEF TreeOK
  <1>6. \A y \in Nodes : nodes[y].trash = None \/ nodes[nodes[y].trash].status = "trashed"
                         => blobs'[y] = blobs[y] /\ (y \in objects => y \in objects')
    BY <1>1, <1>2, Zenon
  <1> QED BY <1>1, <1>5, <1>6, RowsStayOK, Zenon

LEMMA GiveUpOK ==
    ASSUME TreeOK, NEW p \in plans, GiveUp(p)
    PROVE  TreeStepOK
  <1>1. /\ blobs' = blobs /\ finished' = finished /\ plans' = plans \ {p}
        /\ nodes' = nodes /\ objects' = objects
    BY Zenon DEF GiveUp
  <1>5. /\ blobs' \in [Nodes -> {"none", "available", "pending_delete", "deleted"}]
        /\ objects' \in SUBSET Nodes /\ finished' \in SUBSET Nodes
        /\ plans' \in SUBSET Plan /\ \A y \in plans' : PlanOK(y)
    BY <1>1, Zenon DEF TreeOK
  <1> QED BY <1>1, <1>5, RowsStayOK, Zenon

-----------------------------------------------------------------------------
\* The upload sessions

LEMMA SessionFacts ==
    ASSUME UploadsOK, NEW u \in Uploads
    PROVE  /\ uploads[u] \in Session
           /\ uploads[u].status = "absent" => uploads[u] = NoUpload
           /\ uploads[u].status # "absent" => Good(uploads[u])
           /\ None \notin Nodes
  <1>1. uploads[u] \in Session /\ SessionOK(u)
    BY Zenon DEF UploadsOK
  <1> QED BY <1>1, NodesAssumption, Zenon DEF SessionOK

\* A step that writes the row of one session.
LEMMA SetOK ==
    ASSUME UploadsOK, NEW u \in Uploads, NEW s \in Session, SetUpload(u, s), Good(s),
           InUse,
           s.node # None => /\ nodes'[s.node].status # "absent" /\ nodes'[s.node].dir = FALSE
                            /\ \A v \in Uploads \ {u} : uploads[v].node # s.node
    PROVE  UploadsOK'
  <1>1. uploads' \in [Uploads -> Session] /\ uploads'[u] = s
        /\ \A v \in Uploads \ {u} : uploads'[v] = uploads[v]
    BY Zenon DEF SetUpload, UploadsOK
  <1>2. ASSUME NEW v \in Uploads PROVE SessionOK(v)'
    <2>1. CASE v = u
      BY <1>1, <2>1, Zenon DEF SessionOK, Good, Frozen
    <2>2. CASE v # u
      <3>1. uploads'[v] = uploads[v] /\ SessionOK(v) /\ uploads[v] \in Session
        BY <1>1, <2>2, Zenon DEF UploadsOK
      <3>2. uploads[v].node # None => /\ nodes'[uploads[v].node].status # "absent"
                                      /\ nodes'[uploads[v].node].dir = FALSE
        BY <3>1, Zenon DEF SessionOK, Session, InUse
      <3> QED BY <3>1, <3>2, Zenon DEF SessionOK, Good
    <2> QED BY <2>1, <2>2, Zenon
  <1>3. ASSUME NEW v \in Uploads, NEW w \in Uploads, v # w, uploads'[v].node # None
        PROVE  uploads'[w].node # uploads'[v].node
    <2>1. CASE v = u
      BY <1>1, <1>3, <2>1, Zenon
    <2>2. CASE w = u
      <3>1. uploads'[w].node = s.node /\ uploads'[v].node = uploads[v].node
        BY <1>1, <1>3, <2>2, Zenon
      <3>2. v \in Uploads \ {u}
        BY <1>3, <2>2, Zenon
      <3> QED BY <1>3, <3>1, <3>2, Zenon
    <2>3. CASE v # u /\ w # u
      <3>1. uploads'[w].node = uploads[w].node /\ uploads'[v].node = uploads[v].node
        BY <1>1, <2>3, Zenon
      <3> QED BY <1>3, <3>1, Zenon DEF UploadsOK
    <2> QED BY <2>1, <2>2, <2>3, Zenon
  <1> QED BY <1>1, <1>2, <1>3, Zenon DEF UploadsOK

LEMMA UploadsStay ==
    ASSUME UploadsOK, uploads' = uploads, InUse
    PROVE  UploadsOK'
  <1>1. ASSUME NEW v \in Uploads PROVE SessionOK(v)'
    <2>1. SessionOK(v) /\ uploads[v] \in Session
      BY Zenon DEF UploadsOK
    <2>2. uploads[v].node # None => /\ nodes'[uploads[v].node].status # "absent"
                                    /\ nodes'[uploads[v].node].dir = FALSE
      BY <2>1, Zenon DEF SessionOK, Session, InUse
    <2> QED BY <2>1, <2>2, Zenon DEF SessionOK, Good
  <1> QED BY <1>1, Zenon DEF UploadsOK

\* A session step that leaves the tree alone and gives the session no file.
LEMMA SessionStep ==
    ASSUME IInv, NEW u \in Uploads, NEW s \in Session, SetUpload(u, s), Good(s),
           s.node = uploads[u].node, UNCHANGED tree
    PROVE  IInv'
  <1>1. nodes' = nodes /\ blobs' = blobs /\ objects' = objects /\ plans' = plans
        /\ finished' = finished
    BY Zenon DEF tree
  <1>2. TreeOK'
    BY <1>1, RowsStayOK, Zenon DEF IInv, TreeOK, TreeStepOK
  <1>3. s.node # None => /\ nodes'[s.node].status # "absent" /\ nodes'[s.node].dir = FALSE
                         /\ \A v \in Uploads \ {u} : uploads[v].node # s.node
    BY <1>1, Zenon DEF IInv, UploadsOK, SessionOK
  <1>4. UploadsOK'
    BY <1>1, <1>3, SetOK, Zenon DEF IInv, InUse
  <1> QED BY <1>2, <1>4, Zenon DEF IInv

LEMMA CreateUploadOK ==
    ASSUME IInv, NEW u \in Uploads, NEW p \in Nodes, NEW q \in Names, CreateUpload(u, p, q)
    PROVE  IInv'
  <1> PICK s : s = [NoUpload EXCEPT !.status = "created", !.parent = p, !.name = q]
    BY Zenon
  <1>1. /\ s \in Session /\ Good(s) /\ s.node = None
    BY Zenon DEF NoUpload, Session, Good, Frozen, Terminal, Status
  <1>2. SetUpload(u, s) /\ UNCHANGED tree /\ uploads[u].status = "absent"
    BY Zenon DEF CreateUpload
  <1>3. uploads[u].node = None
    <2>1. NoUpload.node = None
      BY Zenon DEF NoUpload
    <2> QED BY <1>2, <2>1, SessionFacts, Zenon DEF IInv
  <1> QED BY <1>1, <1>2, <1>3, SessionStep, Zenon

LEMMA MarkUploadingOK ==
    ASSUME IInv, NEW u \in Uploads, MarkUploading(u)
    PROVE  IInv'
  <1> PICK o \in Session : o = uploads[u]
    BY SessionFacts, Zenon DEF IInv
  <1> PICK s : s = [o EXCEPT !.status = "uploading"]
    BY Zenon
  <1>1. SetUpload(u, s) /\ UNCHANGED tree /\ o.status = "created" /\ Good(o)
    BY SessionFacts, Zenon DEF MarkUploading, IInv
  <1>2. s \in Session /\ Good(s) /\ s.node = o.node
    BY <1>1, Zenon DEF Session, Good, Frozen, Status
  <1> QED BY <1>1, <1>2, SessionStep, Zenon

LEMMA BeginCompleteOK ==
    ASSUME IInv, NEW u \in Uploads, NEW d \in Digests, BeginComplete(u, d)
    PROVE  IInv'
  <1> PICK o \in Session : o = uploads[u]
    BY SessionFacts, Zenon DEF IInv
  <1> PICK s : s = [o EXCEPT !.status = "completing", !.digest = d]
    BY Zenon
  <1>1. /\ SetUpload(u, s) /\ UNCHANGED tree /\ o.status \in {"created", "uploading"} /\ Good(o)
        /\ d # NoDigest
    BY SessionFacts, NodesAssumption, Zenon DEF BeginComplete, IInv
  <1>2. s \in Session /\ Good(s) /\ s.node = o.node
    BY <1>1, Zenon DEF Session, Good, Frozen, Status
  <1> QED BY <1>1, <1>2, SessionStep, Zenon

\* A session fails: at a refused completion or at a refused commit.
LEMMA FailedOK ==
    ASSUME IInv, NEW u \in Uploads, Failed(u), UNCHANGED tree,
           uploads[u].status \in {"completing", "object_completed"}
    PROVE  IInv'
  <1> PICK o \in Session : o = uploads[u]
    BY SessionFacts, Zenon DEF IInv
  <1> PICK s : s = [o EXCEPT !.status = "failed", !.cleanup = TRUE]
    BY Zenon
  <1>1. SetUpload(u, s) /\ o.status \in {"completing", "object_completed"} /\ Good(o)
    BY SessionFacts, Zenon DEF Failed, IInv
  <1>2. s \in Session /\ Good(s) /\ s.node = o.node
    BY <1>1, Zenon DEF Session, Good, Frozen, Terminal, Status
  <1> QED BY <1>1, <1>2, SessionStep, Zenon

LEMMA MarkObjectCompletedOK ==
    ASSUME IInv, NEW u \in Uploads, MarkObjectCompleted(u)
    PROVE  IInv'
  <1> PICK o \in Session : o = uploads[u]
    BY SessionFacts, Zenon DEF IInv
  <1> PICK s : s = [o EXCEPT !.status = "object_completed"]
    BY Zenon
  <1>1. SetUpload(u, s) /\ UNCHANGED tree /\ o.status = "completing" /\ Good(o)
    BY SessionFacts, Zenon DEF MarkObjectCompleted, IInv
  <1>2. s \in Session /\ Good(s) /\ s.node = o.node
    BY <1>1, Zenon DEF Session, Good, Frozen, Status
  <1> QED BY <1>1, <1>2, SessionStep, Zenon

LEMMA AbortUploadOK ==
    ASSUME IInv, NEW u \in Uploads, NEW target \in {"aborted", "expired"}, AbortUpload(u, target)
    PROVE  IInv'
  <1> PICK o \in Session : o = uploads[u]
    BY SessionFacts, Zenon DEF IInv
  <1> PICK s : s = [o EXCEPT !.status = target, !.cleanup = TRUE]
    BY Zenon
  <1>1. SetUpload(u, s) /\ UNCHANGED tree /\ o.status \in {"created", "uploading"} /\ Good(o)
    BY SessionFacts, Zenon DEF AbortUpload, IInv
  <1>2. s \in Session /\ Good(s) /\ s.node = o.node
    BY <1>1, Zenon DEF Session, Good, Frozen, Terminal, Status
  <1> QED BY <1>1, <1>2, SessionStep, Zenon

LEMMA CleanupOK ==
    ASSUME IInv, NEW u \in Uploads, MarkUploadCleanupComplete(u)
    PROVE  IInv'
  <1> PICK o \in Session : o = uploads[u]
    BY SessionFacts, Zenon DEF IInv
  <1> PICK s : s = [o EXCEPT !.cleanup = FALSE, !.error = FALSE]
    BY Zenon
  <1>1. SetUpload(u, s) /\ UNCHANGED tree /\ o.status \in Terminal /\ Good(o)
    BY SessionFacts, Zenon DEF MarkUploadCleanupComplete, IInv, Terminal
  <1>2. s \in Session /\ Good(s) /\ s.node = o.node
    BY <1>1, Zenon DEF Session, Good, Frozen, Status
  <1> QED BY <1>1, <1>2, SessionStep, Zenon

\* The file of a commit is a new node, so no other session has it.
LEMMA CommitUploadOK ==
    ASSUME IInv, NEW u \in Uploads, NEW d \in Digests, NEW n \in Nodes, CommitUpload(u, d, n)
    PROVE  IInv'
  <1> PICK o \in Session : o = uploads[u]
    BY SessionFacts, Zenon DEF IInv
  <1>1. o.status = "object_completed" /\ Good(o)
    BY SessionFacts, Zenon DEF CommitUpload, IInv
  <1>2. CASE Failed(u) /\ UNCHANGED tree
    BY <1>1, <1>2, FailedOK, Zenon
  <1>3. CASE /\ fresh(n) /\ activeDirectory(o.parent)
             /\ Insert(n, o.parent, o.name, FALSE)
             /\ blobs' = [blobs EXCEPT ![n] = "available"]
             /\ objects' = objects \cup {n}
             /\ SetUpload(u, [o EXCEPT !.status = "committed", !.node = n])
             /\ UNCHANGED <<plans, finished>>
    <2> PICK s : s = [o EXCEPT !.status = "committed", !.node = n]
      BY Zenon
    <2>0. o.parent \in Nodes /\ o.name \in Names /\ n # None
      BY <1>1, NodesAssumption, Zenon DEF Good
    <2>1. s \in Session /\ Good(s) /\ s.node = n
      BY <1>1, <2>0, Zenon DEF Session, Good, Frozen, Terminal, Status
    <2>2. /\ blobs' \in [Nodes -> {"none", "available", "pending_delete", "deleted"}]
          /\ objects' \in SUBSET Nodes
          /\ \A x \in Nodes \ {n} : blobs'[x] = blobs[x] /\ (x \in objects => x \in objects')
          /\ blobs'[n] = "available" /\ n \in objects'
      BY <1>3, Zenon DEF IInv, TreeOK
    <2>3. TreeStepOK
      BY <1>3, <2>0, <2>2, InsertOK, Zenon DEF IInv
    <2>4. nodes'[n].status # "absent" /\ nodes'[n].dir = FALSE
      <3>1. nodes'[n] = [Absent EXCEPT !.parent = o.parent, !.name = o.name, !.dir = FALSE,
                                       !.status = "active", !.revision = 1]
        BY <1>3, Zenon DEF Insert, IInv, TreeOK
      <3>2. nodes'[n].status = "active" /\ nodes'[n].dir = FALSE
        BY <3>1, Zenon DEF Absent
      <3> QED BY <3>2, Zenon
    <2>5. \A v \in Uploads : uploads[v].node # n
      BY <1>3, <2>0, Zenon DEF IInv, UploadsOK, SessionOK, fresh
    <2>6. SetUpload(u, s)
      BY <1>3, Zenon
    <2>7. UploadsOK'
      BY <2>1, <2>3, <2>4, <2>5, <2>6, SetOK, Zenon DEF IInv, TreeStepOK
    <2> QED BY <2>3, <2>7, Zenon DEF IInv, TreeStepOK
  <1> QED BY <1>2, <1>3, Zenon DEF CommitUpload

-----------------------------------------------------------------------------
\* The invariant

LEMMA InitOK ==
    ASSUME Init
    PROVE  IInv
  <1>0. 1 \in 0 .. MaxRevision /\ None \notin Nodes
    BY BoundAssumption, NodesAssumption
  <1> PICK root : root = [Absent EXCEPT !.dir = TRUE, !.status = "active", !.revision = 1]
    BY Zenon
  <1>1. /\ root \in Row /\ root.parent = None /\ root.name = None /\ root.dir = TRUE
        /\ root.status = "active" /\ root.trash = None /\ root.origin = None
    BY <1>0, AbsentFields, Zenon DEF Absent, Row
  <1>2. /\ nodes = [n \in Nodes |-> IF n = Root THEN root ELSE Absent]
        /\ blobs = [n \in Nodes |-> "none"] /\ objects = {} /\ plans = {} /\ finished = {}
        /\ uploads = [u \in Uploads |-> NoUpload]
    BY Zenon DEF Init
  <1>3. /\ nodes \in [Nodes -> Row] /\ nodes[Root] = root
        /\ \A n \in Nodes \ {Root} : nodes[n] = Absent
    BY <1>1, <1>2, AbsentFields, NodesAssumption, Zenon
  <1>4. ASSUME NEW n \in Nodes PROVE StatusOK(n) /\ PlaceOK(n) /\ ContentOK(n)
    <2>1. CASE n = Root
      <3>1. /\ nodes[n].status = "active" /\ nodes[n].trash = None /\ nodes[n].dir = TRUE
            /\ n # None
        BY <1>0, <1>1, <1>3, <2>1, Zenon
      <3> QED BY <2>1, <3>1, Zenon DEF StatusOK, PlaceOK, ContentOK
    <2>2. CASE n # Root
      <3>1. nodes[n] = Absent /\ nodes[n].status = "absent" /\ nodes[n].trash = None /\ n # None
        BY <1>0, <1>3, <2>2, AbsentFields, Zenon
      <3> QED BY <3>1, Zenon DEF StatusOK, PlaceOK, ContentOK
    <2> QED BY <2>1, <2>2, Zenon
  <1>5. RootOK
    BY <1>1, <1>3, Zenon DEF RootOK, visible
  <1>6. Rooted
    <2> SUFFICES ASSUME NEW n \in Nodes, nodes[n].status # "absent",
                        NEW S \in SUBSET Nodes, n \in S, Closed(Par, S)
                 PROVE  Root \in S
      BY Zenon DEF Rooted, Up
    <2>1. n = Root
      BY <1>3, AbsentFields, Zenon
    <2> QED BY <2>1, Zenon
  <1>7. TreeOK
    BY <1>2, <1>3, <1>4, <1>5, <1>6, Zenon DEF TreeOK
  <1>8. NoUpload \in Session /\ NoUpload.status = "absent" /\ NoUpload.node = None
        /\ NoUpload.cleanup = FALSE
    BY Zenon DEF NoUpload, Session, Status, Terminal
  <1>9. UploadsOK
    BY <1>2, <1>8, Zenon DEF UploadsOK, SessionOK
  <1> QED BY <1>7, <1>9, Zenon DEF IInv

LEMMA CreateDirectoryOK ==
    ASSUME TreeOK, NEW n \in Nodes, NEW p \in Nodes, NEW q \in Names, CreateDirectory(n, p, q)
    PROVE  TreeStepOK
  <1>1. /\ fresh(n) /\ activeDirectory(p) /\ Insert(n, p, q, TRUE) /\ UNCHANGED <<plans, finished>>
        /\ blobs' = blobs /\ objects' = objects
    BY Zenon DEF CreateDirectory
  <1> QED BY <1>1, InsertOK, Zenon DEF TreeOK

LEMMA TreeNextOK ==
    ASSUME IInv, TreeStep
    PROVE  TreeStepOK /\ uploads' = uploads
  <1> USE Zenon DEF IInv
  <1>1. CASE \E n, p \in Nodes, q \in Names : CreateDirectory(n, p, q)
    BY <1>1, CreateDirectoryOK DEF CreateDirectory
  <1>2. ASSUME NEW n \in Nodes, NEW rev \in 1 .. MaxRevision,
               NEW p \in Nodes \cup {None}, NEW q \in Names \cup {None}, UpdateNode(n, rev, p, q)
        PROVE  TreeStepOK /\ uploads' = uploads
    BY <1>2, UpdateOK DEF UpdateNode
  <1>3. ASSUME NEW n \in Nodes, NEW rev \in 1 .. MaxRevision, Recycle(n, rev)
        PROVE  TreeStepOK /\ uploads' = uploads
    BY <1>3, RecycleOK DEF Recycle
  <1>4. ASSUME NEW n \in Nodes, NEW rev \in 1 .. MaxRevision, Restore(n, rev)
        PROVE  TreeStepOK /\ uploads' = uploads
    BY <1>4, RestoreOK DEF Restore
  <1>5. ASSUME NEW n \in Nodes, NEW rev \in 1 .. MaxRevision, PreparePurge(n, rev)
        PROVE  TreeStepOK /\ uploads' = uploads
    BY <1>5, PreparePurgeOK DEF PreparePurge
  <1>6. ASSUME NEW n \in Nodes, ClaimRecycle(n)
        PROVE  TreeStepOK /\ uploads' = uploads
    BY <1>6, ClaimOK DEF ClaimRecycle
  <1>7. ASSUME NEW p \in plans, FinishPurge(p)
        PROVE  TreeStepOK /\ uploads' = uploads
    BY <1>7, FinishOK DEF FinishPurge
  <1>8. ASSUME NEW p \in plans, GiveUp(p)
        PROVE  TreeStepOK /\ uploads' = uploads
    BY <1>8, GiveUpOK DEF GiveUp
  <1>9. ASSUME NEW p \in plans, NEW x \in p.left, DeleteObject(p, x)
        PROVE  TreeStepOK /\ uploads' = uploads
    BY <1>9, DeleteOK DEF DeleteObject
  <1> QED BY <1>1, <1>2, <1>3, <1>4, <1>5, <1>6, <1>7, <1>8, <1>9 DEF TreeStep

\* Only a session that exists is due.
LEMMA ClaimedInUse ==
    ASSUME IInv, NEW u \in Uploads, ClaimUpload(u)
    PROVE  uploads[u].status \in Status /\ uploads[u].status # "absent"
  <1>1. ASSUME uploads[u].status = "absent" PROVE FALSE
    <2>1. uploads[u] = NoUpload
      BY <1>1, SessionFacts, Zenon DEF IInv
    <2>2. NoUpload.status = "absent" /\ NoUpload.cleanup = FALSE /\ NoUpload.error = FALSE
      BY Zenon DEF NoUpload
    <2> QED BY <2>1, <2>2, Zenon DEF ClaimUpload
  <1> QED BY <1>1, SessionFacts, Zenon DEF IInv, Session

LEMMA UploadNextOK ==
    ASSUME IInv, NEW u \in Uploads, UploadStep(u)
    PROVE  IInv'
  <1>1. ASSUME NEW d \in Digests, FailUploadCompletion(u, d) PROVE IInv'
    BY <1>1, FailedOK, Zenon DEF FailUploadCompletion
  <1> QED BY <1>1, CreateUploadOK, MarkUploadingOK, MarkObjectCompletedOK, CleanupOK,
             BeginCompleteOK, CommitUploadOK, AbortUploadOK, Zenon DEF UploadStep

\* What a claim writes is bound by what it saw.
LEMMA ResultFacts ==
    ASSUME NEW u \in Uploads, uploads[u].claim \in Status, NEW x \in Results(u)
    PROVE  /\ x.status \in Status /\ x.complete \in BOOLEAN /\ x.error \in BOOLEAN
           /\ uploads[u].claim \in Terminal => x.status = uploads[u].claim
           /\ uploads[u].claim \in {"created", "uploading"} => x.status = "expired"
           /\ uploads[u].claim \in {"completing", "object_completed"}
                => \/ x.status \in {"failed", "object_completed", uploads[u].claim}
                   \/ x.status = "committed" /\ uploads[u].node # None
  <1>1. \E st \in Status, c, e \in BOOLEAN :
            /\ x = Maintained(st, c, e)
            /\ uploads[u].claim \in Terminal => st = uploads[u].claim
            /\ uploads[u].claim \in {"created", "uploading"} => st = "expired"
            /\ uploads[u].claim \in {"completing", "object_completed"}
                => \/ st \in {"failed", "object_completed", uploads[u].claim}
                   \/ st = "committed" /\ uploads[u].node # None
    BY Zenon DEF Results, Status, Terminal
  <1>2. ASSUME NEW st \in Status, NEW c \in BOOLEAN, NEW e \in BOOLEAN, x = Maintained(st, c, e)
        PROVE  x.status = st /\ x.complete = c /\ x.error = e
    BY <1>2, Zenon DEF Maintained
  <1> QED BY <1>1, <1>2, Zenon

LEMMA ClaimUploadOK ==
    ASSUME IInv, NEW u \in Uploads, ClaimUpload(u)
    PROVE  IInv'
  <1> PICK o \in Session : o = uploads[u]
    BY SessionFacts, Zenon DEF IInv
  <1> PICK s : s = [o EXCEPT !.claim = o.status]
    BY Zenon
  <1>1. SetUpload(u, s) /\ UNCHANGED tree
    BY Zenon DEF ClaimUpload
  <1>2. o.status \in Status /\ Good(o)
    BY ClaimedInUse, SessionFacts, Zenon DEF IInv
  <1>3. s \in Session /\ s.node = o.node /\ s.claim = o.status /\ s.status = o.status
        /\ s.parent = o.parent /\ s.name = o.name /\ s.digest = o.digest
    BY <1>2, Zenon DEF Session
  <1>4. Good(s)
    BY <1>2, <1>3, Zenon DEF Good, Status, Terminal
  <1> QED BY <1>1, <1>3, <1>4, SessionStep, Zenon

LEMMA FinishMaintenanceOK ==
    ASSUME IInv, NEW u \in Uploads, uploads[u].claim \in Status, NEW x \in Results(u),
           FinishUploadMaintenance(u, x)
    PROVE  IInv'
  <1> PICK o \in Session : o = uploads[u]
    BY SessionFacts, Zenon DEF IInv
  <1> PICK s : s = [o EXCEPT !.status = x.status, !.cleanup = ~x.complete,
                             !.error = x.error, !.claim = "free"]
    BY Zenon
  <1>1. SetUpload(u, s) /\ UNCHANGED tree
    BY Zenon DEF FinishUploadMaintenance
  <1>2. /\ x.status \in Status /\ x.complete \in BOOLEAN /\ x.error \in BOOLEAN
        /\ o.claim \in Terminal => x.status = o.claim
        /\ o.claim \in {"created", "uploading"} => x.status = "expired"
        /\ o.claim \in {"completing", "object_completed"}
             => \/ x.status \in {"failed", "object_completed", o.claim}
                \/ x.status = "committed" /\ o.node # None
    BY ResultFacts, Zenon
  <1>3. o.claim \in Status /\ Good(o)
    <2>1. NoUpload.claim \notin Status
      BY Zenon DEF NoUpload, Status, Terminal
    <2> QED BY <2>1, SessionFacts, Zenon DEF IInv
  <1>4. /\ s \in Session /\ s.node = o.node /\ s.claim = "free" /\ s.status = x.status
        /\ s.parent = o.parent /\ s.name = o.name /\ s.digest = o.digest
    <2>1. (~x.complete) \in BOOLEAN
      BY Zenon
    <2> QED BY <1>2, <2>1, Zenon DEF Session
  <1>5. Good(s)
    <2>1. x.status \in Frozen => o.claim \in Frozen
      BY <1>2, <1>3, Zenon DEF Frozen, Status, Terminal
    <2>2. x.status = "committed" => o.node # None
      BY <1>2, <1>3, Zenon DEF Good, Status, Terminal
    <2>3. x.status # "absent"
      BY <1>2, Zenon DEF Status, Terminal
    <2> QED BY <1>3, <1>4, <2>1, <2>2, <2>3, Zenon DEF Good, Frozen
  <1> QED BY <1>1, <1>4, <1>5, SessionStep, Zenon

LEMMA MaintenanceNextOK ==
    ASSUME IInv, NEW u \in Uploads, MaintenanceStep(u)
    PROVE  IInv'
  BY ClaimUploadOK, FinishMaintenanceOK, Zenon DEF MaintenanceStep

LEMMA NextOK == IInv /\ [Next]_vars => IInv'
  <1> SUFFICES ASSUME IInv, [Next]_vars PROVE IInv'
    BY Zenon
  <1>1. CASE TreeStep
    <2>1. TreeStepOK /\ uploads' = uploads
      BY <1>1, TreeNextOK, Zenon
    <2>2. UploadsOK'
      BY <2>1, UploadsStay, Zenon DEF IInv, TreeStepOK
    <2> QED BY <2>1, <2>2, Zenon DEF IInv, TreeStepOK
  <1>2. CASE \E u \in Uploads : UploadStep(u) \/ MaintenanceStep(u)
    BY <1>2, UploadNextOK, MaintenanceNextOK, Zenon
  <1>3. CASE UNCHANGED vars
    <2>1. nodes' = nodes /\ blobs' = blobs /\ objects' = objects /\ plans' = plans
          /\ finished' = finished /\ uploads' = uploads
      BY <1>3, Zenon DEF vars
    <2>2. TreeStepOK
      BY <2>1, RowsStayOK, Zenon DEF IInv, TreeOK
    <2>3. UploadsOK'
      BY <2>1, UploadsStay, Zenon DEF IInv, InUse
    <2> QED BY <2>2, <2>3, Zenon DEF IInv, TreeStepOK
  <1> QED BY <1>1, <1>2, <1>3, Zenon DEF Next

\* Every call of the repository, and every call a purge is cut short at, leaves the
\* maps in the shape the walks and the purge rely on: no cycle of parents, entries
\* whole, and the content of what is not being purged in place.
THEOREM Invariance == Spec => []IInv
  <1>1. Init => IInv
    BY InitOK, Zenon
  <1>2. IInv /\ [Next]_vars => IInv'
    BY NextOK, Zenon
  <1> QED BY <1>1, <1>2, PTL DEF Spec

\* The rows, sessions and plans of the development backend keep their shape, whatever
\* stale result FinishUploadMaintenance writes: a frozen session has its part list, a
\* committed one a file of its own, and a file is committed while nothing was claimed.
THEOREM MemoryTypeCorrect == Spec => []MemoryTypeOK
  <1>1. IInv => MemoryTypeOK
    BY IsTyped, Zenon
  <1> QED BY <1>1, Invariance, PTL

\* DownloadBlob of the visible file of a session finds its blob and its object,
\* whatever is recycled, restored, purged or claimed around it.
THEOREM DownloadsFind == Spec => []DownloadFindsContent
  <1>1. IInv => DownloadFindsContent
    <2> SUFFICES ASSUME IInv, NEW u \in Uploads, NEW n, n = uploads[u].node, n # None, visible(n)
                 PROVE  blobs[n] = "available" /\ n \in objects
      BY Zenon DEF DownloadFindsContent
    <2>1. n \in Nodes /\ nodes[n].status # "absent" /\ nodes[n].dir = FALSE
      BY SessionFacts, Zenon DEF IInv, UploadsOK, SessionOK, Session
    <2>2. ContentOK(n) /\ nodes[n].trash = None
      BY <2>1, Zenon DEF IInv, TreeOK, visible
    <2> QED BY <2>1, <2>2, Zenon DEF ContentOK
  <1> QED BY <1>1, Invariance, PTL

-----------------------------------------------------------------------------
\* The tree of the maps

\* Places, entries and purges of the tree are read off the rows.
LEMMA Mapped ==
    ASSUME NEW n \in Nodes
    PROVE  /\ TreePlace[n].parent = nodes[n].parent
           /\ TreePlace[n].name = nodes[n].name
           /\ TreePlace[n].dir = nodes[n].dir
           /\ TreeEntry[n] = nodes[n].trash
           /\ n \in TreePurging <=> (nodes[n].trash = n /\ nodes[n].status = "purging")
  BY Zenon DEF TreePlace, TreeEntry, TreePurging

\* A node is shown when its row is visible.
LEMMA ShownVisible ==
    ASSUME TreeOK, NEW n \in Nodes
    PROVE  /\ Tree!InUse(n) <=> nodes[n].status # "absent"
           /\ Tree!Shown(n) <=> visible(n)
           /\ Tree!Directory(n) <=> activeDirectory(n)
  <1>1. n # Root => (nodes[n].parent # None <=> nodes[n].status # "absent")
    <2>1. nodes[n].status = "absent" => nodes[n].parent = None
      BY Fields, AbsentFields, Zenon DEF StatusOK
    <2>2. n # Root /\ nodes[n].status # "absent" => nodes[n].parent # None
      BY Fields, Zenon DEF PlaceOK
    <2> QED BY <2>1, <2>2, Zenon
  <1>2. nodes[Root].status # "absent"
    BY Zenon DEF TreeOK, RootOK, visible
  <1>3. Tree!InUse(n) <=> nodes[n].status # "absent"
    BY <1>1, <1>2, Mapped, Zenon DEF Tree!InUse
  <1>4. Tree!Shown(n) <=> visible(n)
    BY <1>3, Mapped, VisibleFacts, Zenon DEF Tree!Shown
  <1> QED BY <1>3, <1>4, Mapped, Zenon DEF Tree!Directory, activeDirectory

\* A name that nameExists does not find is free.
LEMMA FreeName ==
    ASSUME TreeOK, NEW n \in Nodes, NEW m \in {n, None}, NEW p, NEW q, ~nameExists(p, q, m)
    PROVE  Tree!Free(p, q, n)
  <1> SUFFICES ASSUME NEW x \in Nodes \ {n, Root}, Tree!Shown(x),
                      TreePlace[x].parent = p /\ TreePlace[x].name = q
               PROVE  FALSE
    BY Zenon DEF Tree!Free
  <1>1. visible(x) /\ nodes[x].parent = p /\ nodes[x].name = q
    BY ShownVisible, Mapped, Zenon
  <1>2. x \in Nodes \ {m}
    BY NodesAssumption, Zenon
  <1> QED BY <1>1, <1>2, Zenon DEF nameExists

\* The loops walk the tree.
LEMMA SameWalks ==
    ASSUME TreeOK, NEW n \in Nodes
    PROVE  Tree!Above(n) = Above(n) /\ Tree!Below(n) = activeSubtree(n)
  <1>1. ASSUME NEW S \in SUBSET Nodes
        PROVE  Closed(Par, S) <=>
                 \A y \in S : TreePlace[y].parent # None => TreePlace[y].parent \in S
    BY <1>1, Mapped, Zenon DEF Closed, Par
  <1>2. ASSUME NEW S \in SUBSET Nodes
        PROVE  Hanging(S) <=>
                 \A y \in Nodes : (Tree!Shown(y) /\ TreePlace[y].parent \in S) => y \in S
    BY <1>2, Mapped, ShownVisible, Zenon DEF Hanging
  <1>3. Tree!Above(n) = Above(n)
    BY <1>1, Zenon DEF Tree!Above, Above
  <1>4. Tree!Below(n) = Below({n})
    BY <1>2, Zenon DEF Tree!Below, Below
  <1> QED BY <1>3, <1>4, SubtreeIsBelow, Zenon

\* No node lies above its own parent.
LEMMA NoCycle ==
    ASSUME TreeOK, NEW n \in Nodes, NEW p \in Nodes, p = nodes[n].parent
    PROVE  n \notin Above(p)
  <1> SUFFICES ASSUME n \in Above(p) PROVE FALSE
    BY Zenon
  <1>0. nodes \in [Nodes -> Row]
    BY Zenon DEF TreeOK
  <1> DEFINE S == {x \in Nodes : n \in Above(x)}
  <1>1. ASSUME NEW x \in S PROVE nodes[x].parent \in S
    <2>1. CASE x = n
      BY <2>1, Zenon
    <2>2. CASE x # n
      <3>1. nodes[x].parent # None
        <4> SUFFICES ASSUME nodes[x].parent = None PROVE FALSE
          BY Zenon
        <4>1. {x} \in SUBSET Nodes /\ Closed(Par, {x})
          BY Zenon DEF Closed, Par
        <4> QED BY <2>2, <4>1, Zenon DEF Above
      <3> PICK y \in Nodes : y = nodes[x].parent
        BY <1>0, <3>1, Zenon DEF Row
      <3>2. Above(x) = {x} \cup Above(y)
        BY <1>0, AboveParent, Zenon
      <3> QED BY <2>2, <3>2, Zenon
    <2> QED BY <2>1, <2>2, Zenon
  <1>2. S \in SUBSET Nodes /\ S # {}
    BY Zenon
  <1> HIDE DEF S
  <1> QED BY <1>1, <1>2, Forest, Zenon

\* A write that keeps every place, entry or purge.
LEMMA SamePlace ==
    ASSUME \A n \in Nodes : /\ nodes'[n].parent = nodes[n].parent
                            /\ nodes'[n].name = nodes[n].name
                            /\ nodes'[n].dir = nodes[n].dir
    PROVE  TreePlace' = TreePlace
  BY Zenon DEF TreePlace

LEMMA InsertAdds ==
    ASSUME TreeOK, NEW n \in Nodes, NEW p \in Nodes, NEW q \in Names, NEW d \in BOOLEAN,
           NEW m \in {n, None},
           fresh(n), activeDirectory(p), ~nameExists(p, q, m), Insert(n, p, q, d),
           objects' = IF d THEN objects ELSE objects \cup {n}
    PROVE  Tree!Operation
  <1>1. ~Tree!InUse(n) /\ Tree!Directory(p) /\ Tree!Free(p, q, n)
    BY ShownVisible, FreeName, Zenon DEF fresh
  <1> PICK new : new = [Absent EXCEPT !.parent = p, !.name = q, !.dir = d,
                                      !.status = "active", !.revision = 1]
    BY Zenon
  <1>2. /\ new.parent = p /\ new.name = q /\ new.dir = d /\ new.trash = None
    BY Zenon DEF Absent
  <1>3. nodes'[n] = new /\ \A x \in Nodes : x # n => nodes'[x] = nodes[x]
    BY Zenon DEF Insert, TreeOK
  <1>4. /\ nodes'[n].parent = p /\ nodes'[n].name = q /\ nodes'[n].dir = d
        /\ nodes'[n].trash = None /\ nodes[n].trash = None /\ n # None
    BY <1>2, <1>3, Fields, AbsentFields, Zenon DEF fresh, StatusOK
  <1>5. TreePlace' = [TreePlace EXCEPT ![n] = [parent |-> p, name |-> q, dir |-> d]]
    <2>1. [parent |-> nodes'[n].parent, name |-> nodes'[n].name, dir |-> nodes'[n].dir]
          = [parent |-> p, name |-> q, dir |-> d]
      BY <1>4, Zenon
    <2>2. \A x \in Nodes : x # n =>
            [parent |-> nodes'[x].parent, name |-> nodes'[x].name, dir |-> nodes'[x].dir]
            = [parent |-> nodes[x].parent, name |-> nodes[x].name, dir |-> nodes[x].dir]
      BY <1>3, Zenon
    <2> QED BY <2>1, <2>2, Zenon DEF TreePlace
  <1>6. TreeEntry' = TreeEntry /\ TreePurging' = TreePurging
    <2>1. ASSUME NEW x \in Nodes
          PROVE  /\ nodes'[x].trash = nodes[x].trash
                 /\ (nodes'[x].trash = x /\ nodes'[x].status = "purging")
                    <=> (nodes[x].trash = x /\ nodes[x].status = "purging")
      BY <1>3, <1>4, Zenon
    <2> QED BY <2>1, Zenon DEF TreeEntry, TreePurging
  <1>7. Tree!Add(n, p, q, d)
    BY <1>1, <1>5, <1>6, Zenon DEF Tree!Add
  <1> QED BY <1>7, Zenon DEF Tree!Operation

LEMMA UpdateMoves ==
    ASSUME TreeOK, NEW n \in Nodes, NEW rev \in 1 .. MaxRevision,
           NEW pp \in Nodes \cup {None}, NEW qq \in Names \cup {None},
           UpdateNode(n, rev, pp, qq)
    PROVE  Tree!Operation
  <1>1. /\ n # Root /\ visible(n) /\ nodes[n] \in Row /\ PlaceOK(n)
        /\ nodes[n].parent \in Nodes /\ nodes[n].name \in Names /\ nodes[n].trash = None
        /\ nodes[n].status # "absent" /\ n # None
    BY Fields, Zenon DEF UpdateNode, visible, PlaceOK
  <1>2. PICK p \in Nodes, q \in Names :
            /\ p = IF pp = None THEN nodes[n].parent ELSE pp
            /\ q = IF qq = None THEN nodes[n].name ELSE qq
    BY <1>1, Zenon
  <1>3. (pp = None => p = nodes[n].parent) /\ (pp # None => p = pp)
    BY <1>2, Zenon
  <1>4. /\ nodes' = [nodes EXCEPT ![n] = Moved(nodes[n], p, q)] /\ ~nameExists(p, q, n)
        /\ objects' = objects
    BY <1>2, Zenon DEF UpdateNode, Moved
  <1>5. /\ nodes'[n].parent = p /\ nodes'[n].name = q /\ nodes'[n].dir = nodes[n].dir
        /\ nodes'[n].trash = None
        /\ \A x \in Nodes : x # n => nodes'[x] = nodes[x]
    <2>1. nodes'[n] = Moved(nodes[n], p, q) /\ \A x \in Nodes : x # n => nodes'[x] = nodes[x]
      BY <1>4, Zenon DEF TreeOK
    <2> PICK r \in Row : r = nodes[n]
      BY <1>1, Zenon
    <2>2. /\ Moved(r, p, q).parent = p /\ Moved(r, p, q).name = q
          /\ Moved(r, p, q).dir = r.dir /\ Moved(r, p, q).trash = r.trash
      BY Zenon DEF Row, Moved
    <2> QED BY <1>1, <2>1, <2>2, Zenon
  <1>6. activeDirectory(p) /\ (nodes[n].dir => n \notin Above(p))
    <2>1. CASE pp = None
      <3>1. p = nodes[n].parent
        BY <1>3, <2>1, Zenon
      <3>2. nodes[p].dir /\ nodes[p].trash = None
        BY <1>1, <3>1, Zenon DEF PlaceOK
      <3>3. nodes[p].status # "absent"
        <4>1. Absent.dir = FALSE
          BY AbsentFields, Zenon
        <4> QED BY <3>2, <4>1, Fields, Zenon DEF StatusOK
      <3> QED BY <3>1, <3>2, <3>3, NoCycle, VisibleFacts, Zenon DEF activeDirectory
    <2>2. CASE pp # None
      BY <1>3, <2>2, DescendantIsBelow, Zenon DEF UpdateNode
    <2> QED BY <2>1, <2>2, Zenon
  <1>7. TreePlace' = [TreePlace EXCEPT ![n] =
                        [parent |-> p, name |-> q, dir |-> TreePlace[n].dir]]
    BY <1>5, Mapped, Zenon DEF TreePlace
  <1>8. TreeEntry' = TreeEntry /\ TreePurging' = TreePurging
    BY <1>1, <1>5 DEF TreeEntry, TreePurging
  <1>9. /\ Tree!Shown(n) /\ Tree!Directory(p) /\ Tree!Free(p, q, n)
        /\ TreePlace[n].dir => n \notin Tree!Above(p)
    BY <1>1, <1>4, <1>6, ShownVisible, FreeName, SameWalks, Mapped, Zenon
  <1>10. Tree!Move(n, p, q)
    BY <1>1, <1>4, <1>7, <1>8, <1>9, Zenon DEF Tree!Move
  <1> QED BY <1>10, Zenon DEF Tree!Operation

LEMMA RecycleDiscards ==
    ASSUME TreeOK, NEW n \in Nodes, NEW rev \in 1 .. MaxRevision, Recycle(n, rev)
    PROVE  Tree!Operation
  <1> PICK T \in SUBSET Nodes : T = activeSubtree(n)
    BY SubtreeOK, Zenon
  <1>1. n # Root /\ visible(n) /\ objects' = objects
    BY RecycleWrites, Zenon
  <1>2. n \in T /\ \A x \in T : visible(x)
    BY <1>1, SubtreeOK, Zenon
  <1>3. \A x \in Nodes :
          /\ nodes'[x].parent = nodes[x].parent /\ nodes'[x].name = nodes[x].name
          /\ nodes'[x].dir = nodes[x].dir
          /\ x \notin T => nodes'[x] = nodes[x]
          /\ x \in T => nodes'[x].trash = n
          /\ x = n => nodes'[x].status = "trashed"
    BY RecycleWrites, Zenon
  <1>4. TreePlace' = TreePlace
    BY <1>3, SamePlace, Zenon
  <1>5. TreeEntry' = [x \in Nodes |-> IF x \in T THEN n ELSE TreeEntry[x]]
    BY <1>3, Mapped DEF TreeEntry
  <1>6. TreePurging' = TreePurging
    <2>1. ASSUME NEW x \in T
          PROVE  ~(nodes[x].trash = x) /\ ~(nodes'[x].trash = x /\ nodes'[x].status = "purging")
      <3>1. nodes[x].trash = None /\ x # None
        BY <1>2, NodesAssumption, Zenon DEF visible
      <3>2. nodes'[x].trash = n /\ (x = n => nodes'[x].status = "trashed")
        BY <1>3, Zenon
      <3> QED BY <3>1, <3>2, Zenon
    <2>2. ASSUME NEW x \in Nodes
          PROVE  (nodes'[x].trash = x /\ nodes'[x].status = "purging")
                 <=> (nodes[x].trash = x /\ nodes[x].status = "purging")
      BY <1>3, <2>1, Zenon
    <2> QED BY <2>2, Zenon DEF TreePurging
  <1>7. Tree!Shown(n) /\ Tree!Below(n) = T
    BY <1>1, ShownVisible, SameWalks, Zenon
  <1>8. Tree!Discard(n)
    BY <1>1, <1>4, <1>5, <1>6, <1>7, Zenon DEF Tree!Discard
  <1> QED BY <1>8, Zenon DEF Tree!Operation

LEMMA RestoreReturns ==
    ASSUME TreeOK, NEW n \in Nodes, NEW rev \in 1 .. MaxRevision, Restore(n, rev)
    PROVE  Tree!Operation
  <1>1. /\ nodes[n].status = "trashed" /\ nodes[n].trash = n /\ objects' = objects
        /\ activeDirectory(nodes[n].parent) /\ ~nameExists(nodes[n].parent, nodes[n].name, n)
    BY RestoreWrites, Zenon
  <1>2. \A x \in Nodes :
          /\ nodes'[x].parent = nodes[x].parent /\ nodes'[x].name = nodes[x].name
          /\ nodes'[x].dir = nodes[x].dir
          /\ nodes[x].trash # n => nodes'[x] = nodes[x]
          /\ nodes[x].trash = n => nodes'[x].trash = None /\ nodes'[x].status = "active"
    BY RestoreWrites, Zenon
  <1>3. nodes[n].parent \in Nodes
    <2>1. n # Root
      BY <1>1, Zenon DEF TreeOK, RootOK, visible
    <2> QED BY <1>1, <2>1, Fields, Zenon DEF PlaceOK
  <1>4. TreePlace' = TreePlace
    BY <1>2, SamePlace, Zenon
  <1>5. TreeEntry' = [x \in Nodes |-> IF TreeEntry[x] = n THEN None ELSE TreeEntry[x]]
    <2>1. ASSUME NEW x \in Nodes
          PROVE  nodes'[x].trash = IF TreeEntry[x] = n THEN None ELSE TreeEntry[x]
      <3>1. TreeEntry[x] = nodes[x].trash
        BY Mapped, Zenon
      <3>2. nodes[x].trash # n => nodes'[x].trash = nodes[x].trash
        BY <1>2, Zenon
      <3>3. nodes[x].trash = n => nodes'[x].trash = None
        BY <1>2, Zenon
      <3> QED BY <3>1, <3>2, <3>3, Zenon
    <2> QED BY <2>1, Zenon DEF TreeEntry
  <1>6. TreePurging' = TreePurging
    <2>1. ASSUME NEW x \in Nodes, nodes[x].trash = n
          PROVE  /\ ~(nodes[x].trash = x /\ nodes[x].status = "purging")
                 /\ ~(nodes'[x].trash = x)
      <3>1. nodes'[x].trash = None /\ x # None
        BY <1>2, <2>1, NodesAssumption, Zenon
      <3> QED BY <1>1, <2>1, <3>1, Zenon
    <2>2. ASSUME NEW x \in Nodes
          PROVE  (nodes'[x].trash = x /\ nodes'[x].status = "purging")
                 <=> (nodes[x].trash = x /\ nodes[x].status = "purging")
      <3>1. CASE nodes[x].trash = n
        BY <2>1, <3>1, Zenon
      <3>2. CASE nodes[x].trash # n
        <4>1. nodes'[x] = nodes[x]
          BY <1>2, <3>2, Zenon
        <4> QED BY <4>1, Zenon
      <3> QED BY <3>1, <3>2, Zenon
    <2> QED BY <2>2, Zenon DEF TreePurging
  <1>7. /\ TreeEntry[n] = n /\ n \notin TreePurging
        /\ Tree!Directory(TreePlace[n].parent)
        /\ Tree!Free(TreePlace[n].parent, TreePlace[n].name, n)
    <2>1. TreePlace[n].parent = nodes[n].parent /\ TreePlace[n].name = nodes[n].name
      BY Mapped, Zenon
    <2>2. Tree!Directory(nodes[n].parent)
      BY <1>1, <1>3, ShownVisible, Zenon
    <2>3. Tree!Free(nodes[n].parent, nodes[n].name, n)
      BY <1>1, FreeName, Zenon
    <2> QED BY <1>1, <2>1, <2>2, <2>3, Mapped, Zenon
  <1>8. Tree!Return(n)
    BY <1>1, <1>4, <1>5, <1>6, <1>7, Zenon DEF Tree!Return
  <1> QED BY <1>8, Zenon DEF Tree!Operation

\* A claim marks the entry alone, a purge all of it: the tree sees the same.
LEMMA PurgingMarks ==
    ASSUME TreeOK, NEW n \in Nodes, nodes[n].trash = n, objects' = objects,
           \A x \in Nodes :
             /\ nodes'[x].parent = nodes[x].parent /\ nodes'[x].name = nodes[x].name
             /\ nodes'[x].dir = nodes[x].dir /\ nodes'[x].trash = nodes[x].trash
             /\ nodes[x].trash # n => nodes'[x].status = nodes[x].status
             /\ x = n => nodes'[x].status = "purging"
    PROVE  Tree!Operation
  <1>1. TreePlace' = TreePlace
    BY SamePlace, Zenon
  <1>2. TreeEntry' = TreeEntry
    BY Zenon DEF TreeEntry
  <1>3. TreePurging' = TreePurging \cup {n}
    <2>1. ASSUME NEW x \in Nodes
          PROVE  (nodes'[x].trash = x /\ nodes'[x].status = "purging")
                 <=> (nodes[x].trash = x /\ nodes[x].status = "purging") \/ x = n
      BY Zenon
    <2> QED BY <2>1, Zenon DEF TreePurging
  <1>4. TreeEntry[n] = n
    BY Mapped, Zenon
  <1>5. Tree!Purge(n)
    BY <1>1, <1>2, <1>3, <1>4, Zenon DEF Tree!Purge
  <1> QED BY <1>5, Zenon DEF Tree!Operation

LEMMA PrepareMarks ==
    ASSUME TreeOK, NEW n \in Nodes, NEW rev \in 1 .. MaxRevision, PreparePurge(n, rev)
    PROVE  Tree!Operation
  <1>1. nodes[n].trash = n /\ objects' = objects
    BY Zenon DEF PreparePurge, recycleEntry
  <1>2. ASSUME NEW x \in Nodes
        PROVE  /\ nodes'[x].parent = nodes[x].parent /\ nodes'[x].name = nodes[x].name
               /\ nodes'[x].dir = nodes[x].dir /\ nodes'[x].trash = nodes[x].trash
               /\ nodes[x].trash # n => nodes'[x].status = nodes[x].status
               /\ x = n => nodes'[x].status = "purging"
    <2> PICK r \in Row : r = nodes[x]
      BY Fields, Zenon
    <2>1. CASE r.trash = n
      <3>1. nodes'[x] = [r EXCEPT !.status = "purging"]
        BY <2>1, Zenon DEF PreparePurge, trashedSubtree
      <3> QED BY <2>1, <3>1, Zenon DEF Row
    <2>2. CASE r.trash # n
      <3>1. nodes'[x] = r /\ x # n
        BY <1>1, <2>2, Zenon DEF PreparePurge, trashedSubtree
      <3> QED BY <2>2, <3>1, Zenon
    <2> QED BY <2>1, <2>2, Zenon
  <1> QED BY <1>1, <1>2, PurgingMarks, Zenon

LEMMA ClaimMarks ==
    ASSUME TreeOK, NEW n \in Nodes, ClaimRecycle(n)
    PROVE  Tree!Operation
  <1>1. nodes[n].trash = n /\ objects' = objects
    BY Zenon DEF ClaimRecycle, recycleEntry
  <1>2. ASSUME NEW x \in Nodes
        PROVE  /\ nodes'[x].parent = nodes[x].parent /\ nodes'[x].name = nodes[x].name
               /\ nodes'[x].dir = nodes[x].dir /\ nodes'[x].trash = nodes[x].trash
               /\ nodes[x].trash # n => nodes'[x].status = nodes[x].status
               /\ x = n => nodes'[x].status = "purging"
    <2> PICK r \in Row : r = nodes[x]
      BY Fields, Zenon
    <2>1. CASE x = n
      <3>1. nodes'[x] = [r EXCEPT !.status = "purging"] /\ r.trash = n
        BY <1>1, <2>1, Zenon DEF ClaimRecycle, TreeOK
      <3> QED BY <2>1, <3>1, Zenon DEF Row
    <2>2. CASE x # n
      <3>1. nodes'[x] = r
        BY <2>2, Zenon DEF ClaimRecycle, TreeOK
      <3> QED BY <2>2, <3>1, Zenon
    <2> QED BY <2>1, <2>2, Zenon
  <1> QED BY <1>1, <1>2, PurgingMarks, Zenon

LEMMA DeleteErases ==
    ASSUME TreeOK, NEW p \in plans, NEW x \in p.left, DeleteObject(p, x)
    PROVE  Tree!Operation
  <1>1. /\ p.root \in Nodes /\ x \in Nodes /\ nodes[x].trash = p.root
        /\ nodes[p.root].trash = p.root /\ nodes[p.root].status = "purging"
    BY PlannedGone, Zenon DEF PlanOK
  <1>2. p.root \in TreePurging /\ TreeEntry[x] = p.root /\ {x} \in SUBSET Nodes
    BY <1>1, Mapped, Zenon
  <1>3. /\ TreePlace' = TreePlace /\ TreeEntry' = TreeEntry /\ TreePurging' = TreePurging
        /\ objects' = objects \ {x}
    BY Zenon DEF DeleteObject, TreePlace, TreeEntry, TreePurging
  <1>4. Tree!Erase(p.root, {x})
    BY <1>2, <1>3, Zenon DEF Tree!Erase
  <1> QED BY <1>1, <1>2, <1>4, Zenon DEF Tree!Operation

\* A step that writes neither rows nor objects.
LEMMA QuietTree ==
    ASSUME nodes' = nodes, objects' = objects
    PROVE  UNCHANGED Tree!treeVars
  BY Zenon DEF Tree!treeVars, TreePlace, TreeEntry, TreePurging

LEMMA CommitAdds ==
    ASSUME IInv, NEW u \in Uploads, NEW d \in Digests, NEW n \in Nodes, CommitUpload(u, d, n)
    PROVE  Tree!Operation \/ UNCHANGED Tree!treeVars
  <1> PICK o : o = uploads[u]
    BY Zenon
  <1>1. Good(o) /\ o.parent \in Nodes /\ o.name \in Names
    BY SessionFacts, Zenon DEF CommitUpload, IInv, Good
  <1>2. CASE UNCHANGED tree
    BY <1>2, QuietTree, Zenon DEF tree
  <1>3. CASE /\ fresh(n) /\ activeDirectory(o.parent) /\ ~nameExists(o.parent, o.name, None)
             /\ Insert(n, o.parent, o.name, FALSE)
             /\ objects' = objects \cup {n}
    BY <1>1, <1>3, InsertAdds, Zenon DEF IInv
  <1> QED BY <1>2, <1>3, Zenon DEF CommitUpload

LEMMA TreeStepMapped ==
    ASSUME TreeOK, TreeStep
    PROVE  Tree!Operation \/ UNCHANGED Tree!treeVars
  <1>1. ASSUME NEW n \in Nodes, NEW p \in Nodes, NEW q \in Names, CreateDirectory(n, p, q)
        PROVE  Tree!Operation
    BY <1>1, InsertAdds, Zenon DEF CreateDirectory
  <1>2. ASSUME NEW p \in plans, FinishPurge(p) \/ GiveUp(p)
        PROVE  UNCHANGED Tree!treeVars
    BY <1>2, QuietTree, Zenon DEF FinishPurge, GiveUp
  <1> QED BY <1>1, <1>2, UpdateMoves, RecycleDiscards, RestoreReturns, PrepareMarks, ClaimMarks,
             DeleteErases, Zenon DEF TreeStep

LEMMA UploadStepMapped ==
    ASSUME IInv, NEW u \in Uploads, UploadStep(u)
    PROVE  Tree!Operation \/ UNCHANGED Tree!treeVars
  <1>1. CASE UNCHANGED tree
    BY <1>1, QuietTree, Zenon DEF tree
  <1> QED BY <1>1, CommitAdds, Zenon
          DEF UploadStep, CreateUpload, MarkUploading, MarkObjectCompleted,
              MarkUploadCleanupComplete, BeginComplete, FailUploadCompletion, AbortUpload

LEMMA MaintenanceStepMapped ==
    ASSUME NEW u \in Uploads, MaintenanceStep(u)
    PROVE  UNCHANGED Tree!treeVars
  BY QuietTree, Zenon DEF MaintenanceStep, ClaimUpload, FinishUploadMaintenance, tree

\* The development backend promises the tree that PostgreSQL promises: its loops over
\* the maps, its claims and its purges cut short anywhere are whole operations.
THEOREM MemoryTree == Spec => MemoryImplementsTree
  <1>1. Init => Tree!TreeInit
    <2> SUFFICES ASSUME Init PROVE Tree!TreeInit
      BY Zenon
    <2>1. ASSUME NEW n \in Nodes
          PROVE  /\ nodes[n].parent = None /\ nodes[n].name = None
                 /\ nodes[n].dir = (n = Root) /\ nodes[n].trash = None
      <3>1. CASE n = Root
        BY <3>1, Zenon DEF Init, Absent
      <3>2. CASE n # Root
        BY <3>2, Zenon DEF Init, Absent
      <3> QED BY <3>1, <3>2, Zenon
    <2>2. TreePlace = [n \in Nodes |-> [Tree!Nowhere EXCEPT !.dir = (n = Root)]]
      BY <2>1, Zenon DEF TreePlace, Tree!Nowhere
    <2>3. TreeEntry = [n \in Nodes |-> None] /\ TreePurging = {}
      BY <2>1, NodesAssumption, Zenon DEF TreeEntry, TreePurging
    <2> QED BY <2>2, <2>3, Zenon DEF Init, Tree!TreeInit
  <1>2. IInv /\ [Next]_vars => [Tree!TreeNext]_(Tree!treeVars)
    <2> SUFFICES ASSUME IInv, [Next]_vars
                 PROVE  Tree!Operation \/ UNCHANGED Tree!treeVars
      BY Zenon DEF Tree!TreeNext
    <2>1. CASE UNCHANGED vars
      BY <2>1, QuietTree, Zenon DEF vars
    <2>2. CASE TreeStep
      BY <2>2, TreeStepMapped, Zenon DEF IInv
    <2>3. CASE \E u \in Uploads : UploadStep(u) \/ MaintenanceStep(u)
      BY <2>3, UploadStepMapped, MaintenanceStepMapped, Zenon
    <2> QED BY <2>1, <2>2, <2>3, Zenon DEF Next
  <1> QED
    BY <1>1, <1>2, Invariance, PTL DEF Spec, MemoryImplementsTree, Tree!TreeSpec

-----------------------------------------------------------------------------
\* The life of a session

LEMMA Stages ==
    /\ StageOf("absent") = "absent"
    /\ StageOf("created") = "open" /\ StageOf("uploading") = "open"
    /\ StageOf("completing") = "frozen" /\ StageOf("object_completed") = "stored"
    /\ StageOf("aborted") = "cancelled" /\ StageOf("expired") = "cancelled"
    /\ StageOf("failed") = "refused" /\ StageOf("committed") = "committed"
  BY DEF StageOf

\* What the lifecycle sees of a write of a session.
Written(u, o, s) == o = uploads[u] /\ SetUpload(u, s)

LEMMA OneWritten ==
    ASSUME IInv, NEW u \in Uploads, NEW o, NEW s, Written(u, o, s)
    PROVE  uploads[u] = o /\ uploads'[u] = s /\ \A v \in Uploads : v # u => uploads'[v] = uploads[v]
  BY Zenon DEF Written, SetUpload, IInv, UploadsOK

LEMMA Entered ==
    ASSUME IInv, NEW u \in Uploads, NEW o, NEW s, Written(u, o, s),
           NEW a, NEW b, StageOf(o.status) = a, StageOf(s.status) = b
    PROVE  Lifecycle!Enter(u, a, b)
  <1>1. /\ \A v \in Uploads : v # u => StageOf(uploads'[v].status) = StageOf(uploads[v].status)
        /\ StageOf(uploads'[u].status) = b
    BY OneWritten, Zenon
  <1>2. LifeStage[u] = a
    BY OneWritten, Zenon DEF LifeStage
  <1>3. LifeStage' = [LifeStage EXCEPT ![u] = b]
    BY <1>1, Zenon DEF LifeStage
  <1> QED BY <1>2, <1>3, Zenon DEF Lifecycle!Enter

LEMMA StageKept ==
    ASSUME IInv, NEW u \in Uploads, NEW o, NEW s, Written(u, o, s),
           StageOf(s.status) = StageOf(o.status)
    PROVE  LifeStage' = LifeStage
  <1>1. \A v \in Uploads : StageOf(uploads'[v].status) = StageOf(uploads[v].status)
    BY OneWritten, Zenon
  <1> QED BY <1>1, Zenon DEF LifeStage

LEMMA FrozenKept ==
    ASSUME IInv, NEW u \in Uploads, NEW o, NEW s, Written(u, o, s),
           s.digest = o.digest
    PROVE  LifeFrozen' = LifeFrozen
  <1>1. \A v \in Uploads : uploads'[v].digest = uploads[v].digest
    BY OneWritten, Zenon
  <1> QED BY <1>1, Zenon DEF LifeFrozen

LEMMA MadeKept ==
    ASSUME IInv, NEW u \in Uploads, NEW o, NEW s, Written(u, o, s),
           s.node = o.node
    PROVE  LifeMade' = LifeMade
  <1>1. \A v \in Uploads : uploads'[v].node = uploads[v].node
    BY OneWritten, Zenon
  <1> QED BY <1>1, Zenon DEF LifeMade

LEMMA DirtyKept ==
    ASSUME IInv, NEW u \in Uploads, NEW o, NEW s, Written(u, o, s),
           s.cleanup = o.cleanup
    PROVE  LifeDirty' = LifeDirty
  <1>1. \A v \in Uploads : uploads'[v].cleanup = uploads[v].cleanup
    BY OneWritten, Zenon
  <1> QED BY <1>1, Zenon DEF LifeDirty

LEMMA ClaimedKept ==
    ASSUME IInv, NEW u \in Uploads, NEW o, NEW s, Written(u, o, s),
           s.claim = o.claim
    PROVE  LifeClaimed' = LifeClaimed
  <1>1. \A v \in Uploads : uploads'[v].claim = uploads[v].claim
    BY OneWritten, Zenon
  <1> QED BY <1>1, Zenon DEF LifeClaimed

\* A write to the claim alone of what the lifecycle knows a session by.
LEMMA ClaimedSet ==
    ASSUME IInv, NEW u \in Uploads, NEW o, NEW s, Written(u, o, s),
           NEW c, s.claim \in {"never", "free"} => c = "none",
           s.claim \notin {"never", "free"} => c = StageOf(s.claim)
    PROVE  LifeClaimed' = [LifeClaimed EXCEPT ![u] = c]
  <1>1. /\ uploads'[u].claim = s.claim
        /\ \A v \in Uploads : v # u => uploads'[v].claim = uploads[v].claim
    BY OneWritten, Zenon
  <1> QED BY <1>1, Zenon DEF LifeClaimed

LEMMA DirtyRemoved ==
    ASSUME IInv, NEW u \in Uploads, NEW o, NEW s, Written(u, o, s), s.cleanup = FALSE
    PROVE  LifeDirty' = LifeDirty \ {u}
  <1>1. /\ uploads'[u].cleanup = FALSE
        /\ \A v \in Uploads : v # u => uploads'[v].cleanup = uploads[v].cleanup
    BY OneWritten, Zenon
  <1> QED BY <1>1, Zenon DEF LifeDirty

LEMMA DirtyAdded ==
    ASSUME IInv, NEW u \in Uploads, NEW o, NEW s, Written(u, o, s), s.cleanup = TRUE
    PROVE  LifeDirty' = LifeDirty \cup {u}
  <1>1. /\ uploads'[u].cleanup = TRUE
        /\ \A v \in Uploads : v # u => uploads'[v].cleanup = uploads[v].cleanup
    BY OneWritten, Zenon
  <1> QED BY <1>1, Zenon DEF LifeDirty

\* A step that writes no session.
LEMMA QuietLife ==
    ASSUME uploads' = uploads
    PROVE  UNCHANGED Lifecycle!lifecycleVars
  BY Zenon DEF Lifecycle!lifecycleVars, LifeStage, LifeFrozen, LifeMade, LifeDirty, LifeClaimed

LEMMA CreateOpens ==
    ASSUME IInv, NEW u \in Uploads, NEW p \in Nodes, NEW q \in Names, CreateUpload(u, p, q)
    PROVE  Lifecycle!LifecycleNext
  <1> PICK s : s = [NoUpload EXCEPT !.status = "created", !.parent = p, !.name = q]
    BY Zenon
  <1>1. /\ s \in Session /\ s.status = "created" /\ s.digest = NoUpload.digest
        /\ s.node = NoUpload.node /\ s.cleanup = NoUpload.cleanup
        /\ s.claim = NoUpload.claim
    BY Zenon DEF NoUpload, Session, Terminal, Status
  <1>2. Written(u, NoUpload, s) /\ NoUpload.status = "absent"
    BY SessionFacts, Zenon DEF CreateUpload, IInv, Written
  <1>3. Lifecycle!Open(u)
    <2>1. Lifecycle!Enter(u, "absent", "open")
      <3>1. StageOf(NoUpload.status) = "absent" /\ StageOf(s.status) = "open"
        BY <1>1, <1>2, Stages, Zenon
      <3> QED BY <1>1, <1>2, <3>1, Entered, Zenon
    <2>2. LifeFrozen' = LifeFrozen /\ LifeMade' = LifeMade /\ LifeDirty' = LifeDirty
          /\ LifeClaimed' = LifeClaimed
      BY <1>1, <1>2, FrozenKept, MadeKept, DirtyKept, ClaimedKept, Zenon
    <2> QED BY <2>1, <2>2, Zenon DEF Lifecycle!Open
  <1> QED BY <1>3, Zenon DEF Lifecycle!LifecycleNext

LEMMA UploadingStays ==
    ASSUME IInv, NEW u \in Uploads, MarkUploading(u)
    PROVE  UNCHANGED Lifecycle!lifecycleVars
  <1> PICK o \in Session : o = uploads[u]
    BY SessionFacts, Zenon DEF IInv
  <1> PICK s : s = [o EXCEPT !.status = "uploading"]
    BY Zenon
  <1>1. Written(u, o, s) /\ o.status = "created"
    BY Zenon DEF MarkUploading, Written
  <1>2. /\ s \in Session /\ s.status = "uploading" /\ s.digest = o.digest
        /\ s.node = o.node /\ s.cleanup = o.cleanup /\ s.claim = o.claim
    BY Zenon DEF Session, Status
  <1>3. LifeStage' = LifeStage
    BY <1>1, <1>2, StageKept, Stages, Zenon DEF IInv
  <1>4. LifeFrozen' = LifeFrozen /\ LifeMade' = LifeMade /\ LifeDirty' = LifeDirty
        /\ LifeClaimed' = LifeClaimed
    BY <1>1, <1>2, FrozenKept, MadeKept, DirtyKept, ClaimedKept, Zenon
  <1> QED BY <1>3, <1>4, Zenon DEF Lifecycle!lifecycleVars

LEMMA BeginFreezes ==
    ASSUME IInv, NEW u \in Uploads, NEW d \in Digests, BeginComplete(u, d)
    PROVE  Lifecycle!LifecycleNext
  <1> PICK o \in Session : o = uploads[u]
    BY SessionFacts, Zenon DEF IInv
  <1> PICK s : s = [o EXCEPT !.status = "completing", !.digest = d]
    BY Zenon
  <1>1. Written(u, o, s) /\ o.status \in {"created", "uploading"}
    BY Zenon DEF BeginComplete, Written
  <1>2. /\ s \in Session /\ s.status = "completing" /\ s.digest = d
        /\ s.node = o.node /\ s.cleanup = o.cleanup /\ s.claim = o.claim
    BY Zenon DEF Session, Status
  <1>3. Lifecycle!Freeze(u, d)
    <2>1. Lifecycle!Enter(u, "open", "frozen")
      <3>1. StageOf(o.status) = "open" /\ StageOf(s.status) = "frozen"
        BY <1>1, <1>2, Stages, Zenon
      <3> QED BY <1>1, <1>2, <3>1, Entered, Zenon
    <2>2. LifeMade' = LifeMade /\ LifeDirty' = LifeDirty
          /\ LifeClaimed' = LifeClaimed
      BY <1>1, <1>2, MadeKept, DirtyKept, ClaimedKept, Zenon
    <2>3. LifeFrozen' = [LifeFrozen EXCEPT ![u] = d]
      <3>1. /\ uploads'[u].digest = d
            /\ \A v \in Uploads : v # u => uploads'[v].digest = uploads[v].digest
        <4>1. uploads'[u] = s /\ \A v \in Uploads : v # u => uploads'[v] = uploads[v]
          BY <1>1, OneWritten, Zenon
        <4> QED BY <1>2, <4>1, Zenon
      <3> QED BY <3>1, Zenon DEF LifeFrozen
    <2> QED BY <2>1, <2>2, <2>3, Zenon DEF Lifecycle!Freeze
  <1> QED BY <1>3, Zenon DEF Lifecycle!LifecycleNext

LEMMA FailedRefuses ==
    ASSUME IInv, NEW u \in Uploads, Failed(u),
           uploads[u].status \in {"completing", "object_completed"}
    PROVE  Lifecycle!LifecycleNext
  <1> PICK o \in Session : o = uploads[u]
    BY SessionFacts, Zenon DEF IInv
  <1> PICK s : s = [o EXCEPT !.status = "failed", !.cleanup = TRUE]
    BY Zenon
  <1>1. Written(u, o, s) /\ o.status \in {"completing", "object_completed"}
    BY Zenon DEF Failed, Written
  <1>2. /\ s \in Session /\ s.status = "failed" /\ s.digest = o.digest
        /\ s.node = o.node /\ s.cleanup = TRUE /\ s.claim = o.claim
    BY Zenon DEF Session, Terminal, Status
  <1>3. Lifecycle!Refuse(u)
    <2>1. Lifecycle!Enter(u, "frozen", "refused") \/ Lifecycle!Enter(u, "stored", "refused")
      <3>1. StageOf(o.status) \in {"frozen", "stored"} /\ StageOf(s.status) = "refused"
        BY <1>1, <1>2, Stages, Zenon
      <3>2. CASE StageOf(o.status) = "frozen"
        BY <1>1, <3>1, <3>2, Entered, Zenon
      <3>3. CASE StageOf(o.status) = "stored"
        BY <1>1, <3>1, <3>3, Entered, Zenon
      <3> QED BY <3>1, <3>2, <3>3, Zenon
    <2>2. LifeFrozen' = LifeFrozen /\ LifeMade' = LifeMade /\ LifeDirty' = LifeDirty \cup {u}
          /\ LifeClaimed' = LifeClaimed
      BY <1>1, <1>2, FrozenKept, MadeKept, DirtyAdded, ClaimedKept, Zenon
    <2> QED BY <2>1, <2>2, Zenon DEF Lifecycle!Refuse
  <1> QED BY <1>3, Zenon DEF Lifecycle!LifecycleNext

LEMMA CompletedStores ==
    ASSUME IInv, NEW u \in Uploads, MarkObjectCompleted(u)
    PROVE  Lifecycle!LifecycleNext
  <1> PICK o \in Session : o = uploads[u]
    BY SessionFacts, Zenon DEF IInv
  <1> PICK s : s = [o EXCEPT !.status = "object_completed"]
    BY Zenon
  <1>1. Written(u, o, s) /\ o.status = "completing"
    BY Zenon DEF MarkObjectCompleted, Written
  <1>2. /\ s \in Session /\ s.status = "object_completed" /\ s.digest = o.digest
        /\ s.node = o.node /\ s.cleanup = o.cleanup /\ s.claim = o.claim
    BY Zenon DEF Session, Status
  <1>3. Lifecycle!Store(u)
    <2>1. Lifecycle!Enter(u, "frozen", "stored")
      <3>1. StageOf(o.status) = "frozen" /\ StageOf(s.status) = "stored"
        BY <1>1, <1>2, Stages, Zenon
      <3> QED BY <1>1, <1>2, <3>1, Entered, Zenon
    <2>2. LifeFrozen' = LifeFrozen /\ LifeMade' = LifeMade /\ LifeDirty' = LifeDirty
          /\ LifeClaimed' = LifeClaimed
      BY <1>1, <1>2, FrozenKept, MadeKept, DirtyKept, ClaimedKept, Zenon
    <2> QED BY <2>1, <2>2, Zenon DEF Lifecycle!Store
  <1> QED BY <1>3, Zenon DEF Lifecycle!LifecycleNext

LEMMA CommitCommits ==
    ASSUME IInv, NEW u \in Uploads, NEW d \in Digests, NEW n \in Nodes, CommitUpload(u, d, n)
    PROVE  Lifecycle!LifecycleNext
  <1> PICK o \in Session : o = uploads[u]
    BY SessionFacts, Zenon DEF IInv
  <1>1. o.status = "object_completed"
    BY Zenon DEF CommitUpload
  <1>2. CASE Failed(u)
    BY <1>1, <1>2, FailedRefuses, Zenon
  <1>3. CASE SetUpload(u, [o EXCEPT !.status = "committed", !.node = n])
    <2> PICK s : s = [o EXCEPT !.status = "committed", !.node = n]
      BY Zenon
    <2>1. /\ s \in Session /\ s.status = "committed" /\ s.digest = o.digest
          /\ s.node = n /\ s.cleanup = o.cleanup /\ s.claim = o.claim
          /\ n # None
      BY NodesAssumption, Zenon DEF Session, Terminal, Status
    <2>2. Written(u, o, s)
      BY <1>3, Zenon DEF Written
    <2>3. Lifecycle!Commit(u)
      <3>1. Lifecycle!Enter(u, "stored", "committed")
        <4>1. StageOf(o.status) = "stored" /\ StageOf(s.status) = "committed"
          BY <1>1, <2>1, <2>2, Stages, Zenon
        <4> QED BY <2>2, <4>1, Entered, Zenon
      <3>2. LifeFrozen' = LifeFrozen /\ LifeDirty' = LifeDirty
            /\ LifeClaimed' = LifeClaimed
        BY <2>1, <2>2, FrozenKept, DirtyKept, ClaimedKept, Zenon
      <3>3. LifeMade' = LifeMade \cup {u}
        <4>1. /\ uploads'[u].node # None
              /\ \A v \in Uploads : v # u => uploads'[v].node = uploads[v].node
          <5>1. uploads'[u] = s /\ \A v \in Uploads : v # u => uploads'[v] = uploads[v]
            BY <2>2, OneWritten, Zenon
          <5> QED BY <2>1, <5>1, Zenon
        <4> QED BY <4>1, Zenon DEF LifeMade
      <3> QED BY <3>1, <3>2, <3>3, Zenon DEF Lifecycle!Commit
    <2> QED BY <2>3, Zenon DEF Lifecycle!LifecycleNext
  <1> QED BY <1>2, <1>3, Zenon DEF CommitUpload

LEMMA AbortCancels ==
    ASSUME IInv, NEW u \in Uploads, NEW target \in {"aborted", "expired"}, AbortUpload(u, target)
    PROVE  Lifecycle!LifecycleNext
  <1> PICK o \in Session : o = uploads[u]
    BY SessionFacts, Zenon DEF IInv
  <1> PICK s : s = [o EXCEPT !.status = target, !.cleanup = TRUE]
    BY Zenon
  <1>1. Written(u, o, s) /\ o.status \in {"created", "uploading"}
    BY Zenon DEF AbortUpload, Written
  <1>2. /\ s \in Session /\ s.status = target /\ s.digest = o.digest
        /\ s.node = o.node /\ s.cleanup = TRUE /\ s.claim = o.claim
    BY Zenon DEF Session, Terminal, Status
  <1>3. StageOf(s.status) = "cancelled" /\ StageOf(o.status) = "open"
    BY <1>1, <1>2, Stages, Zenon
  <1>4. Lifecycle!Cancel(u)
    <2>1. Lifecycle!Enter(u, "open", "cancelled")
      <3>1. StageOf(o.status) = "open" /\ StageOf(s.status) = "cancelled"
        BY <1>1, <1>3, Stages, Zenon
      <3> QED BY <1>1, <1>3, <3>1, Entered, Zenon
    <2>2. LifeFrozen' = LifeFrozen /\ LifeMade' = LifeMade /\ LifeDirty' = LifeDirty \cup {u}
          /\ LifeClaimed' = LifeClaimed
      BY <1>1, <1>2, FrozenKept, MadeKept, DirtyAdded, ClaimedKept, Zenon
    <2> QED BY <2>1, <2>2, Zenon DEF Lifecycle!Cancel
  <1> QED BY <1>4, Zenon DEF Lifecycle!LifecycleNext

LEMMA CleanupCleans ==
    ASSUME IInv, NEW u \in Uploads, MarkUploadCleanupComplete(u)
    PROVE  Lifecycle!LifecycleNext
  <1> PICK o \in Session : o = uploads[u]
    BY SessionFacts, Zenon DEF IInv
  <1> PICK s : s = [o EXCEPT !.cleanup = FALSE, !.error = FALSE]
    BY Zenon
  <1>1. Written(u, o, s) /\ o.status \in Terminal
    BY Zenon DEF MarkUploadCleanupComplete, Written
  <1>2. /\ s \in Session /\ s.status = o.status /\ s.digest = o.digest
        /\ s.node = o.node /\ s.cleanup = FALSE /\ s.claim = o.claim
    BY Zenon DEF Session, Status
  <1>3. LifeStage' = LifeStage /\ LifeFrozen' = LifeFrozen /\ LifeMade' = LifeMade
        /\ LifeDirty' = LifeDirty \ {u} /\ LifeClaimed' = LifeClaimed
    BY <1>1, <1>2, StageKept, FrozenKept, MadeKept, ClaimedKept, DirtyRemoved, Zenon
  <1>4. LifeStage[u] \in {"cancelled", "refused", "committed"}
    BY <1>1, Stages, Zenon DEF LifeStage, Terminal
  <1>5. Lifecycle!Clean(u)
    BY <1>3, <1>4, Zenon DEF Lifecycle!Clean
  <1> QED BY <1>5, Zenon DEF Lifecycle!LifecycleNext

LEMMA ClaimShows ==
    ASSUME IInv, NEW u \in Uploads, ClaimUpload(u)
    PROVE  Lifecycle!LifecycleNext
  <1> PICK o \in Session : o = uploads[u]
    BY SessionFacts, Zenon DEF IInv
  <1> PICK s : s = [o EXCEPT !.claim = o.status]
    BY Zenon
  <1>1. Written(u, o, s) /\ o.status \in Status
    BY ClaimedInUse, Zenon DEF ClaimUpload, Written
  <1>2. /\ s.claim = o.status /\ s.status = o.status /\ s.digest = o.digest
        /\ s.node = o.node /\ s.cleanup = o.cleanup
    BY Zenon DEF Session
  <1>3. LifeStage' = LifeStage /\ LifeFrozen' = LifeFrozen /\ LifeMade' = LifeMade
        /\ LifeDirty' = LifeDirty
    BY <1>1, <1>2, StageKept, FrozenKept, MadeKept, DirtyKept, Zenon
  <1>4. LifeStage[u] = StageOf(o.status) /\ LifeStage[u] # "absent"
    BY <1>1, Stages, Zenon DEF LifeStage, Status, Terminal
  <1>5. s.claim \notin {"never", "free"}
    BY <1>1, <1>2, Zenon DEF Status, Terminal
  <1>6. LifeClaimed' = [LifeClaimed EXCEPT ![u] = LifeStage[u]]
    <2>0. PICK c : c = LifeStage[u]
      BY Zenon
    <2>1. c = StageOf(s.claim)
      BY <1>2, <1>4, <2>0, Zenon
    <2>2. LifeClaimed' = [LifeClaimed EXCEPT ![u] = c]
      BY <1>1, <1>5, <2>1, ClaimedSet, Zenon
    <2> QED BY <2>0, <2>2, Zenon
  <1>7. Lifecycle!Claim(u)
    BY <1>3, <1>4, <1>6, Zenon DEF Lifecycle!Claim
  <1> QED BY <1>7, Zenon DEF Lifecycle!LifecycleNext

\* What a claim that saw the session in stage c may make of it.
LEMMA OutcomeFacts ==
    ASSUME NEW u \in Uploads, NEW c, c = LifeClaimed[u]
    PROVE  /\ c = "open" => "cancelled" \in Lifecycle!Outcomes(u)
           /\ c = "frozen" => {"frozen", "stored", "refused"} \subseteq Lifecycle!Outcomes(u)
           /\ c = "stored" => {"stored", "refused"} \subseteq Lifecycle!Outcomes(u)
           /\ c \in {"frozen", "stored"} /\ u \in LifeMade
                => "committed" \in Lifecycle!Outcomes(u)
           /\ c \in {"cancelled", "refused", "committed"} => c \in Lifecycle!Outcomes(u)
  BY DEF Lifecycle!Outcomes

LEMMA FinishSettles ==
    ASSUME IInv, NEW u \in Uploads, uploads[u].claim \in Status, NEW x \in Results(u),
           FinishUploadMaintenance(u, x)
    PROVE  Lifecycle!LifecycleNext
  <1> PICK o \in Session : o = uploads[u]
    BY SessionFacts, Zenon DEF IInv
  <1> PICK s : s = [o EXCEPT !.status = x.status, !.cleanup = ~x.complete,
                             !.error = x.error, !.claim = "free"]
    BY Zenon
  <1>1. Written(u, o, s) /\ o.claim \in Status
    BY Zenon DEF FinishUploadMaintenance, Written
  <1>2. /\ x.status \in Status /\ x.complete \in BOOLEAN
        /\ o.claim \in Terminal => x.status = o.claim
        /\ o.claim \in {"created", "uploading"} => x.status = "expired"
        /\ o.claim \in {"completing", "object_completed"}
             => \/ x.status \in {"failed", "object_completed", o.claim}
                \/ x.status = "committed" /\ o.node # None
    BY ResultFacts, Zenon
  <1>3. /\ s.claim = "free" /\ s.status = x.status /\ s.digest = o.digest
        /\ s.node = o.node /\ s.cleanup = ~x.complete
    BY Zenon DEF Session
  <1>4. LifeFrozen' = LifeFrozen /\ LifeMade' = LifeMade
    BY <1>1, <1>3, FrozenKept, MadeKept, Zenon
  <1>5. LifeClaimed' = [LifeClaimed EXCEPT ![u] = "none"]
    BY <1>1, <1>3, ClaimedSet, Zenon
  <1>6. LifeDirty' \in {LifeDirty \cup {u}, LifeDirty \ {u}}
    <2>1. CASE x.complete = TRUE
      BY <1>1, <1>3, <2>1, DirtyRemoved, Zenon
    <2>2. CASE x.complete = FALSE
      BY <1>1, <1>3, <2>2, DirtyAdded, Zenon
    <2> QED BY <1>2, <2>1, <2>2, Zenon
  <1>7. LifeStage' = [LifeStage EXCEPT ![u] = StageOf(x.status)]
    <2>1. /\ StageOf(uploads'[u].status) = StageOf(x.status)
          /\ \A v \in Uploads : v # u => StageOf(uploads'[v].status) = StageOf(uploads[v].status)
      <3>1. uploads'[u] = s /\ \A v \in Uploads : v # u => uploads'[v] = uploads[v]
        BY <1>1, OneWritten, Zenon
      <3> QED BY <1>3, <3>1, Zenon
    <2> QED BY <2>1, Zenon DEF LifeStage
  <1>8. LifeClaimed[u] = StageOf(o.claim) /\ StageOf(o.claim) # "none"
    <2>1. o.claim \notin {"never", "free"}
      BY <1>1, Zenon DEF Status, Terminal
    <2>2. StageOf(o.claim) # "none"
      BY <1>1, Stages, Zenon DEF Status, Terminal
    <2> QED BY <2>1, <2>2, Zenon DEF LifeClaimed
  <1>9. StageOf(x.status) \in Lifecycle!Outcomes(u)
    <2>0. o.node # None => u \in LifeMade
      BY Zenon DEF LifeMade
    <2>1. CASE o.claim \in Terminal
      <3>1. x.status = o.claim /\ StageOf(o.claim) \in {"cancelled", "refused", "committed"}
        BY <1>2, <2>1, Stages, Zenon DEF Terminal
      <3> QED BY <1>8, <3>1, OutcomeFacts, Zenon
    <2>2. CASE o.claim \in {"created", "uploading"}
      <3>1. StageOf(x.status) = "cancelled" /\ StageOf(o.claim) = "open"
        BY <1>2, <2>2, Stages, Zenon
      <3> QED BY <1>8, <3>1, OutcomeFacts, Zenon
    <2>3. CASE o.claim = "completing"
      <3>1. /\ StageOf(o.claim) = "frozen"
            /\ \/ StageOf(x.status) \in {"frozen", "stored", "refused"}
               \/ StageOf(x.status) = "committed" /\ u \in LifeMade
        BY <1>2, <2>0, <2>3, Stages, Zenon
      <3> QED BY <1>8, <3>1, OutcomeFacts, Zenon
    <2>4. CASE o.claim = "object_completed"
      <3>1. /\ StageOf(o.claim) = "stored"
            /\ \/ StageOf(x.status) \in {"stored", "refused"}
               \/ StageOf(x.status) = "committed" /\ u \in LifeMade
        BY <1>2, <2>0, <2>4, Stages, Zenon
      <3> QED BY <1>8, <3>1, OutcomeFacts, Zenon
    <2> QED BY <1>1, <2>1, <2>2, <2>3, <2>4, Zenon DEF Status
  <1>10. Lifecycle!Settle(u)
    BY <1>4, <1>5, <1>6, <1>7, <1>8, <1>9, Zenon DEF Lifecycle!Settle
  <1> QED BY <1>10, Zenon DEF Lifecycle!LifecycleNext

\* Whatever order the methods of the development backend are called in, a session
\* lives the life UploadLifecycle promises: its part list is frozen once, its file
\* appears with its commit, an ended session stays ended unless a claim settles it,
\* and a claim settles it only in the ways open to what the claim saw.
THEOREM MemoryLifecycle == Spec => MemoryImplementsLifecycle
  <1>1. Init => Lifecycle!LifecycleInit
    <2> SUFFICES ASSUME Init PROVE Lifecycle!LifecycleInit
      BY Zenon
    <2>1. \A u \in Uploads : /\ StageOf(uploads[u].status) = "absent"
                             /\ uploads[u].digest = NoDigest /\ uploads[u].node = None
                             /\ uploads[u].cleanup = FALSE /\ uploads[u].claim = "never"
      BY Stages, Zenon DEF Init, NoUpload
    <2>2. LifeStage \in [Uploads -> {"absent", "open"}]
      BY <2>1, Zenon DEF LifeStage
    <2>3. LifeFrozen = [u \in Uploads |-> NoDigest] /\ LifeMade = {} /\ LifeDirty = {}
          /\ LifeClaimed = [u \in Uploads |-> "none"]
      BY <2>1, Zenon DEF LifeFrozen, LifeMade, LifeDirty, LifeClaimed
    <2> QED BY <2>2, <2>3, Zenon DEF Lifecycle!LifecycleInit
  <1>2. IInv /\ [Next]_vars => [Lifecycle!LifecycleNext]_(Lifecycle!lifecycleVars)
    <2> SUFFICES ASSUME IInv, [Next]_vars
                 PROVE  Lifecycle!LifecycleNext \/ UNCHANGED Lifecycle!lifecycleVars
      BY Zenon
    <2>1. CASE UNCHANGED vars
      BY <2>1, QuietLife, Zenon DEF vars
    <2>2. CASE TreeStep
      BY <2>2, TreeNextOK, QuietLife, Zenon
    <2>3. ASSUME NEW u \in Uploads, UploadStep(u)
          PROVE  Lifecycle!LifecycleNext \/ UNCHANGED Lifecycle!lifecycleVars
      <3>1. ASSUME NEW d \in Digests, FailUploadCompletion(u, d)
            PROVE  Lifecycle!LifecycleNext
        BY <3>1, FailedRefuses, Zenon DEF FailUploadCompletion
      <3> QED BY <2>3, <3>1, CreateOpens, UploadingStays, BeginFreezes, CompletedStores,
                 CommitCommits, AbortCancels, CleanupCleans, Zenon DEF UploadStep
    <2>4. ASSUME NEW u \in Uploads, MaintenanceStep(u) PROVE Lifecycle!LifecycleNext
      BY <2>4, ClaimShows, FinishSettles, Zenon DEF MaintenanceStep
    <2> QED BY <2>1, <2>2, <2>3, <2>4, Zenon DEF Next
  <1> QED
    BY <1>1, <1>2, Invariance, PTL DEF Spec, MemoryImplementsLifecycle, Lifecycle!LifecycleSpec
=============================================================================
