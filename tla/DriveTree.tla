----------------------------- MODULE DriveTree -----------------------------
(***************************************************************************)
(* What the drive promises of one tenant's tree, whatever stores it: no    *)
(* locks, no revisions, no requests, no statuses of rows and blobs.  Every *)
(* step is one whole operation.  Namespace (PostgreSQL) and                *)
(* MemoryRepository (the development backend) implement it.                *)
(***************************************************************************)
CONSTANTS Nodes, Root, Names, None

VARIABLES
    place,    \* where a node lies and what it is, Nowhere for an id not in use
    entry,    \* the recycle-bin entry a node lies in, None for a visible one
    purging,  \* entries whose permanent deletion has begun
    content   \* files whose content is there

treeVars == <<place, entry, purging, content>>

Nowhere == [parent |-> None, name |-> None, dir |-> FALSE]

TreeInit ==
    /\ place = [n \in Nodes |-> [Nowhere EXCEPT !.dir = (n = Root)]]
    /\ entry = [n \in Nodes |-> None]
    /\ purging = {}
    /\ content = {}

\* Every node in use but the root has a parent.
InUse(n) == n = Root \/ place[n].parent # None
Shown(n) == InUse(n) /\ entry[n] = None
Directory(n) == n \in Nodes /\ place[n].dir /\ Shown(n)
Free(p, q, n) ==
    \A m \in Nodes \ {n, Root} : Shown(m) => ~(place[m].parent = p /\ place[m].name = q)

\* The least sets with n that are closed upwards, or downwards through visible
\* nodes.
Above(n) ==
    {x \in Nodes : \A S \in SUBSET Nodes :
        (n \in S /\ \A y \in S : place[y].parent # None => place[y].parent \in S) => x \in S}
Below(n) ==
    {x \in Nodes : \A S \in SUBSET Nodes :
        (n \in S /\ \A y \in Nodes : (Shown(y) /\ place[y].parent \in S) => y \in S) => x \in S}

\* A new directory, or a new file with its content.
Add(n, p, q, d) ==
    /\ ~InUse(n)
    /\ Directory(p)
    /\ Free(p, q, n)
    /\ place' = [place EXCEPT ![n] = [parent |-> p, name |-> q, dir |-> d]]
    /\ content' = IF d THEN content ELSE content \cup {n}
    /\ UNCHANGED <<entry, purging>>

\* A new name, a new parent, or both.
Move(n, p, q) ==
    /\ n # Root /\ Shown(n)
    /\ Directory(p)
    /\ place[n].dir => n \notin Above(p)
    /\ Free(p, q, n)
    /\ place' = [place EXCEPT ![n] = [parent |-> p, name |-> q, dir |-> place[n].dir]]
    /\ UNCHANGED <<entry, purging, content>>

\* A node becomes an entry of the recycle bin with all that is visible below it.
Discard(n) ==
    /\ n # Root /\ Shown(n)
    /\ entry' = [x \in Nodes |-> IF x \in Below(n) THEN n ELSE entry[x]]
    /\ UNCHANGED <<place, purging, content>>

\* An entry goes back, whole, to where it was.
Return(n) ==
    /\ entry[n] = n /\ n \notin purging
    /\ Directory(place[n].parent)
    /\ Free(place[n].parent, place[n].name, n)
    /\ entry' = [x \in Nodes |-> IF entry[x] = n THEN None ELSE entry[x]]
    /\ UNCHANGED <<place, purging, content>>

\* From here on the entry cannot go back.
Purge(n) ==
    /\ entry[n] = n
    /\ purging' = purging \cup {n}
    /\ UNCHANGED <<place, entry, content>>

\* Content of an entry that is purged goes, in as many steps as it takes.
Erase(n, gone) ==
    /\ n \in purging
    /\ \A x \in gone : entry[x] = n
    /\ content' = content \ gone
    /\ UNCHANGED <<place, entry, purging>>

Operation ==
    \/ \E n, p \in Nodes, q \in Names :
          (\E d \in BOOLEAN : Add(n, p, q, d)) \/ Move(n, p, q)
    \/ \E n \in Nodes : Discard(n) \/ Return(n) \/ Purge(n)
    \/ \E n \in Nodes, gone \in SUBSET Nodes : Erase(n, gone)

TreeNext == treeVars' # treeVars /\ Operation

TreeSpec == TreeInit /\ [][TreeNext]_treeVars
=============================================================================
