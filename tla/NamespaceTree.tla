--------------------------- MODULE NamespaceTree ---------------------------
\* The rows, locks and requests of Namespace as the tree they stand for.
EXTENDS Namespace

TreePlace == [n \in Nodes |-> [parent |-> node[n].parent, name |-> node[n].name, dir |-> node[n].dir]]
TreeEntry == [n \in Nodes |-> node[n].trash]
TreePurging == {n \in Nodes : node[n].trash = n /\ node[n].status = "purging"}

Tree == INSTANCE DriveTree
          WITH place <- TreePlace, entry <- TreeEntry, purging <- TreePurging, content <- object

\* The transactions and storage calls of concurrent requests, with the revisions
\* and locks that order them and the failures in between, do nothing to the tree
\* but whole operations of DriveTree: a step of another request between the check
\* and the write never shows.
ImplementsDriveTree == Tree!TreeSpec
=============================================================================
