--------------------------- MODULE AccessControl ---------------------------
\* Groups and node ACLs of one tenant, on top of its members and invitations:
\* internal/postgres/governance.go. Every change is one transaction under the
\* tenant lock. The rows of tenant_group_member and node_acl reference the
\* member, the group and the node with ON DELETE CASCADE.
EXTENDS Membership, Integers

CONSTANTS
    Groups,
    GroupNames,
    Nodes,
    Parent,    \* the node above each one, None for the root
    Grantees,  \* principals and groups that requests on groups and grants name
    Grants     \* ACL roles that requests ask for: 1 reader, 2 contributor, 3 manager

\* The nodes are a forest: going up from any of them ends at a root.
ASSUME TreeAssumption ==
    /\ Parent \in [Nodes -> Nodes \cup {None}] /\ None \notin Nodes
    /\ \A S \in (SUBSET Nodes) \ {{}} : \E m \in S : Parent[m] \notin S
ASSUME SubjectAssumption == Principals \cap Groups = {} /\ Grantees \subseteq Principals \cup Groups
ASSUME NameAssumption == None \notin GroupNames
ASSUME GrantAssumption == Grants \subseteq 1..3

VARIABLES
    group,       \* rows of tenant_group: the name of each group there is
    groupMember, \* rows of tenant_group_member
    acl          \* rows of node_acl: the level a subject is given on a node, 0 for none

accessVars == <<group, groupMember, acl>>
allVars == <<vars, accessVars>>

Subjects == Principals \cup Groups
GroupExists(g) == group[g] # None
SubjectExists(s) == IF s \in Groups THEN GroupExists(s) ELSE IsMember(s)

AccessInit ==
    /\ Init
    /\ group = [g \in Groups |-> None]
    /\ groupMember = {}
    /\ acl = [n \in Nodes |-> [s \in Subjects |-> 0]]

-----------------------------------------------------------------------------
\* Who may do what on a node.

\* The recursive query's result: the least set with the node and the parent of
\* each of its nodes.
Ancestors(n) ==
    {a \in Nodes :
       \A S \in SUBSET Nodes :
          n \in S /\ (\A m \in S : Parent[m] \in S \cup {None}) => a \in S}

\* What the role alone gives.
Implicit(role) ==
    CASE role \in {"owner", "admin"} -> 3
      [] role = "editor" -> 2
      [] role = "viewer" -> 1
      [] OTHER -> 0

\* capabilityLevel
Level == [read |-> 1, write |-> 2, delete |-> 3, manage_acl |-> 3]

\* Rows that speak of p: its own and those of its groups.
Speaks(p) == {p} \cup {g \in Groups : <<g, p>> \in groupMember}

\* authorizeNodeQuery: the role, or the best grant on the node or above it.
authorizeNodeQuery(p, n, required) ==
    /\ member[p].status = "active"
    /\ \/ Implicit(member[p].role) >= required
       \/ \E a \in Ancestors(n), s \in Speaks(p) : acl[a][s] >= required

\* authorizeNodeLocked of the in-memory repository walks up from the node.
authorizeNodeLocked(p, n, required) ==
    LET here(m) == \E s \in Subjects :
                      /\ s = p \/ (s \in Groups /\ <<s, p>> \in groupMember)
                      /\ acl[m][s] >= required
        walk[m \in Nodes] == here(m) \/ (Parent[m] # None /\ walk[Parent[m]])
    IN
    /\ member[p].status = "active"
    /\ \/ member[p].role \in {"owner", "admin"}
       \/ member[p].role = "editor" /\ required <= 2
       \/ member[p].role = "viewer" /\ required <= 1
       \/ walk[n]

-----------------------------------------------------------------------------
\* Groups.

CreateGroup(r, g, name) ==
    /\ Begin(r)
    /\ ~GroupExists(g)
    /\ \A h \in Groups : group[h] # name
    /\ group' = [group EXCEPT ![g] = name]
    /\ End(r)
    /\ UNCHANGED <<member, invitation, late, groupMember, acl>>

UpdateGroup(r, g, name) ==
    /\ Begin(r)
    /\ GroupExists(g)
    /\ \A h \in Groups \ {g} : group[h] # name
    /\ group' = [group EXCEPT ![g] = name]
    /\ End(r)
    /\ UNCHANGED <<member, invitation, late, groupMember, acl>>

\* A subject's ACL entries go with it.
Forget(s) == acl' = [n \in Nodes |-> [acl[n] EXCEPT ![s] = 0]]

\* A mutant: the grants of the group stay.
DeleteGroupOnly(r, g) ==
    /\ Begin(r)
    /\ GroupExists(g)
    /\ group' = [group EXCEPT ![g] = None]
    /\ groupMember' = {m \in groupMember : m[1] # g}
    /\ End(r)
    /\ UNCHANGED <<member, invitation, late, acl>>

DeleteGroup(r, g) ==
    /\ Begin(r)
    /\ GroupExists(g)
    /\ group' = [group EXCEPT ![g] = None]
    /\ groupMember' = {m \in groupMember : m[1] # g}
    /\ Forget(g)
    /\ End(r)
    /\ UNCHANGED <<member, invitation, late>>

changeGroupMember(r, g, p, add) ==
    /\ Begin(r)
    /\ GroupExists(g)
    /\ IsMember(p)
    /\ groupMember' = IF add THEN groupMember \cup {<<g, p>>} ELSE groupMember \ {<<g, p>>}
    /\ End(r)
    /\ UNCHANGED <<member, invitation, late, group, acl>>

\* DeleteMember with what the foreign keys delete along.
RemoveMember(r, p) ==
    /\ DeleteMember(r, p)
    /\ groupMember' = {m \in groupMember : m[2] # p}
    /\ Forget(p)
    /\ UNCHANGED group

-----------------------------------------------------------------------------
\* Node ACLs.

\* A mutant: write access is enough.
ManagesWriters(r, n) ==
    /\ req[r].pc = "open" /\ TenantFree
    /\ member[req[r].who].role = req[r].declared
    /\ authorizeNodeQuery(req[r].who, n, Level.write)

\* authorizeNodeTx for manage_acl, the declared role being the current one.
Manages(r, n) ==
    /\ req[r].pc = "open" /\ TenantFree
    /\ member[req[r].who].role = req[r].declared
    /\ authorizeNodeQuery(req[r].who, n, Level.manage_acl)

SetNodeACL(r, n, s, level) ==
    /\ Manages(r, n)
    /\ SubjectExists(s)
    /\ acl' = [acl EXCEPT ![n][s] = level]
    /\ End(r)
    /\ UNCHANGED <<member, invitation, late, group, groupMember>>

DeleteNodeACL(r, n, s) ==
    /\ Manages(r, n)
    /\ acl[n][s] > 0
    /\ acl' = [acl EXCEPT ![n][s] = 0]
    /\ End(r)
    /\ UNCHANGED <<member, invitation, late, group, groupMember>>

-----------------------------------------------------------------------------
\* Properties.

\* The tables hold what their columns allow.
AccessTypeOK ==
    /\ TypeOK
    /\ group \in [Groups -> GroupNames \cup {None}]
    /\ groupMember \subseteq Groups \X Principals
    /\ acl \in [Nodes -> [Subjects -> 0..3]]

\* Nothing is left to whoever has gone: no grant and no group membership
\* outlives its subject, so a principal that is admitted again, or a group that
\* is created again, starts without any.
NothingOutlives ==
    /\ \A m \in groupMember : GroupExists(m[1]) /\ IsMember(m[2])
    /\ \A n \in Nodes, s \in Subjects : acl[n][s] > 0 => SubjectExists(s)

\* The step is the end of a request of somebody who may manage node n.
ByManager(n) ==
    \E r \in Requests :
       /\ req[r].pc = "open" /\ req'[r].pc = "idle"
       /\ authorizeNodeQuery(req[r].who, n, Level.manage_acl)

\* Rights grow only by the hand of one who has all of them: whatever the way (a
\* role, a group, a grant above the node or on it), a member that may do more on
\* a node than before got it from a request whose principal managed that node,
\* or has just been admitted. The tree stays as it is here.
RightsFromManagers ==
    [][\A p \in Principals, n \in Nodes, level \in 1..3 :
          /\ IsMember(p)
          /\ ~authorizeNodeQuery(p, n, level)
          /\ authorizeNodeQuery(p, n, level)'
          => ByManager(n)]_allVars

=============================================================================
