---------------------------- MODULE GovernanceApi ----------------------------
\* The way of a governance request: route permission (internal/server/server.go),
\* handler (internal/server/api.go), checks of the service
\* (internal/drive/service.go, governance_service.go), transaction (Membership,
\* AccessControl). The role the first three see is the one of authentication.
\* A request that any of them refuses ends in Leave.
EXTENDS AccessControl

\* A mutant: editors may delete files.
PermissionsForRoleWide(role) ==
    CASE role \in {"owner", "admin"} ->
           {"tenant:read", "members:read", "members:manage", "groups:manage", "audit:read",
            "files:read", "files:write", "files:delete"}
      [] role = "editor" -> {"files:read", "files:write", "files:delete"}
      [] role = "viewer" -> {"files:read"}
      [] OTHER -> {}

PermissionsForRole(role) ==
    CASE role \in {"owner", "admin"} ->
           {"tenant:read", "members:read", "members:manage", "groups:manage", "audit:read",
            "files:read", "files:write", "files:delete"}
      [] role = "editor" -> {"files:read", "files:write"}
      [] role = "viewer" -> {"files:read"}
      [] OTHER -> {}

\* protectedAPIRoutes: the permission of each route; file operations let a grant
\* on the node stand in for it (aclElevation).
Routes ==
    [updateMember |-> "members:manage", deleteMember |-> "members:manage",
     createInvitation |-> "members:manage", revokeInvitation |-> "members:manage",
     createGroup |-> "groups:manage", updateGroup |-> "groups:manage", deleteGroup |-> "groups:manage",
     addGroupMember |-> "groups:manage", removeGroupMember |-> "groups:manage",
     setNodeACL |-> "files:read", deleteNodeACL |-> "files:read"]

authorize(r, route) == req[r].pc = "open" /\ Routes[route] \in PermissionsForRole(req[r].declared)

\* authorizeACLElevation: how a file operation of p on node n is let through.
authorizeACLElevation(p, n, permission, capability) ==
    \/ permission \in PermissionsForRole(member[p].role)
    \/ authorizeNodeQuery(p, n, Level[capability])

-----------------------------------------------------------------------------
\* The service.

validateMemberActor(r) == req[r].declared \in AccessRole
validateGovernanceManager(r) == validateMemberActor(r) /\ req[r].declared \in {"owner", "admin"}

ServiceUpdateMember(r, p, role, status) ==
    /\ req[r].declared \in {"owner", "admin"}
    /\ ~(role = None /\ status = None)
    /\ req[r].declared = "admin" => role # "owner"
    /\ UpdateMember(r, p, role, status)

ServiceDeleteMember(r, p) == validateMemberActor(r) /\ RemoveMember(r, p)

ServiceCreateInvitation(r, i, p, role) ==
    validateGovernanceManager(r) /\ CreateInvitation(r, i, p, role)

ServiceRevokeInvitation(r, i) == validateMemberActor(r) /\ BeginRevoke(r, i)

ServiceCreateGroup(r, g, name) == validateGovernanceManager(r) /\ CreateGroup(r, g, name)

ServiceUpdateGroup(r, g, name) == validateGovernanceManager(r) /\ UpdateGroup(r, g, name)

ServiceDeleteGroup(r, g) == validateGovernanceManager(r) /\ DeleteGroup(r, g)

ServiceChangeGroupMember(r, g, p, add) ==
    validateGovernanceManager(r) /\ changeGroupMember(r, g, p, add)

ServiceSetNodeACL(r, n, s, level) == validateMemberActor(r) /\ SetNodeACL(r, n, s, level)

ServiceDeleteNodeACL(r, n, s) == validateMemberActor(r) /\ DeleteNodeACL(r, n, s)

-----------------------------------------------------------------------------
\* The handlers, with the inputs of their bodies and paths.

updateMember(r) ==
    /\ authorize(r, "updateMember")
    /\ \E p \in Principals, role \in Offered \cup {None}, status \in MemberStatus \cup {None} :
          ServiceUpdateMember(r, p, role, status)
    /\ UNCHANGED accessVars

deleteMember(r) == authorize(r, "deleteMember") /\ \E p \in Principals : ServiceDeleteMember(r, p)

createInvitation(r) ==
    /\ authorize(r, "createInvitation")
    /\ \E i \in Invitations, p \in Principals, role \in Offered : ServiceCreateInvitation(r, i, p, role)
    /\ UNCHANGED accessVars

revokeInvitation(r) ==
    /\ authorize(r, "revokeInvitation")
    /\ \E i \in Invitations : ServiceRevokeInvitation(r, i)
    /\ UNCHANGED accessVars

\* Behind the external authentication: the caller needs no membership.
acceptInvitation(r) ==
    /\ \E i \in Invitations, p \in Principals : BeginAccept(r, i, p)
    /\ UNCHANGED accessVars

createGroup(r) ==
    authorize(r, "createGroup") /\ \E g \in Groups, name \in GroupNames : ServiceCreateGroup(r, g, name)

updateGroup(r) ==
    authorize(r, "updateGroup") /\ \E g \in Groups, name \in GroupNames : ServiceUpdateGroup(r, g, name)

deleteGroup(r) == authorize(r, "deleteGroup") /\ \E g \in Groups : ServiceDeleteGroup(r, g)

addGroupMember(r) ==
    /\ authorize(r, "addGroupMember")
    /\ \E g \in Groups, p \in Principals \cap Grantees : ServiceChangeGroupMember(r, g, p, TRUE)

removeGroupMember(r) ==
    /\ authorize(r, "removeGroupMember")
    /\ \E g \in Groups, p \in Principals \cap Grantees : ServiceChangeGroupMember(r, g, p, FALSE)

setNodeACL(r) ==
    /\ authorize(r, "setNodeACL")
    /\ \E n \in Nodes, s \in Grantees, level \in Grants : ServiceSetNodeACL(r, n, s, level)

deleteNodeACL(r) ==
    authorize(r, "deleteNodeACL") /\ \E n \in Nodes, s \in Grantees : ServiceDeleteNodeACL(r, n, s)

-----------------------------------------------------------------------------
\* A transaction under way, a refusal, a cut connection.
MembershipStep(r) ==
    /\ (\E p \in Principals : Authenticate(r, p)) \/ Accept(r) \/ Revoke(r) \/ Leave(r)
    /\ UNCHANGED accessVars

Next ==
    \/ \E r \in Requests :
          \/ MembershipStep(r)
          \/ updateMember(r) \/ deleteMember(r)
          \/ createInvitation(r) \/ revokeInvitation(r) \/ acceptInvitation(r)
          \/ createGroup(r) \/ updateGroup(r) \/ deleteGroup(r)
          \/ addGroupMember(r) \/ removeGroupMember(r)
          \/ setNodeACL(r) \/ deleteNodeACL(r)
    \/ \E p \in Seeds : EnsureOIDCMember(p) /\ UNCHANGED accessVars
    \/ \E i \in Invitations : Expire(i) /\ UNCHANGED accessVars

Spec == AccessInit /\ [][Next]_allVars

\* Lock waiters are queued, so they get their lock when its holders end; the
\* deadlock detector runs; nothing is assumed of clients.
FairSpec ==
    /\ Spec
    /\ \A r \in Requests : /\ SF_allVars(Accept(r) /\ UNCHANGED accessVars)
                           /\ SF_allVars(Revoke(r) /\ UNCHANGED accessVars)
    /\ WF_allVars((\E r \in Requests : Victim(r)) /\ UNCHANGED accessVars)

-----------------------------------------------------------------------------
\* Properties.

\* One decision on a node, wherever it is taken: the memory repository answers
\* as the production one does, whatever the groups, grants and ancestors, and for
\* an active member the role's permission set or an elevation by grant lets a
\* file operation through exactly when the repository's own levels would, so
\* PermissionsForRole and authorizeNodeQuery never drift apart.
AuthorizersAgree ==
    \A p \in Principals, n \in Nodes :
       /\ \A c \in DOMAIN Level :
            authorizeNodeQuery(p, n, Level[c]) = authorizeNodeLocked(p, n, Level[c])
       /\ member[p].status = "active" =>
            /\ authorizeACLElevation(p, n, "files:write", "write") = authorizeNodeQuery(p, n, Level.write)
            /\ authorizeACLElevation(p, n, "files:delete", "delete") = authorizeNodeQuery(p, n, Level.delete)
=============================================================================
