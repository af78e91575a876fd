-------------------------- MODULE GovernanceProofs --------------------------
\* Proofs about members, invitations, groups and node ACLs (GovernanceApi with
\* AccessControl and Membership), for any number of principals, groups, nodes,
\* invitations and requests. Two requests meet between the row lock of an
\* invitation and the lock of the tenant, so the invariant says what a request in
\* between may rely on: its invitation is pending, and no other request holds it.
EXTENDS GovernanceApi, TLAPS

\* What a request q relies on, the invitations being inv.
RequestOK(q, inv) ==
    /\ q.pc = "revoking" => q.invitation \in Invitations
    /\ q.pc = "accepting" =>
          /\ q.who \in Principals
          /\ q.invitation \in Invitations
          /\ inv[q.invitation].status = "pending"
          /\ inv[q.invitation].identity = q.who

\* An invitation's row lock has one holder.
LocksOK ==
    \A r, s \in Requests :
       req[r].pc = "accepting" /\ req[s].pc = "accepting" /\ req[r].invitation = req[s].invitation
       => r = s

\* Invitations and requests.
TalksOK ==
    /\ invitation \in [Invitations -> Invitation \cup {NoInvitation}]
    /\ late \in SUBSET Invitations
    /\ req \in [Requests -> Request]
    /\ LocksOK
    /\ \A r \in Requests : RequestOK(req[r], invitation)

\* Members, groups and grants.
TablesOK ==
    /\ member \in [Principals -> Member \cup {NoMember}]
    /\ group \in [Groups -> GroupNames \cup {None}]
    /\ groupMember \subseteq Groups \X Principals
    /\ acl \in [Nodes -> [Subjects -> 0..3]]
    /\ NothingOutlives

IInv == TalksOK /\ TablesOK


LEMMA InitOK == AccessInit => IInv
  <1> SUFFICES ASSUME AccessInit PROVE IInv
    BY Zenon
  <1>1. Idle \in Request /\ Idle.pc = "idle"
    BY Zenon DEF Idle, Request
  <1>2. TalksOK
    BY <1>1, Zenon DEF AccessInit, Init, TalksOK, LocksOK, RequestOK
  <1>3. member \in [Principals -> Member \cup {NoMember}]
    BY SeedAssumption, Zenon DEF AccessInit, Init, Member, MemberStatus
  <1>4. acl \in [Nodes -> [Subjects -> 0..3]] /\ \A n \in Nodes, s \in Subjects : acl[n][s] = 0
    BY DEF AccessInit
  <1>5. TablesOK
    BY <1>3, <1>4 DEF AccessInit, TablesOK, NothingOutlives
  <1> QED BY <1>2, <1>5, Zenon DEF IInv

LEMMA RowTypes ==
    /\ \A m \in Member : m # NoMember /\ m.role \in AccessRole /\ m.status \in MemberStatus
    /\ NoMember.role = "none" /\ NoMember.status = "none"
    /\ \A i \in Invitation : i # NoInvitation /\ i.role \in AccessRole /\ i.identity \in Principals
    /\ NoInvitation.status = "none"
    /\ \A role \in AccessRole, status \in MemberStatus : [role |-> role, status |-> status] \in Member
    /\ Idle \in Request /\ Idle.pc = "idle"
  BY DEF Member, NoMember, AccessRole, Invitation, NoInvitation, Idle, Request

-----------------------------------------------------------------------------
\* Invitations and requests.

\* Request r moves on to q; no other request relies on what changes.
LEMMA MovesOK ==
    ASSUME TalksOK, NEW r \in Requests, NEW q \in Request,
           req' = [req EXCEPT ![r] = q], late' \in SUBSET Invitations,
           invitation' \in [Invitations -> Invitation \cup {NoInvitation}],
           RequestOK(q, invitation'),
           q.pc = "accepting" =>
              \A s \in Requests \ {r} : req[s].pc = "accepting" => req[s].invitation # q.invitation,
           \A s \in Requests \ {r} : req[s].pc = "accepting" =>
              invitation'[req[s].invitation] = invitation[req[s].invitation]
    PROVE  TalksOK'
  <1>1. req' \in [Requests -> Request] /\ req'[r] = q /\ \A s \in Requests \ {r} : req'[s] = req[s]
    BY Zenon DEF TalksOK
  <1>2. LocksOK'
    BY <1>1, Zenon DEF TalksOK, LocksOK
  <1>3. ASSUME NEW s \in Requests PROVE RequestOK(req'[s], invitation')
    BY <1>1 DEF TalksOK, RequestOK
  <1> QED BY <1>1, <1>2, <1>3, Zenon DEF TalksOK

LEMMA EndsOK ==
    ASSUME TalksOK, NEW r \in Requests, End(r), UNCHANGED <<invitation, late>>
    PROVE  TalksOK'
  <1>1. RequestOK(Idle, invitation') /\ Idle.pc # "accepting"
    BY RowTypes, Zenon DEF RequestOK
  <1> QED BY <1>1, RowTypes, MovesOK, Zenon DEF End, TalksOK

\* The request ends after changing invitation i, which no other request holds.
LEMMA EndsWithOK ==
    ASSUME TalksOK, NEW r \in Requests, NEW i \in Invitations, NEW x \in Invitation,
           End(r), late' = late, invitation' = [invitation EXCEPT ![i] = x],
           \A s \in Requests \ {r} : req[s].pc = "accepting" => req[s].invitation # i
    PROVE  TalksOK'
  <1>1. RequestOK(Idle, invitation') /\ Idle.pc # "accepting"
    BY RowTypes, Zenon DEF RequestOK
  <1>2. invitation' \in [Invitations -> Invitation \cup {NoInvitation}]
    BY Zenon DEF TalksOK
  <1>3. ASSUME NEW s \in Requests \ {r}, req[s].pc = "accepting"
        PROVE  invitation'[req[s].invitation] = invitation[req[s].invitation]
    BY <1>3, Zenon DEF TalksOK, RequestOK
  <1> QED BY <1>1, <1>2, <1>3, RowTypes, MovesOK, Zenon DEF End, TalksOK

LEMMA AuthenticateOK ==
    ASSUME IInv, NEW r \in Requests, NEW p \in Principals, Authenticate(r, p)
    PROVE  TalksOK'
  <1> DEFINE q == [Idle EXCEPT !.pc = "open", !.who = p, !.declared = member[p].role]
  <1>1. member[p].role \in AccessRole
    BY RowTypes, Zenon DEF Authenticate, IInv, TablesOK, MemberStatus
  <1>2. q \in Request /\ q.pc = "open"
    BY <1>1, Zenon DEF Idle, Request
  <1>3. req' = [req EXCEPT ![r] = q] /\ UNCHANGED <<invitation, late>>
    BY Zenon DEF Authenticate
  <1> HIDE DEF q
  <1>4. RequestOK(q, invitation')
    BY <1>2, Zenon DEF RequestOK
  <1> QED BY <1>2, <1>3, <1>4, MovesOK, Zenon DEF IInv, TalksOK

LEMMA CreateInvitationOK ==
    ASSUME TalksOK, NEW r \in Requests, NEW i \in Invitations, NEW p \in Principals,
           NEW role \in Offered, CreateInvitation(r, i, p, role)
    PROVE  TalksOK'
  <1>1. [status |-> "pending", identity |-> p, role |-> role] \in Invitation
    BY OfferAssumption, Zenon DEF Invitation
  <1>2. ASSUME NEW s \in Requests, req[s].pc = "accepting" PROVE req[s].invitation # i
    BY <1>2, RowTypes, Zenon DEF TalksOK, RequestOK, CreateInvitation
  <1> QED BY <1>1, <1>2, EndsWithOK, Zenon DEF CreateInvitation

LEMMA ExpireOK ==
    ASSUME TalksOK, NEW i \in Invitations, Expire(i)
    PROVE  TalksOK'
  BY Zenon DEF TalksOK, LocksOK, Expire

LEMMA PendingChange ==
    ASSUME TalksOK, NEW i \in Invitations, invitation[i].status = "pending",
           NEW status \in {"accepted", "revoked", "expired"}
    PROVE  /\ invitation[i] \in Invitation
           /\ [invitation[i] EXCEPT !.status = status] \in Invitation
           /\ [invitation EXCEPT ![i].status = status]
                = [invitation EXCEPT ![i] = [invitation[i] EXCEPT !.status = status]]
  <1>1. invitation[i] \in Invitation
    BY RowTypes, Zenon DEF TalksOK
  <1> QED BY <1>1, Zenon DEF Invitation

LEMMA BeginAcceptOK ==
    ASSUME TalksOK, NEW r \in Requests, NEW i \in Invitations, NEW p \in Principals,
           BeginAccept(r, i, p)
    PROVE  TalksOK'
  <1>1. CASE invitation' = [invitation EXCEPT ![i].status = "expired"] /\ UNCHANGED req
    <2> DEFINE x == [invitation[i] EXCEPT !.status = "expired"]
    <2>1. x \in Invitation /\ invitation' = [invitation EXCEPT ![i] = x]
      BY <1>1, PendingChange, Zenon DEF BeginAccept
    <2> HIDE DEF x
    <2>2. \A s \in Requests : req[s].pc = "accepting" => req[s].invitation # i
      BY Zenon DEF BeginAccept, InvitationFree
    <2>3. ASSUME NEW s \in Requests PROVE RequestOK(req[s], invitation')
      BY <2>1, <2>2, Zenon DEF TalksOK, RequestOK
    <2> QED BY <1>1, <2>1, <2>3, Zenon DEF TalksOK, LocksOK, BeginAccept
  <1>2. CASE /\ req' = [req EXCEPT ![r] = [Idle EXCEPT !.pc = "accepting", !.who = p, !.invitation = i]]
             /\ UNCHANGED invitation
    <2> DEFINE q == [Idle EXCEPT !.pc = "accepting", !.who = p, !.invitation = i]
    <2>1. q \in Request /\ q.pc = "accepting" /\ q.who = p /\ q.invitation = i
      BY Zenon DEF Idle, Request
    <2>2. req' = [req EXCEPT ![r] = q]
      BY <1>2, Zenon
    <2> HIDE DEF q
    <2>3. RequestOK(q, invitation')
      BY <1>2, <2>1, Zenon DEF RequestOK, BeginAccept
    <2> QED BY <1>2, <2>1, <2>2, <2>3, MovesOK, Zenon DEF TalksOK, BeginAccept, InvitationFree
  <1> QED BY <1>1, <1>2, Zenon DEF BeginAccept

LEMMA AcceptOK ==
    ASSUME TalksOK, NEW r \in Requests, Accept(r)
    PROVE  TalksOK'
  <1> DEFINE i == req[r].invitation
  <1>1. /\ req[r].pc = "accepting" /\ i \in Invitations /\ invitation[i].status = "pending"
        /\ \A s \in Requests \ {r} : req[s].pc = "accepting" => req[s].invitation # i
    BY Zenon DEF Accept, TalksOK, RequestOK, LocksOK
  <1>2. CASE UNCHANGED invitation
    BY <1>2, EndsOK, Zenon DEF Accept
  <1>3. CASE invitation' = [invitation EXCEPT ![i].status = "accepted"]
    BY <1>1, <1>3, PendingChange, EndsWithOK, Zenon DEF Accept
  <1> QED BY <1>2, <1>3, Zenon DEF Accept

LEMMA BeginRevokeOK ==
    ASSUME TalksOK, NEW r \in Requests, NEW i \in Invitations, BeginRevoke(r, i)
    PROVE  TalksOK'
  <1> DEFINE q == [req[r] EXCEPT !.pc = "revoking", !.invitation = i]
  <1>1. q \in Request /\ q.pc = "revoking" /\ q.invitation = i
    BY Zenon DEF TalksOK, Request
  <1>2. req' = [req EXCEPT ![r] = q]
    BY Zenon DEF BeginRevoke
  <1> HIDE DEF q
  <1>3. RequestOK(q, invitation')
    BY <1>1, Zenon DEF RequestOK
  <1> QED BY <1>1, <1>2, <1>3, MovesOK, Zenon DEF TalksOK, BeginRevoke

LEMMA RevokeOK ==
    ASSUME TalksOK, NEW r \in Requests, Revoke(r)
    PROVE  TalksOK'
  <1> DEFINE i == req[r].invitation
  <1>1. /\ i \in Invitations
        /\ \A s \in Requests : req[s].pc = "accepting" => req[s].invitation # i
    BY Zenon DEF Revoke, TalksOK, RequestOK, InvitationFree
  <1>2. CASE UNCHANGED invitation
    BY <1>2, EndsOK, Zenon DEF Revoke
  <1>3. CASE invitation[i].status = "pending" /\ invitation' = [invitation EXCEPT ![i].status = "revoked"]
    BY <1>1, <1>3, PendingChange, EndsWithOK, Zenon DEF Revoke
  <1> QED BY <1>2, <1>3, Zenon DEF Revoke

-----------------------------------------------------------------------------
\* Members, groups and grants.

\* Member p is admitted or changed.
LEMMA MemberSetOK ==
    ASSUME TablesOK, NEW p \in Principals, NEW m \in Member,
           member' = [member EXCEPT ![p] = m], UNCHANGED accessVars
    PROVE  TablesOK'
  <1>1. member' \in [Principals -> Member \cup {NoMember}]
    BY Zenon DEF TablesOK
  <1>2. \A q \in Principals : IsMember(q) => IsMember(q)'
    BY RowTypes, Zenon DEF TablesOK, IsMember
  <1>3. NothingOutlives'
    <2>1. ASSUME NEW x \in groupMember' PROVE GroupExists(x[1])' /\ IsMember(x[2])'
      BY <1>2, Zenon DEF TablesOK, NothingOutlives, accessVars, GroupExists
    <2>2. ASSUME NEW n \in Nodes, NEW s \in Subjects, acl'[n][s] > 0 PROVE SubjectExists(s)'
      BY <1>2, <2>2, Zenon DEF TablesOK, NothingOutlives, accessVars, SubjectExists, GroupExists, Subjects
    <2> QED BY <2>1, <2>2, Zenon DEF NothingOutlives
  <1> QED BY <1>1, <1>3, Zenon DEF TablesOK, accessVars

LEMMA UpdateMemberOK ==
    ASSUME TablesOK, NEW r \in Requests, NEW p \in Principals, NEW role \in Offered \cup {None},
           NEW status \in MemberStatus \cup {None}, UpdateMember(r, p, role, status), UNCHANGED accessVars
    PROVE  TablesOK'
  <1> DEFINE a == IF role = None THEN member[p].role ELSE role
             b == IF status = None THEN member[p].status ELSE status
  <1>1. member[p] \in Member
    BY Zenon DEF UpdateMember, IsMember, TablesOK
  <1>2. a \in AccessRole /\ b \in MemberStatus
    BY <1>1, RowTypes, OfferAssumption, Zenon
  <1>3. member' = [member EXCEPT ![p] = [role |-> a, status |-> b]]
    BY Zenon DEF UpdateMember
  <1> HIDE DEF a, b
  <1>4. [role |-> a, status |-> b] \in Member
    BY <1>2, RowTypes, Zenon
  <1> QED BY <1>3, <1>4, MemberSetOK, Zenon

LEMMA AdmitsOK ==
    ASSUME IInv, NEW r \in Requests, Accept(r), UNCHANGED accessVars
    PROVE  TablesOK'
  <1>1. CASE UNCHANGED member
    BY <1>1, Zenon DEF IInv, TablesOK, NothingOutlives, accessVars, GroupExists, IsMember, SubjectExists
  <1>2. CASE member' = [member EXCEPT ![req[r].who] = [role |-> invitation[req[r].invitation].role,
                                                       status |-> "active"]]
    <2>1. /\ req[r].who \in Principals
          /\ invitation[req[r].invitation] \in Invitation
      BY PendingChange, Zenon DEF Accept, IInv, TalksOK, RequestOK
    <2>2. [role |-> invitation[req[r].invitation].role, status |-> "active"] \in Member
      BY <2>1, RowTypes, Zenon DEF MemberStatus
    <2> QED BY <1>2, <2>1, <2>2, MemberSetOK, Zenon DEF IInv
  <1> QED BY <1>1, <1>2, Zenon DEF Accept

LEMMA EnsureOK ==
    ASSUME TablesOK, NEW p \in Seeds, EnsureOIDCMember(p), UNCHANGED accessVars
    PROVE  TablesOK'
  <1>1. CASE UNCHANGED member
    BY <1>1, Zenon DEF TablesOK, NothingOutlives, accessVars, GroupExists, IsMember, SubjectExists
  <1>2. CASE member' = [member EXCEPT ![p] = [role |-> SeedRole[p], status |-> "active"]]
    <2>1. p \in Principals /\ [role |-> SeedRole[p], status |-> "active"] \in Member
      BY SeedAssumption, RowTypes, Zenon DEF MemberStatus
    <2> QED BY <1>2, <2>1, MemberSetOK, Zenon
  <1> QED BY <1>1, <1>2, Zenon DEF EnsureOIDCMember

\* What deleting the grants of a subject leaves.
LEMMA Forgotten ==
    ASSUME TablesOK, NEW s \in Subjects, Forget(s)
    PROVE  /\ acl' \in [Nodes -> [Subjects -> 0..3]]
           /\ \A n \in Nodes : acl'[n][s] = 0 /\ \A t \in Subjects \ {s} : acl'[n][t] = acl[n][t]
  <1>1. acl \in [Nodes -> [Subjects -> 0..3]]
    BY Zenon DEF TablesOK
  <1>2. ASSUME NEW n \in Nodes
        PROVE  /\ acl'[n] \in [Subjects -> 0..3]
               /\ acl'[n][s] = 0 /\ \A t \in Subjects \ {s} : acl'[n][t] = acl[n][t]
    <2>1. acl'[n] = [acl[n] EXCEPT ![s] = 0]
      BY Zenon DEF Forget
    <2>2. acl[n] \in [Subjects -> 0..3]
      BY <1>1, Zenon
    <2> QED BY <2>1, <2>2
  <1> QED BY <1>2, Zenon DEF Forget

LEMMA RemoveMemberOK ==
    ASSUME TablesOK, NEW r \in Requests, NEW p \in Principals, RemoveMember(r, p)
    PROVE  TablesOK'
  <1>0. /\ member' = [member EXCEPT ![p] = NoMember] /\ UNCHANGED group
        /\ groupMember' = {m \in groupMember : m[2] # p}
        /\ p \in Subjects /\ p \notin Groups
    BY SubjectAssumption, Zenon DEF RemoveMember, DeleteMember, Subjects
  <1>1. /\ member' \in [Principals -> Member \cup {NoMember}]
        /\ \A q \in Principals \ {p} : IsMember(q)' <=> IsMember(q)
    BY <1>0, Zenon DEF TablesOK, IsMember
  <1>2. /\ acl' \in [Nodes -> [Subjects -> 0..3]]
        /\ \A n \in Nodes : acl'[n][p] = 0 /\ \A t \in Subjects \ {p} : acl'[n][t] = acl[n][t]
    BY <1>0, Forgotten, Zenon DEF RemoveMember
  <1>3. ASSUME NEW x \in groupMember' PROVE GroupExists(x[1])' /\ IsMember(x[2])'
    BY <1>0, <1>1, Zenon DEF TablesOK, NothingOutlives, GroupExists
  <1>4. ASSUME NEW n \in Nodes, NEW s \in Subjects, acl'[n][s] > 0 PROVE SubjectExists(s)'
    <2>1. s # p /\ SubjectExists(s)
      BY <1>2, <1>4 DEF TablesOK, NothingOutlives
    <2> QED BY <1>0, <1>1, <2>1, Zenon DEF SubjectExists, GroupExists, Subjects
  <1> QED BY <1>0, <1>1, <1>2, <1>3, <1>4, Zenon DEF TablesOK, NothingOutlives

\* A group is created or renamed.
LEMMA GroupSetOK ==
    ASSUME TablesOK, NEW g \in Groups, NEW name \in GroupNames,
           group' = [group EXCEPT ![g] = name], UNCHANGED <<member, groupMember, acl>>
    PROVE  TablesOK'
  <1>1. group' \in [Groups -> GroupNames \cup {None}] /\ \A h \in Groups : GroupExists(h) => GroupExists(h)'
    BY NameAssumption, Zenon DEF TablesOK, GroupExists
  <1>2. ASSUME NEW x \in groupMember PROVE GroupExists(x[1])' /\ IsMember(x[2])'
    BY <1>1, Zenon DEF TablesOK, NothingOutlives, IsMember
  <1>3. ASSUME NEW n \in Nodes, NEW s \in Subjects, acl[n][s] > 0 PROVE SubjectExists(s)'
    BY <1>1, <1>3, Zenon DEF TablesOK, NothingOutlives, SubjectExists, IsMember
  <1> QED BY <1>1, <1>2, <1>3, Zenon DEF TablesOK, NothingOutlives

LEMMA DeleteGroupOK ==
    ASSUME TablesOK, NEW r \in Requests, NEW g \in Groups, DeleteGroup(r, g)
    PROVE  TablesOK'
  <1>0. /\ group' = [group EXCEPT ![g] = None] /\ UNCHANGED member
        /\ groupMember' = {m \in groupMember : m[1] # g} /\ g \in Subjects
    BY Zenon DEF DeleteGroup, Subjects
  <1>1. /\ group' \in [Groups -> GroupNames \cup {None}]
        /\ \A h \in Groups \ {g} : GroupExists(h)' <=> GroupExists(h)
    BY <1>0, Zenon DEF TablesOK, GroupExists
  <1>2. /\ acl' \in [Nodes -> [Subjects -> 0..3]]
        /\ \A n \in Nodes : acl'[n][g] = 0 /\ \A t \in Subjects \ {g} : acl'[n][t] = acl[n][t]
    BY <1>0, Forgotten, Zenon DEF DeleteGroup
  <1>3. ASSUME NEW x \in groupMember' PROVE GroupExists(x[1])' /\ IsMember(x[2])'
    BY <1>0, <1>1, Zenon DEF TablesOK, NothingOutlives, IsMember
  <1>4. ASSUME NEW n \in Nodes, NEW s \in Subjects, acl'[n][s] > 0 PROVE SubjectExists(s)'
    <2>1. s # g /\ SubjectExists(s)
      BY <1>2, <1>4 DEF TablesOK, NothingOutlives
    <2> QED BY <1>0, <1>1, <2>1, Zenon DEF SubjectExists, IsMember
  <1> QED BY <1>0, <1>1, <1>2, <1>3, <1>4, Zenon DEF TablesOK, NothingOutlives

LEMMA ChangeGroupMemberOK ==
    ASSUME TablesOK, NEW r \in Requests, NEW g \in Groups, NEW p \in Principals, NEW add \in BOOLEAN,
           changeGroupMember(r, g, p, add)
    PROVE  TablesOK'
  <1>0. UNCHANGED <<member, group, acl>> /\ GroupExists(g) /\ IsMember(p)
    BY Zenon DEF changeGroupMember
  <1>1. groupMember' \subseteq groupMember \cup {<<g, p>>}
    BY Zenon DEF changeGroupMember
  <1>2. ASSUME NEW x \in groupMember' PROVE GroupExists(x[1])' /\ IsMember(x[2])'
    <2>1. CASE x = <<g, p>>
      BY <1>0, <2>1, Zenon DEF GroupExists, IsMember
    <2>2. CASE x \in groupMember
      BY <1>0, <2>2, Zenon DEF TablesOK, NothingOutlives, GroupExists, IsMember
    <2> QED BY <1>1, <2>1, <2>2, Zenon
  <1>3. groupMember' \subseteq Groups \X Principals
    BY <1>1 DEF TablesOK
  <1>4. ASSUME NEW n \in Nodes, NEW s \in Subjects, acl[n][s] > 0 PROVE SubjectExists(s)'
    BY <1>0, <1>4, Zenon DEF TablesOK, NothingOutlives, SubjectExists, GroupExists, IsMember
  <1> QED BY <1>0, <1>2, <1>3, <1>4, Zenon DEF TablesOK, NothingOutlives

\* A grant is set, for a subject there is, or deleted.
LEMMA GrantOK ==
    ASSUME TablesOK, NEW n \in Nodes, NEW s \in Subjects, NEW level \in 0..3,
           level = 0 \/ SubjectExists(s),
           acl' = [acl EXCEPT ![n][s] = level], UNCHANGED <<member, group, groupMember>>
    PROVE  TablesOK'
  <1>1. acl \in [Nodes -> [Subjects -> 0..3]]
    BY Zenon DEF TablesOK
  <1>2. /\ acl' \in [Nodes -> [Subjects -> 0..3]]
        /\ \A m \in Nodes, t \in Subjects : acl'[m][t] = IF m = n /\ t = s THEN level ELSE acl[m][t]
    BY <1>1, Zenon
  <1>3. ASSUME NEW m \in Nodes, NEW t \in Subjects, acl'[m][t] > 0 PROVE SubjectExists(t)'
    <2>1. SubjectExists(t)
      BY <1>2, <1>3 DEF TablesOK, NothingOutlives
    <2> QED BY <2>1, Zenon DEF SubjectExists, GroupExists, IsMember
  <1>4. \A x \in groupMember : GroupExists(x[1])' /\ IsMember(x[2])'
    BY Zenon DEF TablesOK, NothingOutlives, GroupExists, IsMember
  <1> QED BY <1>2, <1>3, <1>4, Zenon DEF TablesOK, NothingOutlives

-----------------------------------------------------------------------------
\* The handlers.

LEMMA TablesKept ==
    ASSUME TablesOK, UNCHANGED <<member, group, groupMember, acl>>
    PROVE  TablesOK'
  BY Zenon DEF TablesOK, NothingOutlives, GroupExists, IsMember, SubjectExists

LEMMA MembershipStepOK ==
    ASSUME IInv, NEW r \in Requests, MembershipStep(r)
    PROVE  IInv'
  <1>1. CASE \E p \in Principals : Authenticate(r, p)
    BY <1>1, AuthenticateOK, TablesKept, Zenon DEF Authenticate, IInv, MembershipStep, accessVars
  <1>2. CASE Accept(r)
    BY <1>2, AcceptOK, AdmitsOK, Zenon DEF IInv, MembershipStep
  <1>3. CASE Revoke(r)
    BY <1>3, RevokeOK, TablesKept, Zenon DEF Revoke, IInv, MembershipStep, accessVars
  <1>4. CASE Leave(r)
    BY <1>4, EndsOK, TablesKept, Zenon DEF Leave, IInv, MembershipStep, accessVars
  <1> QED BY <1>1, <1>2, <1>3, <1>4, Zenon DEF MembershipStep

LEMMA MemberHandlersOK ==
    ASSUME IInv, NEW r \in Requests, updateMember(r) \/ deleteMember(r)
    PROVE  IInv'
  <1>1. CASE updateMember(r)
    <2> PICK p \in Principals, role \in Offered \cup {None}, status \in MemberStatus \cup {None} :
          UpdateMember(r, p, role, status)
      BY <1>1, Zenon DEF updateMember, ServiceUpdateMember
    <2>1. TablesOK'
      BY <1>1, UpdateMemberOK, Zenon DEF updateMember, IInv
    <2>2. TalksOK'
      BY EndsOK, Zenon DEF UpdateMember, IInv
    <2> QED BY <2>1, <2>2, Zenon DEF IInv
  <1>2. CASE deleteMember(r)
    <2> PICK p \in Principals : RemoveMember(r, p)
      BY <1>2, Zenon DEF deleteMember, ServiceDeleteMember
    <2> QED BY EndsOK, RemoveMemberOK, Zenon DEF RemoveMember, DeleteMember, IInv
  <1> QED BY <1>1, <1>2, Zenon

LEMMA InvitationHandlersOK ==
    ASSUME IInv, NEW r \in Requests, createInvitation(r) \/ revokeInvitation(r) \/ acceptInvitation(r)
    PROVE  IInv'
  <1>1. CASE createInvitation(r)
    <2> PICK i \in Invitations, p \in Principals, role \in Offered : CreateInvitation(r, i, p, role)
      BY <1>1, Zenon DEF createInvitation, ServiceCreateInvitation
    <2>1. UNCHANGED <<member, group, groupMember, acl>>
      BY <1>1, Zenon DEF createInvitation, CreateInvitation, accessVars
    <2> QED BY <2>1, CreateInvitationOK, TablesKept, Zenon DEF IInv
  <1>2. CASE revokeInvitation(r)
    <2> PICK i \in Invitations : BeginRevoke(r, i)
      BY <1>2, Zenon DEF revokeInvitation, ServiceRevokeInvitation
    <2>1. UNCHANGED <<member, group, groupMember, acl>>
      BY <1>2, Zenon DEF revokeInvitation, BeginRevoke, accessVars
    <2> QED BY <2>1, BeginRevokeOK, TablesKept, Zenon DEF IInv
  <1>3. CASE acceptInvitation(r)
    <2> PICK i \in Invitations, p \in Principals : BeginAccept(r, i, p)
      BY <1>3, Zenon DEF acceptInvitation
    <2>1. UNCHANGED <<member, group, groupMember, acl>>
      BY <1>3, Zenon DEF acceptInvitation, BeginAccept, accessVars
    <2> QED BY <2>1, BeginAcceptOK, TablesKept, Zenon DEF IInv
  <1> QED BY <1>1, <1>2, <1>3, Zenon

LEMMA GroupHandlersOK ==
    ASSUME IInv, NEW r \in Requests,
           \/ createGroup(r) \/ updateGroup(r) \/ deleteGroup(r) \/ addGroupMember(r) \/ removeGroupMember(r)
    PROVE  IInv'
  <1>1. CASE createGroup(r)
    <2> PICK g \in Groups, name \in GroupNames : CreateGroup(r, g, name)
      BY <1>1, Zenon DEF createGroup, ServiceCreateGroup
    <2> QED BY EndsOK, GroupSetOK, Zenon DEF CreateGroup, IInv
  <1>2. CASE updateGroup(r)
    <2> PICK g \in Groups, name \in GroupNames : UpdateGroup(r, g, name)
      BY <1>2, Zenon DEF updateGroup, ServiceUpdateGroup
    <2> QED BY EndsOK, GroupSetOK, Zenon DEF UpdateGroup, IInv
  <1>3. CASE deleteGroup(r)
    <2> PICK g \in Groups : DeleteGroup(r, g)
      BY <1>3, Zenon DEF deleteGroup, ServiceDeleteGroup
    <2> QED BY EndsOK, DeleteGroupOK, Zenon DEF DeleteGroup, IInv
  <1>4. CASE addGroupMember(r) \/ removeGroupMember(r)
    <2> PICK g \in Groups, p \in Principals, add \in BOOLEAN : changeGroupMember(r, g, p, add)
      BY <1>4, Zenon DEF addGroupMember, removeGroupMember, ServiceChangeGroupMember
    <2> QED BY EndsOK, ChangeGroupMemberOK, Zenon DEF changeGroupMember, IInv
  <1> QED BY <1>1, <1>2, <1>3, <1>4, Zenon

LEMMA GrantHandlersOK ==
    ASSUME IInv, NEW r \in Requests, setNodeACL(r) \/ deleteNodeACL(r)
    PROVE  IInv'
  <1>1. CASE setNodeACL(r)
    <2> PICK n \in Nodes, s \in Grantees, level \in Grants : SetNodeACL(r, n, s, level)
      BY <1>1, Zenon DEF setNodeACL, ServiceSetNodeACL
    <2>1. s \in Subjects /\ level \in 0..3
      BY SubjectAssumption, GrantAssumption DEF Subjects
    <2> QED BY <2>1, EndsOK, GrantOK, Zenon DEF SetNodeACL, IInv
  <1>2. CASE deleteNodeACL(r)
    <2> PICK n \in Nodes, s \in Grantees : DeleteNodeACL(r, n, s)
      BY <1>2, Zenon DEF deleteNodeACL, ServiceDeleteNodeACL
    <2>1. s \in Subjects /\ 0 \in 0..3
      BY SubjectAssumption DEF Subjects
    <2> QED BY <2>1, EndsOK, GrantOK, Zenon DEF DeleteNodeACL, IInv
  <1> QED BY <1>1, <1>2, Zenon

\* IInv is inductive.
LEMMA StepOK == IInv /\ [Next]_allVars => IInv'
  <1> SUFFICES ASSUME IInv, [Next]_allVars PROVE IInv'
    BY Zenon
  <1>1. CASE UNCHANGED allVars
    BY <1>1, TablesKept, Zenon DEF allVars, vars, accessVars, IInv, TalksOK, LocksOK
  <1>2. ASSUME NEW p \in Seeds, EnsureOIDCMember(p), UNCHANGED accessVars PROVE IInv'
    BY <1>2, EnsureOK, Zenon DEF EnsureOIDCMember, IInv, TalksOK, LocksOK
  <1>3. ASSUME NEW i \in Invitations, Expire(i), UNCHANGED accessVars PROVE IInv'
    BY <1>3, ExpireOK, TablesKept, Zenon DEF Expire, accessVars, IInv
  <1> QED BY Zenon, <1>1, <1>2, <1>3, MembershipStepOK, MemberHandlersOK, InvitationHandlersOK, GroupHandlersOK,
             GrantHandlersOK DEF Next

LEMMA Invariance == Spec => []IInv
  BY InitOK, StepOK, PTL DEF Spec

-----------------------------------------------------------------------------
\* Theorems.

\* The tables hold what their columns allow.
THEOREM TablesTyped == Spec => []AccessTypeOK
  <1>1. IInv => AccessTypeOK
    BY Zenon DEF IInv, TablesOK, TalksOK, AccessTypeOK, TypeOK
  <1> QED BY <1>1, Invariance, PTL

\* No grant and no membership of a group outlives its subject: the cascades of
\* DeleteMember and DeleteGroup reach everything that speaks of it.
THEOREM NothingIsLeft == Spec => []NothingOutlives
  <1>1. IInv => NothingOutlives
    BY Zenon DEF IInv, TablesOK
  <1> QED BY <1>1, Invariance, PTL

\* The members stay but for the one whose row is written.
LEMMA OnlyRow ==
    ASSUME IInv, NEW p \in Principals, NEW m, member' = [member EXCEPT ![p] = m]
    PROVE  member'[p] = m /\ \A q \in Principals \ {p} : member'[q] = member[q]
  BY Zenon DEF IInv, TablesOK

\* Which steps write the members.
LEMMA MemberSteps ==
    ASSUME IInv, Next
    PROVE  \/ UNCHANGED member
           \/ \E r \in Requests, p \in Principals, new \in Member \cup {NoMember} :
                 /\ Begin(r) /\ End(r) /\ IsMember(p) /\ MayChange(r, p, new)
                 /\ member' = [member EXCEPT ![p] = new]
           \/ \E r \in Requests : Accept(r) /\ ~IsMember(req[r].who) /\ UNCHANGED accessVars
           \/ \E p \in Seeds : EnsureOIDCMember(p) /\ ~IsMember(p) /\ UNCHANGED accessVars
  <1> SUFFICES ASSUME member' # member
               PROVE  \/ \E r \in Requests, p \in Principals, new \in Member \cup {NoMember} :
                            /\ Begin(r) /\ End(r) /\ IsMember(p) /\ MayChange(r, p, new)
                            /\ member' = [member EXCEPT ![p] = new]
                      \/ \E r \in Requests : Accept(r) /\ ~IsMember(req[r].who) /\ UNCHANGED accessVars
                      \/ \E p \in Seeds : EnsureOIDCMember(p) /\ ~IsMember(p) /\ UNCHANGED accessVars
    BY Zenon
  <1>1. ASSUME NEW r \in Requests, updateMember(r)
        PROVE  \E p \in Principals, new \in Member \cup {NoMember} :
                  /\ Begin(r) /\ End(r) /\ IsMember(p) /\ MayChange(r, p, new)
                  /\ member' = [member EXCEPT ![p] = new]
    <2> PICK p \in Principals, role \in Offered \cup {None}, status \in MemberStatus \cup {None} :
          UpdateMember(r, p, role, status)
      BY <1>1, Zenon DEF updateMember, ServiceUpdateMember
    <2> DEFINE new == [role |-> IF role = None THEN member[p].role ELSE role,
                       status |-> IF status = None THEN member[p].status ELSE status]
    <2>1. /\ Begin(r) /\ End(r) /\ IsMember(p) /\ MayChange(r, p, new)
          /\ member' = [member EXCEPT ![p] = new]
      BY Zenon DEF UpdateMember
    <2> HIDE DEF new
    <2>2. member'[p] = new /\ member'[p] \in Member \cup {NoMember}
      BY <1>1, <2>1, OnlyRow, UpdateMemberOK, Zenon DEF updateMember, IInv, TablesOK
    <2> QED BY <2>1, <2>2, Zenon
  <1>2. ASSUME NEW r \in Requests, deleteMember(r)
        PROVE  \E p \in Principals, new \in Member \cup {NoMember} :
                  /\ Begin(r) /\ End(r) /\ IsMember(p) /\ MayChange(r, p, new)
                  /\ member' = [member EXCEPT ![p] = new]
    BY <1>2, Zenon DEF deleteMember, ServiceDeleteMember, RemoveMember, DeleteMember
  <1>3. ASSUME NEW r \in Requests, MembershipStep(r)
        PROVE  Accept(r) /\ ~IsMember(req[r].who) /\ UNCHANGED accessVars
    BY <1>3, Zenon DEF MembershipStep, Authenticate, Leave, Revoke, Accept
  <1>4. ASSUME NEW r \in Requests, createInvitation(r) \/ revokeInvitation(r) \/ acceptInvitation(r)
        PROVE  FALSE
    BY <1>4, Zenon DEF createInvitation, ServiceCreateInvitation, CreateInvitation, revokeInvitation,
                ServiceRevokeInvitation, BeginRevoke, acceptInvitation, BeginAccept
  <1>5. ASSUME NEW r \in Requests,
               \/ createGroup(r) \/ updateGroup(r) \/ deleteGroup(r) \/ addGroupMember(r)
               \/ removeGroupMember(r) \/ setNodeACL(r) \/ deleteNodeACL(r)
        PROVE  FALSE
    BY <1>5, Zenon DEF createGroup, ServiceCreateGroup, CreateGroup, updateGroup, ServiceUpdateGroup, UpdateGroup,
                deleteGroup, ServiceDeleteGroup, DeleteGroup, addGroupMember, removeGroupMember,
                ServiceChangeGroupMember, changeGroupMember, setNodeACL, ServiceSetNodeACL, SetNodeACL,
                deleteNodeACL, ServiceDeleteNodeACL, DeleteNodeACL
  <1>6. ASSUME NEW p \in Seeds, EnsureOIDCMember(p) PROVE ~IsMember(p)
    BY <1>6, Zenon DEF EnsureOIDCMember
  <1>7. ASSUME NEW i \in Invitations, Expire(i) PROVE FALSE
    BY <1>7, Zenon DEF Expire
  <1> QED BY <1>1, <1>2, <1>3, <1>4, <1>5, <1>6, <1>7, Zenon DEF Next

\* Who is admitted by an acceptance, and who by the bootstrap.
LEMMA Admission ==
    ASSUME IInv, NEW r \in Requests, Accept(r), ~IsMember(req[r].who)
    PROVE  LET i == req[r].invitation p == req[r].who IN
           /\ p \in Principals /\ i \in Invitations
           /\ member' = [member EXCEPT ![p] = [role |-> invitation[i].role, status |-> "active"]]
           /\ invitation[i].status = "pending" /\ invitation[i].identity = p
           /\ invitation[i] \in Invitation
           /\ invitation'[i].status = "accepted"
  <1> DEFINE i == req[r].invitation
             p == req[r].who
  <1>1. /\ p \in Principals /\ i \in Invitations
        /\ invitation[i].status = "pending" /\ invitation[i].identity = p
    BY Zenon DEF Accept, IInv, TalksOK, RequestOK
  <1>2. invitation[i] \in Invitation
    BY <1>1, PendingChange, Zenon DEF IInv
  <1>3. /\ member' = [member EXCEPT ![p] = [role |-> invitation[i].role, status |-> "active"]]
        /\ invitation' = [invitation EXCEPT ![i].status = "accepted"]
    BY Zenon DEF Accept
  <1>4. invitation'[i].status = "accepted"
    BY <1>1, <1>2, <1>3, Zenon DEF IInv, TalksOK, Invitation
  <1> QED BY <1>1, <1>2, <1>3, <1>4, Zenon

LEMMA Admitted ==
    ASSUME IInv, NEW r \in Requests, Accept(r), ~IsMember(req[r].who)
    PROVE  \A q \in Principals \ {req[r].who} : member'[q] = member[q]
  <1> DEFINE m == [role |-> invitation[req[r].invitation].role, status |-> "active"]
  <1>1. req[r].who \in Principals /\ member' = [member EXCEPT ![req[r].who] = m]
    BY Admission, Zenon
  <1> HIDE DEF m
  <1> QED BY <1>1, OnlyRow, Zenon

\* No step takes the last active owner from the tenant.
THEOREM OwnersStay == Spec => OwnerStays
  <1>1. ASSUME IInv, Next, HasOwner PROVE HasOwner'
    <2>1. CASE UNCHANGED member
      BY <1>1, <2>1, Zenon DEF HasOwner, ActiveOwner
    <2>2. ASSUME NEW r \in Requests, NEW p \in Principals, NEW new, MayChange(r, p, new),
                 member' = [member EXCEPT ![p] = new]
          PROVE  HasOwner'
      <3>1. CASE ActiveOwner(p) /\ new # member[p]
        BY <1>1, <2>2, <3>1, OnlyRow, Zenon DEF MayChange, OtherOwner, HasOwner, ActiveOwner
      <3>2. CASE ~ActiveOwner(p) \/ new = member[p]
        BY <1>1, <2>2, <3>2, OnlyRow DEF HasOwner, ActiveOwner
      <3> QED BY <3>1, <3>2, Zenon
    <2>3. ASSUME NEW r \in Requests, Accept(r), ~IsMember(req[r].who)
          PROVE  HasOwner'
      <3>1. ~ActiveOwner(req[r].who)
        BY <2>3 DEF IsMember, ActiveOwner, NoMember
      <3>2. \A q \in Principals \ {req[r].who} : member'[q] = member[q]
        BY <1>1, <2>3, Admitted, Zenon
      <3> QED BY <1>1, <3>1, <3>2, Zenon DEF HasOwner, ActiveOwner
    <2>4. ASSUME NEW p \in Seeds, EnsureOIDCMember(p), ~IsMember(p) PROVE HasOwner'
      <3>1. ~ActiveOwner(p) /\ p \in Principals
        BY <2>4, SeedAssumption DEF IsMember, ActiveOwner, NoMember
      <3>2. member' = [member EXCEPT ![p] = [role |-> SeedRole[p], status |-> "active"]]
        BY <2>4, Zenon DEF EnsureOIDCMember
      <3>3. \A q \in Principals \ {p} : member'[q] = member[q]
        BY <1>1, <3>1, <3>2, OnlyRow, Zenon
      <3> QED BY <1>1, <3>1, <3>3, Zenon DEF HasOwner, ActiveOwner
    <2> QED BY <1>1, <2>1, <2>2, <2>3, <2>4, MemberSteps, Zenon
  <1>2. IInv /\ [Next]_allVars => [HasOwner => HasOwner']_vars
    BY <1>1, Zenon DEF allVars
  <1>3. Spec => [][HasOwner => HasOwner']_vars
    BY <1>2, Invariance, PTL DEF Spec
  <1> QED BY <1>3, Zenon DEF OwnerStays

\* A membership is created by the bootstrap of a seed, or by the acceptance of a
\* pending invitation of that identity with the role it offers.
THEOREM AdmissionsAreInvited == Spec => AdmittedOnce
  <1> DEFINE A == \A p \in Principals :
                    ~IsMember(p) /\ IsMember(p)' =>
                       \/ p \in Seeds /\ member'[p] = [role |-> SeedRole[p], status |-> "active"]
                       \/ \E i \in Invitations :
                            /\ invitation[i] = [status |-> "pending", identity |-> p,
                                                role |-> member'[p].role]
                            /\ invitation'[i].status = "accepted"
  <1>1. ASSUME IInv, Next, NEW p \in Principals, ~IsMember(p), IsMember(p)'
        PROVE  \/ p \in Seeds /\ member'[p] = [role |-> SeedRole[p], status |-> "active"]
               \/ \E i \in Invitations :
                    /\ invitation[i] = [status |-> "pending", identity |-> p, role |-> member'[p].role]
                    /\ invitation'[i].status = "accepted"
    <2>1. CASE UNCHANGED member
      BY <1>1, <2>1, Zenon DEF IsMember
    <2>2. ASSUME NEW q \in Principals, NEW new, IsMember(q), member' = [member EXCEPT ![q] = new]
          PROVE  FALSE
      BY <1>1, <2>2, OnlyRow, Zenon DEF IsMember
    <2>3. ASSUME NEW r \in Requests, Accept(r), ~IsMember(req[r].who)
          PROVE  \E i \in Invitations :
                    /\ invitation[i] = [status |-> "pending", identity |-> p, role |-> member'[p].role]
                    /\ invitation'[i].status = "accepted"
      <3> DEFINE i == req[r].invitation
                 q == req[r].who
      <3>1. /\ q \in Principals /\ i \in Invitations
            /\ member' = [member EXCEPT ![q] = [role |-> invitation[i].role, status |-> "active"]]
            /\ invitation[i].status = "pending" /\ invitation[i].identity = q
            /\ invitation[i] \in Invitation /\ invitation'[i].status = "accepted"
        BY <1>1, <2>3, Admission, Zenon
      <3> HIDE DEF i, q
      <3>2. /\ member'[q] = [role |-> invitation[i].role, status |-> "active"]
            /\ \A x \in Principals \ {q} : member'[x] = member[x]
        BY <1>1, <3>1, OnlyRow, Zenon
      <3>3. p = q
        BY <1>1, <3>2, Zenon DEF IsMember
      <3>4. member'[p].role = invitation[i].role
        BY <3>2, <3>3
      <3>5. invitation[i] = [status |-> "pending", identity |-> p, role |-> invitation[i].role]
        BY <3>1, <3>3, Zenon DEF Invitation
      <3> QED BY <3>1, <3>4, <3>5, Zenon
    <2>4. ASSUME NEW q \in Seeds, EnsureOIDCMember(q), ~IsMember(q)
          PROVE  p \in Seeds /\ member'[p] = [role |-> SeedRole[p], status |-> "active"]
      <3>1. member' = [member EXCEPT ![q] = [role |-> SeedRole[q], status |-> "active"]]
        BY <2>4, Zenon DEF EnsureOIDCMember
      <3>2. q \in Principals
        BY SeedAssumption, Zenon
      <3>3. /\ member'[q] = [role |-> SeedRole[q], status |-> "active"]
            /\ \A x \in Principals \ {q} : member'[x] = member[x]
        BY <1>1, <3>1, <3>2, OnlyRow, Zenon
      <3> QED BY <1>1, <3>3, Zenon DEF IsMember
    <2> QED BY <1>1, <2>1, <2>2, <2>3, <2>4, MemberSteps, Zenon
  <1>2. ASSUME IInv, Next PROVE A
    BY <1>1, <1>2, Zenon
  <1>3. IInv /\ [Next]_allVars => [A]_vars
    BY <1>2, Zenon DEF allVars
  <1>4. Spec => [][A]_vars
    BY <1>3, Invariance, PTL DEF Spec
  <1> QED BY <1>4, Zenon DEF AdmittedOnce

-----------------------------------------------------------------------------
\* Rights on nodes.

\* Ancestors is reflexive, transitive and closed under parents, and a node's
\* ancestors are itself and those of its parent.
LEMMA AncestorsReach ==
    ASSUME NEW n \in Nodes
    PROVE  /\ n \in Ancestors(n)
           /\ \A m \in Ancestors(n) : m \in Nodes /\ Ancestors(m) \subseteq Ancestors(n)
           /\ \A m \in Ancestors(n) : Parent[m] # None => Parent[m] \in Ancestors(n)
  BY TreeAssumption, Zenon DEF Ancestors

LEMMA AncestorsUp ==
    ASSUME NEW n \in Nodes, NEW a \in Ancestors(n), a # n
    PROVE  Parent[n] # None /\ a \in Ancestors(Parent[n])
  <1>1. CASE Parent[n] = None
    <2>1. {n} \in SUBSET Nodes /\ \A m \in {n} : Parent[m] \in {n} \cup {None}
      BY <1>1, Zenon
    <2> QED BY <2>1, Zenon DEF Ancestors
  <1>2. CASE Parent[n] # None
    <2> DEFINE S == {n} \cup Ancestors(Parent[n])
    <2>1. Parent[n] \in Nodes
      BY <1>2, TreeAssumption, Zenon
    <2>2. S \in SUBSET Nodes /\ n \in S /\ \A m \in S : Parent[m] \in S \cup {None}
      BY <2>1, AncestorsReach, Zenon DEF Ancestors
    <2>3. a \in S
      BY <2>2, Zenon DEF Ancestors
    <2> QED BY <1>2, <2>3, Zenon
  <1> QED BY <1>1, <1>2, Zenon

LEMMA Levels ==
    /\ Level.read = 1 /\ Level.write = 2 /\ Level.delete = 3 /\ Level.manage_acl = 3
    /\ Implicit("owner") = 3 /\ Implicit("admin") = 3 /\ Implicit("editor") = 2 /\ Implicit("viewer") = 1
    /\ Implicit("none") = 0
  BY Zenon DEF Level, Implicit

\* A tenant manager manages every node.
LEMMA ManagersManage ==
    ASSUME NEW r \in Requests, Begin(r), NEW n \in Nodes
    PROVE  req[r].pc = "open" /\ authorizeNodeQuery(req[r].who, n, Level.manage_acl)
  <1>1. /\ req[r].pc = "open" /\ req[r].declared \in {"owner", "admin"}
        /\ member[req[r].who] = [role |-> req[r].declared, status |-> "active"]
    BY Zenon DEF Begin, Manager
  <1>2. member[req[r].who].role \in {"owner", "admin"} /\ member[req[r].who].status = "active"
    BY <1>1
  <1> QED BY <1>1, <1>2, Levels DEF authorizeNodeQuery

LEMMA EndsIdle ==
    ASSUME IInv, NEW r \in Requests, End(r)
    PROVE  req'[r].pc = "idle"
  BY RowTypes, Zenon DEF IInv, TalksOK, End

\* Rights without a change of the tables they are read from.
LEMMA SameRights ==
    ASSUME NEW p \in Principals, NEW n \in Nodes, NEW level \in 1..3,
           member'[p] = member[p], UNCHANGED <<groupMember, acl>>
    PROVE  authorizeNodeQuery(p, n, level)' <=> authorizeNodeQuery(p, n, level)
  BY Zenon DEF authorizeNodeQuery, Speaks

\* A grant set on a node reaches a node below only from one who manages that
\* node too, because the grants above a node count for it.
LEMMA GrantsReachDown ==
    ASSUME IInv, NEW r \in Requests, NEW m \in Nodes, NEW s \in Subjects, NEW new \in 0..3,
           Manages(r, m), End(r), acl' = [acl EXCEPT ![m][s] = new], UNCHANGED <<member, groupMember>>,
           NEW p \in Principals, NEW n \in Nodes, NEW level \in 1..3,
           ~authorizeNodeQuery(p, n, level), authorizeNodeQuery(p, n, level)'
    PROVE  ByManager(n)
  <1>0. acl \in [Nodes -> [Subjects -> 0..3]] /\ groupMember \subseteq Groups \X Principals
    BY Zenon DEF IInv, TablesOK
  <1>1. PICK a \in Ancestors(n), t \in Speaks(p) : acl'[a][t] >= level /\ ~(acl[a][t] >= level)
    BY Zenon DEF authorizeNodeQuery, Speaks
  <1>2. a \in Nodes /\ t \in Subjects
    BY AncestorsReach, Zenon DEF Speaks, Subjects
  <1>3. a = m
    BY <1>0, <1>1, <1>2, Zenon
  <1>4. authorizeNodeQuery(req[r].who, n, Level.manage_acl)
    BY <1>3, AncestorsReach, Zenon DEF Manages, authorizeNodeQuery
  <1> QED BY <1>4, EndsIdle, Zenon DEF ByManager, Manages

\* Rights grow only by the hand of one who manages the node.
THEOREM RightsComeFromManagers == Spec => RightsFromManagers
  <1> DEFINE A == \A p \in Principals, n \in Nodes, level \in 1..3 :
                    /\ IsMember(p)
                    /\ ~authorizeNodeQuery(p, n, level)
                    /\ authorizeNodeQuery(p, n, level)'
                    => ByManager(n)
  <1>1. ASSUME IInv, Next, NEW p \in Principals, NEW n \in Nodes, NEW level \in 1..3, IsMember(p),
               ~authorizeNodeQuery(p, n, level), authorizeNodeQuery(p, n, level)'
        PROVE  ByManager(n)
    <2>1. ASSUME NEW r \in Requests, Begin(r), End(r) PROVE ByManager(n)
      BY <1>1, <2>1, ManagersManage, EndsIdle, Zenon DEF ByManager
    <2>2. ASSUME NEW r \in Requests, Accept(r), ~IsMember(req[r].who), UNCHANGED accessVars PROVE FALSE
      <3>1. member'[p] = member[p]
        BY <1>1, <2>2, Admitted, Zenon
      <3> QED BY <1>1, <2>2, <3>1, SameRights, Zenon DEF accessVars
    <2>3. ASSUME NEW q \in Seeds, EnsureOIDCMember(q), ~IsMember(q), UNCHANGED accessVars PROVE FALSE
      <3>1. member' = [member EXCEPT ![q] = [role |-> SeedRole[q], status |-> "active"]]
        BY <2>3, Zenon DEF EnsureOIDCMember
      <3>2. member'[p] = member[p]
        BY <1>1, <2>3, <3>1, SeedAssumption, OnlyRow, Zenon
      <3> QED BY <1>1, <2>3, <3>2, SameRights, Zenon DEF accessVars
    <2>4. ASSUME NEW r \in Requests, createGroup(r) \/ updateGroup(r) \/ deleteGroup(r)
                                     \/ addGroupMember(r) \/ removeGroupMember(r)
          PROVE  Begin(r) /\ End(r)
      BY <2>4, Zenon DEF createGroup, ServiceCreateGroup, CreateGroup, updateGroup, ServiceUpdateGroup, UpdateGroup,
                  deleteGroup, ServiceDeleteGroup, DeleteGroup, addGroupMember, removeGroupMember,
                  ServiceChangeGroupMember, changeGroupMember
    <2>5. ASSUME NEW r \in Requests, setNodeACL(r) PROVE ByManager(n)
      <3> PICK m \in Nodes, s \in Grantees, new \in Grants : SetNodeACL(r, m, s, new)
        BY <2>5, Zenon DEF setNodeACL, ServiceSetNodeACL
      <3>1. s \in Subjects /\ new \in 0..3
        BY SubjectAssumption, GrantAssumption DEF Subjects
      <3> QED BY <1>1, <3>1, GrantsReachDown, Zenon DEF SetNodeACL
    <2>6. ASSUME NEW r \in Requests, deleteNodeACL(r) PROVE ByManager(n)
      <3> PICK m \in Nodes, s \in Grantees : DeleteNodeACL(r, m, s)
        BY <2>6, Zenon DEF deleteNodeACL, ServiceDeleteNodeACL
      <3>1. s \in Subjects /\ 0 \in 0..3
        BY SubjectAssumption DEF Subjects
      <3> QED BY <1>1, <3>1, GrantsReachDown, Zenon DEF DeleteNodeACL
    <2>7. CASE UNCHANGED <<member, groupMember, acl>>
      BY <1>1, <2>7, SameRights, Zenon
    <2>8. ASSUME NEW r \in Requests, MembershipStep(r)
          PROVE  UNCHANGED <<member, groupMember, acl>> \/ (Accept(r) /\ ~IsMember(req[r].who) /\ UNCHANGED accessVars)
      BY <2>8, Zenon DEF MembershipStep, Authenticate, Leave, Revoke, Accept, accessVars
    <2>9. ASSUME NEW r \in Requests, updateMember(r) \/ deleteMember(r) PROVE Begin(r) /\ End(r)
      BY <2>9, Zenon DEF updateMember, ServiceUpdateMember, UpdateMember, deleteMember, ServiceDeleteMember,
                  RemoveMember, DeleteMember
    <2>10. ASSUME NEW r \in Requests, createInvitation(r) \/ revokeInvitation(r) \/ acceptInvitation(r)
           PROVE  UNCHANGED <<member, groupMember, acl>>
      BY <2>10, Zenon DEF createInvitation, ServiceCreateInvitation, CreateInvitation, revokeInvitation,
                   ServiceRevokeInvitation, BeginRevoke, acceptInvitation, BeginAccept, accessVars
    <2>11. ASSUME NEW q \in Seeds, EnsureOIDCMember(q), UNCHANGED accessVars
           PROVE  UNCHANGED <<member, groupMember, acl>> \/ ~IsMember(q)
      BY <2>11, Zenon DEF EnsureOIDCMember, accessVars
    <2>12. ASSUME NEW i \in Invitations, Expire(i), UNCHANGED accessVars
           PROVE  UNCHANGED <<member, groupMember, acl>>
      BY <2>12, Zenon DEF Expire, accessVars
    <2> QED BY <1>1, <2>1, <2>2, <2>3, <2>4, <2>5, <2>6, <2>7, <2>8, <2>9, <2>10, <2>11, <2>12, Zenon DEF Next
  <1>2. ASSUME IInv, Next PROVE A
    BY <1>1, <1>2, Zenon
  <1>3. IInv /\ [Next]_allVars => [A]_allVars
    BY <1>2, Zenon
  <1>4. Spec => [][A]_allVars
    BY <1>3, Invariance, PTL DEF Spec
  <1> QED BY <1>4, Zenon DEF RightsFromManagers

-----------------------------------------------------------------------------
\* The two authorizers.

\* A grant for p on node m.
Here(p, m, required) ==
    \E s \in Subjects :
       /\ s = p \/ (s \in Groups /\ <<s, p>> \in groupMember)
       /\ acl[m][s] >= required

WalkBody(f, p, required) ==
    [m \in Nodes |-> Here(p, m, required) \/ (Parent[m] # None /\ f[Parent[m]])]

\* The walk towards the root is well defined.
LEMMA WalkExists ==
    ASSUME NEW p, NEW required
    PROVE  \E f : f = WalkBody(f, p, required)
  <1> DEFINE f == [m \in Nodes |-> \E a \in Ancestors(m) : Here(p, a, required)]
  <1>1. ASSUME NEW m \in Nodes
        PROVE  f[m] <=> Here(p, m, required) \/ (Parent[m] # None /\ f[Parent[m]])
    <2>1. ASSUME NEW a \in Ancestors(m), Here(p, a, required), a # m
          PROVE  Parent[m] # None /\ f[Parent[m]]
      BY <2>1, AncestorsUp, TreeAssumption, Zenon
    <2>2. ASSUME Parent[m] # None, f[Parent[m]] PROVE f[m]
      <3>1. Parent[m] \in Nodes /\ Ancestors(Parent[m]) \subseteq Ancestors(m)
        BY <2>2, AncestorsReach, TreeAssumption, Zenon
      <3> QED BY <2>2, <3>1, Zenon
    <2> QED BY <2>1, <2>2, AncestorsReach, Zenon
  <1>2. f = WalkBody(f, p, required)
    BY <1>1, Zenon DEF WalkBody
  <1> QED BY <1>2, Zenon

\* It finds a grant exactly when a node above has one: what it misses is closed
\* under parents, and what it finds for no reason would never end.
LEMMA WalkFinds ==
    ASSUME NEW p, NEW required, NEW f, f = WalkBody(f, p, required), NEW n \in Nodes
    PROVE  f[n] <=> \E a \in Ancestors(n) : Here(p, a, required)
  <1>0. \A m \in Nodes : f[m] = (Here(p, m, required) \/ (Parent[m] # None /\ f[Parent[m]]))
    BY Zenon DEF WalkBody
  <1>1. ASSUME NEW a \in Ancestors(n), Here(p, a, required), ~f[n] PROVE FALSE
    <2> DEFINE S == {m \in Nodes : ~f[m]}
    <2>1. S \in SUBSET Nodes /\ n \in S /\ \A m \in S : Parent[m] \in S \cup {None}
      BY <1>0, <1>1, TreeAssumption, Zenon
    <2>2. a \in S
      BY <2>1, Zenon DEF Ancestors
    <2> QED BY <1>0, <1>1, <2>2, Zenon
  <1>2. ASSUME f[n], \A a \in Ancestors(n) : ~Here(p, a, required) PROVE FALSE
    <2> DEFINE S == {m \in Ancestors(n) : f[m]}
    <2>1. S \in (SUBSET Nodes) \ {{}}
      BY <1>2, AncestorsReach, Zenon
    <2>2. PICK m \in S : Parent[m] \notin S
      BY <2>1, TreeAssumption, Zenon
    <2>3. m \in Nodes /\ Parent[m] # None /\ f[Parent[m]]
      BY <1>0, <1>2, <2>2, AncestorsReach, Zenon
    <2> QED BY <2>2, <2>3, AncestorsReach, Zenon
  <1> QED BY <1>1, <1>2, Zenon

\* The in-memory authorizer, with its walk replaced by what it finds.
LEMMA LockedFinds ==
    ASSUME NEW p, NEW n \in Nodes, NEW required
    PROVE  authorizeNodeLocked(p, n, required) <=>
             /\ member[p].status = "active"
             /\ \/ member[p].role \in {"owner", "admin"}
                \/ member[p].role = "editor" /\ required <= 2
                \/ member[p].role = "viewer" /\ required <= 1
                \/ \E a \in Ancestors(n) : Here(p, a, required)
  <1> DEFINE walk[m \in Nodes] == Here(p, m, required) \/ (Parent[m] # None /\ walk[Parent[m]])
  <1>1. walk = WalkBody(walk, p, required)
    BY WalkExists DEF WalkBody
  <1>2. authorizeNodeLocked(p, n, required) <=>
             /\ member[p].status = "active"
             /\ \/ member[p].role \in {"owner", "admin"}
                \/ member[p].role = "editor" /\ required <= 2
                \/ member[p].role = "viewer" /\ required <= 1
                \/ walk[n]
    BY Zenon DEF authorizeNodeLocked, Here
  <1> HIDE DEF walk
  <1> QED BY <1>1, <1>2, WalkFinds, Zenon

\* An active member's role is one of the four.
LEMMA ActiveRole ==
    ASSUME TablesOK, NEW p \in Principals, member[p].status = "active"
    PROVE  member[p].role \in AccessRole
  BY RowTypes, Zenon DEF TablesOK

\* PermissionsForRole gives what the levels give.
LEMMA RolePermissions ==
    ASSUME NEW role \in AccessRole
    PROVE  /\ "files:write" \in PermissionsForRole(role) <=> Implicit(role) >= 2
           /\ "files:delete" \in PermissionsForRole(role) <=> Implicit(role) >= 3
           /\ \A required \in 1..3 :
                Implicit(role) >= required <=> \/ role \in {"owner", "admin"}
                                               \/ role = "editor" /\ required <= 2
                                               \/ role = "viewer" /\ required <= 1
  BY Levels DEF AccessRole, PermissionsForRole

LEMMA SameAnswer ==
    ASSUME TablesOK, NEW p \in Principals, NEW n \in Nodes, NEW required \in 1..3
    PROVE  authorizeNodeQuery(p, n, required) <=> authorizeNodeLocked(p, n, required)
  <1>1. ASSUME NEW a \in Nodes PROVE Here(p, a, required) <=> \E s \in Speaks(p) : acl[a][s] >= required
    BY Zenon DEF Here, Speaks, Subjects
  <1>2. CASE member[p].status = "active"
    <2>1. \A a \in Ancestors(n) : a \in Nodes
      BY Zenon DEF Ancestors
    <2>2. (\E a \in Ancestors(n) : Here(p, a, required))
            <=> \E a \in Ancestors(n), s \in Speaks(p) : acl[a][s] >= required
      BY <1>1, <2>1, Zenon
    <2> QED BY <1>2, <2>2, ActiveRole, RolePermissions, LockedFinds, Zenon DEF authorizeNodeQuery
  <1>3. CASE member[p].status # "active"
    BY <1>3, LockedFinds, Zenon DEF authorizeNodeQuery
  <1> QED BY <1>2, <1>3, Zenon

\* The in-memory repository, the production query and the permission sets decide
\* alike, over every forest of nodes and whatever the groups and grants.
THEOREM AuthorizersDecideAlike == Spec => []AuthorizersAgree
  <1>1. ASSUME TablesOK, NEW p \in Principals, NEW n \in Nodes, NEW c \in DOMAIN Level
        PROVE  authorizeNodeQuery(p, n, Level[c]) = authorizeNodeLocked(p, n, Level[c])
    <2>1. Level[c] \in 1..3
      BY <1>1 DEF Level
    <2>2. authorizeNodeQuery(p, n, Level[c]) <=> authorizeNodeLocked(p, n, Level[c])
      BY <1>1, <2>1, SameAnswer, Zenon
    <2>3. authorizeNodeQuery(p, n, Level[c]) \in BOOLEAN
      BY Zenon DEF authorizeNodeQuery
    <2>4. authorizeNodeLocked(p, n, Level[c]) \in BOOLEAN
      BY Zenon DEF authorizeNodeLocked
    <2> QED BY <2>2, <2>3, <2>4
  <1>2. ASSUME TablesOK, NEW p \in Principals, NEW n \in Nodes, member[p].status = "active"
        PROVE  /\ authorizeACLElevation(p, n, "files:write", "write") = authorizeNodeQuery(p, n, Level.write)
               /\ authorizeACLElevation(p, n, "files:delete", "delete") = authorizeNodeQuery(p, n, Level.delete)
    <2>1. member[p].role \in AccessRole
      BY <1>2, ActiveRole, Zenon
    <2>2. /\ "files:write" \in PermissionsForRole(member[p].role) => authorizeNodeQuery(p, n, Level.write)
          /\ "files:delete" \in PermissionsForRole(member[p].role) => authorizeNodeQuery(p, n, Level.delete)
      BY <1>2, <2>1, RolePermissions, Levels, Zenon DEF authorizeNodeQuery
    <2>3. authorizeNodeQuery(p, n, Level.write) \in BOOLEAN /\ authorizeNodeQuery(p, n, Level.delete) \in BOOLEAN
      BY Zenon DEF authorizeNodeQuery
    <2> QED BY <2>2, <2>3, Zenon DEF authorizeACLElevation
  <1>3. IInv => AuthorizersAgree
    BY <1>1, <1>2, Zenon DEF IInv, AuthorizersAgree
  <1> QED BY <1>3, Invariance, PTL
=============================================================================
