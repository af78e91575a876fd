----------------------------- MODULE Membership -----------------------------
(***************************************************************************)
(* Members and invitations of one tenant: internal/postgres/governance.go  *)
(* and identity.go.  A principal is its OIDC identity.                     *)
(*                                                                         *)
(* A request carries the role its authentication found (declared); its     *)
(* transaction locks the tenant row and reads the member again.  A         *)
(* transaction that takes one lock is one step.  AcceptInvitation locks    *)
(* the invitation and then the tenant, RevokeInvitation the tenant and     *)
(* then the invitation: each has a step in between.                        *)
(***************************************************************************)

CONSTANTS
    Principals,
    Seeds,        \* principals of ASTERIA_OIDC_BOOTSTRAP_JSON
    SeedRole,     \* their configured roles
    Invitations,  \* ids of the invitations ever created
    Offered,      \* roles that requests ask for
    Requests,
    None

AccessRole == {"owner", "admin", "editor", "viewer"}

ASSUME SeedAssumption == Seeds \subseteq Principals /\ SeedRole \in [Seeds -> AccessRole]
ASSUME OfferAssumption == Offered \subseteq AccessRole
ASSUME NoneAssumption == None \notin Principals /\ None \notin Invitations

VARIABLES
    member,      \* rows of tenant_member
    invitation,  \* rows of tenant_invitation
    late,        \* invitations whose expires_at has passed
    req          \* requests

vars == <<member, invitation, late, req>>

MemberStatus == {"active", "suspended"}
NoMember == [role |-> "none", status |-> "none"]
Member == [role: AccessRole, status: MemberStatus]

NoInvitation == [status |-> "none", identity |-> None, role |-> "none"]
Invitation == [status: {"pending", "accepted", "revoked", "expired"},
               identity: Principals, role: AccessRole]

Idle == [pc |-> "idle", who |-> None, declared |-> "none", invitation |-> None]
Request == [pc: {"idle", "open", "accepting", "revoking"},
            who: Principals \cup {None},
            declared: AccessRole \cup {"none"},
            invitation: Invitations \cup {None}]

\* The rows have the shapes the tables' constraints allow.
TypeOK ==
    /\ member \in [Principals -> Member \cup {NoMember}]
    /\ invitation \in [Invitations -> Invitation \cup {NoInvitation}]
    /\ late \in SUBSET Invitations
    /\ req \in [Requests -> Request]

IsMember(p) == member[p] # NoMember
ActiveOwner(p) == member[p] = [role |-> "owner", status |-> "active"]
HasOwner == \E p \in Principals : ActiveOwner(p)

\* The tenant has been bootstrapped by the first start of the service.
Init ==
    /\ member = [p \in Principals |->
                   IF p \in Seeds THEN [role |-> SeedRole[p], status |-> "active"]
                   ELSE NoMember]
    /\ invitation = [i \in Invitations |-> NoInvitation]
    /\ late = {}
    /\ req = [r \in Requests |-> Idle]

-----------------------------------------------------------------------------
\* Locks and authorisation

TenantFree == \A r \in Requests : req[r].pc # "revoking"
InvitationFree(i) == \A r \in Requests : req[r].pc = "accepting" => req[r].invitation # i

\* authorizeTenantManager
Manager(r) ==
    /\ req[r].declared \in {"owner", "admin"}
    /\ member[req[r].who] = [role |-> req[r].declared, status |-> "active"]

\* The transaction of r begins under the tenant lock and r is authorised.
Begin(r) == req[r].pc = "open" /\ TenantFree /\ Manager(r)

End(r) == req' = [req EXCEPT ![r] = Idle]

OtherOwner(p) == \E q \in Principals \ {p} : ActiveOwner(q)

\* Authentication: ResolveOIDCPrincipal finds active members only.
Authenticate(r, p) ==
    /\ req[r].pc = "idle"
    /\ member[p].status = "active"
    /\ req' = [req EXCEPT ![r] = [Idle EXCEPT !.pc = "open", !.who = p,
                                              !.declared = member[p].role]]
    /\ UNCHANGED <<member, invitation, late>>

\* A request is refused, fails or is cut short: its transaction is undone.
Leave(r) ==
    /\ req[r].pc # "idle"
    /\ End(r)
    /\ UNCHANGED <<member, invitation, late>>

-----------------------------------------------------------------------------
\* Members

\* A mutant: the target itself is counted.
MayChangeCountsAll(r, p, new) ==
    /\ req[r].declared = "admin" => member[p].role # "owner" /\ new.role # "owner"
    /\ ActiveOwner(p) /\ new # member[p] => HasOwner

\* Admins leave owners alone, and the last active owner stays one.
MayChange(r, p, new) ==
    /\ req[r].declared = "admin" => member[p].role # "owner" /\ new.role # "owner"
    /\ ActiveOwner(p) /\ new # member[p] => OtherOwner(p)

\* A mutant: a request for a status alone clears the role.
UpdateMemberForgets(r, p, role, status) ==
    LET new == [role |-> role, status |-> IF status = None THEN member[p].status ELSE status] IN
    /\ Begin(r)
    /\ IsMember(p)
    /\ MayChange(r, p, new)
    /\ member' = [member EXCEPT ![p] = new]
    /\ End(r)
    /\ UNCHANGED <<invitation, late>>

\* A request names a role, a status or both.
UpdateMember(r, p, role, status) ==
    LET new == [role |-> IF role = None THEN member[p].role ELSE role,
                status |-> IF status = None THEN member[p].status ELSE status]
    IN
    /\ Begin(r)
    /\ IsMember(p)
    /\ MayChange(r, p, new)
    /\ member' = [member EXCEPT ![p] = new]
    /\ End(r)
    /\ UNCHANGED <<invitation, late>>

DeleteMember(r, p) ==
    /\ Begin(r)
    /\ IsMember(p)
    /\ MayChange(r, p, NoMember)
    /\ member' = [member EXCEPT ![p] = NoMember]
    /\ End(r)
    /\ UNCHANGED <<invitation, late>>

\* EnsureOIDCMember, for each seed whenever an instance of the service starts.
EnsureOIDCMember(p) ==
    /\ TenantFree
    /\ member' = IF IsMember(p) THEN member
                 ELSE [member EXCEPT ![p] = [role |-> SeedRole[p], status |-> "active"]]
    /\ UNCHANGED <<invitation, late, req>>

-----------------------------------------------------------------------------
\* Invitations

\* tenant_invitation_pending_identity: one pending row per identity.
CreateInvitation(r, i, p, role) ==
    /\ Begin(r)
    /\ invitation[i] = NoInvitation
    /\ \A j \in Invitations : invitation[j].identity = p => invitation[j].status # "pending"
    /\ req[r].declared = "admin" => role # "owner"
    /\ invitation' = [invitation EXCEPT ![i] = [status |-> "pending", identity |-> p, role |-> role]]
    /\ End(r)
    /\ UNCHANGED <<member, late>>

Expire(i) ==
    /\ invitation[i] # NoInvitation
    /\ i \notin late
    /\ late' = late \cup {i}
    /\ UNCHANGED <<member, invitation, req>>

\* A request reads the clock before it waits for a lock.
SeenLate(i) == IF i \in late THEN {TRUE, FALSE} ELSE {FALSE}

\* AcceptInvitation of p up to lockTenant, the invitation row being locked.
BeginAccept(r, i, p) ==
    /\ req[r].pc = "idle"
    /\ InvitationFree(i)
    /\ invitation[i].identity = p
    /\ invitation[i].status = "pending"
    /\ \E passed \in SeenLate(i) :
         IF passed
         THEN /\ invitation' = [invitation EXCEPT ![i].status = "expired"]
              /\ UNCHANGED req
         ELSE /\ req' = [req EXCEPT ![r] = [Idle EXCEPT !.pc = "accepting", !.who = p,
                                                        !.invitation = i]]
              /\ UNCHANGED invitation
    /\ UNCHANGED <<member, late>>

\* Mutants: acceptance waits while the identity is a member; the invitation
\* stays pending.
AcceptNewcomer(r) ==
    LET i == req[r].invitation p == req[r].who IN
    /\ req[r].pc = "accepting"
    /\ TenantFree
    /\ ~IsMember(p)
    /\ member' = [member EXCEPT ![p] = [role |-> invitation[i].role, status |-> "active"]]
    /\ invitation' = [invitation EXCEPT ![i].status = "accepted"]
    /\ End(r)
    /\ UNCHANGED late
AcceptKeepsPending(r) ==
    LET i == req[r].invitation p == req[r].who IN
    /\ req[r].pc = "accepting"
    /\ TenantFree
    /\ IF IsMember(p) THEN UNCHANGED member
       ELSE member' = [member EXCEPT ![p] = [role |-> invitation[i].role, status |-> "active"]]
    /\ End(r)
    /\ UNCHANGED <<invitation, late>>

\* AcceptInvitation from lockTenant on.
Accept(r) ==
    LET i == req[r].invitation p == req[r].who IN
    /\ req[r].pc = "accepting"
    /\ TenantFree
    /\ IF IsMember(p)
       THEN UNCHANGED <<member, invitation>>
       ELSE /\ member' = [member EXCEPT ![p] = [role |-> invitation[i].role,
                                                status |-> "active"]]
            /\ invitation' = [invitation EXCEPT ![i].status = "accepted"]
    /\ End(r)
    /\ UNCHANGED late

\* RevokeInvitation holds the tenant lock while it waits for the row.
BeginRevoke(r, i) ==
    /\ Begin(r)
    /\ invitation[i] # NoInvitation
    /\ req' = [req EXCEPT ![r].pc = "revoking", ![r].invitation = i]
    /\ UNCHANGED <<member, invitation, late>>

Revoke(r) ==
    LET i == req[r].invitation IN
    /\ req[r].pc = "revoking"
    /\ InvitationFree(i)
    /\ \E passed \in SeenLate(i) :
         invitation' = IF invitation[i].status = "pending" /\ ~passed
                       THEN [invitation EXCEPT ![i].status = "revoked"]
                       ELSE invitation
    /\ End(r)
    /\ UNCHANGED <<member, late>>

\* PostgreSQL ends one of two transactions that wait for each other.
Deadlocked(r) ==
    \E s \in Requests : /\ {req[r].pc, req[s].pc} = {"accepting", "revoking"}
                        /\ req[r].invitation = req[s].invitation

Victim(r) == Deadlocked(r) /\ Leave(r)

-----------------------------------------------------------------------------
\* Properties

\* No sequence of updates, deletions, acceptances and starts, and no race of
\* two of them, takes the last active owner from a tenant.
OwnerStays == [][HasOwner => HasOwner']_vars

\* A membership is created only by the bootstrap of a seed, or together with
\* the acceptance of a pending invitation of that identity, with its role: an
\* invitation admits once, and its replay never brings a deleted member back.
AdmittedOnce ==
    [][\A p \in Principals :
         ~IsMember(p) /\ IsMember(p)' =>
            \/ p \in Seeds /\ member'[p] = [role |-> SeedRole[p], status |-> "active"]
            \/ \E i \in Invitations :
                 /\ invitation[i] = [status |-> "pending", identity |-> p,
                                     role |-> member'[p].role]
                 /\ invitation'[i].status = "accepted"]_vars

\* Every transaction that holds a lock ends, the deadlock of an acceptance
\* and a revocation of one invitation included.
LocksReleased ==
    \A r \in Requests : req[r].pc \in {"accepting", "revoking"} ~> req[r].pc = "idle"

=============================================================================
