------------------------- MODULE RecycleMaintenance -------------------------
(***************************************************************************)
(* Recycle retention: the loop of internal/maintenance/loop.go that purges *)
(* the recycle-bin entries whose retention has ended, next to the requests *)
(* of Namespace.  A worker purges with the same repository methods as a    *)
(* client; it takes entries by claims with an owner and a lease            *)
(* (internal/postgres/maintenance.go).  A worker handles the entries of a  *)
(* batch one after the other; an entry that waits its turn is a slow one.  *)
(***************************************************************************)
EXTENDS Namespace

CONSTANTS
    Workers,    \* maintenance loops, one per API instance
    MaxFaults   \* bound of failing calls and crashes of workers

ASSUME WorkersAssumption == Workers \subseteq Actors /\ MaxFaults \in Nat

VARIABLES
    maint,   \* the maintenance columns of each node
    aged,    \* entries with deleted_at before the retention cutoff
    faults   \* failing calls and crashes so far

allVars == <<vars, maint, aged, faults>>

NoMaint == [owner |-> None, leased |-> FALSE, due |-> TRUE]

MaintenanceInit ==
    /\ Init
    /\ maint = [n \in Nodes |-> NoMaint]
    /\ aged = {}
    /\ faults = 0

-----------------------------------------------------------------------------
\* Requests: Restore clears deleted_at, FinishPurge the maintenance columns.

RestoreEntry(a) ==
    /\ Restore(a)
    /\ aged' = aged \ {req[a].node}
    /\ UNCHANGED <<maint, faults>>

Finish(a) ==
    /\ FinishPurge(a)
    /\ maint' = [maint EXCEPT ![req[a].node] = NoMaint]
    /\ UNCHANGED <<aged, faults>>

ClientStep(a) ==
    \/ RestoreEntry(a)
    \/ Finish(a)
    \/ /\ \/ \E op \in Ops, n \in Nodes, p \in Nodes \cup {None}, q \in Names \cup {None} :
               Send(a, op, n, p, q)
          \/ Lock(a)
          \/ CreateDirectory(a)
          \/ CommitUpload(a)
          \/ UpdateNode(a)
          \/ Recycle(a)
          \/ PreparePurge(a)
          \/ \E x \in Nodes : DeleteObject(a, x)
          \/ RetryPurge(a)
          \/ Leave(a)
       /\ UNCHANGED <<maint, aged, faults>>

-----------------------------------------------------------------------------
\* Workers

\* FOR UPDATE SKIP LOCKED: rows a transaction works on are passed over.
RowLocked(n) == \E a \in Actors : req[a].pc = "locked" /\ req[a].node = n

Claimable(n) ==
    /\ n \in aged
    /\ ~maint[n].leased
    /\ maint[n].due
    /\ n \notin finished
    /\ ~RowLocked(n)

Take(w, n) ==
    /\ req[w].pc = "idle"
    /\ node' = [node EXCEPT ![n].status = "purging"]
    /\ maint' = [maint EXCEPT ![n].owner = w, ![n].leased = TRUE]
    /\ SetReq(w, [pc |-> "sent", op |-> "purge", node |-> n, seen |-> node[n],
                  parent |-> None, name |-> None, plan |-> {}, left |-> {}])
    /\ UNCHANGED <<blob, object, finished, lock, aged, faults>>

\* A mutant: an entry a crashed worker left as purging is not claimed again.
ClaimTrashed(w, n) ==
    /\ node[n].status = "trashed"
    /\ RecycleRoot(n)
    /\ Claimable(n)
    /\ Take(w, n)

ClaimRecycle(w, n) == RecycleRoot(n) /\ Claimable(n) /\ Take(w, n)

\* processRecycle: PreparePurge, DeleteObject and FinishPurge of the claim.
Work(w) ==
    \/ Finish(w)
    \/ /\ \/ Lock(w)
          \/ PreparePurge(w)
          \/ \E x \in Nodes : DeleteObject(w, x)
       /\ UNCHANGED <<maint, aged, faults>>

\* A call fails and the worker gives its claim back, if it still owns it, to
\* be tried again later.
ReleaseRecycle(w) ==
    LET n == req[w].node IN
    /\ faults < MaxFaults
    /\ faults' = faults + 1
    /\ Leave(w)
    /\ maint' = IF maint[n].owner = w
                THEN [maint EXCEPT ![n] = [owner |-> None, leased |-> FALSE, due |-> FALSE]]
                ELSE maint
    /\ UNCHANGED aged

\* A worker that crashed keeps its claims until their lease ends.
Crash(w) ==
    /\ faults < MaxFaults
    /\ faults' = faults + 1
    /\ Leave(w)
    /\ UNCHANGED <<maint, aged>>

\* Time passes: retention, leases and retry delays end.
Age(n) ==
    /\ RecycleRoot(n)
    /\ n \notin aged
    /\ aged' = aged \cup {n}
    /\ UNCHANGED <<vars, maint, faults>>

LeaseEnds(n) ==
    /\ maint[n].leased
    /\ maint' = [maint EXCEPT ![n].leased = FALSE]
    /\ UNCHANGED <<vars, aged, faults>>

BackoffEnds(n) ==
    /\ ~maint[n].due
    /\ maint' = [maint EXCEPT ![n].due = TRUE]
    /\ UNCHANGED <<vars, aged, faults>>

-----------------------------------------------------------------------------
MaintenanceNext ==
    \/ \E a \in Actors \ Workers : ClientStep(a)
    \/ \E w \in Workers, n \in Nodes : ClaimRecycle(w, n)
    \/ \E w \in Workers : Work(w) \/ ReleaseRecycle(w) \/ Crash(w)
    \/ \E n \in Nodes : Age(n) \/ LeaseEnds(n) \/ BackoffEnds(n)

MaintenanceSpec == MaintenanceInit /\ [][MaintenanceNext]_allVars

\* A transaction ends; PostgreSQL queues those who wait for the tenant row, so
\* a worker gets it; each pass of a loop that is not busy tries what is due;
\* time passes.  Nothing is assumed of clients outside a transaction.
FairMaintenance ==
    /\ MaintenanceSpec
    /\ \A a \in Actors \ Workers :
         WF_allVars(req[a].pc = "locked" /\ Leave(a) /\ UNCHANGED <<maint, aged, faults>>)
    /\ \A w \in Workers : SF_allVars(Lock(w) /\ UNCHANGED <<maint, aged, faults>>)
    /\ \A w \in Workers : WF_allVars(Work(w) /\ req[w].pc # "sent")
    /\ \A n \in Nodes :
         /\ SF_allVars(\E w \in Workers : ClaimRecycle(w, n))
         /\ WF_allVars(Age(n))
         /\ WF_allVars(LeaseEnds(n))
         /\ WF_allVars(BackoffEnds(n))

-----------------------------------------------------------------------------
\* Properties

\* A claim cannot be undone: from the claim on, the entry passes the checks of
\* PreparePurge, whatever restores, purges and claims run beside it.
ClaimHolds ==
    \A w \in Workers :
        req[w].pc \in {"sent", "locked"} => Admitted(req[w])

\* Every entry of the recycle bin ends up purged or restored, also when a
\* worker or a client fails in the middle of its purge (processRecycle).
EntriesEnd ==
    \A n \in Nodes : RecycleRoot(n) ~> (n \in finished \/ ~RecycleRoot(n))
=============================================================================
