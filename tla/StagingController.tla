------------------------- MODULE StagingController -------------------------
\* The staging release controller (internal/staging): a state machine persisted
\* in a file beside the deployment, driven by workflow runs that take a lock and
\* give up when it is held. A run deploys or rolls back to one of the approved
\* versions, and a resume settles what an interrupted run left behind. Every
\* save can fail, before or after the new file is in place, every host command
\* can fail with or without effect, a run can die between any two steps, and
\* somebody else may change the host.
EXTENDS Integers

CONSTANTS
    Versions,   \* the approved bundles: LoadBundles' allowlist
    Unapproved, \* a version outside the allowlist
    Calls,      \* controller calls under way at one time
    Runs,       \* run identities (run id and attempt)
    None

ASSUME NoneAssumption == None \notin Calls

VARIABLES
    record,  \* the persisted Record
    host,    \* what ReadActive would report: a version, and whether it is healthy and its identity is the bundle's
    drifted, \* somebody else changed the host since a call last read it into the record
    lock,    \* the call that holds the lock "asteria-drive-staging"
    call     \* the calls under way

vars == <<record, host, drifted, lock, call>>

Snapshots == [version : Versions \cup {Unapproved}, good : BOOLEAN]

InProgressStates == {"PREPARED", "ACTIVATING", "VERIFYING", "ROLLING_BACK", "ROLLBACK_VERIFYING"}
States == InProgressStates \cup {"IDLE", "ACTIVE", "RECOVERY_REQUIRED"}

Records ==
    [state : States, op : {"deploy", "rollback", None}, run : Runs \cup {None},
     target : Versions \cup {None}, previous : Versions \cup {None}, active : Versions \cup {None}]

\* load's record when there is no file yet.
NoRecord ==
    [state |-> "IDLE", op |-> None, run |-> None, target |-> None, previous |-> None, active |-> None]

Idle ==
    [pc |-> "idle", op |-> None, run |-> None, target |-> None, expected |-> None,
     rec |-> NoRecord, answer |-> None]

CallTypes ==
    [pc : {"idle", "revalidate", "check", "prepared", "activate", "activated", "verify",
           "compensate", "rollback", "rolledback", "verifyrollback", "recovery", "resume"},
     op : {"deploy", "rollback", "resume", None}, run : Runs \cup {None},
     target : Versions \cup {None}, expected : Versions \cup {None},
     rec : Records, answer : {None, "ok", "error"}]

Init ==
    /\ record = NoRecord
    /\ host \in Snapshots
    /\ drifted = FALSE
    /\ lock = None
    /\ call = [c \in Calls |-> Idle]

-----------------------------------------------------------------------------
\* The transition table, and what a call sees of the host.

\* States a save may move to (FAILED is in the code's table, but nothing calls
\* markFailed).
TransitionTable ==
    [IDLE               |-> {"PREPARED", "ROLLING_BACK", "RECOVERY_REQUIRED"},
     PREPARED           |-> {"ACTIVATING", "RECOVERY_REQUIRED"},
     ACTIVATING         |-> {"VERIFYING", "ROLLING_BACK", "RECOVERY_REQUIRED"},
     VERIFYING          |-> {"ACTIVE", "ROLLING_BACK", "RECOVERY_REQUIRED"},
     ACTIVE             |-> {"PREPARED", "ROLLING_BACK", "RECOVERY_REQUIRED"},
     ROLLING_BACK       |-> {"ROLLBACK_VERIFYING", "RECOVERY_REQUIRED"},
     ROLLBACK_VERIFYING |-> {"ACTIVE", "RECOVERY_REQUIRED"},
     RECOVERY_REQUIRED  |-> {}]

TransitionAllowed(from, to) == to \in TransitionTable[from]

\* The snapshot is the bundle of version v, healthy.
validateActiveBundle(v, snapshot) == snapshot.version = v /\ snapshot.good

\* The snapshot is some approved bundle, healthy.
readValidatedActive(snapshot) ==
    snapshot.version \in Versions /\ validateActiveBundle(snapshot.version, snapshot)

\* What Monitor accepts, without the lock and without the record.
Monitor(snapshot) == snapshot.version \in Versions /\ snapshot.good

inProgress(rec) == rec.state \in InProgressStates

SameRun(rec, k) == rec.run = k.run

\* The record is of this very request.
replay(rec, k) == SameRun(rec, k) /\ rec.op = k.op /\ rec.target = k.target /\ rec.state # "IDLE"

-----------------------------------------------------------------------------
\* Saving and ending.

Goes(c, pc, rec) == call' = [call EXCEPT ![c].pc = pc, ![c].rec = rec] /\ UNCHANGED lock

\* The call returns and its deferred unlock runs.
Ends(c, answer) == call' = [call EXCEPT ![c] = [Idle EXCEPT !.answer = answer]] /\ lock' = None

\* FileStore.Save renames a complete temporary file over the record: it fails
\* with the old record in place, or, in the directory sync that follows the
\* rename, with the new one.
SaveFails(new) == record' \in {record, new}

\* Store.Save of a complete record, then what the call does.
Store(c, new, answer) ==
    \/ record' = new /\ Ends(c, answer)
    \/ SaveFails(new) /\ Ends(c, "error")

\* A mutant: the error of Store.Save is dropped.
saveUnchecked(c, rec, next, pc) ==
    LET new == [rec EXCEPT !.state = next] IN
    \/ /\ TransitionAllowed(rec.state, next)
       /\ SaveFails(new) /\ Goes(c, pc, new)
    \/ ~TransitionAllowed(rec.state, next) /\ Ends(c, "error") /\ UNCHANGED record

\* save: the next state, refused when the table does not allow it.
save(c, rec, next, pc) ==
    LET new == [rec EXCEPT !.state = next] IN
    \/ /\ TransitionAllowed(rec.state, next)
       /\ \/ record' = new /\ Goes(c, pc, new)
          \/ SaveFails(new) /\ Ends(c, "error")
    \/ ~TransitionAllowed(rec.state, next) /\ Ends(c, "error") /\ UNCHANGED record

\* The same record with the host's state as ACTIVE.
AsActive(rec, version) == [rec EXCEPT !.state = "ACTIVE", !.active = version]

\* commitActive: the verified bundle is recorded in one save.
commitActive(c, version, answer) == Store(c, AsActive(call[c].rec, version), answer)

\* markActive: the target is already running.
markActive(c) ==
    LET k == call[c] IN
    Store(c, AsActive([k.rec EXCEPT !.op = k.op, !.run = k.run, !.target = k.target], k.target), "ok")

\* markRecovery: save allows it from every state but RECOVERY_REQUIRED itself.
markRecovery(c) == Store(c, [call[c].rec EXCEPT !.state = "RECOVERY_REQUIRED"], "error")

-----------------------------------------------------------------------------
\* Requests.

\* A mutant: any version passes.
validateAny(target, expected) == TRUE

\* validateRequest: the target, and the current version if one is expected, are
\* approved.
validateRequest(target, expected) == target \in Versions /\ expected \in Versions \cup {None}

Arrives(k) == [Idle EXCEPT !.op = k.op, !.run = k.run, !.target = k.target, !.expected = k.expected]

\* A call that holds the lock and has loaded the record, next at pc.
Holds(c, k, pc) ==
    /\ lock' = c
    /\ call' = [call EXCEPT ![c] = [Arrives(k) EXCEPT !.pc = pc, !.rec = record]]

\* The call is over before it changed anything.
Refuses(c, answer) == call' = [call EXCEPT ![c] = [Idle EXCEPT !.answer = answer]] /\ UNCHANGED lock

\* acquire fails at once when the lock is held.
Locked(c) ==
    /\ call[c].pc = "idle"
    /\ lock # None
    /\ Refuses(c, "error")
    /\ UNCHANGED <<record, host, drifted>>

\* A mutant: a record that needs recovery is taken for a finished one.
StartAnyState(c, k) ==
    /\ call[c].pc = "idle"
    /\ validateRequest(k.target, k.expected)
    /\ lock = None
    /\ ~inProgress(record) /\ ~SameRun(record, k) /\ Holds(c, k, "check")
    /\ UNCHANGED <<record, host, drifted>>

\* Deploy and Rollback take the lock, load the record (which may fail) and decide
\* what this request is: a replay, a conflict, or a switch to prepare.
Start(c, k) ==
    /\ call[c].pc = "idle"
    /\ validateRequest(k.target, k.expected)
    /\ lock = None
    /\ \/ replay(record, k) /\ record.state = "ACTIVE" /\ Holds(c, k, "revalidate")
       \/ ~inProgress(record) /\ record.state # "RECOVERY_REQUIRED" /\ ~SameRun(record, k) /\ Holds(c, k, "check")
       \/ Refuses(c, "error")
    /\ UNCHANGED <<record, host, drifted>>

\* Resume takes the lock and loads the record of the run it was asked about.
StartResume(c, k) ==
    /\ call[c].pc = "idle"
    /\ lock = None
    /\ \/ SameRun(record, k) /\ record.state = "ACTIVE" /\ Holds(c, k, "revalidate")
       \/ SameRun(record, k) /\ inProgress(record) /\ Holds(c, k, "resume")
       \/ SameRun(record, k) /\ record.state = "RECOVERY_REQUIRED" /\ Refuses(c, "ok")
       \/ Refuses(c, "error")
    /\ UNCHANGED <<record, host, drifted>>

\* What a workflow asks for.
Request ==
    [op : {"deploy", "rollback"}, run : Runs, target : Versions \cup {Unapproved},
     expected : Versions \cup {None}]
ResumeRequest == [op : {"resume"}, run : Runs, target : {None}, expected : {None}]

Asked(c) ==
    \/ \E k \in Request : Start(c, k)
    \/ \E k \in ResumeRequest : StartResume(c, k)
    \/ Locked(c)

\* revalidateActiveRecord: a recorded ACTIVE is answered only while the host
\* still runs that version.
revalidateActiveRecord(c) ==
    /\ call[c].pc = "revalidate"
    /\ \/ /\ validateActiveBundle(call[c].rec.active, host)
          /\ Ends(c, "ok") /\ drifted' = FALSE
          /\ UNCHANGED record
       \/ markRecovery(c) /\ UNCHANGED drifted
    /\ UNCHANGED host

-----------------------------------------------------------------------------
\* Switching. The steps that only read the host are taken with the save that
\* follows them: a change of the host in between is one right after the save.

\* The host is readable, approved and the expected one.
Expected(k) == readValidatedActive(host) /\ k.expected \in {None, host.version}

\* A save that took effect accounts for the host as it was just read.
Recorded == drifted' = (drifted /\ record' = record)

\* The first save of a switch.
First(c, rec) ==
    \/ call[c].op = "deploy" /\ save(c, rec, "PREPARED", "prepared")
    \/ call[c].op = "rollback" /\ save(c, rec, "ROLLING_BACK", "rollback")

\* A mutant: the version before the switch is not recorded.
PrepareForgetful(c) ==
    LET k == call[c]
        rec == [k.rec EXCEPT !.op = k.op, !.run = k.run, !.target = k.target]
    IN
    /\ k.pc = "check"
    /\ \/ markRecovery(c) /\ UNCHANGED drifted
       \/ Expected(k) /\ host.version = k.target /\ markActive(c) /\ Recorded
       \/ Expected(k) /\ host.version # k.target /\ First(c, rec) /\ Recorded
    /\ UNCHANGED host

\* Deploy and Rollback up to the first save. A read that fails is a failure too.
Prepare(c) ==
    LET k == call[c]
        rec == [k.rec EXCEPT !.op = k.op, !.run = k.run, !.target = k.target, !.previous = host.version]
    IN
    /\ k.pc = "check"
    /\ \/ markRecovery(c) /\ UNCHANGED drifted
       \/ Expected(k) /\ host.version = k.target /\ markActive(c) /\ Recorded
       \/ Expected(k) /\ host.version # k.target /\ First(c, rec) /\ Recorded
    /\ UNCHANGED host

\* Host commands switch to a version, whole or in part, or fail without effect.
Switched(version) == host' \in {[version |-> version, good |-> TRUE], [version |-> version, good |-> FALSE]}

Arm(c) ==
    /\ call[c].pc = "prepared"
    /\ save(c, call[c].rec, "ACTIVATING", "activate")
    /\ UNCHANGED <<host, drifted>>

Activate(c) ==
    LET k == call[c] IN
    /\ k.pc = "activate"
    /\ \/ Switched(k.target) /\ Goes(c, "activated", k.rec)
       \/ (Switched(k.target) \/ UNCHANGED host) /\ Goes(c, "compensate", k.rec)
    /\ UNCHANGED <<record, drifted>>

Activated(c) ==
    /\ call[c].pc = "activated"
    /\ save(c, call[c].rec, "VERIFYING", "verify")
    /\ UNCHANGED <<host, drifted>>

\* A mutant: the evidence is not looked at.
VerifyTrusting(c) ==
    LET k == call[c] IN
    /\ k.pc = "verify"
    /\ \/ /\ host.version = k.target
          /\ commitActive(c, k.target, "ok")
          /\ Recorded
       \/ Goes(c, "compensate", k.rec) /\ UNCHANGED <<record, drifted>>
    /\ UNCHANGED host

\* Host.Verify, its evidence checked against the bundle, and the commit. Missing
\* or wrong evidence leads to the previous version.
Verify(c) ==
    LET k == call[c] IN
    /\ k.pc = "verify"
    /\ \/ /\ validateActiveBundle(k.target, host)
          /\ commitActive(c, k.target, "ok")
          /\ Recorded
       \/ Goes(c, "compensate", k.rec) /\ UNCHANGED <<record, drifted>>
    /\ UNCHANGED host

\* compensate announces the way back before it takes it.
Compensate(c) ==
    /\ call[c].pc = "compensate"
    /\ save(c, call[c].rec, "ROLLING_BACK", "rollback")
    /\ UNCHANGED <<host, drifted>>

\* The version a rollback is to: the request's target, or for a compensated
\* deploy the version it found.
Goal(k) == IF k.op = "rollback" THEN k.target ELSE k.rec.previous

RollBack(c) ==
    LET k == call[c] IN
    /\ k.pc = "rollback"
    /\ \/ Switched(Goal(k)) /\ Goes(c, "rolledback", k.rec)
       \/ (Switched(Goal(k)) \/ UNCHANGED host) /\ Goes(c, "recovery", k.rec)
    /\ UNCHANGED <<record, drifted>>

RecoverAfterRollback(c) ==
    /\ call[c].pc = "recovery"
    /\ markRecovery(c)
    /\ UNCHANGED <<host, drifted>>

RolledBack(c) ==
    /\ call[c].pc = "rolledback"
    /\ save(c, call[c].rec, "ROLLBACK_VERIFYING", "verifyrollback")
    /\ UNCHANGED <<host, drifted>>

\* VerifyRollback's evidence and a fresh read of the host, then the commit. A
\* compensated deploy answers with its failure.
VerifyRollback(c) ==
    LET k == call[c] IN
    /\ k.pc = "verifyrollback"
    /\ \/ /\ validateActiveBundle(Goal(k), host)
          /\ commitActive(c, Goal(k), IF k.op = "rollback" THEN "ok" ELSE "error")
          /\ Recorded
       \/ markRecovery(c) /\ UNCHANGED drifted
    /\ UNCHANGED host

-----------------------------------------------------------------------------
\* Resume reads the host and records what it finds: the target, the version
\* before it, or that a person must look. It switches nothing.
Resume(c) ==
    LET rec == call[c].rec IN
    /\ call[c].pc = "resume"
    /\ \/ /\ \E v \in {rec.target, rec.previous} \cap Versions :
                validateActiveBundle(v, host) /\ Store(c, AsActive(rec, v), "ok")
          /\ Recorded
       \/ markRecovery(c) /\ UNCHANGED drifted
    /\ UNCHANGED host

\* The process dies: its lock goes with it, the file and the host stay.
Crash(c) ==
    /\ call[c].pc # "idle"
    /\ Ends(c, None)
    /\ UNCHANGED <<record, host, drifted>>

\* The host is changed by something else than the controller.
Drift ==
    /\ host' \in Snapshots \ {host}
    /\ drifted' = TRUE
    /\ UNCHANGED <<record, lock, call>>

Step(c) ==
    \/ revalidateActiveRecord(c) \/ Prepare(c) \/ Arm(c) \/ Activate(c) \/ Activated(c) \/ Verify(c)
    \/ Compensate(c) \/ RollBack(c) \/ RecoverAfterRollback(c) \/ RolledBack(c) \/ VerifyRollback(c)
    \/ Resume(c)

Next ==
    \/ \E c \in Calls : Asked(c) \/ Step(c) \/ Crash(c)
    \/ Drift

Spec == Init /\ [][Next]_vars

-----------------------------------------------------------------------------
\* Properties.

\* The record, the host snapshot and the calls have their types: a request that
\* is not for an approved version gets no further than validateRequest.
StagingTypeOK ==
    /\ record \in Records
    /\ host \in Snapshots
    /\ drifted \in BOOLEAN
    /\ lock \in Calls \cup {None}
    /\ call \in [Calls -> CallTypes]

\* A record that says ACTIVE tells the truth, whatever failed or was interrupted
\* on the way there: unless somebody else changed the host since, Monitor accepts
\* it and it runs the recorded version.
ActiveServes ==
    record.state = "ACTIVE" /\ ~drifted => Monitor(host) /\ host.version = record.active

\* An operation that was interrupted can be settled by Resume: a host that works
\* runs the target or the version before it, and the record names both.
InterruptionAccounted ==
    inProgress(record) /\ ~drifted /\ host.good => host.version \in {record.target, record.previous}

\* The controller switches the host only while the file says so, so that a crash
\* during the command leaves an operation in progress and never an ACTIVE, IDLE
\* or RECOVERY_REQUIRED record.
SwitchAnnounced ==
    [][host' # host /\ ~drifted' => record.state \in {"ACTIVATING", "ROLLING_BACK"}]_vars

\* RECOVERY_REQUIRED is left to a person: no request, replay or resume, and no
\* call that loaded the record earlier, writes another state over it.
RecoveryStays ==
    [][record.state = "RECOVERY_REQUIRED" => record'.state = "RECOVERY_REQUIRED"]_vars

=============================================================================
