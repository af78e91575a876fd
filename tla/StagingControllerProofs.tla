---------------------- MODULE StagingControllerProofs ----------------------
(***************************************************************************)
(* Proofs that the staging release controller keeps its promises for any   *)
(* number of versions, runs and concurrent calls, whatever saves and host  *)
(* commands fail and wherever a call dies.                                 *)
(*                                                                         *)
(* The argument: only the holder of the lock is under way, and what it     *)
(* loaded or last saved is what the file says (CallOK), so each save goes  *)
(* on from the persisted state; a record in progress names the versions    *)
(* the host may run, and an ACTIVE one the version it runs (Truth).        *)
(***************************************************************************)
EXTENDS StagingController, TLAPS

\* What a record rec says of a host h that nobody else changed (~d).
Truth(rec, h, d) ==
    /\ rec.state \in InProgressStates => rec.target \in Versions /\ rec.previous \in Versions
    /\ rec.state = "ACTIVE" => rec.active \in Versions
    /\ rec.state = "ACTIVE" /\ ~d => h.good /\ h.version = rec.active
    /\ rec.state \in InProgressStates /\ ~d /\ h.good => h.version \in {rec.target, rec.previous}

\* The persisted state s under which a call is at a point of its way.
StateAt(pc, s) ==
    /\ pc = "revalidate" => s = "ACTIVE"
    /\ pc = "check" => s \in {"IDLE", "ACTIVE"}
    /\ pc = "prepared" => s = "PREPARED"
    /\ pc \in {"activate", "activated"} => s = "ACTIVATING"
    /\ pc = "verify" => s = "VERIFYING"
    /\ pc = "compensate" => s \in {"ACTIVATING", "VERIFYING"}
    /\ pc \in {"rollback", "rolledback", "recovery"} => s = "ROLLING_BACK"
    /\ pc = "verifyrollback" => s = "ROLLBACK_VERIFYING"
    /\ pc = "resume" => s \in InProgressStates

\* Points at which the switch of the call's own request is recorded.
Switching == {"prepared", "activate", "activated", "verify", "compensate",
              "rollback", "rolledback", "recovery", "verifyrollback"}

\* The record rec fits a call k at point pc.
Fits(k, pc, rec) ==
    /\ StateAt(pc, rec.state)
    /\ pc = "check" \/ pc \in Switching => k.op \in {"deploy", "rollback"} /\ k.target \in Versions
    /\ pc \in Switching => rec.target = k.target

\* A call under way holds the lock and knows the record.
CallOK(c) ==
    call[c].pc # "idle" => lock = c /\ call[c].rec = record /\ Fits(call[c], call[c].pc, record)

IInv ==
    /\ StagingTypeOK
    /\ \A c \in Calls : CallOK(c)
    /\ Truth(record, host, drifted)

Points == {"idle", "revalidate", "check", "prepared", "activate", "activated", "verify",
           "compensate", "rollback", "rolledback", "verifyrollback", "recovery", "resume"}

-----------------------------------------------------------------------------
\* The call that is under way is the only one.
LEMMA Alone ==
    ASSUME IInv, NEW c \in Calls, call[c].pc # "idle"
    PROVE  /\ lock = c /\ call[c].rec = record /\ Fits(call[c], call[c].pc, record)
           /\ call[c] \in CallTypes /\ record \in Records
           /\ \A d \in Calls \ {c} : call[d].pc = "idle"
  BY Zenon DEF IInv, CallOK, StagingTypeOK

LEMMA NobodyUnderWay ==
    ASSUME IInv, lock = None
    PROVE  \A d \in Calls : call[d].pc = "idle"
  BY NoneAssumption, Zenon DEF IInv, CallOK

LEMMA IdleType ==
    ASSUME NEW answer \in {None, "ok", "error"}
    PROVE  /\ [Idle EXCEPT !.answer = answer] \in CallTypes
           /\ [Idle EXCEPT !.answer = answer].pc = "idle"
  BY Zenon DEF Idle, CallTypes, NoRecord, Records, States

\* The end of a call.
LEMMA EndsOK ==
    ASSUME IInv, NEW c \in Calls, call[c].pc # "idle", NEW answer \in {None, "ok", "error"},
           Ends(c, answer), record' \in Records, host' \in Snapshots, drifted' \in BOOLEAN,
           Truth(record', host', drifted')
    PROVE  IInv'
  <1> DEFINE k == [Idle EXCEPT !.answer = answer]
  <1>1. k \in CallTypes /\ k.pc = "idle"
    BY IdleType, Zenon
  <1>2. call' = [call EXCEPT ![c] = k] /\ lock' = None
    BY Zenon DEF Ends
  <1> HIDE DEF k
  <1>3. call' \in [Calls -> CallTypes] /\ \A d \in Calls : call'[d].pc = "idle"
    BY <1>1, <1>2, Alone, Zenon DEF IInv, StagingTypeOK
  <1> QED BY <1>2, <1>3, Zenon DEF IInv, StagingTypeOK, CallOK

\* A call goes on with the record it has just saved, or as before.
LEMMA GoesOK ==
    ASSUME IInv, NEW c \in Calls, call[c].pc # "idle", NEW pc \in Points, NEW rec \in Records,
           Goes(c, pc, rec), record' = rec, host' \in Snapshots, drifted' \in BOOLEAN,
           Fits(call[c], pc, rec), Truth(rec, host', drifted')
    PROVE  IInv'
  <1> DEFINE k == [call[c] EXCEPT !.pc = pc, !.rec = rec]
  <1>0. call[c] \in CallTypes
    BY Alone, Zenon
  <1>1. /\ k \in CallTypes /\ k.pc = pc /\ k.rec = rec /\ k.op = call[c].op
        /\ k.target = call[c].target
    BY <1>0, Zenon DEF CallTypes, Points
  <1>2. call' = [call EXCEPT ![c] = k] /\ lock' = lock
    BY Zenon DEF Goes
  <1> HIDE DEF k
  <1>3. /\ call' \in [Calls -> CallTypes] /\ call'[c] = k
        /\ \A d \in Calls \ {c} : call'[d].pc = "idle"
    BY <1>1, <1>2, Alone, Zenon DEF IInv, StagingTypeOK
  <1>4. Fits(k, pc, rec)
    BY <1>1, Zenon DEF Fits
  <1>5. CallOK(c)'
    BY <1>1, <1>2, <1>3, <1>4, Alone, Zenon DEF CallOK
  <1>6. ASSUME NEW d \in Calls PROVE CallOK(d)'
    BY <1>3, <1>5, Zenon DEF CallOK
  <1> QED BY <1>2, <1>3, <1>6, Zenon DEF IInv, StagingTypeOK

\* A complete record is stored and the call is over.
LEMMA StoreOK ==
    ASSUME IInv, NEW c \in Calls, call[c].pc # "idle", NEW answer \in {"ok", "error"},
           NEW new \in Records, Store(c, new, answer), UNCHANGED host, drifted' \in BOOLEAN,
           record' = record => drifted' = drifted, Truth(new, host, drifted')
    PROVE  IInv'
  <1>1. record' \in {record, new} /\ (Ends(c, answer) \/ Ends(c, "error"))
    BY Zenon DEF Store, SaveFails
  <1>2. record' \in Records /\ host' \in Snapshots /\ Truth(record', host', drifted')
    BY <1>1, Zenon DEF IInv, StagingTypeOK
  <1> QED BY <1>1, <1>2, EndsOK, Zenon

\* The next state is saved, or the call is over.
LEMMA SaveOK ==
    ASSUME IInv, NEW c \in Calls, call[c].pc # "idle", NEW pc \in Points, NEW rec \in Records,
           NEW next \in States, save(c, rec, next, pc), UNCHANGED host, drifted' \in BOOLEAN,
           record' = record => drifted' = drifted,
           Truth([rec EXCEPT !.state = next], host, drifted'),
           Fits(call[c], pc, [rec EXCEPT !.state = next])
    PROVE  IInv'
  <1> DEFINE new == [rec EXCEPT !.state = next]
  <1>0. new \in Records
    BY Zenon DEF Records
  <1>1. \/ record' = new /\ Goes(c, pc, new)
        \/ record' \in {record, new} /\ Ends(c, "error")
    BY Zenon DEF save, SaveFails
  <1>2. host' \in Snapshots /\ Truth(record, host, drifted)
    BY Zenon DEF IInv, StagingTypeOK
  <1> HIDE DEF new
  <1>3. CASE record' = new /\ Goes(c, pc, new)
    BY <1>0, <1>2, <1>3, GoesOK, Zenon DEF new
  <1>4. CASE record' \in {record, new} /\ Ends(c, "error")
    <2>1. record' \in Records /\ Truth(record', host', drifted')
      BY <1>0, <1>2, <1>4, Zenon DEF IInv, StagingTypeOK, new
    <2> QED BY <1>2, <1>4, <2>1, EndsOK, Zenon
  <1> QED BY <1>1, <1>3, <1>4, Zenon

\* A call gives up on the host: the record keeps its versions.
LEMMA RecoveryOK ==
    ASSUME IInv, NEW c \in Calls, call[c].pc # "idle", markRecovery(c), UNCHANGED <<host, drifted>>
    PROVE  IInv'
  <1> DEFINE new == [record EXCEPT !.state = "RECOVERY_REQUIRED"]
  <1>1. call[c].rec = record /\ record \in Records
    BY Alone, Zenon
  <1>2. new \in Records /\ new.state = "RECOVERY_REQUIRED"
    BY <1>1, Zenon DEF Records, States
  <1>3. Truth(new, host, drifted)
    BY <1>2, Zenon DEF Truth, InProgressStates
  <1>4. Store(c, new, "error") /\ drifted' \in BOOLEAN
    BY <1>1, Zenon DEF markRecovery, IInv, StagingTypeOK
  <1> HIDE DEF new
  <1> QED BY <1>2, <1>3, <1>4, StoreOK, Zenon

\* The version that was found running is recorded.
LEMMA ActiveOK ==
    ASSUME IInv, NEW c \in Calls, call[c].pc # "idle", NEW rec \in Records, NEW v \in Versions,
           NEW answer \in {"ok", "error"}, Store(c, AsActive(rec, v), answer),
           validateActiveBundle(v, host), Recorded, UNCHANGED host
    PROVE  IInv'
  <1> DEFINE new == AsActive(rec, v)
  <1>1. new \in Records /\ new.state = "ACTIVE" /\ new.active = v
    BY Zenon DEF AsActive, Records, States
  <1>2. drifted' \in BOOLEAN /\ (record' = record => drifted' = drifted)
    BY Zenon DEF Recorded, IInv, StagingTypeOK
  <1>3. Truth(new, host, drifted')
    BY <1>1, Zenon DEF Truth, InProgressStates, validateActiveBundle
  <1> HIDE DEF new
  <1> QED BY <1>1, <1>2, <1>3, StoreOK, Zenon DEF new

-----------------------------------------------------------------------------
\* Requests.

LEMMA InitOK == Init => IInv
  <1> SUFFICES ASSUME Init PROVE IInv
    BY Zenon
  <1>1. NoRecord \in Records /\ NoRecord.state = "IDLE"
    BY Zenon DEF NoRecord, Records, States
  <1>2. Idle \in CallTypes /\ Idle.pc = "idle"
    BY <1>1, Zenon DEF Idle, CallTypes
  <1>3. Truth(record, host, drifted)
    BY <1>1, Zenon DEF Init, Truth, InProgressStates
  <1> QED BY <1>1, <1>2, <1>3, Zenon DEF Init, IInv, StagingTypeOK, CallOK

\* A call that is refused changes only itself.
LEMMA RefusesOK ==
    ASSUME IInv, NEW c \in Calls, call[c].pc = "idle", NEW answer \in {None, "ok", "error"},
           Refuses(c, answer), UNCHANGED <<record, host, drifted>>
    PROVE  IInv'
  <1> DEFINE k == [Idle EXCEPT !.answer = answer]
  <1>1. k \in CallTypes /\ k.pc = "idle"
    BY IdleType, Zenon
  <1>2. call' = [call EXCEPT ![c] = k] /\ lock' = lock
    BY Zenon DEF Refuses
  <1> HIDE DEF k
  <1>3. call' \in [Calls -> CallTypes]
    BY <1>1, <1>2, Zenon DEF IInv, StagingTypeOK
  <1>4. ASSUME NEW d \in Calls PROVE CallOK(d)'
    BY <1>1, <1>2, Zenon DEF IInv, StagingTypeOK, CallOK
  <1> QED BY <1>2, <1>3, <1>4, Zenon DEF IInv, StagingTypeOK

\* A call that takes the lock has loaded the record.
LEMMA HoldsOK ==
    ASSUME IInv, NEW c \in Calls, lock = None, NEW pc \in Points, NEW q,
           Arrives(q) \in CallTypes, Holds(c, q, pc), Fits(Arrives(q), pc, record),
           UNCHANGED <<record, host, drifted>>
    PROVE  IInv'
  <1> DEFINE k == [Arrives(q) EXCEPT !.pc = pc, !.rec = record]
  <1>0. record \in Records
    BY Zenon DEF IInv, StagingTypeOK
  <1>1. /\ k \in CallTypes /\ k.pc = pc /\ k.rec = record
        /\ k.op = Arrives(q).op /\ k.target = Arrives(q).target
    BY <1>0, Zenon DEF CallTypes, Points
  <1>2. call' = [call EXCEPT ![c] = k] /\ lock' = c
    BY Zenon DEF Holds
  <1> HIDE DEF k
  <1>3. /\ call' \in [Calls -> CallTypes] /\ call'[c] = k
        /\ \A d \in Calls \ {c} : call'[d].pc = "idle"
    BY <1>1, <1>2, NobodyUnderWay, Zenon DEF IInv, StagingTypeOK
  <1>4. Fits(k, pc, record)
    BY <1>1, Zenon DEF Fits
  <1>5. ASSUME NEW d \in Calls PROVE CallOK(d)'
    BY <1>1, <1>2, <1>3, <1>4, Zenon DEF CallOK
  <1> QED BY <1>2, <1>3, <1>5, Zenon DEF IInv, StagingTypeOK

LEMMA AskedOK ==
    ASSUME IInv, NEW c \in Calls, Asked(c)
    PROVE  IInv'
  <1>0. record \in Records /\ NoRecord \in Records
    BY Zenon DEF IInv, StagingTypeOK, NoRecord, Records, States
  <1>1. ASSUME NEW k \in Request, Start(c, k) PROVE IInv'
    <2> DEFINE q == Arrives(k)
    <2>1. k.target \in Versions /\ k.op \in {"deploy", "rollback"}
      BY <1>1, Zenon DEF Start, validateRequest, Request
    <2>2. q \in CallTypes /\ q.op = k.op /\ q.target = k.target
      BY <1>0, <2>1, Zenon DEF Arrives, Idle, CallTypes, Request
    <2>3. call[c].pc = "idle" /\ lock = None /\ UNCHANGED <<record, host, drifted>>
      BY <1>1, Zenon DEF Start
    <2> HIDE DEF q
    <2>4. CASE record.state = "ACTIVE" /\ Holds(c, k, "revalidate")
      <3>1. Fits(q, "revalidate", record)
        BY <2>4, Zenon DEF Fits, StateAt, Switching
      <3> QED BY <2>2, <2>3, <2>4, <3>1, HoldsOK, Zenon DEF Points, q
    <2>5. CASE ~inProgress(record) /\ record.state # "RECOVERY_REQUIRED" /\ Holds(c, k, "check")
      <3>1. record.state \in {"IDLE", "ACTIVE"}
        BY <1>0, <2>5, Zenon DEF inProgress, Records, States
      <3>2. Fits(q, "check", record)
        BY <2>1, <2>2, <3>1, Zenon DEF Fits, StateAt, Switching
      <3> QED BY <2>2, <2>3, <2>5, <3>2, HoldsOK, Zenon DEF Points, q
    <2>6. CASE Refuses(c, "error")
      BY <2>3, <2>6, RefusesOK, Zenon
    <2> QED BY <1>1, <2>4, <2>5, <2>6, Zenon DEF Start
  <1>2. ASSUME NEW k \in ResumeRequest, StartResume(c, k) PROVE IInv'
    <2> DEFINE q == Arrives(k)
    <2>2. q \in CallTypes
      BY <1>0, Zenon DEF Arrives, Idle, CallTypes, ResumeRequest
    <2>3. call[c].pc = "idle" /\ lock = None /\ UNCHANGED <<record, host, drifted>>
      BY <1>2, Zenon DEF StartResume
    <2> HIDE DEF q
    <2>4. CASE record.state = "ACTIVE" /\ Holds(c, k, "revalidate")
      <3>1. Fits(q, "revalidate", record)
        BY <2>4, Zenon DEF Fits, StateAt, Switching
      <3> QED BY <2>2, <2>3, <2>4, <3>1, HoldsOK, Zenon DEF Points, q
    <2>5. CASE inProgress(record) /\ Holds(c, k, "resume")
      <3>1. Fits(q, "resume", record)
        BY <2>5, Zenon DEF Fits, StateAt, Switching, inProgress
      <3> QED BY <2>2, <2>3, <2>5, <3>1, HoldsOK, Zenon DEF Points, q
    <2>6. CASE Refuses(c, "error") \/ Refuses(c, "ok")
      BY <2>3, <2>6, RefusesOK, Zenon
    <2> QED BY <1>2, <2>4, <2>5, <2>6, Zenon DEF StartResume
  <1>3. CASE Locked(c)
    BY <1>3, RefusesOK, Zenon DEF Locked
  <1> QED BY <1>1, <1>2, <1>3, Zenon DEF Asked

-----------------------------------------------------------------------------
\* Steps.

LEMMA RevalidateOK ==
    ASSUME IInv, NEW c \in Calls, revalidateActiveRecord(c)
    PROVE  IInv'
  <1>1. call[c].pc = "revalidate" /\ UNCHANGED host
    BY Zenon DEF revalidateActiveRecord
  <1>2. CASE /\ validateActiveBundle(call[c].rec.active, host)
             /\ Ends(c, "ok") /\ drifted' = FALSE /\ UNCHANGED record
    <2>1. Truth(record', host', drifted')
      BY <1>1, <1>2, Alone, Zenon DEF IInv, Truth, Fits, StateAt, InProgressStates, validateActiveBundle
    <2> QED BY <1>1, <1>2, <2>1, EndsOK, Zenon DEF IInv, StagingTypeOK
  <1>3. CASE markRecovery(c) /\ UNCHANGED drifted
    BY <1>1, <1>3, RecoveryOK, Zenon
  <1> QED BY <1>2, <1>3, Zenon DEF revalidateActiveRecord

\* Up to the first save: the version found is recorded with the target.
LEMMA PrepareOK ==
    ASSUME IInv, NEW c \in Calls, Prepare(c)
    PROVE  IInv'
  <1> DEFINE k == call[c]
             rec == [k.rec EXCEPT !.op = k.op, !.run = k.run, !.target = k.target,
                                  !.previous = host.version]
             old == [k.rec EXCEPT !.op = k.op, !.run = k.run, !.target = k.target]
  <1>1. k.pc = "check" /\ UNCHANGED host /\ k \in CallTypes /\ k.rec = record /\ record \in Records
    BY Alone, Zenon DEF Prepare
  <1>2. k.op \in {"deploy", "rollback"} /\ k.target \in Versions
    BY <1>1, Alone, Zenon DEF Fits
  <1>3. CASE markRecovery(c) /\ UNCHANGED drifted
    BY <1>1, <1>3, RecoveryOK, Zenon
  <1>4. CASE Expected(k) /\ host.version = k.target /\ markActive(c) /\ Recorded
    <2>1. old \in Records
      BY <1>1, <1>2, Zenon DEF Records, CallTypes
    <2>2. Store(c, AsActive(old, k.target), "ok")
      BY <1>4, Zenon DEF markActive
    <2>3. validateActiveBundle(k.target, host)
      BY <1>4, Zenon DEF Expected, readValidatedActive, validateActiveBundle
    <2> HIDE DEF old
    <2> QED BY <1>1, <1>2, <1>4, <2>1, <2>2, <2>3, ActiveOK, Zenon
  <1>5. CASE Expected(k) /\ host.version # k.target /\ First(c, rec) /\ Recorded
    <2>1. host.version \in Versions
      BY <1>5, Zenon DEF Expected, readValidatedActive
    <2>2. rec \in Records /\ rec.target = k.target /\ rec.previous = host.version
      BY <1>1, <1>2, <2>1, Zenon DEF Records, CallTypes
    <2>3. drifted' \in BOOLEAN /\ (record' = record => drifted' = drifted)
      BY <1>5, Zenon DEF Recorded, IInv, StagingTypeOK
    <2> HIDE DEF rec
    <2>4. ASSUME NEW next \in InProgressStates
          PROVE  Truth([rec EXCEPT !.state = next], host, drifted')
      BY <1>2, <2>1, <2>2, Zenon DEF Truth, Records, InProgressStates
    <2>5. CASE save(c, rec, "PREPARED", "prepared")
      <3>1. Fits(k, "prepared", [rec EXCEPT !.state = "PREPARED"])
        BY <1>2, <2>2, Zenon DEF Fits, StateAt, Switching, Records
      <3> QED BY <1>1, <2>2, <2>3, <2>4, <2>5, <3>1, SaveOK, Zenon DEF Points, States, InProgressStates
    <2>6. CASE save(c, rec, "ROLLING_BACK", "rollback")
      <3>1. Fits(k, "rollback", [rec EXCEPT !.state = "ROLLING_BACK"])
        BY <1>2, <2>2, Zenon DEF Fits, StateAt, Switching, Records
      <3> QED BY <1>1, <2>2, <2>3, <2>4, <2>6, <3>1, SaveOK, Zenon DEF Points, States, InProgressStates
    <2> QED BY <1>5, <2>5, <2>6, Zenon DEF First
  <1> QED BY <1>3, <1>4, <1>5, Zenon DEF Prepare

\* A save from one state in progress to the next.
LEMMA AdvanceOK ==
    ASSUME IInv, NEW c \in Calls, call[c].pc \in Switching, NEW next \in InProgressStates,
           NEW pc \in Switching, save(c, call[c].rec, next, pc), StateAt(pc, next),
           UNCHANGED <<host, drifted>>
    PROVE  IInv'
  <1> DEFINE new == [record EXCEPT !.state = next]
  <1>1. /\ call[c].pc # "idle" /\ call[c].rec = record /\ record \in Records
        /\ Fits(call[c], call[c].pc, record)
    BY Alone, Zenon DEF Switching
  <1>2. record.state \in InProgressStates
    BY <1>1, Zenon DEF Fits, StateAt, Switching, InProgressStates
  <1>3. /\ new.state = next /\ new.target = record.target /\ new.previous = record.previous
    BY <1>1, Zenon DEF Records
  <1>4. Truth(new, host, drifted)
    BY <1>2, <1>3, Zenon DEF IInv, Truth, InProgressStates
  <1>5. Fits(call[c], pc, new)
    BY <1>1, <1>3, Zenon DEF Fits
  <1>6. save(c, record, next, pc) /\ drifted' \in BOOLEAN
    BY <1>1, Zenon DEF IInv, StagingTypeOK
  <1>7. next \in States /\ pc \in Points
    BY Zenon DEF States, Points, Switching
  <1> HIDE DEF new
  <1> QED BY <1>1, <1>4, <1>5, <1>6, <1>7, SaveOK, Zenon DEF new

LEMMA AnnouncementsOK ==
    ASSUME IInv, NEW c \in Calls, Arm(c) \/ Activated(c) \/ Compensate(c) \/ RolledBack(c)
    PROVE  IInv'
  <1> USE DEF Switching, InProgressStates, StateAt
  <1>1. CASE Arm(c)
    BY <1>1, AdvanceOK, Zenon DEF Arm
  <1>2. CASE Activated(c)
    BY <1>2, AdvanceOK, Zenon DEF Activated
  <1>3. CASE Compensate(c)
    BY <1>3, AdvanceOK, Zenon DEF Compensate
  <1>4. CASE RolledBack(c)
    BY <1>4, AdvanceOK, Zenon DEF RolledBack
  <1> QED BY <1>1, <1>2, <1>3, <1>4, Zenon

\* A host command on the way to a version the record names.
LEMMA CommandOK ==
    ASSUME IInv, NEW c \in Calls, call[c].pc \in Switching, NEW pc \in Switching,
           NEW v \in {record.target, record.previous}, Switched(v) \/ UNCHANGED host,
           Goes(c, pc, call[c].rec), StateAt(pc, record.state), UNCHANGED <<record, drifted>>
    PROVE  IInv'
  <1>1. /\ call[c].pc # "idle" /\ call[c].rec = record /\ record \in Records
        /\ Fits(call[c], call[c].pc, record)
    BY Alone, Zenon DEF Switching
  <1>2. record.state \in InProgressStates
    BY <1>1, Zenon DEF Fits, StateAt, Switching, InProgressStates
  <1>3. v \in Versions
    BY <1>2, Zenon DEF IInv, Truth
  <1>4. host' \in Snapshots /\ (host' = host \/ host'.version = v)
    <2>1. CASE UNCHANGED host
      BY <2>1, Zenon DEF IInv, StagingTypeOK
    <2>2. ASSUME NEW b \in BOOLEAN, host' = [version |-> v, good |-> b]
          PROVE  host' \in Snapshots /\ host'.version = v
      BY <1>3, <2>2, Zenon DEF Snapshots
    <2>3. CASE Switched(v)
      BY <2>2, <2>3, Zenon DEF Switched
    <2> QED BY <2>1, <2>3, Zenon
  <1>5. Truth(record, host', drifted)
    BY <1>2, <1>4, Zenon DEF IInv, Truth, InProgressStates
  <1>6. Fits(call[c], pc, record) /\ pc \in Points /\ drifted' \in BOOLEAN
    BY <1>1, Zenon DEF Fits, Switching, Points, IInv, StagingTypeOK
  <1> QED BY <1>1, <1>4, <1>5, <1>6, GoesOK, Zenon

\* The version of a rollback is the target of a rollback, or what a deploy found.
LEMMA GoalNamed ==
    ASSUME IInv, NEW c \in Calls, call[c].pc \in Switching
    PROVE  Goal(call[c]) \in {record.target, record.previous} /\ Goal(call[c]) \in Versions
  <1>1. /\ call[c].rec = record /\ Fits(call[c], call[c].pc, record)
    BY Alone, Zenon DEF Switching
  <1>2. record.state \in InProgressStates
    BY <1>1, Zenon DEF Fits, StateAt, Switching, InProgressStates
  <1> QED BY <1>1, <1>2, Zenon DEF Fits, Goal, IInv, Truth

LEMMA ActivateOK ==
    ASSUME IInv, NEW c \in Calls, Activate(c) \/ RollBack(c)
    PROVE  IInv'
  <1>1. CASE Activate(c)
    <2>1. call[c].pc = "activate" /\ Fits(call[c], "activate", record)
      BY <1>1, Alone, Zenon DEF Activate
    <2>2. record.target = call[c].target /\ record.state = "ACTIVATING"
      BY <2>1, Zenon DEF Fits, StateAt, Switching
    <2>3. CASE Switched(call[c].target) /\ Goes(c, "activated", call[c].rec)
      BY <1>1, <2>1, <2>2, <2>3, CommandOK, Zenon DEF Activate, Switching, StateAt
    <2>4. CASE (Switched(call[c].target) \/ UNCHANGED host) /\ Goes(c, "compensate", call[c].rec)
      BY <1>1, <2>1, <2>2, <2>4, CommandOK, Zenon DEF Activate, Switching, StateAt
    <2> QED BY <1>1, <2>3, <2>4, Zenon DEF Activate
  <1>2. CASE RollBack(c)
    <2> DEFINE g == Goal(call[c])
    <2>1. call[c].pc = "rollback" /\ Fits(call[c], "rollback", record)
      BY <1>2, Alone, Zenon DEF RollBack
    <2>2. g \in {record.target, record.previous} /\ record.state = "ROLLING_BACK"
      BY <2>1, GoalNamed, Zenon DEF Fits, StateAt, Switching
    <2>3. /\ \/ Switched(g) /\ Goes(c, "rolledback", call[c].rec)
             \/ (Switched(g) \/ UNCHANGED host) /\ Goes(c, "recovery", call[c].rec)
          /\ UNCHANGED <<record, drifted>>
      BY <1>2, Zenon DEF RollBack
    <2> HIDE DEF g
    <2>4. CASE Switched(g) /\ Goes(c, "rolledback", call[c].rec)
      BY <2>1, <2>2, <2>3, <2>4, CommandOK, Zenon DEF Switching, StateAt
    <2>5. CASE (Switched(g) \/ UNCHANGED host) /\ Goes(c, "recovery", call[c].rec)
      BY <2>1, <2>2, <2>3, <2>5, CommandOK, Zenon DEF Switching, StateAt
    <2> QED BY <2>3, <2>4, <2>5, Zenon
  <1> QED BY <1>1, <1>2, Zenon

LEMMA VerifyOK ==
    ASSUME IInv, NEW c \in Calls, Verify(c)
    PROVE  IInv'
  <1>1. /\ call[c].pc = "verify" /\ UNCHANGED host /\ call[c].rec = record /\ record \in Records
        /\ Fits(call[c], "verify", record)
    BY Alone, Zenon DEF Verify
  <1>2. CASE /\ validateActiveBundle(call[c].target, host)
             /\ commitActive(c, call[c].target, "ok") /\ Recorded
    BY <1>1, <1>2, ActiveOK, Zenon DEF commitActive, Fits, Switching
  <1>3. CASE Goes(c, "compensate", call[c].rec) /\ UNCHANGED <<record, drifted>>
    BY <1>1, <1>3, CommandOK, Zenon DEF Fits, Switching, StateAt
  <1> QED BY <1>2, <1>3, Zenon DEF Verify

LEMMA VerifyRollbackOK ==
    ASSUME IInv, NEW c \in Calls, VerifyRollback(c)
    PROVE  IInv'
  <1> DEFINE answer == IF call[c].op = "rollback" THEN "ok" ELSE "error"
  <1>1. /\ call[c].pc = "verifyrollback" /\ UNCHANGED host /\ call[c].rec = record
        /\ record \in Records
    BY Alone, Zenon DEF VerifyRollback
  <1>2. CASE /\ validateActiveBundle(Goal(call[c]), host)
             /\ commitActive(c, Goal(call[c]), answer) /\ Recorded
    <2>1. answer \in {"ok", "error"} /\ Goal(call[c]) \in Versions
      BY <1>1, GoalNamed, Zenon DEF Switching
    <2> HIDE DEF answer
    <2> QED BY <1>1, <1>2, <2>1, ActiveOK, Zenon DEF commitActive
  <1>3. CASE markRecovery(c) /\ UNCHANGED drifted
    BY <1>1, <1>3, RecoveryOK, Zenon
  <1> QED BY <1>2, <1>3, Zenon DEF VerifyRollback

LEMMA ResumeOK ==
    ASSUME IInv, NEW c \in Calls, Resume(c)
    PROVE  IInv'
  <1>1. call[c].pc = "resume" /\ UNCHANGED host /\ call[c].rec = record /\ record \in Records
    BY Alone, Zenon DEF Resume
  <1>2. ASSUME NEW v \in Versions, validateActiveBundle(v, host),
               Store(c, AsActive(call[c].rec, v), "ok"), Recorded
        PROVE  IInv'
    BY <1>1, <1>2, ActiveOK, Zenon
  <1>3. CASE markRecovery(c) /\ UNCHANGED drifted
    BY <1>1, <1>3, RecoveryOK, Zenon
  <1> QED BY <1>2, <1>3, Zenon DEF Resume

\* The end of the process, and a change of the host from outside.
LEMMA OutsideOK ==
    ASSUME IInv, (\E c \in Calls : Crash(c)) \/ Drift
    PROVE  IInv'
  <1>1. ASSUME NEW c \in Calls, Crash(c) PROVE IInv'
    BY <1>1, EndsOK, Zenon DEF Crash, IInv, StagingTypeOK
  <1>2. CASE Drift
    <2>1. Truth(record, host', drifted')
      BY <1>2, Zenon DEF Drift, IInv, Truth
    <2>2. /\ record' = record /\ lock' = lock /\ call' = call /\ host' \in Snapshots
          /\ drifted' = TRUE
      BY <1>2, Zenon DEF Drift
    <2> QED BY <2>1, <2>2, Zenon DEF IInv, StagingTypeOK, CallOK
  <1> QED BY <1>1, <1>2, Zenon

\* IInv is inductive.
LEMMA StepOK == IInv /\ [Next]_vars => IInv'
  <1> SUFFICES ASSUME IInv, [Next]_vars PROVE IInv'
    BY Zenon
  <1>1. ASSUME NEW c \in Calls, Asked(c) PROVE IInv'
    BY <1>1, AskedOK, Zenon
  <1>2. ASSUME NEW c \in Calls, RecoverAfterRollback(c) PROVE IInv'
    BY <1>2, RecoveryOK, Zenon DEF RecoverAfterRollback
  <1>3. ASSUME NEW c \in Calls, Step(c) PROVE IInv'
    BY Zenon, <1>2, <1>3, RevalidateOK, PrepareOK, AnnouncementsOK, ActivateOK, VerifyOK,
       VerifyRollbackOK, ResumeOK DEF Step
  <1>4. CASE UNCHANGED vars
    BY <1>4, Zenon DEF vars, IInv, StagingTypeOK, CallOK
  <1> QED BY <1>1, <1>3, <1>4, OutsideOK, Zenon DEF Next

LEMMA Invariance == Spec => []IInv
  BY InitOK, StepOK, PTL DEF Spec

-----------------------------------------------------------------------------
\* Theorems.

\* The record, the host and the calls have their types; a request for a version
\* that is not approved never gets past validateRequest.
THEOREM StagingTypeCorrect == Spec => []StagingTypeOK
  <1>1. IInv => StagingTypeOK
    BY Zenon DEF IInv
  <1> QED BY <1>1, Invariance, PTL

\* A persisted ACTIVE is true of the host, after any failed saves and commands
\* and any number of dead calls.
THEOREM ActiveIsTrue == Spec => []ActiveServes
  <1>1. IInv => ActiveServes
    BY Zenon DEF IInv, Truth, ActiveServes, Monitor
  <1> QED BY <1>1, Invariance, PTL

\* Resume can settle whatever was interrupted: a working host runs one of the two
\* versions the record names.
THEOREM InterruptionsSettle == Spec => []InterruptionAccounted
  <1>1. IInv => InterruptionAccounted
    BY Zenon DEF IInv, Truth, InterruptionAccounted, inProgress
  <1> QED BY <1>1, Invariance, PTL

\* The host is switched only under an announcement in the file: a crash during
\* the command leaves an operation in progress.
THEOREM SwitchesAnnounced == Spec => SwitchAnnounced
  <1> DEFINE A == host' # host /\ ~drifted' => record.state \in {"ACTIVATING", "ROLLING_BACK"}
  <1>1. ASSUME IInv, NEW c \in Calls, Activate(c) \/ RollBack(c) PROVE A
    BY <1>1, Alone, Zenon DEF Activate, RollBack, Fits, StateAt
  <1>2. ASSUME IInv, Next PROVE A
    BY <1>1, <1>2, Zenon
       DEF Next, Asked, Start, StartResume, Locked, Step, revalidateActiveRecord, Prepare, Arm,
           Activated, Verify, Compensate, RecoverAfterRollback, RolledBack, VerifyRollback, Resume,
           Crash, Drift
  <1>3. IInv /\ [Next]_vars => [A]_vars
    BY <1>2, Zenon
  <1>4. Spec => [][A]_vars
    BY <1>3, Invariance, PTL DEF Spec
  <1> QED BY <1>4, Zenon DEF SwitchAnnounced

\* RECOVERY_REQUIRED is left to a person: no call is under way then, and none
\* that starts writes the record.
THEOREM RecoveryIsFinal == Spec => RecoveryStays
  <1> DEFINE A == record.state = "RECOVERY_REQUIRED" => record'.state = "RECOVERY_REQUIRED"
  <1>1. ASSUME IInv, record.state = "RECOVERY_REQUIRED", NEW c \in Calls
        PROVE  call[c].pc = "idle"
    <2>1. call[c].pc \in Points
      BY <1>1, Zenon DEF IInv, StagingTypeOK, CallTypes, Points
    <2> QED BY <1>1, <2>1, Alone, Zenon DEF Fits, StateAt, Points, InProgressStates
  <1>2. ASSUME IInv, Next, record.state = "RECOVERY_REQUIRED" PROVE record' = record
    BY <1>1, <1>2, Zenon
       DEF Next, Asked, Start, StartResume, Locked, Step, revalidateActiveRecord, Prepare, Arm,
           Activate, Activated, Verify, Compensate, RollBack, RecoverAfterRollback, RolledBack,
           VerifyRollback, Resume, Crash, Drift
  <1>3. IInv /\ [Next]_vars => [A]_vars
    BY <1>2, Zenon
  <1>4. Spec => [][A]_vars
    BY <1>3, Invariance, PTL DEF Spec
  <1> QED BY <1>4, Zenon DEF RecoveryStays
=============================================================================
