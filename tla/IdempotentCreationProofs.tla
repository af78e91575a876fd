---------------------- MODULE IdempotentCreationProofs ----------------------
(***************************************************************************)
(* Proofs that idempotent creation is right for any number of requests,    *)
(* keys and digests and for any lease and retention times.                 *)
(*                                                                         *)
(* The argument: a record that is pending or completed names the attempt   *)
(* that holds it or made its resource (RecOK), an attempt knows what it    *)
(* read there (AttOK), and a resource made in the present life of its      *)
(* record has completed it (LifeOK), so that life has no second one.       *)
(***************************************************************************)
EXTENDS IdempotentCreation, TLAPS

\* b created its resource with the key and the digest of a, and is over.
Matches(a, b) ==
    /\ b \in Attempts /\ created[b] >= 0 /\ att[b].pc = "done"
    /\ att[b].scope = att[a].scope /\ att[b].key = att[a].key
    /\ att[b].digest = att[a].digest

Usable(b) == att[b].scope = "create_upload" => multipart[b] = "open"

\* What is known of an attempt where it is.
AttOK(a) ==
    LET q == att[a] IN
    /\ q.pc \in {"claim", "replay", "release"} => q.key # None
    /\ q.pc \in {"parent", "multipart", "abort"} => q.scope = "create_upload"
    /\ q.pc \in {"new", "parent", "clock", "claim", "multipart", "replay"}
         => multipart[a] = "none" /\ created[a] = -1
    /\ q.pc = "create" => created[a] = -1 /\ Usable(a)
    /\ q.pc \in {"abort", "release"} => created[a] = -1 \/ q.key = None
    /\ created[a] >= 0 /\ q.key # None => Usable(a)
    /\ q.pc = "replay" => q.found # None /\ Matches(a, q.found)
    /\ q.answer # None => Matches(a, q.answer) /\ Usable(q.answer) /\ q.pc = "done"
    /\ multipart[a] = "open" /\ created[a] = -1
         => q.pc \in {"create", "abort"} \/ q.cut
    /\ q.scope # "create_upload" => multipart[a] = "none"

Holding == {"multipart", "create", "abort", "release"}

\* A claim is held by an attempt that still works under it or was cut short;
\* a completed record names a resource its key and digest created.
RecOK(c, k) ==
    LET r == record[c][k] IN
    /\ r.state = "pending" =>
         LET b == r.token IN
         /\ b \in Attempts
         /\ att[b].scope = c /\ att[b].key = k /\ att[b].digest = r.digest
         /\ att[b].pc \in Holding \/ (att[b].pc = "done" /\ att[b].cut)
    /\ r.state = "completed" =>
         LET b == r.resource IN
         /\ b \in Attempts /\ created[b] >= 0 /\ att[b].pc = "done"
         /\ att[b].scope = c /\ att[b].key = k /\ att[b].digest = r.digest

\* A resource of the present life has completed the record.
LifeOK(a) ==
    created[a] >= 0 /\ att[a].key # None =>
        /\ created[a] <= life[att[a].scope][att[a].key]
        /\ created[a] = life[att[a].scope][att[a].key] => Rec(a).state = "completed"

IInv ==
    /\ TypeOK
    /\ \A a \in Attempts : AttOK(a) /\ LifeOK(a)
    /\ \A c \in Scopes, k \in Keys : RecOK(c, k)
    /\ OneResourcePerKey

-----------------------------------------------------------------------------
\* Initially nothing exists.
LEMMA InitOK == Init => IInv
  <1> SUFFICES ASSUME Init PROVE IInv
    BY Zenon
  <1>1. TypeOK
    BY TimeAssumption DEF Init, TypeOK, Attempt, Record, NoRecord, Instant, Scopes
  <1>2. ASSUME NEW a \in Attempts PROVE AttOK(a) /\ LifeOK(a)
    BY Zenon DEF Init, AttOK, LifeOK
  <1>3. ASSUME NEW c \in Scopes, NEW k \in Keys PROVE RecOK(c, k)
    BY Zenon DEF Init, RecOK, NoRecord
  <1>4. OneResourcePerKey
    BY Zenon DEF Init, OneResourcePerKey
  <1> QED BY <1>1, <1>2, <1>3, <1>4, Zenon DEF IInv

-----------------------------------------------------------------------------
(* What every step of an attempt has in common.                            *)

\* Only a moves; its request is fixed, and what it created stays.
Moves(a) ==
    /\ att' \in [Attempts -> Attempt]
    /\ created' \in [Attempts -> Nat \cup {-1}]
    /\ multipart' \in [Attempts -> {"none", "open", "aborted"}]
    /\ \A b \in Attempts \ {a} :
         /\ att'[b] = att[b] /\ created'[b] = created[b] /\ multipart'[b] = multipart[b]
    /\ att[a].pc # "done"
    /\ att[a].pc # "new" => /\ att'[a].scope = att[a].scope
                            /\ att'[a].key = att[a].key
                            /\ att'[a].digest = att[a].digest

Holds(a) == att[a].key # None /\ Rec(a).state = "pending" /\ Rec(a).token = a

\* Nobody leaves a claim behind without releasing it, unless cut short.
Progress(a) ==
    Holds(a) /\ att[a].pc \in Holding
        => att'[a].pc \in Holding \/ (att'[a].pc = "done" /\ att'[a].cut)

\* A step of one attempt changes nothing of what is known of another.
LEMMA OthersOK ==
    ASSUME IInv, NEW a \in Attempts, Moves(a), NEW b \in Attempts, b # a
    PROVE  AttOK(b)'
  <1>1. att'[b] = att[b] /\ created'[b] = created[b] /\ multipart'[b] = multipart[b]
    BY Zenon DEF Moves
  <1>2. AttOK(b)
    BY Zenon DEF IInv
  <1>3. ASSUME NEW x \in Attempts, att[x].pc = "done"
        PROVE  att'[x] = att[x] /\ created'[x] = created[x] /\ multipart'[x] = multipart[x]
    BY <1>3, Zenon DEF Moves
  <1>4. ASSUME NEW x, Matches(b, x) PROVE Matches(b, x)'
    BY <1>1, <1>3, <1>4, Zenon DEF Matches
  <1>5. ASSUME NEW x, Matches(b, x), Usable(x) PROVE Usable(x)'
    BY <1>3, <1>5, Zenon DEF Matches, Usable
  <1>6. Usable(b)' <=> Usable(b)
    BY <1>1, Zenon DEF Usable
  <1> QED BY <1>1, <1>2, <1>4, <1>5, <1>6, Zenon DEF AttOK

\* Steps that touch neither a record nor a resource.
LEMMA KeepRows ==
    ASSUME IInv, NEW a \in Attempts, Moves(a), Progress(a),
           UNCHANGED <<record, life, created>>, AttOK(a)', now' \in 0..MaxNow
    PROVE  IInv'
  <1>1. TypeOK'
    BY Zenon DEF IInv, TypeOK, Moves
  <1>2. ASSUME NEW b \in Attempts PROVE AttOK(b)'
    BY <1>2, OthersOK, Zenon
  <1>3. ASSUME NEW b \in Attempts, created[b] >= 0
        PROVE  /\ att[b].pc # "new"
               /\ att'[b].scope = att[b].scope /\ att'[b].key = att[b].key
    <2>1. att[b].pc # "new"
      BY <1>3 DEF IInv, AttOK
    <2> QED BY <2>1, Zenon DEF Moves
  <1>4. ASSUME NEW b \in Attempts PROVE LifeOK(b)'
    BY <1>3, <1>4, Zenon DEF IInv, LifeOK, Rec
  <1>5. ASSUME NEW c \in Scopes, NEW k \in Keys PROVE RecOK(c, k)'
    <2>1. RecOK(c, k) /\ k # None
      BY NoneAssumption, Zenon DEF IInv
    <2>2. CASE record[c][k].state = "pending"
      <3>1. PICK b \in Attempts : b = record[c][k].token
        BY <2>1, <2>2, Zenon DEF RecOK
      <3>2. b = a => Holds(a)
        BY <2>1, <2>2, <3>1, Zenon DEF RecOK, Holds, Rec
      <3>3. att'[b].pc \in Holding \/ (att'[b].pc = "done" /\ att'[b].cut)
        BY <2>1, <2>2, <3>1, <3>2 DEF RecOK, Moves, Progress
      <3>4. /\ att'[b].scope = c /\ att'[b].key = k
            /\ att'[b].digest = record[c][k].digest
        BY <2>1, <2>2, <3>1 DEF RecOK, Moves, Holding
      <3> QED BY <2>1, <2>2, <3>1, <3>3, <3>4, Zenon DEF RecOK
    <2>3. CASE record[c][k].state = "completed"
      BY <2>1, <2>3 DEF RecOK, Moves
    <2> QED BY <2>2, <2>3, Zenon DEF RecOK
  <1>6. OneResourcePerKey'
    BY <1>3 DEF IInv, OneResourcePerKey
  <1> QED BY <1>1, <1>2, <1>4, <1>5, <1>6, Zenon DEF IInv

-----------------------------------------------------------------------------
(* The steps of an attempt.                                                *)

\* The usual step: a moves to x, and perhaps its multipart upload to m.
LEMMA SetAttMoves ==
    ASSUME IInv, NEW a \in Attempts, NEW x \in Attempt, att' = [att EXCEPT ![a] = x],
           created' = created, att[a].pc # "done",
           att[a].pc # "new" => x.scope = att[a].scope /\ x.key = att[a].key
                                /\ x.digest = att[a].digest,
           NEW m \in {"none", "open", "aborted"}, multipart' = [multipart EXCEPT ![a] = m]
    PROVE  Moves(a) /\ att'[a] = x /\ multipart'[a] = m /\ created'[a] = created[a]
  BY Zenon DEF IInv, TypeOK, Moves

LEMMA AttFields ==
    ASSUME IInv, NEW a \in Attempts
    PROVE  /\ att[a] \in Attempt /\ att[a].scope \in Scopes
           /\ att[a].key \in Keys \cup {None} /\ att[a].digest \in Digests \cup {None}
           /\ att[a].now \in 0..MaxNow /\ att[a].found \in Attempts \cup {None}
           /\ att[a].answer \in Attempts \cup {None} /\ att[a].cut \in BOOLEAN
           /\ multipart[a] \in {"none", "open", "aborted"}
           /\ created[a] \in Nat \cup {-1}
           /\ now \in 0..MaxNow
           /\ AttOK(a)
  BY Zenon DEF IInv, TypeOK, Attempt

\* Only the answers of an attempt that is over are read by others.
LEMMA MatchesKept ==
    ASSUME IInv, NEW a \in Attempts, Moves(a), att[a].pc # "new", NEW x, Matches(a, x)
    PROVE  Matches(a, x)' /\ (Usable(x) => Usable(x)')
  <1>1. x \in Attempts /\ x # a
    BY Zenon DEF Matches, Moves
  <1>2. att'[x] = att[x] /\ created'[x] = created[x] /\ multipart'[x] = multipart[x]
    BY <1>1, Zenon DEF Moves
  <1> QED BY <1>1, <1>2, Zenon DEF Matches, Moves, Usable

LEMMA ArriveOK ==
    ASSUME IInv, NEW a \in Attempts, NEW c \in Scopes, NEW k \in Keys \cup {None},
           NEW d \in Digests, Arrive(a, c, k, d)
    PROVE  IInv'
  <1> DEFINE x == [att[a] EXCEPT !.pc = IF c = "create_upload" THEN "parent" ELSE "clock",
                                 !.scope = c, !.key = k, !.digest = d]
  <1>0. att[a] \in Attempt /\ AttOK(a) /\ now \in 0..MaxNow /\ att[a].pc = "new"
    BY AttFields, Zenon DEF Arrive
  <1>1. /\ x \in Attempt /\ x.pc \in {"parent", "clock"} /\ x.scope = c
        /\ x.pc = "parent" => c = "create_upload"
        /\ x.found = att[a].found /\ x.answer = att[a].answer /\ x.cut = att[a].cut
    BY <1>0, Zenon DEF Attempt
  <1>2. att' = [att EXCEPT ![a] = x] /\ UNCHANGED <<now, record, life, created, multipart>>
    BY Zenon DEF Arrive, SetAtt, rows
  <1> HIDE DEF x
  <1>3. multipart' = [multipart EXCEPT ![a] = multipart[a]]
    BY <1>2, Zenon DEF IInv, TypeOK
  <1>4. Moves(a) /\ att'[a] = x /\ multipart'[a] = multipart[a] /\ created'[a] = created[a]
    <2>1. multipart[a] \in {"none", "open", "aborted"}
      BY AttFields, Zenon
    <2> QED BY <1>0, <1>1, <1>2, <1>3, <2>1, SetAttMoves, Zenon
  <1>5. Progress(a)
    BY <1>0, Zenon DEF Progress, Holding
  <1>6. AttOK(a)'
    BY <1>0, <1>1, <1>4 DEF AttOK
  <1> QED BY <1>0, <1>2, <1>4, <1>5, <1>6, KeepRows, Zenon

\* A step that keeps records and resources, in the form its action gives it.
LEMMA StepTo ==
    ASSUME IInv, NEW a \in Attempts, att[a].pc \notin {"new", "done"},
           NEW x \in Attempt, att' = [att EXCEPT ![a] = x],
           x.scope = att[a].scope, x.key = att[a].key, x.digest = att[a].digest,
           NEW m \in {"none", "open", "aborted"}, multipart' = [multipart EXCEPT ![a] = m],
           UNCHANGED <<now, record, life, created>>,
           Holds(a) /\ att[a].pc \in Holding
               => x.pc \in Holding \/ (x.pc = "done" /\ x.cut),
           (Moves(a) /\ att'[a] = x /\ multipart'[a] = m /\ created'[a] = created[a])
               => AttOK(a)'
    PROVE  IInv'
  <1>1. Moves(a) /\ att'[a] = x /\ multipart'[a] = m /\ created'[a] = created[a]
    BY SetAttMoves, Zenon
  <1>2. Progress(a)
    BY <1>1, Zenon DEF Progress
  <1>3. now' \in 0..MaxNow
    BY Zenon DEF IInv, TypeOK
  <1> QED BY <1>1, <1>2, <1>3, KeepRows, Zenon

LEMMA CheckParentOK ==
    ASSUME IInv, NEW a \in Attempts, NEW active \in BOOLEAN, CheckParent(a, active)
    PROVE  IInv'
  <1> DEFINE x == [att[a] EXCEPT !.pc = IF active THEN "clock" ELSE "done"]
  <1>0. att[a] \in Attempt /\ AttOK(a) /\ att[a].pc = "parent"
    BY AttFields, Zenon DEF CheckParent
  <1>1. /\ x \in Attempt /\ x.pc \in {"clock", "done"}
        /\ x.scope = att[a].scope /\ x.key = att[a].key /\ x.digest = att[a].digest
        /\ x.answer = att[a].answer
    BY <1>0, Zenon DEF Attempt
  <1>2. att' = [att EXCEPT ![a] = x] /\ UNCHANGED <<now, record, life, created, multipart>>
    BY Zenon DEF CheckParent, Goto, SetAtt, rows
  <1> HIDE DEF x
  <1>3. multipart' = [multipart EXCEPT ![a] = "none"]
    BY <1>0, <1>2, Zenon DEF IInv, TypeOK, AttOK
  <1>4. ASSUME att'[a] = x, multipart'[a] = "none", created'[a] = created[a] PROVE AttOK(a)'
    BY <1>0, <1>1, <1>4 DEF AttOK
  <1>5. att[a].pc \notin Holding
    BY <1>0, Zenon DEF Holding
  <1> QED BY <1>0, <1>1, <1>2, <1>3, <1>4, <1>5, StepTo, Zenon

LEMMA ReadClockOK ==
    ASSUME IInv, NEW a \in Attempts, ReadClock(a)
    PROVE  IInv'
  <1> DEFINE x == [att[a] EXCEPT !.now = now,
                                 !.pc = IF att[a].key = None THEN Creating(a) ELSE "claim"]
  <1>0. att[a] \in Attempt /\ AttOK(a) /\ att[a].pc = "clock" /\ now \in 0..MaxNow
    BY AttFields, Zenon DEF ReadClock
  <1>1. /\ x \in Attempt /\ x.pc \in {"claim", "multipart", "create"}
        /\ x.pc = "claim" => att[a].key # None
        /\ x.pc = "multipart" => att[a].scope = "create_upload"
        /\ x.pc = "create" => att[a].scope # "create_upload"
        /\ x.scope = att[a].scope /\ x.key = att[a].key /\ x.digest = att[a].digest
        /\ x.answer = att[a].answer
    BY <1>0, Zenon DEF Attempt, Creating
  <1>2. att' = [att EXCEPT ![a] = x] /\ UNCHANGED <<now, record, life, created, multipart>>
    BY Zenon DEF ReadClock, SetAtt, rows
  <1> HIDE DEF x
  <1>3. multipart' = [multipart EXCEPT ![a] = "none"]
    BY <1>0, <1>2, Zenon DEF IInv, TypeOK, AttOK
  <1>4. ASSUME att'[a] = x, multipart'[a] = "none", created'[a] = created[a] PROVE AttOK(a)'
    BY <1>0, <1>1, <1>4, Zenon DEF AttOK, Usable
  <1>5. att[a].pc \notin Holding
    BY <1>0, Zenon DEF Holding
  <1> QED BY <1>0, <1>1, <1>2, <1>3, <1>4, <1>5, StepTo, Zenon

LEMMA ReplayOK ==
    ASSUME IInv, NEW a \in Attempts, Replay(a)
    PROVE  IInv'
  <1> DEFINE x == [att[a] EXCEPT !.pc = "done", !.answer = att[a].found]
  <1>0. /\ att[a] \in Attempt /\ AttOK(a) /\ att[a].pc = "replay"
        /\ att[a].found \in Attempts \cup {None}
    BY AttFields, Zenon DEF Replay
  <1>1. /\ x \in Attempt /\ x.pc = "done" /\ x.answer = att[a].found
        /\ x.scope = att[a].scope /\ x.key = att[a].key /\ x.digest = att[a].digest
    BY <1>0, Zenon DEF Attempt
  <1>2. att' = [att EXCEPT ![a] = x] /\ UNCHANGED <<now, record, life, created, multipart>>
    BY Zenon DEF Replay, Answer, SetAtt, rows
  <1> HIDE DEF x
  <1>3. multipart' = [multipart EXCEPT ![a] = "none"]
    BY <1>0, <1>2, Zenon DEF IInv, TypeOK, AttOK
  <1>4. PICK b \in Attempts : b = att[a].found
    BY <1>0, Zenon DEF AttOK
  <1>5. Matches(a, b) /\ Usable(b)
    BY <1>0, <1>4, Zenon DEF AttOK, IInv, Matches
  <1>6. ASSUME Moves(a), att'[a] = x, multipart'[a] = "none", created'[a] = created[a]
        PROVE  AttOK(a)'
    <2>1. Matches(a, b)' /\ Usable(b)'
      BY <1>0, <1>5, <1>6, MatchesKept, Zenon
    <2> QED BY <1>0, <1>1, <1>4, <1>6, <2>1 DEF AttOK
  <1>7. att[a].pc \notin Holding
    BY <1>0, Zenon DEF Holding
  <1> QED BY <1>0, <1>1, <1>2, <1>3, <1>6, <1>7, StepTo, Zenon

LEMMA CrashOK ==
    ASSUME IInv, NEW a \in Attempts, Crash(a)
    PROVE  IInv'
  <1> DEFINE x == [att[a] EXCEPT !.pc = "done", !.cut = TRUE]
  <1>0. /\ att[a] \in Attempt /\ AttOK(a) /\ att[a].pc \notin {"new", "done"}
        /\ multipart[a] \in {"none", "open", "aborted"}
    BY AttFields, Zenon DEF Crash
  <1>1. /\ x \in Attempt /\ x.pc = "done" /\ x.answer = att[a].answer /\ x.cut = TRUE
        /\ x.scope = att[a].scope /\ x.key = att[a].key /\ x.digest = att[a].digest
    BY <1>0, Zenon DEF Attempt
  <1>2. att' = [att EXCEPT ![a] = x] /\ UNCHANGED <<now, record, life, created, multipart>>
    BY Zenon DEF Crash, CutShort, SetAtt, rows
  <1> HIDE DEF x
  <1>3. multipart' = [multipart EXCEPT ![a] = multipart[a]]
    BY <1>2, Zenon DEF IInv, TypeOK
  <1>4. ASSUME att'[a] = x, multipart'[a] = multipart[a], created'[a] = created[a]
        PROVE  AttOK(a)'
    BY <1>0, <1>1, <1>4, Zenon DEF AttOK, Usable
  <1> QED BY <1>0, <1>1, <1>2, <1>3, <1>4, StepTo, Zenon

LEMMA CreateMultipartOK ==
    ASSUME IInv, NEW a \in Attempts, CreateMultipart(a)
    PROVE  IInv'
  <1>0. /\ att[a] \in Attempt /\ AttOK(a) /\ att[a].pc = "multipart"
        /\ multipart[a] = "none" /\ created[a] = -1 /\ att[a].scope = "create_upload"
        /\ multipart \in [Attempts -> {"none", "open", "aborted"}]
    BY AttFields, Zenon DEF CreateMultipart, AttOK, IInv, TypeOK
  <1>1. UNCHANGED <<now, record, life, created>>
    BY Zenon DEF CreateMultipart, rows
  <1>2. CASE Goto(a, "create") /\ multipart' = [multipart EXCEPT ![a] = "open"]
    <2> DEFINE x == [att[a] EXCEPT !.pc = "create"]
    <2>1. /\ x \in Attempt /\ x.pc = "create" /\ x.answer = att[a].answer
          /\ x.scope = att[a].scope /\ x.key = att[a].key /\ x.digest = att[a].digest
      BY <1>0, Zenon DEF Attempt
    <2>2. att' = [att EXCEPT ![a] = x]
      BY <1>2, Zenon DEF Goto, SetAtt
    <2> HIDE DEF x
    <2>3. ASSUME att'[a] = x, multipart'[a] = "open", created'[a] = created[a] PROVE AttOK(a)'
      BY <1>0, <2>1, <2>3, Zenon DEF AttOK, Usable
    <2>4. x.pc \in Holding
      BY <2>1, Zenon DEF Holding
    <2> QED BY <1>0, <1>1, <1>2, <2>1, <2>2, <2>3, <2>4, StepTo, Zenon
  <1>3. CASE CutShort(a) /\ multipart' = [multipart EXCEPT ![a] = "open"]
    <2> DEFINE x == [att[a] EXCEPT !.pc = "done", !.cut = TRUE]
    <2>1. /\ x \in Attempt /\ x.pc = "done" /\ x.answer = att[a].answer /\ x.cut = TRUE
          /\ x.scope = att[a].scope /\ x.key = att[a].key /\ x.digest = att[a].digest
      BY <1>0, Zenon DEF Attempt
    <2>2. att' = [att EXCEPT ![a] = x]
      BY <1>3, Zenon DEF CutShort, SetAtt
    <2> HIDE DEF x
    <2>3. ASSUME att'[a] = x, multipart'[a] = "open", created'[a] = created[a] PROVE AttOK(a)'
      BY <1>0, <2>1, <2>3, Zenon DEF AttOK, Usable
    <2> QED BY <1>0, <1>1, <1>3, <2>1, <2>2, <2>3, StepTo, Zenon
  <1>4. CASE /\ Goto(a, IF att[a].key = None THEN "done" ELSE "release")
             /\ UNCHANGED multipart
    <2> DEFINE x == [att[a] EXCEPT !.pc = IF att[a].key = None THEN "done" ELSE "release"]
    <2>1. /\ x \in Attempt /\ x.pc \in {"done", "release"} /\ x.answer = att[a].answer
          /\ x.pc = "release" <=> att[a].key # None
          /\ x.scope = att[a].scope /\ x.key = att[a].key /\ x.digest = att[a].digest
      BY <1>0, Zenon DEF Attempt
    <2>2. att' = [att EXCEPT ![a] = x]
      BY <1>4, Zenon DEF Goto, SetAtt
    <2> HIDE DEF x
    <2>3. multipart' = [multipart EXCEPT ![a] = "none"]
      BY <1>0, <1>4, Zenon
    <2>4. ASSUME att'[a] = x, multipart'[a] = "none", created'[a] = created[a] PROVE AttOK(a)'
      BY <1>0, <2>1, <2>4, Zenon DEF AttOK, Usable
    <2>5. Holds(a) => x.pc \in Holding
      BY <2>1, Zenon DEF Holding, Holds
    <2> QED BY <1>0, <1>1, <2>1, <2>2, <2>3, <2>4, <2>5, StepTo, Zenon
  <1> QED BY <1>2, <1>3, <1>4, Zenon DEF CreateMultipart

LEMMA AbortOK ==
    ASSUME IInv, NEW a \in Attempts, Abort(a)
    PROVE  IInv'
  <1>0. /\ att[a] \in Attempt /\ AttOK(a) /\ att[a].pc = "abort"
        /\ multipart \in [Attempts -> {"none", "open", "aborted"}]
    BY AttFields, Zenon DEF Abort, IInv, TypeOK
  <1>1. PICK ok \in BOOLEAN :
          /\ multipart' = [multipart EXCEPT ![a] = IF ok THEN "aborted" ELSE @]
          /\ SetAtt(a, [att[a] EXCEPT !.pc = IF att[a].key = None THEN "done" ELSE "release",
                                      !.cut = ~ok])
    BY Zenon DEF Abort
  <1> DEFINE x == [att[a] EXCEPT !.pc = IF att[a].key = None THEN "done" ELSE "release",
                                 !.cut = ~ok]
             m == IF ok THEN "aborted" ELSE multipart[a]
  <1>2. /\ x \in Attempt /\ x.pc \in {"done", "release"} /\ x.answer = att[a].answer
        /\ x.pc = "release" <=> att[a].key # None
        /\ x.cut = ~ok
        /\ x.scope = att[a].scope /\ x.key = att[a].key /\ x.digest = att[a].digest
    BY <1>0, Zenon DEF Attempt
  <1>3. att' = [att EXCEPT ![a] = x] /\ UNCHANGED <<now, record, life, created>>
    BY <1>1, Zenon DEF Abort, SetAtt, rows
  <1>4. multipart' = [multipart EXCEPT ![a] = m] /\ m \in {"none", "open", "aborted"}
    BY <1>0, <1>1, Zenon
  <1>5. m = "open" => x.cut
    BY <1>2, Zenon
  <1> HIDE DEF x, m
  <1>6. ASSUME att'[a] = x, multipart'[a] = m, created'[a] = created[a] PROVE AttOK(a)'
    <2>1. /\ att[a].scope = "create_upload" /\ att[a].answer = None
          /\ created[a] = -1 \/ att[a].key = None
      BY <1>0, Zenon DEF AttOK
    <2>2. created[a] \in Nat \cup {-1}
      BY AttFields, Zenon
    <2> QED BY <1>2, <1>5, <1>6, <2>1, <2>2 DEF AttOK, Usable
  <1>7. Holds(a) => x.pc \in Holding
    BY <1>2, Zenon DEF Holding, Holds
  <1> QED BY <1>0, <1>2, <1>3, <1>4, <1>6, <1>7, StepTo, Zenon

-----------------------------------------------------------------------------
(* Steps on the record of the attempt's key.                               *)

\* A record stays right as long as the attempt it names stays where it is.
LEMMA RecStable ==
    ASSUME NEW e, NEW l, NEW r, r = record[e][l], r = record'[e][l], RecOK(e, l),
           r.state = "pending" => att'[r.token] = att[r.token],
           r.state = "completed" => /\ att'[r.resource] = att[r.resource]
                                    /\ created'[r.resource] = created[r.resource]
    PROVE  RecOK(e, l)'
  <1>1. CASE r.state = "pending"
    BY <1>1, Zenon DEF RecOK
  <1>2. CASE r.state = "completed"
    BY <1>2 DEF RecOK
  <1> QED BY <1>1, <1>2, Zenon DEF RecOK

\* The record of a key is replaced, and the life of the key goes on or ends.
Replaces(c, k, r) == record' = [record EXCEPT ![c][k] = r]

EndsCompleted(c, k) ==
    \/ life' = life /\ record[c][k].state # "completed"
    \/ life' = [life EXCEPT ![c][k] = life[c][k] + 1]

\* The record is claimed by a or removed, and the life of the key ends when a
\* completed one goes.
LEMMA RecordStep ==
    ASSUME IInv, NEW a \in Attempts, Moves(a), att[a].pc # "new",
           NEW c \in Scopes, NEW k \in Keys, c = att[a].scope, k = att[a].key,
           NEW r \in Record, Replaces(c, k, r), EndsCompleted(c, k),
           r.state # "completed",
           r.state = "pending" => /\ r.token = a /\ r.digest = att[a].digest
                                  /\ att'[a].pc \in Holding,
           created' = created, now' = now, AttOK(a)'
    PROVE  IInv'
  <1>0. /\ record \in [Scopes -> [Keys -> Record]] /\ life \in [Scopes -> [Keys -> Nat]]
        /\ created \in [Attempts -> Nat \cup {-1}] /\ now \in 0..MaxNow
    BY Zenon DEF IInv, TypeOK
  <1>1. /\ record' \in [Scopes -> [Keys -> Record]] /\ record'[c][k] = r
        /\ \A e \in Scopes, l \in Keys : <<e, l>> # <<c, k>> => record'[e][l] = record[e][l]
    BY <1>0, Zenon DEF Replaces
  <1>2. /\ life' \in [Scopes -> [Keys -> Nat]]
        /\ \A e \in Scopes, l \in Keys : <<e, l>> # <<c, k>> => life'[e][l] = life[e][l]
        /\ \/ life'[c][k] = life[c][k] /\ record[c][k].state # "completed"
           \/ life'[c][k] = life[c][k] + 1
    <2>1. life[c][k] \in Nat /\ life[c][k] + 1 \in Nat
      BY <1>0
    <2>2. CASE life' = life /\ record[c][k].state # "completed"
      BY <1>0, <2>2, Zenon
    <2>3. CASE life' = [life EXCEPT ![c][k] = life[c][k] + 1]
      BY <1>0, <2>1, <2>3, Zenon
    <2> QED BY <2>2, <2>3, Zenon DEF EndsCompleted
  <1>3. TypeOK'
    BY <1>0, <1>1, <1>2, Zenon DEF TypeOK, Moves
  <1>4. ASSUME NEW b \in Attempts PROVE AttOK(b)'
    BY <1>4, OthersOK, Zenon
  <1>5. ASSUME NEW b \in Attempts, created[b] >= 0
        PROVE  att'[b].scope = att[b].scope /\ att'[b].key = att[b].key
    <2>1. att[b].pc = "new" => created[b] = -1
      <3>1. AttOK(b)
        BY Zenon DEF IInv
      <3> QED BY <3>1, Zenon DEF AttOK
    <2>2. att[b].pc # "new"
      BY <1>5, <2>1
    <2> QED BY <2>2, Zenon DEF Moves
  <1>6. ASSUME NEW b \in Attempts PROVE LifeOK(b)'
    <2> SUFFICES ASSUME created[b] >= 0, att'[b].key # None PROVE LifeOK(b)'
      BY Zenon DEF LifeOK
    <2>0. att'[b].scope = att[b].scope /\ att'[b].key = att[b].key
      BY <1>5, Zenon
    <2>1. PICK e \in Scopes, l \in Keys : e = att[b].scope /\ l = att[b].key
      BY <2>0, AttFields, Zenon
    <2>2. /\ created[b] \in Nat /\ life[e][l] \in Nat /\ created[b] <= life[e][l]
          /\ created[b] = life[e][l] => record[e][l].state = "completed"
      <3>1. created[b] \in Nat /\ life[e][l] \in Nat
        BY <1>0
      <3>2. LifeOK(b)
        BY Zenon DEF IInv
      <3> QED BY <2>0, <2>1, <3>1, <3>2, Zenon DEF LifeOK, Rec
    <2>3. /\ created[b] <= life'[e][l]
          /\ created[b] = life'[e][l] => record'[e][l].state = "completed"
      <3>1. CASE <<e, l>> # <<c, k>>
        BY <1>1, <1>2, <2>2, <3>1, Zenon
      <3>2. CASE e = c /\ l = k
        <4>1. created[b] <= life[c][k] /\ life[c][k] \in Nat /\ created[b] \in Nat
          BY <2>2, <3>2, Zenon
        <4>2. CASE life'[c][k] = life[c][k] /\ record[c][k].state # "completed"
          BY <2>2, <3>2, <4>1, <4>2, Zenon
        <4>3. CASE life'[c][k] = life[c][k] + 1
          BY <3>2, <4>1, <4>3
        <4> QED BY <1>2, <4>2, <4>3, Zenon
      <3> QED BY <3>1, <3>2, Zenon
    <2> QED BY <2>0, <2>1, <2>3, Zenon DEF LifeOK, Rec
  <1>7. ASSUME NEW e \in Scopes, NEW l \in Keys PROVE RecOK(e, l)'
    <2>1. CASE e = c /\ l = k
      <3>1. r.state = "pending" => att'[a].scope = c /\ att'[a].key = k
                                   /\ att'[a].digest = r.digest
        BY Zenon DEF Moves
      <3> QED BY <1>1, <2>1, <3>1, Zenon DEF RecOK
    <2>2. CASE <<e, l>> # <<c, k>>
      <3>1. record'[e][l] = record[e][l] /\ RecOK(e, l)
        BY <1>1, <2>2, Zenon DEF IInv
      <3>2. record[e][l].state = "pending" => record[e][l].token # a
        BY <2>2, <3>1, Zenon DEF RecOK
      <3>3. record[e][l].state = "pending"
              => att'[record[e][l].token] = att[record[e][l].token]
        BY <3>1, <3>2, Zenon DEF RecOK, Moves
      <3>4. record[e][l].state = "completed"
              => /\ att'[record[e][l].resource] = att[record[e][l].resource]
                 /\ created'[record[e][l].resource] = created[record[e][l].resource]
        BY <3>1, Zenon DEF RecOK, Moves
      <3> QED BY <3>1, <3>3, <3>4, RecStable, Zenon
    <2> QED BY <2>1, <2>2, Zenon
  <1>8. OneResourcePerKey'
    BY <1>5 DEF IInv, OneResourcePerKey
  <1> QED BY <1>3, <1>4, <1>6, <1>7, <1>8, Zenon DEF IInv

LEMMA ClaimOK ==
    ASSUME IInv, NEW a \in Attempts, Claim(a)
    PROVE  IInv'
  <1>0. /\ att[a] \in Attempt /\ AttOK(a) /\ att[a].pc = "claim" /\ att[a].now \in 0..MaxNow
        /\ multipart[a] = "none" /\ created[a] = -1
        /\ multipart \in [Attempts -> {"none", "open", "aborted"}]
    BY AttFields, Zenon DEF Claim, AttOK, IInv, TypeOK
  <1>1. PICK c \in Scopes, k \in Keys : c = att[a].scope /\ k = att[a].key
    BY <1>0, AttFields, Zenon DEF AttOK
  <1>2. UNCHANGED <<now, created, multipart>> /\ att[a].pc \notin Holding
    BY <1>0, Zenon DEF Claim, Holding
  <1>3. multipart' = [multipart EXCEPT ![a] = "none"]
    BY <1>0, <1>2, Zenon
  <1>4. CASE ClaimIdempotency(a, "claimed") /\ Goto(a, Creating(a))
    <2> DEFINE x == [att[a] EXCEPT !.pc = Creating(a)]
    <2>1. /\ x \in Attempt /\ x.pc \in {"multipart", "create"} /\ x.answer = att[a].answer
          /\ x.pc = "multipart" <=> att[a].scope = "create_upload"
          /\ x.scope = att[a].scope /\ x.key = att[a].key /\ x.digest = att[a].digest
      BY <1>0, Zenon DEF Attempt, Creating
    <2>2. att' = [att EXCEPT ![a] = x]
      BY <1>4, Zenon DEF Goto, SetAtt
    <2> HIDE DEF x
    <2>3. Moves(a) /\ att'[a] = x /\ multipart'[a] = "none" /\ created'[a] = created[a]
      BY <1>0, <1>2, <1>3, <2>1, <2>2, SetAttMoves, Zenon
    <2>4. AttOK(a)'
      BY <1>0, <2>1, <2>3, Zenon DEF AttOK, Usable
    <2>5. PICK r : r = Claimed(a)
      BY Zenon
    <2>6. /\ r \in Record /\ r.state = "pending" /\ r.token = a /\ r.digest = att[a].digest
      <3>1. /\ att[a].now + ClaimTTL \in Instant /\ att[a].now + Retention \in Instant
        BY <1>0, TimeAssumption DEF Instant
      <3>2. att[a].digest \in Digests \cup {None}
        BY AttFields, Zenon
      <3> QED BY <2>5, <3>1, <3>2, Zenon DEF Claimed, Record
    <2>7. Replaces(c, k, r)
      BY <1>1, <1>4, <2>5, Zenon DEF ClaimIdempotency, SetRec, Replaces
    <2>8. EndsCompleted(c, k)
      BY <1>1, <1>4, Zenon DEF ClaimIdempotency, Rec, EndsCompleted
    <2>9. att'[a].pc \in Holding
      BY <2>1, <2>3, Zenon DEF Holding
    <2> QED BY <1>0, <1>1, <1>2, <2>3, <2>4, <2>6, <2>7, <2>8, <2>9, RecordStep, Zenon
  <1>5. CASE /\ ClaimIdempotency(a, "completed")
             /\ SetAtt(a, [att[a] EXCEPT !.pc = "replay", !.found = Rec(a).resource])
    <2>0. PICK b : b = Rec(a).resource
      BY Zenon
    <2>1. Matches(a, b) /\ b # None /\ UNCHANGED <<record, life>>
      <3>1. /\ record[c][k].state = "completed" /\ record[c][k].digest = att[a].digest
            /\ record[c][k].resource = b /\ UNCHANGED <<record, life>>
        BY <1>1, <1>5, <2>0, Zenon DEF ClaimIdempotency, Rec, rows
      <3>2. RecOK(c, k)
        BY Zenon DEF IInv
      <3> QED BY <1>1, <3>1, <3>2, NoneAssumption, Zenon DEF RecOK, Matches
    <2> DEFINE x == [att[a] EXCEPT !.pc = "replay", !.found = b]
    <2>2. /\ x \in Attempt /\ x.pc = "replay" /\ x.answer = att[a].answer /\ x.found = b
          /\ x.scope = att[a].scope /\ x.key = att[a].key /\ x.digest = att[a].digest
      BY <1>0, <2>1, Zenon DEF Attempt, Matches
    <2>3. att' = [att EXCEPT ![a] = x]
      BY <1>5, <2>0, Zenon DEF SetAtt
    <2> HIDE DEF x
    <2>4. ASSUME Moves(a), att'[a] = x, multipart'[a] = "none", created'[a] = created[a]
          PROVE  AttOK(a)'
      <3>1. Matches(a, b)'
        BY <1>0, <2>1, <2>4, MatchesKept, Zenon
      <3>2. att[a].answer = None /\ att[a].key # None /\ created[a] = -1
        BY <1>0, Zenon DEF AttOK
      <3> QED BY <2>1, <2>2, <2>4, <3>1, <3>2 DEF AttOK
    <2> QED BY <1>0, <1>2, <1>3, <2>1, <2>2, <2>3, <2>4, StepTo, Zenon
  <1>6. CASE /\ ClaimIdempotency(a, "conflict") \/ ClaimIdempotency(a, "in_progress")
             /\ Goto(a, "done")
    <2> DEFINE x == [att[a] EXCEPT !.pc = "done"]
    <2>1. /\ x \in Attempt /\ x.pc = "done" /\ x.answer = att[a].answer
          /\ x.scope = att[a].scope /\ x.key = att[a].key /\ x.digest = att[a].digest
      BY <1>0, Zenon DEF Attempt
    <2>2. att' = [att EXCEPT ![a] = x] /\ UNCHANGED <<record, life>>
      BY <1>6, Zenon DEF Goto, SetAtt, ClaimIdempotency, rows
    <2> HIDE DEF x
    <2>3. ASSUME att'[a] = x, multipart'[a] = "none", created'[a] = created[a] PROVE AttOK(a)'
      <3>1. att[a].answer = None /\ created[a] = -1
        BY <1>0, Zenon DEF AttOK
      <3> QED BY <2>1, <2>3, <3>1 DEF AttOK
    <2> QED BY <1>0, <1>2, <1>3, <2>1, <2>2, <2>3, StepTo, Zenon
  <1> QED BY <1>4, <1>5, <1>6, Zenon DEF Claim

LEMMA ReleaseOK ==
    ASSUME IInv, NEW a \in Attempts, Release(a)
    PROVE  IInv'
  <1> DEFINE x == [att[a] EXCEPT !.pc = "done"]
  <1>0. /\ att[a] \in Attempt /\ AttOK(a) /\ att[a].pc = "release"
        /\ multipart[a] \in {"none", "open", "aborted"}
    BY AttFields, Zenon DEF Release
  <1>1. PICK c \in Scopes, k \in Keys : c = att[a].scope /\ k = att[a].key
    BY <1>0, AttFields, Zenon DEF AttOK
  <1>2. /\ x \in Attempt /\ x.pc = "done" /\ x.answer = att[a].answer /\ x.cut = att[a].cut
        /\ x.scope = att[a].scope /\ x.key = att[a].key /\ x.digest = att[a].digest
    BY <1>0, Zenon DEF Attempt
  <1>3. att' = [att EXCEPT ![a] = x] /\ UNCHANGED <<now, created, multipart, life>>
    BY Zenon DEF Release, Goto, SetAtt, ReleaseIdempotency
  <1> HIDE DEF x
  <1>4. multipart' = [multipart EXCEPT ![a] = multipart[a]]
    BY <1>3, Zenon DEF IInv, TypeOK
  <1>5. Moves(a) /\ att'[a] = x /\ multipart'[a] = multipart[a] /\ created'[a] = created[a]
    BY <1>0, <1>2, <1>3, <1>4, SetAttMoves, Zenon
  <1>6. AttOK(a)'
    BY <1>0, <1>2, <1>5, Zenon DEF AttOK, Usable
  <1>7. CASE Owns(a)
    <2>1. PICK r : r = NoRecord
      BY Zenon
    <2>2. r \in Record /\ r.state = "none"
      BY <2>1, TimeAssumption DEF NoRecord, Record, Instant
    <2>3. Replaces(c, k, r)
      BY <1>1, <1>7, <2>1, Zenon DEF Release, ReleaseIdempotency, SetRec, Replaces
    <2>4. EndsCompleted(c, k)
      BY <1>1, <1>3, <1>7, Zenon DEF Owns, Rec, EndsCompleted
    <2> QED BY <1>0, <1>1, <1>3, <1>5, <1>6, <2>2, <2>3, <2>4, RecordStep, Zenon
  <1>8. CASE ~Owns(a)
    <2>1. ~Holds(a)
      <3>1. RecOK(c, k)
        BY Zenon DEF IInv
      <3> QED BY <1>1, <1>8, <3>1, Zenon DEF Holds, Owns, Rec, RecOK
    <2>2. UNCHANGED record
      BY <1>8, Zenon DEF Release, ReleaseIdempotency
    <2> QED BY <1>0, <1>2, <1>3, <1>4, <1>6, <2>1, <2>2, StepTo, Zenon
  <1> QED BY <1>7, <1>8, Zenon

LEMMA DeleteExpiredOK ==
    ASSUME IInv, NEW c \in Scopes, NEW k \in Keys, DeleteExpired(c, k)
    PROVE  IInv'
  <1>0. /\ record \in [Scopes -> [Keys -> Record]] /\ life \in [Scopes -> [Keys -> Nat]]
        /\ created \in [Attempts -> Nat \cup {-1}] /\ life[c][k] \in Nat
    BY Zenon DEF IInv, TypeOK
  <1>1. PICK r : r = NoRecord
    BY Zenon
  <1>2. r \in Record /\ r.state = "none"
    BY <1>1, TimeAssumption DEF NoRecord, Record, Instant
  <1>3. /\ record' = [record EXCEPT ![c][k] = r]
        /\ life' = [life EXCEPT ![c][k] = life[c][k] + 1]
        /\ UNCHANGED <<now, created, multipart, att>>
    BY <1>1, Zenon DEF DeleteExpired
  <1>4. /\ record' \in [Scopes -> [Keys -> Record]] /\ record'[c][k] = r
        /\ \A e \in Scopes, l \in Keys : <<e, l>> # <<c, k>> => record'[e][l] = record[e][l]
    BY <1>0, <1>2, <1>3, Zenon
  <1>5. /\ life' \in [Scopes -> [Keys -> Nat]] /\ life'[c][k] = life[c][k] + 1
        /\ \A e \in Scopes, l \in Keys : <<e, l>> # <<c, k>> => life'[e][l] = life[e][l]
    <2>1. life[c][k] + 1 \in Nat
      BY <1>0
    <2> QED BY <1>0, <1>3, <2>1, Zenon
  <1>6. TypeOK'
    BY <1>3, <1>4, <1>5, Zenon DEF IInv, TypeOK
  <1>7. ASSUME NEW b \in Attempts PROVE AttOK(b)'
    <2>1. AttOK(b)
      BY Zenon DEF IInv
    <2> QED BY <1>3, <2>1, Zenon DEF AttOK, Matches, Usable
  <1>8. ASSUME NEW b \in Attempts PROVE LifeOK(b)'
    <2> SUFFICES ASSUME created[b] >= 0, att[b].key # None PROVE LifeOK(b)'
      BY <1>3, Zenon DEF LifeOK
    <2>1. PICK e \in Scopes, l \in Keys : e = att[b].scope /\ l = att[b].key
      BY AttFields, Zenon
    <2>2. /\ created[b] \in Nat /\ life[e][l] \in Nat /\ created[b] <= life[e][l]
          /\ created[b] = life[e][l] => record[e][l].state = "completed"
      BY <1>0, <2>1 DEF IInv, LifeOK, Rec
    <2>3. /\ created[b] <= life'[e][l]
          /\ created[b] = life'[e][l] => record'[e][l].state = "completed"
      <3>1. CASE <<e, l>> # <<c, k>>
        BY <1>4, <1>5, <2>2, <3>1, Zenon
      <3>2. CASE e = c /\ l = k
        BY <1>5, <2>2, <3>2
      <3> QED BY <3>1, <3>2, Zenon
    <2> QED BY <1>3, <2>1, <2>3, Zenon DEF LifeOK, Rec
  <1>9. ASSUME NEW e \in Scopes, NEW l \in Keys PROVE RecOK(e, l)'
    <2>1. CASE e = c /\ l = k
      BY <1>2, <1>4, <2>1, Zenon DEF RecOK
    <2>2. CASE <<e, l>> # <<c, k>>
      <3>1. record'[e][l] = record[e][l] /\ RecOK(e, l)
        BY <1>4, <2>2, Zenon DEF IInv
      <3> QED BY <1>3, <3>1, RecStable, Zenon
    <2> QED BY <2>1, <2>2, Zenon
  <1>10. OneResourcePerKey'
    BY <1>3, Zenon DEF IInv, OneResourcePerKey
  <1> QED BY <1>6, <1>7, <1>8, <1>9, <1>10, Zenon DEF IInv

-----------------------------------------------------------------------------
(* The transaction that creates the resource.                              *)

\* Where an attempt goes after an error of its transaction.
LEMMA FailureMoves ==
    ASSUME IInv, NEW a \in Attempts, att[a].pc = "create",
           KnownFailure(a) \/ UnknownFailure(a)
    PROVE  \E x \in Attempt :
             /\ att' = [att EXCEPT ![a] = x]
             /\ x.scope = att[a].scope /\ x.key = att[a].key /\ x.digest = att[a].digest
             /\ x.answer = att[a].answer
             /\ \/ x.pc = "abort" /\ att[a].scope = "create_upload"
                \/ /\ x.pc = "release"
                   /\ att[a].scope # "create_upload" /\ att[a].key # None
                \/ /\ x.pc = "done" /\ att[a].scope # "create_upload" /\ att[a].key = None
                \/ x.pc = "done" /\ x.cut
             /\ UnknownFailure(a) /\ att[a].key # None => x.pc = "done" /\ x.cut
             /\ UnknownFailure(a) => x.pc \in {"abort", "done"}
  <1>0. att[a] \in Attempt
    BY AttFields, Zenon
  <1>1. CASE KnownFailure(a) /\ ~UnknownFailure(a)
    <2> DEFINE pc == IF att[a].scope = "create_upload" THEN "abort"
                     ELSE IF att[a].key = None THEN "done" ELSE "release"
               x == [att[a] EXCEPT !.pc = pc]
    <2>1. att' = [att EXCEPT ![a] = x]
      BY <1>1, Zenon DEF KnownFailure, Goto, SetAtt
    <2>2. /\ x \in Attempt /\ x.pc = pc
          /\ x.scope = att[a].scope /\ x.key = att[a].key /\ x.digest = att[a].digest
          /\ x.answer = att[a].answer
      BY <1>0, Zenon DEF Attempt
    <2> QED BY <1>1, <2>1, <2>2, Zenon
  <1>2. CASE UnknownFailure(a) /\ att[a].scope = "create_upload" /\ att[a].key = None
    <2> DEFINE x == [att[a] EXCEPT !.pc = "abort"]
    <2>1. att' = [att EXCEPT ![a] = x]
      BY <1>2, Zenon DEF UnknownFailure, Goto, SetAtt
    <2>2. /\ x \in Attempt /\ x.pc = "abort"
          /\ x.scope = att[a].scope /\ x.key = att[a].key /\ x.digest = att[a].digest
          /\ x.answer = att[a].answer
      BY <1>0, Zenon DEF Attempt
    <2> QED BY <1>2, <2>1, <2>2, Zenon
  <1>3. CASE UnknownFailure(a) /\ ~(att[a].scope = "create_upload" /\ att[a].key = None)
    <2> DEFINE x == [att[a] EXCEPT !.pc = "done", !.cut = TRUE]
    <2>1. att' = [att EXCEPT ![a] = x]
      BY <1>3, Zenon DEF UnknownFailure, CutShort, SetAtt
    <2>2. /\ x \in Attempt /\ x.pc = "done" /\ x.cut = TRUE
          /\ x.scope = att[a].scope /\ x.key = att[a].key /\ x.digest = att[a].digest
          /\ x.answer = att[a].answer
      BY <1>0, Zenon DEF Attempt
    <2> QED BY <1>3, <2>1, <2>2, Zenon
  <1> QED BY <1>1, <1>2, <1>3, Zenon

LEMMA CreateFailsOK ==
    ASSUME IInv, NEW a \in Attempts, att[a].pc = "create",
           KnownFailure(a) \/ UnknownFailure(a),
           UNCHANGED <<now, record, life, created, multipart>>
    PROVE  IInv'
  <1>0. /\ AttOK(a) /\ created[a] = -1 /\ multipart[a] \in {"none", "open", "aborted"}
        /\ att[a].answer = None
    BY AttFields, Zenon DEF AttOK
  <1>1. PICK x \in Attempt :
             /\ att' = [att EXCEPT ![a] = x]
             /\ x.scope = att[a].scope /\ x.key = att[a].key /\ x.digest = att[a].digest
             /\ x.answer = att[a].answer
             /\ \/ x.pc = "abort" /\ att[a].scope = "create_upload"
                \/ /\ x.pc = "release"
                   /\ att[a].scope # "create_upload" /\ att[a].key # None
                \/ /\ x.pc = "done" /\ att[a].scope # "create_upload" /\ att[a].key = None
                \/ x.pc = "done" /\ x.cut
    BY FailureMoves, Zenon
  <1>2. multipart' = [multipart EXCEPT ![a] = multipart[a]]
    BY Zenon DEF IInv, TypeOK
  <1>3. att[a].scope # "create_upload" => multipart[a] # "open"
    BY <1>0, Zenon DEF AttOK
  <1>4. ASSUME att'[a] = x, multipart'[a] = multipart[a], created'[a] = created[a]
        PROVE  AttOK(a)'
    BY <1>0, <1>1, <1>3, <1>4, Zenon DEF AttOK, Usable
  <1>5. Holds(a) => x.pc \in Holding \/ (x.pc = "done" /\ x.cut)
    BY <1>1, Zenon DEF Holds, Holding
  <1> QED BY <1>0, <1>1, <1>2, <1>4, <1>5, StepTo, Zenon

\* The resource of a is made, in the present life of its key.
Creates(a) ==
    created' = [created EXCEPT ![a] = IF att[a].key = None THEN 0
                                      ELSE life[att[a].scope][att[a].key]]

\* The commit: a owns the claim, so nothing was created in this life before.
LEMMA CommitOK ==
    ASSUME IInv, NEW a \in Attempts, att[a].pc = "create", CompleteIdempotency(a),
           Creates(a), UNCHANGED <<now, multipart>>,
           NEW x \in Attempt, att' = [att EXCEPT ![a] = x],
           x.scope = att[a].scope, x.key = att[a].key, x.digest = att[a].digest,
           x.pc = "done" \/ (x.pc = "abort" /\ att[a].key = None
                                            /\ att[a].scope = "create_upload"),
           x.answer = None \/ (x.answer = a /\ x.pc = "done")
    PROVE  IInv'
  <1>0. /\ AttOK(a) /\ created[a] = -1 /\ Usable(a)
        /\ record \in [Scopes -> [Keys -> Record]] /\ life \in [Scopes -> [Keys -> Nat]]
        /\ created \in [Attempts -> Nat \cup {-1}] /\ now \in 0..MaxNow
        /\ multipart \in [Attempts -> {"none", "open", "aborted"}]
        /\ att \in [Attempts -> Attempt]
    BY AttFields, Zenon DEF AttOK, IInv, TypeOK
  <1>1. PICK n \in Nat : /\ created' = [created EXCEPT ![a] = n]
                         /\ att[a].key = None => n = 0
                         /\ att[a].key # None => n = life[att[a].scope][att[a].key]
    <2>1. att[a].key # None => life[att[a].scope][att[a].key] \in Nat
      BY <1>0, AttFields, Zenon
    <2> QED BY <2>1, Zenon DEF Creates
  <1>2. /\ att'[a] = x /\ created'[a] = n /\ multipart'[a] = multipart[a]
        /\ created' \in [Attempts -> Nat \cup {-1}] /\ att' \in [Attempts -> Attempt]
    BY <1>0, <1>1, Zenon
  <1>3. Moves(a)
    BY <1>0, <1>1, <1>2, Zenon DEF Moves
  <1>4. AttOK(a)'
    <2>1. Usable(a)'
      BY <1>0, <1>2, Zenon DEF Usable
    <2>2. x.answer = a => Matches(a, a)'
      BY <1>1, <1>2, NoneAssumption DEF Matches
    <2>3. created'[a] >= 0 /\ att'[a] = x /\ multipart'[a] = multipart[a]
      BY <1>1, <1>2
    <2>4. att[a].scope # "create_upload" => multipart[a] = "none"
      BY <1>0, Zenon DEF AttOK
    <2> QED BY <2>1, <2>2, <2>3, <2>4 DEF AttOK
  <1>5. ASSUME NEW b \in Attempts PROVE AttOK(b)'
    BY <1>3, <1>4, <1>5, OthersOK, Zenon
  <1>6. ASSUME NEW b \in Attempts \ {a}
        PROVE  att'[b] = att[b] /\ created'[b] = created[b]
    BY <1>3, Zenon DEF Moves
  <1>7. CASE att[a].key = None
    <2>1. UNCHANGED <<record, life>>
      BY <1>7, Zenon DEF CompleteIdempotency, rows
    <2>2. TypeOK'
      BY <1>0, <1>2, <2>1, Zenon DEF IInv, TypeOK
    <2>3. ASSUME NEW b \in Attempts PROVE LifeOK(b)'
      <3>1. CASE b = a
        BY <1>2, <1>7, <3>1, Zenon DEF LifeOK
      <3>2. CASE b # a
        <4>1. LifeOK(b) /\ att'[b] = att[b] /\ created'[b] = created[b]
          BY <1>6, <3>2, Zenon DEF IInv
        <4> QED BY <2>1, <4>1, Zenon DEF LifeOK, Rec
      <3> QED BY <3>1, <3>2, Zenon
    <2>4. ASSUME NEW e \in Scopes, NEW l \in Keys PROVE RecOK(e, l)'
      <3>1. RecOK(e, l) /\ l # None
        BY NoneAssumption, Zenon DEF IInv
      <3>2. record[e][l].state = "pending" => record[e][l].token \in Attempts \ {a}
        BY <1>7, <3>1, Zenon DEF RecOK
      <3>3. record[e][l].state = "completed" => record[e][l].resource \in Attempts \ {a}
        BY <1>7, <3>1, Zenon DEF RecOK
      <3> QED BY <1>6, <2>1, <3>1, <3>2, <3>3, RecStable, Zenon
    <2>5. OneResourcePerKey'
      BY <1>2, <1>6, <1>7 DEF IInv, OneResourcePerKey
    <2> QED BY <1>5, <2>2, <2>3, <2>4, <2>5, Zenon DEF IInv
  <1>8. CASE att[a].key # None
    <2>1. PICK c \in Scopes, k \in Keys : c = att[a].scope /\ k = att[a].key
      BY <1>8, AttFields, Zenon
    <2>2. /\ record[c][k].state = "pending" /\ record[c][k].token = a
          /\ record[c][k].digest = att[a].digest /\ UNCHANGED life
      BY <1>8, <2>1, Zenon DEF CompleteIdempotency, Owns, Rec
    <2>3. PICK r : r = [record[c][k] EXCEPT !.state = "completed", !.token = None,
                                            !.resource = a, !.locked = 0]
      BY Zenon
    <2>4. /\ r \in Record /\ r.state = "completed" /\ r.resource = a
          /\ r.digest = att[a].digest
      <3>1. record[c][k] \in Record /\ 0 \in Instant
        BY <1>0, TimeAssumption DEF Instant
      <3> QED BY <2>2, <2>3, <3>1, Zenon DEF Record
    <2>5. record' = [record EXCEPT ![c][k] = r]
      BY <1>8, <2>1, <2>3, Zenon DEF CompleteIdempotency, SetRec, Rec
    <2>6. /\ record' \in [Scopes -> [Keys -> Record]] /\ record'[c][k] = r
          /\ \A e \in Scopes, l \in Keys : <<e, l>> # <<c, k>> => record'[e][l] = record[e][l]
      BY <1>0, <2>4, <2>5, Zenon
    <2>7. TypeOK'
      BY <1>0, <1>2, <2>2, <2>6, Zenon DEF TypeOK
    <2>8. ASSUME NEW b \in Attempts \ {a}, created[b] >= 0, att[b].scope = c, att[b].key = k
          PROVE  created[b] # n
      <3>1. LifeOK(b)
        BY Zenon DEF IInv
      <3>2. created[b] # life[c][k]
        BY <2>1, <2>2, <2>8, <3>1, NoneAssumption, Zenon DEF LifeOK, Rec
      <3> QED BY <1>1, <1>8, <2>1, <3>2, Zenon
    <2>9. ASSUME NEW b \in Attempts PROVE LifeOK(b)'
      <3>1. CASE b = a
        <4>1. /\ created'[a] = life'[c][k] /\ life'[c][k] \in Nat
              /\ att'[a].scope = c /\ att'[a].key = k
          BY <1>0, <1>1, <1>2, <1>8, <2>1, <2>2, Zenon
        <4>2. record'[c][k].state = "completed"
          BY <2>4, <2>6, Zenon
        <4> QED BY <3>1, <4>1, <4>2 DEF LifeOK, Rec
      <3>2. CASE b # a /\ created[b] >= 0 /\ att[b].key # None
        <4>1. PICK e \in Scopes, l \in Keys : e = att[b].scope /\ l = att[b].key
          BY <3>2, AttFields, Zenon
        <4>2. /\ created[b] <= life[e][l]
              /\ created[b] = life[e][l] => record[e][l].state = "completed"
          BY <3>2, <4>1, Zenon DEF IInv, LifeOK, Rec
        <4>3. created[b] = life[e][l] => record'[e][l].state = "completed"
          BY <2>4, <2>6, <4>2, Zenon
        <4> QED BY <1>6, <2>2, <3>2, <4>1, <4>2, <4>3 DEF LifeOK, Rec
      <3>3. CASE b # a /\ ~(created[b] >= 0 /\ att[b].key # None)
        BY <1>6, <3>3, Zenon DEF LifeOK
      <3> QED BY <3>1, <3>2, <3>3, Zenon
    <2>10. ASSUME NEW e \in Scopes, NEW l \in Keys PROVE RecOK(e, l)'
      <3>1. CASE e = c /\ l = k
        <4>1. /\ att'[a].pc = "done" /\ att'[a].scope = c /\ att'[a].key = k
              /\ att'[a].digest = r.digest
          BY <1>2, <1>8, <2>1, <2>4, Zenon
        <4>3. created'[a] >= 0
          BY <1>1, <1>2
        <4>2. record'[e][l] = r
          BY <2>6, <3>1, Zenon
        <4> QED BY <2>4, <3>1, <4>1, <4>2, <4>3, Zenon DEF RecOK
      <3>2. CASE <<e, l>> # <<c, k>>
        <4>1. record'[e][l] = record[e][l] /\ RecOK(e, l)
          BY <2>6, <3>2, Zenon DEF IInv
        <4>2. record[e][l].state = "pending" => record[e][l].token \in Attempts \ {a}
          BY <2>1, <3>2, <4>1, Zenon DEF RecOK
        <4>3. record[e][l].state = "completed" => record[e][l].resource \in Attempts \ {a}
          BY <2>1, <3>2, <4>1, Zenon DEF RecOK
        <4> QED BY <1>6, <4>1, <4>2, <4>3, RecStable, Zenon
      <3> QED BY <3>1, <3>2, Zenon
    <2>11. OneResourcePerKey'
      <3>1. OneResourcePerKey
        BY Zenon DEF IInv
      <3>2. /\ created'[a] = n /\ att'[a].scope = c /\ att'[a].key = k
        BY <1>2, <2>1, Zenon
      <3> QED BY <1>6, <2>8, <3>1, <3>2 DEF OneResourcePerKey
    <2> QED BY <1>5, <2>7, <2>9, <2>10, <2>11, Zenon DEF IInv
  <1> QED BY <1>7, <1>8, Zenon

LEMMA CreateOK ==
    ASSUME IInv, NEW a \in Attempts, Create(a)
    PROVE  IInv'
  <1>0. /\ att[a].pc = "create" /\ UNCHANGED <<now, multipart>>
        /\ att[a] \in Attempt /\ att[a].answer = None
    BY AttFields, Zenon DEF Create, AttOK
  <1>1. CASE (KnownFailure(a) \/ UnknownFailure(a)) /\ UNCHANGED <<record, life, created>>
    BY <1>0, <1>1, CreateFailsOK, Zenon
  <1> DEFINE Committed ==
        /\ CompleteIdempotency(a)
        /\ created' = [created EXCEPT ![a] = IF att[a].key = None THEN 0
                                             ELSE life[att[a].scope][att[a].key]]
  <1>2. CASE Committed /\ Answer(a, a)
    <2> DEFINE x == [att[a] EXCEPT !.pc = "done", !.answer = a]
    <2>1. att' = [att EXCEPT ![a] = x]
      BY <1>2, Zenon DEF Answer, SetAtt
    <2>2. /\ x \in Attempt /\ x.pc = "done" /\ x.answer = a
          /\ x.scope = att[a].scope /\ x.key = att[a].key /\ x.digest = att[a].digest
      BY <1>0, Zenon DEF Attempt
    <2> HIDE DEF x
    <2> QED BY <1>0, <1>2, <2>1, <2>2, CommitOK, Zenon DEF Creates
  <1>3. CASE Committed /\ UnknownFailure(a)
    <2>1. PICK x \in Attempt :
             /\ att' = [att EXCEPT ![a] = x]
             /\ x.scope = att[a].scope /\ x.key = att[a].key /\ x.digest = att[a].digest
             /\ x.answer = att[a].answer
             /\ \/ x.pc = "abort" /\ att[a].scope = "create_upload"
                \/ /\ x.pc = "release"
                   /\ att[a].scope # "create_upload" /\ att[a].key # None
                \/ /\ x.pc = "done" /\ att[a].scope # "create_upload" /\ att[a].key = None
                \/ x.pc = "done" /\ x.cut
             /\ att[a].key # None => x.pc = "done" /\ x.cut
             /\ x.pc \in {"abort", "done"}
      BY <1>0, <1>3, FailureMoves, Zenon
    <2> QED BY <1>0, <1>3, <2>1, CommitOK, Zenon DEF Creates
  <1> QED BY <1>1, <1>2, <1>3, Zenon DEF Create, rows

\* The invariant does not depend on the clock.
LEMMA TimeOnly ==
    ASSUME IInv, UNCHANGED <<record, life, created, multipart, att>>, now' \in 0..MaxNow
    PROVE  IInv'
  <1>1. TypeOK'
    BY Zenon DEF IInv, TypeOK
  <1>2. ASSUME NEW a \in Attempts PROVE AttOK(a)'
    <2>1. AttOK(a)
      BY Zenon DEF IInv
    <2> QED BY <2>1, Zenon DEF AttOK, Matches, Usable
  <1>3. ASSUME NEW a \in Attempts PROVE LifeOK(a)'
    <2>1. LifeOK(a)
      BY Zenon DEF IInv
    <2> QED BY <2>1, Zenon DEF LifeOK, Rec
  <1>4. ASSUME NEW c \in Scopes, NEW k \in Keys PROVE RecOK(c, k)'
    <2>1. RecOK(c, k)
      BY Zenon DEF IInv
    <2> QED BY <2>1, RecStable, Zenon
  <1>5. OneResourcePerKey'
    BY Zenon DEF IInv, OneResourcePerKey
  <1> QED BY <1>1, <1>2, <1>3, <1>4, <1>5, Zenon DEF IInv

LEMMA TickOK == ASSUME IInv, Tick PROVE IInv'
  <1>1. now' \in 0..MaxNow /\ UNCHANGED <<record, life, created, multipart, att>>
    BY TimeAssumption DEF IInv, TypeOK, Tick, rows
  <1> QED BY <1>1, TimeOnly, Zenon

-----------------------------------------------------------------------------
(* The theorems.                                                           *)

\* IInv is an inductive invariant of the creation protocol.
THEOREM Invariance == Spec => []IInv
  <1>1. IInv /\ [Next]_vars => IInv'
    <2> SUFFICES ASSUME IInv, [Next]_vars PROVE IInv'
      BY Zenon
    <2>1. CASE UNCHANGED vars
      <3>1. UNCHANGED <<record, life, created, multipart, att>> /\ now' \in 0..MaxNow
        BY <2>1, Zenon DEF vars, rows, IInv, TypeOK
      <3> QED BY <3>1, TimeOnly, Zenon
    <2>2. ASSUME NEW a \in Attempts, NEW c \in Scopes, NEW k \in Keys \cup {None},
                 NEW d \in Digests, Arrive(a, c, k, d)
          PROVE  IInv'
      BY <2>2, ArriveOK, Zenon
    <2>3. ASSUME NEW a \in Attempts, Step(a) PROVE IInv'
      BY Zenon, <2>3, CheckParentOK, ReadClockOK, ClaimOK, ReplayOK, CreateMultipartOK, CreateOK,
         AbortOK, ReleaseOK, CrashOK DEF Step
    <2>4. ASSUME NEW c \in Scopes, NEW k \in Keys, DeleteExpired(c, k) PROVE IInv'
      BY <2>4, DeleteExpiredOK, Zenon
    <2>5. CASE Tick
      BY <2>5, TickOK, Zenon
    <2> QED BY <2>1, <2>2, <2>3, <2>4, <2>5, Zenon DEF Next
  <1> QED BY <1>1, InitOK, PTL DEF Spec

\* Every variable keeps its type: no branch of the handlers or of the record
\* transactions writes a state the schema does not admit.
THEOREM CreationTypeCorrect == Spec => []TypeOK
  <1>1. IInv => TypeOK
    BY Zenon DEF IInv
  <1> QED BY <1>1, Invariance, PTL

\* One resource per key and life of its record, for any number of retries:
\* a commit needs the pending claim of its own attempt, and a claim is never
\* renewed over a completed record that has not expired.
THEOREM OneCreation == Spec => []OneResourcePerKey
  <1>1. IInv => OneResourcePerKey
    BY Zenon DEF IInv
  <1> QED BY <1>1, Invariance, PTL

\* A replay answers with the resource of an equal request.
THEOREM ReplayIsRight == Spec => []AnswerIsOfThisRequest
  <1>1. IInv => AnswerIsOfThisRequest
    BY Zenon DEF IInv, AttOK, Matches, AnswerIsOfThisRequest
  <1> QED BY <1>1, Invariance, PTL

\* No failure path aborts the multipart upload of a session that is answered.
THEOREM AnsweredIsUsable == Spec => []AnsweredUploadUsable
  <1>1. IInv => AnsweredUploadUsable
    BY Zenon DEF IInv, AttOK, Usable, AnsweredUploadUsable
  <1> QED BY <1>1, Invariance, PTL

\* An attempt that ends by itself cleans up and gives its claim back.
THEOREM NothingLeft == Spec => []FinishedLeavesNothing
  <1>1. ASSUME IInv, NEW a \in Attempts, att[a].pc = "done", ~att[a].cut
        PROVE  /\ multipart[a] = "open" => created[a] >= 0
               /\ ~(att[a].key # None /\ Rec(a).state = "pending" /\ Rec(a).token = a)
    <2>0. AttOK(a) /\ created[a] \in Nat \cup {-1}
      BY <1>1, AttFields, Zenon DEF IInv
    <2>1. multipart[a] = "open" => created[a] >= 0
      BY <1>1, <2>0 DEF AttOK
    <2>2. ASSUME att[a].key # None, Rec(a).state = "pending", Rec(a).token = a PROVE FALSE
      <3>1. PICK c \in Scopes, k \in Keys : c = att[a].scope /\ k = att[a].key
        BY <1>1, <2>2, AttFields, Zenon
      <3>2. RecOK(c, k)
        BY <1>1, Zenon DEF IInv
      <3> QED BY <1>1, <2>2, <3>1, <3>2, Zenon DEF RecOK, Rec, Holding
    <2> QED BY <2>1, <2>2, Zenon
  <1>2. IInv => FinishedLeavesNothing
    BY <1>1, Zenon DEF FinishedLeavesNothing
  <1> QED BY <1>2, Invariance, PTL
=============================================================================
