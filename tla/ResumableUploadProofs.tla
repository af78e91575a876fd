----------------------- MODULE ResumableUploadProofs -----------------------
\* Proofs about resumed uploads (ResumableUpload), for any files, tabs, parts,
\* reloads and attempts. The object is a frozen list, a frozen list is what a tab
\* submitted, and what a tab submits is of one file because the parts it counts as
\* done, sent by itself in this page load or proved by storage, are its file's.
EXTENDS ResumableUpload, TLAPS

Single(list) == \E f \in Files : \A i \in Parts : list[i] = f

PutTypes == [tab : Tabs, load : 0 .. MaxReloads, part : Parts, content : Files]
CallTypes == [list : Lists, begun : BOOLEAN]
TabTypes == [pc : Ended \cup {"row", "recorded", "pages", "sending", "submit", "completing"},
             load : 0 .. MaxReloads, file : Files, seen : Statuses \cup {""}, next : 1 .. NParts + 1,
             done : [Parts -> Files \cup {None}], tries : 0 .. MaxTries]

\* A call has a list of one file; once it has begun that list is the frozen one.
CallOK(c, fr) == Single(c.list) /\ (c.begun => fr = c.list)

\* What a tab x has as done is its file's, until it is the whole of it or the frozen list.
TabOK(x, fr) ==
    /\ x.pc \in {"row", "recorded", "pages", "sending"} => \A i \in Parts : x.done[i] \in {None, x.file}
    /\ x.pc \in {"submit", "completing"} =>
          /\ x.done \in Lists
          /\ x.done = fr \/ \A i \in Parts : x.done[i] = x.file

\* A part on its way is of an earlier page load, or of the file the tab has now.
PutOK(p, x) ==
    /\ p.load <= x.load
    /\ p.load = x.load => x.pc # "closed" /\ p.content = x.file

SessionOK ==
    /\ status \in Statuses
    /\ backend \in Backends
    /\ elapsed \in BOOLEAN /\ open \in BOOLEAN
    /\ frozen \in Lists \cup {None}
    /\ signed \in [Parts -> Files \cup {None}]
    /\ stored \in [Parts -> Seq(Files)]
    /\ object \in Lists \cup {None}
    /\ frozen # None <=> status \in {"completing", "committed", "failed"}
    /\ object # None => ~open /\ object = frozen
    /\ frozen # None => Single(frozen)

CallsOK ==
    /\ calls \in SUBSET CallTypes
    /\ \A c \in calls : CallOK(c, frozen)

TabsOK ==
    /\ tab \in [Tabs -> TabTypes]
    /\ \A t \in Tabs : TabOK(tab[t], frozen)

PutsOK ==
    /\ puts \in SUBSET PutTypes
    /\ sent \in 0 .. MaxPuts
    /\ \A p \in puts : PutOK(p, tab[p.tab])

IInv == SessionOK /\ CallsOK /\ TabsOK /\ PutsOK

LEMMA Bounds ==
    /\ NParts \in Nat /\ NParts >= 1 /\ MaxReloads \in Nat /\ MaxPuts \in Nat /\ MaxTries \in Nat
    /\ None \notin Files /\ None \notin Lists
    /\ Nothing \in [Parts -> Files \cup {None}] /\ \A i \in Parts : Nothing[i] = None
  BY ResumeAssumption DEF Lists, Nothing

\* The shape of a page just opened.
LEMMA NewTabOK ==
    ASSUME NEW pc \in {"closed", "row", "sending"}, NEW f \in Files, NEW load \in 0 .. MaxReloads, NEW fr
    PROVE  /\ NewTab(pc, f) \in TabTypes /\ TabOK(NewTab(pc, f), fr)
           /\ LET x == [NewTab(pc, f) EXCEPT !.load = load] IN
              x \in TabTypes /\ TabOK(x, fr) /\ x.load = load /\ x.pc = pc
  <1> DEFINE n == NewTab(pc, f)
             x == [n EXCEPT !.load = load]
  <1>0. 0 \in 0 .. MaxReloads /\ 0 \in 0 .. MaxTries /\ 1 \in 1 .. NParts + 1
    BY Bounds
  <1>1. n \in TabTypes /\ n.pc = pc /\ n.done = Nothing
    BY <1>0, Bounds, Zenon DEF NewTab, TabTypes, Ended
  <1> HIDE DEF n
  <1>2. x \in TabTypes /\ x.load = load /\ x.pc = pc /\ x.done = Nothing
    BY <1>1, Zenon DEF TabTypes
  <1> HIDE DEF x
  <1>3. TabOK(x, fr) /\ TabOK(n, fr)
    BY <1>1, <1>2, Bounds, Zenon DEF TabOK
  <1> QED BY <1>1, <1>2, <1>3, Zenon DEF x, n

LEMMA InitOK == Init => IInv
  <1> SUFFICES ASSUME Init PROVE IInv
    BY Zenon
  <1> PICK first \in Tabs, f \in Files :
          tab = [t \in Tabs |-> NewTab(IF t = first THEN "sending" ELSE "closed", f)]
    BY Zenon DEF Init
  <1>1. SessionOK
    <2>1. frozen = None /\ status = "uploading" /\ object = None /\ elapsed = FALSE /\ open = TRUE
      BY Zenon DEF Init
    <2>2. backend \in Backends /\ signed \in [Parts -> Files \cup {None}] /\ stored \in [Parts -> Seq(Files)]
      BY Bounds DEF Init
    <2> QED BY <2>1, <2>2, Zenon DEF SessionOK, Statuses
  <1>2. CallsOK /\ PutsOK
    BY Bounds DEF Init, CallsOK, PutsOK
  <1>3. ASSUME NEW pc \in {"closed", "sending"}
        PROVE  NewTab(pc, f) \in TabTypes /\ TabOK(NewTab(pc, f), frozen)
    <2>1. 0 \in 0 .. MaxReloads
      BY Bounds
    <2> QED BY <2>1, NewTabOK, Zenon
  <1>4. TabsOK
    BY <1>3, Zenon DEF TabsOK
  <1> QED BY <1>1, <1>2, <1>4, Zenon DEF IInv

-----------------------------------------------------------------------------
\* A tab's step.

\* Tab t becomes x, and the parts on their way still fit it.
LEMMA SetTabOK ==
    ASSUME TabsOK, PutsOK, NEW t \in Tabs, NEW x \in TabTypes, SetTab(t, x), TabOK(x, frozen),
           UNCHANGED <<frozen, puts, sent>>,
           \A p \in puts : p.tab = t /\ PutOK(p, tab[t]) => PutOK(p, x)
    PROVE  TabsOK' /\ PutsOK'
  <1>1. tab' \in [Tabs -> TabTypes] /\ tab'[t] = x /\ \A u \in Tabs \ {t} : tab'[u] = tab[u]
    BY Zenon DEF SetTab, TabsOK
  <1>2. \A u \in Tabs : TabOK(tab'[u], frozen')
    BY <1>1, Zenon DEF TabsOK
  <1>3. ASSUME NEW p \in puts PROVE p.tab \in Tabs /\ PutOK(p, tab'[p.tab])
    BY <1>1, Zenon DEF PutsOK, PutTypes
  <1> QED BY <1>1, <1>2, <1>3, Zenon DEF TabsOK, PutsOK

\* The same page moves on.
LEMMA PageOK ==
    ASSUME TabsOK, PutsOK, NEW t \in Tabs, NEW x \in TabTypes, SetTab(t, x), TabOK(x, frozen),
           UNCHANGED <<frozen, puts, sent>>, x.load = tab[t].load, x.file = tab[t].file, x.pc # "closed"
    PROVE  TabsOK' /\ PutsOK'
  BY SetTabOK DEF PutOK

LEMMA TabTyped ==
    ASSUME TabsOK, NEW t \in Tabs
    PROVE  /\ tab[t] \in TabTypes /\ TabOK(tab[t], frozen)
           /\ tab[t].load \in 0 .. MaxReloads /\ tab[t].file \in Files
           /\ tab[t].next \in 1 .. NParts + 1 /\ tab[t].tries \in 0 .. MaxTries
           /\ tab[t].done \in [Parts -> Files \cup {None}]
  BY Zenon DEF TabsOK, TabTypes

LEMMA GotoOK ==
    ASSUME TabsOK, PutsOK, NEW t \in Tabs, UNCHANGED <<frozen, puts, sent>>,
           NEW pc \in {"done", "failed", "recorded", "pages", "sending", "submit", "completing"}, Goto(t, pc),
           TabOK([tab[t] EXCEPT !.pc = pc], frozen)
    PROVE  TabsOK' /\ PutsOK'
  <1> DEFINE x == [tab[t] EXCEPT !.pc = pc]
  <1>1. x \in TabTypes /\ x.load = tab[t].load /\ x.file = tab[t].file /\ x.pc = pc
    BY TabTyped, Zenon DEF TabTypes, Ended
  <1>2. SetTab(t, x) /\ TabOK(x, frozen)
    BY Zenon DEF Goto
  <1> HIDE DEF x
  <1> QED BY <1>1, <1>2, PageOK, Zenon

\* Ways to go that ask nothing of the parts done.
LEMMA GotoFine ==
    ASSUME TabsOK, PutsOK, NEW t \in Tabs, UNCHANGED <<frozen, puts, sent>>, NEW pc, Goto(t, pc),
           \/ pc \in {"done", "failed"}
           \/ tab[t].pc \in {"row", "recorded", "pages"} /\ pc \in {"recorded", "pages", "sending"}
           \/ tab[t].pc = "completing" /\ pc = "submit"
    PROVE  TabsOK' /\ PutsOK'
  <1> DEFINE x == [tab[t] EXCEPT !.pc = pc]
  <1>1. x.pc = pc /\ x.done = tab[t].done /\ x.file = tab[t].file
    BY TabTyped, Zenon DEF TabTypes
  <1> HIDE DEF x
  <1>2. TabOK(x, frozen)
    BY <1>1, TabTyped, Zenon DEF TabOK
  <1> QED BY <1>2, GotoOK, Zenon DEF x

\* The session and the calls do not move.
LEMMA Still ==
    ASSUME IInv, UNCHANGED <<session, storage, calls>>
    PROVE  SessionOK' /\ CallsOK'
  BY Zenon DEF IInv, SessionOK, CallsOK, session, storage

LEMMA ResumeOK ==
    ASSUME IInv, NEW t \in Tabs, NEW f \in Files, Resume(t, f)
    PROVE  IInv'
  <1> DEFINE x == [NewTab("row", f) EXCEPT !.load = tab[t].load]
  <1>1. x \in TabTypes /\ TabOK(x, frozen) /\ x.load = tab[t].load /\ x.pc = "row"
    <2>1. tab[t].load \in 0 .. MaxReloads
      BY TabTyped, Zenon DEF IInv
    <2> QED BY <2>1, NewTabOK
  <1>2. SetTab(t, x) /\ tab[t].pc = "closed" /\ UNCHANGED <<session, storage, network>>
    BY Zenon DEF Resume
  <1> HIDE DEF x
  <1>3. \A p \in puts : PutOK(p, tab[t]) => PutOK(p, x)
    BY <1>1, <1>2, Zenon DEF PutOK
  <1> QED BY <1>1, <1>2, <1>3, SetTabOK, Still, Zenon DEF IInv, session, network

LEMMA ReloadOK ==
    ASSUME IInv, NEW t \in Tabs, Reload(t)
    PROVE  IInv'
  <1> DEFINE x == [tab[t] EXCEPT !.pc = "closed", !.load = @ + 1]
  <1>0. tab[t].load < MaxReloads /\ tab[t].load \in 0 .. MaxReloads /\ tab[t].load + 1 \in 0 .. MaxReloads
    BY TabTyped, Bounds DEF Reload, IInv
  <1>1. x \in TabTypes /\ x.load = tab[t].load + 1 /\ x.pc = "closed"
    BY <1>0, TabTyped, Zenon DEF TabTypes, Ended, IInv
  <1>2. SetTab(t, x) /\ UNCHANGED <<session, storage, network>>
    BY Zenon DEF Reload
  <1> HIDE DEF x
  <1>3. TabOK(x, frozen)
    BY <1>1, Zenon DEF TabOK
  <1>4. ASSUME NEW p \in puts, PutOK(p, tab[t]) PROVE PutOK(p, x)
    <2>1. p.load \in 0 .. MaxReloads
      BY Zenon DEF IInv, PutsOK, PutTypes
    <2> QED BY <1>0, <1>1, <1>4, <2>1, Bounds DEF PutOK
  <1> QED BY <1>1, <1>2, <1>3, <1>4, SetTabOK, Still, Zenon DEF IInv, session, network

LEMMA ReadRowOK ==
    ASSUME IInv, NEW t \in Tabs, ReadRow(t)
    PROVE  IInv'
  <1>1. PICK pc \in {"failed", "done", "recorded"} : SetTab(t, [tab[t] EXCEPT !.seen = status, !.pc = pc])
    BY Zenon DEF ReadRow, IInv, SessionOK, Statuses
  <1> DEFINE x == [tab[t] EXCEPT !.seen = status, !.pc = pc]
  <1>2. tab[t].pc = "row" /\ UNCHANGED <<session, storage, network>>
    BY Zenon DEF ReadRow
  <1>6. status \in Statuses
    BY Zenon DEF IInv, SessionOK
  <1>3. /\ x \in TabTypes /\ x.load = tab[t].load /\ x.file = tab[t].file /\ x.pc = pc
        /\ x.done = tab[t].done
    BY <1>6, TabTyped, Zenon DEF TabTypes, Ended, IInv
  <1>4. SetTab(t, x)
    BY <1>1, Zenon
  <1> HIDE DEF x
  <1>5. TabOK(x, frozen)
    BY <1>2, <1>3, TabTyped, Zenon DEF TabOK, IInv
  <1> QED BY <1>2, <1>3, <1>4, <1>5, PageOK, Still, Zenon DEF IInv, session, network

LEMMA ReadRecordedOK ==
    ASSUME IInv, NEW t \in Tabs, ReadRecorded(t)
    PROVE  IInv'
  <1>0. tab[t].pc = "recorded" /\ UNCHANGED <<session, storage, network>>
    BY Zenon DEF ReadRecorded
  <1>1. CASE frozen # None /\ SetTab(t, [tab[t] EXCEPT !.done = frozen, !.pc = "submit"])
    <2> DEFINE x == [tab[t] EXCEPT !.done = frozen, !.pc = "submit"]
    <2>1. frozen \in Lists /\ frozen \in [Parts -> Files \cup {None}]
      BY <1>1, Zenon DEF IInv, SessionOK, Lists
    <2>2. /\ x \in TabTypes /\ x.load = tab[t].load /\ x.file = tab[t].file /\ x.pc = "submit"
          /\ x.done = frozen
      BY <2>1, TabTyped, Zenon DEF TabTypes, IInv
    <2>3. SetTab(t, x)
      BY <1>1, Zenon
    <2> HIDE DEF x
    <2>4. TabOK(x, frozen)
      BY <2>1, <2>2, Zenon DEF TabOK
    <2> QED BY <1>0, <2>2, <2>3, <2>4, PageOK, Still, Zenon DEF IInv, session, network
  <1>2. CASE Goto(t, "sending") \/ Goto(t, "pages")
    BY <1>0, <1>2, GotoFine, Still, Zenon DEF IInv, session, network
  <1> QED BY <1>1, <1>2, Zenon DEF ReadRecorded

\* A part storage proves to be the file's is the file's.
LEMMA ProofOK ==
    ASSUME IInv, NEW t \in Tabs, NEW i \in Parts
    PROVE  proof(t, i) \in {None, tab[t].file}
  <1>1. CASE tab[t].file \notin reusable(i)
    BY <1>1, Zenon DEF proof
  <1>2. CASE tab[t].file \in reusable(i)
    <2>1. Len(stored[i]) = 1 /\ tab[t].file \in Held(i)
      BY <1>2, Zenon DEF reusable
    <2>2. stored[i] \in Seq(Files)
      BY Zenon DEF IInv, SessionOK
    <2>3. DOMAIN stored[i] = {1}
      BY <2>1, <2>2
    <2>4. tab[t].file = stored[i][1]
      BY <2>1, <2>3, Zenon DEF Held
    <2> QED BY <1>2, <2>4, Zenon DEF proof
  <1> QED BY <1>1, <1>2, Zenon

LEMMA ListPageOK ==
    ASSUME IInv, NEW t \in Tabs, ListPage(t)
    PROVE  IInv'
  <1> DEFINE i == tab[t].next
  <1>0. tab[t].pc = "pages" /\ UNCHANGED <<session, storage, network>>
    BY Zenon DEF ListPage
  <1>1. CASE Goto(t, "failed") \/ Goto(t, "sending")
    BY <1>0, <1>1, GotoFine, Still, Zenon DEF IInv, session, network
  <1>2. CASE i <= NParts /\ SetTab(t, [tab[t] EXCEPT !.done[i] = proof(t, i), !.next = i + 1])
    <2> DEFINE x == [tab[t] EXCEPT !.done[i] = proof(t, i), !.next = i + 1]
               done == [tab[t].done EXCEPT ![i] = proof(t, i)]
    <2>1. i \in Parts /\ i + 1 \in 1 .. NParts + 1
      BY <1>2, TabTyped, Bounds DEF Parts, IInv
    <2>2. proof(t, i) \in {None, tab[t].file}
      BY <2>1, ProofOK, Zenon
    <2>3. done \in [Parts -> Files \cup {None}] /\ \A j \in Parts : done[j] \in {None, tab[t].file}
      BY <1>0, <2>1, <2>2, TabTyped, Zenon DEF TabOK, IInv
    <2>4. x = [tab[t] EXCEPT !.done = done, !.next = i + 1]
      BY TabTyped, Zenon DEF TabTypes, IInv
    <2>5. SetTab(t, x)
      BY <1>2, Zenon
    <2> HIDE DEF x, done, i
    <2>6. /\ x \in TabTypes /\ x.load = tab[t].load /\ x.file = tab[t].file /\ x.pc = "pages"
          /\ x.done = done
      BY <1>0, <2>1, <2>3, <2>4, TabTyped, Zenon DEF TabTypes, IInv
    <2>7. TabOK(x, frozen)
      BY <2>3, <2>6, Zenon DEF TabOK
    <2> QED BY <1>0, <2>5, <2>6, <2>7, PageOK, Still, Zenon DEF IInv, session, network
  <1> QED BY <1>1, <1>2, Zenon DEF ListPage

LEMMA AllSentOK ==
    ASSUME IInv, NEW t \in Tabs, AllSent(t)
    PROVE  IInv'
  <1> DEFINE x == [tab[t] EXCEPT !.pc = "submit"]
  <1>0. tab[t].pc = "sending" /\ Goto(t, "submit") /\ UNCHANGED <<session, storage, network>>
    BY Zenon DEF AllSent
  <1>1. \A i \in Parts : tab[t].done[i] = tab[t].file
    BY <1>0, TabTyped, Zenon DEF AllSent, TabOK, IInv
  <1>2. tab[t].done \in Lists
    BY <1>1, TabTyped, Zenon DEF Lists, IInv
  <1>3. x.pc = "submit" /\ x.done = tab[t].done /\ x.file = tab[t].file
    BY TabTyped, Zenon DEF TabTypes, IInv
  <1> HIDE DEF x
  <1>4. TabOK(x, frozen)
    BY <1>1, <1>2, <1>3, Zenon DEF TabOK
  <1> QED BY <1>0, <1>4, GotoOK, Still, Zenon DEF IInv, session, network, x

LEMMA RecheckOK ==
    ASSUME IInv, NEW t \in Tabs, Recheck(t)
    PROVE  IInv'
  <1>1. tab[t].pc = "completing" /\ UNCHANGED <<session, storage, network>>
    BY Zenon DEF Recheck
  <1>2. Goto(t, "done") \/ Goto(t, "failed") \/ Goto(t, "submit")
    BY Zenon DEF Recheck
  <1> QED BY <1>1, <1>2, GotoFine, Still, Zenon DEF IInv, session, network

LEMMA SubmitOK ==
    ASSUME IInv, NEW t \in Tabs, Submit(t)
    PROVE  IInv'
  <1> DEFINE x == [tab[t] EXCEPT !.pc = "completing", !.tries = @ + 1]
             c == [list |-> tab[t].done, begun |-> FALSE]
  <1>0. /\ tab[t].pc = "submit" /\ tab[t].tries < MaxTries /\ SetTab(t, x) /\ calls' = calls \cup {c}
        /\ UNCHANGED <<session, storage, puts, sent>>
    BY Zenon DEF Submit
  <1>1. tab[t].tries + 1 \in 0 .. MaxTries
    BY <1>0, TabTyped, Bounds DEF IInv
  <1>2. /\ x \in TabTypes /\ x.load = tab[t].load /\ x.file = tab[t].file /\ x.pc = "completing"
        /\ x.done = tab[t].done
    BY <1>1, TabTyped, Zenon DEF TabTypes, IInv
  <1>3. TabOK(tab[t], frozen)
    BY TabTyped, Zenon DEF IInv
  <1>4. c \in CallTypes /\ c.list = tab[t].done /\ ~c.begun
    BY <1>0, <1>3, Zenon DEF TabOK, CallTypes
  <1> HIDE DEF x, c
  <1>5. TabOK(x, frozen)
    BY <1>0, <1>2, <1>3, Zenon DEF TabOK
  <1>6. Single(tab[t].done)
    <2>1. CASE tab[t].done = frozen
      BY <1>0, <1>3, <2>1, Bounds, Zenon DEF TabOK, IInv, SessionOK
    <2>2. CASE \A i \in Parts : tab[t].done[i] = tab[t].file
      BY <2>2, TabTyped, Zenon DEF Single, IInv
    <2> QED BY <1>0, <1>3, <2>1, <2>2, Zenon DEF TabOK
  <1>7. CallsOK'
    BY <1>0, <1>4, <1>6, Zenon DEF IInv, CallsOK, CallOK, session
  <1>8. SessionOK'
    BY <1>0, Zenon DEF IInv, SessionOK, session, storage
  <1>9. TabsOK' /\ PutsOK'
    BY <1>0, <1>2, <1>5, PageOK, Zenon DEF IInv, session
  <1> QED BY <1>7, <1>8, <1>9, Zenon DEF IInv

-----------------------------------------------------------------------------
\* Parts and the end of a session.

\* The session ends before a completion began.
LEMMA OverOK ==
    ASSUME IInv, status = "uploading", status' \in {"aborted", "expired"}, open' = FALSE,
           UNCHANGED <<backend, elapsed, frozen, signed, stored, object, calls>>
    PROVE  SessionOK' /\ CallsOK'
  <1>1. frozen = None /\ object = None
    BY Zenon DEF IInv, SessionOK, Statuses
  <1> QED BY <1>1, Zenon DEF IInv, SessionOK, CallsOK, Statuses

LEMMA AbortOK ==
    ASSUME IInv, AbortUpload
    PROVE  SessionOK' /\ CallsOK' /\ UNCHANGED <<frozen, puts, sent>>
  <1>1. CASE status = "uploading"
    BY <1>1, OverOK, Zenon DEF AbortUpload, network
  <1>2. CASE status # "uploading"
    <2>1. UNCHANGED <<session, storage, network>>
      BY <1>2, Zenon DEF AbortUpload, session, storage
    <2> QED BY <2>1, Still, Zenon DEF session, network
  <1> QED BY <1>1, <1>2, Zenon

LEMMA CancelOK ==
    ASSUME IInv, NEW t \in Tabs, Cancel(t)
    PROVE  IInv'
  BY AbortOK, GotoFine, Zenon DEF Cancel, IInv

LEMMA ExhaustedOK ==
    ASSUME IInv, NEW t \in Tabs, Exhausted(t)
    PROVE  IInv'
  <1>1. CASE AbortUpload
    BY <1>1, AbortOK, GotoFine, Zenon DEF Exhausted, IInv
  <1>2. CASE UNCHANGED <<session, storage, network>>
    BY <1>2, Still, GotoFine, Zenon DEF Exhausted, IInv, session, network
  <1> QED BY <1>1, <1>2, Zenon DEF Exhausted

LEMMA SignOK ==
    ASSUME IInv, NEW t \in Tabs, NEW i \in Parts, SignUploadPart(t, i)
    PROVE  IInv'
  <1>1. CASE SignExpires(t)
    <2>1. SessionOK' /\ CallsOK'
      BY <1>1, OverOK, Zenon DEF SignExpires, network
    <2> QED BY <1>1, <2>1, GotoFine, Zenon DEF SignExpires, IInv, network
  <1>2. CASE SignRefused(t)
    BY <1>2, Still, GotoFine, Zenon DEF SignRefused, IInv, session, network
  <1>3. CASE /\ status = "uploading" /\ ~elapsed
             /\ sent < MaxPuts
             /\ signed' = IF backend.binds THEN [signed EXCEPT ![i] = tab[t].file] ELSE signed
             /\ puts' = puts \cup {[tab |-> t, load |-> tab[t].load, part |-> i, content |-> tab[t].file]}
             /\ sent' = sent + 1
             /\ UNCHANGED <<status, elapsed, frozen, storage, calls, tab>>
    <2> DEFINE q == [tab |-> t, load |-> tab[t].load, part |-> i, content |-> tab[t].file]
    <2>1. tab[t].pc = "sending" /\ tab[t].load \in 0 .. MaxReloads /\ tab[t].file \in Files
      BY TabTyped, Zenon DEF SignUploadPart, IInv
    <2>2. /\ q \in PutTypes /\ q.tab = t /\ q.load = tab[t].load /\ q.content = tab[t].file
      BY <2>1, Zenon DEF PutTypes
    <2>3. puts' = puts \cup {q} /\ tab' = tab
      BY <1>3, Zenon
    <2> HIDE DEF q
    <2>4. PutOK(q, tab[t])
      BY <2>1, <2>2, Bounds DEF PutOK
    <2>5. sent' \in 0 .. MaxPuts
      BY <1>3, Bounds DEF IInv, PutsOK
    <2>6. PutsOK'
      BY <2>2, <2>3, <2>4, <2>5, Zenon DEF IInv, PutsOK
    <2>7. signed' \in [Parts -> Files \cup {None}]
      BY <1>3, <2>1, Zenon DEF IInv, SessionOK
    <2>8. SessionOK'
      BY <1>3, <2>7, Zenon DEF IInv, SessionOK, storage
    <2> QED BY <1>3, <2>6, <2>8, Zenon DEF IInv, CallsOK, TabsOK
  <1> QED BY <1>1, <1>2, <1>3, Zenon DEF SignUploadPart

\* The part is the file's, so is what the tab notes.
LEMMA AnsweredOK ==
    ASSUME IInv, NEW p \in puts, Answered(p) \/ tab' = tab, puts' = puts \ {p}, UNCHANGED <<frozen, sent>>
    PROVE  TabsOK' /\ PutsOK'
  <1> DEFINE t == p.tab
             x == [tab[t] EXCEPT !.done[p.part] = p.content]
             done == [tab[t].done EXCEPT ![p.part] = p.content]
  <1>0. p \in PutTypes /\ t \in Tabs /\ p.part \in Parts /\ p.content \in Files /\ PutOK(p, tab[t])
    BY Zenon DEF IInv, PutsOK, PutTypes
  <1>1. CASE tab' = tab
    BY <1>1, Zenon DEF IInv, TabsOK, PutsOK
  <1>2. CASE tab[t].pc = "sending" /\ tab[t].load = p.load /\ SetTab(t, x)
    <2>1. p.content = tab[t].file
      BY <1>0, <1>2, Zenon DEF PutOK
    <2>2. done \in [Parts -> Files \cup {None}] /\ \A i \in Parts : done[i] \in {None, tab[t].file}
      BY <1>0, <1>2, <2>1, TabTyped, Zenon DEF TabOK, IInv
    <2>3. x = [tab[t] EXCEPT !.done = done]
      BY <1>0, TabTyped, Zenon DEF TabTypes, IInv
    <2>4. SetTab(t, x)
      BY <1>2, Zenon
    <2> HIDE DEF x, done
    <2>5. /\ x \in TabTypes /\ x.load = tab[t].load /\ x.file = tab[t].file /\ x.pc = "sending"
          /\ x.done = done
      <3>1. tab[t] \in TabTypes /\ tab[t].pc = "sending"
        BY <1>0, <1>2, TabTyped, Zenon DEF IInv
      <3>2. done \in [Parts -> Files \cup {None}]
        BY <2>2, Zenon
      <3> QED BY <2>3, <3>1, <3>2, Zenon DEF TabTypes
    <2>6. TabOK(x, frozen)
      BY <2>2, <2>5, Zenon DEF TabOK
    <2>7. tab' \in [Tabs -> TabTypes] /\ tab'[t] = x /\ \A u \in Tabs \ {t} : tab'[u] = tab[u]
      BY <1>0, <2>4, <2>5, Zenon DEF SetTab, IInv, TabsOK
    <2>8. TabsOK'
      BY <2>6, <2>7, Zenon DEF IInv, TabsOK
    <2>9. ASSUME NEW q \in puts' PROVE PutOK(q, tab'[q.tab])
      <3>1. q \in puts /\ q.tab \in Tabs /\ PutOK(q, tab[q.tab])
        BY Zenon DEF IInv, PutsOK, PutTypes
      <3>2. CASE q.tab # t
        BY <2>7, <3>1, <3>2, Zenon
      <3>3. CASE q.tab = t
        BY <1>2, <2>5, <2>7, <3>1, <3>3, Zenon DEF PutOK
      <3> QED BY <3>2, <3>3, Zenon
    <2> QED BY <2>8, <2>9, Zenon DEF IInv, PutsOK
  <1> QED BY <1>1, <1>2, Zenon DEF Answered

LEMMA LandOK ==
    ASSUME IInv, NEW p \in puts, Land(p)
    PROVE  IInv'
  <1>0. p.part \in Parts /\ p.content \in Files
    BY Zenon DEF IInv, PutsOK, PutTypes
  <1>1. stored' \in [Parts -> Seq(Files)]
    <2>1. stored[p.part] \in Seq(Files) /\ stored \in [Parts -> Seq(Files)]
      BY <1>0, Zenon DEF IInv, SessionOK
    <2>2. Append(stored[p.part], p.content) \in Seq(Files) /\ <<p.content>> \in Seq(Files)
      BY <1>0, <2>1
    <2>3. \E s \in Seq(Files) : stored' = [stored EXCEPT ![p.part] = s]
      BY <2>2, Zenon DEF Land, PutPart
    <2> QED BY <2>1, <2>3, Zenon
  <1>2. UNCHANGED <<backend, open, object, session, sent, calls>>
    BY Zenon DEF Land, PutPart
  <1>3. SessionOK' /\ CallsOK'
    BY <1>1, <1>2, Zenon DEF IInv, SessionOK, CallsOK, session
  <1>4. TabsOK' /\ PutsOK'
    BY <1>2, AnsweredOK, Zenon DEF Land, session
  <1> QED BY <1>3, <1>4, Zenon DEF IInv

LEMMA LoseOK ==
    ASSUME IInv, NEW p \in puts, Lose(p)
    PROVE  IInv'
  <1>1. TabsOK' /\ PutsOK'
    BY AnsweredOK, Zenon DEF Lose, session
  <1> QED BY <1>1, Still, Zenon DEF Lose, IInv

-----------------------------------------------------------------------------
\* Completion.

LEMMA BeginCompleteOK ==
    ASSUME IInv, NEW c \in calls, BeginComplete(c)
    PROVE  IInv'
  <1> DEFINE d == [c EXCEPT !.begun = TRUE]
  <1>0. /\ c \in CallTypes /\ c.list \in Lists /\ CallOK(c, frozen)
        /\ UNCHANGED <<elapsed, signed, storage, puts, sent, tab>>
    BY Zenon DEF IInv, CallsOK, CallTypes, BeginComplete
  <1>1. d \in CallTypes /\ d.list = c.list
    BY <1>0, Zenon DEF CallTypes
  <1>2. CASE UNCHANGED <<status, frozen>> /\ calls' = calls \ {c}
    <2>1. CallsOK'
      BY <1>2, Zenon DEF IInv, CallsOK
    <2>2. SessionOK'
      BY <1>0, <1>2, Zenon DEF IInv, SessionOK, storage
    <2> QED BY <1>0, <1>2, <2>1, <2>2, Zenon DEF IInv, TabsOK, PutsOK
  <1>3. CASE frozen = c.list /\ UNCHANGED <<status, frozen>> /\ calls' = (calls \ {c}) \cup {d}
    <2> HIDE DEF d
    <2>1. CallsOK'
      BY <1>0, <1>1, <1>3, Zenon DEF IInv, CallsOK, CallOK
    <2>2. SessionOK'
      BY <1>0, <1>3, Zenon DEF IInv, SessionOK, storage
    <2> QED BY <1>0, <1>3, <2>1, <2>2, Zenon DEF IInv, TabsOK, PutsOK
  <1>4. CASE status = "uploading" /\ status' = "completing" /\ frozen' = c.list /\ calls' = (calls \ {c}) \cup {d}
    <2> HIDE DEF d
    <2>1. frozen = None /\ object = None /\ c.list # None /\ None \notin Lists
      BY <1>0, <1>4, Bounds, Zenon DEF IInv, SessionOK, Statuses
    <2>2. \A e \in calls : e.list \in Lists /\ ~e.begun
      BY <2>1, Zenon DEF IInv, CallsOK, CallOK, CallTypes
    <2>3. CallsOK'
      BY <1>0, <1>1, <1>4, <2>2, Zenon DEF IInv, CallsOK, CallOK
    <2>4. SessionOK'
      BY <1>0, <1>4, <2>1, Zenon DEF IInv, SessionOK, storage, CallOK, Statuses
    <2>5. ASSUME NEW t \in Tabs PROVE TabOK(tab[t], frozen')
      BY <2>1, TabTyped, Zenon DEF TabOK, IInv
    <2>6. TabsOK'
      BY <1>0, <2>5, Zenon DEF IInv, TabsOK
    <2> QED BY <1>0, <2>3, <2>4, <2>6, Zenon DEF IInv, PutsOK
  <1> QED BY <1>2, <1>3, <1>4, Zenon DEF BeginComplete

LEMMA CompleteOK ==
    ASSUME IInv, NEW c \in calls, CompleteMultipart(c)
    PROVE  IInv'
  <1>0. /\ c.list \in Lists /\ frozen = c.list /\ calls' = calls \ {c} /\ None \notin Lists
        /\ UNCHANGED <<backend, elapsed, frozen, signed, stored, puts, sent, tab>>
    BY Bounds, Zenon DEF CompleteMultipart, IInv, CallsOK, CallTypes, CallOK
  <1>1. CallsOK'
    BY <1>0, Zenon DEF IInv, CallsOK
  <1>2. SessionOK'
    <2>1. CASE open /\ object' = c.list /\ open' = FALSE /\ status' = "committed"
      BY <1>0, <2>1, Zenon DEF IInv, SessionOK, Statuses
    <2>2. CASE open /\ object' = object /\ open' = FALSE /\ status' = "failed"
      BY <1>0, <2>2, Zenon DEF IInv, SessionOK, Statuses
    <2>3. CASE UNCHANGED <<open, object, status>>
      BY <1>0, <2>3, Zenon DEF IInv, SessionOK
    <2> QED BY <2>1, <2>2, <2>3, Zenon DEF CompleteMultipart
  <1> QED BY <1>0, <1>1, <1>2, Zenon DEF IInv, TabsOK, PutsOK

LEMMA DieOK ==
    ASSUME IInv, NEW c \in calls, Die(c)
    PROVE  IInv'
  BY Zenon DEF Die, session, storage, IInv, SessionOK, CallsOK, TabsOK, PutsOK

\* IInv is inductive.
LEMMA StepOK == IInv /\ [Next]_vars => IInv'
  <1> SUFFICES ASSUME IInv, [Next]_vars PROVE IInv'
    BY Zenon
  <1>1. CASE UNCHANGED vars
    BY <1>1, Zenon DEF vars, IInv, SessionOK, CallsOK, TabsOK, PutsOK
  <1>2. CASE Elapse
    BY <1>2, Zenon DEF Elapse, storage, network, IInv, SessionOK, CallsOK, TabsOK, PutsOK
  <1>3. ASSUME NEW t \in Tabs, Run(t) PROVE IInv'
    BY <1>3, ReadRowOK, ReadRecordedOK, ListPageOK, AllSentOK, SubmitOK, RecheckOK, SignOK, Zenon DEF Run
  <1>4. CASE Serve
    BY <1>4, BeginCompleteOK, CompleteOK, Zenon DEF Serve
  <1> QED BY <1>1, <1>2, <1>3, <1>4, ExhaustedOK, ReloadOK, CancelOK, ResumeOK, LandOK, LoseOK, DieOK, Zenon DEF Next

LEMMA Invariance == Spec => []IInv
  BY InitOK, StepOK, PTL DEF Spec

-----------------------------------------------------------------------------
\* Theorems.

\* A list is frozen exactly while a completion began, and the object is made of
\* the frozen list (BeginComplete, CompleteMultipart).
THEOREM ResumeTypeCorrect == Spec => []ResumeTypeOK
  <1>1. IInv => ResumeTypeOK
    BY Zenon DEF IInv, SessionOK, CallsOK, TabsOK, PutsOK, CallTypes, TabTypes, PutTypes, ResumeTypeOK
  <1> QED BY <1>1, Invariance, PTL

\* No object mixes two files, whatever tabs, reloads and late parts there are.
THEOREM ObjectsAreOneFile == Spec => []NoMixture
  <1>1. IInv => NoMixture
    BY Zenon DEF IInv, SessionOK, Single, NoMixture
  <1> QED BY <1>1, Invariance, PTL

\* A tab completes with its own file's parts or with the frozen list.
THEOREM ListsAreWhole == Spec => []WholeList
  <1>1. IInv => WholeList
    BY Zenon DEF IInv, TabsOK, TabOK, WholeList
  <1> QED BY <1>1, Invariance, PTL
=============================================================================
