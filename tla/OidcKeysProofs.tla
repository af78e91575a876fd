--------------------------- MODULE OidcKeysProofs ---------------------------
(***************************************************************************)
(* Proofs that the key cache of the token verifier neither keeps withdrawn *)
(* keys nor misses published ones, for any number of keys and requests and *)
(* any cache period and timeout.                                           *)
(*                                                                         *)
(* The argument: a document is as old as its fetch, so its keys have been  *)
(* gone for at most that long, and the keys of the cache for at most the   *)
(* age of the cache and the longest fetch (CacheOK, RequestOK).            *)
(***************************************************************************)
EXTENDS OidcKeys, TLAPS

\* A published key is not gone; a cached one was published when its document
\* was rendered.
CacheOK ==
    /\ \A k \in published : gone[k] = 0
    /\ \A k \in keys : gone[k] <= age + Timeout

\* What a request q knows of its key and of the document it fetched, while the
\* provider's keys are pub and the withdrawn ones have been gone for g ticks.
Known(q, pub, g) ==
    /\ q.pc \in {"waiting", "fetching", "keyed"} => q.kid \in Kids
    /\ q.pc \in {"waiting", "fetching"} => q.answer = None
    /\ q.steady => q.kid \in pub
    /\ q.served => q.pc = "fetching"
    /\ q.served => \A k \in q.doc : g[k] <= q.flight
    /\ q.served /\ q.steady => q.kid \in q.doc

IInv ==
    /\ KeysTypeOK
    /\ CacheOK
    /\ \A r \in Requests : Known(req[r], published, gone)

LEMMA InitOK == Init => IInv
  <1> SUFFICES ASSUME Init PROVE IInv
    BY Zenon
  <1>0. GoneLimit \in Nat /\ Fresh \in Nat /\ Timeout \in Nat
    BY TicksAssumption DEF GoneLimit
  <1>1. Idle \in RequestTypes /\ Known(Idle, published, gone)
    BY <1>0 DEF Idle, RequestTypes, Known
  <1>2. KeysTypeOK
    BY <1>0, <1>1 DEF Init, KeysTypeOK
  <1>3. CacheOK
    <2>1. ASSUME NEW k \in published PROVE gone[k] = 0
      BY <1>2, Zenon DEF Init, KeysTypeOK
    <2>2. keys = published /\ age = 0
      BY Zenon DEF Init
    <2> QED BY <1>0, <2>1, <2>2 DEF CacheOK
  <1> QED BY <1>1, <1>2, <1>3, Zenon DEF Init, IInv

LEMMA IdleOK ==
    /\ Idle \in RequestTypes /\ Idle.pc = "idle" /\ ~Idle.steady /\ ~Idle.served
    /\ Idle.answer = None
  BY TicksAssumption DEF Idle, RequestTypes

\* A request takes a step and, if it has fetched, replaces the cache.
LEMMA MovesOK ==
    ASSUME IInv, NEW r \in Requests, NEW x \in RequestTypes, Known(x, published, gone),
           req' = [req EXCEPT ![r] = x], UNCHANGED <<published, gone>>,
           mutex' \in Requests \cup {None}, keys' \in (SUBSET Kids) \ {{}}, age' \in 0..Fresh,
           \A k \in keys' : gone[k] <= age' + Timeout
    PROVE  IInv'
  <1>1. KeysTypeOK'
    BY Zenon DEF IInv, KeysTypeOK
  <1>2. CacheOK'
    BY Zenon DEF IInv, CacheOK
  <1>3. ASSUME NEW q \in Requests PROVE Known(req'[q], published, gone)
    BY Zenon DEF IInv, KeysTypeOK
  <1> QED BY <1>1, <1>2, <1>3, Zenon DEF IInv

\* The same for a step that leaves the cache alone.
LEMMA MovesOnlyOK ==
    ASSUME IInv, NEW r \in Requests, NEW x \in RequestTypes, Known(x, published, gone),
           req' = [req EXCEPT ![r] = x], UNCHANGED <<published, gone, keys, age>>,
           mutex' \in Requests \cup {None}
    PROVE  IInv'
  <1>1. /\ keys' \in (SUBSET Kids) \ {{}} /\ age' \in 0..Fresh
        /\ \A k \in keys' : gone[k] <= age' + Timeout
    BY Zenon DEF IInv, KeysTypeOK, CacheOK
  <1> QED BY <1>1, MovesOK, Zenon

LEMMA Typed ==
    ASSUME IInv, NEW r \in Requests
    PROVE  req[r] \in RequestTypes /\ Known(req[r], published, gone) /\ req[r].doc \subseteq Kids
  BY Zenon DEF IInv, KeysTypeOK, RequestTypes

\* An answer, and a key at hand.
LEMMA Answered ==
    ASSUME NEW answer \in {None, "accepted", "unknown"}
    PROVE  /\ [Idle EXCEPT !.answer = answer] \in RequestTypes
           /\ Known([Idle EXCEPT !.answer = answer], published, gone)
           /\ [Idle EXCEPT !.answer = answer].pc = "idle"
           /\ [Idle EXCEPT !.answer = answer].answer = answer
  <1> DEFINE x == [Idle EXCEPT !.answer = answer]
  <1>2. x \in RequestTypes
    BY IdleOK, Zenon DEF RequestTypes
  <1>3. x.pc = "idle" /\ x.answer = answer /\ ~x.steady /\ ~x.served
    BY IdleOK, Zenon DEF RequestTypes
  <1>4. Known(x, published, gone)
    BY <1>3, Zenon DEF Known
  <1> QED BY <1>2, <1>3, <1>4, Zenon

HasKeyOf(q) == [q EXCEPT !.pc = "keyed", !.served = FALSE, !.doc = {}, !.flight = 0]

LEMMA Keyed ==
    ASSUME IInv, NEW r \in Requests, req[r].pc \in {"waiting", "fetching"}
    PROVE  /\ HasKeyOf(req[r]) \in RequestTypes
           /\ Known(HasKeyOf(req[r]), published, gone)
           /\ HasKey(r) => req' = [req EXCEPT ![r] = HasKeyOf(req[r])]
  <1>1. req[r] \in RequestTypes /\ Known(req[r], published, gone)
    BY Typed, Zenon
  <1>2. HasKeyOf(req[r]) \in RequestTypes
    <2>1. 0 \in 0..Timeout
      BY TicksAssumption
    <2> QED BY <1>1, <2>1, Zenon DEF HasKeyOf, RequestTypes
  <1>3. Known(HasKeyOf(req[r]), published, gone)
    BY <1>1, Zenon DEF HasKeyOf, RequestTypes, Known
  <1> QED BY <1>2, <1>3, Zenon DEF HasKey, HasKeyOf

-----------------------------------------------------------------------------
\* Requests.

LEMMA ArrivalOK ==
    ASSUME IInv, NEW r \in Requests, Verify(r)
    PROVE  IInv'
  <1> PICK k \in Kids : req' = [req EXCEPT ![r] = [Idle EXCEPT !.pc = "waiting", !.kid = k,
                                                              !.steady = k \in published]]
    BY Zenon DEF Verify
  <1> DEFINE x == [Idle EXCEPT !.pc = "waiting", !.kid = k, !.steady = k \in published]
  <1>0. /\ x \in RequestTypes /\ x.pc = "waiting" /\ x.kid = k /\ (x.steady => k \in published)
        /\ ~x.served /\ x.answer = None
    <2>1. CASE k \in published
      BY <2>1, IdleOK, Zenon DEF RequestTypes
    <2>2. CASE k \notin published
      <3>1. (k \in published) = FALSE
        BY <2>2
      <3>2. x = [Idle EXCEPT !.pc = "waiting", !.kid = k, !.steady = FALSE]
        BY <3>1, Zenon
      <3> HIDE DEF x
      <3> QED BY <2>2, <3>2, IdleOK, Zenon DEF RequestTypes
    <2> QED BY <2>1, <2>2, Zenon
  <1> HIDE DEF x
  <1>1. Known(x, published, gone)
    BY <1>0, Zenon DEF Known
  <1>2. UNCHANGED <<published, gone, keys, age>> /\ mutex' \in Requests \cup {None}
    BY Zenon DEF Verify, IInv, KeysTypeOK
  <1> HIDE DEF x
  <1> QED BY <1>0, <1>1, <1>2, MovesOnlyOK, Zenon DEF x

LEMMA LookupOK ==
    ASSUME IInv, NEW r \in Requests, key(r)
    PROVE  IInv'
  <1>0. /\ req[r].pc = "waiting" /\ UNCHANGED <<published, gone, keys, age>>
        /\ mutex \in Requests \cup {None}
    BY Zenon DEF key, IInv, KeysTypeOK
  <1>1. CASE HasKey(r) /\ UNCHANGED mutex
    BY <1>0, <1>1, Keyed, MovesOnlyOK, Zenon
  <1>2. CASE req' = [req EXCEPT ![r].pc = "fetching"] /\ mutex' = r
    <2> DEFINE x == [req[r] EXCEPT !.pc = "fetching"]
    <2>1. x \in RequestTypes /\ Known(x, published, gone)
      BY <1>0, Typed, Zenon DEF RequestTypes, Known
    <2>2. req' = [req EXCEPT ![r] = x]
      BY <1>2, Zenon
    <2> HIDE DEF x
    <2> QED BY <1>0, <1>2, <2>1, <2>2, MovesOnlyOK, Zenon
  <1> QED BY <1>1, <1>2, Zenon DEF key

LEMMA ServeOK ==
    ASSUME IInv, NEW r \in Requests, Serve(r)
    PROVE  IInv'
  <1> DEFINE x == [req[r] EXCEPT !.served = TRUE, !.doc = published]
  <1>0. /\ req[r].pc = "fetching" /\ UNCHANGED <<published, gone, keys, age, mutex>>
        /\ mutex \in Requests \cup {None} /\ published \subseteq Kids
        /\ req[r] \in RequestTypes /\ Known(req[r], published, gone)
    BY Typed, Zenon DEF Serve, IInv, KeysTypeOK
  <1>1. /\ x \in RequestTypes /\ x.pc = "fetching" /\ x.kid = req[r].kid /\ x.steady = req[r].steady
        /\ x.doc = published /\ x.flight = req[r].flight /\ x.answer = req[r].answer
        /\ req[r].flight \in 0..Timeout
    BY <1>0, Zenon DEF RequestTypes
  <1>2. \A k \in published : gone[k] = 0
    BY Zenon DEF IInv, CacheOK
  <1>3. req' = [req EXCEPT ![r] = x]
    BY Zenon DEF Serve
  <1> HIDE DEF x
  <1>4. Known(x, published, gone)
    BY <1>0, <1>1, <1>2 DEF Known
  <1> QED BY <1>0, <1>1, <1>3, <1>4, MovesOnlyOK, Zenon

LEMMA AnswersOK ==
    ASSUME IInv, NEW r \in Requests, fetchFails(r) \/ authenticateClaims(r)
    PROVE  IInv'
  <1>1. PICK answer \in {None, "accepted", "unknown"} :
          req' = [req EXCEPT ![r] = [Idle EXCEPT !.answer = answer]]
    BY Zenon DEF fetchFails, authenticateClaims, Answer
  <1>2. UNCHANGED <<published, gone, keys, age>> /\ mutex' \in Requests \cup {None}
    BY Zenon DEF fetchFails, authenticateClaims, IInv, KeysTypeOK
  <1> QED BY <1>1, <1>2, Answered, MovesOnlyOK, Zenon

\* The keys of a document are no longer gone than its fetch took.
LEMMA Arrived ==
    ASSUME IInv, NEW r \in Requests, loadKeysLocked(r)
    PROVE  \A k \in req[r].doc : k \in Kids /\ gone[k] \in Nat /\ gone[k] <= Timeout
  <1>1. req[r].served /\ Known(req[r], published, gone) /\ req[r].doc \subseteq Kids
    BY Typed, Zenon DEF loadKeysLocked
  <1>2. req[r].flight \in 0..Timeout /\ gone \in [Kids -> 0..GoneLimit]
    BY Zenon DEF IInv, KeysTypeOK, RequestTypes
  <1>3. Timeout \in Nat /\ GoneLimit \in Nat
    BY TicksAssumption DEF GoneLimit
  <1> QED BY <1>1, <1>2, <1>3 DEF Known

LEMMA LoadOK ==
    ASSUME IInv, NEW r \in Requests, loadKeysLocked(r)
    PROVE  IInv'
  <1>0. /\ req[r].pc = "fetching" /\ UNCHANGED <<published, gone>> /\ mutex' = None
        /\ keys' = req[r].doc /\ req[r].doc # {} /\ age' = 0 /\ req[r].doc \subseteq Kids
    BY Typed, Zenon DEF loadKeysLocked
  <1>1. keys' \in (SUBSET Kids) \ {{}} /\ age' \in 0..Fresh /\ mutex' \in Requests \cup {None}
    BY <1>0, TicksAssumption
  <1>2. \A k \in keys' : gone[k] <= age' + Timeout
    BY <1>0, Arrived, TicksAssumption
  <1>3. CASE HasKey(r)
    BY <1>0, <1>1, <1>2, <1>3, Keyed, MovesOK, Zenon
  <1>4. CASE Answer(r, "unknown")
    BY <1>0, <1>1, <1>2, <1>4, Answered, MovesOK, Zenon DEF Answer
  <1> QED BY <1>3, <1>4, Zenon DEF loadKeysLocked

-----------------------------------------------------------------------------
\* The provider and time.

LEMMA RotateOK ==
    ASSUME IInv, Rotate
    PROVE  IInv'
  <1> PICK S \in SUBSET Kids :
          /\ published' = S
          /\ gone' = [k \in Kids |-> IF k \in S THEN 0 ELSE gone[k]]
          /\ req' = [r \in Requests |-> [req[r] EXCEPT !.steady = @ /\ req[r].kid \in S]]
    BY Zenon DEF Rotate
  <1>0. UNCHANGED <<keys, age, mutex>> /\ GoneLimit \in Nat /\ Timeout \in Nat /\ Fresh \in Nat
    BY TicksAssumption DEF Rotate, GoneLimit
  <1>1. /\ gone \in [Kids -> 0..GoneLimit] /\ gone' \in [Kids -> 0..GoneLimit]
        /\ \A k \in Kids : gone'[k] <= gone[k]
    BY <1>0 DEF IInv, KeysTypeOK
  <1>2. ASSUME NEW r \in Requests
        PROVE  req'[r] \in RequestTypes /\ Known(req'[r], published', gone')
    <2> DEFINE q == req[r]
               x == [q EXCEPT !.steady = @ /\ q.kid \in S]
    <2>1. q \in RequestTypes /\ Known(q, published, gone) /\ q.doc \subseteq Kids
      BY Typed, Zenon
    <2>2. /\ x \in RequestTypes /\ x.pc = q.pc /\ x.kid = q.kid /\ x.served = q.served
          /\ x.doc = q.doc /\ x.flight = q.flight /\ x.answer = q.answer
          /\ x.steady = (q.steady /\ q.kid \in S) /\ q.flight \in 0..Timeout
      BY <2>1, Zenon DEF RequestTypes
    <2>3. req'[r] = x
      BY Zenon
    <2> HIDE DEF x, q
    <2>4. x.served => \A k \in x.doc : gone'[k] <= x.flight
      BY <1>0, <1>1, <2>1, <2>2 DEF Known
    <2>5. Known(x, published', gone')
      BY <2>1, <2>2, <2>4, Zenon DEF Known
    <2> QED BY <2>2, <2>3, <2>5, Zenon
  <1>3. KeysTypeOK'
    BY <1>0, <1>1, <1>2, Zenon DEF IInv, KeysTypeOK
  <1>4. CacheOK'
    BY <1>0, <1>1 DEF IInv, KeysTypeOK, CacheOK
  <1> QED BY <1>2, <1>3, <1>4, Zenon DEF IInv

LEMMA TickOK ==
    ASSUME IInv, Tick
    PROVE  IInv'
  <1>0. GoneLimit = Fresh + Timeout /\ Timeout \in Nat /\ Fresh \in Nat /\ GoneLimit \in Nat
    BY TicksAssumption DEF GoneLimit
  <1>1. /\ published' = published /\ keys' = keys /\ mutex' = mutex
        /\ age \in 0..Fresh /\ gone \in [Kids -> 0..GoneLimit]
        /\ keys \subseteq Kids /\ published \subseteq Kids
    BY Zenon DEF Tick, IInv, KeysTypeOK
  <1>2. /\ gone' \in [Kids -> 0..GoneLimit]
        /\ \A k \in Kids : /\ gone'[k] <= gone[k] + 1
                           /\ k \in published => gone'[k] = 0
    <2>1. gone' = [k \in Kids |-> IF k \in published THEN 0 ELSE UpTo(gone[k] + 1, GoneLimit)]
      BY Zenon DEF Tick
    <2>2. ASSUME NEW n \in 0..GoneLimit
          PROVE  UpTo(n + 1, GoneLimit) \in 0..GoneLimit /\ UpTo(n + 1, GoneLimit) <= n + 1
      BY <1>0 DEF UpTo
    <2> QED BY <1>0, <1>1, <2>1, <2>2
  <1>3. age' \in 0..Fresh /\ (age' = age + 1 \/ age' = Fresh)
    BY <1>0, <1>1 DEF Tick, UpTo
  <1>4. ASSUME NEW r \in Requests
        PROVE  req'[r] \in RequestTypes /\ Known(req'[r], published', gone')
    <2> DEFINE q == req[r]
               n == IF q.pc = "fetching" THEN q.flight + 1 ELSE 0
               x == [q EXCEPT !.flight = n]
    <2>1. /\ q \in RequestTypes /\ Known(q, published, gone) /\ q.doc \subseteq Kids
          /\ q.flight \in 0..Timeout
      BY Typed, Zenon DEF RequestTypes
    <2>2. n \in 0..Timeout
      BY <1>0, <2>1 DEF Tick
    <2>3. req'[r] = x
      BY Zenon DEF Tick
    <2>4. /\ x \in RequestTypes /\ x.pc = q.pc /\ x.kid = q.kid /\ x.served = q.served
          /\ x.doc = q.doc /\ x.flight = n /\ x.answer = q.answer /\ x.steady = q.steady
      BY <2>1, <2>2, Zenon DEF RequestTypes
    <2>5. x.served => \A k \in x.doc : gone'[k] <= x.flight
      <3>1. q.served => n = q.flight + 1 /\ \A k \in q.doc : gone[k] <= q.flight
        BY <2>1, Zenon DEF Known
      <3> HIDE DEF x, n, q
      <3> QED BY <1>0, <1>1, <1>2, <2>1, <2>2, <2>4, <3>1
    <2> HIDE DEF x, n, q
    <2>6. Known(x, published', gone')
      BY <1>1, <2>1, <2>4, <2>5, Zenon DEF Known
    <2> QED BY <2>3, <2>4, <2>6, Zenon
  <1>5. KeysTypeOK'
    <2>1. req' \in [Requests -> RequestTypes]
      BY <1>4, Zenon DEF Tick
    <2> QED BY <1>1, <1>2, <1>3, <2>1, Zenon DEF IInv, KeysTypeOK
  <1>6. CacheOK'
    <2>1. ASSUME NEW k \in keys PROVE gone'[k] <= age' + Timeout
      BY <1>0, <1>1, <1>2, <1>3 DEF IInv, CacheOK
    <2> QED BY <1>1, <1>2, <2>1, Zenon DEF CacheOK
  <1> QED BY <1>4, <1>5, <1>6, Zenon DEF IInv

\* IInv is inductive.
LEMMA StepOK == IInv /\ [Next]_vars => IInv'
  <1> SUFFICES ASSUME IInv, [Next]_vars PROVE IInv'
    BY Zenon
  <1>1. CASE UNCHANGED vars
    BY <1>1, Zenon DEF vars, IInv, KeysTypeOK, CacheOK
  <1>2. CASE Next
    BY <1>2, ArrivalOK, LookupOK, ServeOK, AnswersOK, LoadOK, RotateOK, TickOK, Zenon DEF Next
  <1> QED BY <1>1, <1>2, Zenon

LEMMA Invariance == Spec => []IInv
  BY InitOK, StepOK, PTL DEF Spec

-----------------------------------------------------------------------------
\* Theorems.

\* The verifier is never without keys, whatever fetches fail, and the counters
\* keep their bounds.
THEOREM NeverEmpty == Spec => []KeysTypeOK
  <1>1. IInv => KeysTypeOK
    BY Zenon DEF IInv
  <1> QED BY <1>1, Invariance, PTL

\* No request gets a key that was withdrawn more than a cache period and a fetch
\* ago.
THEOREM WithdrawnKeysEnd == Spec => WithdrawnKeyEnds
  <1> DEFINE A == \A r \in Requests :
                    req[r].pc # "keyed" /\ req'[r].pc = "keyed" => gone[req[r].kid] < Fresh + Timeout
  <1>0. Fresh \in Nat \ {0} /\ Timeout \in Nat
    BY TicksAssumption, Zenon
  <1>1. ASSUME IInv, NEW q \in Requests, key(q), NEW r \in Requests,
               req[r].pc # "keyed", req'[r].pc = "keyed"
        PROVE  gone[req[r].kid] < Fresh + Timeout
    <2>0. req \in [Requests -> RequestTypes]
      BY <1>1, Zenon DEF IInv, KeysTypeOK
    <2>1. r = q /\ req[r].kid \in keys /\ age < Fresh
      BY <1>1, <2>0, Zenon DEF key, HasKey, RequestTypes
    <2> QED BY <1>0, <1>1, <2>1 DEF IInv, KeysTypeOK, CacheOK
  <1>2. ASSUME IInv, NEW q \in Requests, loadKeysLocked(q), NEW r \in Requests,
               req[r].pc # "keyed", req'[r].pc = "keyed"
        PROVE  gone[req[r].kid] < Fresh + Timeout
    <2>1. CASE r # q
      BY <1>2, <2>1, Zenon DEF loadKeysLocked, HasKey, Answer, IInv, KeysTypeOK
    <2>2. CASE r = q /\ req[q].kid \in req[q].doc
      <3>1. gone[req[r].kid] \in Nat /\ gone[req[r].kid] <= Timeout
        BY <1>2, <2>2, Arrived, Zenon
      <3> QED BY <1>0, <3>1
    <2>3. CASE r = q /\ req[q].kid \notin req[q].doc
      BY <1>2, <2>3, Answered, Zenon DEF loadKeysLocked, Answer, IInv, KeysTypeOK
    <2> QED BY <2>1, <2>2, <2>3, Zenon
  <1>3. ASSUME IInv, NEW q \in Requests,
               Verify(q) \/ Serve(q) \/ fetchFails(q) \/ authenticateClaims(q),
               NEW r \in Requests, req[r].pc # "keyed"
        PROVE  req'[r].pc # "keyed"
    <2>0. req \in [Requests -> RequestTypes]
      BY <1>3, Zenon DEF IInv, KeysTypeOK
    <2>1. CASE Verify(q)
      BY <1>3, <2>0, <2>1, Zenon DEF Verify, Idle
    <2>2. CASE Serve(q)
      BY <1>3, <2>0, <2>2, Zenon DEF Serve, RequestTypes
    <2>3. CASE fetchFails(q) \/ authenticateClaims(q)
      BY <1>3, <2>0, <2>3, Zenon DEF fetchFails, authenticateClaims, Answer, Idle
    <2> QED BY <1>3, <2>1, <2>2, <2>3, Zenon
  <1>4. ASSUME IInv, Rotate \/ Tick, NEW r \in Requests PROVE req'[r].pc = req[r].pc
    BY <1>4, Typed DEF Rotate, Tick, RequestTypes
  <1>5. ASSUME IInv, Next PROVE A
    BY <1>1, <1>2, <1>3, <1>4, <1>5, Zenon DEF Next
  <1>6. IInv /\ [Next]_vars => [A]_vars
    BY <1>5, Zenon
  <1>7. Spec => [][A]_vars
    BY <1>6, Invariance, PTL DEF Spec
  <1> QED BY <1>7, Zenon DEF WithdrawnKeyEnds

\* A token of a key that was published all along is never answered with an
\* unknown key.
THEOREM PublishedKeysKnown == Spec => PublishedKeyKnown
  <1> DEFINE A == \A r \in Requests :
                    req[r].pc \in {"waiting", "fetching"} /\ req'[r].answer = "unknown" => ~req[r].steady
  <1>1. ASSUME IInv, NEW r \in Requests, req[r].pc \in {"waiting", "fetching"},
               req'[r].answer = "unknown"
        PROVE  req'[r].answer # req[r].answer
    BY <1>1, Typed, NoneAssumption, Zenon DEF Known
  <1>2. ASSUME IInv, NEW q \in Requests, loadKeysLocked(q), NEW r \in Requests,
               req[r].pc \in {"waiting", "fetching"}, req'[r].answer = "unknown"
        PROVE  ~req[r].steady
    <2>1. CASE r # q
      BY <1>1, <1>2, <2>1, Zenon DEF loadKeysLocked, HasKey, Answer, IInv, KeysTypeOK
    <2>2. CASE r = q /\ req[q].kid \in req[q].doc
      <3>1. req'[r].answer = req[r].answer
        BY <1>2, <2>2, Typed DEF loadKeysLocked, HasKey, IInv, KeysTypeOK, RequestTypes
      <3> QED BY <1>1, <1>2, <3>1, Zenon
    <2>3. CASE r = q /\ req[q].kid \notin req[q].doc
      BY <1>2, <2>3, Typed, Zenon DEF loadKeysLocked, Known
    <2> QED BY <2>1, <2>2, <2>3, Zenon
  <1>3. ASSUME IInv, NEW q \in Requests,
               Verify(q) \/ key(q) \/ Serve(q) \/ fetchFails(q) \/ authenticateClaims(q),
               NEW r \in Requests, req[r].pc \in {"waiting", "fetching"}
        PROVE  req'[r].answer # "unknown"
    <2>1. req[r] \in RequestTypes /\ req[r].answer = None /\ req \in [Requests -> RequestTypes]
      BY <1>3, Typed, Zenon DEF Known, IInv, KeysTypeOK
    <2>2. CASE Verify(q)
      BY <1>3, <2>1, <2>2, NoneAssumption, Zenon DEF Verify, Idle
    <2>3. CASE key(q) \/ Serve(q)
      BY <1>3, <2>1, <2>3, NoneAssumption DEF key, HasKey, Serve, RequestTypes
    <2>4. CASE fetchFails(q)
      BY <1>3, <2>1, <2>4, NoneAssumption, Zenon DEF fetchFails, Answer, Idle
    <2>5. CASE authenticateClaims(q)
      BY <1>3, <2>1, <2>5, NoneAssumption, Zenon DEF authenticateClaims, Answer, Idle
    <2> QED BY <1>3, <2>2, <2>3, <2>4, <2>5, Zenon
  <1>4. ASSUME IInv, Rotate \/ Tick, NEW r \in Requests PROVE req'[r].answer = req[r].answer
    BY <1>4, Typed DEF Rotate, Tick, RequestTypes
  <1>5. ASSUME IInv, Next PROVE A
    BY <1>1, <1>2, <1>3, <1>4, <1>5, Zenon DEF Next
  <1>6. ASSUME IInv, UNCHANGED vars PROVE A
    BY <1>1, <1>6, Zenon DEF vars
  <1>7. IInv /\ [Next]_vars => [A]_vars
    BY <1>5, Zenon
  <1>8. Spec => [][A]_vars
    BY <1>7, Invariance, PTL DEF Spec
  <1> QED BY <1>8, Zenon DEF PublishedKeyKnown
=============================================================================
