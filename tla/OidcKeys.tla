------------------------------ MODULE OidcKeys ------------------------------
\* Bearer tokens and the cache of the provider's signing keys
\* (internal/auth/oidc.go). The key of a token is looked up under a mutex that
\* is held while the keys are fetched again, so requests queue behind a fetch.
\* The provider publishes and withdraws keys at any time and may be unreachable.
EXTENDS Integers

CONSTANTS
    Kids,     \* key ids
    Requests,
    Fresh,    \* ticks a loaded key set is used: 10 minutes
    Timeout,  \* ticks a fetch may take: the HTTP client's 10 seconds
    None

ASSUME TicksAssumption == Fresh \in Nat \ {0} /\ Timeout \in Nat
ASSUME NoneAssumption == None \notin Requests /\ None \notin Kids /\ None # "unknown"

VARIABLES
    published, \* the provider's signing keys
    gone,      \* ticks since each key was withdrawn, counted as far as it matters
    keys,      \* the verifier's keys
    age,       \* ticks since they were loaded (refreshedAt), counted up to Fresh
    mutex,     \* the request that holds the verifier's mutex during a fetch
    req

vars == <<published, gone, keys, age, mutex, req>>

GoneLimit == Fresh + Timeout
UpTo(n, limit) == IF n < limit THEN n ELSE limit

Idle == [pc |-> "idle", kid |-> None, steady |-> FALSE,
         served |-> FALSE, doc |-> {}, flight |-> 0, answer |-> None]

RequestTypes ==
    [pc : {"idle", "waiting", "fetching", "keyed"}, kid : Kids \cup {None},
     steady : BOOLEAN, served : BOOLEAN, doc : SUBSET Kids, flight : 0..Timeout,
     answer : {None, "accepted", "unknown"}]

\* newJWKSVerifier: the service starts once discovery and a first load succeeded.
Init ==
    /\ published \in (SUBSET Kids) \ {{}}
    /\ gone = [k \in Kids |-> IF k \in published THEN 0 ELSE GoneLimit]
    /\ keys = published
    /\ age = 0
    /\ mutex = None
    /\ req = [r \in Requests |-> Idle]

-----------------------------------------------------------------------------
\* A token arrives with its key id. steady: the key has been published ever since.
\* A token whose header or claims cannot be parsed is refused before the lookup.
Verify(r) ==
    /\ req[r].pc = "idle"
    /\ \E k \in Kids :
          req' = [req EXCEPT ![r] = [Idle EXCEPT !.pc = "waiting", !.kid = k,
                                                 !.steady = k \in published]]
    /\ UNCHANGED <<published, gone, keys, age, mutex>>

\* Only acceptance and "key is unknown" are told apart from the other answers.
Answer(r, answer) == req' = [req EXCEPT ![r] = [Idle EXCEPT !.answer = answer]]
HasKey(r) == req' = [req EXCEPT ![r].pc = "keyed", ![r].served = FALSE, ![r].doc = {}, ![r].flight = 0]

\* Mutants: the cache is not looked at for its age; a miss is not fetched.
keyAnyAge(r) ==
    /\ req[r].pc = "waiting" /\ mutex = None
    /\ IF req[r].kid \in keys
       THEN HasKey(r) /\ UNCHANGED mutex
       ELSE req' = [req EXCEPT ![r].pc = "fetching"] /\ mutex' = r
    /\ UNCHANGED <<published, gone, keys, age>>
keyCachedOnly(r) ==
    /\ req[r].pc = "waiting" /\ mutex = None
    /\ IF age < Fresh
       THEN (IF req[r].kid \in keys THEN HasKey(r) ELSE Answer(r, "unknown")) /\ UNCHANGED mutex
       ELSE req' = [req EXCEPT ![r].pc = "fetching"] /\ mutex' = r
    /\ UNCHANGED <<published, gone, keys, age>>

\* key: a cached key while the set is fresh, else a fetch under the mutex.
key(r) ==
    /\ req[r].pc = "waiting" /\ mutex = None
    /\ IF req[r].kid \in keys /\ age < Fresh
       THEN HasKey(r) /\ UNCHANGED mutex
       ELSE req' = [req EXCEPT ![r].pc = "fetching"] /\ mutex' = r
    /\ UNCHANGED <<published, gone, keys, age>>

\* The provider renders its document, some time before it arrives.
Serve(r) ==
    /\ req[r].pc = "fetching" /\ ~req[r].served
    /\ req' = [req EXCEPT ![r].served = TRUE, ![r].doc = published]
    /\ UNCHANGED <<published, gone, keys, age, mutex>>

\* Mutants: the cache is dropped with the failure; the mutex is kept.
fetchFailsDropping(r) ==
    /\ req[r].pc = "fetching"
    /\ keys' = {}
    /\ Answer(r, None)
    /\ mutex' = None
    /\ UNCHANGED <<published, gone, age>>
fetchFailsLocked(r) ==
    /\ req[r].pc = "fetching"
    /\ Answer(r, None)
    /\ UNCHANGED <<published, gone, keys, age, mutex>>

\* The request could not be made, timed out, or brought no usable document: the
\* cache stays as it is.
fetchFails(r) ==
    /\ req[r].pc = "fetching"
    /\ Answer(r, None)
    /\ mutex' = None
    /\ UNCHANGED <<published, gone, keys, age>>

\* loadKeysLocked: a document with signing keys replaces the cache.
loadKeysLocked(r) ==
    /\ req[r].pc = "fetching" /\ req[r].served /\ req[r].doc # {}
    /\ keys' = req[r].doc
    /\ age' = 0
    /\ mutex' = None
    /\ IF req[r].kid \in req[r].doc THEN HasKey(r) ELSE Answer(r, "unknown")
    /\ UNCHANGED <<published, gone>>

\* authenticateClaims: with the key at hand the signature, the issuer, the audience
\* and the expiry decide; which of them fails is not told apart.
authenticateClaims(r) ==
    /\ req[r].pc = "keyed"
    /\ \E answer \in {"accepted", None} : Answer(r, answer)
    /\ UNCHANGED <<published, gone, keys, age, mutex>>

-----------------------------------------------------------------------------
\* The provider changes its keys.
Rotate ==
    /\ \E S \in (SUBSET Kids) \ {published} :
          /\ published' = S
          /\ gone' = [k \in Kids |-> IF k \in S THEN 0 ELSE gone[k]]
          /\ req' = [r \in Requests |-> [req[r] EXCEPT !.steady = @ /\ req[r].kid \in S]]
    /\ UNCHANGED <<keys, age, mutex>>

\* Time passes; a fetch ends within its timeout.
Tick ==
    /\ \A r \in Requests : req[r].pc = "fetching" => req[r].flight < Timeout
    /\ age' = UpTo(age + 1, Fresh)
    /\ gone' = [k \in Kids |-> IF k \in published THEN 0 ELSE UpTo(gone[k] + 1, GoneLimit)]
    /\ req' = [r \in Requests |->
                 [req[r] EXCEPT !.flight = IF req[r].pc = "fetching" THEN @ + 1 ELSE 0]]
    /\ UNCHANGED <<published, keys, mutex>>

Next ==
    \/ \E r \in Requests :
          \/ Verify(r) \/ key(r) \/ Serve(r) \/ fetchFails(r) \/ loadKeysLocked(r)
          \/ authenticateClaims(r)
    \/ Rotate
    \/ Tick

Spec == Init /\ [][Next]_vars

\* A fetch ends, by its timeout at the latest; the mutex is handed to waiters; a
\* request goes on. Nothing is assumed of the provider.
FairSpec ==
    /\ Spec
    /\ \A r \in Requests :
          /\ SF_vars(key(r))
          /\ WF_vars(fetchFails(r) \/ loadKeysLocked(r))
          /\ WF_vars(authenticateClaims(r))

-----------------------------------------------------------------------------
\* Properties.

\* The verifier always has keys: no refresh, failed or not, leaves the cache
\* empty, and the counters keep their bounds.
KeysTypeOK ==
    /\ published \subseteq Kids
    /\ gone \in [Kids -> 0..GoneLimit]
    /\ keys \in (SUBSET Kids) \ {{}}
    /\ age \in 0..Fresh
    /\ mutex \in Requests \cup {None}
    /\ req \in [Requests -> RequestTypes]

\* A withdrawn key stops being used: no request gets it once a cache period and
\* the longest fetch have passed since it was withdrawn, whatever fetches fail or
\* overlap with the withdrawal.
WithdrawnKeyEnds ==
    [][\A r \in Requests :
          req[r].pc # "keyed" /\ req'[r].pc = "keyed" => gone[req[r].kid] < Fresh + Timeout]_vars

\* A published key is known: a token whose key has been published since the
\* request arrived may fail because the provider is unreachable, but is never
\* answered with an unknown key, however old the cache is.
PublishedKeyKnown ==
    [][\A r \in Requests :
          req[r].pc \in {"waiting", "fetching"} /\ req'[r].answer = "unknown" => ~req[r].steady]_vars

\* Every request is answered, although all wait for one mutex while one of them
\* waits for the provider.
EveryRequestAnswered == \A r \in Requests : req[r].pc # "idle" ~> req[r].pc = "idle"
=============================================================================
