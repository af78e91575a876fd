-------------------------- MODULE UploadLifecycle --------------------------
(***************************************************************************)
(* What an upload session promises its client, whatever stores it and      *)
(* whoever drives it: the first completion freezes the part list, the file *)
(* appears in the very step that commits the session, and one that ended   *)
(* without a file is cleaned up after.  A session that ended stays ended,  *)
(* except where maintenance has a claim on it: the claim may settle it     *)
(* later, by what it found when it was made, over whatever came between.   *)
(* UploadRequests implements it without any claim, MemoryRepository with.  *)
(***************************************************************************)
CONSTANTS Sessions, Digests, NoDigest

VARIABLES
    stage,   \* how far a session is
    frozen,  \* the part list of its completion, NoDigest before there is one
    made,    \* sessions whose file exists
    dirty,   \* sessions whose leftovers in storage are still to be removed
    claimed  \* the stage a claim in hand found its session in, "none" without one

lifecycleVars == <<stage, frozen, made, dirty, claimed>>

LifecycleInit ==
    /\ stage \in [Sessions -> {"absent", "open"}]
    /\ frozen = [s \in Sessions |-> NoDigest]
    /\ made = {}
    /\ dirty = {}
    /\ claimed = [s \in Sessions |-> "none"]

Enter(s, from, to) == stage[s] = from /\ stage' = [stage EXCEPT ![s] = to]

Open(s) == Enter(s, "absent", "open") /\ UNCHANGED <<frozen, made, dirty, claimed>>

Freeze(s, d) ==
    /\ Enter(s, "open", "frozen")
    /\ frozen' = [frozen EXCEPT ![s] = d]
    /\ UNCHANGED <<made, dirty, claimed>>

Store(s) == Enter(s, "frozen", "stored") /\ UNCHANGED <<frozen, made, dirty, claimed>>

Commit(s) ==
    /\ Enter(s, "stored", "committed")
    /\ made' = made \cup {s}
    /\ UNCHANGED <<frozen, dirty, claimed>>

\* Aborted or expired: only before a completion began.
Cancel(s) ==
    /\ Enter(s, "open", "cancelled")
    /\ dirty' = dirty \cup {s}
    /\ UNCHANGED <<frozen, made, claimed>>

\* Storage or the namespace does not admit what was uploaded.
Refuse(s) ==
    /\ Enter(s, "frozen", "refused") \/ Enter(s, "stored", "refused")
    /\ dirty' = dirty \cup {s}
    /\ UNCHANGED <<frozen, made, claimed>>

Clean(s) ==
    /\ stage[s] \in {"cancelled", "refused", "committed"}
    /\ dirty' = dirty \ {s}
    /\ UNCHANGED <<stage, frozen, made, claimed>>

Claim(s) ==
    /\ stage[s] # "absent"
    /\ claimed' = [claimed EXCEPT ![s] = stage[s]]
    /\ UNCHANGED <<stage, frozen, made, dirty>>

\* Where the claim in hand may leave its session.
Outcomes(s) ==
    LET commit == IF s \in made THEN {"committed"} ELSE {}
    IN  CASE claimed[s] = "open" -> {"cancelled"}
          [] claimed[s] = "frozen" -> {"frozen", "stored", "refused"} \cup commit
          [] claimed[s] = "stored" -> {"stored", "refused"} \cup commit
          [] OTHER -> {claimed[s]}

Settle(s) ==
    /\ claimed[s] # "none"
    /\ \E to \in Outcomes(s) : stage' = [stage EXCEPT ![s] = to]
    /\ dirty' \in {dirty \cup {s}, dirty \ {s}}
    /\ claimed' = [claimed EXCEPT ![s] = "none"]
    /\ UNCHANGED <<frozen, made>>

LifecycleNext ==
    \E s \in Sessions :
        \/ Open(s) \/ Store(s) \/ Commit(s) \/ Cancel(s) \/ Refuse(s) \/ Clean(s)
        \/ Claim(s) \/ Settle(s)
        \/ \E d \in Digests : Freeze(s, d)

LifecycleSpec == LifecycleInit /\ [][LifecycleNext]_lifecycleVars
=============================================================================
