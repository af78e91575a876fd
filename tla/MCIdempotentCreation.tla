------------------------ MODULE MCIdempotentCreation ------------------------
EXTENDS IdempotentCreation, TLC

Symmetric == Permutations(Attempts) \cup Permutations(Digests)

\* Attempts of different scopes share nothing: all have the same one.
SameScope ==
    \A a, b \in Attempts :
        att[a].pc # "new" /\ att[b].pc # "new" => att[a].scope = att[b].scope
=============================================================================
