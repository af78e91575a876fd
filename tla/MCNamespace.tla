---------------------------- MODULE MCNamespace ----------------------------
\* Instances of Namespace for TLC.
EXTENDS NamespaceTree, FiniteSets, TLC

\* Node ids other than the root's, names and requests are interchangeable.
Symmetric == Permutations(Nodes \ {Root}) \cup Permutations(Names) \cup Permutations(Actors)
\* A request whose revision is out of date is refused and leaves, so it is
\* followed only while no other request is under way.
Stale(a) ==
    req[a].pc = "sent" /\ req[a].op \notin {"mkdir", "commit"} /\ ~Current(req[a])

StaleAlone == \A a \in Actors : Stale(a) => \A b \in Actors \ {a} : req[b].pc = "idle"
=============================================================================
