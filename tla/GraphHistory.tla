---------------------------- MODULE GraphHistory ----------------------------
(***************************************************************************)
(* What the program promises of epistemic graphs: every new one is a later *)
(* version of one that exists, with exactly one node more, and none is     *)
(* ever changed or removed, but for the version that is being published:   *)
(* it may be withdrawn, and with it nothing that was there before.         *)
(***************************************************************************)
EXTENDS EpistemicGraph

CONSTANT InitialGraphs

VARIABLES
    graphs,   \* the graphs that exist
    pending   \* the version that is being published, if any: a set

Init ==
    /\ \E g \in InitialGraphs : graphs = {g}
    /\ pending = {}

\* g is a version of parent with one node more.
NextVersion(g, parent) ==
    /\ Extends(g, parent)
    /\ \E n \in Ids(g) \ Ids(parent) : Ids(g) = Ids(parent) \cup {n}

\* A version comes to be at once, whoever publishes meanwhile ...
AddVersion ==
    \E parent \in graphs, g \in graphs' :
        /\ NextVersion(g, parent)
        /\ graphs' = graphs \cup {g}
        /\ pending' = pending

\* ... or is published in two steps, being new,
PublishVersion ==
    \E parent \in graphs, g \in graphs' \ graphs :
        /\ NextVersion(g, parent)
        /\ graphs' = graphs \cup {g}
        /\ pending = {} /\ pending' = {g}

\* the second of which settles it
Settle == pending' = {} /\ graphs' = graphs

\* or withdraws it.
Withdraw == pending' = {} /\ graphs' = graphs \ pending

Next == AddVersion \/ PublishVersion \/ Settle \/ Withdraw

Spec == Init /\ [][Next]_<<graphs, pending>>
=============================================================================
