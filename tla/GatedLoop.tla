------------------------------ MODULE GatedLoop ------------------------------
(***************************************************************************)
(* The closed loop and its gate together: ClosedLoop whose constant Gate   *)
(* is EpistemicGate's GateOutcome.                                         *)
(***************************************************************************)
EXTENDS ClosedLoop, EpistemicGate

\* What validate_epistemic_graph accepts: edges between nodes of the graph.
Validated(g) ==
    /\ IsFiniteSet(Ids(g))
    /\ g.edges \in
           Seq([from : Ids(g), to : Ids(g), relation : Relations, level : Levels])

ASSUME GatedAssumption ==
    /\ Targets \in Seq(NodeIds)
    /\ Workstream # "none"
    /\ \A g \in InitialGraphs : Target \in Ids(g) /\ Validated(g)

\* How much a directive stops.
Severity(directive) ==
    CASE directive = "stop_falsified_target" -> 3
      [] directive = "manual_discrimination_required" -> 2
      [] directive = "domain_closeout_required" -> 1
      [] OTHER -> 0

\* What the results of some nodes, and no others, would have the gate do.
Demanded(g, nodes) ==
    Severity(Directive({Status(VerifiedRelations(g, Targets[i], nodes)) :
                            i \in DOMAIN Targets}))

\* The gate stops for what the verified relations that provenance binds to the
\* selected workstream say, never for another workstream's; and it never stops
\* for less than the evidence of the workstream itself says.
GateIsBounded ==
    gated # NoGraph /\ Gate(gated) # "unbound" =>
        /\ Demanded(gated, OfStream(gated, Workstream)) <= Severity(Gate(gated))
        /\ Severity(Gate(gated)) <= Demanded(gated, BoundTo(gated, Workstream))

\* "A verified falsification must not be ignored simply because another request
\* remains in a queue": the loop does not act on a target that a usable result
\* falsifies, verified by a domain verifier, unless that result comes from
\* another workstream.
FalsificationStopsLoop ==
    Acting => "falsifies" \notin VerifiedRelations(graph, Target,
        {n \in Ids(graph) :
            \A w \in Streams(graph) \ {Workstream} : n \notin BoundTo(graph, w)})

\* A cycle executes an action only while the verified results of the selected
\* workstream's own evidence say nothing of any selected target: the part of
\* "a verified falsification must not be ignored" that holds on every graph,
\* in any order of its edges.
OwnEvidenceIsHeeded ==
    Acting => \A i \in DOMAIN Targets :
        VerifiedRelations(graph, Targets[i], OfStream(graph, Workstream)) = {}

\* The record of an executed action is never refused, for a ledger that moved,
\* a node the graph has or an assessment that changes: what the ledger gained
\* in a cycle gets into a graph unless the process dies or an exception
\* interrupts it between the two.
RecordSucceeds == [][RecordGraph => pc' = "manifest"]_vars
=============================================================================
