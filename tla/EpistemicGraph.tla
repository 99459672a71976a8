--------------------------- MODULE EpistemicGraph ---------------------------
(***************************************************************************)
(* An epistemic graph and the two ways the program extends one: with the   *)
(* recorded result of an executed action, and with a result on which a     *)
(* verifier has decided.  A graph is never changed: each extension is a    *)
(* new graph that keeps the nodes and the edges of its parent, in order.   *)
(*                                                                         *)
(* A graph is [nodes, edges, lineage]: nodes maps an id to its type, the   *)
(* workstream its evidence is bound to and whether a verified relation may *)
(* start from it; lineage is record_only_transition_lineage.  Abstracted:  *)
(* statements, artifacts and their checksums, inactive edges.              *)
(***************************************************************************)
EXTENDS Naturals, Sequences, FiniteSets

InferenceRelations == {"supports", "contradicts", "falsifies"}
ProvenanceRelations ==
    InferenceRelations \cup {"tests", "depends_on", "produced_by", "addresses"}
Relations == ProvenanceRelations \cup {"motivates"}
Levels == {"proposal", "diagnostic", "domain_verified"}

ExecutableTypes == {"analysis", "simulation", "experiment"}
ProvenanceTypes == {"evidence"} \cup ExecutableTypes
TargetTypes == {"hypothesis", "claim", "conclusion"}

Ids(g) == DOMAIN g.nodes

Node(type, workstream, usable) ==
    [type |-> type, workstream |-> workstream, usable |-> usable]

Edge(from, to, relation, level) ==
    [from |-> from, to |-> to, relation |-> relation, level |-> level]

\* The relations that count for the verified status of a target: an edge of
\* the graph counts when its source is evidence of sufficient quality or an
\* execution that completed, and is one of the given sources.
VerifiedRelations(g, target, sources) ==
    {e.relation : e \in {g.edges[i] : i \in
        {j \in DOMAIN g.edges :
            /\ g.edges[j].to = target
            /\ g.edges[j].relation \in InferenceRelations
            /\ g.edges[j].level = "domain_verified"
            /\ g.nodes[g.edges[j].from].usable
            /\ g.edges[j].from \in sources}}}

\* _status_from_edges
Status(relations) ==
    IF "falsifies" \in relations THEN "falsified_within_verified_scope"
    ELSE IF {"supports", "contradicts"} \subseteq relations THEN "contested"
    ELSE IF "contradicts" \in relations
         THEN "contradicted_within_verified_scope"
    ELSE IF "supports" \in relations THEN "provisionally_supported"
    ELSE "inconclusive"

Assessment(g, target) ==
    Status(VerifiedRelations(g, target, Ids(g)))

\* The worst status of the targets decides.
Directive(statuses) ==
    IF "falsified_within_verified_scope" \in statuses
    THEN "stop_falsified_target"
    ELSE IF {"contested", "contradicted_within_verified_scope"} \cap statuses
            # {}
    THEN "manual_discrimination_required"
    ELSE IF "provisionally_supported" \in statuses
    THEN "domain_closeout_required"
    ELSE "continue_discriminating_research"

\* The nodes of a graph and one more.
WithNode(g, node, value) ==
    [n \in Ids(g) \cup {node} |-> IF n \in Ids(g) THEN g.nodes[n] ELSE value]

\* Successor after a local action: a completed one tests the target, a failed
\* one leaves a node that no edge leaves and no relation may start from.
Recorded(g, node, target, status) ==
    [nodes |-> WithNode(g, node,
                   Node("analysis", "none", status = "completed")),
     edges |-> IF status = "completed"
               THEN Append(g.edges, Edge(node, target, "tests", "proposal"))
               ELSE g.edges,
     lineage |-> Append(g.lineage, [node |-> node, status |-> status])]

\* Successor after apply_epistemic_transition_files: the result, that it tests
\* the target, and the inference, verified if a decision was given.
Transition(g, node, target, relation, verified) ==
    [nodes |-> WithNode(g, node, Node("analysis", "none", TRUE)),
     edges |-> g.edges \o
         <<Edge(node, target, "tests", "proposal"),
           Edge(node, target, relation,
                IF verified THEN "domain_verified" ELSE "proposal")>>,
     lineage |-> g.lineage]

\* What makes one graph a later version of another.
Extends(g, parent) ==
    /\ Ids(parent) \subseteq Ids(g)
    /\ \A n \in Ids(parent) : g.nodes[n] = parent.nodes[n]
    /\ Len(parent.edges) <= Len(g.edges)
    /\ \A i \in DOMAIN parent.edges : g.edges[i] = parent.edges[i]
    /\ Len(parent.lineage) <= Len(g.lineage)
    /\ \A i \in DOMAIN parent.lineage : g.lineage[i] = parent.lineage[i]
=============================================================================
