---------------------------- MODULE EpistemicGate ----------------------------
(***************************************************************************)
(* The gate in front of every automatic execution: which workstreams a     *)
(* node comes from, which verified relations into a target count for the   *)
(* selected workstream, and the directive they give.  The resolver walks   *)
(* the edges in the order of the file, depth first, and memoises.          *)
(*                                                                         *)
(* Recursion is written with functions whose domains are the points a      *)
(* call can be at, so that it can be reasoned about.                       *)
(***************************************************************************)
EXTENDS EpistemicGraph

CONSTANTS
    Workstream,  \* the selected workstream
    Targets      \* the selected targets, in the order given

\* The node at the other end of an edge of n, or n itself.
Other(e, n) == IF e.from = n THEN e.to ELSE IF e.to = n THEN e.from ELSE n

Own(g, n) == {g.nodes[n].workstream} \ {"none"}

\* Mutant of Traversed: hypotheses are no barrier.
TraversedAnywhere(g, e, n, path) ==
    /\ e.relation \in ProvenanceRelations
    /\ Other(e, n) \notin path

\* Hypotheses, claims, conclusions and questions are never walked through.
Traversed(g, e, n, path) ==
    /\ e.relation \in ProvenanceRelations
    /\ Other(e, n) \notin path
    /\ g.nodes[Other(e, n)].type \in ProvenanceTypes

-----------------------------------------------------------------------------
(***************************************************************************)
(* _source_workstreams                                                     *)
(***************************************************************************)
Streams(g) == UNION {Own(g, n) : n \in Ids(g)}

\* memo: the nodes that are resolved, and what was found for them.
Memos(g) == [known : SUBSET Ids(g), of : [Ids(g) -> SUBSET Streams(g)]]

NoMemo(g) == [known |-> {}, of |-> [n \in Ids(g) |-> {}]]

Remember(memo, n, found) ==
    [known |-> memo.known \cup {n}, of |-> [memo.of EXCEPT ![n] = found]]

Results(g) == [found : SUBSET Streams(g), memo : Memos(g)]

\* A call in progress: its node, the edge it looks at next, what it has found,
\* the memo, and the nodes on the path to it (visiting).
Points(g) ==
    [node : Ids(g), edge : 1 .. Len(g.edges) + 1, found : SUBSET Streams(g),
     memo : Memos(g), path : SUBSET Ids(g)]

Enter(g, n, memo, path) ==
    [node |-> n, edge |-> 1, found |-> Own(g, n), memo |-> memo,
     path |-> path \cup {n}]

Onward(p, there) ==
    [node |-> p.node, edge |-> p.edge + 1, found |-> p.found \cup there.found,
     memo |-> there.memo, path |-> p.path]

\* A call for n.  What it finds while other nodes are on the path is memoised
\* like any other result.
Resolve(g, walk, n, memo, path) ==
    IF n \in memo.known THEN [found |-> memo.of[n], memo |-> memo]
    ELSE LET all == walk[Enter(g, n, memo, path)]
         IN [found |-> all.found, memo |-> Remember(all.memo, n, all.found)]

WalkOn(g, walk, p) ==
    LET e == g.edges[p.edge]
    IN IF p.edge > Len(g.edges) THEN [found |-> p.found, memo |-> p.memo]
       ELSE IF Traversed(g, e, p.node, p.path)
       THEN walk[Onward(p, Resolve(g, walk, Other(e, p.node), p.memo, p.path))]
       ELSE walk[Onward(p, [found |-> {}, memo |-> p.memo])]

\* The result of the rest of a call.
Walk(g) == LET walk[p \in Points(g)] == WalkOn(g, walk, p) IN walk

Sources(g, n, memo) == Resolve(g, Walk(g), n, memo, {})

-----------------------------------------------------------------------------
(***************************************************************************)
(* _scope_evaluation_to_workstream                                         *)
(***************************************************************************)

\* The sources of a target: those of each edge into it, in order.
AddEdge(g, e, target, sofar) ==
    IF e.to = target /\ e.relation \in ProvenanceRelations
    THEN LET there == Sources(g, e.from, sofar.memo)
         IN [found |-> sofar.found \cup there.found, memo |-> there.memo]
    ELSE sofar

TargetSources(g, target, memo) ==
    LET upTo[i \in 0 .. Len(g.edges)] ==
            IF i = 0 THEN [found |-> {}, memo |-> memo]
            ELSE AddEdge(g, g.edges[i], target, upTo[i - 1])
    IN upTo[Len(g.edges)]

\* Every relation into a target was resolved with its sources, so relevance is
\* read from the memo.
Relevant(memo) == {n \in memo.known : Workstream \in memo.of[n]}

AddTarget(g, target, sofar) ==
    LET sources == TargetSources(g, target, sofar.memo)
    IN [bound |-> sofar.bound /\ Workstream \in sources.found,
        statuses |-> sofar.statuses \cup
            {Status(VerifiedRelations(g, target, Relevant(sources.memo)))},
        memo |-> sources.memo]

Scoped(g) ==
    LET upTo[i \in 0 .. Len(Targets)] ==
            IF i = 0 THEN [bound |-> TRUE, statuses |-> {}, memo |-> NoMemo(g)]
            ELSE AddTarget(g, Targets[i], upTo[i - 1])
    IN upTo[Len(Targets)]

\* evaluate_epistemic_gate: a target no selected evidence is upstream of is
\* refused with an exception.
GateOutcome(g) ==
    LET all == Scoped(g)
    IN IF all.bound THEN Directive(all.statuses) ELSE "unbound"

-----------------------------------------------------------------------------
(***************************************************************************)
(* What the resolver should find, without memo, order or recursion: the    *)
(* nodes whose own evidence is a workstream's, and all that provenance     *)
(* binds to them through nodes of the walked types.                        *)
(***************************************************************************)
OfStream(g, w) == {n \in Ids(g) : w \in Own(g, n)}

\* Whatever hangs on a walked node of S by a provenance edge is in S.
Closed(g, S) ==
    \A i \in DOMAIN g.edges :
        \A n \in {g.edges[i].from, g.edges[i].to} :
            /\ g.edges[i].relation \in ProvenanceRelations
            /\ Other(g.edges[i], n) \in S
            /\ g.nodes[Other(g.edges[i], n)].type \in ProvenanceTypes
            => n \in S

BoundTo(g, w) ==
    {n \in Ids(g) : \A S \in SUBSET Ids(g) :
        OfStream(g, w) \subseteq S /\ Closed(g, S) => n \in S}
=============================================================================
