---------------------------- MODULE MCClosedLoop ----------------------------
(***************************************************************************)
(* Small instances of ClosedLoop with the real gate: hypothesis T, the     *)
(* workstream's evidence A, another workstream's evidence C and an earlier *)
(* analysis B, with the edges of a configuration in every order.           *)
(***************************************************************************)
EXTENDS GatedLoop, SequencesExt

MCType(r) == "audit"

MCTargets == <<Target>>
TwoQueues == {<<"r1", "r2">>, <<"r2">>}
OneQueue == {<<"r1">>}

Nodes == ("T" :> Node("hypothesis", "none", FALSE))
      @@ ("A" :> Node("evidence", "here", TRUE))
      @@ ("B" :> Node("analysis", "none", TRUE))
      @@ ("C" :> Node("evidence", "elsewhere", TRUE))

Binding == Edge("A", "T", "supports", "proposal")
Falsified == Edge("B", "T", "falsifies", "domain_verified")
DependsOnA == Edge("B", "A", "depends_on", "proposal")
ByAnother == Edge("C", "T", "falsifies", "domain_verified")
Supported == Edge("A", "T", "supports", "domain_verified")

Graph(edges) == [nodes |-> Nodes, edges |-> edges, lineage |-> <<>>]

MixedGraphs == {Graph(s) : s \in {<<ByAnother, Binding>>, <<Supported>>,
    <<Falsified, Binding, DependsOnA>>, <<Binding, Falsified, DependsOnA>>}}
PlainGraph == {Graph(<<Binding>>)}
AnalysedGraphs ==
    {Graph(s) : s \in SetToSeqs({Binding, DependsOnA, Falsified})}

VerifiedFalsification == {[relation |-> "falsifies", verified |-> TRUE]}
NoReview == {}

=============================================================================
