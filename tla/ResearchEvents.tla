--------------------------- MODULE ResearchEvents ---------------------------
(***************************************************************************)
(* The data of a research ledger: its events, the quantities that          *)
(* kernel._reconstruct_state derives from a list of them, and the checks   *)
(* an append makes against those quantities.  Hash chain, timestamps and   *)
(* texts are abstracted: an event is its kind, its identifier and, for an  *)
(* action, its cost, and its place in the sequence stands for its hash.    *)
(***************************************************************************)
EXTENDS Naturals, Sequences, FiniteSets

CONSTANTS
    HypothesisIds, EvidenceIds, ActionIds,  \* identifiers callers may use
    NoId,        \* the identifier of an event that has none
    Costs,       \* cost_units a caller may charge for an action
    MaxActions,  \* budget.maximum_actions of the objective
    MaxCost      \* budget.maximum_cost_units of the objective

\* validate_objective and _validate_action_inputs accept nothing else.
ASSUME BudgetAssumption ==
    /\ MaxActions \in Nat \ {0}
    /\ MaxCost \in Nat
    /\ Costs \subseteq Nat

Kinds == {"objective_registered", "hypothesis_registered",
          "evidence_registered", "action_recorded", "research_stopped"}

AllIds == HypothesisIds \cup EvidenceIds \cup ActionIds

Event == [kind : Kinds, id : AllIds \cup {NoId}, cost : Nat]

Objective == [kind |-> "objective_registered", id |-> NoId, cost |-> 0]
Hypothesis(i) == [kind |-> "hypothesis_registered", id |-> i, cost |-> 0]
Evidence(i) == [kind |-> "evidence_registered", id |-> i, cost |-> 0]
Action(i, k) == [kind |-> "action_recorded", id |-> i, cost |-> k]
Stop == [kind |-> "research_stopped", id |-> NoId, cost |-> 0]

\* What one locked append adds: append_hypothesis, append_evidence,
\* append_action, append_action_and_stop (two events) and append_stop.
AppendRequest ==
    {<<Hypothesis(i)>> : i \in HypothesisIds} \cup
    {<<Evidence(i)>> : i \in EvidenceIds} \cup
    {<<Action(i, k)>> : i \in ActionIds, k \in Costs} \cup
    {<<Action(i, k), Stop>> : i \in ActionIds, k \in Costs} \cup
    {<<Stop>>}

Entries(l, kind) == {n \in DOMAIN l : l[n].kind = kind}

EventIds(l, kind) == {l[n].id : n \in Entries(l, kind)}

Stopped(l) == Entries(l, "research_stopped") # {}

ActionsUsed(l) == Cardinality(Entries(l, "action_recorded"))

\* The cost units charged so far, each named by the event that charged it:
\* their number is the sum _reconstruct_state takes over the actions.
CostUnits(l) ==
    UNION {{n} \X (1 .. l[n].cost) : n \in Entries(l, "action_recorded")}

CostUsed(l) == Cardinality(CostUnits(l))

\* Mutants of Admissible: the last action is let through twice, a registered
\* identifier is not looked up, the terminal status is not looked at.
AdmissibleOverBudget(l, r) ==
    /\ ~Stopped(l)
    /\ r[1].kind # "research_stopped" =>
           r[1].id \notin EventIds(l, r[1].kind)
    /\ r[1].kind = "action_recorded" => ActionsUsed(l) <= MaxActions

AdmissibleTwice(l, r) ==
    /\ ~Stopped(l)
    /\ r[1].kind = "action_recorded" =>
           /\ ActionsUsed(l) < MaxActions
           /\ CostUsed(l) + r[1].cost <= MaxCost

AdmissibleStopped(l, r) ==
    r[1].kind # "research_stopped" => r[1].id \notin EventIds(l, r[1].kind)

\* The checks under which an append is accepted, all of them made against the
\* ledger l that was read under the lock.
Admissible(l, r) ==
    /\ ~Stopped(l)
    /\ r[1].kind # "research_stopped" =>
           r[1].id \notin EventIds(l, r[1].kind)
    /\ r[1].kind = "action_recorded" =>
           /\ ActionsUsed(l) < MaxActions
           /\ CostUsed(l) + r[1].cost <= MaxCost

\* _reconstruct_state raises unless the objective comes first and the run is
\* stopped at most once.
Reconstructs(l) ==
    /\ l # <<>>
    /\ l[1] = Objective
    /\ Cardinality(Entries(l, "research_stopped")) <= 1

-----------------------------------------------------------------------------
(***************************************************************************)
(* What a well-kept ledger satisfies.                                      *)
(***************************************************************************)
BudgetKept(l) ==
    /\ ActionsUsed(l) <= MaxActions
    /\ CostUsed(l) <= MaxCost

IdsUnique(l) ==
    \A m, n \in DOMAIN l :
        (l[m].kind = l[n].kind /\ l[m].id = l[n].id) => m = n

StopLast(l) ==
    \A n \in DOMAIN l : l[n].kind = "research_stopped" => n = Len(l)
=============================================================================
