----------------------------- MODULE ClosedLoop -----------------------------
(***************************************************************************)
(* run_policy_authorized_closed_loop: a finite queue of predeclared        *)
(* requests, executed one per cycle.  Every cycle gates the current graph, *)
(* asks the planner, executes the head of the queue through the            *)
(* output-to-ledger transaction, and records the outcome as a successor    *)
(* graph, which the next cycle gates.  The invocation holds the ledger     *)
(* lock from start to end; it may crash or raise anywhere and be run again *)
(* with any graph and any queue.  Around it other executors run when the   *)
(* lock is free, reviewers add verified results to graphs, and the files   *)
(* the planner reads may be edited.                                        *)
(*                                                                         *)
(* The planner is abstract: its verdict is an action type or a reason not  *)
(* to act, chosen anew whenever the ledger changes.  The transaction is    *)
(* ActionTransaction's, reduced to what the loop sees of it: a report      *)
(* published under a journal, the ledger entry, the journal's removal.     *)
(***************************************************************************)
EXTENDS EpistemicGraph

CONSTANTS
    NodeIds,        \* ids of graph nodes
    Requests,       \* ids of the requests, of their actions and result nodes
    Type(_),        \* the action type of a request
    Types,          \* the action types the planner may select
    Refusals,       \* the reasons it may have not to select one
    Queues,         \* the request queues an invocation may be given
    Target,         \* the target the records name
    Reviewed,       \* ids of results that reviewers add to graphs ...
    ReviewedAs,     \* ... and [relation, verified] they may have
    InitialGraphs,  \* graphs that exist before the first invocation
    Gate(_),        \* outcome of the epistemic gate on a graph
    MaxCycles,      \* max_cycles
    MaxInterrupts,  \* bound: crashes of, and exceptions in, an invocation
    MaxEdits        \* bound: edits of the planner's files

Edges == [from : NodeIds, to : NodeIds, relation : Relations, level : Levels]

ASSUME ClosedLoopAssumption ==
    /\ \A r \in Requests : Type(r) \in Types
    /\ Refusals \subseteq {"stopped_current_scope", "manual_review_required",
                           "blocked", "authorization_denied"}
    /\ Types \cap Refusals = {} /\ Types # {} /\ Refusals # {}
    /\ Requests \cap Reviewed = {}
    /\ Requests \cup Reviewed \cup {Target} \subseteq NodeIds
    /\ ReviewedAs \subseteq [relation : InferenceRelations, verified : BOOLEAN]
    /\ \A q \in Queues : q \in Seq(Requests)
    /\ \A q \in Queues : \A i, j \in DOMAIN q : q[i] = q[j] => i = j
    /\ {MaxInterrupts, MaxEdits} \subseteq Nat
    /\ MaxCycles \in Nat \ {0}
    /\ \A g \in InitialGraphs : g.edges \in Seq(Edges) /\ g.lineage = <<>>

VARIABLES
    disk,     \* the graphs on disk
    ledger,   \* sequence of [node, status]: the recorded actions
    journal,  \* status of a request's published report while its
              \*   transaction is open, "none" otherwise
    verdict,  \* what the planner says of the current ledger and files
    pc,       \* where the invocation is; the lock is free when "idle"
    queue, next, cycle,  \* of the invocation: queue, request_index + 1
    graph,    \* current_graph_value
    gated,    \* the graph the gate last evaluated
    before, after,  \* the state fingerprints around the execution
    verified, \* length of the ledger the result was verified against
    seen,     \* seen_after_fingerprints
    base,     \* length of the ledger when the invocation began
    status,   \* program_status, when the invocation returns
    interrupts, edits

world == <<disk, ledger, journal, verdict>>
memory == <<queue, cycle, base>>
prints == <<before, after, seen, verified>>
counters == <<interrupts, edits>>
vars == <<world, pc, memory, next, graph, gated, prints, status, counters>>

Stages == {"idle", "gate", "probe", "execute", "append", "finish", "record",
           "manifest", "advance", "returned"}

NoGraph == [nodes |-> <<>>, edges |-> <<>>, lineage |-> <<>>]

Verdicts == Types \cup Refusals

\* Mutant of Fingerprint: without the evidence bindings.
SelectionOnly == <<verdict, 0>>

\* _state_fingerprint: the evidence bindings in it hold the ledger's checksum.
Fingerprint == <<verdict, Len(ledger)>>

Ledgered(r) == \E i \in DOMAIN ledger : ledger[i].node = r

NoPrint == <<"none", 0>>

Init ==
    /\ \E g \in InitialGraphs : disk = {g}
    /\ ledger = <<>>
    /\ journal = [r \in Requests |-> "none"]
    /\ verdict \in Types
    /\ pc = "idle"
    /\ queue = <<>> /\ next = 1 /\ cycle = 1 /\ base = 0
    /\ graph = NoGraph /\ gated = NoGraph
    /\ before = NoPrint /\ after = NoPrint /\ seen = {}
    /\ verified = 0
    /\ status = "none"
    /\ interrupts = 0 /\ edits = 0

-----------------------------------------------------------------------------
\* Mutant of LockIsFree: the lock covers each execution, not the invocation.
LockedWhileExecuting == pc \notin {"execute", "append", "finish"}

\* Whether another process can take the ledger lock.
LockIsFree == pc = "idle"

Return(outcome) == pc' = "returned" /\ status' = outcome

Collides(g, q, first) ==
    \E i \in DOMAIN q : i >= first /\ q[i] \in Ids(g)

\* A fresh output directory; a graph whose nodes collide is refused.
Start(g, q) ==
    /\ pc = "idle"
    /\ ~Collides(g, q, 1)
    /\ pc' = "gate"
    /\ queue' = q /\ next' = 1 /\ cycle' = 1 /\ base' = Len(ledger)
    /\ graph' = g
    /\ UNCHANGED <<world, gated, prints, status, counters>>

Stop(directive) ==
    CASE directive = "stop_falsified_target" -> "epistemic_falsification_stop"
      [] directive = "manual_discrimination_required" ->
             "epistemic_discrimination_required"
      [] directive = "domain_closeout_required" ->
             "epistemic_domain_closeout_required"
      [] OTHER -> "raised"

\* The remaining records are checked against the graph, then the gate is.
Evaluate ==
    /\ pc = "gate"
    /\ gated' = graph
    /\ IF Collides(graph, queue, next) THEN Return("raised")
       ELSE IF Gate(graph) = "continue_discriminating_research"
       THEN pc' = "probe" /\ UNCHANGED status
       ELSE Return(Stop(Gate(graph)))
    /\ UNCHANGED <<world, memory, next, graph, prints, counters>>

\* Mutant of Probe: it polls for the authorization.
ProbeAgain ==
    /\ pc = "probe"
    /\ before' = Fingerprint
    /\ IF verdict = "authorization_denied"
       THEN pc' = "gate" /\ UNCHANGED status
       ELSE IF verdict \in Refusals THEN Return(verdict)
       ELSE IF next > Len(queue) THEN Return("predeclared_request_required")
       ELSE IF Type(queue[next]) # verdict THEN Return("raised")
       ELSE pc' = "execute" /\ UNCHANGED status
    /\ UNCHANGED <<world, memory, next, graph, gated, after, seen, verified,
                   counters>>

\* run_research_cycle without a request.  A request of another type than the
\* planner's is an exception.
Probe ==
    /\ pc = "probe"
    /\ before' = Fingerprint
    /\ IF verdict \in Refusals THEN Return(verdict)
       ELSE IF next > Len(queue) THEN Return("predeclared_request_required")
       ELSE IF Type(queue[next]) # verdict THEN Return("raised")
       ELSE pc' = "execute" /\ UNCHANGED status
    /\ UNCHANGED <<world, memory, next, graph, gated, after, seen, verified,
                   counters>>

-----------------------------------------------------------------------------
(***************************************************************************)
(* run_pinned_research_cycle                                               *)
(***************************************************************************)
Request == queue[next]

AuthorizationDenied ==
    /\ pc = "execute" /\ verdict \in Refusals
    /\ Return("execution_cycle_not_completed")
    /\ UNCHANGED <<world, memory, next, graph, gated, prints, counters>>

\* Mutant of Recover: a published transaction is appended in any case.
RecoverAlwaysAppends ==
    /\ pc = "execute" /\ verdict \notin Refusals
    /\ journal[Request] # "none"
    /\ pc' = "append"
    /\ UNCHANGED <<world, memory, next, graph, gated, prints, status,
                   counters>>

\* The transaction an earlier invocation of this request left open is settled
\* before anything is authorized.
Recover ==
    /\ pc = "execute" /\ verdict \notin Refusals
    /\ journal[Request] # "none"
    /\ pc' = IF Ledgered(Request) THEN "finish" ELSE "append"
    /\ UNCHANGED <<world, memory, next, graph, gated, prints, status,
                   counters>>

\* Mutant of Execute: an action that is in the ledger counts as executed.
ExecuteOrReuse ==
    /\ pc = "execute" /\ verdict \notin Refusals
    /\ journal[Request] = "none"
    /\ IF Ledgered(Request)
       THEN pc' = "finish" /\ UNCHANGED <<journal, status>>
       ELSE IF Type(Request) # verdict
       THEN Return("raised") /\ UNCHANGED journal
       ELSE /\ \E s \in {"completed", "failed"} :
                   journal' = [journal EXCEPT ![Request] = s]
            /\ pc' = "append" /\ UNCHANGED status
    /\ UNCHANGED <<disk, ledger, verdict, memory, next, graph, gated, prints,
                   counters>>

\* The executor runs and publishes its report, unless the request's type is
\* no longer selected or its action is in the ledger already.
Execute ==
    /\ pc = "execute" /\ verdict \notin Refusals
    /\ journal[Request] = "none"
    /\ IF Ledgered(Request) \/ Type(Request) # verdict
       THEN Return("raised") /\ UNCHANGED journal
       ELSE /\ \E s \in {"completed", "failed"} :
                   journal' = [journal EXCEPT ![Request] = s]
            /\ pc' = "append" /\ UNCHANGED status
    /\ UNCHANGED <<disk, ledger, verdict, memory, next, graph, gated, prints,
                   counters>>

\* The ledger grows and the planner looks again.  After a failed action it
\* proposes nothing.
LedgerAppend(r, s) ==
    /\ ledger' = Append(ledger, [node |-> r, status |-> s])
    /\ verdict' \in IF s = "failed" THEN Refusals ELSE Verdicts

AppendToLedger ==
    /\ pc = "append"
    /\ LedgerAppend(Request, journal[Request])
    /\ pc' = "finish"
    /\ UNCHANGED <<disk, journal, memory, next, graph, gated, prints, status,
                   counters>>

\* Committed, verified and cleaned up; the planning state is built again.
Finish ==
    /\ pc = "finish"
    /\ journal' = [journal EXCEPT ![Request] = "none"]
    /\ after' = Fingerprint /\ verified' = Len(ledger)
    /\ pc' = "record"
    /\ UNCHANGED <<disk, ledger, verdict, memory, next, graph, gated, before,
                   seen, status, counters>>

-----------------------------------------------------------------------------
\* Mutant of Outcome: the journal's word for it.
Claimed(r) == "completed"

\* The status the ledger holds for the action of a request.
Outcome(r) ==
    ledger[CHOOSE i \in DOMAIN ledger : ledger[i].node = r].status

Successor(r) == Recorded(graph, r, Target, Outcome(r))

(***************************************************************************)
(* _apply_record_only_action_result: the graph is written, then the        *)
(* manifest of the transition, into a directory that an exception removes. *)
(***************************************************************************)
\* It refuses a ledger that has moved since the result was verified, a result
\* the graph has, and a successor that changes an assessment.
RecordGraph ==
    /\ pc = "record"
    /\ IF \/ Len(ledger) # verified
          \/ Request \in Ids(graph)
          \/ Assessment(Successor(Request), Target) # Assessment(graph, Target)
       THEN Return("raised") /\ UNCHANGED disk
       ELSE /\ disk' = disk \cup {Successor(Request)}
            /\ pc' = "manifest" /\ UNCHANGED status
    /\ UNCHANGED <<ledger, journal, verdict, memory, next, graph, gated,
                   prints, counters>>

\* The manifest is there, and the loop goes on with the successor.
RecordManifest ==
    /\ pc = "manifest"
    /\ graph' = Successor(Request)
    /\ next' = next + 1
    /\ pc' = "advance"
    /\ UNCHANGED <<world, memory, gated, prints, status, counters>>

\* An exception after the graph was written: the handler removes the graph.
\* Where rmtree fails, its errors ignored, the graph stays: an Interrupt.
RecordFails ==
    /\ pc = "manifest" /\ interrupts < MaxInterrupts
    /\ interrupts' = interrupts + 1
    /\ disk' = disk \ {Successor(Request)}
    /\ Return("interrupted")
    /\ UNCHANGED <<ledger, journal, verdict, memory, next, graph, gated,
                   prints, edits>>

\* Mutant of LimitReached: one cycle too many.
LimitExceeded == cycle > MaxCycles

LimitReached == cycle = MaxCycles

\* Mutant of CycleStart: the successor is not gated.
CycleStartUngated == "probe"

\* Where the next cycle begins.
CycleStart == "gate"

\* The loop's end of a cycle.
Advance ==
    /\ pc = "advance"
    /\ seen' = seen \cup {after}
    /\ IF after = before \/ after \in seen
       THEN Return("stopped_no_verified_planning_progress") /\ UNCHANGED cycle
       ELSE IF after[1] \in Refusals \ {"authorization_denied"}
       THEN Return(after[1]) /\ UNCHANGED cycle
       ELSE IF LimitReached
       THEN Return("cycle_limit_reached") /\ UNCHANGED cycle
       ELSE pc' = CycleStart /\ cycle' = cycle + 1 /\ UNCHANGED status
    /\ UNCHANGED <<world, queue, base, next, graph, gated, before, after,
                   verified, counters>>

\* The result is returned, or the exception leaves: the lock is released and
\* the memory of the invocation is gone.
Leave ==
    /\ pc = "returned"
    /\ pc' = "idle" /\ status' = "none"
    /\ queue' = <<>> /\ next' = 1 /\ cycle' = 1 /\ base' = 0
    /\ graph' = NoGraph /\ gated' = NoGraph
    /\ before' = NoPrint /\ after' = NoPrint /\ seen' = {} /\ verified' = 0
    /\ UNCHANGED <<world, counters>>

-----------------------------------------------------------------------------
(***************************************************************************)
(* Failures, and everybody else.                                           *)
(***************************************************************************)
\* The process dies, or any of the calls it makes raises (the ledger's refusal
\* of an append for want of budget among them): the lock is gone, the files
\* stay.
Interrupt ==
    /\ pc \notin {"idle", "returned"} /\ interrupts < MaxInterrupts
    /\ interrupts' = interrupts + 1
    /\ Return("interrupted")
    /\ UNCHANGED <<world, memory, next, graph, gated, prints, edits>>

Around == <<pc, memory, next, graph, gated, prints, status, interrupts>>

\* Another invocation executes one action, or settles an open transaction.
OtherExecutes(r) ==
    /\ LockIsFree
    /\ Type(r) = verdict /\ ~Ledgered(r) /\ journal[r] = "none"
    /\ \E s \in {"completed", "failed"} : LedgerAppend(r, s)
    /\ UNCHANGED <<disk, journal, Around, edits>>

OtherRecovers(r) ==
    /\ LockIsFree
    /\ journal[r] # "none"
    /\ journal' = [journal EXCEPT ![r] = "none"]
    /\ IF Ledgered(r) THEN UNCHANGED <<ledger, verdict>>
       ELSE LedgerAppend(r, journal[r])
    /\ UNCHANGED <<disk, Around, edits>>

\* apply_epistemic_transition_files takes no lock.
Review(g, n, review) ==
    /\ n \notin Ids(g)
    /\ \A h \in disk : n \notin Ids(h)
    /\ disk' = disk \cup {Transition(g, n, Target, review.relation,
                                 review.verified)}
    /\ UNCHANGED <<ledger, journal, verdict, Around, edits>>

Edit ==
    /\ edits < MaxEdits
    /\ edits' = edits + 1
    /\ verdict' \in Verdicts
    /\ UNCHANGED <<disk, ledger, journal, Around>>

Loop ==
    \/ Evaluate \/ Probe \/ AuthorizationDenied \/ Recover \/ Execute
    \/ AppendToLedger \/ Finish \/ RecordGraph \/ RecordManifest \/ Advance
    \/ Leave

Next ==
    \/ \E g \in disk, q \in Queues : Start(g, q)
    \/ Loop \/ RecordFails \/ Interrupt \/ Edit
    \/ \E r \in Requests : OtherExecutes(r) \/ OtherRecovers(r)
    \/ \E g \in disk, n \in Reviewed, review \in ReviewedAs :
           Review(g, n, review)

Spec == Init /\ [][Next]_vars

\* An invocation that runs takes its next step; nobody is obliged to start
\* one.  Loop is enabled exactly while an invocation runs, so this is weak
\* fairness of Loop, without ENABLED.
FairSpec == Spec /\ ([]<>(pc = "idle") \/ []<><<Loop>>_vars)

-----------------------------------------------------------------------------
(***************************************************************************)
(* Properties.                                                             *)
(***************************************************************************)
Entries == [node : Requests, status : {"completed", "failed"}]

\* A request is in hand.
Acting == pc \in {"execute", "append", "finish", "record", "manifest"}

TypeOK ==
    /\ ledger \in Seq(Entries)
    /\ journal \in [Requests -> {"none", "completed", "failed"}]
    /\ verdict \in Verdicts
    /\ pc \in Stages
    /\ queue \in Queues \cup {<<>>}
    /\ next \in Nat \ {0} /\ cycle \in 1 .. MaxCycles /\ base \in Nat
    /\ Acting => next <= Len(queue)
    /\ interrupts \in 0 .. MaxInterrupts /\ edits \in 0 .. MaxEdits

\* A cycle acts only under a gate that was evaluated on the graph the previous
\* cycle produced, and that permitted it.
ActsOnGatedGraph ==
    Acting => gated = graph /\ Gate(graph) = "continue_discriminating_research"

\* No action is executed twice, whatever is interrupted, recovered and run
\* again with an old graph.
ExecutedOnce ==
    \A i, j \in DOMAIN ledger : ledger[i].node = ledger[j].node => i = j

\* Whatever a graph on disk records was executed, with that outcome.
LineageIsLedgered ==
    \A g \in disk : \A i \in DOMAIN g.lineage :
        \E j \in DOMAIN ledger : ledger[j] = g.lineage[i]

\* Statuses of an invocation that ran to its end.
Ended == Refusals \cup
    {"epistemic_falsification_stop", "epistemic_discrimination_required",
     "epistemic_domain_closeout_required", "predeclared_request_required",
     "stopped_no_verified_planning_progress", "cycle_limit_reached",
     "execution_cycle_not_completed"}

\* When an invocation returns, every action the ledger gained since it began
\* is recorded in the graph it returns.
ReturnAccountsForActions ==
    status \in Ended =>
        \A i \in base + 1 .. Len(ledger) :
            \E j \in DOMAIN graph.lineage : graph.lineage[j] = ledger[i]

\* The loop stops for want of progress only when the cycle settled an
\* execution that was in the ledger before it: an action it executed is
\* progress.
NoProgressIsRecovery ==
    status = "stopped_no_verified_planning_progress" =>
        \E i \in 1 .. base : ledger[i] = graph.lineage[Len(graph.lineage)]

\* The graphs on disk evolve as GraphHistory says, the one whose manifest is
\* not written being the one that may be withdrawn.
History == INSTANCE GraphHistory WITH
    graphs <- disk,
    pending <- IF pc = "manifest" THEN {Successor(Request)} ELSE {}
RefinesHistory == History!Spec

\* The loop, its recoveries and the executors around it keep the protocol of
\* an action, the one that ActionTransaction keeps.
Protocol == INSTANCE ActionProtocol WITH
    Actions <- Requests,
    open <- journal,
    recorded <- [r \in Requests |-> IF Ledgered(r) THEN Outcome(r) ELSE "none"]
RefinesProtocol == Protocol!ProtocolSpec

\* At most so many steps of its own are left of an invocation.
StepsLeft ==
    IF pc = "idle" THEN 0 ELSE IF pc = "returned" THEN 1
    ELSE 8 * (MaxCycles - cycle)
         + [gate |-> 9, probe |-> 8, execute |-> 7, append |-> 6, finish |-> 5,
            record |-> 4, manifest |-> 3, advance |-> 2][pc]

\* Each of its steps brings the end nearer, and nobody else pushes it away.
EndIsNearer ==
    [][/\ Loop => StepsLeft' < StepsLeft
       /\ pc # "idle" => StepsLeft' <= StepsLeft]_vars

\* An invocation comes to an end.
LoopEnds == pc # "idle" ~> pc = "idle"
=============================================================================
