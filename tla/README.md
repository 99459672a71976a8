# Verification of the materials-data-analyzer research core

TLA+ modules, TLC configurations and TLAPS proofs about the parts of this
repository in which several processes, crashes, retries or long protocols meet:
the ledger of a research run, the transaction that ties an action's output files
to that ledger, the directory replacement every result is published through, the
closed loop that executes a queue of requests under an epistemic gate, the
persistent episodes, and the resumable acquisition of structures.

Run inside this directory: `tlc -config X.cfg M` for a run, `tlapm M.tla` for a
proof module. `PROJECT.json` lists components, runs, the mutant each property
rejects, the source lines behind every definition, hazards, findings, theorems.

## Inventory

Paths are relative to the repository root; `research_loop/` stands for
`src/materials_data_analyzer/research_loop/`.

| Component | State | Operations | Hard part | Correct if |
| --- | --- | --- | --- | --- |
| Ledger kernel, `research_loop/kernel.py` | `research_ledger.jsonl`, `research_state.json`, `.research_ledger.lock` | initialize, append (hypothesis, evidence, action, action and stop, stop), load, verify | concurrent writers and readers, two files that cannot be replaced together, legacy runs without lock file | one atomic, append-only record within its budget; torn writes fail closed |
| Output-to-ledger transaction, `action_output_ledger_transaction.py`, `action_output_journalless_recovery.py` | journal with phase, copies of the analysis run's mutable files | prepare, recover, recover without journal, mark, clean up | crash between any two file operations, crash of the recovery | ledger and outputs agree; an unfinished action leaves no trace; a finished one is completed |
| Authorized execution, `authorized_execution_nasa_legacy.py` and the NIST, heat, IN625 routes | none of its own: runs the transaction under the ledger lock | recover, authorize, execute, verify, clean up | order of the steps; what a retry finds | executed once, recovered before anything else |
| Executors, `nasa_*_action.py`, `nasa_audit_executor.py` | analysis run, action directories | preflight, analyse, publish, append, roll back | exceptions after partial success | failed action restores its inputs |
| Planner, `nasa_action_policy.py` | reads the ledger | select next action | stale or failed predecessors | never repeats a recorded action |
| Output directory, `src/platform_core/output_safety.py` | target, backup, staging directories | replace a directory by a finished one | crash between renames, concurrent callers, failing renames | prior run kept, nothing foreign or unfinished touched |
| Closed loop, `policy_authorized_closed_loop*.py`, `pinned_cycle_execution.py` | cycle, queue position, graph, fingerprints | gate, probe, execute, record, gate again | old graphs and open transactions of earlier invocations, everybody who acts meanwhile | acts only on gated graphs, executes nothing twice, records what it did, ends |
| Epistemic graph, gate, transitions, `epistemic_*.py` | immutable graph versions | assess, resolve provenance, extend | order of edges, memoised recursion | the gate stops for what verified results of its workstream say |
| Episodes, `research_episode*.py` | one checkpoint file, its temporary file | init, record, run a bounded loop | no lock, one temporary name, deaths between system calls | a committed step is neither lost nor done again |
| Structure enrichment, `src/platform_core/materials_project_structure_enrichment.py` | chunks and their manifests, plan, acquisition manifest | plan, preview, resume, fetch, report | resumption under another plan, wrong answers, deaths | what was reported is on disk |
| Resource budget and cycle controller, `recursive_resource_budget.py`, `recursive_research_cycle_controller.py` | chained budgets and checkpoints | apply, validate | boundaries, order of stop reasons | no cycle beyond the budget |
| Materials Project acquisition, `connectors/materials_project_acquisition.py` | four output files | preflight, acquire with retry | partial writes, version drift | manifest describes the files beside it |
| Run registry, `platform_core/run_registry.py` | SQLite database | register, query | transactions | rows match artifacts |
| Autonomous production driver | cycle records | bounded outer loop over services | composition | bounded |
| Analyzers, features, loaders, reports, command line, evidence policies | none or in-memory | computation, parsing, I/O | none a model reaches | (unit tests) |

Interactions. An authorized execution takes the kernel's lock
(`shared_research_ledger_transaction_lock`) and holds it from recovery to
cleanup; the nested appends and reads of the executor reuse it through a
context variable. The closed loop takes the same lock for the whole of an
invocation and executes through the same transaction; graphs are files of their
own that nothing locks, extended by the loop and by reviewers' transitions.
Executors publish `action_result.json` through
`transactional_output_directory` and then append to the ledger. The planner
reads ledger and reports. Episodes and enrichment each own one directory.
Nothing communicates by messages: all interaction is through files, renames and
one advisory lock, so crashes and the order of file operations are what there is
to get wrong. `hazards` in PROJECT.json lists each at its line, those of
unmodelled components included.

## Modules

| Module | Extends or instantiates | Checked in | Proved in |
| --- | --- | --- | --- |
| `ResearchEvents`, `ResearchLedger`, `RunRecord` (abstract) | ledger extends events, refines record | `MCResearchLedger` | `ResearchEventsProofs`, `ResearchLedgerProofs` |
| `ActionTransaction`, `ActionProtocol` (abstract) | transaction refines protocol | `MCActionTransaction` | `ActionTransactionProofs` |
| `OutputDirectory` | | `MCOutputDirectory` | `OutputDirectoryProofs` |
| `EpistemicGraph`, `EpistemicGate`, `ClosedLoop`, `GraphHistory` (abstract) | gate and loop extend graph; the loop takes a gate as a constant, refines history and `ActionProtocol` | `MCClosedLoop` | `ClosedLoopProofs` |
| `GatedLoop` | composes loop and gate | `MCClosedLoop` extends it | `GatedLoopProofs` |
| `PersistentEpisode` | | `MCPersistentEpisode` | `EpisodeProofs` |
| `StructureEnrichment` | | `MCStructureEnrichment` | `EnrichmentProofs` |

### ResearchEvents, ResearchLedger, RunRecord

`ResearchEvents` is the data: events (kind, identifier, cost), what
`_reconstruct_state` derives from a list of them (`Stopped`, `ActionsUsed`,
`CostUsed`) and the checks of an append (`Admissible`). The sum of costs is
written as the cardinality of the set of charged units, `CostUnits`, which
needs no recursion and can be proved about. Hash chain, timestamps and texts
are abstracted to an event's place and identity.

`ResearchLedger` is `kernel.py` with any number of clients, one action per step
between which others may run:

| Code | Actions |
| --- | --- |
| `_ensure_lock_file`, `_load_consistent_read` (choice of path) | `EnsureLockFile`, `FindLockFile` |
| `_lock_existing_ledger` | `AcquireLock`, `Finish` (release) |
| `_read_ledger`, snapshot comparison in `_load_verified_run` | `ReadLedger`, `CompareSnapshot`, `RaiseMismatch` |
| second look for the lock in `_load_consistent_read` | `RepeatUnderLock`, `ReturnBare` |
| duplicate, budget and terminal checks | `RefuseAppend`, guard of `ReplaceLedger` |
| `_write_run_state`: ledger, then snapshot | `ReplaceLedger`, `ReplaceSnapshot` |
| death of a process, a file operation that raises | `Interrupt` |

`told` is a history variable: what each client was last answered.

`RunRecord` is what the kernel promises: one record, requests accepted whole,
answers that are the record at that moment, and a record closed for good when
the author of an accepted request is lost before its answer. `RefinesRecord`
maps it: a request is accepted when the ledger file is replaced and answered
when the snapshot file is.

### ActionTransaction, ActionProtocol

One invocation of an authorized request at a time (the lock makes it so),
crashing anywhere, followed by another invocation of the same or another
request. `disk` is the analysis run, by who wrote each file; `entries`,
`phase`, `image` the transaction directory; `report` and `recorded` the
published report and the ledger; `torn` the window between the two ledger files.
Removal of a directory is one step per entry, in any order, because
`shutil.rmtree` promises none; the backup directory goes after its files.

| Code | Actions |
| --- | --- |
| `recover_journalless_...` | `NothingToClassify`, `RemoveUnstarted`, `RebuildJournal` |
| `recover_action_output_ledger_transaction_before_authorization` | `NothingToRecover`, `RepairSnapshot`, `RecoverLedgered`, `RecoverPublished`, `RecoverIntent`, `RestoreFile`, `RestoreDone` |
| `_remove_transaction_directory` | `RemoveEntry`, `RemoveDirectory` |
| planner and `prepare_...` | `Authorize`, `Stage`, `BackUp`, `Journal` |
| executors | `Preflight`, `WriteOutput`, `PublishCompleted`, `ExecutionFails`, `UndoFile`, `PublishFailed`, `AppendLedger`, `AppendSnapshot`, `AppendFails` |
| `mark_...`, verifier, `cleanup_...` | `MarkCommitted`, `Verify`, `RemoveEntry` |
| every exception that leaves the files as they are | `Raise` |

The routes differ by constants: `Audits` (write into the analysis run),
`FollowUps` (write into their own directory), `Terminal` (append a stop),
`Handled` (executors that roll back and record a failure),
`ClassifiesJournalless` (NASA route only). Abstracted: checksums, to who wrote a
file; the counters of the budget, which `ResearchLedger` has, to the set of
actions it still pays for (`funded`): `Appendable` is the kernel's check at the
append, recovery's included, and `OtherSpends` another client's action that uses
up some of it; the analysis, to success or exception; the choice among
follow-ups; the kernel's fail-closed reads, to `torn`.

`ActionProtocol` is what an action promises, without files, phases and crashes:
its report is published once, under an open transaction; the ledger gets the
status of that report, once; the transaction closes only after that.
`RefinesProtocol` maps it: a transaction is open while its directory is there and
a report is published. `Stranded` are the transaction directories that no request
settles, and `StrandedForGood` says so.

### OutputDirectory

`transactional_output_directory` with any number of callers of one target,
overlapping or not. A directory is abstracted to what it holds: nothing, foreign
files, an unfinished result, a half-removed tree, a complete result. `Overwrite`
and `Marked` are the callers that pass `overwrite=True` and `recognized_markers`:
without markers `Check` lets an overwriting caller pass whatever is there.
`UndoFinal` and `PutBack` are the inner exception handler, `DropStaging` the
outer one, and `RemovalRaises` is an `rmtree` that raises in either of them or on
the backup. `Arrive` is another program that writes into an absent or empty
target, at any moment: what came after `Check` is moved or removed like anything else, as the
code does not look again. `validate_output_target` is a precondition: the target
is one the program may write to. `ActionTransaction` uses its result only, that a
report is published by one rename, since an action directory is absent before.

What the module promises, it promises up to the first disturbance
(`Undisturbed`): no two callers have overlapped, and no rename was refused that
could be done.

### EpistemicGraph, EpistemicGate, GatedLoop, GraphHistory

`EpistemicGraph` is the data: nodes with their type, workstream and whether a
verified relation may start from them, edges in the order of the file, the
lineage of recorded actions; the assessment and the directive of
`epistemic_control.py`; and the two ways the program extends a graph, `Recorded`
(after a local action) and `Transition` (a verifier's decision).

`EpistemicGate` is `epistemic_gate.py`. `Sources` and `Walk` are
`_source_workstreams` as written, with its memo and the order of the edges,
because both decide what it returns. Their recursion is written as functions over
`Points`, what a call is about: a node, the memo, the path, the edges left.
`OfStream` and `BoundTo` are the reference, by connectivity, without memo, order
or recursion: the nodes whose own evidence is a workstream's, and those that
provenance binds to it.

`ClosedLoop` takes any function as its gate; `GatedLoop` takes
`EpistemicGate`'s and states what needs both.

`GraphHistory` is what the program promises of graph files: none is ever changed,
a new one extends one that exists by exactly one node, and none is removed but the
one that is just being published (`pending`), which was not there before.

### ClosedLoop

`run_policy_authorized_closed_loop`: one invocation at a time, and around it
everybody else.

| Code | Actions |
| --- | --- |
| preflight of the records against the graph | `Start` (fresh output directory), first branch of `Evaluate` |
| `evaluate_epistemic_gate` and the stops it gives | `Evaluate` |
| `run_research_cycle` without a request, fingerprint before | `Probe` |
| `run_pinned_research_cycle` and the transaction below it | `AuthorizationDenied`, `Recover`, `Execute`, `AppendToLedger`, `Finish` |
| `_apply_record_only_action_result` | `RecordGraph` (checks, graph file), `RecordManifest` (manifest; the loop goes on), `RecordFails` (an exception between them: the handler removes the graph) |
| no-progress, planner and limit stops at the end of a cycle | `Advance` |
| return, exception, death; release of the lock | `Leave`, `Interrupt` |
| other executors, which need the lock | `OtherExecutes`, `OtherRecovers` |
| `apply_epistemic_transition_files`, which takes none | `Review` |
| edits of the files the planner reads | `Edit` |

A death between graph and manifest leaves a graph that is complete; one in the
middle of the write leaves a file that `load_epistemic_graph` does not accept, which
is no graph to anybody and counts as a death before it.

The planner is abstract: its verdict is an action type or a reason not to act,
any of them whenever the ledger or its files change. The transaction is that of
`ActionTransaction` reduced to what the loop can tell apart: a report published
under a journal, the ledger entry, the removal of the journal. Both keep
`ActionProtocol`, for the loop with `journal` as its open transactions; an
executor beside the loop is seen in one step, as it holds the lock.
A fingerprint is the verdict and the length of the ledger: the code's contains
the checksum of the ledger among the evidence bindings.

### PersistentEpisode

`run_persistent_episode` and the commands `init` and `record`, run by any number
of processes on one checkpoint. Files are inodes: a process that still holds a
descriptor of the temporary file when another renames it writes into the
checkpoint, and `fd` follows that. One action per system call: `Open` truncates,
`Write`, `Replace`; `WriteFails` (which may leave part of the bytes) and
`ReplaceFails` lead to the handler, whose `Unlink` of the temporary file may fail
too; `Die` stops anywhere. `alone` is a history variable: no other
process has been active since this one began. A state stands for its own SHA-256,
so `parent` is the state itself. `HandlerSeesCheckpoint` and `HistoryIsKept` hold for
a process that is alone; `CommittedStepsAreKept` says of overlapping processes what
the docstring says, and is refuted.

### StructureEnrichment

`run_structure_enrichment`: `Begin` writes the query plan, `List` the ids,
`Preview` ends a run without execution, `Reuse` takes a chunk from disk if its
manifest names the same ids, `Fetch`, `Reject`, `FetchFails` are the service's
answers, `WriteChunk` and `WriteSidecar` the two files of a chunk, `Report` the
acquisition manifest, `Abort` a death or an exception that leaves. Plans are
sequences of id sets, so that a run under another slicing of the same ids finds
the chunk files of an earlier one. `reported` is a history variable: what the last
report on each plan counted as returned. Nothing locks these files; the model
takes one run after the other, and overlapping runs over the same outputs are not
modelled.

## Runs

| Run | Configuration | Shows |
| --- | --- | --- |
| `ledger` | 2 clients, 1 hypothesis, 2 actions of cost 1, budget 2 actions and 1 unit, with and without lock seed, fair | budget, identifiers, stop, mutual exclusion, fail-closed, answers, refinement of `RunRecord`; every operation ends |
| `transaction` | 1 audit, a terminal follow-up, 3 files of which 1 is new, 3 crashes, other clients that stop and spend, fair | outputs and ledger agree, failures leave nothing, torn appends stay repairable; published is ledgered if the run still takes it, ledgered is cleaned up |
| `transaction_faults` | 1 audit, a terminal follow-up, a follow-up without rollback, 2 crashes, 1 raising append | every change is journaled, cleanup only when nothing is left to recover, refinement of `ActionProtocol` |
| `output_directory` | 2 overwriting callers, 1 without markers, overlapping or not, 2 mishaps of any kind: deaths, refused renames, raising removals, arrivals | nothing unfinished is published; undisturbed, the prior run is never lost, a return has published, foreign files are lost only in the run they came in or for want of markers |
| `closed_loop` | 4 graphs, 2 queues of 2 requests, 2 cycles, 1 interruption, 1 edit, 1 reviewer, the real gate, fair | acts on gated graphs only, executes once, records what the ledger has, the gate bounded by the evidence, progress, refinement of `GraphHistory`; an invocation ends |
| `episode` | 2 processes, 2 possible episodes, 3 step results, 1 death or file error, fair | a process that is alone steps from the committed state and loses nothing; operations end |
| `enrichment` | 3 plans over 3 ids, 14 answers, any number of runs and deaths | what was reported is on disk and stays; resuming loses nothing |

Violations (each the statement of a document or docstring, see `findings`):

| Run | Property | Disagreement |
| --- | --- | --- |
| `nist_commit_not_completed` | `CommitIsCompleted` | a crash in the final `rmtree` leaves a directory that the NIST, heat and IN625 routes refuse forever; the NIST document promises recovery |
| `output_directory_fault` | `PriorTargetPreserved` | the handler removes the target if the rename to the backup raises, against its docstring |
| `episode_shared` | `CommittedStepsAreKept` | two processes write through one temporary name without a lock: the late write of one goes into the checkpoint that the other has renamed meanwhile, over a committed step, which the docstring says is never replayed |
| `falsification_ignored` | `FalsificationStopsLoop` | a transition gives the result no provenance, so a reviewer's verified falsification is left out of the gate's scope; the multicycle document says it must not be ignored |
| `gate_order` | `FalsificationStopsLoop` | the resolver memoises what a node finds while a neighbour is on the path, so one order of the same edges hides a falsification that every other order reports |

Met while modelling, without a run:

- recovery looks at the requested id only, so a second audit request runs over
  the files of an interrupted one, and recovery of the first then undoes the
  second (this is why the theorems on `ActionTransaction` assume one audit);
- a rollback whose `rmtree` is interrupted after the journal and before the
  copies leaves a transaction directory that recovery neither classifies nor
  removes, so its action can never be executed; likewise, on the routes that
  classify none, every directory without a journal (`StrandedStays` proves that
  no sequence of requests gets out of it);
- an append that raises after the ledger file was replaced makes the executor
  roll back an action that is recorded (why two theorems assume
  `MaxFaults = 0` or `Handled = {}`);
- nothing reserves the budget of an action that is published and not ledgered:
  after a crash between the two another client may spend it, and every recovery's
  append is then refused (`kernel.py:743-747`), although
  `NIST_AUDITED_STRUCTURAL_SIMULATION_ACTION.md:51` says that such an attempt is
  recovered; `PublicationIsCommitted` excepts this and a stop;
- `transactional_output_directory` does not look at the target again after its
  body: foreign files that came meanwhile are moved to the backup and removed, or
  removed by the handler if they come between the renames, although its docstring
  says that a foreign directory is never overwritten (`OnlyLateArrivalsLost`
  excepts exactly these); and the result of a concurrent caller is replaced
  whatever its overwrite flag;
- `HandlerSeesCheckpoint` and `HistoryIsKept` of the episodes are about a process
  that is alone, for the reason `episode_shared` shows; `alone` is the whole of
  that assumption;
- `existing_chunk_unexpected_material_ids` of the enrichment can never be
  reported: `SidecarsMatch` shows that a chunk beside a matching manifest holds
  ids of the plan only.

Bounds and why they are enough. Two ledger clients give every conflict there is
over one lock and one pair of files, and a third could only wait; the theorems
remove this bound. Two actions and one unit
reach the cost limit and a refusal; the limit on their number is in the same
conjunction, and `BudgetNeverExceeded` covers both for every budget. Three crashes allow a crash of the execution, of
its recovery and of the second recovery; the run state does not count further
ones. Three files are one that is only overwritten, one that shows an order of
operations, and one that did not exist. An append that raises (`transaction_faults`)
is reached with one fault. The follow-up that is not terminal, and the one whose
executor rolls nothing back, are in `transaction_faults`; the three invariants of
`transaction` are theorems for any number of either. In `output_directory` the two
mishaps may be a death and what the next caller makes of it, or one in the body and
one in its handler, and the theorems remove this bound too; a caller without
`overwrite=True` is left out, as it starts on an absent or empty target only.
In `closed_loop` two cycles are the first at the limit after one below it; two requests in one queue and the second alone in another let a
rerun meet an executed request, a transaction left open, and a graph that is older
than the ledger; four graphs give each directive of the gate, evidence of another
workstream, and both orders of the edges that matter; one interruption may fall
between any two steps, and `OtherExecutes` and `OtherRecovers` are bounded by the
requests. `gate_order` takes all orders of three edges. In `episode` two processes
are what one temporary name needs to go wrong; `alone` speaks of any number. The
two episodes have a budget that a step can overshoot, and one of zero.
`enrichment` needs no bound on runs or deaths: its state space is finite as it is.

Fairness. A process that has started takes its next step (weak fairness of
`Continue` and `Proceed`), as the scheduler guarantees. A blocking `flock` is granted
to a waiter that keeps waiting (strong fairness of `AcquireLock`): the kernel of
the operating system queues waiters; on Windows the code polls
(`_acquire_windows_lock`), where it is an assumption. `Invoke` is strongly fair
in `transaction`: nothing in the code repeats a request, so the two liveness
properties there are statements about an operator who does. The closed loop's
`FairSpec` is weak fairness of `Loop` spelled out: either the invocation is idle
infinitely often or it steps infinitely often; nobody is obliged to start one, and
the actors around it cannot starve it because it waits for nothing. Enrichment has
no liveness property: a run is one pass over its chunks and nobody repeats it.
Crashes, faults, failures, edits, reviews and other clients' stops are never fair.

## Proofs

`ResearchEventsProofs` proves `AppendKeeps`: one admissible request keeps budget,
unique identifiers and the stop last. `ResearchLedgerProofs` lifts it to the
concurrent system for any number of clients, identifiers, costs and every
budget, assuming only `BudgetAssumption` and `ClientsAssumption`. The inductive
invariant `IInv` is

- `LockProtectsFiles`: who is past the lock holds it and what it read is on disk;
- `WriterKnown`: between the replacements the ledger is what was read plus the
  request, the snapshot what was read;
- `BareReadsSettled`: without a lock file nobody has written, so a bare reader
  has read the current files;
- `Kept(ledger)`: what `AppendKeeps` preserves.

The properties alone are not inductive: `WithinBudget` needs to know that the
ledger a writer checked is still the ledger it extends, which is
`LockProtectsFiles`; `AnswersAreCurrent` needs `BareReadsSettled` for the path
without a lock. From `IInv` follow every safety property of the run `ledger`,
among them the refinement (`ImplementsRecord`), for which `AuthorIs` shows that
the refinement mapping names the one client between the replacements. That the
ledger is append-only (`LedgerOnlyGrows`) is proved and not checked on its own: the
refinement contains it.

`OutputDirectoryProofs` proves type correctness and `NoUnfinishedResult` for any
number of overlapping callers and any mishaps, from `StagedIsBuilt`. Up to the first
disturbance it proves `CompleteRunKept`, `PriorTargetKept`, `ReturnIsPublished` and
`OnlyLateArrivalsLost`, from `OneAtATime`, which says what each stage has
established although files may arrive between any two: target and backup are as
they were found (`Untouched`), or the run that was found is set aside
(`SetAside`). None of the four holds of overlapping callers, nor
`PriorTargetPreserved` of one caller whose rename is refused, which
`output_directory_fault` shows.

`ActionTransactionProofs` proves type correctness for any number of actions,
files, crashes and faults. `TornIsRepairable` follows from `TornInv`: an invocation
has a journal from its first backup to its append (`RunsUnderJournal`), what it
appends is published (`AppendsPublished`), and while the snapshot lags nobody is
past the planner but the append itself (`TornStopsPlanner`). For one audit
(`OneAudit`) and any number of crashes and raising appends, `FailureRollsBack`,
`ChangesAreJournaled` and `CleanupIsFinal` follow from `UndoInv`: a published action
that is not ledgered has its journal (`PublishedIsHeld`), the ledger repeats the
report (`LedgerRepeatsReport`), files that differ from those before the audit are
published or restorable (`UnpublishedIsJournaled`), and what each stage has
established of its action, the files and the executor's copy of them
(`StageKnowsAction`, `StageKnowsFiles`, `StageKnowsMemory`). `ChangesAreJournaled`
alone is not inductive: the image must be the initial one when the journal is
written, and a rollback must have put everything back before it removes the
journal. With `MaxFaults = 0` or `Handled = {}`, `CompletedStays` (the outputs of a
completed report stay) gives `LedgeredOutputsOnDisk`. The assumptions exclude what
is listed under the runs: a second audit over an interrupted one, and an executor
that takes its files back after its append was torn.

Two results need neither assumption, for they speak of reports and the ledger and
not of the files. `TransactionKeepsProtocol` is the refinement of
`ActionProtocol`, with any number of audits, crashes and faults. It rests on
`ProtocolInv`: a directory with entries exists, a report that is not ledgered has
its transaction open, and what every stage knows of the report and the ledger
entry of its action. The refinement fails without it at recovery, which commits or
cleans up what an earlier invocation left. `StrandedStays` proves
`StrandedForGood`: an invocation touches its own action's transaction only
(`Footprint`), and one about a stranded action gets no further than its recovery.

`ClosedLoopProofs` proves the safety properties that do not depend on which gate
it is, for any requests, queues, graphs, gate,
limits and any number of interruptions: `ActsOnGatedGraph`, `ExecutedOnce`,
`LineageIsLedgered`, `ReturnAccountsForActions`, `NoProgressIsRecovery`, and the
refinement of `GraphHistory`. The inductive invariant is `IInv`: types, `GraphsOK`
(every graph on disk is well formed, the one an invocation works on is on
disk, and so is the one it is just publishing), `InHand` (what is about to be appended is published and not ledgered, what is
about to be recorded is ledgered), `ExecutedOnce` and `LineageIsLedgered`. The last
two need `InHand`: an action is appended once because it is not in the ledger yet,
and a graph may record it because it is by then. The properties of a whole
invocation, `ReturnAccountsForActions` and `NoProgressIsRecovery`, are proved on top
of it from `Accounts` (what the ledger gained since the invocation began is in the
lineage, but for the request in hand) and `Progress` (how the fingerprints of the
cycles relate to the length of the ledger).

For `RefinesHistory` a record that fails must remove nothing but what it wrote, so
the graph it wrote must be new: `Fresh` says that no graph has a node of a request
that is in hand, which holds because a request is executed once.

`LoopKeepsProtocol` is the refinement of `ActionProtocol`, from `OpenAgrees`: a
report under a journal that the ledger has as well is in it with the same status.
`LoopIsBounded` is the safety half of `LoopEnds`, for every number of cycles: an
invocation has at most `8 * MaxCycles + 1` steps (`StepsLeft`), each of its own
brings the end nearer, and no step of anybody else pushes it away.
Assumed is `ClosedLoopAssumption`, that is, distinct requests within a queue, ids
of requests and reviewers' results apart, and action types apart from refusals.

`GatedLoopProofs` is about the gate and the loop that uses it. The resolver is a
recursive function, so what it computes is out of reach of the library's induction
theorems, but not of well-founded induction over a *set* of numbers
(`SetInduction`, from `NatLessThanWellFounded`). The measure is `Left`: a call
opens a node that is not on its path, and an edge is consumed at every other step.
From it:

- `ResolverTerminates`: on every validated graph, cyclic ones included, the
  recursive equation has a solution, so `Sources` means what it says;
- `ResolverSound`: with any sound memo, a node's sources include its own
  workstream and only workstreams that provenance binds it to;
- `FirstCallComplete`: with an empty memo they are all of those, by `Explored` (what a
  known node leads to is known or on the path). What the gate
  misses, and `gate_order` shows that it misses something, is missed only for
  nodes that it asks for later with what earlier calls memoised;
- `GateScope` and `GateWithinBounds`: the gate stops for no more than what
  provenance binds to the workstream, and for no less than what its own evidence
  says, in any order of the edges. `Severity` orders the directives for this, and
  the lemmas on `Weight` show that more evidence never makes one milder.

For the loop with this gate, `\A g : Gate(g) = GateOutcome(g)`, and graphs that
`validate_epistemic_graph` accepts (`GatedAssumption`), two invariants follow from
`ValidGraphs` (every graph the loop or a reviewer writes is accepted again):
`LoopGateIsBounded` and `LoopHeedsOwnEvidence`. The second is the part of
"a verified falsification must not be ignored" that holds; `FalsificationStopsLoop`
asks for more, and two runs violate it. `RecordNeverRefused`
proves that the checks of the record (the ledger has the length seen before, the node is
new, the assessment is unchanged) never fail after an execution, for any gate: from
`StillNew`, which carries the check of the request's id from the gate to the
record, and `RecordOnly`, that a recorded action changes no assessment.

`EpisodeProofs` proves type correctness for any number of processes, and
`HandlerSeesCheckpoint` and `HistoryIsKept` for a process that is alone, from `AloneInv`: what a process that is alone has in memory is the checkpoint
while it loops and a justified successor of it while it writes, and the temporary
file and its descriptor are where its own last step put them. Only
`EpisodeAssumption` is assumed.

`EnrichmentProofs` proves type correctness, `ReportIsOnDisk` and
`ResumeKeepsProgress` for all ids, plans and answers, from `InHand` (the
documents returned are those of the usable chunks passed so far), `InProgress` (a
chunk that is being written has no manifest, and an answer no foreign id) and
`SidecarsMatch` (a chunk beside a manifest holds ids of that manifest only).

Only model-checked: the liveness properties `OperationEnds`,
`PublicationIsCommitted`, `CommitIsCompleted` and `LoopEnds`, since liveness under
fairness and induction over time are out of the prover's reach (for `LoopEnds`,
`LoopIsBounded` leaves no more than that fairness lets an invocation step). Every
invariant, action property and refinement of a passing run is a theorem.
`FalsificationStopsLoop` is false of the code, so no theorem states it;
`LoopHeedsOwnEvidence` states its provable part. Likewise `PriorTargetKept` is what
holds of `PriorTargetPreserved`, and `HistoryIsKept` of `CommittedStepsAreKept`.

## Not modelled

The components marked `not_modelled` in PROJECT.json, with the reason there: most
of the repository is numeric analysis, document validation and parsing, with no
state that outlives a call. Of the modelled ones:

- bytes and checksums, paths and links, registries and request bindings,
  Windows-specific sharing errors (an instance of `Interrupt` and `RenameFault`),
  tampering with files by other programs, but for arrivals in an output directory;
- the wrapper `execute_authorized_action_with_failure_classification`, which
  verifies the run before recovery can repair a torn snapshot;
- `run_bounded_multicycle` and its epistemic variant: the closed loop without
  successor graphs and without the lock;
- the outcome-dependent choice of the planner among follow-ups;
- of graphs: inactive edges, artifacts, verifier receipts and authentication;
- of episodes: the `show` command, which reads only;
- of the enrichment: the alignment of structures with the table, and overlapping
  runs.

The recursive budget and its cycle controller are pure functions over documents
chained by digests; a model would take the chain for granted, which is what their
validation is about. Two facts were noted while reading them: a checkpoint's
predecessor is not asked whether it was stopped by a limit, and forks of one
ancestry each spend the whole budget.

## Plan

1. `ActionTransaction` over `ResearchLedger`'s record, so that `torn` and
   `stopped` come from `RunRecord` rather than from an abstraction of it, and the
   failure-classifying wrapper.
2. `run_bounded_multicycle` beside `ClosedLoop`: what remains of its properties
   without the lock and without successor graphs.
3. `CycleBudget`: ancestries as trees of checkpoints, with forks and limits.
4. Run registry and production driver, if their state turns out to be worth it.
