------------------------- MODULE ActionTransaction --------------------------
(***************************************************************************)
(* The output-to-ledger transaction of an authorized action.  One          *)
(* invocation at a time holds the research-ledger lock from recovery to    *)
(* cleanup: it settles what an earlier invocation of the same request left *)
(* behind, asks the planner, journals its intent with a copy of the files  *)
(* it may change, runs the executor, publishes the report, appends to the  *)
(* ledger and removes the journal.  It may crash anywhere; the files stay, *)
(* the lock goes.                                                          *)
(*                                                                         *)
(* Abstracted: bytes and checksums (a file holds what its last writer put  *)
(* there), the counters of the budget (ResearchLedger has them; here it is *)
(* the set of actions it still pays for), the analysis itself.             *)
(***************************************************************************)
EXTENDS Naturals, FiniteSets

CONSTANTS
    Audits,      \* ids of audit_existing_battery_run requests
    FollowUps,   \* ids of actions whose outputs stay in their own directory
    Terminal,    \* the follow-ups that append a stop with the action
    Files,       \* the mutable files of the analysis run, written by audits
    Existing,    \* those of them that exist before the first audit
    ClassifiesJournalless,  \* the route classifies a journal-less directory
    Handled,     \* actions whose executor rolls back and records a failure
    MaxCrashes,  \* bound: crashes of an invocation
    MaxFaults    \* bound: appends that raise after the report is published

Actions == Audits \cup FollowUps

ASSUME TransactionAssumption ==
    /\ Audits \cap FollowUps = {}
    /\ Terminal \subseteq FollowUps
    /\ Handled \subseteq Actions \ Terminal
    /\ Existing \subseteq Files
    /\ ClassifiesJournalless \in BOOLEAN
    /\ {MaxCrashes, MaxFaults} \subseteq Nat
    /\ Files \cap {"journal", "audit_backup"} = {}
    /\ Actions \cap {"original", "absent", "nobody"} = {}

VARIABLES
    disk,      \* who wrote each mutable file of the analysis run
    txnDir,    \* actions whose transaction directory exists
    entries,   \* what is in it: the journal, audit_backup, copies in that
    phase,     \* phase written in the journal
    image,     \* audit_snapshot of the journal: the files as they were
    report,    \* execution_status of the published action_result.json
    recorded,  \* status of the action in the ledger file
    torn,      \* the state snapshot does not show the last ledger event
    stopped,   \* the ledger holds research_stopped
    funded,    \* the actions the remaining budget pays for
    current,   \* the action whose invocation holds the lock
    pc,        \* where that invocation is
    memory,    \* the executor's own snapshot of the files
    crashes, faults

txn == <<txnDir, entries, phase, image>>
run == <<recorded, torn, stopped, funded>>
counters == <<crashes, faults>>
vars == <<disk, txn, report, run, current, pc, memory, counters>>

Contents == Actions \cup {"original", "absent"}
Initially == [f \in Files |-> IF f \in Existing THEN "original" ELSE "absent"]

Stages == {"idle", "classify", "recover", "restore", "rollback", "append",
           "snapshot", "committed", "verify", "cleanup", "authorize", "stage",
           "backup", "preflight", "execute", "undo"}

TypeOK ==
    /\ disk \in [Files -> Contents]
    /\ txnDir \subseteq Actions
    /\ entries \in [Actions -> SUBSET (Files \cup {"journal", "audit_backup"})]
    /\ phase \in [Actions ->
           {"none", "staged", "journaled", "published", "ledger_committed"}]
    /\ image \in [Actions -> [Files -> Contents]]
    /\ report \in [Actions -> {"none", "completed", "failed"}]
    /\ recorded \in [Actions -> {"none", "completed", "failed"}]
    /\ torn \in BOOLEAN /\ stopped \in BOOLEAN
    /\ funded \subseteq Actions
    /\ current \in Actions \cup {"nobody"}
    /\ pc \in Stages
    /\ memory \in [Files -> Contents]
    /\ crashes \in 0 .. MaxCrashes /\ faults \in 0 .. MaxFaults

Init ==
    /\ disk = Initially /\ memory = Initially
    /\ txnDir = {} /\ entries = [a \in Actions |-> {}]
    /\ phase = [a \in Actions |-> "none"]
    /\ image = [a \in Actions |-> Initially]
    /\ report = [a \in Actions |-> "none"]
    /\ recorded = [a \in Actions |-> "none"]
    /\ torn = FALSE /\ stopped = FALSE /\ funded = Actions
    /\ current = "nobody" /\ pc = "idle"
    /\ crashes = 0 /\ faults = 0

-----------------------------------------------------------------------------
At(a, stage) == current = a /\ pc = stage

Goto(stage) == pc' = stage /\ UNCHANGED current

\* The lock is released: by a return, by an exception or by the OS.
Release == pc' = "idle" /\ current' = "nobody"

HasJournal(a) == "journal" \in entries[a]

WritePhase(a, p) ==
    /\ phase' = [phase EXCEPT ![a] = p]
    /\ entries' = [entries EXCEPT ![a] = @ \cup {"journal"}]
    /\ UNCHANGED <<txnDir, image>>

\* The outputs a completed report is bound to are the bytes on disk.  Those
\* of a follow-up are published with its report, in one rename.
OutputsMatch(a) ==
    report[a] = "completed" /\ a \in Audits => \A f \in Files : disk[f] = a

\* _validate_ledger_action_matches_report
LedgerMatchesReport(a) ==
    report[a] # "none" /\ recorded[a] = report[a] /\ OutputsMatch(a)

Invoke(a) ==
    /\ pc = "idle"
    /\ current' = a
    /\ pc' = IF ClassifiesJournalless THEN "classify" ELSE "recover"
    /\ UNCHANGED <<disk, txn, report, run, memory, counters>>

-----------------------------------------------------------------------------
(***************************************************************************)
(* recover_journalless_action_transaction_before_authorization             *)
(***************************************************************************)
Journalless(a) == a \in txnDir /\ ~HasJournal(a)

NothingToClassify(a) ==
    /\ At(a, "classify")
    /\ ~Journalless(a)
    /\ Goto("recover")
    /\ UNCHANGED <<disk, txn, report, run, memory, counters>>

\* Never started: nothing recorded, nothing published, nothing copied.
Unstarted(a) ==
    recorded[a] = "none" /\ report[a] = "none" /\ entries[a] = {}

RemoveUnstarted(a) ==
    /\ At(a, "classify")
    /\ Journalless(a) /\ ~torn /\ Unstarted(a)
    /\ txnDir' = txnDir \ {a}
    /\ Goto("recover")
    /\ UNCHANGED <<disk, entries, phase, image, report, run, memory, counters>>

\* Mutant of RebuildJournal: only a directory without backups is classified.
RebuildEmptyJournal(a) ==
    /\ At(a, "classify")
    /\ Journalless(a) /\ ~torn /\ LedgerMatchesReport(a)
    /\ entries[a] = {}
    /\ WritePhase(a, "ledger_committed")
    /\ Goto("verify")
    /\ UNCHANGED <<disk, report, run, memory, counters>>

\* The cleanup after the ledger commit was interrupted.
RebuildJournal(a) ==
    /\ At(a, "classify")
    /\ Journalless(a) /\ ~torn /\ LedgerMatchesReport(a)
    /\ WritePhase(a, "ledger_committed")
    /\ Goto("verify")
    /\ UNCHANGED <<disk, report, run, memory, counters>>

CannotClassify(a) ==
    /\ pc = "classify"
    /\ Journalless(a)
    /\ torn \/ ~(Unstarted(a) \/ LedgerMatchesReport(a))

-----------------------------------------------------------------------------
(***************************************************************************)
(* recover_action_output_ledger_transaction_before_authorization           *)
(***************************************************************************)
NothingToRecover(a) ==
    /\ At(a, "recover")
    /\ a \notin txnDir
    /\ Goto("authorize")
    /\ UNCHANGED <<disk, txn, report, run, memory, counters>>

\* The ledger has the action and the snapshot does not show it yet.
RepairSnapshot(a) ==
    /\ At(a, "recover")
    /\ HasJournal(a) /\ torn /\ LedgerMatchesReport(a)
    /\ torn' = FALSE
    /\ UNCHANGED <<disk, txn, report, recorded, stopped, funded, current, pc,
                   memory, counters>>

RecoverLedgered(a) ==
    /\ At(a, "recover")
    /\ HasJournal(a) /\ ~torn /\ LedgerMatchesReport(a)
    /\ WritePhase(a, "ledger_committed")
    /\ Goto("verify")
    /\ UNCHANGED <<disk, report, run, memory, counters>>

\* Mutant of RecoverPublished: the report is taken for a ledger commit.
RecoverPublishedAssumed(a) ==
    /\ At(a, "recover")
    /\ HasJournal(a) /\ ~torn /\ recorded[a] = "none" /\ report[a] # "none"
    /\ WritePhase(a, "ledger_committed")
    /\ Goto("verify")
    /\ UNCHANGED <<disk, report, run, memory, counters>>

RecoverPublished(a) ==
    /\ At(a, "recover")
    /\ HasJournal(a) /\ ~torn /\ recorded[a] = "none" /\ report[a] # "none"
    /\ WritePhase(a, "published")
    /\ Goto("append")
    /\ UNCHANGED <<disk, report, run, memory, counters>>

\* Mutant of Undone: the phase in the journal decides.
UndoneByPhase(a) == phase[a] = "journaled"

\* Neither ledgered nor published: the intent is undone.
Undone(a) == recorded[a] = "none" /\ report[a] = "none"

RecoverIntent(a) ==
    /\ At(a, "recover")
    /\ HasJournal(a) /\ ~torn /\ Undone(a)
    /\ phase[a] \in {"staged", "journaled"}
    /\ Goto(IF phase[a] = "journaled" /\ a \in Audits
            THEN "restore" ELSE "rollback")
    /\ UNCHANGED <<disk, txn, report, run, memory, counters>>

CannotRecover(a) ==
    /\ pc = "recover"
    /\ a \in txnDir
    /\ \/ ~HasJournal(a)
       \/ torn /\ ~LedgerMatchesReport(a)
       \/ recorded[a] # "none" /\ ~LedgerMatchesReport(a)
       \/ Undone(a) /\ phase[a] \notin {"staged", "journaled"}

\* _restore_audit_snapshot: a file that did not exist is unlinked, the others
\* are copied back from audit_backup.
RestoreFile(a, f) ==
    /\ At(a, "restore")
    /\ disk[f] # image[a][f]
    /\ image[a][f] = "absent" \/ f \in entries[a]
    /\ disk' = [disk EXCEPT ![f] = image[a][f]]
    /\ UNCHANGED <<txn, report, run, current, pc, memory, counters>>

BackupMissing(a) == \E f \in Files :
    image[a][f] # "absent" /\ f \notin entries[a]

\* Mutant of RestoreDone: the files are not put back.
RestoreSkipped(a) ==
    /\ At(a, "restore")
    /\ Goto("rollback")
    /\ UNCHANGED <<disk, txn, report, run, memory, counters>>

RestoreDone(a) ==
    /\ At(a, "restore")
    /\ disk = image[a] /\ ~BackupMissing(a)
    /\ Goto("rollback")
    /\ UNCHANGED <<disk, txn, report, run, memory, counters>>

\* One step of shutil.rmtree, in the order the file system lists the entries.
RemoveEntry(a, e) ==
    /\ current = a /\ pc \in {"rollback", "cleanup"}
    /\ e \in entries[a]
    /\ e = "audit_backup" => entries[a] \cap Files = {}
    /\ entries' = [entries EXCEPT ![a] = @ \ {e}]
    /\ UNCHANGED <<disk, txnDir, phase, image, report, run, current, pc,
                   memory, counters>>

\* Its last step; after a rollback the request is executed anew.
RemoveDirectory(a) ==
    /\ current = a /\ pc \in {"rollback", "cleanup"}
    /\ entries[a] = {}
    /\ txnDir' = txnDir \ {a}
    /\ IF pc = "rollback" THEN Goto("authorize") ELSE Release
    /\ UNCHANGED <<disk, entries, phase, image, report, run, memory, counters>>

-----------------------------------------------------------------------------
(***************************************************************************)
(* Authorization and prepare_action_output_ledger_transaction              *)
(***************************************************************************)

\* plan_nasa_next_action: an audit while nothing is ledgered; afterwards its
\* untried follow-ups, if the audit's report verifies and nothing has failed.
\* The other routes have one action, which replanning refuses to repeat.
Selected(a) ==
    IF a \in FollowUps /\ Audits # {}
    THEN /\ \A b \in Actions : recorded[b] # "failed"
         /\ \E b \in Audits : recorded[b] = "completed" /\ OutputsMatch(b)
         /\ recorded[a] = "none"
    ELSE \A b \in Actions : recorded[b] = "none"

\* The policy refuses an action the remaining budget does not pay for.
Authorized(a) == ~torn /\ ~stopped /\ a \in funded /\ Selected(a)

Authorize(a) ==
    /\ At(a, "authorize")
    /\ Authorized(a)
    /\ txnDir' = txnDir \cup {a}
    /\ Goto("stage")
    /\ UNCHANGED <<disk, entries, phase, image, report, run, memory, counters>>

\* Mutant of Stage: the journal is left for later.
StageWithoutJournal(a) ==
    /\ At(a, "stage")
    /\ Goto("backup")
    /\ UNCHANGED <<disk, txn, report, run, memory, counters>>

Stage(a) ==
    /\ At(a, "stage")
    /\ WritePhase(a, "staged")
    /\ Goto("backup")
    /\ UNCHANGED <<disk, report, run, memory, counters>>

ToBackUp(a) == {f \in Files : a \in Audits /\ disk[f] # "absent"}

\* _snapshot_audit_run
BackUp(a, f) ==
    /\ At(a, "backup")
    /\ f \in ToBackUp(a) \ entries[a]
    /\ entries' = [entries EXCEPT ![a] = @ \cup {"audit_backup", f}]
    /\ UNCHANGED <<disk, txnDir, phase, image, report, run, current, pc,
                   memory, counters>>

\* Mutant of Journal: the journal is written before the copies are.
JournalEarly(a) ==
    /\ At(a, "backup")
    /\ phase' = [phase EXCEPT ![a] = "journaled"]
    /\ image' = [image EXCEPT ![a] = disk]
    /\ Goto("preflight")
    /\ UNCHANGED <<disk, txnDir, entries, report, run, memory, counters>>

Journal(a) ==
    /\ At(a, "backup")
    /\ ToBackUp(a) \subseteq entries[a]
    /\ phase' = [phase EXCEPT ![a] = "journaled"]
    /\ image' = [image EXCEPT ![a] = disk]
    /\ Goto("preflight")
    /\ UNCHANGED <<disk, txnDir, entries, report, run, memory, counters>>

-----------------------------------------------------------------------------
(***************************************************************************)
(* The executor                                                            *)
(***************************************************************************)
Preflight(a) ==
    /\ At(a, "preflight")
    /\ report[a] = "none"
    /\ memory' = disk
    /\ Goto("execute")
    /\ UNCHANGED <<disk, txn, report, run, counters>>

WriteOutput(a, f) ==
    /\ At(a, "execute")
    /\ a \in Audits /\ disk[f] # a
    /\ disk' = [disk EXCEPT ![f] = a]
    /\ UNCHANGED <<txn, report, run, current, pc, memory, counters>>

PublishCompleted(a) ==
    /\ At(a, "execute")
    /\ a \in Audits => \A f \in Files : disk[f] = a
    /\ report' = [report EXCEPT ![a] = "completed"]
    /\ Goto("append")
    /\ UNCHANGED <<disk, txn, run, memory, counters>>

\* The analysis or the check of its outputs raises.
ExecutionFails(a) ==
    /\ At(a, "execute")
    /\ IF a \in Handled THEN Goto("undo") ELSE Release
    /\ UNCHANGED <<disk, txn, report, run, memory, counters>>

\* except Exception: the executor puts back its in-memory snapshot, ...
UndoFile(a, f) ==
    /\ At(a, "undo")
    /\ disk[f] # memory[f]
    /\ disk' = [disk EXCEPT ![f] = memory[f]]
    /\ UNCHANGED <<txn, report, run, current, pc, memory, counters>>

\* Mutant of PublishFailed: the report is published before the files are back.
PublishFailedFirst(a) ==
    /\ At(a, "undo")
    /\ report[a] = "none"
    /\ report' = [report EXCEPT ![a] = "failed"]
    /\ Goto("append")
    /\ UNCHANGED <<disk, txn, run, memory, counters>>

\* Mutant of PublishFailed: a report that is there is replaced.
PublishFailedAgain(a) ==
    /\ At(a, "undo")
    /\ disk = memory
    /\ report' = [report EXCEPT ![a] = "failed"]
    /\ Goto("append")
    /\ UNCHANGED <<disk, txn, run, memory, counters>>

\* ... and publishes a failed report, unless a report is there already.
PublishFailed(a) ==
    /\ At(a, "undo")
    /\ disk = memory
    /\ report[a] = "none"
    /\ report' = [report EXCEPT ![a] = "failed"]
    /\ Goto("append")
    /\ UNCHANGED <<disk, txn, run, memory, counters>>

\* _validate_action_against_state: the state at the append decides, also when
\* the append is made by a recovery.
Appendable(a) == ~stopped /\ a \in funded

\* append_action or append_action_and_stop, by the executor or by recovery:
\* first the ledger file, then the snapshot file.  What is spent may leave too
\* little for others.
AppendLedger(a) ==
    /\ At(a, "append")
    /\ Appendable(a) /\ OutputsMatch(a)
    /\ recorded' = [recorded EXCEPT ![a] = report[a]]
    /\ funded' \in SUBSET funded
    /\ stopped' = (a \in Terminal)
    /\ torn' = TRUE
    /\ Goto("snapshot")
    /\ UNCHANGED <<disk, txn, report, memory, counters>>

AppendSnapshot(a) ==
    /\ At(a, "snapshot")
    /\ torn' = FALSE
    /\ Goto("committed")
    /\ UNCHANGED <<disk, txn, report, recorded, stopped, funded, memory,
                   counters>>

\* A file operation of the executor's append raises: the handler of the
\* executor takes over, unless the append was its own.
AppendFails(a) ==
    /\ current = a /\ pc \in {"append", "snapshot"}
    /\ phase[a] = "journaled"
    /\ faults < MaxFaults
    /\ faults' = faults + 1
    /\ IF a \in Handled /\ report[a] = "completed"
       THEN Goto("undo") ELSE Release
    /\ UNCHANGED <<disk, txn, report, run, memory, crashes>>

\* Mutant of MarkCommitted: a phase no reader of the journal knows.
MarkMisspelt(a) ==
    /\ At(a, "committed")
    /\ WritePhase(a, "committed")
    /\ Goto("verify")
    /\ UNCHANGED <<disk, report, run, memory, counters>>

MarkCommitted(a) ==
    /\ At(a, "committed")
    /\ WritePhase(a, "ledger_committed")
    /\ Goto("verify")
    /\ UNCHANGED <<disk, report, run, memory, counters>>

\* The pinned verifier, for a new and for a recovered commit, and the check
\* cleanup_action_output_ledger_transaction makes before it removes anything.
Verify(a) ==
    /\ At(a, "verify")
    /\ ~torn /\ LedgerMatchesReport(a)
    /\ phase[a] = "ledger_committed"
    /\ Goto("cleanup")
    /\ UNCHANGED <<disk, txn, report, run, memory, counters>>

-----------------------------------------------------------------------------
\* The invocation ends with an exception and leaves everything as it is.
Raise(a) ==
    /\ current = a
    /\ \/ CannotClassify(a)
       \/ CannotRecover(a)
       \/ pc = "restore" /\ BackupMissing(a)
       \/ pc = "authorize" /\ ~Authorized(a)
       \/ pc = "preflight" /\ report[a] # "none"
       \/ pc = "undo" /\ disk = memory /\ report[a] # "none"
       \/ pc = "append" /\ ~(Appendable(a) /\ OutputsMatch(a))
       \/ /\ pc = "verify"
          /\ \/ torn \/ ~LedgerMatchesReport(a)
             \/ phase[a] # "ledger_committed"
    /\ Release
    /\ UNCHANGED <<disk, txn, report, run, memory, counters>>

Crash ==
    /\ pc # "idle"
    /\ crashes < MaxCrashes
    /\ crashes' = crashes + 1
    /\ Release
    /\ UNCHANGED <<disk, txn, report, run, memory, faults>>

\* Another client of the kernel stops the run while nobody holds the lock.
OtherStop ==
    /\ pc = "idle"
    /\ ~torn /\ ~stopped
    /\ stopped' = TRUE
    /\ UNCHANGED <<disk, txn, report, recorded, torn, funded, current, pc,
                   memory, counters>>

\* Another client records an action of its own and pays for it.
OtherSpends ==
    /\ pc = "idle"
    /\ ~torn /\ ~stopped
    /\ \E left \in SUBSET funded : left # funded /\ funded' = left
    /\ UNCHANGED <<disk, txn, report, recorded, torn, stopped, current, pc,
                   memory, counters>>

\* What an invocation does when nothing fails or crashes.
Proceed(a) ==
    \/ NothingToClassify(a) \/ RemoveUnstarted(a) \/ RebuildJournal(a)
    \/ NothingToRecover(a) \/ RepairSnapshot(a) \/ RecoverLedgered(a)
    \/ RecoverPublished(a) \/ RecoverIntent(a) \/ RestoreDone(a)
    \/ \E f \in Files : RestoreFile(a, f) \/ BackUp(a, f)
                        \/ WriteOutput(a, f) \/ UndoFile(a, f)
    \/ \E e \in entries[a] : RemoveEntry(a, e)
    \/ RemoveDirectory(a)
    \/ Authorize(a) \/ Stage(a) \/ Journal(a) \/ Preflight(a)
    \/ PublishCompleted(a) \/ PublishFailed(a)
    \/ AppendLedger(a) \/ AppendSnapshot(a) \/ MarkCommitted(a) \/ Verify(a)
    \/ Raise(a)

Next ==
    \/ \E a \in Actions :
           Invoke(a) \/ Proceed(a) \/ ExecutionFails(a) \/ AppendFails(a)
    \/ Crash
    \/ OtherStop
    \/ OtherSpends

Spec == Init /\ [][Next]_vars

\* A running invocation goes on, and whoever sent a request repeats it.
Fairness == \A a \in Actions :
    WF_vars(Proceed(a)) /\ SF_vars(Invoke(a))

FairSpec == Spec /\ Fairness

-----------------------------------------------------------------------------
(***************************************************************************)
(* Safety.                                                                 *)
(***************************************************************************)

\* What the ledger says of an action is what its report says, and the outputs
\* of a completed audit are on disk for as long as the ledger claims them: no
\* recovery, rollback or later action takes them back.
LedgeredOutputsOnDisk ==
    \A a \in Actions : recorded[a] # "none" => LedgerMatchesReport(a)

\* A failed audit leaves the analysis run byte for byte as it was, from the
\* moment the failed report is published.
FailureRollsBack ==
    \A a \in Audits : report[a] = "failed" => disk = Initially

\* The analysis run is changed only under a journal that can change it back,
\* until the completed report is published: a crash at any point leaves the
\* journal and a copy of every file the audit did not create.
ChangesAreJournaled ==
    disk # Initially /\ (\A a \in Audits : report[a] = "none") =>
        \E a \in Audits :
            /\ HasJournal(a) /\ phase[a] = "journaled"
            /\ image[a] = Initially
            /\ Existing \subseteq entries[a]

\* A ledgered action is in a snapshot that shows it or in a transaction that
\* can repair the snapshot: a crash between the two file replacements of an
\* append is not final here, as it is for a client without a journal.
TornIsRepairable ==
    torn => \E a \in Actions : HasJournal(a) /\ LedgerMatchesReport(a)

\* A transaction directory goes away only when there is nothing to recover:
\* either the commit is complete, or nothing was published and the analysis
\* run is unchanged.
CleanupIsFinal ==
    [][\A a \in txnDir \ txnDir' :
           \/ recorded[a] # "none" /\ LedgerMatchesReport(a)
           \/ /\ Undone(a)
              /\ a \in Audits => disk = Initially]_vars

\* A transaction directory without a journal that no request can settle: the
\* route does not classify such directories, or something is in it although
\* nothing was published (a rollback was interrupted).
Stranded(a) ==
    /\ Journalless(a)
    /\ ClassifiesJournalless => Undone(a) /\ entries[a] # {}
    /\ current = a =>
           pc = IF ClassifiesJournalless THEN "classify" ELSE "recover"

\* It stays as it is, whatever is requested, and its action is not executed.
StrandedForGood ==
    [][\A a \in Actions : Stranded(a) =>
           /\ Stranded(a)'
           /\ UNCHANGED <<entries[a], report[a], recorded[a]>>]_vars

\* Whatever is recovered, rolled back or run again, the transaction keeps the
\* protocol of an action.
Protocol == INSTANCE ActionProtocol WITH
    open <- [a \in Actions |-> IF a \in txnDir THEN report[a] ELSE "none"]
RefinesProtocol == Protocol!ProtocolSpec

(***************************************************************************)
(* Liveness, for a requester that repeats its request.                     *)
(***************************************************************************)

\* What is published is ledgered, unless another client stops the run first or
\* spends what the action was to cost: from then on every append is refused.
PublicationIsCommitted == \A a \in Actions :
    report[a] # "none" ~> recorded[a] # "none" \/ ~Appendable(a)

\* A commit is completed: the snapshot shows it and its journal is removed.
CommitIsCompleted == \A a \in Actions :
    recorded[a] # "none" ~> ~torn /\ a \notin txnDir
=============================================================================
