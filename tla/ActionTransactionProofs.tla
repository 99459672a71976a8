---------------------- MODULE ActionTransactionProofs -----------------------
(***************************************************************************)
(* The output-to-ledger transaction, for any number of actions, files,     *)
(* crashes and faults: it keeps its types; as long as no append raises     *)
(* into a handler that rolls back, a torn append can always be repaired;   *)
(* and with one audit, what an interrupted or failed action changed can be *)
(* undone, and what the ledger claims is on disk.                          *)
(***************************************************************************)
EXTENDS ActionTransaction, TLAPS

\* No run, no journal, nothing written.
LEMMA InitTypes == Init => TypeOK
<1> SUFFICES ASSUME Init PROVE TypeOK
  OBVIOUS
<1>1. Initially \in [Files -> Contents]
  BY DEF Initially, Contents
<1>2. 0 \in 0 .. MaxCrashes /\ 0 \in 0 .. MaxFaults
  BY TransactionAssumption
<1> QED
  BY <1>1, <1>2 DEF Init, TypeOK, Stages

\* Writing the journal, in any of its phases, keeps the types.
LEMMA WritePhaseTypes ==
  ASSUME TypeOK, NEW a \in Actions,
         NEW p \in {"staged", "journaled", "published", "ledger_committed"},
         WritePhase(a, p)
  PROVE  /\ txnDir' = txnDir /\ image' = image
         /\ phase' \in [Actions ->
                {"none", "staged", "journaled", "published", "ledger_committed"}]
         /\ entries' \in
                [Actions -> SUBSET (Files \cup {"journal", "audit_backup"})]
<1>1. entries[a] \cup {"journal"} \in
          SUBSET (Files \cup {"journal", "audit_backup"})
  BY DEF TypeOK
<1>2. entries' \in [Actions -> SUBSET (Files \cup {"journal", "audit_backup"})]
  BY <1>1 DEF TypeOK, WritePhase
<1>3. phase' \in [Actions ->
          {"none", "staged", "journaled", "published", "ledger_committed"}]
  BY DEF TypeOK, WritePhase
<1> QED
  BY <1>2, <1>3 DEF WritePhase

\* Every step of every invocation keeps the types, crashes included.
LEMMA NextTypes == TypeOK /\ [Next]_vars => TypeOK'
<1> SUFFICES ASSUME TypeOK, [Next]_vars PROVE TypeOK'
  OBVIOUS
<1> USE TransactionAssumption
    DEF TypeOK, Stages, At, Goto, Release, txn, run, counters
<1>1. CASE UNCHANGED vars
  BY <1>1 DEF vars
<1>2. ASSUME NEW a \in Actions, Invoke(a) PROVE TypeOK'
  BY <1>2 DEF Invoke
<1>3. ASSUME NEW a \in Actions,
             \/ NothingToClassify(a) \/ RemoveUnstarted(a) \/ RebuildJournal(a)
             \/ NothingToRecover(a) \/ RepairSnapshot(a) \/ RecoverLedgered(a)
             \/ RecoverPublished(a) \/ RecoverIntent(a) \/ RestoreDone(a)
      PROVE  TypeOK'
  <2>1. CASE NothingToClassify(a)
    BY <2>1 DEF NothingToClassify
  <2>2. CASE RemoveUnstarted(a)
    BY <2>2 DEF RemoveUnstarted
  <2>3. CASE RebuildJournal(a)
    BY <2>3, WritePhaseTypes DEF RebuildJournal
  <2>4. CASE NothingToRecover(a)
    BY <2>4 DEF NothingToRecover
  <2>5. CASE RepairSnapshot(a)
    BY <2>5 DEF RepairSnapshot
  <2>6. CASE RecoverLedgered(a)
    BY <2>6, WritePhaseTypes DEF RecoverLedgered
  <2>7. CASE RecoverPublished(a)
    BY <2>7, WritePhaseTypes DEF RecoverPublished
  <2>8. CASE RecoverIntent(a)
    <3>1. pc' \in {"restore", "rollback"}
      BY <2>8 DEF RecoverIntent
    <3> QED
      BY <2>8, <3>1 DEF RecoverIntent
  <2>9. CASE RestoreDone(a)
    BY <2>9 DEF RestoreDone
  <2> QED
    BY <1>3, <2>1, <2>2, <2>3, <2>4, <2>5, <2>6, <2>7, <2>8, <2>9
<1>4. ASSUME NEW a \in Actions, NEW f \in Files,
             RestoreFile(a, f) \/ BackUp(a, f) \/ WriteOutput(a, f) \/ UndoFile(a, f)
      PROVE  TypeOK'
  <2>1. CASE RestoreFile(a, f)
    BY <2>1 DEF RestoreFile
  <2>2. CASE BackUp(a, f)
    <3>1. entries[a] \cup {"audit_backup", f} \in
              SUBSET (Files \cup {"journal", "audit_backup"})
      OBVIOUS
    <3> QED
      BY <2>2, <3>1 DEF BackUp
  <2>3. CASE WriteOutput(a, f)
    <3>1. a \in Contents
      BY DEF Contents
    <3> QED
      BY <2>3, <3>1 DEF WriteOutput
  <2>4. CASE UndoFile(a, f)
    BY <2>4 DEF UndoFile
  <2> QED
    BY <1>4, <2>1, <2>2, <2>3, <2>4
<1>5. ASSUME NEW a \in Actions, NEW e \in entries[a], RemoveEntry(a, e)
      PROVE  TypeOK'
  BY <1>5 DEF RemoveEntry
<1>6. ASSUME NEW a \in Actions,
             \/ RemoveDirectory(a) \/ Authorize(a) \/ Stage(a) \/ Journal(a)
             \/ Preflight(a) \/ PublishCompleted(a) \/ PublishFailed(a)
      PROVE  TypeOK'
  <2>1. CASE RemoveDirectory(a)
    BY <2>1 DEF RemoveDirectory
  <2>2. CASE Authorize(a)
    BY <2>2 DEF Authorize
  <2>3. CASE Stage(a)
    BY <2>3, WritePhaseTypes DEF Stage
  <2>4. CASE Journal(a)
    BY <2>4 DEF Journal
  <2>5. CASE Preflight(a)
    BY <2>5 DEF Preflight
  <2>6. CASE PublishCompleted(a)
    BY <2>6 DEF PublishCompleted
  <2>7. CASE PublishFailed(a)
    BY <2>7 DEF PublishFailed
  <2> QED
    BY <1>6, <2>1, <2>2, <2>3, <2>4, <2>5, <2>6, <2>7
<1>7. ASSUME NEW a \in Actions,
             \/ AppendLedger(a) \/ AppendSnapshot(a) \/ MarkCommitted(a)
             \/ Verify(a) \/ Raise(a) \/ ExecutionFails(a) \/ AppendFails(a)
      PROVE  TypeOK'
  <2>1. CASE AppendLedger(a)
    <3>0. stopped' = (a \in Terminal)
      BY <2>1 DEF AppendLedger
    <3>1. stopped' \in BOOLEAN
      BY ONLY <3>0
    <3> QED
      BY <2>1, <3>1 DEF AppendLedger
  <2>2. CASE AppendSnapshot(a)
    BY <2>2 DEF AppendSnapshot
  <2>3. CASE MarkCommitted(a)
    BY <2>3, WritePhaseTypes DEF MarkCommitted
  <2>4. CASE Verify(a)
    BY <2>4 DEF Verify
  <2>5. CASE Raise(a)
    BY <2>5 DEF Raise
  <2>6. CASE ExecutionFails(a)
    BY <2>6 DEF ExecutionFails
  <2>7. CASE AppendFails(a)
    BY <2>7 DEF AppendFails
  <2> QED
    BY <1>7, <2>1, <2>2, <2>3, <2>4, <2>5, <2>6, <2>7
<1>8. CASE Crash
  <2>1. crashes' \in 0 .. MaxCrashes
    BY <1>8 DEF Crash
  <2> QED
    BY <1>8, <2>1 DEF Crash
<1>9. CASE OtherStop \/ OtherSpends
  BY <1>9 DEF OtherStop, OtherSpends
<1> QED
  BY <1>1, <1>2, <1>3, <1>4, <1>5, <1>6, <1>7, <1>8, <1>9 DEF Next, Proceed

\* Every variable keeps its type in every reachable state.
THEOREM TransactionTyped == Spec => []TypeOK
  BY InitTypes, NextTypes, PTL DEF Spec

-----------------------------------------------------------------------------
(***************************************************************************)
(* A torn append can be repaired, when no append raises into a handler     *)
(* that rolls back.  The property is not inductive: it needs that the      *)
(* journal is there and the report published whenever an append begins,    *)
(* and that nothing but the append and the stages before the planner run   *)
(* while it is torn.                                                       *)
(***************************************************************************)

\* From its first backup to its append an invocation has a journal.
RunsUnderJournal ==
    pc \in {"backup", "preflight", "execute", "undo", "append"} =>
        HasJournal(current)

\* What is appended has been published.
AppendsPublished == pc = "append" => report[current] # "none"

\* While the snapshot lags, an invocation appends it or has not passed the
\* planner, which refuses a ledger that does not verify.
TornStopsPlanner ==
    torn => pc \in {"idle", "classify", "recover", "authorize", "snapshot"}

TornInv ==
    /\ TypeOK
    /\ RunsUnderJournal
    /\ AppendsPublished
    /\ TornStopsPlanner
    /\ TornIsRepairable

\* Nothing is torn before the first append.
LEMMA InitTornInv == Init => TornInv
<1> SUFFICES ASSUME Init PROVE TornInv
  OBVIOUS
<1>1. TypeOK
  BY InitTypes
<1> QED
  BY <1>1 DEF Init, TornInv, RunsUnderJournal, AppendsPublished,
              TornStopsPlanner, TornIsRepairable

\* Whether an append can be repaired depends on these variables alone.
LEMMA RepairableUnchanged ==
  ASSUME TornIsRepairable, torn' => torn,
         UNCHANGED <<disk, entries, report, recorded>>
  PROVE  TornIsRepairable'
  BY DEF TornIsRepairable, HasJournal, LedgerMatchesReport, OutputsMatch

\* A journal once written is there.
LEMMA WritePhaseJournals ==
  ASSUME TypeOK, NEW a \in Actions, NEW p, WritePhase(a, p)
  PROVE  HasJournal(a)'
<1>1. entries'[a] = entries[a] \cup {"journal"}
  BY DEF TypeOK, WritePhase
<1> QED
  BY <1>1 DEF HasJournal

\* Every step preserves the invariant if no append raises into a rollback.
LEMMA NextTornInv ==
  ASSUME MaxFaults = 0 \/ Handled = {}
  PROVE  TornInv /\ [Next]_vars => TornInv'
<1> SUFFICES ASSUME TornInv, [Next]_vars PROVE TornInv'
  OBVIOUS
<1>0. TypeOK /\ TypeOK'
  BY NextTypes DEF TornInv
<1> USE DEF TornInv, RunsUnderJournal, AppendsPublished, TornStopsPlanner,
            At, Goto, Release, txn, run, counters
<1>1. CASE UNCHANGED vars
  <2>1. TornIsRepairable'
    BY <1>1, RepairableUnchanged DEF vars
  <2> QED
    BY <1>0, <1>1, <2>1 DEF vars, HasJournal
<1>2. ASSUME NEW a \in Actions,
             \/ Invoke(a) \/ NothingToClassify(a) \/ NothingToRecover(a)
             \/ RepairSnapshot(a) \/ AppendSnapshot(a) \/ Raise(a)
      PROVE  TornInv'
  <2>1. TornIsRepairable'
    BY <1>2, RepairableUnchanged
       DEF Invoke, NothingToClassify, NothingToRecover, RepairSnapshot,
           AppendSnapshot, Raise
  <2> QED
    BY <1>0, <1>2, <2>1
       DEF Invoke, NothingToClassify, NothingToRecover, RepairSnapshot,
           AppendSnapshot, Raise
<1>3. CASE Crash \/ OtherStop \/ OtherSpends
  <2>1. TornIsRepairable'
    BY <1>3, RepairableUnchanged DEF Crash, OtherStop, OtherSpends
  <2> QED
    BY <1>0, <1>3, <2>1 DEF Crash, OtherStop, OtherSpends
<1>4. ASSUME NEW a \in Actions, AppendLedger(a) PROVE TornInv'
  <2>1. HasJournal(a) /\ report[a] # "none"
    BY <1>4 DEF AppendLedger
  <2>2. recorded'[a] = report[a]
    BY <1>0, <1>4 DEF AppendLedger, TypeOK
  <2>3. HasJournal(a)' /\ LedgerMatchesReport(a)'
    BY <1>4, <2>1, <2>2
       DEF AppendLedger, HasJournal, LedgerMatchesReport, OutputsMatch
  <2>4. pc' = "snapshot"
    BY <1>4 DEF AppendLedger
  <2> QED
    BY <1>0, <2>3, <2>4 DEF TornIsRepairable
<1>5. ASSUME NEW a \in Actions, NEW p \in {"staged", "published"},
             WritePhase(a, p), current' = a, ~torn, torn' = torn,
             pc' = "append" => report'[a] # "none"
      PROVE  TornInv'
  <2>1. HasJournal(a)'
    BY <1>0, <1>5, WritePhaseJournals
  <2> QED
    BY <1>0, <1>5, <2>1 DEF TornIsRepairable
<1>6. ASSUME NEW a \in Actions, Stage(a) \/ RecoverPublished(a) PROVE TornInv'
  BY <1>5, <1>6 DEF Stage, RecoverPublished
<1>7. ASSUME NEW a \in Actions, PublishCompleted(a) \/ PublishFailed(a)
      PROVE  TornInv'
  <2>1. report'[a] # "none"
    BY <1>0, <1>7 DEF PublishCompleted, PublishFailed, TypeOK
  <2> QED
    BY <1>0, <1>7, <2>1
       DEF PublishCompleted, PublishFailed, HasJournal, TornIsRepairable
<1>8. ASSUME NEW a \in Actions, NEW f \in Files, BackUp(a, f) PROVE TornInv'
  <2>1. HasJournal(a)'
    BY <1>0, <1>8 DEF BackUp, HasJournal, TypeOK
  <2> QED
    BY <1>0, <1>8, <2>1 DEF BackUp, TornIsRepairable
<1>9. ASSUME NEW a \in Actions,
             \/ Journal(a) \/ Preflight(a) \/ ExecutionFails(a)
             \/ \E f \in Files : WriteOutput(a, f) \/ UndoFile(a, f)
      PROVE  TornInv'
  BY <1>0, <1>9
     DEF Journal, Preflight, ExecutionFails, WriteOutput, UndoFile, HasJournal,
         TornIsRepairable
<1>10. ASSUME NEW a \in Actions,
              \/ RemoveUnstarted(a) \/ RebuildJournal(a) \/ RecoverLedgered(a)
              \/ RecoverIntent(a) \/ RestoreDone(a) \/ RemoveDirectory(a)
              \/ Authorize(a) \/ MarkCommitted(a) \/ Verify(a)
              \/ \E f \in Files : RestoreFile(a, f)
              \/ \E e \in entries[a] : RemoveEntry(a, e)
       PROVE  TornInv'
  <2>1. ~torn
    BY <1>10
       DEF RemoveUnstarted, RebuildJournal, RecoverLedgered, RecoverIntent,
           RestoreDone, RemoveDirectory, Authorize, Authorized, MarkCommitted,
           Verify, RestoreFile, RemoveEntry
  <2>2. torn' = torn
    BY <1>10
       DEF RemoveUnstarted, RebuildJournal, RecoverLedgered, RecoverIntent,
           RestoreDone, RemoveDirectory, Authorize, MarkCommitted, Verify,
           RestoreFile, RemoveEntry
  <2>3. pc' \notin {"backup", "preflight", "execute", "undo", "append"}
    BY <1>10
       DEF RemoveUnstarted, RebuildJournal, RecoverLedgered, RecoverIntent,
           RestoreDone, RemoveDirectory, Authorize, MarkCommitted, Verify,
           RestoreFile, RemoveEntry
  <2> QED
    BY <1>0, <2>1, <2>2, <2>3 DEF TornIsRepairable
<1>11. ASSUME NEW a \in Actions, AppendFails(a) PROVE TornInv'
  <2>1. Handled = {}
    BY <1>0, <1>11 DEF AppendFails, TypeOK
  <2>2. TornIsRepairable'
    BY <1>11, RepairableUnchanged DEF AppendFails
  <2> QED
    BY <1>0, <1>11, <2>1, <2>2 DEF AppendFails
<1> QED
  BY <1>1, <1>2, <1>3, <1>4, <1>6, <1>7, <1>8, <1>9, <1>10, <1>11
     DEF Next, Proceed

\* As long as no append raises, or no executor catches what it raises and rolls
\* back, a crash or an exception between the two file replacements of an append
\* leaves a journal and a matching report, from which the next invocation
\* rebuilds the snapshot.
THEOREM TornRepairable ==
  ASSUME MaxFaults = 0 \/ Handled = {}
  PROVE  Spec => []TornIsRepairable
<1>1. TornInv => TornIsRepairable
  BY DEF TornInv
<1> QED
  BY <1>1, InitTornInv, NextTornInv, PTL DEF Spec

-----------------------------------------------------------------------------
(***************************************************************************)
(* One audit: what is changed can be undone, and nothing is cleaned up     *)
(* before it is settled.  A second audit could run over the files of an    *)
(* interrupted one, whose recovery would then undo the second.             *)
(***************************************************************************)
OneAudit == \A a, b \in Audits : a = b

EntriesInDirectory == \A a \in Actions : entries[a] # {} => a \in txnDir

LedgerRepeatsReport ==
    \A a \in Actions : recorded[a] # "none" => recorded[a] = report[a]

\* What is published and not ledgered has its journal.
PublishedIsHeld ==
    \A a \in Actions :
        report[a] # "none" /\ recorded[a] = "none" => HasJournal(a)

ImagesAreInitial ==
    \A a \in Audits : phase[a] = "journaled" => image[a] = Initially

Restorable(a) ==
    /\ HasJournal(a) /\ phase[a] = "journaled"
    /\ Existing \subseteq entries[a]

\* Files that differ from those before the audit are the audit's, published or
\* restorable.
UnpublishedIsJournaled ==
    disk # Initially =>
        \E a \in Audits : report[a] # "none" \/ Restorable(a)

\* What each stage has established about the transaction of its action, ...
StageKnowsAction ==
    /\ pc = "authorize" => entries[current] = {}
    /\ pc \in {"stage", "backup", "preflight", "execute", "undo", "append",
               "snapshot", "committed"} => current \in txnDir
    /\ pc \in {"backup", "preflight", "execute", "undo", "append", "snapshot"}
           => HasJournal(current)
    /\ pc \in {"restore", "rollback", "stage", "backup", "preflight", "execute"}
           => Undone(current)
    /\ pc = "restore" => current \in Audits /\ phase[current] = "journaled"
    /\ pc = "undo" => report[current] # "failed"
    /\ pc = "append" => report[current] # "none" /\ recorded[current] = "none"
    /\ pc \in {"snapshot", "committed"} => recorded[current] # "none"
    /\ pc = "cleanup" =>
           recorded[current] # "none" /\ LedgerMatchesReport(current)

\* ... about the files an audit changes, ...
StageKnowsFiles ==
    current \in Audits =>
        /\ pc \in {"rollback", "stage", "backup", "preflight"} =>
               disk = Initially
        /\ pc \in {"preflight", "execute"} => Restorable(current)
        /\ pc = "undo" /\ report[current] = "none" => Restorable(current)

\* ... and about the executor's copy of them, while it may take them back.
MayUndo ==
    \/ pc \in {"execute", "undo"}
    \/ pc \in {"append", "snapshot"} /\ phase[current] = "journaled"

StageKnowsMemory ==
    MayUndo => memory = IF current \in Audits THEN Initially ELSE disk

FilesInv ==
    /\ EntriesInDirectory
    /\ LedgerRepeatsReport
    /\ PublishedIsHeld
    /\ ImagesAreInitial
    /\ UnpublishedIsJournaled
    /\ FailureRollsBack

StageInv == StageKnowsAction /\ StageKnowsFiles /\ StageKnowsMemory

UndoInv == TypeOK /\ FilesInv /\ StageInv

\* Nothing is published, changed or journaled before the first invocation.
LEMMA InitUndoInv == Init => UndoInv
<1> SUFFICES ASSUME Init PROVE UndoInv
  OBVIOUS
<1>1. TypeOK
  BY InitTypes
<1> QED
  BY <1>1
     DEF Init, UndoInv, FilesInv, StageInv, EntriesInDirectory,
         LedgerRepeatsReport, PublishedIsHeld, ImagesAreInitial,
         UnpublishedIsJournaled, FailureRollsBack, StageKnowsAction,
         StageKnowsFiles, StageKnowsMemory, MayUndo, Actions

\* Every step preserves it, crashes and raising appends included.
LEMMA NextUndoInv ==
  ASSUME OneAudit
  PROVE  UndoInv /\ [Next]_vars => UndoInv'
<1> SUFFICES ASSUME UndoInv, [Next]_vars PROVE UndoInv'
  OBVIOUS
<1>0. TypeOK /\ TypeOK'
  BY NextTypes DEF UndoInv
<1> USE TransactionAssumption
    DEF UndoInv, FilesInv, StageInv, EntriesInDirectory, LedgerRepeatsReport,
        PublishedIsHeld, ImagesAreInitial, UnpublishedIsJournaled, Restorable,
        FailureRollsBack, StageKnowsAction, StageKnowsFiles, StageKnowsMemory,
        MayUndo, Undone, HasJournal, LedgerMatchesReport, OutputsMatch,
        At, Goto, Release, txn, run, counters, OneAudit
<1>1. CASE UNCHANGED vars
  BY <1>0, <1>1 DEF vars
<1>2. ASSUME NEW a \in Actions, NothingToClassify(a) PROVE UndoInv'
  BY <1>0, <1>2 DEF TypeOK, NothingToClassify, Journalless
<1>3. ASSUME NEW a \in Actions, NothingToRecover(a) PROVE UndoInv'
  BY <1>0, <1>3 DEF TypeOK, NothingToRecover
<1>4. ASSUME NEW a \in Actions, RepairSnapshot(a) PROVE UndoInv'
  BY <1>0, <1>4 DEF TypeOK, RepairSnapshot
<1>5. ASSUME NEW a \in Actions, RestoreDone(a) PROVE UndoInv'
  BY <1>0, <1>5 DEF TypeOK, RestoreDone, BackupMissing
<1>6. ASSUME NEW a \in Actions, AppendSnapshot(a) PROVE UndoInv'
  BY <1>0, <1>6 DEF TypeOK, AppendSnapshot
<1>7. ASSUME NEW a \in Actions, Verify(a) PROVE UndoInv'
  BY <1>0, <1>7 DEF TypeOK, Verify
<1>8. ASSUME NEW a \in Actions, Raise(a) PROVE UndoInv'
  BY <1>0, <1>8 DEF TypeOK, Raise, CannotClassify, CannotRecover
<1>9. ASSUME NEW a \in Actions, ExecutionFails(a) PROVE UndoInv'
  BY <1>0, <1>9 DEF TypeOK, ExecutionFails
<1>10. ASSUME NEW a \in Actions, AppendFails(a) PROVE UndoInv'
  BY <1>0, <1>10 DEF TypeOK, AppendFails
<1>11. ASSUME NEW a \in Actions, Preflight(a) PROVE UndoInv'
  BY <1>0, <1>11 DEF TypeOK, Preflight
<1>12. ASSUME NEW a \in Actions, Invoke(a) PROVE UndoInv'
  BY <1>0, <1>12 DEF TypeOK, Invoke
<1>13. ASSUME NEW a \in Actions, RecoverIntent(a) PROVE UndoInv'
  BY <1>0, <1>13 DEF TypeOK, RecoverIntent
<1>14. ASSUME NEW a \in Actions, RemoveUnstarted(a) PROVE UndoInv'
  BY <1>0, <1>14 DEF TypeOK, RemoveUnstarted, Unstarted, Journalless
<1>15. ASSUME NEW a \in Actions, RebuildJournal(a) PROVE UndoInv'
  <2>1. recorded[a] # "none" /\ report[a] # "none" /\ a \in txnDir
    BY <1>15 DEF RebuildJournal, Journalless
  <2>2. /\ entries' = [entries EXCEPT ![a] = @ \cup {"journal"}]
        /\ phase' = [phase EXCEPT ![a] = "ledger_committed"]
        /\ UNCHANGED <<disk, txnDir, image, report, run, memory>>
        /\ pc' = "verify"
    BY <1>15 DEF RebuildJournal, WritePhase
  <2> QED
    BY <1>0, <2>1, <2>2 DEF TypeOK
<1>16. ASSUME NEW a \in Actions, RecoverLedgered(a) PROVE UndoInv'
  BY <1>0, <1>16 DEF TypeOK, RecoverLedgered, WritePhase
<1>17. ASSUME NEW a \in Actions, RecoverPublished(a) PROVE UndoInv'
  BY <1>0, <1>17 DEF TypeOK, RecoverPublished, WritePhase
<1>18. ASSUME NEW a \in Actions, RemoveDirectory(a) PROVE UndoInv'
  BY <1>0, <1>18 DEF TypeOK, RemoveDirectory
<1>19. ASSUME NEW a \in Actions, Authorize(a) PROVE UndoInv'
  BY <1>0, <1>19 DEF TypeOK, Authorize, Authorized, Selected
<1>20. ASSUME NEW a \in Actions, Stage(a) PROVE UndoInv'
  BY <1>0, <1>20 DEF TypeOK, Stage, WritePhase
<1>21. ASSUME NEW a \in Actions, Journal(a) PROVE UndoInv'
  <2>1. a \in Audits => disk = Initially
    BY <1>21 DEF Journal
  <2>2. a \in Audits => Existing \subseteq entries[a]
    BY <2>1, <1>21 DEF Journal, ToBackUp, Initially
  <2>3. /\ phase' = [phase EXCEPT ![a] = "journaled"]
        /\ image' = [image EXCEPT ![a] = disk]
    BY <1>21 DEF Journal
  <2>4. ImagesAreInitial'
    BY <1>0, <2>1, <2>3 DEF TypeOK
  <2>5. StageInv'
    BY <1>0, <1>21, <2>2, <2>3 DEF TypeOK, Journal
  <2> HIDE DEF ImagesAreInitial, StageInv
  <2> QED
    BY <1>0, <1>21, <2>3, <2>4, <2>5 DEF TypeOK, Journal
<1>22. ASSUME NEW a \in Actions, PublishCompleted(a) PROVE UndoInv'
  BY <1>0, <1>22 DEF TypeOK, PublishCompleted
<1>23. ASSUME NEW a \in Actions, PublishFailed(a) PROVE UndoInv'
  BY <1>0, <1>23 DEF TypeOK, PublishFailed
<1>24. ASSUME NEW a \in Actions, AppendLedger(a) PROVE UndoInv'
  BY <1>0, <1>24 DEF TypeOK, AppendLedger
<1>25. ASSUME NEW a \in Actions, MarkCommitted(a) PROVE UndoInv'
  BY <1>0, <1>25 DEF TypeOK, MarkCommitted, WritePhase
<1>26. ASSUME NEW a \in Actions, NEW f \in Files, RestoreFile(a, f)
       PROVE  UndoInv'
  BY <1>0, <1>26 DEF TypeOK, RestoreFile
<1>27. ASSUME NEW a \in Actions, NEW f \in Files, BackUp(a, f) PROVE UndoInv'
  BY <1>0, <1>27 DEF TypeOK, BackUp, ToBackUp
<1>28. ASSUME NEW a \in Actions, NEW f \in Files, WriteOutput(a, f)
       PROVE  UndoInv'
  BY <1>0, <1>28 DEF TypeOK, WriteOutput
<1>29. ASSUME NEW a \in Actions, NEW f \in Files, UndoFile(a, f) PROVE UndoInv'
  BY <1>0, <1>29 DEF TypeOK, UndoFile
<1>30. ASSUME NEW a \in Actions, NEW e \in entries[a], RemoveEntry(a, e)
       PROVE  UndoInv'
  BY <1>0, <1>30 DEF TypeOK, RemoveEntry
<1>31. CASE Crash \/ OtherStop \/ OtherSpends
  BY <1>0, <1>31 DEF TypeOK, Crash, OtherStop, OtherSpends
<1> HIDE DEF UndoInv
<1> QED
    BY <1>1, <1>2, <1>3, <1>4, <1>5, <1>6, <1>7, <1>8, <1>9, <1>10, <1>11,
     <1>12, <1>13, <1>14, <1>15, <1>16, <1>17, <1>18, <1>19, <1>20, <1>21,
     <1>22, <1>23, <1>24, <1>25, <1>26, <1>27, <1>28, <1>29, <1>30, <1>31
     DEF Next, Proceed

\* What an undone action leaves behind when its directory goes.
LEMMA UndoneLeavesNothing ==
  ASSUME OneAudit, UndoInv, NEW a \in Audits, Undone(a), ~HasJournal(a)
  PROVE  disk = Initially
  BY DEF OneAudit, UndoInv, FilesInv, UnpublishedIsJournaled, Restorable, Undone

\* A directory goes by the last step of its removal, or unstarted.
LEMMA CleanupStep ==
  ASSUME OneAudit
  PROVE  UndoInv /\ [Next]_vars =>
             [\A a \in txnDir \ txnDir' :
                 \/ recorded[a] # "none" /\ LedgerMatchesReport(a)
                 \/ /\ Undone(a)
                    /\ a \in Audits => disk = Initially]_vars
<1> SUFFICES ASSUME UndoInv, Next, NEW a \in txnDir \ txnDir'
             PROVE  \/ recorded[a] # "none" /\ LedgerMatchesReport(a)
                    \/ /\ Undone(a)
                       /\ a \in Audits => disk = Initially
  OBVIOUS
<1> USE DEF txn, run
<1>1. \E b \in Actions : RemoveDirectory(b) \/ RemoveUnstarted(b)
  BY DEF Next, Proceed, Invoke, NothingToClassify, RebuildJournal,
         NothingToRecover, RepairSnapshot, RecoverLedgered, RecoverPublished,
         RecoverIntent, RestoreDone, RestoreFile, BackUp, WriteOutput, UndoFile,
         RemoveEntry, Authorize, Stage, Journal, Preflight, PublishCompleted,
         PublishFailed, AppendLedger, AppendSnapshot, MarkCommitted, Verify,
         Raise, ExecutionFails, AppendFails, Crash, OtherStop, OtherSpends,
         WritePhase
<1>2. CASE RemoveDirectory(a)
  BY <1>2 DEF RemoveDirectory, UndoInv, StageInv, StageKnowsAction,
              StageKnowsFiles
<1>3. CASE RemoveUnstarted(a)
  <2>1. Undone(a) /\ ~HasJournal(a)
    BY <1>3 DEF RemoveUnstarted, Journalless, Unstarted, Undone
  <2> QED
    BY <2>1, UndoneLeavesNothing
<1> QED
  BY <1>1, <1>2, <1>3 DEF RemoveDirectory, RemoveUnstarted

\* With one audit, a failed audit leaves the analysis run as it was, whatever
\* crashes and whatever append raises.
THEOREM FailedAuditRollsBack ==
  ASSUME OneAudit
  PROVE  Spec => []FailureRollsBack
<1>1. UndoInv => FailureRollsBack
  BY DEF UndoInv, FilesInv
<1> QED
  BY <1>1, InitUndoInv, NextUndoInv, PTL DEF Spec

\* With one audit, whatever it changed and has not published can be changed
\* back from its journal, after a crash at any point.
THEOREM EveryChangeIsJournaled ==
  ASSUME OneAudit
  PROVE  Spec => []ChangesAreJournaled
<1>1. UndoInv => ChangesAreJournaled
  BY DEF UndoInv, FilesInv, UnpublishedIsJournaled, ImagesAreInitial,
         Restorable, ChangesAreJournaled
<1> QED
  BY <1>1, InitUndoInv, NextUndoInv, PTL DEF Spec

\* With one audit, no transaction directory is removed, by cleanup, rollback or
\* classification, while there is something to recover from it.
THEOREM NothingIsCleanedUpEarly ==
  ASSUME OneAudit
  PROVE  Spec => CleanupIsFinal
<1> QED
  BY InitUndoInv, NextUndoInv, CleanupStep, PTL DEF Spec, CleanupIsFinal

-----------------------------------------------------------------------------
(***************************************************************************)
(* If in addition no append raises into a handler that rolls back, the     *)
(* outputs of a completed report stay on disk.                             *)
(***************************************************************************)
CompletedStays ==
    /\ \A a \in Audits : report[a] = "completed" => OutputsMatch(a)
    /\ pc = "undo" => report[current] = "none"

\* Files change in the hands of the audit only, before it has a report.
LEMMA NextCompletedStays ==
  ASSUME OneAudit, MaxFaults = 0 \/ Handled = {}
  PROVE  UndoInv /\ CompletedStays /\ [Next]_vars => CompletedStays'
<1> SUFFICES ASSUME UndoInv, CompletedStays, [Next]_vars
             PROVE  CompletedStays'
  OBVIOUS
<1>0. TypeOK /\ StageKnowsAction /\ StageKnowsMemory
  BY DEF UndoInv, StageInv
<1> USE DEF CompletedStays, OutputsMatch, At, Goto, Release, txn, run, counters
<1>1. CASE UNCHANGED vars
  BY <1>1 DEF vars
<1>2. ASSUME NEW a \in Actions, NEW f \in Files,
             RestoreFile(a, f) \/ WriteOutput(a, f) \/ UndoFile(a, f)
      PROVE  CompletedStays'
  <2>1. /\ report' = report /\ report[a] = "none"
        /\ pc' = pc /\ current' = current /\ current = a
    BY <1>0, <1>2
       DEF RestoreFile, WriteOutput, UndoFile, StageKnowsAction, Undone
  <2>2. a \in Audits
    BY <1>0, <1>2
       DEF RestoreFile, WriteOutput, UndoFile, StageKnowsAction,
           StageKnowsMemory, MayUndo
  <2> QED
    BY <2>1, <2>2 DEF OneAudit
<1>3. ASSUME NEW a \in Actions, PublishCompleted(a) \/ PublishFailed(a)
      PROVE  CompletedStays'
  <2>1. \A b \in Audits : b \in Actions
    BY DEF Actions
  <2>2. CASE PublishCompleted(a)
    BY <1>0, <2>1, <2>2 DEF PublishCompleted, TypeOK
  <2>3. CASE PublishFailed(a)
    BY <1>0, <2>1, <2>3 DEF PublishFailed, TypeOK
  <2> QED
    BY <1>3, <2>2, <2>3
<1>4. ASSUME NEW a \in Actions, ExecutionFails(a)
      PROVE  CompletedStays'
  BY <1>0, <1>4 DEF ExecutionFails, StageKnowsAction, Undone
<1>5. ASSUME NEW a \in Actions, AppendFails(a)
      PROVE  CompletedStays'
  BY <1>0, <1>5 DEF AppendFails, TypeOK
<1>6. ASSUME NEW a \in Actions,
             \/ Invoke(a) \/ NothingToClassify(a) \/ RemoveUnstarted(a)
             \/ RebuildJournal(a) \/ NothingToRecover(a) \/ RepairSnapshot(a)
             \/ RecoverLedgered(a) \/ RecoverPublished(a) \/ RecoverIntent(a)
             \/ RestoreDone(a) \/ RemoveDirectory(a) \/ Authorize(a) \/ Stage(a)
             \/ Journal(a) \/ Preflight(a) \/ AppendLedger(a)
             \/ AppendSnapshot(a) \/ MarkCommitted(a) \/ Verify(a) \/ Raise(a)
             \/ \E f \in Files : BackUp(a, f)
             \/ \E e \in entries[a] : RemoveEntry(a, e)
      PROVE  CompletedStays'
  <2>1. UNCHANGED <<disk, report>>
    BY <1>6
       DEF Invoke, NothingToClassify, RemoveUnstarted, RebuildJournal,
           NothingToRecover, RepairSnapshot, RecoverLedgered, RecoverPublished,
           RecoverIntent, RestoreDone, RemoveDirectory, Authorize, Stage,
           Journal, Preflight, AppendLedger, AppendSnapshot, MarkCommitted,
           Verify, Raise, BackUp, RemoveEntry
  <2>2. pc' = "undo" => pc = "undo" /\ current' = current
    BY <1>6
       DEF Invoke, NothingToClassify, RemoveUnstarted, RebuildJournal,
           NothingToRecover, RepairSnapshot, RecoverLedgered, RecoverPublished,
           RecoverIntent, RestoreDone, RemoveDirectory, Authorize, Stage,
           Journal, Preflight, AppendLedger, AppendSnapshot, MarkCommitted,
           Verify, Raise, BackUp, RemoveEntry
  <2> QED
    BY <2>1, <2>2
<1>7. CASE Crash \/ OtherStop \/ OtherSpends
  BY <1>7 DEF Crash, OtherStop, OtherSpends
<1> QED
  BY <1>1, <1>2, <1>3, <1>4, <1>5, <1>6, <1>7 DEF Next, Proceed

\* With one audit, and if no append raises or no executor rolls back what it
\* catches, the ledger repeats the report of every action and the outputs of a
\* completed audit are on disk for as long as the ledger claims them.
THEOREM LedgerTellsTheFiles ==
  ASSUME OneAudit, MaxFaults = 0 \/ Handled = {}
  PROVE  Spec => []LedgeredOutputsOnDisk
<1>1. Init => CompletedStays
  BY DEF Init, CompletedStays, Actions
<1>2. UndoInv /\ CompletedStays => LedgeredOutputsOnDisk
  BY DEF UndoInv, FilesInv, LedgerRepeatsReport, CompletedStays, OutputsMatch,
         LedgeredOutputsOnDisk, LedgerMatchesReport
<1> QED
  BY <1>1, <1>2, InitUndoInv, NextUndoInv, NextCompletedStays, PTL DEF Spec

-----------------------------------------------------------------------------
(***************************************************************************)
(* The transaction keeps the protocol of an action, with any number of     *)
(* audits, crashes and faults.                                             *)
(***************************************************************************)

\* What a report and a ledger entry have to do with the transaction directory
\* and with the stage an invocation is in.
ProtocolInv ==
    /\ TypeOK
    /\ \A a \in Actions :
           /\ entries[a] # {} => a \in txnDir
           /\ report[a] # "none" /\ recorded[a] = "none" => a \in txnDir
    /\ pc \in {"stage", "backup", "preflight", "execute", "undo", "append",
               "snapshot", "committed"} => current \in txnDir
    /\ pc \in {"stage", "backup", "preflight", "execute", "append"} =>
           recorded[current] = "none"
    /\ pc \in {"restore", "rollback"} =>
           recorded[current] = "none" /\ report[current] = "none"
    /\ pc = "undo" /\ report[current] = "none" => recorded[current] = "none"
    /\ pc = "execute" => report[current] = "none"
    /\ pc = "append" => report[current] # "none"
    /\ pc = "cleanup" =>
           report[current] # "none" /\ recorded[current] = report[current]

LEMMA InitProtocolInv == Init => ProtocolInv
BY InitTypes DEF Init, ProtocolInv

\* The steps that write neither a report nor the ledger and keep the directory.
LEMMA QuietKeepsProtocol ==
    ASSUME ProtocolInv, TypeOK', NEW a \in Actions, current' = a,
           UNCHANGED <<txnDir, report, recorded>>,
           \A b \in Actions : entries'[b] # {} => b \in txnDir,
           pc' \in {"stage", "backup", "preflight", "execute", "undo",
                    "append", "snapshot", "committed"} => a \in txnDir,
           pc' \in {"stage", "backup", "preflight", "execute", "append",
                    "restore", "rollback"} => recorded[a] = "none",
           pc' \in {"restore", "rollback"} => report[a] = "none",
           pc' = "undo" /\ report[a] = "none" => recorded[a] = "none",
           pc' = "execute" => report[a] = "none",
           pc' = "append" => report[a] # "none",
           pc' = "cleanup" => report[a] # "none" /\ recorded[a] = report[a]
    PROVE  ProtocolInv'
BY DEF ProtocolInv

LEMMA Authorization ==
    ASSUME NEW a \in Actions, Authorized(a)
    PROVE  recorded[a] = "none"
BY DEF Authorized, Selected, Actions

LEMMA NextProtocolInv == ProtocolInv /\ [Next]_vars => ProtocolInv'
<1> SUFFICES ASSUME ProtocolInv, [Next]_vars PROVE ProtocolInv'
  OBVIOUS
<1>0. TypeOK /\ TypeOK'
  BY NextTypes DEF ProtocolInv
<1> USE DEF At, Goto, Release, txn, run, counters
<1>1. CASE UNCHANGED vars
  BY <1>0, <1>1 DEF vars, ProtocolInv
<1>2. ASSUME NEW a \in Actions, Invoke(a) PROVE ProtocolInv'
  BY <1>0, <1>2 DEF Invoke, ProtocolInv
<1>3. ASSUME NEW a \in Actions,
             \/ NothingToClassify(a) \/ NothingToRecover(a) \/ RepairSnapshot(a)
             \/ RestoreDone(a) \/ RecoverIntent(a) \/ Verify(a)
      PROVE  ProtocolInv'
  BY <1>0, <1>3
     DEF NothingToClassify, NothingToRecover, RepairSnapshot, RestoreDone,
         RecoverIntent, Undone, Verify, LedgerMatchesReport, ProtocolInv
<1>4. ASSUME NEW a \in Actions, NEW p, WritePhase(a, p), a \in txnDir
      PROVE  \A b \in Actions : entries'[b] # {} => b \in txnDir
  BY <1>0, <1>4 DEF WritePhase, TypeOK, ProtocolInv
<1>5. ASSUME NEW a \in Actions,
             \/ RebuildJournal(a) \/ RecoverLedgered(a) \/ RecoverPublished(a)
             \/ Stage(a) \/ MarkCommitted(a)
      PROVE  ProtocolInv'
  <2>1. a \in txnDir
    BY <1>5
       DEF RebuildJournal, Journalless, RecoverLedgered, RecoverPublished,
           HasJournal, Stage, MarkCommitted, ProtocolInv
  <2>2. PICK p : WritePhase(a, p)
    BY <1>5
       DEF RebuildJournal, RecoverLedgered, RecoverPublished, Stage,
           MarkCommitted
  <2>3. /\ UNCHANGED <<txnDir, report, recorded>> /\ current' = a
        /\ \/ pc' = "verify"
           \/ pc' = "append" /\ recorded[a] = "none" /\ report[a] # "none"
           \/ pc' = "backup" /\ recorded[a] = "none"
    BY <1>5, <2>2
       DEF RebuildJournal, RecoverLedgered, RecoverPublished, Stage,
           MarkCommitted, WritePhase, ProtocolInv
  <2> QED
    BY <1>0, <1>4, <2>1, <2>2, <2>3, QuietKeepsProtocol
<1>6. ASSUME NEW a \in Actions, NEW f \in Files, BackUp(a, f)
      PROVE  ProtocolInv'
  <2>1. a \in txnDir /\ recorded[a] = "none"
    BY <1>6 DEF BackUp, ProtocolInv
  <2>2. \A b \in Actions : entries'[b] # {} => b \in txnDir
    BY <1>0, <1>6, <2>1 DEF BackUp, TypeOK, ProtocolInv
  <2> QED
    BY <1>0, <1>6, <2>1, <2>2, QuietKeepsProtocol DEF BackUp
<1>7. ASSUME NEW a \in Actions, NEW e \in entries[a], RemoveEntry(a, e)
      PROVE  ProtocolInv'
  <2>1. \A b \in Actions : entries'[b] # {} => b \in txnDir
    BY <1>0, <1>7 DEF RemoveEntry, TypeOK, ProtocolInv
  <2> QED
    BY <1>0, <1>7, <2>1 DEF RemoveEntry, ProtocolInv
<1>8. ASSUME NEW a \in Actions,
             \/ Journal(a) \/ Preflight(a) \/ ExecutionFails(a)
             \/ AppendFails(a) \/ AppendSnapshot(a)
             \/ \E f \in Files :
                    RestoreFile(a, f) \/ WriteOutput(a, f) \/ UndoFile(a, f)
      PROVE  ProtocolInv'
  BY <1>0, <1>8
     DEF Journal, Preflight, ExecutionFails, AppendFails, AppendSnapshot,
         RestoreFile, WriteOutput, UndoFile, ProtocolInv
<1>9. ASSUME NEW a \in Actions,
             RemoveUnstarted(a) \/ RemoveDirectory(a) \/ Authorize(a)
      PROVE  ProtocolInv'
  <2>1. CASE RemoveUnstarted(a)
    BY <1>0, <2>1 DEF RemoveUnstarted, Unstarted, ProtocolInv
  <2>2. CASE RemoveDirectory(a)
    BY <1>0, <2>2 DEF RemoveDirectory, ProtocolInv
  <2>3. CASE Authorize(a)
    BY <1>0, <2>3, Authorization DEF Authorize, ProtocolInv
  <2> QED
    BY <1>9, <2>1, <2>2, <2>3
<1>10. ASSUME NEW a \in Actions,
              PublishCompleted(a) \/ PublishFailed(a) \/ AppendLedger(a)
       PROVE  ProtocolInv'
  <2>1. CASE PublishCompleted(a) \/ PublishFailed(a)
    <3>1. PICK s \in {"completed", "failed"} : report' = [report EXCEPT ![a] = s]
      BY <2>1 DEF PublishCompleted, PublishFailed
    <3>2. /\ current = a /\ current' = a /\ pc' = "append" /\ a \in txnDir
          /\ recorded[a] = "none" /\ UNCHANGED <<txnDir, entries, recorded>>
      BY <2>1 DEF PublishCompleted, PublishFailed, ProtocolInv
    <3>3. report'[a] = s /\ \A b \in Actions \ {a} : report'[b] = report[b]
      BY <1>0, <3>1 DEF TypeOK
    <3> QED
      BY <1>0, <3>2, <3>3 DEF ProtocolInv
  <2>2. CASE AppendLedger(a)
    <3>1. /\ current = a /\ current' = a /\ pc' = "snapshot" /\ a \in txnDir
          /\ UNCHANGED <<txnDir, entries, report>>
      BY <2>2 DEF AppendLedger, ProtocolInv
    <3>2. \A b \in Actions \ {a} : recorded'[b] = recorded[b]
      BY <1>0, <2>2 DEF AppendLedger, TypeOK
    <3> QED
      BY <1>0, <3>1, <3>2 DEF ProtocolInv
  <2> QED
    BY <1>10, <2>1, <2>2
<1>11. CASE Crash \/ OtherStop \/ OtherSpends \/ \E a \in Actions : Raise(a)
  BY <1>0, <1>11 DEF Crash, OtherStop, OtherSpends, Raise, ProtocolInv
<1> QED
  BY <1>1, <1>2, <1>3, <1>5, <1>6, <1>7, <1>8, <1>9, <1>10, <1>11
     DEF Next, Proceed

Opened == [a \in Actions |-> IF a \in txnDir THEN report[a] ELSE "none"]

\* Every step of the transaction is a step of the protocol, or none.
LEMMA StepKeepsProtocol ==
    ASSUME ProtocolInv, [Next]_vars
    PROVE  [Protocol!ProtocolNext]_(Protocol!protocolVars)
<1>0. TypeOK
  BY DEF ProtocolInv
<1> DEFINE Stutter == Opened' = Opened /\ recorded' = recorded
<1> USE DEF At, Goto, Release, txn, run, counters
<1>1. ASSUME Stutter PROVE [Protocol!ProtocolNext]_(Protocol!protocolVars)
  BY <1>1 DEF Protocol!protocolVars, Opened
<1>2. ASSUME UNCHANGED <<txnDir, report, recorded>> PROVE Stutter
  BY <1>2 DEF Opened
<1>3. ASSUME NEW a \in Actions, RemoveUnstarted(a) \/ Authorize(a)
      PROVE  Stutter
  <2>1. report[a] = "none" \/ (a \in txnDir /\ a \in txnDir')
    BY <1>3, Authorization
       DEF RemoveUnstarted, Unstarted, Authorize, ProtocolInv
  <2>2. /\ UNCHANGED <<report, recorded>>
        /\ \A b \in Actions \ {a} : b \in txnDir <=> b \in txnDir'
    BY <1>3 DEF RemoveUnstarted, Authorize
  <2> QED
    BY <2>1, <2>2 DEF Opened
<1>4. ASSUME NEW a \in Actions, RemoveDirectory(a)
      PROVE  Stutter \/ Protocol!Close(a)
  <2>1. /\ UNCHANGED <<report, recorded>> /\ a \notin txnDir'
        /\ \A b \in Actions \ {a} : b \in txnDir <=> b \in txnDir'
    BY <1>4 DEF RemoveDirectory
  <2>2. CASE report[a] = "none" \/ a \notin txnDir
    BY <2>1, <2>2 DEF Opened
  <2>3. CASE report[a] # "none" /\ a \in txnDir
    <3>1. recorded[a] = report[a] /\ Opened[a] = report[a]
      BY <1>4, <2>3 DEF RemoveDirectory, ProtocolInv, Opened
    <3>2. Opened' = [Opened EXCEPT ![a] = "none"]
      BY <2>1 DEF Opened
    <3> QED
      BY <2>1, <2>3, <3>1, <3>2 DEF Protocol!Close, Opened
  <2> QED
    BY <2>2, <2>3
<1>5. ASSUME NEW a \in Actions, PublishCompleted(a) \/ PublishFailed(a)
      PROVE  Stutter \/ \E s \in {"completed", "failed"} : Protocol!Publish(a, s)
  <2>1. PICK s \in {"completed", "failed"} : report' = [report EXCEPT ![a] = s]
    BY <1>5 DEF PublishCompleted, PublishFailed
  <2>2. /\ UNCHANGED <<txnDir, recorded>> /\ a \in txnDir
        /\ recorded[a] = "none" /\ report[a] = "none"
    BY <1>5 DEF PublishCompleted, PublishFailed, ProtocolInv
  <2>3. Opened[a] = "none" /\ Opened' = [Opened EXCEPT ![a] = s]
    BY <1>0, <2>1, <2>2 DEF Opened, TypeOK
  <2> QED
    BY <2>2, <2>3 DEF Protocol!Publish, Opened
<1>6. ASSUME NEW a \in Actions, AppendLedger(a) PROVE Protocol!Commit(a)
  <2>1. /\ UNCHANGED <<txnDir, report>> /\ a \in txnDir
        /\ recorded[a] = "none" /\ report[a] # "none"
        /\ recorded' = [recorded EXCEPT ![a] = report[a]]
    BY <1>6 DEF AppendLedger, ProtocolInv
  <2>2. Opened[a] = report[a] /\ Opened' = Opened
    BY <2>1 DEF Opened
  <2> QED
    BY <2>1, <2>2 DEF Protocol!Commit, Opened
<1>7. CASE \E a \in Actions :
              \/ RemoveUnstarted(a) \/ Authorize(a) \/ RemoveDirectory(a)
              \/ PublishCompleted(a) \/ PublishFailed(a) \/ AppendLedger(a)
  BY <1>1, <1>3, <1>4, <1>5, <1>6, <1>7
     DEF Protocol!ProtocolNext, Protocol!Outcomes
<1>8. CASE ~\E a \in Actions :
              \/ RemoveUnstarted(a) \/ Authorize(a) \/ RemoveDirectory(a)
              \/ PublishCompleted(a) \/ PublishFailed(a) \/ AppendLedger(a)
  <2>1. UNCHANGED <<txnDir, report, recorded>>
    BY <1>8
       DEF Next, Proceed, vars, Invoke, NothingToClassify, RebuildJournal,
           NothingToRecover, RepairSnapshot, RecoverLedgered, RecoverPublished,
           RecoverIntent, RestoreDone, RestoreFile, BackUp, WriteOutput,
           UndoFile, RemoveEntry, Stage, Journal, Preflight, AppendSnapshot,
           MarkCommitted, Verify, Raise, ExecutionFails, AppendFails, Crash,
           OtherStop, OtherSpends, WritePhase
  <2> QED
    BY <1>1, <1>2, <2>1
<1> QED
  BY <1>7, <1>8

\* Whatever is recovered, rolled back, retried or interrupted, and whatever
\* raises into the executor's handler: a report is published once, the ledger
\* gets its status once, and its transaction is closed only after that.
THEOREM TransactionKeepsProtocol == Spec => RefinesProtocol
<1>1. Init => Protocol!ProtocolInit
  BY DEF Init, Protocol!ProtocolInit
<1>2. ProtocolInv /\ [Next]_vars
          => [Protocol!ProtocolNext]_(Protocol!protocolVars)
  BY StepKeepsProtocol
<1> QED
  BY <1>1, <1>2, InitProtocolInv, NextProtocolInv, PTL
     DEF Spec, RefinesProtocol, Protocol!ProtocolSpec

-----------------------------------------------------------------------------
(***************************************************************************)
(* What nobody can recover.                                                *)
(***************************************************************************)
\* What every step leaves of a stranded transaction.
Kept(a) ==
    /\ a \in txnDir' /\ UNCHANGED <<entries[a], report[a], recorded[a]>>
    /\ current' = a =>
           pc' = IF ClassifiesJournalless THEN "classify" ELSE "recover"

\* An invocation touches the transaction of its own action only.
LEMMA Footprint ==
    ASSUME TypeOK, NEW b \in Actions, NEW a \in Actions, a # b,
           Proceed(b) \/ ExecutionFails(b) \/ AppendFails(b)
    PROVE  /\ current' \in {b, "nobody"}
           /\ a \in txnDir => a \in txnDir'
           /\ UNCHANGED <<entries[a], report[a], recorded[a]>>
<1>1. CASE ExecutionFails(b)
  BY <1>1 DEF ExecutionFails, At, Goto, Release, txn, run
<1>2. CASE AppendFails(b)
  BY <1>2 DEF AppendFails, Goto, Release, txn, run
<1>3. CASE Proceed(b)
  <2>1. current' \in {b, "nobody"}
    BY <1>3
       DEF Proceed, At, Goto, Release, NothingToClassify, RemoveUnstarted,
           RebuildJournal, NothingToRecover, RepairSnapshot, RecoverLedgered,
           RecoverPublished, RecoverIntent, RestoreDone, RestoreFile, BackUp,
           WriteOutput, UndoFile, RemoveEntry, RemoveDirectory, Authorize,
           Stage, Journal, Preflight, PublishCompleted, PublishFailed,
           AppendLedger, AppendSnapshot, MarkCommitted, Verify, Raise
  <2>2. a \in txnDir => a \in txnDir'
    BY <1>3
       DEF Proceed, WritePhase, txn, NothingToClassify, RemoveUnstarted,
           RebuildJournal, NothingToRecover, RepairSnapshot, RecoverLedgered,
           RecoverPublished, RecoverIntent, RestoreDone, RestoreFile, BackUp,
           WriteOutput, UndoFile, RemoveEntry, RemoveDirectory, Authorize,
           Stage, Journal, Preflight, PublishCompleted, PublishFailed,
           AppendLedger, AppendSnapshot, MarkCommitted, Verify, Raise
  <2>3. entries'[a] = entries[a]
    BY <1>3
       DEF TypeOK, Proceed, WritePhase, txn, NothingToClassify, RemoveUnstarted,
           RebuildJournal, NothingToRecover, RepairSnapshot, RecoverLedgered,
           RecoverPublished, RecoverIntent, RestoreDone, RestoreFile, BackUp,
           WriteOutput, UndoFile, RemoveEntry, RemoveDirectory, Authorize,
           Stage, Journal, Preflight, PublishCompleted, PublishFailed,
           AppendLedger, AppendSnapshot, MarkCommitted, Verify, Raise
  <2>4. report'[a] = report[a] /\ recorded'[a] = recorded[a]
    BY <1>3
       DEF TypeOK, Proceed, run, NothingToClassify, RemoveUnstarted,
           RebuildJournal, NothingToRecover, RepairSnapshot, RecoverLedgered,
           RecoverPublished, RecoverIntent, RestoreDone, RestoreFile, BackUp,
           WriteOutput, UndoFile, RemoveEntry, RemoveDirectory, Authorize,
           Stage, Journal, Preflight, PublishCompleted, PublishFailed,
           AppendLedger, AppendSnapshot, MarkCommitted, Verify, Raise
  <2> QED
    BY <2>1, <2>2, <2>3, <2>4
<1> QED
  BY <1>1, <1>2, <1>3

LEMMA StrandedKept ==
    ASSUME TypeOK, NEW a \in Actions, Stranded(a), [Next]_vars
    PROVE  Kept(a)
<1>0. /\ a \in txnDir /\ "journal" \notin entries[a] /\ a # "nobody"
      /\ ClassifiesJournalless =>
             recorded[a] = "none" /\ report[a] = "none" /\ entries[a] # {}
      /\ current = a =>
             pc = IF ClassifiesJournalless THEN "classify" ELSE "recover"
  BY TransactionAssumption
     DEF Stranded, Journalless, HasJournal, Undone, Actions
<1>1. ASSUME NEW b \in Actions, Invoke(b) PROVE Kept(a)
  BY <1>0, <1>1 DEF Invoke, Kept, txn, run
<1>2. ASSUME NEW b \in Actions, b # a,
             Proceed(b) \/ ExecutionFails(b) \/ AppendFails(b)
      PROVE  Kept(a)
  BY <1>0, <1>2, Footprint DEF Kept
<1>3. ASSUME Proceed(a) \/ ExecutionFails(a) \/ AppendFails(a)
      PROVE  Kept(a)
  <2>1. Raise(a)
    <3>1. CASE ClassifiesJournalless
      <4>1. ~Unstarted(a) /\ ~LedgerMatchesReport(a) /\ a \in txnDir
            /\ (current = a => pc = "classify") /\ Journalless(a)
        BY <1>0, <3>1 DEF Unstarted, LedgerMatchesReport, Stranded
      <4> QED
        BY <1>3, <4>1
           DEF Proceed, ExecutionFails, AppendFails, At, NothingToClassify,
               RemoveUnstarted, RebuildJournal, NothingToRecover,
               RepairSnapshot, RecoverLedgered, RecoverPublished,
               RecoverIntent, RestoreDone, RestoreFile, BackUp, WriteOutput,
               UndoFile, RemoveEntry, RemoveDirectory, Authorize, Stage,
               Journal, Preflight, PublishCompleted, PublishFailed,
               AppendLedger, AppendSnapshot, MarkCommitted, Verify
    <3>2. CASE ~ClassifiesJournalless
      <4>1. ~HasJournal(a) /\ a \in txnDir /\ (current = a => pc = "recover")
        BY <1>0, <3>2 DEF HasJournal
      <4> QED
        BY <1>3, <4>1
           DEF Proceed, ExecutionFails, AppendFails, At, NothingToClassify,
               RemoveUnstarted, RebuildJournal, NothingToRecover,
               RepairSnapshot, RecoverLedgered, RecoverPublished,
               RecoverIntent, RestoreDone, RestoreFile, BackUp, WriteOutput,
               UndoFile, RemoveEntry, RemoveDirectory, Authorize, Stage,
               Journal, Preflight, PublishCompleted, PublishFailed,
               AppendLedger, AppendSnapshot, MarkCommitted, Verify
    <3> QED
      BY <3>1, <3>2
  <2> QED
    BY <1>0, <2>1 DEF Raise, Release, Kept, txn, run
<1>4. CASE Crash \/ OtherStop \/ OtherSpends \/ UNCHANGED vars
  BY <1>0, <1>4 DEF Crash, OtherStop, OtherSpends, Release, Kept, txn, run, vars
<1> QED
  BY <1>1, <1>2, <1>3, <1>4 DEF Next

\* A transaction directory without a journal, that the route does not classify
\* or that holds copies of files although nothing was published, is never
\* settled by any request, of any action, in any order.
THEOREM StrandedStays == Spec => StrandedForGood
<1>1. TypeOK /\ [Next]_vars =>
          \A a \in Actions : Stranded(a) =>
              /\ Stranded(a)'
              /\ UNCHANGED <<entries[a], report[a], recorded[a]>>
  <2> SUFFICES ASSUME TypeOK, [Next]_vars, NEW a \in Actions, Stranded(a)
               PROVE  /\ Stranded(a)'
                      /\ UNCHANGED <<entries[a], report[a], recorded[a]>>
    OBVIOUS
  <2>1. Kept(a)
    BY StrandedKept
  <2> QED
    BY <2>1 DEF Kept, Stranded, Journalless, HasJournal, Undone
<1> QED
  BY <1>1, TransactionTyped, PTL DEF Spec, StrandedForGood
=============================================================================
