--------------------------- MODULE ResearchLedger ---------------------------
(***************************************************************************)
(* kernel.py: the clients of one research run directory.  Writers take an  *)
(* exclusive OS lock on .research_ledger.lock, verify ledger and snapshot  *)
(* against each other, and replace first the ledger file, then the         *)
(* snapshot file.  Readers take the same lock when its file exists; a      *)
(* legacy run has no such file and is read bare, with a second look for    *)
(* the lock before the answer.  A client may be interrupted anywhere.      *)
(***************************************************************************)
EXTENDS ResearchEvents, SequencesExt

CONSTANTS Clients, Nobody, Lost

ASSUME ClientsAssumption ==
    Nobody \notin Clients /\ Lost \notin Clients /\ Nobody # Lost

VARIABLES
    lockFile,  \* .research_ledger.lock exists
    holder,    \* the client whose descriptor holds the OS lock
    ledger,    \* research_ledger.jsonl
    snapshot,  \* research_state.json, as the ledger it was reconstructed from
    pc,        \* where each client is in its operation
    request,   \* the events its operation appends; none for a read
    seen,      \* the ledger its operation has read
    told       \* history: the ledger behind the last state it was returned

files == <<lockFile, holder, ledger, snapshot>>
vars == <<lockFile, holder, ledger, snapshot, pc, request, seen, told>>

Read == <<>>

Locked == {"load", "compare", "check", "snapshot"}
Bare == {"bareLoad", "bareCompare", "recheck"}

TypeOK ==
    /\ lockFile \in BOOLEAN
    /\ holder \in Clients \cup {Nobody}
    /\ ledger \in Seq(Event)
    /\ snapshot \in Seq(Event)
    /\ pc \in [Clients -> {"idle", "start", "wait"} \cup Locked \cup Bare]
    /\ request \in [Clients -> AppendRequest \cup {Read}]
    /\ seen \in [Clients -> Seq(Event)]
    /\ told \in [Clients -> Seq(Event)]

\* A run just initialized, with the lock seed initialize_research_loop writes
\* or, for a run of an older version, without it.
Init ==
    /\ lockFile \in BOOLEAN
    /\ holder = Nobody
    /\ ledger = <<Objective>>
    /\ snapshot = <<Objective>>
    /\ pc = [c \in Clients |-> "idle"]
    /\ request = [c \in Clients |-> Read]
    /\ seen = [c \in Clients |-> <<>>]
    /\ told = [c \in Clients |-> <<>>]

-----------------------------------------------------------------------------
Goto(c, from, to) ==
    /\ pc[c] = from
    /\ pc' = [pc EXCEPT ![c] = to]

\* Mutant of Finish: the lock is kept.
FinishLocked(c) ==
    /\ pc' = [pc EXCEPT ![c] = "idle"]
    /\ request' = [request EXCEPT ![c] = Read]
    /\ seen' = [seen EXCEPT ![c] = <<>>]
    /\ UNCHANGED holder

\* The operation of c is over: its lock, if it has one, is released.
Finish(c) ==
    /\ pc' = [pc EXCEPT ![c] = "idle"]
    /\ request' = [request EXCEPT ![c] = Read]
    /\ seen' = [seen EXCEPT ![c] = <<>>]
    /\ holder' = IF holder = c THEN Nobody ELSE holder

\* A client calls an append function or load_research_state.
Begin(c) ==
    /\ Goto(c, "idle", "start")
    /\ \E r \in AppendRequest \cup {Read} :
           request' = [request EXCEPT ![c] = r]
    /\ UNCHANGED <<files, seen, told>>

\* _ensure_lock_file: a writer creates the lock file if there is none, and
\* goes on with the one of whoever was faster.
EnsureLockFile(c) ==
    /\ request[c] # Read
    /\ Goto(c, "start", "wait")
    /\ lockFile' = TRUE
    /\ UNCHANGED <<holder, ledger, snapshot, request, seen, told>>

\* _load_consistent_read: a reader never creates the lock file.
FindLockFile(c) ==
    /\ request[c] = Read
    /\ Goto(c, "start", IF lockFile THEN "wait" ELSE "bareLoad")
    /\ UNCHANGED <<files, request, seen, told>>

\* Mutant of AcquireLock: the lock is shared.
AcquireHeldLock(c) ==
    /\ Goto(c, "wait", "load")
    /\ holder' = c
    /\ UNCHANGED <<lockFile, ledger, snapshot, request, seen, told>>

AcquireLock(c) ==
    /\ holder = Nobody
    /\ Goto(c, "wait", "load")
    /\ holder' = c
    /\ UNCHANGED <<lockFile, ledger, snapshot, request, seen, told>>

ReadLedger(c) ==
    /\ \/ Goto(c, "load", "compare")
       \/ Goto(c, "bareLoad", "bareCompare")
    /\ seen' = [seen EXCEPT ![c] = ledger]
    /\ UNCHANGED <<files, request, told>>

\* Mutant of Verified: the snapshot is not compared.
VerifiedLedgerOnly(c) == Reconstructs(seen[c])

\* The end of _load_verified_run: the snapshot file must be the
\* reconstruction of the ledger that was read.
Verified(c) == Reconstructs(seen[c]) /\ snapshot = seen[c]

CompareSnapshot(c) ==
    /\ Verified(c)
    /\ \/ Goto(c, "compare", "check")
       \/ Goto(c, "bareCompare", "recheck")
    /\ UNCHANGED <<files, request, seen, told>>

\* ... and otherwise the operation raises, whatever it was.
RaiseMismatch(c) ==
    /\ pc[c] \in {"compare", "bareCompare"}
    /\ ~Verified(c)
    /\ Finish(c)
    /\ UNCHANGED <<lockFile, ledger, snapshot, told>>

\* A bare read looks for the lock file again: if a writer has created it
\* meanwhile, the read is repeated under the lock.
RepeatUnderLock(c) ==
    /\ lockFile
    /\ Goto(c, "recheck", "wait")
    /\ UNCHANGED <<files, request, seen, told>>

\* Mutant of ReturnBare: no second look for the lock file.
ReturnUnchecked(c) ==
    /\ pc[c] = "recheck"
    /\ told' = [told EXCEPT ![c] = seen[c]]
    /\ Finish(c)
    /\ UNCHANGED <<lockFile, ledger, snapshot>>

ReturnBare(c) ==
    /\ pc[c] = "recheck"
    /\ ~lockFile
    /\ told' = [told EXCEPT ![c] = seen[c]]
    /\ Finish(c)
    /\ UNCHANGED <<lockFile, ledger, snapshot>>

ReturnLocked(c) ==
    /\ pc[c] = "check"
    /\ request[c] = Read
    /\ told' = [told EXCEPT ![c] = seen[c]]
    /\ Finish(c)
    /\ UNCHANGED <<lockFile, ledger, snapshot>>

RefuseAppend(c) ==
    /\ pc[c] = "check"
    /\ request[c] # Read
    /\ ~Admissible(seen[c], request[c])
    /\ Finish(c)
    /\ UNCHANGED <<lockFile, ledger, snapshot, told>>

\* Mutants of ReplaceLedger: the snapshot is replaced first; the type of the
\* new events is one that _reconstruct_state does not know.
ReplaceSnapshotFirst(c) ==
    /\ request[c] # Read
    /\ Admissible(seen[c], request[c])
    /\ Goto(c, "check", "snapshot")
    /\ snapshot' = seen[c] \o request[c]
    /\ UNCHANGED <<lockFile, holder, ledger, request, seen, told>>

ReplaceMisspelt(c) ==
    /\ request[c] # Read
    /\ Admissible(seen[c], request[c])
    /\ Goto(c, "check", "snapshot")
    /\ ledger' = seen[c] \o [n \in DOMAIN request[c] |->
                               [request[c][n] EXCEPT !.kind = "registered"]]
    /\ UNCHANGED <<lockFile, holder, snapshot, request, seen, told>>

\* _write_run_state, first os.replace.
ReplaceLedger(c) ==
    /\ request[c] # Read
    /\ Admissible(seen[c], request[c])
    /\ Goto(c, "check", "snapshot")
    /\ ledger' = seen[c] \o request[c]
    /\ UNCHANGED <<lockFile, holder, snapshot, request, seen, told>>

\* _write_run_state, second os.replace, and the return to the caller.
ReplaceSnapshot(c) ==
    /\ pc[c] = "snapshot"
    /\ snapshot' = seen[c] \o request[c]
    /\ told' = [told EXCEPT ![c] = seen[c] \o request[c]]
    /\ Finish(c)
    /\ UNCHANGED <<lockFile, ledger>>

\* The process dies, or a file operation of it raises: the OS releases the
\* lock with the descriptor, and no file is half-replaced.
Interrupt(c) ==
    /\ pc[c] # "idle"
    /\ Finish(c)
    /\ UNCHANGED <<lockFile, ledger, snapshot, told>>

\* The steps an operation takes once it has begun and is not interrupted.
Continue(c) ==
    \/ EnsureLockFile(c) \/ FindLockFile(c)
    \/ ReadLedger(c) \/ CompareSnapshot(c) \/ RaiseMismatch(c)
    \/ RepeatUnderLock(c) \/ ReturnBare(c) \/ ReturnLocked(c)
    \/ RefuseAppend(c) \/ ReplaceLedger(c) \/ ReplaceSnapshot(c)

Next == \E c \in Clients :
    Begin(c) \/ AcquireLock(c) \/ Continue(c) \/ Interrupt(c)

Spec == Init /\ [][Next]_vars

\* A running process is scheduled; a blocking flock is granted to a waiter
\* that keeps waiting.  Nothing makes a client begin or be interrupted.
Fairness == \A c \in Clients :
    WF_vars(Continue(c)) /\ SF_vars(AcquireLock(c))

FairSpec == Spec /\ Fairness

-----------------------------------------------------------------------------
(***************************************************************************)
(* Safety.                                                                 *)
(***************************************************************************)

\* No interleaving of writers exceeds the budget of the objective: the
\* remaining actions and cost units are checked before the ledger is written
\* and must still be true when it is (_validate_action_against_state).
WithinBudget == BudgetKept(ledger)

\* An identifier is registered once per kind, whoever registers it.
UniqueIds == IdsUnique(ledger)

\* A stopped run is terminal: nothing follows research_stopped.
StopIsTerminal == StopLast(ledger)

\* A client interrupted between the two replacements leaves a ledger that is
\* ahead of its snapshot.
Torn == ledger # snapshot /\ \A c \in Clients : pc[c] # "snapshot"

\* Fail-closed: from then on no operation changes a file or is answered.
FailClosed == [][Torn => UNCHANGED <<ledger, snapshot, told>>]_vars

\* The snapshot never shows an event the ledger does not have, and is behind
\* by one request at most.
SnapshotTrailsLedger ==
    /\ IsPrefix(snapshot, ledger)
    /\ Len(ledger) <= Len(snapshot) + 2

\* The ledger only grows: no writer overwrites the event of another.
AppendOnly == [][IsPrefix(ledger, ledger')]_vars

\* Whatever a client is told, bare or under the lock, is at that moment what
\* ledger and snapshot both say.
AnswersAreCurrent ==
    [][\A c \in Clients : told'[c] # told[c] =>
           told'[c] = ledger' /\ snapshot' = ledger']_vars

(***************************************************************************)
(* Liveness: an operation that is begun ends, by an answer or an exception.*)
(***************************************************************************)
OperationEnds == \A c \in Clients : pc[c] # "idle" ~> pc[c] = "idle"

(***************************************************************************)
(* Refinement of RunRecord: the request is accepted when the ledger file   *)
(* is replaced and answered when the snapshot file is.                     *)
(***************************************************************************)
Author ==
    IF \E c \in Clients : pc[c] = "snapshot"
    THEN CHOOSE c \in Clients : pc[c] = "snapshot"
    ELSE IF ledger = snapshot THEN Nobody ELSE Lost

Record == INSTANCE RunRecord WITH
    log <- ledger, author <- Author, Free <- Nobody,
    Requests <- AppendRequest, Admissible <- Admissible, First <- <<Objective>>

RefinesRecord == Record!RecordSpec
=============================================================================
