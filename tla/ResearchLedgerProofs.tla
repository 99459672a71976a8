------------------------ MODULE ResearchLedgerProofs ------------------------
(***************************************************************************)
(* The ledger of a research run is kept by any number of clients, whatever *)
(* they append, however they interleave and wherever they are interrupted. *)
(*                                                                         *)
(* Argument: a client between lock and unlock is the holder of the lock,   *)
(* and what it has read is still on disk (LockProtectsFiles), so each      *)
(* replacement of the ledger file is one admissible append to the current  *)
(* ledger, and AppendKeeps applies.  A bare read is correct because the    *)
(* files cannot have changed while the lock file does not exist.           *)
(***************************************************************************)
EXTENDS ResearchLedger, ResearchEventsProofs

\* At most one client is between lock and unlock, and only the client between
\* the two replacements can have made the files differ, so what a client has
\* verified under the lock is what is on disk until it releases it.
LockProtectsFiles ==
    \A c \in Clients : pc[c] \in Locked =>
        /\ holder = c
        /\ pc[c] \in {"compare", "check"} => seen[c] = ledger
        /\ pc[c] = "check" => snapshot = ledger

\* As long as nobody has created the lock file, no writer has come as far as
\* the lock, the files agree, and a bare reader has read what they say.
BareReadsSettled ==
    ~lockFile =>
        /\ ledger = snapshot
        /\ \A c \in Clients :
               /\ pc[c] \notin Locked \cup {"wait"}
               /\ pc[c] \in {"bareCompare", "recheck"} => seen[c] = ledger

\* A client past ReplaceLedger is a writer whose events are already on disk.
WriterKnown ==
    \A c \in Clients :
        pc[c] = "snapshot" =>
            /\ request[c] # Read
            /\ ledger = seen[c] \o request[c]
            /\ snapshot = seen[c]

IInv ==
    /\ TypeOK
    /\ LockProtectsFiles
    /\ WriterKnown
    /\ BareReadsSettled
    /\ Kept(ledger)

\* A list is a prefix of whatever is appended to it.
LEMMA PrefixOfConcat ==
    ASSUME NEW l \in Seq(Event), NEW r \in Seq(Event)
    PROVE  IsPrefix(l, l \o r)
<1>1. Len(l) \in Nat /\ Len(r) \in Nat /\ Len(l \o r) = Len(l) + Len(r)
  BY ConcatProperties, LenProperties
<1>2. Len(l) <= Len(l \o r)
  BY <1>1
<1>3. SubSeq(l, 1, Len(l)) = SubSeq(l \o r, 1, Len(l))
  BY <1>1
<1> QED
  BY <1>2, <1>3 DEF IsPrefix

\* A request adds something: the ledger after an append is another ledger.
LEMMA ConcatLonger ==
    ASSUME NEW l \in Seq(Event), NEW r \in Seq(Event), r # <<>>
    PROVE  l \o r # l
  BY ConcatEqualIffEmpty

\* A run that was just initialized, with or without its lock seed, satisfies the
\* inductive invariant.
LEMMA InitIInv == Init => IInv
<1> SUFFICES ASSUME Init PROVE IInv
  OBVIOUS
<1> USE DEF Init
<1>1. Objective \in Event
  BY DEF Objective, Event, Kinds
<1>2. /\ ledger \in Seq(Event)
      /\ Len(ledger) = 1
      /\ ledger[1] = Objective
      /\ DOMAIN ledger = {1}
      /\ ledger # <<>>
  BY <1>1
<1>3. Entries(ledger, "action_recorded") = {}
  BY <1>2 DEF Entries, Objective
<1>4. CostUnits(ledger) = {}
  BY <1>3 DEF CostUnits
<1>5. BudgetKept(ledger) /\ IsFiniteSet(CostUnits(ledger))
  <2>1. /\ IsFiniteSet(CostUnits(ledger))
        /\ ActionsUsed(ledger) = 0
        /\ CostUsed(ledger) = 0
    BY <1>3, <1>4, FS_EmptySet DEF ActionsUsed, CostUsed
  <2> QED
    BY <2>1, BudgetAssumption DEF BudgetKept
<1>6. IdsUnique(ledger)
  BY <1>2 DEF IdsUnique
<1>7. StopLast(ledger)
  BY <1>2 DEF StopLast
<1>8. Kept(ledger)
  BY <1>2, <1>5, <1>6, <1>7 DEF Kept
<1>9. TypeOK
  BY <1>1, <1>2, EmptySeq DEF TypeOK
<1> QED
  BY <1>8, <1>9
     DEF IInv, LockProtectsFiles, WriterKnown, BareReadsSettled, Locked, Bare

\* Every step of every client, interruptions included, preserves it.
LEMMA NextIInv == IInv /\ [Next]_vars => IInv'
<1> SUFFICES ASSUME IInv, [Next]_vars PROVE IInv'
  OBVIOUS
<1> USE ClientsAssumption DEF Locked, Bare, Goto, Finish, files
<1>1. TypeOK /\ LockProtectsFiles /\ WriterKnown /\ BareReadsSettled /\ Kept(ledger)
  BY DEF IInv
<1>2. CASE UNCHANGED vars
  BY <1>1, <1>2 DEF IInv, TypeOK, LockProtectsFiles, WriterKnown,
                    BareReadsSettled, vars
<1>3. ASSUME NEW c \in Clients, Begin(c) PROVE IInv'
  BY <1>1, <1>3 DEF IInv, TypeOK, LockProtectsFiles, WriterKnown,
                    BareReadsSettled, Begin
<1>4. ASSUME NEW c \in Clients, AcquireLock(c) PROVE IInv'
  BY <1>1, <1>4 DEF IInv, TypeOK, LockProtectsFiles, WriterKnown,
                    BareReadsSettled, AcquireLock
<1>5. ASSUME NEW c \in Clients, Continue(c) PROVE IInv'
  <2>1. CASE EnsureLockFile(c)
    BY <1>1, <2>1 DEF IInv, TypeOK, LockProtectsFiles, WriterKnown,
                      BareReadsSettled, EnsureLockFile
  <2>2. CASE FindLockFile(c)
    BY <1>1, <2>2 DEF IInv, TypeOK, LockProtectsFiles, WriterKnown,
                      BareReadsSettled, FindLockFile
  <2>3. CASE ReadLedger(c)
    BY <1>1, <2>3 DEF IInv, TypeOK, LockProtectsFiles, WriterKnown,
                      BareReadsSettled, ReadLedger
  <2>4. CASE CompareSnapshot(c)
    BY <1>1, <2>4 DEF IInv, TypeOK, LockProtectsFiles, WriterKnown,
                      BareReadsSettled, CompareSnapshot, Verified
  <2>5. CASE RaiseMismatch(c)
    BY <1>1, <2>5 DEF IInv, TypeOK, LockProtectsFiles, WriterKnown,
                      BareReadsSettled, RaiseMismatch
  <2>6. CASE RepeatUnderLock(c)
    BY <1>1, <2>6 DEF IInv, TypeOK, LockProtectsFiles, WriterKnown,
                      BareReadsSettled, RepeatUnderLock
  <2>7. CASE ReturnBare(c)
    BY <1>1, <2>7 DEF IInv, TypeOK, LockProtectsFiles, WriterKnown,
                      BareReadsSettled, ReturnBare
  <2>8. CASE ReturnLocked(c)
    BY <1>1, <2>8 DEF IInv, TypeOK, LockProtectsFiles, WriterKnown,
                      BareReadsSettled, ReturnLocked
  <2>9. CASE RefuseAppend(c)
    BY <1>1, <2>9 DEF IInv, TypeOK, LockProtectsFiles, WriterKnown,
                      BareReadsSettled, RefuseAppend
  <2>10. CASE ReplaceLedger(c)
    <3>1. request[c] \in AppendRequest /\ Admissible(ledger, request[c])
      BY <1>1, <2>10 DEF TypeOK, LockProtectsFiles, ReplaceLedger
    <3>2. ledger' = ledger \o request[c]
      BY <1>1, <2>10 DEF LockProtectsFiles, ReplaceLedger
    <3>3. Kept(ledger)'
      BY <1>1, <3>1, <3>2, AppendKeeps
    <3> QED
      BY <1>1, <2>10, <3>3 DEF IInv, TypeOK, LockProtectsFiles, WriterKnown,
                        BareReadsSettled, ReplaceLedger, Kept
  <2>11. CASE ReplaceSnapshot(c)
    <3>1. ledger = seen[c] \o request[c] /\ ledger \in Seq(Event)
      BY <1>1, <2>11 DEF WriterKnown, ReplaceSnapshot, Kept
    <3> QED
      BY <1>1, <2>11, <3>1 DEF IInv, TypeOK, LockProtectsFiles, WriterKnown,
                        BareReadsSettled, ReplaceSnapshot
  <2> QED
    BY <1>5, <2>1, <2>2, <2>3, <2>4, <2>5, <2>6, <2>7, <2>8, <2>9, <2>10, <2>11
       DEF Continue
<1>6. ASSUME NEW c \in Clients, Interrupt(c) PROVE IInv'
  BY <1>1, <1>6 DEF IInv, TypeOK, LockProtectsFiles, WriterKnown,
                    BareReadsSettled, Interrupt
<1> QED
  BY <1>2, <1>3, <1>4, <1>5, <1>6 DEF Next

\* The inductive invariant holds in every reachable state of every instance.
LEMMA Invariance == Spec => []IInv
  BY InitIInv, NextIInv, PTL DEF Spec

-----------------------------------------------------------------------------
\* Every variable keeps its type in every reachable state.
THEOREM TypeCorrect == Spec => []TypeOK
  BY Invariance, PTL DEF IInv

\* The budget of the objective is never exceeded, although each writer checks
\* it before it writes and others write in between (append_action).
THEOREM BudgetNeverExceeded == Spec => []WithinBudget
<1>1. IInv => WithinBudget
  BY DEF IInv, Kept, WithinBudget
<1> QED
  BY <1>1, Invariance, PTL

\* No two writers register the same identifier (the duplicate checks of the
\* append functions).
THEOREM IdentifiersUnique == Spec => []UniqueIds
<1>1. IInv => UniqueIds
  BY DEF IInv, Kept, UniqueIds
<1> QED
  BY <1>1, Invariance, PTL

\* Nothing is ever recorded after research_stopped.
THEOREM StopTerminal == Spec => []StopIsTerminal
<1>1. IInv => StopIsTerminal
  BY DEF IInv, Kept, StopIsTerminal
<1> QED
  BY <1>1, Invariance, PTL

\* What a client verified under the lock stays true until it releases it.
THEOREM LockProtects == Spec => []LockProtectsFiles
  BY Invariance, PTL DEF IInv

\* A ledger left ahead of its snapshot by an interruption is never written,
\* repaired or reported on again by the kernel.
THEOREM TornIsFinal == Spec => FailClosed
<1>1. IInv /\ [Next]_vars => [Torn => UNCHANGED <<ledger, snapshot, told>>]_vars
  <2> SUFFICES ASSUME IInv, Torn, Next
               PROVE  UNCHANGED <<ledger, snapshot, told>>
    OBVIOUS
  <2>1. PICK c \in Clients :
            Begin(c) \/ AcquireLock(c) \/ Continue(c) \/ Interrupt(c)
    BY DEF Next
  <2>2. /\ pc[c] # "snapshot"
        /\ pc[c] # "check"
        /\ pc[c] = "recheck" => lockFile
    BY DEF IInv, Torn, LockProtectsFiles, BareReadsSettled, Locked
  <2> QED
    BY <2>1, <2>2
       DEF Begin, AcquireLock, Continue, Interrupt, EnsureLockFile, FindLockFile,
           ReadLedger, CompareSnapshot, RaiseMismatch, RepeatUnderLock,
           ReturnBare, ReturnLocked, RefuseAppend, ReplaceLedger,
           ReplaceSnapshot, Goto, Finish, files
<1> QED
  BY <1>1, Invariance, PTL DEF Spec, FailClosed

\* Whatever a client is told is what both files say at that moment.
THEOREM AnswersCurrent == Spec => AnswersAreCurrent
<1> DEFINE Current == \A c \in Clients : told'[c] # told[c] =>
                          told'[c] = ledger' /\ snapshot' = ledger'
<1>1. IInv /\ [Next]_vars => [Current]_vars
  <2> SUFFICES ASSUME IInv, Next, NEW d \in Clients, told'[d] # told[d]
               PROVE  told'[d] = ledger' /\ snapshot' = ledger'
    OBVIOUS
  <2>1. PICK c \in Clients :
            Begin(c) \/ AcquireLock(c) \/ Continue(c) \/ Interrupt(c)
    BY DEF Next
  <2>2. ReturnBare(c) \/ ReturnLocked(c) \/ ReplaceSnapshot(c)
    BY <2>1
       DEF Begin, AcquireLock, Continue, Interrupt, EnsureLockFile, FindLockFile,
           ReadLedger, CompareSnapshot, RaiseMismatch, RepeatUnderLock,
           RefuseAppend, ReplaceLedger
  <2>3. told \in [Clients -> Seq(Event)]
    BY DEF IInv, TypeOK
  <2> QED
    BY <2>2, <2>3
       DEF IInv, LockProtectsFiles, WriterKnown, BareReadsSettled, Locked,
           ReturnBare, ReturnLocked, ReplaceSnapshot
<1> QED
  BY <1>1, Invariance, PTL DEF Spec, AnswersAreCurrent

\* No writer overwrites or drops an event of another.
THEOREM LedgerOnlyGrows == Spec => AppendOnly
<1>1. IInv /\ [Next]_vars => [IsPrefix(ledger, ledger')]_vars
  <2> SUFFICES ASSUME IInv, Next
               PROVE  IsPrefix(ledger, ledger')
    OBVIOUS
  <2>0. ledger \in Seq(Event)
    BY DEF IInv, TypeOK
  <2>1. PICK c \in Clients :
            Begin(c) \/ AcquireLock(c) \/ Continue(c) \/ Interrupt(c)
    BY DEF Next
  <2>2. CASE ReplaceLedger(c)
    <3>1. request[c] \in AppendRequest /\ ledger' = ledger \o request[c]
      BY <2>2 DEF IInv, TypeOK, LockProtectsFiles, Locked, ReplaceLedger, Goto
    <3>2. request[c] \in Seq(Event)
      BY <3>1, RequestShape
    <3> QED
      BY <2>0, <3>1, <3>2, PrefixOfConcat
  <2>3. CASE ledger' = ledger
    BY <2>0, <2>3 DEF IsPrefix
  <2> QED
    BY <2>1, <2>2, <2>3
       DEF Begin, AcquireLock, Continue, Interrupt, EnsureLockFile, FindLockFile,
           ReadLedger, CompareSnapshot, RaiseMismatch, RepeatUnderLock,
           ReturnBare, ReturnLocked, RefuseAppend, ReplaceSnapshot, files
<1> QED
  BY <1>1, Invariance, PTL DEF Spec, AppendOnly

\* The snapshot file never runs ahead of the ledger file, and is behind it by
\* the one request whose writer has not replaced it yet, or never will.
THEOREM SnapshotTrails == Spec => []SnapshotTrailsLedger
<1>1. Init => SnapshotTrailsLedger
  BY DEF Init, SnapshotTrailsLedger, IsPrefix
<1>2. IInv /\ SnapshotTrailsLedger /\ [Next]_vars => SnapshotTrailsLedger'
  <2> SUFFICES ASSUME IInv, SnapshotTrailsLedger, [Next]_vars
               PROVE  SnapshotTrailsLedger'
    OBVIOUS
  <2>0. ledger \in Seq(Event)
    BY DEF IInv, TypeOK
  <2>1. CASE UNCHANGED <<ledger, snapshot>>
    BY <2>1 DEF SnapshotTrailsLedger
  <2>2. ASSUME NEW c \in Clients, ReplaceLedger(c)
        PROVE  SnapshotTrailsLedger'
    <3>1. /\ request[c] \in AppendRequest
          /\ ledger' = ledger \o request[c]
          /\ snapshot' = ledger
      BY <2>2 DEF IInv, TypeOK, LockProtectsFiles, Locked, ReplaceLedger, Goto
    <3>2. request[c] \in Seq(Event) /\ Len(request[c]) \in {1, 2}
      BY <3>1, RequestShape
    <3>3. IsPrefix(snapshot', ledger')
      BY <2>0, <3>1, <3>2, PrefixOfConcat
    <3>4. Len(ledger') = Len(ledger) + Len(request[c]) /\ Len(ledger) \in Nat
      BY <2>0, <3>1, <3>2, ConcatProperties, LenProperties
    <3>5. Len(ledger') <= Len(snapshot') + 2
      <4>1. \A a \in Nat, b \in {1, 2} : a + b <= a + 2
        OBVIOUS
      <4> QED
        BY <3>1, <3>2, <3>4, <4>1
    <3> QED
      BY <3>3, <3>5 DEF SnapshotTrailsLedger
  <2>3. ASSUME NEW c \in Clients, ReplaceSnapshot(c)
        PROVE  SnapshotTrailsLedger'
    <3>1. ledger' = ledger /\ snapshot' = ledger
      BY <2>3 DEF IInv, WriterKnown, ReplaceSnapshot
    <3>2. Len(ledger) \in Nat
      BY <2>0, LenProperties
    <3> QED
      BY <3>1, <3>2 DEF SnapshotTrailsLedger, IsPrefix
  <2> QED
    BY <2>1, <2>2, <2>3
       DEF Next, vars, Begin, AcquireLock, Continue, Interrupt, EnsureLockFile,
           FindLockFile, ReadLedger, CompareSnapshot, RaiseMismatch,
           RepeatUnderLock, ReturnBare, ReturnLocked, RefuseAppend, files
<1> QED
  BY <1>1, <1>2, Invariance, PTL DEF Spec

\* Nobody is between the two replacements unless it is the holder of the lock,
\* so Author names that client, and names nobody while the files agree.
LEMMA AuthorIs ==
    ASSUME IInv, NEW c \in Clients
    PROVE  /\ pc[c] = "snapshot" => Author = c
           /\ pc[c] = "check" => Author = Nobody
           /\ pc[c] = "recheck" /\ ~lockFile => Author = Nobody
<1>1. \A d, e \in Clients : pc[d] \in Locked /\ pc[e] \in Locked => d = e
  BY DEF IInv, LockProtectsFiles
<1>2. pc[c] = "snapshot" => Author = c
  BY <1>1 DEF Author, Locked
<1>3. pc[c] = "check" => Author = Nobody
  <2> SUFFICES ASSUME pc[c] = "check" PROVE Author = Nobody
    OBVIOUS
  <2>1. \A d \in Clients : pc[d] # "snapshot"
    BY <1>1 DEF Locked
  <2>2. ledger = snapshot
    BY DEF IInv, LockProtectsFiles, Locked
  <2> QED
    BY <2>1, <2>2 DEF Author
<1>4. pc[c] = "recheck" /\ ~lockFile => Author = Nobody
  BY DEF IInv, BareReadsSettled, Author, Locked
<1> QED
  BY <1>2, <1>3, <1>4

\* The lock, the two files and their crashes implement the atomic record of
\* RunRecord: a request is accepted when the ledger file is replaced, answered
\* when the snapshot file is, and lost for good when its author is.
THEOREM ImplementsRecord == Spec => RefinesRecord
<1> USE DEF Record!recordVars
<1>1. Init => Record!RecordInit
  <2> SUFFICES ASSUME Init PROVE Record!RecordInit
    OBVIOUS
  <2>1. Author = Nobody
    BY DEF Init, Author
  <2> QED
    BY <2>1 DEF Init, Record!RecordInit
<1>2. IInv /\ IInv' /\ [Next]_vars => [Record!RecordNext]_(Record!recordVars)
  <2> SUFFICES ASSUME IInv, IInv', [Next]_vars
               PROVE  [Record!RecordNext]_(Record!recordVars)
    OBVIOUS
  <2>1. CASE UNCHANGED vars
    BY <2>1 DEF vars, Author
  <2>2. ASSUME NEW c \in Clients, ReplaceLedger(c)
        PROVE  Record!RecordNext
    <3>1. /\ pc[c] = "check"
          /\ pc'[c] = "snapshot"
          /\ request[c] \in AppendRequest
          /\ Admissible(ledger, request[c])
          /\ ledger' = ledger \o request[c]
          /\ told' = told
      BY <2>2 DEF IInv, TypeOK, LockProtectsFiles, Locked, ReplaceLedger, Goto
    <3>2. Author = Nobody /\ Author' = c
      <4>1. Author = Nobody
        BY <3>1, AuthorIs
      <4>2. Author' = c
        <5>1. \A d \in Clients : pc'[d] = "snapshot" => d = c
          BY <3>1 DEF IInv, LockProtectsFiles, Locked
        <5> QED
          BY <3>1, <5>1 DEF Author
      <4> QED
        BY <4>1, <4>2
    <3>3. Record!Accept(c, request[c])
      BY <3>1, <3>2 DEF Record!Accept
    <3> QED
      BY <3>1, <3>3 DEF Record!RecordNext
  <2>3. ASSUME NEW c \in Clients,
               ReplaceSnapshot(c) \/ ReturnLocked(c) \/ ReturnBare(c)
        PROVE  Record!RecordNext
    <3>1. /\ Author \in {Nobody, c}
          /\ ledger' = ledger
          /\ snapshot' = ledger
          /\ told' = [told EXCEPT ![c] = ledger]
      BY <2>3, AuthorIs
         DEF IInv, LockProtectsFiles, WriterKnown, BareReadsSettled, Locked,
             ReplaceSnapshot, ReturnLocked, ReturnBare
    <3>2. \A d \in Clients : pc'[d] # "snapshot"
      <4>1. pc'[c] = "idle" /\ \A d \in Clients \ {c} : pc'[d] = pc[d]
        BY <2>3 DEF IInv, TypeOK, ReplaceSnapshot, ReturnLocked, ReturnBare, Finish
      <4>2. \A d \in Clients \ {c} : pc[d] # "snapshot"
        BY <2>3 DEF IInv, LockProtectsFiles, BareReadsSettled, Locked,
             ReplaceSnapshot, ReturnLocked, ReturnBare
      <4> QED
        BY <4>1, <4>2
    <3>3. Author' = Nobody
      BY <3>1, <3>2 DEF Author
    <3> QED
      BY <3>1, <3>3 DEF Record!RecordNext, Record!Answer
  <2>4. ASSUME NEW c \in Clients, Interrupt(c), pc[c] = "snapshot"
        PROVE  Record!RecordNext
    <3>1. Author = c
      BY <2>4, AuthorIs
    <3>2. \A d \in Clients : pc'[d] # "snapshot"
      BY <2>4 DEF IInv, TypeOK, LockProtectsFiles, Locked, Interrupt, Finish
    <3>3. ledger # snapshot
      <4>1. /\ ledger = seen[c] \o request[c]
            /\ snapshot = seen[c]
            /\ request[c] \in AppendRequest
            /\ seen[c] \in Seq(Event)
        BY <2>4 DEF IInv, TypeOK, WriterKnown
      <4>2. request[c] \in Seq(Event) /\ request[c] # <<>>
        BY <4>1, RequestShape
      <4> QED
        BY <4>1, <4>2, ConcatLonger
    <3>4. Author' = Lost
      BY <2>4, <3>2, <3>3 DEF Author, Interrupt
    <3>5. UNCHANGED <<ledger, told>>
      BY <2>4 DEF Interrupt
    <3> QED
      BY <3>1, <3>4, <3>5 DEF Record!RecordNext, Record!Lose
  <2>5. ASSUME NEW c \in Clients,
               \/ Begin(c) \/ AcquireLock(c) \/ EnsureLockFile(c)
               \/ FindLockFile(c) \/ ReadLedger(c) \/ CompareSnapshot(c)
               \/ RaiseMismatch(c) \/ RepeatUnderLock(c) \/ RefuseAppend(c)
               \/ Interrupt(c) /\ pc[c] # "snapshot"
        PROVE  UNCHANGED <<ledger, told, Author>>
    <3>1. /\ UNCHANGED <<ledger, snapshot, told>>
          /\ \A d \in Clients : pc'[d] = "snapshot" <=> pc[d] = "snapshot"
      BY <2>5 DEF IInv, TypeOK, Begin, AcquireLock, EnsureLockFile, FindLockFile,
         ReadLedger, CompareSnapshot, RaiseMismatch, RepeatUnderLock,
         RefuseAppend, Interrupt, Goto, Finish, files
    <3>2. CASE \E d \in Clients : pc[d] = "snapshot"
      <4>1. PICK d \in Clients : pc[d] = "snapshot"
        BY <3>2
      <4>2. \A e \in Clients : pc[e] = "snapshot" <=> e = d
        BY <4>1 DEF IInv, LockProtectsFiles, Locked
      <4> QED
        BY <3>1, <4>1, <4>2 DEF Author
    <3>3. CASE ~ \E d \in Clients : pc[d] = "snapshot"
      BY <3>1, <3>3 DEF Author
    <3> QED
      BY <3>1, <3>2, <3>3
  <2> QED
    BY <2>1, <2>2, <2>3, <2>4, <2>5 DEF Next, Continue
<1> QED
  BY <1>1, <1>2, Invariance, PTL DEF Spec, RefinesRecord, Record!RecordSpec
=============================================================================
