----------------------- MODULE OutputDirectoryProofs ------------------------
(***************************************************************************)
(* Two groups of facts about transactional_output_directory.  For any      *)
(* number of clients, at the same time, with crashes, renames and removals *)
(* that raise and files that arrive: nothing unfinished is published.  For *)
(* clients that come one after the other and renames that succeed when     *)
(* they can: the prior run is kept until its replacement is in place, and  *)
(* files no run wrote are lost only if they arrive in the middle of a run, *)
(* whoever crashes and whatever removal raises.                            *)
(***************************************************************************)
EXTENDS OutputDirectory, TLAPS

\* A client about to promote its staging directory has finished it.
StagedIsBuilt ==
    \A c \in Clients :
        pc[c] \in {"lookFinal", "moveFinal", "promote"} => staging[c] = c

IInv ==
    /\ TypeOK
    /\ StagedIsBuilt
    /\ NoUnfinishedResult

\* A target that is absent, empty, foreign or an earlier run, and no client.
LEMMA InitIInv == Init => IInv
<1> SUFFICES ASSUME Init PROVE IInv
  OBVIOUS
<1>1. {crashes, faults, stuck, arrivals} \subseteq 0 .. MaxMishaps
  BY OutputAssumption DEF Init
<1>2. StagedIsBuilt /\ NoUnfinishedResult
  BY OutputAssumption DEF Init, StagedIsBuilt, NoUnfinishedResult, Held
<1>3. overlap \in BOOLEAN
  BY DEF Init
<1>4. TypeOK
  BY <1>1, <1>3, OutputAssumption DEF Init, TypeOK, Held, Unrecognized, Whole
<1> QED
  BY <1>2, <1>4 DEF IInv

\* Every step of every client, crashes and refused renames included, preserves
\* the inductive invariant.
LEMMA NextIInv == IInv /\ [Next]_vars => IInv'
<1> SUFFICES ASSUME IInv, [Next]_vars PROVE IInv'
  OBVIOUS
<1> USE OutputAssumption
    DEF IInv, TypeOK, StagedIsBuilt, NoUnfinishedResult, Held, Unrecognized,
        Whole, Goto, dirs, past, counters, MishapPossible
<1>1. CASE UNCHANGED vars
  BY <1>1 DEF vars
<1>2. ASSUME NEW c \in Clients,
             \/ Begin(c) \/ Check(c) \/ Refuse(c) \/ MakeStaging(c)
             \/ CheckBackup(c) \/ RefuseStaleBackup(c)
      PROVE  IInv'
  <2>1. CASE Begin(c)
    BY <2>1 DEF Begin
  <2>2. CASE Check(c)
    BY <2>2 DEF Check, Nonempty
  <2>3. CASE Refuse(c)
    BY <2>3 DEF Refuse
  <2>4. CASE MakeStaging(c)
    BY <2>4 DEF MakeStaging
  <2>5. CASE CheckBackup(c)
    BY <2>5 DEF CheckBackup
  <2>6. CASE RefuseStaleBackup(c)
    BY <2>6 DEF RefuseStaleBackup
  <2> QED
    BY <1>2, <2>1, <2>2, <2>3, <2>4, <2>5, <2>6
<1>3. ASSUME NEW c \in Clients, BodyCompletes(c) \/ BodyRaises(c) \/ LookFinal(c)
      PROVE  IInv'
  <2>1. CASE BodyCompletes(c)
    BY <2>1 DEF BodyCompletes
  <2>2. CASE BodyRaises(c)
    BY <2>2 DEF BodyRaises
  <2>3. CASE LookFinal(c)
    BY <2>3 DEF LookFinal
  <2> QED
    BY <1>3, <2>1, <2>2, <2>3
<1>4. ASSUME NEW c \in Clients, MoveFinal(c) PROVE IInv'
  BY <1>4 DEF MoveFinal
<1>5. ASSUME NEW c \in Clients, Promote(c) PROVE IInv'
  BY <1>5 DEF Promote
<1>6. ASSUME NEW c \in Clients, RenameRaises(c) \/ RenameFault(c) PROVE IInv'
  <2>1. CASE RenameRaises(c)
    BY <2>1 DEF RenameRaises
  <2>2. CASE RenameFault(c)
    BY <2>2 DEF RenameFault
  <2> QED
    BY <1>6, <2>1, <2>2
<1>7. ASSUME NEW c \in Clients,
             UndoFinal(c) \/ NothingToUndo(c) \/ PutBack(c)
      PROVE  IInv'
  <2>1. CASE UndoFinal(c)
    BY <2>1 DEF UndoFinal, StepOn, AfterUndo, Removed
  <2>2. CASE NothingToUndo(c)
    BY <2>2 DEF NothingToUndo, AfterUndo
  <2>3. CASE PutBack(c)
    BY <2>3 DEF PutBack
  <2> QED
    BY <1>7, <2>1, <2>2, <2>3
<1>8. ASSUME NEW c \in Clients, DropBackup(c) \/ NoBackup(c) \/ DropStaging(c)
      PROVE  IInv'
  <2>1. CASE DropBackup(c)
    BY <2>1 DEF DropBackup, StepOn, Removed
  <2>2. CASE NoBackup(c)
    BY <2>2 DEF NoBackup
  <2>3. CASE DropStaging(c)
    BY <2>3 DEF DropStaging, StepOn, Removed
  <2> QED
    BY <1>8, <2>1, <2>2, <2>3
<1>9. ASSUME NEW c \in Clients, Crash(c) \/ RemovalRaises(c) PROVE IInv'
  <2>1. CASE Crash(c)
    BY <2>1 DEF Crash
  <2>2. CASE RemovalRaises(c)
    BY <2>2 DEF RemovalRaises
  <2> QED
    BY <1>9, <2>1, <2>2
<1>10. CASE Arrive
  BY <1>10 DEF Arrive
<1> QED
  BY <1>1, <1>2, <1>3, <1>4, <1>5, <1>6, <1>7, <1>8, <1>9, <1>10 DEF Next, Work

\* The inductive invariant holds in every reachable state of every instance.
LEMMA Invariance == Spec => []IInv
  BY InitIInv, NextIInv, PTL DEF Spec

\* Every variable keeps its type.
THEOREM DirectoriesTyped == Spec => []TypeOK
  BY Invariance, PTL DEF IInv

\* Neither target nor backup ever holds a result whose body has not completed,
\* whatever raises, crashes or runs at the same time.
THEOREM NothingUnfinished == Spec => []NoUnfinishedResult
  BY Invariance, PTL DEF IInv

-----------------------------------------------------------------------------
(***************************************************************************)
(* One client at a time, no rename refused: what each stage has            *)
(* established, when files may arrive between any two steps.               *)
(***************************************************************************)

\* Target and backup are as the client found them, or files have arrived where
\* there were none.
Untouched(c) ==
    /\ backup = found[c].backup
    /\ \/ final = found[c].final
       \/ final = "foreign" /\ found[c].final \in {"absent", "empty"}

\* The complete run that was found is the backup, and will be put back.
SetAside(c) ==
    found[c].final \in Whole => moved[c] /\ backup = found[c].final

OneAtATime ==
    /\ \A c, d \in Clients : pc[c] # "idle" /\ pc[d] # "idle" => c = d
    /\ \A c \in Clients :
           /\ pc[c] \in {"check", "mkdtemp", "checkBackup", "body", "lookFinal",
                         "moveFinal"} => Untouched(c)
           /\ pc[c] \notin {"idle", "check"} =>
                  (found[c].final = "foreign" => c \in Overwrite \ Marked)
           /\ pc[c] \notin {"idle", "check", "mkdtemp", "checkBackup"} =>
                  found[c].backup = "absent"
           /\ pc[c] = "moveFinal" => final # "absent"
           /\ pc[c] \in {"promote", "undo", "putBack"} =>
                  final \notin Whole /\ SetAside(c)
           /\ pc[c] = "dropBackup" => final = c
           /\ pc[c] = "dropStaging" /\ found[c].final \in Whole =>
                  found[c].final \in {final, backup} \/ final = c

\* What arrives and what a crash or an exception leaves keeps to that.
LEMMA UndisturbedStep ==
    ASSUME IInv, OneAtATime, [Next]_vars, Undisturbed'
    PROVE  OneAtATime'
<1> USE OutputAssumption
    DEF IInv, TypeOK, OneAtATime, Untouched, SetAside, Goto, dirs, past,
        counters, Exists, Nonempty, Whole, Unrecognized
<1>1. CASE UNCHANGED vars
  BY <1>1 DEF vars
<1>2. ASSUME NEW c \in Clients, Begin(c) PROVE OneAtATime'
  <2>1. \A d \in Clients : pc[d] = "idle"
    BY <1>2, Zenon DEF Begin, Undisturbed
  <2>2. /\ pc' = [pc EXCEPT ![c] = "check"]
        /\ found' = [found EXCEPT ![c] = [final |-> final, backup |-> backup]]
        /\ UNCHANGED <<final, backup>>
    BY <1>2, Zenon DEF Begin
  <2> HIDE <1>2
  <2> QED
    BY <2>1, <2>2
<1>3. ASSUME NEW c \in Clients,
             \/ Check(c) \/ Refuse(c) \/ MakeStaging(c) \/ CheckBackup(c)
             \/ RefuseStaleBackup(c)
      PROVE  OneAtATime'
  BY <1>3 DEF Check, Refuse, MakeStaging, CheckBackup, RefuseStaleBackup
<1>4. ASSUME NEW c \in Clients,
             BodyCompletes(c) \/ BodyRaises(c) \/ LookFinal(c)
      PROVE  OneAtATime'
  BY <1>4 DEF BodyCompletes, BodyRaises, LookFinal
<1>5. ASSUME NEW c \in Clients, MoveFinal(c) PROVE OneAtATime'
  BY <1>5 DEF MoveFinal
<1>6. ASSUME NEW c \in Clients, Promote(c) PROVE OneAtATime'
  BY <1>6 DEF Promote, StagedIsBuilt
<1>7. ASSUME NEW c \in Clients, RenameRaises(c) PROVE OneAtATime'
  BY <1>7 DEF RenameRaises, CanMove, Replaceable
<1>8. ASSUME NEW c \in Clients PROVE ~RenameFault(c)
  BY DEF RenameFault, Undisturbed
<1>9. ASSUME NEW c \in Clients, UndoFinal(c) PROVE OneAtATime'
  BY <1>9 DEF UndoFinal, StepOn, AfterUndo, Removed
<1>10. ASSUME NEW c \in Clients, NothingToUndo(c) PROVE OneAtATime'
  BY <1>10 DEF NothingToUndo, AfterUndo
<1>11. ASSUME NEW c \in Clients, PutBack(c) PROVE OneAtATime'
  BY <1>11 DEF PutBack
<1>12. ASSUME NEW c \in Clients, DropBackup(c) \/ NoBackup(c) PROVE OneAtATime'
  BY <1>12 DEF DropBackup, NoBackup, StepOn
<1>13. ASSUME NEW c \in Clients, DropStaging(c) PROVE OneAtATime'
  BY <1>13 DEF DropStaging, StepOn
<1>14. ASSUME NEW c \in Clients, RemovalRaises(c) \/ Crash(c) PROVE OneAtATime'
  BY <1>14 DEF RemovalRaises, Crash
<1>15. CASE Arrive
  BY <1>15 DEF Arrive
<1> HIDE DEF OneAtATime
<1> QED
  BY <1>1, <1>2, <1>3, <1>4, <1>5, <1>6, <1>7, <1>8, <1>9, <1>10, <1>11, <1>12,
     <1>13, <1>14, <1>15 DEF Next, Work

\* Nothing undoes a disturbance.
LEMMA DisturbedStays ==
    ASSUME IInv, [Next]_vars, Undisturbed'
    PROVE  Undisturbed
<1> USE DEF Undisturbed, IInv, TypeOK, dirs, past, counters
<1>1. CASE UNCHANGED vars
  BY <1>1 DEF vars
<1>2. CASE Arrive
  BY <1>2 DEF Arrive
<1>3. ASSUME NEW c \in Clients, Begin(c) PROVE Undisturbed
  BY <1>3 DEF Begin
<1>4. ASSUME NEW c \in Clients, RenameFault(c) PROVE Undisturbed
  BY <1>4 DEF RenameFault
<1>5. ASSUME NEW c \in Clients, Work(c), ~Begin(c), ~RenameFault(c)
      PROVE  Undisturbed
  BY <1>5
     DEF Work, Check, Refuse, MakeStaging, CheckBackup, RefuseStaleBackup,
         BodyCompletes, BodyRaises, LookFinal, MoveFinal, Promote, RenameRaises,
         UndoFinal, NothingToUndo, PutBack, DropBackup, NoBackup, DropStaging,
         RemovalRaises, Crash
<1> QED
  BY <1>1, <1>2, <1>3, <1>4, <1>5 DEF Next

\* Up to the first disturbance clients are one at a time.
LEMMA SerialInvariance == Spec => [](Undisturbed => OneAtATime)
<1>1. Init => OneAtATime
  BY DEF Init, OneAtATime
<1>2. IInv /\ [Next]_vars /\ (Undisturbed => OneAtATime)
          => (Undisturbed => OneAtATime)'
  BY UndisturbedStep, DisturbedStays
<1> QED
  BY <1>1, <1>2, Invariance, PTL DEF Spec

\* The steps that change target or backup.
LEMMA Movers ==
    ASSUME Next
    PROVE  \/ UNCHANGED <<final, backup>>
           \/ Arrive
           \/ \E c \in Clients :
                  \/ MoveFinal(c) \/ Promote(c) \/ UndoFinal(c) \/ PutBack(c)
                  \/ DropBackup(c)
BY DEF Next, Work, Begin, Check, Refuse, MakeStaging, CheckBackup,
       RefuseStaleBackup, BodyCompletes, BodyRaises, LookFinal, RenameRaises,
       RenameFault, NothingToUndo, NoBackup, DropStaging, RemovalRaises, Crash,
       dirs

\* One after the other, the prior complete run is under its own name or in the
\* backup at every moment until its replacement is in place, whoever crashes,
\* whatever removal raises and whatever arrives.
THEOREM PriorRunKept == Spec => CompleteRunKept
<1> DEFINE Kept == {final, backup} \cap Whole # {} =>
                       {final', backup'} \cap Whole # {}
<1>1. IInv /\ (Undisturbed => OneAtATime) /\ [Next]_vars =>
          [Undisturbed' => Kept]_vars
  <2> SUFFICES ASSUME IInv, OneAtATime, Next, Undisturbed' PROVE Kept
    BY DisturbedStays
  <2> USE OutputAssumption DEF OneAtATime, Goto, Whole
  <2>1. CASE UNCHANGED <<final, backup>>
    BY <2>1
  <2>2. ASSUME NEW c \in Clients, MoveFinal(c) PROVE Kept
    BY <2>2 DEF MoveFinal, Untouched
  <2>3. ASSUME NEW c \in Clients, Promote(c) PROVE Kept
    BY <2>3 DEF Promote, IInv, StagedIsBuilt
  <2>4. ASSUME NEW c \in Clients, UndoFinal(c) PROVE Kept
    BY <2>4 DEF UndoFinal, StepOn
  <2>5. ASSUME NEW c \in Clients, PutBack(c) PROVE Kept
    BY <2>5 DEF PutBack
  <2>6. ASSUME NEW c \in Clients, DropBackup(c) PROVE Kept
    BY <2>6 DEF DropBackup, StepOn
  <2>7. CASE Arrive
    BY <2>7 DEF Arrive, Nonempty
  <2> QED
    BY <2>1, <2>2, <2>3, <2>4, <2>5, <2>6, <2>7, Movers
<1> QED
  BY <1>1, Invariance, SerialInvariance, PTL DEF Spec, CompleteRunKept

\* One after the other, files no run wrote are lost only to a client in whose
\* run they arrived, or that asks for no marker: what a crash left of them in
\* the backup, and what was in the target before, no later client removes.
THEOREM ForeignLossesAreLate == Spec => OnlyLateArrivalsLost
<1> DEFINE Lost == "foreign" \in {final, backup} \ {final', backup'}
           Excused(c) ==
               /\ pc[c] # "idle"
               /\ found[c].backup # "foreign"
               /\ found[c].final = "foreign" => c \in Overwrite \ Marked
<1>1. IInv /\ (Undisturbed => OneAtATime) /\ [Next]_vars =>
          [Undisturbed' /\ Lost => \E c \in Clients : Excused(c)]_vars
  <2> SUFFICES ASSUME IInv, OneAtATime, Next, Undisturbed', Lost
               PROVE  \E c \in Clients : Excused(c)
    BY DisturbedStays
  <2>1. ~Arrive
    BY DEF Arrive
  <2>2. PICK c \in Clients :
            \/ MoveFinal(c) \/ Promote(c) \/ UndoFinal(c) \/ PutBack(c)
            \/ DropBackup(c)
    BY <2>1, Movers
  <2>3. pc[c] \in {"moveFinal", "promote", "undo", "putBack", "dropBackup"}
    BY <2>2 DEF MoveFinal, Promote, UndoFinal, PutBack, DropBackup, StepOn, Goto
  <2> QED
    BY <2>3 DEF OneAtATime
<1> QED
  BY <1>1, Invariance, SerialInvariance, PTL DEF Spec, OnlyLateArrivalsLost

\* The steps by which a client can leave its last stages.
LEMMA LastSteps ==
    ASSUME IInv, OneAtATime, Next, Undisturbed', NEW c \in Clients,
           pc[c] \in {"dropStaging", "dropBackup"}, pc'[c] = "idle",
           crashes' = crashes
    PROVE  DropStaging(c) \/ RemovalRaises(c) \/ DropBackup(c) \/ NoBackup(c)
<1>1. \A d \in Clients : pc[d] # "idle" => d = c
  BY DEF OneAtATime
<1>2. ~Arrive
  BY DEF Arrive
<1>3. PICK d \in Clients : Work(d)
  BY <1>2 DEF Next
<1>4. ~Begin(d)
  BY DEF Begin, Undisturbed, Goto
<1>5. ~Crash(d)
  BY DEF Crash, IInv, TypeOK
<1>6. pc[d] # "idle"
  BY <1>3, <1>4
     DEF Work, Check, Refuse, MakeStaging, CheckBackup, RefuseStaleBackup,
         BodyCompletes, BodyRaises, LookFinal, MoveFinal, Promote, RenameRaises,
         RenameFault, UndoFinal, NothingToUndo, PutBack, DropBackup, NoBackup,
         DropStaging, RemovalRaises, Crash, StepOn, Goto
<1> QED
  BY <1>1, <1>3, <1>4, <1>5, <1>6
     DEF Work, Check, Refuse, MakeStaging, CheckBackup, RefuseStaleBackup,
         BodyCompletes, BodyRaises, LookFinal, MoveFinal, Promote, RenameRaises,
         RenameFault, UndoFinal, NothingToUndo, PutBack, StepOn, Goto

\* One after the other, an exception leaves the complete run that the client
\* found in the target or the backup, or the complete replacement in its place,
\* also when a handler or the removal of the backup raises.
THEOREM TargetPreserved == Spec => PriorTargetKept
<1>1. IInv /\ (Undisturbed => OneAtATime) /\ [Next]_vars =>
          [Undisturbed' => \A c \in Clients : Preserved(c)]_vars
  <2> SUFFICES ASSUME IInv, OneAtATime, Next, Undisturbed', NEW c \in Clients,
                      Raises(c), crashes' = crashes, found[c].final \in Whole
               PROVE  found[c].final \in {final', backup'} \/ final' = c
    BY DisturbedStays DEF Preserved
  <2>1. /\ pc[c] = "dropStaging" /\ pc'[c] = "idle"
        /\ found[c].final \in {final, backup} \/ final = c
    BY DEF Raises, OneAtATime
  <2>2. DropStaging(c) \/ RemovalRaises(c) \/ DropBackup(c) \/ NoBackup(c)
    BY <2>1, LastSteps
  <2>3. UNCHANGED <<final, backup>>
    BY <2>1, <2>2
       DEF DropStaging, RemovalRaises, DropBackup, NoBackup, StepOn, Goto, dirs
  <2> QED
    BY <2>1, <2>3
<1> QED
  BY <1>1, Invariance, SerialInvariance, PTL DEF Spec, PriorTargetKept

\* One after the other, a client that returns has published its result and left
\* nothing of what it replaced.
THEOREM ReturnPublishes == Spec => ReturnIsPublished
<1> DEFINE Published ==
        \A c \in Clients :
            Undisturbed' /\ Returns(c) /\ crashes' = crashes =>
                final' = c /\ backup' = "absent"
<1>1. IInv /\ (Undisturbed => OneAtATime) /\ [Next]_vars => [Published]_vars
  <2> SUFFICES ASSUME IInv, OneAtATime, Next, Undisturbed',
                      NEW c \in Clients, Returns(c), crashes' = crashes
               PROVE  final' = c /\ backup' = "absent"
    BY DisturbedStays
  <2>1. pc[c] = "dropBackup" /\ pc'[c] = "idle" /\ final = c
    BY DEF Returns, OneAtATime
  <2>2. DropStaging(c) \/ RemovalRaises(c) \/ DropBackup(c) \/ NoBackup(c)
    BY <2>1, LastSteps
  <2>3. DropBackup(c) \/ NoBackup(c)
    BY <2>1, <2>2 DEF DropStaging, RemovalRaises, StepOn, Goto, IInv, TypeOK
  <2>4. CASE NoBackup(c)
    BY <2>1, <2>4 DEF NoBackup, Exists, dirs
  <2>5. CASE DropBackup(c)
    BY <2>1, <2>5 DEF DropBackup, StepOn, Goto, IInv, TypeOK
  <2> QED
    BY <2>3, <2>4, <2>5
<1> QED
  BY <1>1, Invariance, SerialInvariance, PTL DEF Spec, ReturnIsPublished
=============================================================================
