---------------------------- MODULE EpisodeProofs ----------------------------
(***************************************************************************)
(* Proofs about PersistentEpisode, for any number of processes, episodes   *)
(* and failures.                                                           *)
(***************************************************************************)
EXTENDS PersistentEpisode, TLAPS

-----------------------------------------------------------------------------
(***************************************************************************)
(* Episode states.                                                         *)
(***************************************************************************)
LEMMA FreshFacts ==
    ASSUME NEW r \in Requests
    PROVE  Valid(Fresh(r)) /\ Fresh(Fresh(r).request) = Fresh(r)
           /\ Fresh(r).status # "blocked"
BY EpisodeAssumption DEF Valid, Fresh, Statuses

\* What record_episode_iteration returns is valid and succeeds its argument.
LEMMA RecordedFacts ==
    ASSUME NEW state, Valid(state), NEW step \in Steps, ~Refused(state, step)
    PROVE  Valid(Recorded(state, step)) /\ Succeeds(Recorded(state, step), state)
<1> DEFINE next == Recorded(state, step)
<1>1. /\ next.kind = "state"
      /\ next.request = state.request /\ next.status = step.status
      /\ next.cost = state.cost + step.cost
      /\ next.history = Append(state.history, step.cost)
      /\ next.conclusion = (state.conclusion \/ step.conclusion)
      /\ next.parent = state
  BY DEF Recorded
<1>2. step.cost \in Nat /\ step.status \in Statuses
  BY EpisodeAssumption
<1>3. /\ next.history \in Seq(Nat)
      /\ Len(next.history) = Len(state.history) + 1
      /\ \A i \in DOMAIN state.history : next.history[i] = state.history[i]
  BY <1>1, <1>2 DEF Valid
<1>4. /\ state.cost + step.cost <= state.request.budget
      /\ Len(state.history) + 1 <= state.request.max
      /\ state.status \notin Terminal
  BY <1>2, EpisodeAssumption DEF Refused, Valid
<1> SUFFICES Valid(next) /\ Succeeds(next, state)
  OBVIOUS
<1> HIDE DEF next
<1>5. Valid(next)
  BY <1>1, <1>2, <1>3, <1>4 DEF Valid
<1>6. Succeeds(next, state)
  BY <1>1, <1>3, <1>4 DEF Succeeds
<1> QED
  BY <1>5, <1>6

-----------------------------------------------------------------------------
(***************************************************************************)
(* Types.                                                                  *)
(***************************************************************************)
LEMMA TypeInit == Init => TypeOK
BY EpisodeAssumption DEF Init, TypeOK

LEMMA TypeNext == TypeOK /\ [Next]_vars => TypeOK'
<1> SUFFICES ASSUME TypeOK, [Next]_vars PROVE TypeOK'
  OBVIOUS
<1> USE DEF TypeOK, vars
<1>1. ASSUME NEW p \in Processes, NEW r \in Requests, OpenOrCreate(p, r)
      PROVE  TypeOK'
  <2>1. CASE Become(p, "open", Fresh(r))
    BY <1>1, <2>1, FreshFacts DEF OpenOrCreate, Begin, Become
  <2>2. CASE Readable(file) /\ Become(p, "loop", file)
    <3>1. Valid(file)
      BY <2>2 DEF Readable, Absent, Empty, Mixed
    <3> QED
      BY <1>1, <2>2, <3>1 DEF OpenOrCreate, Begin, Become
  <2> QED
    BY <1>1, <2>1, <2>2 DEF OpenOrCreate
<1>2. ASSUME NEW p \in Processes, NEW r \in Requests, InitCommand(p, r)
      PROVE  TypeOK'
  BY <1>2, FreshFacts DEF InitCommand, Begin, Become
<1>3. ASSUME NEW p \in Processes, NEW step \in Steps, RecordCommand(p, step)
      PROVE  TypeOK'
  <2>1. Valid(file)
    BY <1>3 DEF RecordCommand, Readable, Absent, Empty, Mixed
  <2>2. Valid(Recorded(file, step))
    BY <1>3, <2>1, RecordedFacts DEF RecordCommand
  <2> QED
    BY <1>3, <2>2 DEF RecordCommand, Begin, Become
<1>4. ASSUME NEW p \in Processes, NEW step \in Steps, Step(p, step)
      PROVE  TypeOK'
  <2>1. CASE Leave(p)
    BY <1>4, <2>1 DEF Step, Leave, Become
  <2>2. CASE /\ Become(p, "open", Recorded(mem[p], step))
             /\ ~Refused(mem[p], step)
             /\ UNCHANGED <<op, fd, alone>>
    <3>1. Valid(Recorded(mem[p], step))
      BY <1>4, <2>2, RecordedFacts DEF Step
    <3> QED
      BY <1>4, <2>2, <3>1 DEF Step, Become
  <2> QED
    BY <1>4, <2>1, <2>2 DEF Step
<1>5. ASSUME NEW p \in Processes, Return(p) \/ Die(p)
      PROVE  TypeOK'
  <2>1. /\ Become(p, "idle", None) /\ fd' = [fd EXCEPT ![p] = "none"]
        /\ UNCHANGED <<op, alone, file, tmp>>
    BY <1>5 DEF Return, Die, Leave
  <2>2. failures' \in 0 .. MaxFailures
    BY <1>5, EpisodeAssumption DEF Return, Die
  <2> QED
    BY <2>1, <2>2 DEF Become
<1>6. ASSUME NEW p \in Processes, Open(p)
      PROVE  TypeOK'
  BY <1>6 DEF Open
<1>7. ASSUME NEW p \in Processes, Write(p)
      PROVE  TypeOK'
  BY <1>7 DEF Write, Written
<1>8. ASSUME NEW p \in Processes, Replace(p)
      PROVE  TypeOK'
  BY <1>8 DEF Replace, Renamed, Become
<1>9. ASSUME NEW p \in Processes, ReplaceFails(p) \/ WriteFails(p) \/ Unlink(p)
      PROVE  TypeOK'
  <2>1. Unlinked \in [Processes -> {"none", "tmp", "file", "unlinked"}]
    BY DEF Unlinked
  <2>2. fd' \in [Processes -> {"none", "tmp", "file", "unlinked"}]
    BY <1>9, <2>1 DEF ReplaceFails, WriteFails, Unlink
  <2>3. failures' \in 0 .. MaxFailures
    BY <1>9, EpisodeAssumption DEF ReplaceFails, WriteFails, Unlink
  <2> QED
    BY <1>9, <2>2, <2>3 DEF ReplaceFails, WriteFails, Unlink, Become
<1>10. CASE UNCHANGED vars
  BY <1>10
<1> QED
  BY <1>1, <1>2, <1>3, <1>4, <1>5, <1>6, <1>7, <1>8, <1>9, <1>10
     DEF Next, Continue

\* Every state on disk or in memory is valid, within its budget and its number
\* of iterations, however many processes write it.
THEOREM EpisodeTyped == Spec => []TypeOK
BY TypeInit, TypeNext, PTL DEF Spec

-----------------------------------------------------------------------------
(***************************************************************************)
(* A process that nobody joins.  Its temporary file is its own, so that    *)
(* what it renames is what it computed, from what the checkpoint holds.    *)
(***************************************************************************)
Undisturbed(p) ==
    /\ \A q \in Others(p) : pc[q] = "idle"
    /\ pc[p] = "loop" => mem[p] = file
    /\ pc[p] \in {"open", "write", "replace"} => Justified(p, mem[p])
    /\ pc[p] = "write" => tmp = Empty /\ fd[p] = "tmp"
    /\ pc[p] = "replace" => tmp = mem[p]

AloneInv ==
    /\ TypeOK
    /\ \A p \in Processes : pc[p] # "idle" /\ alone[p] => Undisturbed(p)

\* A step of another process either leaves p alone, or is its beginning.
LEMMA AloneNext == AloneInv /\ [Next]_vars => AloneInv'
<1> SUFFICES ASSUME AloneInv, [Next]_vars,
                    NEW p \in Processes, pc'[p] # "idle", alone'[p]
             PROVE  Undisturbed(p)'
  BY TypeNext DEF AloneInv
<1> USE DEF AloneInv, TypeOK
<1>1. CASE UNCHANGED vars
  BY <1>1 DEF vars, Undisturbed, Justified, Others
<1>2. ASSUME NEW q \in Others(p),
             \/ \E r \in Requests : OpenOrCreate(q, r) \/ InitCommand(q, r)
             \/ \E step \in Steps : RecordCommand(q, step)
      PROVE  FALSE
  <2>1. /\ alone'[p] = (alone[p] /\ pc[p] = "idle")
        /\ pc'[p] = pc[p]
    BY <1>2 DEF Others, OpenOrCreate, InitCommand, RecordCommand, Begin, Become
  <2> QED
    BY <2>1
<1>3. ASSUME NEW q \in Others(p), Continue(q) \/ WriteFails(q) \/ Die(q)
      PROVE  FALSE
  <2>1. pc'[p] = pc[p] /\ alone'[p] = alone[p] /\ pc[q] # "idle"
    BY <1>3 DEF Others, Continue, WriteFails, Die, Step, Return, Open, Write,
                Replace, ReplaceFails, Unlink, Leave, Become
  <2> QED
    BY <2>1 DEF Undisturbed
<1>4. ASSUME NEW r \in Requests, OpenOrCreate(p, r) \/ InitCommand(p, r)
      PROVE  Undisturbed(p)'
  <2>1. \A q \in Others(p) : pc'[q] = "idle"
    <3>1. alone'[p] = (\A q \in Others(p) : pc[q] = "idle")
      BY <1>4 DEF OpenOrCreate, InitCommand, Begin
    <3>2. \A q \in Others(p) : pc'[q] = pc[q]
      BY <1>4 DEF OpenOrCreate, InitCommand, Become, Others
    <3> QED
      BY <3>1, <3>2
  <2>2. CASE pc'[p] = "loop" /\ mem'[p] = file
    BY <1>4, <2>1, <2>2 DEF OpenOrCreate, InitCommand, Begin, Undisturbed, Others
  <2>3. CASE /\ pc'[p] = "open" /\ mem'[p] = Fresh(r)
             /\ op'[p] = "init" \/ file = Absent
    <3>1. Readable(Fresh(r)) /\ Fresh(Fresh(r).request) = Fresh(r) /\ file' = file
      BY <1>4, FreshFacts DEF OpenOrCreate, InitCommand, Begin, Readable, Fresh
    <3>2. Justified(p, mem[p])'
      BY <2>3, <3>1 DEF Justified
    <3> QED
      BY <2>1, <2>3, <3>2 DEF Undisturbed, Others
  <2> QED
    BY <1>4, <2>2, <2>3 DEF OpenOrCreate, InitCommand, Begin, Become
<1>5. ASSUME NEW step \in Steps, RecordCommand(p, step)
      PROVE  Undisturbed(p)'
  <2>1. Valid(file)
    BY <1>5 DEF RecordCommand, Readable, Absent, Empty, Mixed
  <2>2. Succeeds(Recorded(file, step), file) /\ Readable(Recorded(file, step))
    BY <1>5, <2>1, RecordedFacts DEF RecordCommand, Readable, Valid
  <2>3. \A q \in Others(p) : pc'[q] = "idle"
    <3>1. alone'[p] = (\A q \in Others(p) : pc[q] = "idle")
      BY <1>5 DEF RecordCommand, Begin
    <3>2. \A q \in Others(p) : pc'[q] = pc[q]
      BY <1>5 DEF RecordCommand, Become, Others
    <3> QED
      BY <3>1, <3>2
  <2>4. pc'[p] = "open" /\ mem'[p] = Recorded(file, step) /\ file' = file
    BY <1>5 DEF RecordCommand, Begin, Become
  <2> QED
    BY <2>2, <2>3, <2>4, <1>5 DEF Undisturbed, Justified, RecordCommand, Others
<1>6. ASSUME NEW step \in Steps, Step(p, step)
      PROVE  Undisturbed(p)'
  <2>1. /\ pc[p] = "loop" /\ alone[p]
        /\ Become(p, "open", Recorded(mem[p], step))
        /\ ~Refused(mem[p], step)
        /\ UNCHANGED <<op, fd, alone, file, tmp>>
    BY <1>6 DEF Step, Leave, Become
  <2>2. Valid(file) /\ mem[p] = file
    BY <2>1 DEF Undisturbed
  <2>3. Succeeds(Recorded(file, step), file) /\ Readable(Recorded(file, step))
        /\ Readable(file)
    BY <2>1, <2>2, RecordedFacts DEF Readable, Valid
  <2>4. \A q \in Others(p) : pc'[q] = "idle"
    BY <2>1 DEF Become, Others, Undisturbed
  <2>5. pc'[p] = "open" /\ mem'[p] = Recorded(file, step)
    BY <2>1, <2>2 DEF Become
  <2> QED
    BY <2>1, <2>3, <2>4, <2>5 DEF Undisturbed, Justified, Others
<1>7. ASSUME Open(p)
      PROVE  Undisturbed(p)'
  BY <1>7 DEF Open, Undisturbed, Justified, Others
<1>8. ASSUME Write(p)
      PROVE  Undisturbed(p)'
  <2>1. tmp = Empty /\ fd[p] = "tmp" /\ pc[p] = "write" /\ alone[p]
    BY <1>8 DEF Write, Undisturbed
  <2>2. tmp' = mem[p] /\ file' = file
    BY <1>8, <2>1 DEF Write, Written
  <2> QED
    BY <1>8, <2>1, <2>2 DEF Write, Undisturbed, Justified, Others
<1>9. ASSUME Replace(p)
      PROVE  Undisturbed(p)'
  BY <1>9 DEF Replace, Become, Undisturbed, Others
<1>10. ASSUME Return(p) \/ Unlink(p) \/ Die(p)
       PROVE  FALSE
  BY <1>10 DEF Return, Unlink, Die, Leave, Become
<1>11. ASSUME ReplaceFails(p) \/ WriteFails(p)
       PROVE  Undisturbed(p)'
  <2>1. pc'[p] = "unlink" /\ \A q \in Others(p) : pc'[q] = pc[q]
    BY <1>11 DEF ReplaceFails, WriteFails, Become, Others
  <2>2. \A q \in Others(p) : pc'[q] = "idle"
    BY <1>11, <2>1 DEF ReplaceFails, WriteFails, Undisturbed
  <2> QED
    BY <2>1, <2>2 DEF Undisturbed, Others
<1>12. \A q \in Processes : q = p \/ q \in Others(p)
  BY DEF Others
<1> HIDE DEF AloneInv, TypeOK
<1> QED
  BY <1>1, <1>2, <1>3, <1>4, <1>5, <1>6, <1>7, <1>8, <1>9, <1>10, <1>11, <1>12
     DEF Next, Continue

LEMMA AloneInit == Init => AloneInv
BY TypeInit DEF Init, AloneInv

\* The handler of a process that nobody joins is called with the committed
\* state, whatever died or failed before.
THEOREM HandlerIsCurrent == Spec => []HandlerSeesCheckpoint
<1>1. AloneInv => HandlerSeesCheckpoint
  BY DEF AloneInv, Undisturbed, HandlerSeesCheckpoint
<1> QED
  BY <1>1, AloneInit, AloneNext, PTL DEF Spec

\* A process that nobody joins replaces the checkpoint by its successor, or
\* starts an episode where it may.
THEOREM HistoryKept == Spec => HistoryIsKept
<1> DEFINE Kept == \E p \in Processes :
               pc[p] \in {"write", "replace"} /\ (alone[p] => Justified(p, file'))
<1>1. AloneInv /\ [Next]_vars => [Kept]_file
  <2> SUFFICES ASSUME AloneInv, Next, file' # file
               PROVE  Kept
    BY DEF vars
  <2>1. PICK p \in Processes :
            Write(p) \/ Replace(p) \/ (WriteFails(p) /\ pc[p] = "write")
    BY DEF Next, Continue, OpenOrCreate, InitCommand, RecordCommand, Begin,
           Step, Return, Open, ReplaceFails, WriteFails, Unlink, Die, Leave
  <2>2. CASE ~alone[p]
    BY <2>1, <2>2 DEF Write, Replace
  <2>3. CASE alone[p]
    <3>1. Undisturbed(p)
      BY <2>1, <2>3 DEF AloneInv, Write, Replace
    <3>2. Replace(p) /\ file' = mem[p]
      BY <2>1, <3>1 DEF Undisturbed, Write, Replace, WriteFails
    <3> QED
      BY <3>1, <3>2 DEF Undisturbed, Replace
  <2> QED
    BY <2>2, <2>3
<1>2. HistoryIsKept <=> [][Kept]_file
  BY DEF HistoryIsKept
<1> QED
  BY <1>1, <1>2, AloneInit, AloneNext, PTL DEF Spec
=============================================================================
