-------------------------- MODULE PersistentEpisode --------------------------
(***************************************************************************)
(* run_persistent_episode and the mda-research-episode commands: processes *)
(* that read one checkpoint file, compute the next state of an episode in  *)
(* memory and replace the file through <name>.tmp.  Nothing locks either   *)
(* file.  A process may die between any two system calls, and any of its   *)
(* file operations may raise.                                              *)
(*                                                                         *)
(* An open file is an inode, not a name: a process that still writes to    *)
(* the temporary file when another renames it writes to the checkpoint.    *)
(* A state stands for its own SHA-256, so parent is the state before it.   *)
(* Abstracted: the text of plans, references and blockers.                 *)
(***************************************************************************)
EXTENDS Naturals, Sequences

CONSTANTS
    Processes,
    Requests,     \* [id, max, budget]: identity and immutable budget
    Steps,        \* results of a step handler: [cost, status, conclusion]
    MaxFailures   \* bound: deaths of processes and file errors

Statuses == {"active", "blocked", "concluded", "stopped"}

ASSUME EpisodeAssumption ==
    /\ MaxFailures \in Nat
    /\ Requests # {}
    /\ \A r \in Requests : r.max \in Nat \ {0} /\ r.budget \in Nat
    /\ Steps \subseteq [cost : Nat, status : Statuses, conclusion : BOOLEAN]

VARIABLES
    file, tmp,  \* contents of the checkpoint and of its temporary file
    pc,         \* where each process is
    op,         \* what it runs: "run", "record" or "init"
    mem,        \* its state
    fd,         \* the file its descriptor is open on
    alone,      \* no other process has been active since it began
    failures

vars == <<file, tmp, pc, op, mem, fd, alone, failures>>

\* A file that does not exist, was opened for writing and not written yet, or
\* was written in part or by two processes; and no state.
Absent == [kind |-> "absent"]
Empty == [kind |-> "empty"]
Mixed == [kind |-> "mixed"]
None == [kind |-> "none"]

Readable(contents) == contents.kind = "state"
Terminal == {"concluded", "stopped"}

Init ==
    /\ file = Absent /\ tmp = Absent
    /\ pc = [p \in Processes |-> "idle"]
    /\ op = [p \in Processes |-> "run"]
    /\ mem = [p \in Processes |-> None]
    /\ fd = [p \in Processes |-> "none"]
    /\ alone = [p \in Processes |-> TRUE]
    /\ failures = 0

-----------------------------------------------------------------------------
(***************************************************************************)
(* Episode states.                                                         *)
(***************************************************************************)
\* create_research_episode
Fresh(request) ==
    [kind |-> "state", request |-> request, status |-> "active", cost |-> 0,
     history |-> <<>>, conclusion |-> FALSE, parent |-> None]

\* Mutant of Refused: the budget may be passed by the last step.
RefusedWhenSpent(state, step) ==
    \/ state.status \in Terminal
    \/ Len(state.history) = state.request.max
    \/ state.cost >= state.request.budget

\* Why record_episode_iteration raises.
Refused(state, step) ==
    \/ state.status \in Terminal
    \/ Len(state.history) = state.request.max
    \/ state.cost + step.cost > state.request.budget

\* record_episode_iteration.  A conclusion is never taken back.
Recorded(state, step) ==
    [kind |-> "state", request |-> state.request,
     status |-> step.status,
     cost |-> state.cost + step.cost,
     history |-> Append(state.history, step.cost),
     conclusion |-> state.conclusion \/ step.conclusion,
     parent |-> state]

\* The conditions on which run_persistent_episode leaves its loop.
Stops(state) ==
    \/ state.status \in Terminal
    \/ Len(state.history) >= state.request.max
    \/ state.cost >= state.request.budget

-----------------------------------------------------------------------------
(***************************************************************************)
(* A process begins: the loop, or a command.                               *)
(***************************************************************************)
Others(p) == Processes \ {p}

Begin(p, operation) ==
    /\ pc[p] = "idle"
    /\ op' = [op EXCEPT ![p] = operation]
    /\ alone' = [q \in Processes |->
                    IF q = p THEN \A o \in Others(p) : pc[o] = "idle"
                    ELSE alone[q] /\ pc[q] = "idle"]
    /\ UNCHANGED <<file, tmp, fd, failures>>

Become(p, place, state) ==
    pc' = [pc EXCEPT ![p] = place] /\ mem' = [mem EXCEPT ![p] = state]

\* open_or_create_episode.  An unreadable checkpoint or another identity
\* raises, and so changes nothing.
OpenOrCreate(p, request) ==
    /\ Begin(p, "run")
    /\ \/ file = Absent /\ Become(p, "open", Fresh(request))
       \/ Readable(file) /\ file.request = request /\ Become(p, "loop", file)

\* The command "init" does not look for a checkpoint.
InitCommand(p, request) ==
    Begin(p, "init") /\ Become(p, "open", Fresh(request))

RecordCommand(p, step) ==
    /\ Begin(p, "record")
    /\ Readable(file) /\ ~Refused(file, step)
    /\ Become(p, "open", Recorded(file, step))

\* A process ends, by a return, an exception or its death.
Leave(p) ==
    /\ Become(p, "idle", None)
    /\ fd' = [fd EXCEPT ![p] = "none"]
    /\ UNCHANGED <<op, alone>>

\* The handler runs, and its result is recorded in memory or raises.
Step(p, step) ==
    /\ pc[p] = "loop" /\ ~Stops(mem[p])
    /\ IF \/ step.status = "concluded" /\ ~step.conclusion
          \/ Refused(mem[p], step)
       THEN Leave(p)
       ELSE /\ Become(p, "open", Recorded(mem[p], step))
            /\ UNCHANGED <<op, fd, alone>>
    /\ UNCHANGED <<file, tmp, failures>>

Return(p) ==
    /\ pc[p] = "loop" /\ Stops(mem[p])
    /\ Leave(p)
    /\ UNCHANGED <<file, tmp, failures>>

-----------------------------------------------------------------------------
(***************************************************************************)
(* checkpoint_episode                                                      *)
(***************************************************************************)
\* Mutant of Open: the checkpoint is written in place.
OpenInPlace(p) ==
    /\ pc[p] = "open"
    /\ file' = Empty /\ tmp' = mem[p]
    /\ fd' = [fd EXCEPT ![p] = "file"]
    /\ pc' = [pc EXCEPT ![p] = "write"]
    /\ UNCHANGED <<op, mem, alone, failures>>

\* Opening the temporary file truncates the inode it names.
Open(p) ==
    /\ pc[p] = "open"
    /\ tmp' = Empty
    /\ fd' = [fd EXCEPT ![p] = "tmp"]
    /\ pc' = [pc EXCEPT ![p] = "write"]
    /\ UNCHANGED <<file, op, mem, alone, failures>>

\* Both processes that write to one inode write from its start: what the later
\* one writes replaces what the earlier one wrote, unless it is shorter.
Written(contents, state) ==
    IF contents = Empty THEN {state} ELSE {state, Mixed}

Write(p) ==
    /\ pc[p] = "write"
    /\ \/ fd[p] = "tmp" /\ tmp' \in Written(tmp, mem[p]) /\ UNCHANGED file
       \/ fd[p] = "file" /\ file' \in Written(file, mem[p]) /\ UNCHANGED tmp
       \/ fd[p] = "unlinked" /\ UNCHANGED <<file, tmp>>
    /\ fd' = [fd EXCEPT ![p] = "none"]
    /\ pc' = [pc EXCEPT ![p] = "replace"]
    /\ UNCHANGED <<op, mem, alone, failures>>

\* The descriptors after the temporary file was renamed, or unlinked.
Renamed == [q \in Processes |->
    CASE fd[q] = "tmp" -> "file"
      [] fd[q] = "file" -> "unlinked"
      [] OTHER -> fd[q]]

Unlinked == [q \in Processes |-> IF fd[q] = "tmp" THEN "unlinked" ELSE fd[q]]

\* After the rename a command ends, and the loop if the episode is blocked.
Replace(p) ==
    /\ pc[p] = "replace" /\ tmp # Absent
    /\ file' = tmp /\ tmp' = Absent
    /\ fd' = Renamed
    /\ IF op[p] = "run" /\ mem[p].status # "blocked"
       THEN pc' = [pc EXCEPT ![p] = "loop"] /\ UNCHANGED mem
       ELSE Become(p, "idle", None)
    /\ UNCHANGED <<op, alone, failures>>

\* Mutant of ReplaceFails: the loop goes on without the checkpoint.
ReplaceIgnored(p) ==
    /\ pc[p] = "replace"
    /\ \/ tmp = Absent /\ UNCHANGED failures
       \/ failures < MaxFailures /\ failures' = failures + 1
    /\ tmp' = Absent /\ fd' = Unlinked
    /\ Become(p, "loop", mem[p])
    /\ UNCHANGED <<file, op, alone>>

\* Mutant of ReplaceFails: the checkpoint is written again.
ReplaceRetried(p) ==
    /\ pc[p] = "replace"
    /\ \/ tmp = Absent /\ UNCHANGED failures
       \/ failures < MaxFailures /\ failures' = failures + 1
    /\ tmp' = Absent /\ fd' = Unlinked
    /\ Become(p, "open", mem[p])
    /\ UNCHANGED <<file, op, alone>>

\* Another process has renamed the temporary file, or the rename raises.
ReplaceFails(p) ==
    /\ pc[p] = "replace"
    /\ \/ tmp = Absent /\ UNCHANGED failures
       \/ failures < MaxFailures /\ failures' = failures + 1
    /\ Become(p, "unlink", mem[p])
    /\ UNCHANGED <<file, tmp, op, fd, alone>>

\* Opening or writing raises; a part may be written.
WriteFails(p) ==
    /\ pc[p] \in {"open", "write"} /\ failures < MaxFailures
    /\ failures' = failures + 1
    /\ \/ UNCHANGED <<file, tmp>>
       \/ pc[p] = "write" /\ fd[p] = "tmp" /\ tmp' = Mixed /\ UNCHANGED file
       \/ pc[p] = "write" /\ fd[p] = "file" /\ file' = Mixed /\ UNCHANGED tmp
    /\ fd' = [fd EXCEPT ![p] = "none"]
    /\ Become(p, "unlink", mem[p])
    /\ UNCHANGED <<op, alone>>

\* The handler removes the temporary file that is there by now, or fails to;
\* the exception leaves.
Unlink(p) ==
    /\ pc[p] = "unlink"
    /\ \/ tmp' = Absent /\ fd' = Unlinked
       \/ UNCHANGED <<tmp, fd>>
    /\ Become(p, "idle", None)
    /\ UNCHANGED <<file, op, alone, failures>>

\* The process dies.
Die(p) ==
    /\ pc[p] # "idle" /\ failures < MaxFailures
    /\ failures' = failures + 1
    /\ Leave(p)
    /\ UNCHANGED <<file, tmp>>

Continue(p) ==
    \/ \E step \in Steps : Step(p, step)
    \/ Return(p) \/ Open(p) \/ Write(p) \/ Replace(p) \/ ReplaceFails(p)
    \/ Unlink(p)

Next ==
    \E p \in Processes :
        \/ \E r \in Requests : OpenOrCreate(p, r) \/ InitCommand(p, r)
        \/ \E step \in Steps : RecordCommand(p, step)
        \/ Continue(p) \/ WriteFails(p) \/ Die(p)

Spec == Init /\ [][Next]_vars

\* A process that runs takes its next step; nobody is obliged to begin, and
\* no failure to happen.
FairSpec == Spec /\ \A p \in Processes : WF_vars(Continue(p))

-----------------------------------------------------------------------------
(***************************************************************************)
(* Properties.                                                             *)
(***************************************************************************)
\* validate_episode_state
Valid(state) ==
    /\ state.kind = "state"
    /\ state.request \in Requests
    /\ state.status \in Statuses
    /\ state.cost \in Nat /\ state.cost <= state.request.budget
    /\ state.history \in Seq(Nat) /\ Len(state.history) <= state.request.max

TypeOK ==
    /\ file \in {Absent, Empty, Mixed} \/ Valid(file)
    /\ tmp \in {Absent, Empty, Mixed} \/ Valid(tmp)
    /\ pc \in [Processes -> {"idle", "loop", "open", "write", "replace", "unlink"}]
    /\ op \in [Processes -> {"run", "record", "init"}]
    /\ DOMAIN mem = Processes
    /\ \A p \in Processes : pc[p] # "idle" => Valid(mem[p])
    /\ fd \in [Processes -> {"none", "tmp", "file", "unlinked"}]
    /\ alone \in [Processes -> BOOLEAN]
    /\ failures \in 0 .. MaxFailures

\* A handler is called with the state that is committed, whatever died or
\* failed before.
HandlerSeesCheckpoint ==
    \A p \in Processes : pc[p] = "loop" /\ alone[p] => mem[p] = file

\* What one iteration makes of a state.
Succeeds(state, previous) ==
    /\ previous.status \notin Terminal
    /\ state.request = previous.request
    /\ state.parent = previous
    /\ Len(state.history) = Len(previous.history) + 1
    /\ \A i \in DOMAIN previous.history : state.history[i] = previous.history[i]
    /\ previous.conclusion => state.conclusion

\* Unless another process was active in the meantime, the checkpoint changes
\* from one complete state to its successor, or to a fresh one that "init", or
\* no checkpoint at all, justifies: no committed step is lost or done again.
Justified(p, state) ==
    /\ Readable(state)
    /\ \/ op[p] = "init" /\ state = Fresh(state.request)
       \/ file = Absent /\ state = Fresh(state.request)
       \/ Readable(file) /\ Succeeds(state, file)

HistoryIsKept ==
    [][\E p \in Processes :
           pc[p] \in {"write", "replace"} /\ (alone[p] => Justified(p, file'))]_file

\* Committed work is not replayed, whoever else runs the episode: "a completed
\* step is persisted before another handler invocation" and a restart "resumes
\* at the next iteration", so no run or record puts a checkpoint without a
\* committed step in the place of one with it.
CommittedStepsAreKept ==
    [][/\ Readable(file) /\ Readable(file')
       /\ \A p \in Processes : op[p] # "init"
       => \A i \in DOMAIN file.history :
              /\ i \in DOMAIN file'.history
              /\ file'.history[i] = file.history[i]]_file

\* Every operation ends.
OperationEnds == \A p \in Processes : pc[p] # "idle" ~> pc[p] = "idle"
=============================================================================
