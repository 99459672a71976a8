-------------------------- MODULE OutputDirectory ---------------------------
(***************************************************************************)
(* transactional_output_directory: a result is built in a staging          *)
(* directory beside its target and renamed onto the target when it is      *)
(* complete; what the target held is first renamed to a backup, which is   *)
(* removed at the end or renamed back when something raises.  Analyses,    *)
(* importers and action executors all write their results through it.      *)
(*                                                                         *)
(* A directory is abstracted to what it holds: nothing, somebody else's    *)
(* files, a result being built, a tree half removed, or a complete result, *)
(* named by the client that built it or "prior" for the one found at start.*)
(* Removing a tree takes time: it is half removed before it is gone.       *)
(* Somebody else may put files where the result is to go at any time.      *)
(***************************************************************************)
EXTENDS Naturals

CONSTANTS
    Clients,     \* processes that write to the same target
    Overwrite,   \* those of them that pass overwrite=True
    Marked,      \* those that pass recognized_markers
    MaxMishaps   \* bound: deaths, renames and removals that raise, arrivals

Whole == Clients \cup {"prior"}

Unrecognized == {"foreign", "unfinished", "damaged"}

ASSUME OutputAssumption ==
    /\ Overwrite \subseteq Clients /\ Marked \subseteq Clients
    /\ MaxMishaps \in Nat
    /\ Clients \cap (Unrecognized \cup {"absent", "empty", "prior"}) = {}

VARIABLES
    final,    \* the target
    backup,   \* .<name>.mda-backup beside it
    staging,  \* .<name>.mda-staging-XXXXXXXX of each client
    pc,
    moved,    \* previous_moved: the client has renamed the target to backup
    found,    \* history: target and backup when the client last began
    overlap,  \* history: whether two clients have been at work at once
    crashes,  \* clients that died
    faults,   \* renames that raised for reasons outside the model
    stuck,    \* removals that raised
    arrivals  \* arrivals of somebody else's files

dirs == <<final, backup, staging>>
counters == <<crashes, faults, stuck, arrivals>>
past == <<found, overlap>>
vars == <<dirs, pc, moved, past, counters>>

Held == {"absent", "empty"} \cup Unrecognized \cup Whole

TypeOK ==
    /\ final \in Held /\ backup \in Held
    /\ staging \in [Clients -> {"absent", "unfinished", "damaged"} \cup Clients]
    /\ pc \in [Clients -> {"idle", "check", "mkdtemp", "checkBackup", "body",
                           "lookFinal", "moveFinal", "promote", "undo",
                           "putBack", "dropBackup", "dropStaging"}]
    /\ moved \in [Clients -> BOOLEAN]
    /\ found \in [Clients -> [final : Held, backup : Held]]
    /\ overlap \in BOOLEAN
    /\ {crashes, faults, stuck, arrivals} \subseteq 0 .. MaxMishaps

Init ==
    /\ final \in {"absent", "empty", "foreign", "prior"}
    /\ backup = "absent"
    /\ staging = [c \in Clients |-> "absent"]
    /\ pc = [c \in Clients |-> "idle"]
    /\ moved = [c \in Clients |-> FALSE]
    /\ found = [c \in Clients |-> [final |-> final, backup |-> backup]]
    /\ overlap = FALSE
    /\ crashes = 0 /\ faults = 0 /\ stuck = 0 /\ arrivals = 0

-----------------------------------------------------------------------------
Goto(c, from, to) == pc[c] = from /\ pc' = [pc EXCEPT ![c] = to]

MishapPossible == crashes + faults + stuck + arrivals < MaxMishaps

Exists(d) == d # "absent"
Nonempty(d) == d \notin {"absent", "empty"}

\* os.replace of a directory: the destination may be absent or empty.
Replaceable(d) == ~Nonempty(d)

\* Mutant of Removed: the contents go, the directory stays.
RemovedContents(d) == IF d \in {"empty", "damaged"} THEN "empty" ELSE "damaged"

\* A step of _remove_tree; a tree that is not there is removed.
Removed(d) ==
    IF d \in {"absent", "empty", "damaged"} THEN "absent" ELSE "damaged"

\* A client with an earlier staging directory gets a new one from mkdtemp: the
\* leaked one is nobody's any more.
Begin(c) ==
    /\ Goto(c, "idle", "check")
    /\ staging' = [staging EXCEPT ![c] = "absent"]
    /\ moved' = [moved EXCEPT ![c] = FALSE]
    /\ overlap' = (overlap \/ \E d \in Clients : pc[d] # "idle")
    /\ found' = [found EXCEPT ![c] = [final |-> final, backup |-> backup]]
    /\ UNCHANGED <<final, backup, counters>>

\* A non-empty target needs overwrite=True and, if the caller names markers,
\* one of them.  A half-removed tree may still have its marker, or not.
Check(c) ==
    /\ Nonempty(final) =>
           /\ c \in Overwrite
           /\ c \in Marked => final \in Whole \cup {"damaged"}
    /\ Goto(c, "check", "mkdtemp")
    /\ UNCHANGED <<dirs, moved, past, counters>>

Refuse(c) ==
    /\ Nonempty(final)
    /\ c \notin Overwrite \/ (c \in Marked /\ final \in Unrecognized)
    /\ Goto(c, "check", "idle")
    /\ UNCHANGED <<dirs, moved, past, counters>>

MakeStaging(c) ==
    /\ Goto(c, "mkdtemp", "checkBackup")
    /\ staging' = [staging EXCEPT ![c] = "unfinished"]
    /\ UNCHANGED <<final, backup, moved, past, counters>>

\* Mutant of CheckBackup: a backup that is there is not looked for.
CheckNoBackup(c) ==
    /\ Goto(c, "checkBackup", "body")
    /\ UNCHANGED <<dirs, moved, past, counters>>

CheckBackup(c) ==
    /\ ~Exists(backup)
    /\ Goto(c, "checkBackup", "body")
    /\ UNCHANGED <<dirs, moved, past, counters>>

\* "stale output backup exists and requires review": raised outside the try,
\* so the staging directory stays.
RefuseStaleBackup(c) ==
    /\ Exists(backup)
    /\ Goto(c, "checkBackup", "idle")
    /\ UNCHANGED <<dirs, moved, past, counters>>

\* The caller's with-body.
BodyCompletes(c) ==
    /\ Goto(c, "body", "lookFinal")
    /\ staging' = [staging EXCEPT ![c] = c]
    /\ UNCHANGED <<final, backup, moved, past, counters>>

\* Mutants of BodyRaises: the inner handler covers the body as well; the
\* exception is swallowed.
BodyRaisesInside(c) ==
    /\ Goto(c, "body", "undo")
    /\ UNCHANGED <<dirs, moved, past, counters>>

BodySwallowed(c) ==
    /\ Goto(c, "body", "lookFinal")
    /\ UNCHANGED <<dirs, moved, past, counters>>

BodyRaises(c) ==
    /\ Goto(c, "body", "dropStaging")
    /\ UNCHANGED <<dirs, moved, past, counters>>

LookFinal(c) ==
    /\ Goto(c, "lookFinal", IF Exists(final) THEN "moveFinal" ELSE "promote")
    /\ UNCHANGED <<dirs, moved, past, counters>>

CanMove == Exists(final) /\ Replaceable(backup)

\* Mutant of MoveFinal: the target is removed, not renamed.
RemoveFinal(c) ==
    /\ CanMove
    /\ Goto(c, "moveFinal", "promote")
    /\ final' = "absent"
    /\ UNCHANGED <<backup, staging, moved, past, counters>>

MoveFinal(c) ==
    /\ CanMove
    /\ Goto(c, "moveFinal", "promote")
    /\ backup' = final
    /\ final' = "absent"
    /\ moved' = [moved EXCEPT ![c] = TRUE]
    /\ UNCHANGED <<staging, past, counters>>

Promote(c) ==
    /\ Replaceable(final)
    /\ Goto(c, "promote", "dropBackup")
    /\ final' = staging[c]
    /\ staging' = [staging EXCEPT ![c] = "absent"]
    /\ UNCHANGED <<backup, moved, past, counters>>

\* A rename that cannot be done: the inner except clause takes over.
RenameRaises(c) ==
    /\ \/ ~CanMove /\ Goto(c, "moveFinal", "undo")
       \/ ~Replaceable(final) /\ Goto(c, "promote", "undo")
    /\ UNCHANGED <<dirs, moved, past, counters>>

\* The operating system refuses a rename: a file in use, a mount point, ...
RenameFault(c) ==
    /\ MishapPossible
    /\ \/ Goto(c, "moveFinal", "undo") \/ Goto(c, "promote", "undo")
       \/ Goto(c, "putBack", "dropStaging")
    /\ faults' = faults + 1
    /\ UNCHANGED <<dirs, moved, past, crashes, stuck, arrivals>>

\* A step of removing tree d on the way from one stage to the next.
StepOn(c, from, d, to) ==
    Goto(c, from, IF Removed(d) = "absent" THEN to ELSE from)

AfterUndo(c) == IF moved[c] /\ Exists(backup) THEN "putBack" ELSE "dropStaging"

\* Inner except: the target, whatever it is now, is removed, ...
UndoFinal(c) ==
    /\ Exists(final)
    /\ StepOn(c, "undo", final, AfterUndo(c))
    /\ final' = Removed(final)
    /\ UNCHANGED <<backup, staging, moved, past, counters>>

NothingToUndo(c) ==
    /\ ~Exists(final)
    /\ Goto(c, "undo", AfterUndo(c))
    /\ UNCHANGED <<dirs, moved, past, counters>>

\* ... and the backup of this client, if it made one, is renamed back.
PutBack(c) ==
    /\ Goto(c, "putBack", "dropStaging")
    /\ IF Exists(backup) /\ Replaceable(final)
       THEN final' = backup /\ backup' = "absent"
       ELSE UNCHANGED <<final, backup>>
    /\ UNCHANGED <<staging, moved, past, counters>>

\* The result is in place; the backup goes, whoever made it.
DropBackup(c) ==
    /\ Exists(backup)
    /\ StepOn(c, "dropBackup", backup, "idle")
    /\ backup' = Removed(backup)
    /\ UNCHANGED <<final, staging, moved, past, counters>>

\* Mutant of NoBackup: the backup is left where it is.
LeaveBackup(c) ==
    /\ Goto(c, "dropBackup", "idle")
    /\ UNCHANGED <<dirs, moved, past, counters>>

NoBackup(c) ==
    /\ ~Exists(backup)
    /\ Goto(c, "dropBackup", "idle")
    /\ UNCHANGED <<dirs, moved, past, counters>>

\* Outer except: the staging directory goes and the exception is raised.
DropStaging(c) ==
    /\ StepOn(c, "dropStaging", staging[c], "idle")
    /\ staging' = [staging EXCEPT ![c] = Removed(@)]
    /\ UNCHANGED <<final, backup, moved, past, counters>>

\* shutil.rmtree raises, before or after it has removed something: in a
\* handler, or when the result is in place and the backup should go.
RemovalRaises(c) ==
    /\ MishapPossible
    /\ \/ Goto(c, "undo", "dropStaging") \/ Goto(c, "dropBackup", "dropStaging")
       \/ Goto(c, "dropStaging", "idle")
    /\ stuck' = stuck + 1
    /\ UNCHANGED <<dirs, moved, past, crashes, faults, arrivals>>

Crash(c) ==
    /\ pc[c] # "idle"
    /\ MishapPossible
    /\ crashes' = crashes + 1
    /\ pc' = [pc EXCEPT ![c] = "idle"]
    /\ UNCHANGED <<dirs, moved, past, faults, stuck, arrivals>>

\* Somebody else creates the target, or files in it.
Arrive ==
    /\ ~Nonempty(final)
    /\ MishapPossible
    /\ final' = "foreign"
    /\ arrivals' = arrivals + 1
    /\ UNCHANGED <<backup, staging, pc, moved, past, crashes, faults, stuck>>

Work(c) ==
    \/ Begin(c) \/ Check(c) \/ Refuse(c) \/ MakeStaging(c)
    \/ CheckBackup(c) \/ RefuseStaleBackup(c)
    \/ BodyCompletes(c) \/ BodyRaises(c)
    \/ LookFinal(c) \/ MoveFinal(c) \/ Promote(c)
    \/ RenameRaises(c) \/ RenameFault(c)
    \/ UndoFinal(c) \/ NothingToUndo(c) \/ PutBack(c)
    \/ DropBackup(c) \/ NoBackup(c) \/ DropStaging(c)
    \/ RemovalRaises(c) \/ Crash(c)

Next == Arrive \/ \E c \in Clients : Work(c)

Spec == Init /\ [][Next]_vars

-----------------------------------------------------------------------------
(***************************************************************************)
(* Safety.                                                                 *)
(***************************************************************************)
Raises(c) == pc[c] = "dropStaging" /\ pc'[c] = "idle"
Returns(c) == pc[c] = "dropBackup" /\ pc'[c] = "idle"

\* So far the clients came one after the other, and no rename was refused.
Undisturbed == ~overlap /\ faults = 0

\* A complete run, once there, is there at every moment, under its own name or
\* as the backup: neither a body that raises nor a crash between the renames
\* costs the prior run before its replacement is in place.
CompleteRunKept ==
    [][Undisturbed' /\ {final, backup} \cap Whole # {} =>
           {final', backup'} \cap Whole # {}]_vars

\* The complete run a client found is in the target, or in the backup if
\* something else came into its place, unless its complete replacement is in
\* the target.
Preserved(c) ==
    Raises(c) /\ crashes' = crashes /\ found[c].final \in Whole =>
        found[c].final \in {final', backup'} \/ final' = c

\* "On any exception, ... the prior valid target is preserved."  Refuted: when
\* the rename to the backup is refused, the handler removes the target.
PriorTargetPreserved == [][\A c \in Clients : Preserved(c)]_vars

\* On any other exception of clients that do not overlap it is: of the body, of
\* a rename something is in the way of, of a removal.
PriorTargetKept == [][Undisturbed' => \A c \in Clients : Preserved(c)]_vars

\* A client that returns has its result in the target, and nothing is left of
\* what it replaced.
ReturnIsPublished ==
    [][\A c \in Clients :
           Undisturbed' /\ Returns(c) /\ crashes' = crashes =>
               final' = c /\ backup' = "absent"]_vars

\* Files that no run of this program wrote are lost only to a client that began
\* before they came, or that overwrites without asking for a marker: what an
\* earlier client moved out of the way and left in the backup is never lost.
OnlyLateArrivalsLost ==
    [][Undisturbed' /\ "foreign" \in {final, backup} \ {final', backup'} =>
           \E c \in Clients :
               /\ pc[c] # "idle"
               /\ found[c].backup # "foreign"
               /\ found[c].final = "foreign" => c \in Overwrite \ Marked]_vars

\* Neither target nor backup ever holds a result whose body has not completed,
\* however many clients are at work.
NoUnfinishedResult == final # "unfinished" /\ backup # "unfinished"
=============================================================================
