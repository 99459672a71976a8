----------------------------- MODULE RunRecord ------------------------------
(***************************************************************************)
(* What the research-loop kernel promises its callers, without locks,      *)
(* files or crashes between files: one record that only grows, by one      *)
(* admissible request at a time, and answers that are the record as it is  *)
(* at the moment of the answer.  An accepted request is seen by nobody     *)
(* until its author is answered; if the author is lost first, the record   *)
(* is closed for good (fail-closed), and so is every later answer.         *)
(***************************************************************************)
EXTENDS Sequences

CONSTANTS
    Clients, Free, Lost,
    Requests,         \* what a client may ask to append: sequences of events
    Admissible(_, _), \* whether a record accepts a request
    First             \* the record of a new run

VARIABLES
    log,     \* the events accepted so far
    told,    \* the record each client was last answered with
    author   \* who wrote the last event and is not answered yet, Free or Lost

recordVars == <<log, told, author>>

RecordInit ==
    /\ log = First
    /\ told = [c \in Clients |-> <<>>]
    /\ author = Free

Accept(c, r) ==
    /\ author = Free
    /\ Admissible(log, r)
    /\ log' = log \o r
    /\ author' = c
    /\ UNCHANGED told

Answer(c) ==
    /\ author \in {Free, c}
    /\ told' = [told EXCEPT ![c] = log]
    /\ author' = Free
    /\ UNCHANGED log

Lose(c) ==
    /\ author = c
    /\ author' = Lost
    /\ UNCHANGED <<log, told>>

RecordNext ==
    \E c \in Clients :
        \/ \E r \in Requests : Accept(c, r)
        \/ Answer(c)
        \/ Lose(c)

RecordSpec == RecordInit /\ [][RecordNext]_recordVars
=============================================================================
