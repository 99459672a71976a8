--------------------------- MODULE ActionProtocol ---------------------------
(***************************************************************************)
(* What an authorized action promises, without files, locks, phases or     *)
(* crashes: its report is published once, under an open transaction; the   *)
(* ledger gets the status of that report, once and for good; and the       *)
(* transaction is closed only after that.  Of another process's invocation *)
(* an observer that waits for the lock sees one step.                      *)
(***************************************************************************)
CONSTANT Actions

VARIABLES
    open,     \* status of the published report while its transaction is open
    recorded  \* status of the action in the ledger

protocolVars == <<open, recorded>>

Outcomes == {"completed", "failed"}

ProtocolInit ==
    /\ open = [a \in Actions |-> "none"]
    /\ recorded = [a \in Actions |-> "none"]

Publish(a, s) ==
    /\ open[a] = "none" /\ recorded[a] = "none"
    /\ open' = [open EXCEPT ![a] = s]
    /\ UNCHANGED recorded

Commit(a) ==
    /\ open[a] # "none" /\ recorded[a] = "none"
    /\ recorded' = [recorded EXCEPT ![a] = open[a]]
    /\ UNCHANGED open

Close(a) ==
    /\ open[a] # "none" /\ recorded[a] = open[a]
    /\ open' = [open EXCEPT ![a] = "none"]
    /\ UNCHANGED recorded

\* Publish, Commit and Close of an invocation nobody watches.
Execute(a, s) ==
    /\ open[a] = "none" /\ recorded[a] = "none"
    /\ recorded' = [recorded EXCEPT ![a] = s]
    /\ UNCHANGED open

\* Commit and Close of a recovery nobody watches.
Settle(a) ==
    /\ open[a] # "none" /\ recorded[a] = "none"
    /\ recorded' = [recorded EXCEPT ![a] = open[a]]
    /\ open' = [open EXCEPT ![a] = "none"]

ProtocolNext ==
    \E a \in Actions :
        \/ \E s \in Outcomes : Publish(a, s) \/ Execute(a, s)
        \/ Commit(a) \/ Close(a) \/ Settle(a)

ProtocolSpec == ProtocolInit /\ [][ProtocolNext]_protocolVars
=============================================================================
