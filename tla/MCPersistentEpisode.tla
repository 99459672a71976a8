------------------------ MODULE MCPersistentEpisode ------------------------
(***************************************************************************)
(* Small instances of PersistentEpisode: two episodes of one file, steps   *)
(* that go on, block, conclude and ask for more than is left.              *)
(***************************************************************************)
EXTENDS PersistentEpisode

MCRequests == {[id |-> "e1", max |-> 2, budget |-> 3],
               [id |-> "e2", max |-> 1, budget |-> 0]}

Result(cost, status, conclusion) ==
    [cost |-> cost, status |-> status, conclusion |-> conclusion]

MCSteps == {Result(2, "active", FALSE), Result(1, "blocked", FALSE),
            Result(0, "concluded", TRUE)}
=============================================================================
