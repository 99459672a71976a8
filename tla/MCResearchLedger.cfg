SPECIFICATION FairSpec
CONSTANTS
    Clients = {c1, c2}
    Nobody = Nobody
    Lost = Lost
    HypothesisIds = {h1}
    EvidenceIds = {}
    ActionIds = {a1, a2}
    NoId = NoId
    Costs = {1}
    MaxActions = 2
    MaxCost = 1
INVARIANTS
    TypeOK
    WithinBudget
    UniqueIds
    StopIsTerminal
    SnapshotTrailsLedger
PROPERTIES
    OperationEnds
    FailClosed
    AnswersAreCurrent
    RefinesRecord
