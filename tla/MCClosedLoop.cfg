SPECIFICATION FairSpec
CONSTANTS
    NodeIds = {"T", "A", "B", "C", "r1", "r2", "x"}
    Requests = {"r1", "r2"}
    Type <- MCType
    Types = {"audit", "study"}
    Refusals = {"stopped_current_scope", "authorization_denied"}
    Queues <- TwoQueues
    Target = "T"
    Targets <- MCTargets
    Workstream = "here"
    Reviewed = {"x"}
    ReviewedAs <- VerifiedFalsification
    InitialGraphs <- MixedGraphs
    Gate <- GateOutcome
    MaxCycles = 2
    MaxInterrupts = 1
    MaxEdits = 1
INVARIANTS
    TypeOK
    ActsOnGatedGraph
    ExecutedOnce
    LineageIsLedgered
    GateIsBounded
    ReturnAccountsForActions
    NoProgressIsRecovery
PROPERTIES
    RefinesHistory
    LoopEnds
