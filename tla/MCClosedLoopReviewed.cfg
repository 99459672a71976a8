SPECIFICATION Spec
CONSTANTS
    NodeIds = {"T", "A", "B", "C", "r1", "r2", "x"}
    Requests = {"r1"}
    Type <- MCType
    Types = {"audit"}
    Refusals = {"stopped_current_scope"}
    Queues <- OneQueue
    Target = "T"
    Targets <- MCTargets
    Workstream = "here"
    Reviewed = {"x"}
    ReviewedAs <- VerifiedFalsification
    InitialGraphs <- PlainGraph
    Gate <- GateOutcome
    MaxCycles = 2
    MaxInterrupts = 0
    MaxEdits = 0
INVARIANTS
    FalsificationStopsLoop
