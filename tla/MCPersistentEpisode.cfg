SPECIFICATION FairSpec
CONSTANTS
    Processes = {p1, p2}
    Requests <- MCRequests
    Steps <- MCSteps
    MaxFailures = 1
INVARIANTS
    TypeOK
    HandlerSeesCheckpoint
PROPERTIES
    HistoryIsKept
    OperationEnds
