SPECIFICATION Spec
CONSTANTS
    Processes = {p1, p2}
    Requests <- MCRequests
    Steps <- MCSteps
    MaxFailures = 0
PROPERTIES
    CommittedStepsAreKept
