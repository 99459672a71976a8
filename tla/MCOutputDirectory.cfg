SPECIFICATION Spec
CONSTANTS
    Clients = {c1, c2}
    Overwrite = {c1, c2}
    Marked = {c1}
    MaxMishaps = 2
INVARIANTS
    TypeOK
    NoUnfinishedResult
PROPERTIES
    CompleteRunKept
    PriorTargetKept
    ReturnIsPublished
    OnlyLateArrivalsLost
