SPECIFICATION Spec
CONSTANTS
    Audits = {audit}
    FollowUps = {demand, simulation}
    Terminal = {demand}
    Files = {manifest, summary}
    Existing = {manifest}
    ClassifiesJournalless = TRUE
    Handled = {audit}
    MaxCrashes = 2
    MaxFaults = 1
INVARIANTS
    ChangesAreJournaled
PROPERTIES
    CleanupIsFinal
    RefinesProtocol
