SPECIFICATION FairSpec
CONSTANTS
    Audits = {audit}
    FollowUps = {demand}
    Terminal = {demand}
    Files = {manifest, table, summary}
    Existing = {manifest, table}
    ClassifiesJournalless = TRUE
    Handled = {audit}
    MaxCrashes = 3
    MaxFaults = 0
INVARIANTS
    TypeOK
    LedgeredOutputsOnDisk
    FailureRollsBack
    TornIsRepairable
PROPERTIES
    PublicationIsCommitted
    CommitIsCompleted
