SPECIFICATION FairSpec
CONSTANTS
    Audits = {}
    FollowUps = {simulation}
    Terminal = {}
    Files = {}
    Existing = {}
    ClassifiesJournalless = FALSE
    Handled = {}
    MaxCrashes = 1
    MaxFaults = 0
PROPERTIES
    CommitIsCompleted
