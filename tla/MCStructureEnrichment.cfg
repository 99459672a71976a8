SPECIFICATION Spec
CONSTANTS
    Ids = {1, 2, 3}
    NoId = 0
    Foreign = 9
    Plans <- MCPlans
    Answers <- MCAnswers
INVARIANTS
    TypeOK
    ReportIsOnDisk
PROPERTIES
    ResumeKeepsProgress
