SPECIFICATION FairSpec
CONSTANTS
    Workers <- Both
    MaxVersions = 2
    JobName <- OwnName
    MaxPolls = 1
    MaxVerdicts = 3
    MaxErrors = 1
INVARIANTS TypeOK ForensicsFires ComparesBackwards
PROPERTIES CallsReturn
CHECK_DEADLOCK FALSE
