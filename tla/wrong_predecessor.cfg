SPECIFICATION Spec
CONSTANTS
    Workers <- One
    MaxVersions = 3
    JobName <- OwnName
    MaxPolls = 1
    MaxVerdicts = 3
    MaxErrors = 0
PROPERTIES ComparesWithPredecessor
CHECK_DEADLOCK FALSE
