SPECIFICATION Spec
CONSTANTS
    Workers <- One
    MaxVersions = 2
    JobName <- CutName
    MaxPolls = 1
    MaxVerdicts = 2
    MaxErrors = 0
INVARIANTS NotedJobIsOwn
CHECK_DEADLOCK FALSE
