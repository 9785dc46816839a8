SPECIFICATION Spec
CONSTANTS
    Versions <- Two
    Slug <- Distinct
    Values = {packs}
    Unset = Unset
    FullLabels = {TRUE}
    StartSizes = {1}
    Rollbacks = FALSE
    MaxSets = 2
    MaxErrors = 0
    MaxStarts = 1
PROPERTIES DeployedAtAdvances
CHECK_DEADLOCK FALSE
