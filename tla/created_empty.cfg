SPECIFICATION FairSpec
CONSTANTS
    Versions <- Two
    Slug <- Distinct
    Values = {packs}
    Unset = Unset
    FullLabels = {TRUE}
    StartSizes = {0, 1}
    Rollbacks = FALSE
    MaxSets = 2
    MaxErrors = 0
    MaxStarts = 0
PROPERTIES ServingVersionArrives
CHECK_DEADLOCK FALSE
