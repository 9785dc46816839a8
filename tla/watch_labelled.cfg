SPECIFICATION Spec
CONSTANTS
    Versions <- Two
    Slug <- Distinct
    Values = {packs}
    Unset = Unset
    FullLabels = {TRUE}
    StartSizes = {0, 1}
    Rollbacks = TRUE
    MaxSets = 3
    MaxErrors = 1
    MaxStarts = 1
INVARIANTS TypeOK NamesItsOwn
PROPERTIES NoticedArrives
CHECK_DEADLOCK FALSE
