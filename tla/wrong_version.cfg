SPECIFICATION Spec
CONSTANTS
    Versions <- Two
    Slug <- Distinct
    Values = {packs}
    Unset = Unset
    FullLabels = {FALSE}
    StartSizes = {1}
    Rollbacks = FALSE
    MaxSets = 2
    MaxErrors = 0
    MaxStarts = 0
INVARIANTS NamesItsOwn
CHECK_DEADLOCK FALSE
