SPECIFICATION FairSpec
CONSTANTS MaxPolls = 2  MaxErrors = 1  MaxDeaths = 1
INVARIANTS TypeOK SuitesNotOrphaned
PROPERTIES KeepsContract VerdictsAreFresh StallFailsNothing CallReturns
CHECK_DEADLOCK FALSE
