SPECIFICATION FairSpec
CONSTANTS
  Arrivals <- OneArrival
  Packs <- OnePack
  Workers <- BothWorkers
  RealDispatch = TRUE
  ForensicsOn = FALSE
  Cooldown = 1
  MaxClock = 1
  MaxLag = 1
  MaxLost = 1
  MaxErrors = 1
  MaxRestarts = 1
  MaxUpserts = 0
INVARIANTS EarnedInv PassedIsEarned FailedIsEarned SingleDispatcher
PROPERTIES PendingSettles TestingSettles
