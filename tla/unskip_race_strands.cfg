SPECIFICATION FairSpec
CONSTANTS
  Arrivals <- OneArrival
  Packs <- OnePack
  Workers <- BothWorkers
  RealDispatch = TRUE
  ForensicsOn = FALSE
  Cooldown = 1
  MaxClock = 1
  MaxLag = 0
  MaxLost = 0
  MaxErrors = 0
  MaxRestarts = 0
  MaxUpserts = 1
PROPERTIES PendingSettles
