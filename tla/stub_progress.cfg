SPECIFICATION FairSpec
CONSTANTS
  Arrivals <- OneArrival
  Packs <- OnePack
  Workers <- BothWorkers
  RealDispatch = FALSE
  ForensicsOn = FALSE
  Cooldown = 1
  MaxClock = 2
  MaxLag = 0
  MaxLost = 1
  MaxErrors = 0
  MaxRestarts = 1
  MaxUpserts = 1
PROPERTIES TestingSettles SkippedRecovers
