SPECIFICATION FairSpec
CONSTANTS
  Arrivals <- OneArrival
  Packs <- OnePack
  Workers <- TickerOnly
  RealDispatch = TRUE
  ForensicsOn = FALSE
  Cooldown = 1
  MaxClock = 1
  MaxLag = 0
  MaxLost = 1
  MaxErrors = 0
  MaxRestarts = 0
  MaxUpserts = 0
PROPERTIES PendingAlwaysDecided
