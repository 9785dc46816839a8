SPECIFICATION FairSpec
CONSTANTS
  Arrivals <- OneArrival
  Packs <- OnePack
  Workers <- TickerOnly
  RealDispatch = TRUE
  ForensicsOn = TRUE
  Cooldown = 1
  MaxClock = 1
  MaxLag = 0
  MaxLost = 0
  MaxErrors = 0
  MaxRestarts = 0
  MaxUpserts = 0
PROPERTIES VerdictGetsForensics
