SPECIFICATION Spec
CONSTANTS
  Arrivals <- OneArrival
  Packs <- TwoPacks
  Cooldown = 1
  MaxClock = 4
INVARIANT VerdictAgrees
PROPERTY VerdictOutlivesCooldown
