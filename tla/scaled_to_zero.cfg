SPECIFICATION Spec
CONSTANTS MinReplicas = 0  MaxReplicas = 1  MaxSurge = 1  MaxUnavailable = 0  MaxGen = 2  MaxPolls = 1
INVARIANT SettledIsRolledOut
