SPECIFICATION Spec
CONSTANTS MinReplicas = 1  MaxReplicas = 2  MaxSurge = 1  MaxUnavailable = 1  MaxGen = 2  MaxPolls = 1
INVARIANTS TypeOK SettledIsRolledOut
PROPERTY OpensOnceNewPodsExist
