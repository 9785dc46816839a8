\* Each of OpensOnNewPodsOnly, OpensOnceDrained and OpensOnTargetVersion fails here.
SPECIFICATION Spec
CONSTANTS MinReplicas = 4  MaxReplicas = 4  MaxSurge = 1  MaxUnavailable = 1  MaxGen = 2  MaxPolls = 0
PROPERTY OpensOnNewPodsOnly
