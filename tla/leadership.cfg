SPECIFICATION FairSpec
CONSTANTS
    Replicas = {pod1, pod2}
    NoReplica = NoReplica
    LeaseDuration = 4
    RenewDeadline = 2
    RetryPeriod = 1
    MaxStall = 0
    Tolerance = 1
    MaxFailures = 3
INVARIANTS TypeOK SoleLeader OnlyHungRestart
PROPERTIES SomebodyObserves
