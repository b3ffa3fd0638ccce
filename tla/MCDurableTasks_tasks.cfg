SPECIFICATION Spec
CONSTANTS
    MaxTasks = 3
    MaxStale = 1
    MapLimit = 2
    MaxFaults = 1
    MaxRestarts = 1
    MaxBadCloses = 1
    MaxExpiries = 1
CHECK_DEADLOCK FALSE
CONSTRAINT TwoTroubles
INVARIANT StoppedIsFinal
PROPERTY RunsAfterDependencies
PROPERTY NoExpiryUnderTask
INVARIANT NobodyForgotten
