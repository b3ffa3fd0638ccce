SPECIFICATION Spec
CONSTANTS
    a1 = a1  a2 = a2  t1 = t1  t2 = t2
    Agents <- TwoAgents
    None = None
    Tasks <- TwoTasks
    MaxGen = 2
    MaxFaults = 1
    MaxRestarts = 1
INVARIANT NothingOutlivesItsEnd
CHECK_DEADLOCK FALSE
SYMMETRY TaskSymmetry
INVARIANT ReconciledBeforeAdmission
PROPERTY ImplementsContract
INVARIANT NoWaitCycle
INVARIANT NobodyForgotten
