SPECIFICATION Spec
CONSTANTS
    a1 = a1
    a2 = a2
    b1 = b1
    w1 = w1
    l1 = l1
    l2 = l2
    Plans = {a1, a2, b1}
    Of <- MCOf
    Names <- MCNames
    Workspaces = {w1}
    Owner = Owner
    Launches = {l1}
    None = None
    HistoryDepth = 2
    MaxBindings = 2
    MaxReleases = 3
    BuildSlots = 1
    Reviewed = {b1}
    MaxGen = 3
    Unsteady = {b1}
    MaxTroubles = 1
CONSTRAINT ToolboxApart
INVARIANT MountedIsKept
INVARIANT NoCollision
PROPERTY ReplacesWhatWasReviewed
INVARIANT NothingForgotten
CHECK_DEADLOCK FALSE
