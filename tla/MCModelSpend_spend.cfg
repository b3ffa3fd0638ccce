SPECIFICATION Spec
CONSTANTS
    l1 = l1
    c1 = c1
    c2 = c2
    Leases = {l1}
    Cleaners = {c1, c2}
    CostCap = 2
    Limit = 3
    MaxDay = 2
    MaxExcess = 1
    MaxBoots = 2
    MaxRestarts = 1
SYMMETRY Symmetry
CHECK_DEADLOCK FALSE
INVARIANT SpendIsCovered
PROPERTY BilledOnlyWhileOpen
