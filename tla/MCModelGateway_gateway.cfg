SPECIFICATION FairSpec
CONSTANTS
    l1 = l1
    l2 = l2
    r1 = r1
    r2 = r2
    Leases = {l1, l2}
    Requests = {r1, r2}
    Caps <- MCCaps
    Scale = 2
    InputPrice = 1
    OutputPrice = 3
    BodySizes = {1, 3}
    Wanted = {2}
    Reports <- MCReports
    MaxEntries = 2
INVARIANT BudgetBalances
INVARIANT FrozenIsQuiet
PROPERTY ImplementsAccount
PROPERTY RevokesAreAnswered
