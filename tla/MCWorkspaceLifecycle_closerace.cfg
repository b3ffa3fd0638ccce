SPECIFICATION Spec
CONSTANTS
    w1 = w1
    w2 = w2
    c1 = c1
    c2 = c2
    alice = alice
    Workspaces <- OneWorkspace
    Owner <- AliceOwns
    Dependency = {}
    Clients <- TwoClients
    Reaper = Reaper
    Boot = Boot
    Requests = {"open", "exec", "close"}
    Events = {}
    MaxLimit = 1
    MaxGen = 2
    MaxLocks = 2
SYMMETRY ClientSymmetry
INVARIANT RecoverableKeepsData
CHECK_DEADLOCK FALSE
