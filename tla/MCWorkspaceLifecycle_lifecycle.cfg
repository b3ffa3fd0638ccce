SPECIFICATION Spec
CONSTANTS
    w1 = w1
    w2 = w2
    c1 = c1
    c2 = c2
    alice = alice
    Workspaces <- OneWorkspace
    Owner <- AliceOwns
    Dependency = {}
    Clients <- TwoClients
    Reaper = Reaper
    Boot = Boot
    Requests = {"open", "recover", "renew", "export", "exec", "async", "close", "closeFenced"}
    Events = {"stop", "wall", "crash", "network", "size"}
    MaxLimit = 1
    MaxGen = 3
    MaxLocks = 2
SYMMETRY ClientSymmetry
INVARIANT LeaseSound
INVARIANT CreatingHasOpener
INVARIANT NothingLeftBehind
CHECK_DEADLOCK FALSE
