SPECIFICATION LiveSpec
CONSTANTS
    w1 = w1
    w2 = w2
    c1 = c1
    c2 = c2
    alice = alice
    Workspaces <- OneWorkspace
    Owner <- AliceOwns
    Dependency = {w1}
    Clients <- TwoClients
    Reaper = Reaper
    Boot = Boot
    Requests = {"open", "exec", "task", "close"}
    Events = {"overrun", "clone", "check", "firewall"}
    MaxLimit = 1
    MaxGen = 2
    MaxLocks = 2
PROPERTY OverrunIsTaken
PROPERTY DueIsSettled
PROPERTY DriftIsContained
CHECK_DEADLOCK FALSE
