SPECIFICATION Spec
CONSTANTS
    w1 = w1
    w2 = w2
    c1 = c1
    c2 = c2
    alice = alice
    Workspaces <- TwoWorkspaces
    Owner <- AliceOwns
    Dependency = {w1}
    Clients <- TwoClients
    Reaper = Reaper
    Boot = Boot
    Requests = {"open", "recover", "exec", "quota"}
    Events = {"clone", "files", "firewall", "docker", "crash"}
    MaxLimit = 2
    MaxGen = 3
    MaxLocks = 2
SYMMETRY ClientSymmetry
CONSTRAINT QuotaApart
INVARIANT RecoverableKeepsData
PROPERTY QuarantineRebuilds
INVARIANT TypeOK
PROPERTY QuotaRespected
PROPERTY AutoCloseKeepsWork
CHECK_DEADLOCK FALSE
