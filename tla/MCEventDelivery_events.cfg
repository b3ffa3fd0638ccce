SPECIFICATION Spec
CONSTANTS
    t1 = t1
    t2 = t2
    s1 = s1
    s2 = s2
    Sources = {t1, t2}
    Subs = {s1}
    Credentials = {TRUE, FALSE}
    Unsealable = {s1}
    Wants <- MCWants
    Delay <- OneRetry
    Lease = 1
    MaxAttempts = 2
    Window = 3
    BatchLimit = 1
    MaxActive = 1
    MaxLate = 1
SYMMETRY Symmetry
INVARIANT NoReplay
INVARIANT DeliveredIsReceived
INVARIANT RevokedIsQuiet
PROPERTY LeaseHonoured
PROPERTY PendingIsKept
