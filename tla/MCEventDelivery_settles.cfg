SPECIFICATION FairSpec
CONSTANTS
    t1 = t1
    t2 = t2
    s1 = s1
    s2 = s2
    Sources = {t1}
    Subs = {s1, s2}
    Credentials = {TRUE}
    Unsealable = {}
    Wants <- MCWants
    Delay <- ShortRetry
    Lease = 1
    MaxAttempts = 2
    Window = 2
    BatchLimit = 1
    MaxActive = 2
    MaxLate = 0
PROPERTY EveryDeliverySettles
