SPECIFICATION Spec
CONSTANTS
    r1 = r1
    Requests <- OneRequest
    Kinds <- AllKinds
    None = None
    MaxRuns = 3
    MaxFaults = 2
    MaxOthers = 2
    MaxCrashes = 2
INVARIANT AnswersAreTrue
INVARIANT NoWorkAfterTheEnd
INVARIANT MutationOnce
INVARIANT ToldIsRecorded
CHECK_DEADLOCK FALSE
