CONSTANTS
    NumThreads = 2
    NumPriorities = 2
    MaxHandles = 1
    OnlyPool = FALSE
    MaxJobs = 2
    Kinds <- MCKinds
    Calls <- PriorityCalls
    MaxCalls = 1

SPECIFICATION Spec

INVARIANT SerialStrict

CHECK_DEADLOCK FALSE
