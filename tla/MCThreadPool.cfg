CONSTANTS
    NumThreads = 2
    NumPriorities = 2
    MaxHandles = 1
    OnlyPool = FALSE
    MaxJobs = 2
    Kinds <- MCKinds
    Calls <- AllCalls
    MaxCalls = 2

SPECIFICATION FairSpec

INVARIANTS
    ExpectedItem
    ExecutedOnce
    QuietWhenSuspended
    OneCallAtATime
    CountsSettle
    SerialInOrder
    FrameJobsDone

PROPERTIES
    JobsFinish
    CallsReturn

CHECK_DEADLOCK FALSE
