CONSTANTS
    a = a
    b = b
    Threads <- MCThreads
    Running <- MCRunning
    Nodes <- MCNodes
    Dummy = "dummy"
    End = "end"
    Null = "null"
    MaxPushes = 3
    MaxPops = 3

SPECIFICATION FairSpec

INVARIANTS
    NothingLost
    CompletedVisible
    EmptyHonest

PROPERTIES
    QueueSpec
    NobodyWaits

CHECK_DEADLOCK FALSE
