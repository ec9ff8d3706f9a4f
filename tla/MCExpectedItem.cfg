CONSTANTS
    a = a
    b = b
    Threads <- MCThreads
    Running <- MCThreads
    Nodes <- MCNodes
    Dummy = "dummy"
    End = "end"
    Null = "null"
    MaxPushes = 3
    MaxPops = 2

SPECIFICATION JobSpec

INVARIANT ExpectedItem

CHECK_DEADLOCK FALSE
