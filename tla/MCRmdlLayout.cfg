SPECIFICATION Spec
\* The converters run once: the finished file has no next step.
CHECK_DEADLOCK FALSE
CONSTANTS
    Models <- MCModels
    BaseAddrs <- MCBaseAddrs
    SizeOf <- MCSizeOf
    StrLen <- MCStrLen
INVARIANTS
    StructsPlaced
    StringFieldsOwned
    Readable
