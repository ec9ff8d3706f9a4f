SPECIFICATION Spec
CHECK_DEADLOCK FALSE
CONSTANTS
    empty = empty
    a = a
    bcd = bcd
    Strings <- MCStrings
    Empty <- empty
    StrLen <- MCStrLen
    Fields <- MCFields
    Base <- MCBase
    PoolStart = 40
    MaxEntries = 4
INVARIANTS
    AllResolved
    IInv

PROPERTIES
    PoolRefined
