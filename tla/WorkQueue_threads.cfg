\* Three threads, four inputs, any of which may make the worker throw.
SPECIFICATION FairSpec
CONSTANTS
    Inputs = 4
    ThreadCount = 3
INVARIANTS
    EachInputOnce
    NothingLost
    ReturnedIsFinal
PROPERTIES
    Returns
CHECK_DEADLOCK FALSE
