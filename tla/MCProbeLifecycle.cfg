CONSTANTS
    Paths = {"host", "container", "other"}
    KeyOf <- MCKeyOf
    Found <- MCFound
    InitialKeys = {{2}}
    CHANNEL_SIZE = 1
    MaxRecords = 2
SPECIFICATION FairSpec
INVARIANT PanicsOnlyLate
INVARIANT AttachedOnce
PROPERTY EventuallyAttached
\* The program ends.
CHECK_DEADLOCK FALSE
