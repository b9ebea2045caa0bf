\* Three lines of two cells, so that a chunk can end anywhere in a line and a
\* torn line has neighbours; a channel that is full with one message.
CONSTANTS
    LineCells = 2
    Capacity = 1
    MaxLines = 3
    MaxTorn = 1
    MaxTruncated = 1
    MaxFailures = 1
SPECIFICATION FairSpec
 
PROPERTY EventuallyShown
PROPERTY StreamEnds
\* The writer stops at its bound and the UI ends.
CHECK_DEADLOCK FALSE
