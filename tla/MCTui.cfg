\* Three records fit in a list and four arrive, so that lists overflow; the
\* windows are smaller than a full list, with and without a scroll margin.
CONSTANTS
    NoKey = NoKey
    k1 = k1
    k2 = k2
    k3 = k3
    ListLength = 6
    Endpoints <- MCEndpoints
    tabOrder <- MCTabOrder
    Keys = {k1}
    Times = {1, 2}
    maxEventsPerTab = 3
    listScrollOff = 1
    Heights = {1, 2}
    MaxRecords = 4
    MaxBatch = 2

SPECIFICATION Spec

INVARIANT ListsAgree
INVARIANT ScreenTrue
INVARIANT PairsAreLinks
PROPERTY SelectionSticky

\* A program that has quit stays so.
CHECK_DEADLOCK FALSE
