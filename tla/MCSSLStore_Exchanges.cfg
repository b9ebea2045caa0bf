\* HTTP/1 and Postgres on c1 and c2, at a pace of a buffer per tick; HTTP/2 on
\* c3, at any pace.
CONSTANTS
    c1 = c1
    c2 = c2
    c3 = c3
    Keys = {c1, c2, c3}
    NoKey = NoKey
    NoRecord = NoRecord
    StreamIDs = {0, 1, 3, 5}
    Scripts <- Exchanges
    Paced = {c1, c2}
SPECIFICATION FairSpec
INVARIANT SessionsIndexed
INVARIANT RequestKeysDistinct
INVARIANT ResponsePaired
INVARIANT KeyIsolation
INVARIANT EmittedInOrder
PROPERTY EventuallyDrained
