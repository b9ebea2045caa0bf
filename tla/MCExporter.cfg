\* Three events, one of them without a record, fill a channel and a batch of two
\* and are still to be read.
CONSTANTS
    p = p
    q = q
    Endpoints = {p, q}
    Setups <- GatewayAndFile
    Unconvertible = {3}
    ExportChannelSize = 2
    maxBatchSize = 2
    maxGatewayRetryCount = 3
    MaxEvents = 3
    NoOne = NoOne
SPECIFICATION FairSpec
PROPERTY PromiseKept
PROPERTY LinesInPlace
PROPERTY ShutdownReturns
PROPERTY EventuallySettled
\* The program ends.
CHECK_DEADLOCK FALSE
