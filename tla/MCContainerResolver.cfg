\* Two callers that miss at the same time, and a cgroup id that is used again
\* within the life of an entry of nonContainer.  No symmetry: one property is
\* about liveness.
CONSTANTS
    Callers = {a, b}
    Cgroups = {g1, g2}
    Containers = {c1}
    NotContainer = NotContainer
    updateInterval = 2
    updateIntervalOnError = 1
    Expiry = 3
    MaxTime = 2
    MaxChanges = 1
SPECIFICATION FairSpec
INVARIANT KnownAnswered
PROPERTY WalksSpaced
 
PROPERTY EveryCallReturns
