\* One A-GNSS request after another and one for a position, one pool thread, three SUPL
\* servers, sizes below and above a chunk, a time to live of one tick, crashes.
SPECIFICATION FairSpec
CONSTANTS
    Callers = {r1}
    Servers = 3
    Enough = 2
    Allowed <- Both
    Ttl = 1
    Chunk = 2
    Sizes = {1, 3}
    MaxTime = 3
    Nothing = Nothing
    Locators = {c1}
    Order <- Auto
    Configured <- TwoKeys
    Workers = 1
INVARIANTS TypeOK OneServersData SocketsClosed CachedIsFresh FulfilledIsWhole
           UnavailableMeansAllFailed AllProvidersFailed
PROPERTY RequestsEnd
CHECK_DEADLOCK FALSE
