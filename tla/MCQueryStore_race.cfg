\* One list, queried, refreshed and reset at once.
SPECIFICATION FairSpec
CONSTANTS
    k1 = k1
    k2 = k2
    Key = {k1}
    Pages = 3
    MaxHeight = 2
    MaxCalls = 2
    MaxInFlight = 3
    MaxListeners = 2
INVARIANTS
    PagesInOrder
    SubscribedCached
    SubscribedFresh
PROPERTIES
    OnlyCallersSubscribe
    QueriesEnd
CHECK_DEADLOCK FALSE
