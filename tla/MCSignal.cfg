SPECIFICATION FairSpec
CONSTANTS
    k1 = k1
    k2 = k2
    Nobody = Nobody
    Kqs = {k1, k2}
    Sigs = {1}
    Adds = {{}, {"EV_DISABLE"}, {"EV_ONESHOT"}, {"EV_DISPATCH"}}
    Rooms = {0, 1}
    MaxWoken = 1
    MaxCount = 2
INVARIANTS
    TypeOK
    Served
    LinksExact
    CountedIsPending
    NoEarlySignal
PROPERTY
    DestroyReturns
