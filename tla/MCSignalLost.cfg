SPECIFICATION FairSpec
CONSTANTS
    k1 = k1
    Nobody = Nobody
    Kqs = {k1}
    Sigs = {1}
    Adds = {{}}
    Rooms = {1}
    MaxWoken = 1
    MaxCount = 2
PROPERTY
    SignalDelivered
