SPECIFICATION Spec
CONSTANTS
    Threads = {t1, t2}
    Adds = {{}, {"EV_DISABLE"}}
    Rooms = {2}
SYMMETRY Symmetry
INVARIANT
    RegisteredUdataLive
