SPECIFICATION Spec
CONSTANTS
    Threads = {t1, t2}
    Adds = {{"EV_CLEAR"}, {"EV_CLEAR", "EV_DISPATCH"}, {"EV_CLEAR", "EV_ONESHOT"}}
    Rooms = {2}
SYMMETRY Symmetry
INVARIANTS
    TypeOK
    SlotsHaveKnotes
    RegisteredUdataLive
    RegistrationExact
    NothingLost
