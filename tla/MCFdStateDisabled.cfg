SPECIFICATION Spec
CONSTANTS
    Threads = {t1, t2}
    Adds = {{}, {"EV_DISPATCH"}}
    Rooms = {2}
PROPERTY
    DisabledNotDelivered
