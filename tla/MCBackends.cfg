SPECIFICATION Spec
CONSTANTS
    Threads = {t1, t2}
    NoThread = NoThread
    Knotes = {a1, a2}
    Nil = Nil
    Kqueues = {a1, a2}
    Pids = {t1, t2}
    None = None
    Adds = {{}, {"EV_CLEAR"}, {"EV_DISPATCH"}, {"EV_ONESHOT"}}
    MaxRoom = 2
    MaxCount = 2
    MaxPackets = 3
    MaxCalls = 4
    MaxEvents = 3
    MaxOpens = 2
    MaxFaults = 1
SYMMETRY Symmetry
CHECK_DEADLOCK FALSE
INVARIANTS
    TypeOK
    
    OwnershipExact
    RegistrationExact
    
    DeliveredOnce
    
    
    CopyoutSucceeds
PROPERTY DisabledSilent
