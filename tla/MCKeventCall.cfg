SPECIFICATION Spec
CONSTANTS
    MaxChanges = 3
    MaxEvents = 3
INVARIANTS
    TypeOK
    EntriesInOrder
    ReturnMeansProcessed
CHECK_DEADLOCK FALSE
