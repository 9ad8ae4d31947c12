SPECIFICATION Spec
CONSTANTS
    MaxChanges = 3
    MaxEvents = 3
INVARIANT ReceiptsReturned
CHECK_DEADLOCK FALSE
