SPECIFICATION Spec
CONSTANTS
    Requests = {ra, rb}
    Creators = {ra}
    MaxSessions = 2
    MaxFaults = 1
INVARIANT TypeOK
INVARIANT DeleteLeavesNothing
INVARIANT CreatedIsListed
PROPERTY TokenRetires
PROPERTY StaleListEnds
CHECK_DEADLOCK FALSE
