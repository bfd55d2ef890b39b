CONSTANTS
    Workers = {wa, wb}
    Conns = {c1}
    Admin = Admin
    None = None
    Droppable = {c1}
    Beating = {wa, wb}
    Crashable = {wa}
    Stoppable = {wa}
    Deletable = TRUE
    LateBeats = TRUE
    MaxFaults = 1
SPECIFICATION Spec
INVARIANTS ShutdownAdmitsNoBot NoZombieEntry
CHECK_DEADLOCK FALSE
