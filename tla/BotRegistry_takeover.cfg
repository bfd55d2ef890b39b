CONSTANTS
    Workers = {wa, wb}
    Conns = {c1, c2}
    Admin = Admin
    None = None
    Droppable = {c1, c2}
    Beating = {wa, wb}
    Crashable = {}
    Stoppable = {}
    Deletable = FALSE
    LateBeats = TRUE
    MaxFaults = 1
SPECIFICATION Spec
INVARIANTS TypeOK NoZombieEntry NoOrphan
SYMMETRY Interchangeable
CHECK_DEADLOCK FALSE
