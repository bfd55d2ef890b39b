CONSTANTS
    Workers = {wa, wb}
    Conns = {c1}
    Admin = Admin
    None = None
    Droppable = {c1}
    Beating = {wa, wb}
    Crashable = {wa}
    Stoppable = {wa}
    Deletable = FALSE
    LateBeats = TRUE
    MaxFaults = 1
SPECIFICATION FairSpec
PROPERTIES GhostReclaimed
CHECK_DEADLOCK FALSE
