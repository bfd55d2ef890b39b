SPECIFICATION MigrationSpec
CONSTANTS
    Workers = {wa, wb}
    None = None
    Head = 2
    OneShot = {2}
    Unprivileged = {}
    StaleMarks = FALSE
    Old = 0
    MaxTrouble = 1
INVARIANT ForcedIsRetried
CHECK_DEADLOCK FALSE
