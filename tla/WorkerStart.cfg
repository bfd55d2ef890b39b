SPECIFICATION Spec
CONSTANTS
    Workers = {wa, wb}
    None = None
    Term = 2
    MaxMissed = 1
    MaxFaults = 1
    Mortal = {wa}
    Head = 2
    OneShot = {2}
    Unprivileged = {wb}
    StaleMarks = TRUE
    Old = 0
    MaxTrouble = 1
INVARIANT TypeOK
INVARIANT OneSweeper
INVARIANT ServesOnSchema
PROPERTY CleanupIsLease
PROPERTY MigrationIsLease
PROPERTY VersionGrows
PROPERTY StartupEnds
PROPERTY SweepsGoOn
CHECK_DEADLOCK FALSE
