SPECIFICATION FairSpec
CONSTANTS
    MaxTurns = 2
    Nodes = {n1}
    None = None
    MaxPieces = 0
    MaxLeaves = 1
    MaxFaults = 0
    Overlap = FALSE
    Impatient = {1}
    Timed = TRUE
INVARIANT EndedByCutTurn
PROPERTY StreamEnds
CHECK_DEADLOCK FALSE
