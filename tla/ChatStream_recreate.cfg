SPECIFICATION Spec
CONSTANTS
    MaxTurns = 2
    Nodes = {n1}
    None = None
    MaxPieces = 0
    MaxLeaves = 1
    MaxFaults = 1
    Overlap = TRUE
    Impatient = {1}
    Timed = FALSE
INVARIANT TypeOK
 
CHECK_DEADLOCK FALSE
