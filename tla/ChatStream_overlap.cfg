SPECIFICATION Spec
CONSTANTS
    MaxTurns = 2
    Nodes = {n1}
    None = None
    MaxPieces = 1
    MaxLeaves = 0
    MaxFaults = 1
    Overlap = TRUE
    Impatient = {1}
    Timed = FALSE
INVARIANT InOrder
 
INVARIANT ReplyShown
PROPERTY InboxIsChannel
CHECK_DEADLOCK FALSE
