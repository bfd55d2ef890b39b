SPECIFICATION Spec
CONSTANTS
    Requests = {ra, rb, rc}
    Passwords = {pa, pb}
    Old = Old
    None = None
    MaxFaults = 1
INVARIANT TypeOK
INVARIANT DeniedOnlyIfWrong
INVARIANT IndexComplete
INVARIANT OldSessionsEnd
PROPERTY PasswordKept
SYMMETRY Interchangeable
CHECK_DEADLOCK FALSE
