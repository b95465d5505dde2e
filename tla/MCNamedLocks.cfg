SPECIFICATION LocksSpec
CONSTANTS
    Conn = {c1, c2}
    Name = {n1, n2}
    MaxHold = 2
    MaxId = 3
    PseudoIds <- MCPseudoIds
    Timeout <- MCTimeout
    MsPerSecond = 3
    Slice = 2
    MaxTimeoutMs = 5
INVARIANTS
    TypeOK
    LocksAgree
PROPERTIES
    TimeoutOnlyWhileHeld
    GetLockReturns
CHECK_DEADLOCK FALSE
