\* Two openers of a file left by one of five releases, one failure, one DDL after the open.
CONSTANTS
    Opener = {p1, p2}
    Released = {1, 13, 17, 31, 37}
    MaxFaults = 1
    MaxGeneration = 2
SPECIFICATION Spec
CHECK_DEADLOCK FALSE
INVARIANTS
    OpenedCurrent
    OnlyFaultsRefuse
PROPERTIES
    AllOrNothing
    ColumnsKept
    OpensInTheEnd
