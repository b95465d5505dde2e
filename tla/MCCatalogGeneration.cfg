SPECIFICATION Spec
CONSTANTS
    Conn = {c1, c2}
    MaxWrites = 2
INVARIANTS
    NoStalePlan
    SealCurrent
    SealHonest
PROPERTY WritesEnd
