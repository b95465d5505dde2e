SPECIFICATION Spec
CONSTANTS
    c1 = c1
    c2 = c2
    Conn = {c1, c2}
    Stepping = TRUE
    MaxValue = 3
    InsertIds = {2}
    AlterValues = {1, 4}
    MaxRare = 1
    Increment <- MCIncrement
    Offset <- MCOffset
INVARIANTS
    CounterAboveRows
    ConsumedCovered
    OwnValuesFresh
