\* Two statements; a query that is eager is lazy once it was reset.  Two writes,
\* by this or another connection.
CONSTANTS
    Stmt = {s1, s2}
    Kind = {"stream", "eager", "buffered", "write", "commit"}
    MaxWrites = 2
SYMMETRY Symmetry
SPECIFICATION Spec
CHECK_DEADLOCK FALSE
INVARIANTS
    StreamIsGuarded
    RowsOfOneState
    AckedIsCommitted
    NothingLeftHeld
PROPERTIES
    CompletionsInOrder
