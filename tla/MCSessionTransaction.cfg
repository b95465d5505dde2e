\* Two writing or table-creating statements, two names, three savepoints (a
\* name set, another one, the first again), every command may fail.
CONSTANTS
    Stmt = {s1, s2}
    Name = {a, b}
    MaxSavepoints = 3
SYMMETRY MCSymmetry
SPECIFICATION Spec
INVARIANTS
    TypeOK
    StatementsWhole
    SessionMatchesEngine
    TempsBacked
PROPERTIES
    ImplementsTransactions
