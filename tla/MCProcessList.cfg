\* Three handles, two of which list the sessions; one of them is opened again.
CONSTANTS
    Handle = {h1, h2, h3}
    Lister = {h1, h2}
    MaxOpens = 4
    MaxOps = 1
SPECIFICATION Spec
CHECK_DEADLOCK FALSE
INVARIANTS
    RegistryIsOpenHandles
    WalkMeetsLiveHandles
    RowsWhole
    ListComplete
PROPERTIES
    ThreadsReturn
