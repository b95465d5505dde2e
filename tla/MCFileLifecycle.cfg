\* Three openers of one path, at most two failures, deaths or power losses.
CONSTANTS
    Proc = {p1, p2, p3}
    MaxFaults = 2
SPECIFICATION Spec
INVARIANTS
    TypeOK
    PublishedMeansComplete
    HandlesSeeCatalog
    PublishedStays
PROPERTIES
    CatalogKept
    OpensInTheEnd
