\* One monitor with a long history, or two beside each other.
SPECIFICATION AllSpec
CONSTANTS
    Ids = {m1, m2}
    MaxRequests = 1
    Targets = {"t1", "t2"}
    SeedTarget = "t1"
    Threshold = 2
    SlowCommits = FALSE
    MaxResults = 4
SYMMETRY Symmetry
INVARIANTS
    AlertsAlternate
    AlertsEarned
    OutageNoticed
    RowsJustified
PROPERTIES
    ImplementsAlertContract
