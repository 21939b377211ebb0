\* A COMMIT may outlive the client timeout that gave it up.
SPECIFICATION Spec
CONSTANTS
    Ids = {m1}
    MaxRequests = 1
    Targets = {"t1", "t2"}
    SeedTarget = "t1"
    Threshold = 2
    SlowCommits = TRUE
    MaxResults = 3
INVARIANTS
    RowsJustified
    OneStaleResult
