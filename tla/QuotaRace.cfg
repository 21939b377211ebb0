\* An ordinary account, two requests at once.
SPECIFICATION Spec
CONSTANTS
    Requests = {r1, r2}
    SeedKeys = {}
    Max = 3
    Demo = FALSE
INVARIANTS
    QuotaHolds
