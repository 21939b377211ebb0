\* Three items for one permit: a cycle lasts longer than the heartbeat may be old.
SPECIFICATION HSpec
CONSTANTS
    Monitors = {m1, m2, m3}
    Concurrency = 1
    Period = 1
    DBTimeout = 1
    ProbeTimeout = 2
    Margin = 1
SYMMETRY Symmetry
INVARIANTS
    NeverFalselyStale
    HealthyMeansProgress
