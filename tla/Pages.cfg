\* The browser's parts for a signed-in user, one at a time.
SPECIFICATION Spec
CONSTANTS
    MaxLogins = 2
    MaxCalls = 1
    Monitors = {m1, m2}
    Existing = {m1}
    MaxCreates = 2
    MaxDeletes = 2
    MaxLeft = 2
    Frequencies = {9, 10, 60}
    MinFrequency = 60
INVARIANTS
    SessionSound
    ListTruthful
PROPERTIES
    EndsForAReason
    FormKept
    RowsCatchUp
