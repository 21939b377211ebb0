\* Five results and one alert; a pass may spend its two batches of two and leave one.
SPECIFICATION Spec
CONSTANTS
    MaxRows <- MCMaxRows
    BatchSize = 2
    MaxBatches = 2
INVARIANTS
    BatchesOrdered
    CleanPass
