\* More due monitors than permits, more tasks than connections, and a page
\* whose requests fail in every way.
SPECIFICATION AllSpec
CONSTANTS
    Monitors = {m1, m2, m3}
    Concurrency = 2
    PoolMonitors = {m1, m2}
    DemoMonitors = {m1}
    MaxConns = 2
    None = None
INVARIANTS
    CyclesDoNotOverlap
PROPERTIES
    ImplementsCycleContract
    CycleCompletes
    ShutdownCompletes
    EveryoneConnects
    KeepsPolling
