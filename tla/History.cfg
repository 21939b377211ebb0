\* The history page with its sections, limits and routes, and the algorithms of
\* its chart and summary.
SPECIFICATION AllSpec
CONSTANTS
    Monitors = {m0, m1, m2}
    PageMonitors = {m0}
    RouteMonitors = {m1, m2}
    Kinds = {"rows", "metadata", "alerts"}
    Failures = {"other", "limited", "terminal"}
    MaxLimit = 3
    ChartRows = 4
    MaxTime = 5
    Frequency = 1
    SummaryRows = 24
    Latencies = {0, 1, 3}
    None = None
SYMMETRY Symmetry
CHECK_DEADLOCK FALSE
INVARIANTS
    SectionsSound
    ChartFaithful
    SummaryExact
PROPERTIES
    VisitKept
