\* The cache with three requests, the uptime beside a retention that equals the
\* window and one that exceeds it by the skew and the query's delay, the labels of
\* the status page and the freshness hint.
SPECIFICATION AllSpec
CONSTANTS
    Clients = {c1, c2, c3}
    None = None
    Ttl = 2
    QueryLimit = 2
    MaxChanges = 3
    Windows = {1, 3}
    RetentionDays = 1
    TicksPerDay = 3
    Skew = 1
    MaxDelay = 1
    MaxUptime = 4
    Monitors = {m1, m2}
    Refresh = 1
    StaleAfter = 1
    PageTtl = 2
    Ratios = {"none", "low", "high"}
    MaxPage = 4
    MaxShort = 2
    Freqs = {1, 3}
    Floor = 2
    MaxClock = 2
    Poll = 1
    MaxHint = 9
    MaxEdits = 1
SYMMETRY Symmetry
CHECK_DEADLOCK FALSE
INVARIANTS
    FlightShared
    UptimePreserved
    StatusEarned
    HintTimely
PROPERTIES
    NeverGoesBack
    ImplementsStatusContract
