\* Two requests in flight on two monitors, and the throttler over three windows.
SPECIFICATION AllSpec
CONSTANTS
    Users = {"user", "demo"}
    Demo = {"demo"}
    Requests = {r1, r2}
    MaxId = 2
    MaxRows = 1
    Limit = 1
    Names = {n0, n1, n2}
    PageNames = {n0}
    PageFrequencies = {1}
    PageVerdicts = {"none"}
    WrittenNames = {n1, n2}
    Frequencies = {1, 2}
    MinFrequency = 1
    DemoMinFrequency = 2
    Ips = {"page", "other"}
    Poller = "page"
    Routes = {"findAll", "create", "login"}
    DefaultLimit = 3
    AuthLimit = 1
    DemoLimit = 3
    MonitorsLimit = 1
    Ttl = 2
    MaxTime = 7
    MaxShort = 6
    Verdicts = {"healthy"}
    None = None
SYMMETRY Symmetry
INVARIANTS
    AnswersAreOwn
    WritesKept
    PollRefusedByCrowdOnly
    WindowKept
