\* The demo account's quota, two registrations with one start, one registration
\* with two starts and a new configuration, and two starts with two manifests.
SPECIFICATION AllSpec
CONSTANTS
    Requests = {r1, r2, r3}
    SeedKeys = {k1, k2}
    Max = 3
    Demo = TRUE
    Emails = {e1, e2}
    Names = {n1, n2}
    Actors = {a1, a2}
    Starts = {s1, s2}
    DemoKeys = {"demo"}
    MaxReconfigs = 1
    MaxConfigs = 2
    None = None
SYMMETRY Symmetry
INVARIANTS
    OvershootBounded
    OneWinner
    OwnAccountOnly
    SeedsApplied
