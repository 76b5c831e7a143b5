\* Two users that add turns and two that swap, on two keys; the clock reaches
\* beyond two times to live.  Time and the cleanup thread are fair, so no symmetry.
SPECIFICATION FairSpec
CONSTANTS
    Key = {k, l}
    User = {a, b, x, y}
    Swapper = {x, y}
    TTL = 2
    MaxTime = 5
    None = None
PROPERTIES
    NoLostUpdate
    SwapNeverResurrects
    ImplementsExpiringStore
    ExpiredAreRemoved
