SPECIFICATION Spec
CONSTANTS
    Calls = {c1}
    Providers = {p1, p2}
    None = None
    MaxAttempts = 2
    LosesCancellation = FALSE
INVARIANTS
    BeatBelongsToOperation
    EndIsTrue
    ShutdownIsComplete
    JulesIsHonest
PROPERTIES
    CancellationPropagates
    InterruptEndsServer
    JulesCallsEnd
\* The server exits.
CHECK_DEADLOCK FALSE
