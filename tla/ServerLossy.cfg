SPECIFICATION Spec
CONSTANTS
    Calls = {c1}
    Providers = {p1}
    None = None
    MaxAttempts = 2
    LosesCancellation = TRUE
PROPERTIES
    CancellationPropagates
\* The server exits.
CHECK_DEADLOCK FALSE
