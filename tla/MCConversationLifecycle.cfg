\* Two requests to workflow tools (which do all that simple tools do) and one to
\* clink, on an existing thread and a new one, with room for four turns.
SPECIFICATION LifecycleSpec
CONSTANTS
    Caller = {v, w, x}
    Clink = {x}
    Workflow = {v, w}
    Thread = {s, n}
    Existing = {s}
    MaxTurns = 4
    TranscriptsEnabled = TRUE
    ListedThreads = FALSE
    None = None
    Old = Old
SYMMETRY LifecycleSymmetry
INVARIANTS
    AdmittedReplyFits
    ExchangesStayTogether
    TranscriptIsTrue
PROPERTIES
    RemainingIsTrue
    ImplementsLog
