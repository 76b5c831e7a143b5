\* Clients that take thread ids from the transcript index (pal://threads): the
\* invocation that creates a thread holds no lock on it.
SPECIFICATION LifecycleSpec
CONSTANTS
    Caller = {a, b}
    Clink = {}
    Workflow = {}
    Thread = {n}
    Existing = {}
    MaxTurns = 4
    TranscriptsEnabled = TRUE
    ListedThreads = TRUE
    None = None
    Old = Old
INVARIANT
    UpdatesAreSerialized
