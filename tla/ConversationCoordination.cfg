\* Four waiting requests and one clink request on two conversations, under the
\* fairness of the event loop (and so without symmetry).
SPECIFICATION FairCoordinationSpec
CONSTANTS
    Caller = {a, b, c, d, x}
    Clink = {x}
    Thread = {s, t}
    None = None
INVARIANTS
    MutualExclusion
    RegistryIsExact
PROPERTIES
    FirstComeFirstServed
    ImplementsMutex
    EveryWaiterIsServed
