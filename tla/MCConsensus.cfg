SPECIFICATION Spec
CONSTANTS
    Panels <- MCPanels
    MaxSteps = 4
    MaxCalls = 5
INVARIANTS
    SummaryIsTrue
\* A client may stop calling at any time.
CHECK_DEADLOCK FALSE
