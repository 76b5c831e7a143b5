SPECIFICATION Spec
CONSTANTS
    Requests <- AllRequests
    Others = {"chat"}
    MaxTurns = 6
    MaxCalls = 3
CONSTRAINT OneTeam
INVARIANTS
    AcknowledgedIsRestored
    InvestigationIsWhole
    ReplyIsHonest
    GuidanceIsKept
\* A client may stop calling at any time.
CHECK_DEADLOCK FALSE
