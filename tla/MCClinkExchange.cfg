\* Tokens in thousands: answers above 5 are shortened, an excerpt takes 2.
SPECIFICATION Spec
CONSTANTS
    None = None
    Path <- MCPath
    Role = {"default", "planner"}
    p = p
    q = q
    alias = alias
    d1 = d1
    d2 = d2
    d3 = d3
    Dangerous = {"--yolo"}
    Reserved = {"--print"}
    Layers <- MCLayers
    Links <- MCLinks
    Ats <- MCAts
    Requests <- MCRequests
    Outputs <- MCOutputs
    Replies <- MCReplies
    Chats = {1, 4}
    ReplyLimit = 5
    ExcerptTokens = 2
    FrameTokens = 1
    MaxTurns = 6
    MaxCalls = 3
INVARIANTS
    ProjectIsKept
    FollowUpInherits
    HistoryIsTrue
\* The client may stop calling.
CHECK_DEADLOCK FALSE
