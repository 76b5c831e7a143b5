SPECIFICATION Spec
CONSTANTS
    None = None
    AutoMode = AutoMode
    native = native
    cloud = cloud
    ranked = ranked
    proxy = proxy
    go = go
    router = router
    big = big
    fast = fast
    shared = shared
    reasoner = reasoner
    hidden = hidden
    goShared = goShared
    small = small
    smallFor = smallFor
    vendor = vendor
    oddTag = oddTag
    hosted = hosted
    dep = dep
    deep = deep
    quick = quick
    slow = slow
    f1 = f1
    f2 = f2
    f3 = f3
    broken = broken
    pic = pic
    gone = gone
    prompt = prompt
    ownFile = ownFile
    link2 = link2
    sys = sys
    data = data
    hid = hid
    linkDir = linkDir
    link = link
    docs = docs
    ownDir = ownDir
    sub = sub
    dir = dir
    Names <- MCNames
    Priority <- MCPriority
    Manifest <- MCManifest
    Optional = {cloud}
    Protocolled = {go}
    Deployers = {cloud}
    Dialect <- MCDialect
    DefaultTemperature = 3
    ClarificationTokens = 60
    Gemini = native
    Pro = {big}
    Flash = {shared}
    Ranking <- MCRanking
    AcceptsAny = {router}
    Vendored = {vendor}
    Tagged = {smallFor, oddTag}
    Compatible = {cloud, ranked, proxy, go, router}
    Stances = {smallFor}
    Policies <- MCPolicies
    Requests <- MCRequests
    Base <- MCBase
    Tree <- MCTree
    PathOrder <- MCPathOrder
    Protected = {sys}
    Own = {ownDir}
    PromptNamed = {prompt}
    MarkTokens = 30
    DiagnosticTokens = 40
    PromptLimit = 15000
    MaxTurns = 4
    FrameTokens = 60
    ClosingTokens = 250
    FollowUpTokens = 493
    SystemTokens = 1200
    ReplyTokens = {200, 9000}
INVARIANTS
    PolicyIsStable
    AdviceIsSound
    ChosenIsPermitted
    SentIsAcceptable
    FilesAreFitted
CHECK_DEADLOCK FALSE
