SPECIFICATION MCSpec
CONSTANTS
    Harnesses = {"h1", "h2", "w1", "w2", "ask", "t1", "t2", "r1", "self"}
    Guests = {"guest", "guest2", "self"}
    Upstream = {"w2", "ask"}
    AckMayFail = {}
    Servers = {"pc", "pc2"}
    Sessions = {"s", "s2"}
    CallIds = {"c0", "c1"}
    Requests = {"open", "bind", "read", "open2", "bind2", "read2",
                "openw", "bindw", "writew", "mint", "hand", "minta", "wipe", "cred",
                "replayt", "reopen", "steal", "readt", "take", "give", "give2",
                "replay", "reopenr", "readr", "wiper", "openx", "bindx", "readx"}
    Req <- MCOrdered
    HubTools = {"bot.send"}
    SecretTool = "secret.request"
    Vetoed = {"fs.write", "bot.send"}
    ServerOf <- MCServerOf
    DefaultPolicy <- MCPolicy
    Recorded <- MCRecorded
    OriginOf <- MCOriginOf
    PrivateUrls = {}
    NoMatch = NoMatch
    NoOrigin = NoOrigin
    None = None
CHECK_DEADLOCK FALSE
INVARIANT AnsweredOnce
INVARIANT CallsAreAccountedFor
INVARIANT ProgressIsOfOnesOwn
INVARIANT OnlyPermittedCallsRun
INVARIANT GrantsWereGiven
PROPERTY OnlyTheHolderGivesBack
PROPERTY SessionKeepsItsOwner
PROPERTY ReplayFollowsTheRecord
