SPECIFICATION MCFairSpec
CONSTANTS
    Harnesses = {"h1", "w2"}
    Guests = {"guest", "again"}
    Upstream = {"w2"}
    AckMayFail = {"again"}
    Servers = {"pc"}
    Sessions = {"s", "s2"}
    CallIds = {"c0"}
    Requests = {"open", "bind", "write", "serve", "close", "mint", "hand"}
    Req <- MCOrdered
    HubTools = {"bot.send"}
    SecretTool = "secret.request"
    Vetoed = {"fs.write", "bot.send"}
    ServerOf <- MCServerOf
    DefaultPolicy <- MCPolicy
    Recorded <- MCRecorded
    OriginOf <- MCOriginOf
    PrivateUrls = {}
    NoMatch = NoMatch
    NoOrigin = NoOrigin
    None = None
CHECK_DEADLOCK FALSE
INVARIANT TypeOK
INVARIANT CrashEndsItsCalls
PROPERTY RegistrationFollowsItsConnection
PROPERTY KeepsItsPromise
PROPERTY EveryCallEnds
