SPECIFICATION FairSpec
CONSTANTS
    issue = issue
    again = again
    other = other
    remoteOnly = remoteOnly
    unders = unders
    plain = plain
    shell = shell
    handoff = handoff
    lists = lists
    reads = reads
    supply = supply
    rotate = rotate
    forget = forget
    store = store
    adds = adds
    adopts = adopts
    removes = removes
    writes = writes
    unwrites = unwrites
    audit = audit
    veto = veto
    guard = guard
    notify = notify
    broken = broken
    deaf = deaf
    lax = lax
    None = None
    GuestSide = GuestSide
    BotSide = BotSide
    SkillSide = SkillSide
    StoreSide = StoreSide
    Torn = Torn
    Kept = 1
    Letters <- MCLetters
    Lower <- MCLower
    Reserved <- MCReserved
    Calls <- MCCalls
    Ask <- MCAsk
    Edits <- MCEdits
    Edit <- MCEdit
    Hook <- MCHook
    Wants <- MCWants
    Tool <- MCTool
    GuestTools <- MCGuestTools
    BotTools <- MCBotTools
    Mixes <- MCMixes
CHECK_DEADLOCK FALSE
INVARIANT CallsGoWhereTheyShould
INVARIANT FilesTellWhatHappened
PROPERTY CallsEnd
