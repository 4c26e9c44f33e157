SPECIFICATION FairSpec
CONSTANTS
    p1 = p1
    p2 = p2
    p3 = p3
    p4 = p4
    retry = retry
    bare = bare
    g1 = g1
    g2 = g2
    w1 = w1
    w2 = w2
    None = None
    Junk = Junk
    ContextBudget = 7
    KeepRecent = 2
    Turns <- MCTurns
    Job <- MCJob
    Mixes <- MCMixes
    Offered <- MCOffered
CHECK_DEADLOCK FALSE
INVARIANT ConversationIsWhole
INVARIANT DoesWhatWasAsked
PROPERTY TurnsStop
