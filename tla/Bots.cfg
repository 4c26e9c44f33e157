SPECIFICATION Spec
CONSTANTS
    botA = botA
    botB = botB
    botC = botC
    crew = crew
    run1 = run1
    run2 = run2
    run3 = run3
    sendA = sendA
    sendB = sendB
    again = again
    make = make
    copy = copy
    renameA = renameA
    renameB = renameB
    hide = hide
    forget = forget
    team = team
    unteam = unteam
    rmA = rmA
    rmB = rmB
    post = post
    postA = postA
    turn = turn
    t1 = t1
    t2 = t2
    None = None
    Ids = {botA, botB, botC}
    Gids = {crew}
    Texts = {t1, t2}
    Existing = {botA, botB}
    MaxListed = 3
    MaxFiles = 6
    Jobs <- MCJobs
    Job <- MCJob
    Mixes <- MCMixes
CONSTRAINT InTurn
CHECK_DEADLOCK FALSE
INVARIANT HandoffsArrive
INVARIANT RosterIsWhole
