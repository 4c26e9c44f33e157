SPECIFICATION FairSpec
CONSTANTS
    up1 = up1
    up2 = up2
    plain1 = plain1
    plain2 = plain2
    nested = nested
    daemon = daemon
    run1 = run1
    run2 = run2
    abroad = abroad
    client = client
    exported = exported
    tick = tick
    window1 = window1
    window2 = window2
    child1 = child1
    child2 = child2
    bare = bare
    childb = childb
    viewer = viewer
    claim = claim
    give = give
    keys = keys
    picture = picture
    stray = stray
    None = None
    Anyone = Anyone
    Nobody = Nobody
    Procs <- MCProcs
    Job <- MCJob
    Mixes <- MCMixes
    Requests <- MCRequests
    Asks <- MCAsks
CHECK_DEADLOCK FALSE
INVARIANT ReadyComputersServe
INVARIANT NobodyIsRefusedForNothing
PROPERTY CommandsMindTheirOwn
