SPECIFICATION FairSpec
CONSTANTS
    open = open
    snap = snap
    snap2 = snap2
    click = click
    click2 = click2
    shot = shot
    frame = frame
    point = point
    read = read
    list = list
    write = write
    write2 = write2
    linker = linker
    later = later
    plain = plain
    endless = endless
    bad = bad
    None = None
    Nowhere = Nowhere
    Calls <- MCCalls
    Job <- MCJob
    Root <- MCRoot
    Mixes <- MCMixes
    MaxChromes = 3
    MaxHandles = 3
    MaxPolls = 2
    MaxConnections = 3
CHECK_DEADLOCK FALSE
INVARIANT PageIsWhatWasSeen
INVARIANT NothingIsLeftBehind
PROPERTY ServesOn
