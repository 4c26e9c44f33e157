SPECIFICATION FairSpec
CONSTANTS
    daily = daily
    other = other
    onpush = onpush
    b1 = b1
    b2 = b2
    up = up
    cron = cron
    dry = dry
    pause = pause
    resume = resume
    rm = rm
    new = new
    run = run
    look = look
    rmbot = rmbot
    post1 = post1
    post2 = post2
    post2again = post2again
    posta = posta
    utc = utc
    None = None
    Every = Any
    Zones = {utc}
    Horizon = 4
    Wall <- MCWall
    Rids <- MCRids
    Bot <- MCBot
    Trigger <- MCTrigger
    Procs <- MCProcs
    Proc <- MCProc
    Mixes <- MCMixes
    MaxRoutines = 2
    MaxRunsKept = 3
    Cooloff = 1
    BackoffSteps = 1
    Remembered = 1
    IdleAfter = 3
    Lives = 1
CHECK_DEADLOCK FALSE
INVARIANT WorkedOffOnce
PROPERTY DueIsServed
