CONSTANTS
    a = a
    b = b
    h1 = h1
    main = main
    n1 = n1
    r1 = r1
    e1 = e1
    g1 = g1
    Keys = {a, b}
    Files = {1, 2}
    Times <- MCTimes
    Messages <- MCMessages
    Handlers = {h1}
    Main = main
    QueueCap = 3
    OnChangeN = {}
    OnChangeRegex = {}
    Events = {e1}
    ValueChans = {e1}
    ChanKeys <- MCChanKeys
    GlobalChans = {}
    Together = {{e1}}
    ChanCap = 2
    DiskFaults = FALSE
    Crashes = FALSE
SPECIFICATION WSpec
INVARIANT DashboardCaughtUp
