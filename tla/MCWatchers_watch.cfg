CONSTANTS
    a = a
    b = b
    h1 = h1
    main = main
    n1 = n1
    r1 = r1
    e1 = e1
    g1 = g1
    Keys = {a, b}
    Files = {1, 2}
    Times <- MCTimes
    Messages <- MCMessages
    Handlers = {h1}
    Main = main
    QueueCap = 1
    OnChangeN = {n1}
    OnChangeRegex = {r1}
    Events = {e1}
    ValueChans = {n1, r1, e1}
    ChanKeys <- MCChanKeys
    GlobalChans = {g1}
    Together = {{n1, r1}, {e1}, {g1}}
    ChanCap = 2
    DiskFaults = FALSE
    Crashes = FALSE
SPECIFICATION WSpec
INVARIANTS CallbackCaughtUp RegexCaughtUp DashboardFollows
    AnyChangeCaughtUp NeverAhead NotificationsInOrder
