CONSTANTS
    a = a
    b = b
    h1 = h1
    h2 = h2
    main = main
    Keys = {a, b}
    Files = {1, 2, 3, 4}
    Times <- MCTimes
    Messages <- MCMessages
    Handlers = {h1}
    Main = main
    QueueCap = 1
    ValueChans = {}
    ChanKeys <- MCNoChanKeys
    GlobalChans = {}
    ChanCap = 1
    DiskFaults = FALSE
    Crashes = FALSE
SPECIFICATION FairSpec
PROPERTIES HandlersFinish
CHECK_DEADLOCK FALSE
