CONSTANTS
    a = a
    b = b
    h1 = h1
    h2 = h2
    main = main
    Keys = {a, b}
    Files = {1, 2, 3}
    Times <- MCTimes
    Messages <- MCFaultyMessages
    Handlers = {h1, h2}
    Main = main
    QueueCap = 1
    ValueChans = {}
    ChanKeys <- MCNoChanKeys
    GlobalChans = {}
    ChanCap = 1
    DiskFaults = TRUE
    Crashes = TRUE
SPECIFICATION Spec
INVARIANT Recovered
SYMMETRY MCSymmetry
