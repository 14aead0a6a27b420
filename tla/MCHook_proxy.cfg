CONSTANTS
    a = a
    b = b
    k1 = k1
    k2 = k2
    k3 = k3
    Connections = {k1, k2, k3}
    ClientID <- MCClientID
    NoConnection = NoConnection
    t1 = t1
    t2 = t2
    t3 = t3
    i1 = i1
    i2 = i2
    Topics = {t1, t2, t3}
    IOTTopic <- MCIOTTopic
    MaxMessages = 2
    MaxOutages = 2
    States <- MCStates
    ValuesOf <- MCValuesOf
    NoState = NoState
    MaxChanges = 5
    MaxLosses = 2
SPECIFICATION MCSpec
PROPERTY CloudHeard
CHECK_DEADLOCK FALSE
