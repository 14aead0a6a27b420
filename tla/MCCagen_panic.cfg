CONSTANTS
    W = 16
    SliceLen = 8
    NL = 2
    CR = 5
    Blobs <- MCBlobs
    Certs <- MCCerts
    w1 = w1
    w2 = w2
    c1 = c1
    c2 = c2
    c3 = c3
    c4 = c4
    c5 = c5
    Workers = {w1, w2}
    Lens = {0, 1, 2}
    Candidates = {c1, c2, c3, c4, c5}
    Fits <- MCFits
    NoCert = NoCert
    NoWorker = NoWorker
SPECIFICATION MCSpec
INVARIANT NeverPanics
CHECK_DEADLOCK FALSE
