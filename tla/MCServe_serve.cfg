CONSTANTS
    W = 8
    SearchBegin <- MCSearchBegin
    SearchEnd <- MCSearchEnd
    FoundCerts <- MCFoundCerts
    Inputs <- MCInputs
    m1 = m1
    m2 = m2
    f1 = f1
    f2 = f2
    f3 = f3
    n1 = n1
    n2 = n2
    n3 = n3
    Models = {m1, m2}
    FirmwareNames = {f1, f2, f3}
    Manifests = {n1, n2, n3}
    Entry <- MCEntry
    Unparsable = {n3}
    Unpatchable = {f2}
    NoEntry = NoEntry
    ManifestName = ManifestName
    home = home
    off = off
    low = low
    Temps = {1, 2}
    Activities = {home}
    Fans = {off, low}
    Unreadable = Unreadable
    Unknown = Unknown
    Keep = Keep
    InitialSettings <- MCInitialSettings
    MaxRequests = 2
    MaxOwn = 1
    Days = 3
    Minutes = 4
    DefaultEnd = 2
    Disabled = Disabled
    BadTime = BadTime
    Programs <- MCPrograms
    p1 = p1
    p2 = p2
    p3 = p3
    x = x
    y = y
    PostalCodes = {p1, p2, p3}
    Malformed = {p3}
    Place <- MCPlace
    NoPlace = NoPlace
    Forecasts <- MCForecasts
    CacheDuration = 1
    MaxTime = 2
    ChannelSize = 2
    NoRequest = NoRequest
SPECIFICATION MCSpec
INVARIANTS
    ServeTypeOK ImagePatched FittingIsPatched
    WholeFiles PatchedOnly PreparedServable
    AskedForHolds SetpointArrives ZeroOnlyBlind ShownInForce DayCovered SixDays LatestTaken
CHECK_DEADLOCK FALSE
