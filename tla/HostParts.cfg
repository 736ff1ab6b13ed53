CONSTANTS
    Tracks = {t1}
    Files = {f1}
    Pubs = {p1, p2}
    Gets = {g1}
    NoPub = NoPub
    Instances = {i1, i2}
    SpacePins = {q1, q2}
    NoInst = NoInst
    Hosts = {h1, h2}
    Bufs = {b1, b2}
    None = None
    AttrCalls = {c1, c2}
    NoCall = NoCall
    SpotReqs = {s1, s2}
    NoSpotReq = NoSpotReq
    LoginOutCap = 1
    MaxSent = 3
    MetaInt = 2
    MetaUnit = 2
    Titles = {1, 2}
    BlockUnits = {1}
    NBlocks = 3
    BufSizes = {2, 5}
    WebReqs = {w1, w2}
    Docs = {d1}
    DocSizes = {0, 1, 2, 3}
    CacheLimit = 2
    Editions = 2
    NoWebReq = NoWebReq
SPECIFICATION PartsSpec
INVARIANTS
    AssetsAreServed SpacesHaveDb BuffersAndHosts SessionsAreReal LoginGuards
    StreamIsSplit DocsAreServed
PROPERTIES
    AssetsEnd DirReleased CallsComplete AttrsComplete SpotCompletes
    LoginCompletes WebAnswered
\* Every part may stop: its host, app, session or stream has ended.
CHECK_DEADLOCK FALSE
