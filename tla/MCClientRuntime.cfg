\* Two upstreams, two local connections at a time, two listeners, one of which fails over.
CONSTANTS
    a = a
    b = b
    f1 = f1
    f2 = f2
    Servers = {a, b}
    Forwards = {f1, f2}
    Candidates <- MCCandidates
    h1 = h1
    h2 = h2
    Handlers = {h1, h2}
    Main = Main
    c1 = c1
    c2 = c2
    c3 = c3
    Conn = {c1, c2, c3}
    NoConn = NoConn
    Nobody = Nobody
    Backoff <- MCBackoffOne
    DialTimeout = 1
SPECIFICATION Spec
SYMMETRY Symmetry
INVARIANTS TypeOK NoLeakedConnection DialsAreExclusive ReturnedMeansQuiet ErrSendNeverBlocks
