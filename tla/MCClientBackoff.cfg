\* Two handlers and listeners on one upstream; a dial may take as long as the first delay.
CONSTANTS
    a = a
    b = b
    f1 = f1
    f2 = f2
    Servers = {a}
    Forwards = {f1, f2}
    Candidates <- MCOneRoute
    h1 = h1
    h2 = h2
    Handlers = {h1, h2}
    Main = Main
    c1 = c1
    c2 = c2
    Conn = {c1, c2}
    NoConn = NoConn
    Nobody = Nobody
    Backoff <- MCBackoffOne
    DialTimeout = 1
SPECIFICATION Spec
PROPERTIES BackoffAfterFailedDial
