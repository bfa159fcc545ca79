\* p is dialed, q is a peer that only dials us, s is no peer.
CONSTANTS
    p = p
    q = q
    s = s
    Nodes = {p, q, s}
    Peers = {p, q}
    Addressed = {p}
    Dialing = {p}
    o1 = o1
    Openers = {o1}
    Main = Main
    i1 = i1
    d1 = d1
    d2 = d2
    Inbound = {i1}
    Outbound = {d1, d2}
    NoConn = NoConn
    NoNode = NoNode
    Backoff <- MCBackoffOne
SPECIFICATION Spec
SYMMETRY ConnSymmetry
INVARIANTS TypeOK NoOrphanSession RegisteredIsServed OneAcceptLoop SessionIdentity HeldIsSession
PROPERTIES FirstLiveWins
