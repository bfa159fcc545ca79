\* One dialed peer and one forwarding handler; no accepted connections, so that
\* a connection with p exists only if it was dialed.
CONSTANTS
    p = p
    Nodes = {p}
    Peers = {p}
    Addressed = {p}
    Dialing = {p}
    o1 = o1
    Openers = {o1}
    Main = Main
    d1 = d1
    d2 = d2
    Inbound = {}
    Outbound = {d1, d2}
    NoConn = NoConn
    NoNode = NoNode
    Backoff <- MCBackoff
SPECIFICATION FairSpec
PROPERTIES MaintainedPeerReconnects ShutdownClosesAll RunReturns OpenStreamReturns
