\* An E2E candidate through a relay and a routed plaintext one, or three hops
\* in plaintext and a direct candidate, or a direct E2E one, under varied policies and losses.
CONSTANTS
    A = A
    B = B
    C = C
    D = D
    Client = C
    NoEgress = NoEgress
    Nodes = {A, B, D}
    Setups <- MCSetups
    MaxCandidates = 2
    MaxHops = 3
SPECIFICATION FairSpec
INVARIANTS TypeOK TargetAuthorized ProxyMeansTarget TranscriptsAgree DenialStopsFailover HandshakeIsFinal
PROPERTIES SetupEnds TargetsReleased
