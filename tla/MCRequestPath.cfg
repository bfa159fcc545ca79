\* Clients of A and B, servers of two services, messages at every limit.
CONSTANTS
    StrLen <- Lengths
    HostPorts <- MCHostPorts
    ServiceCerts <- MCServiceCerts
    ClientConfigs <- MCClientConfigs
    ServerConfigs <- MCServerConfigs
    BadConfigs <- MCBadConfigs
    RequestID = "uuid"
    Responses <- MCResponses
    Peer = "A"
    Messages <- MCMessages
    OldRequests <- MCOldRequests
SPECIFICATION Spec
INVARIANTS ArrivesUnchanged AcceptedConfigIsServed CertificateOfService
