----------------------------- MODULE RequestPath -----------------------------
(***************************************************************************)
(* One node from its configuration file to its requests. A client that     *)
(* accepts its configuration sends the requests of its forwards, which are *)
(* written, read and checked hop by hop, and gets their responses the same *)
(* way back; a server that accepts its configuration presents the          *)
(* certificates of its services; and over a stream that is set up both     *)
(* ends exchange frames of any size.                                       *)
(*                                                                         *)
(* Every other node has the identity it is known by and lets the request   *)
(* pass: authorization, dialing, failover and lost streams are in          *)
(* StreamSetup.                                                            *)
(***************************************************************************)
EXTENDS Config, Frames

CONSTANTS
    ClientConfigs, ServerConfigs, BadConfigs, \* configurations to start from
    RequestID,   \* the request's ID, as 16 bytes
    Responses,   \* what an egress may answer
    Peer,        \* the server at the other end of a stream
    Messages,    \* what may be written to a stream
    OldRequests  \* requests of clients that know no E2E fields

VARIABLES
    cfg,    \* the node's configuration, or NoConfig
    at,     \* where the request is
    cand,   \* the candidate that is tried
    node,   \* the server that handles the request
    back,   \* hops the response still has to take
    sent,   \* the message written last
    wire,   \* its frame
    cert    \* the files of the certificate a server presents

vars == <<cfg, at, cand, node, back, sent, wire, cert>>

NoConfig == [mode |-> "none"]
NoCandidate == [service |-> "", egress |-> "", route |-> <<>>, e2eMode |-> "off"]
NoFrame == Frame("none", <<>>)

Init ==
    /\ \/ cfg \in ClientConfigs /\ at = "load"
       \/ cfg \in ServerConfigs /\ at = "load"
       \/ cfg \in BadConfigs /\ at = "load"
       \/ cfg = NoConfig /\ at = "stream"
    /\ cand = NoCandidate /\ node = "" /\ back = 0
    /\ sent = Malformed /\ wire = NoFrame /\ cert = ""

-----------------------------------------------------------------------------
(* What the runs and the proofs start from. *)

\* Configurations as Load decodes them; every name is a string with a length.
Addressed == [id : ByteStrings, address : STRING]
Peers == [id : STRING, address : STRING, dial : BOOLEAN]
Candidates == [egress : ByteStrings, route : Seq(ByteStrings)]
ServiceRoutes ==
    [service : ByteStrings, protocol : STRING, selection : STRING, candidates : Seq(Candidates)]
ForwardConfigs ==
    [protocol : STRING, listen : STRING, service : ByteStrings, egress : ByteStrings,
     route : Seq(ByteStrings), e2e : STRING]
ServiceConfigs ==
    [name : ByteStrings, protocol : STRING, target : STRING, peers : Seq(STRING),
     cert : STRING, key : STRING]
Configs ==
    [nodeID : STRING, mode : STRING, identity : [cert : STRING, key : STRING, ca : STRING],
     serviceCA : STRING, servers : Seq(Addressed), peers : Seq(Peers), listen : STRING,
     forwards : Seq(ForwardConfigs), routes : Seq(ServiceRoutes),
     services : Seq(ServiceConfigs), allowedRelayClients : Seq(STRING)]

ASSUME ConfigAssumption == ClientConfigs \cup ServerConfigs \cup BadConfigs \subseteq Configs

\* Request IDs are UUIDs. An egress answers with messages that fit a frame: an
\* error names a few strings of a request at most. Everything else a stream may
\* be given to write is a message of the protocol, of any size.
ASSUME MessageAssumption ==
    /\ RequestID \in ByteStrings /\ Within(RequestID, 16, 16)
    /\ "tcp" \in ByteStrings /\ Within("tcp", 1, MaxProtocolLength)
    /\ Responses \subseteq {r \in ConnectResponses : WriteFrameOK(r)}
    /\ Messages \subseteq MessageTypes
    /\ OldRequests \subseteq
         {m \in ConnectRequests : /\ CanWriteRequest(m) /\ ~m.e2eRequired /\ m.e2eRoute = <<>>
                                 /\ PayloadSize(LegacyRequest(m)) <= MaxPayloadSize}

-----------------------------------------------------------------------------
(* Start. *)

\* The client's e2eRuntime exists if it has a service CA; a server loads all
\* of its service certificates.
Start ==
    /\ at = "load"
    /\ at' = IF /\ ValidateForMode(cfg)
                /\ cfg.mode = "server" => loadServiceCertificatesOK(cfg)
             THEN cfg.mode ELSE "refused"
    /\ UNCHANGED <<cfg, cand, node, back, sent, wire, cert>>

-----------------------------------------------------------------------------
(* The request. *)

\* Writes m, or fails.
WriteMessage(m, label) ==
    /\ sent' = m
    /\ wire' = IF WriteFrameOK(m) THEN Frame(m.type, Payload(m)) ELSE NoFrame
    /\ at' = IF WriteFrameOK(m) THEN label ELSE "failed"

\* The request of OpenTCPStream.
Request(c) ==
    [type |-> "ConnectRequest", id |-> RequestID, protocol |-> "tcp",
     service |-> c.service, egress |-> c.egress, route |-> c.route,
     e2eRequired |-> effectiveE2ERequired(c),
     e2eRoute |-> IF effectiveE2ERequired(c) THEN c.route ELSE <<>>]

\* A local connection; earlier candidates may have failed.
OpenTCPStream ==
    /\ at = "client"
    /\ \E i \in DOMAIN cfg.forwards :
         \E c \in ToSet(resolveCandidates(cfg, cfg.forwards[i])) :
             /\ cand' = c /\ node' = selectSession(cfg, c)
             /\ IF selectSession(cfg, c) # "" THEN WriteMessage(Request(c), "request")
                ELSE at' = "failed" /\ UNCHANGED <<sent, wire>>
    /\ UNCHANGED <<cfg, back, cert>>

\* The message that was read.
got == ReadFrame(wire)

validateConnectRoute(nodeID, route, egress) ==
    route # <<>> => route[1] = nodeID /\ egress \in {"", Last(route)}

\* What handleStream asks of a request besides authorization.
RequestOK ==
    /\ got.type = "ConnectRequest" /\ got.protocol = "tcp"
    /\ validateConnectRoute(node, got.route, got.egress)

\* handleRelayStream: the request goes on without this hop.
Relay ==
    /\ at = "request" /\ RequestOK /\ Len(got.route) > 1
    /\ node' = got.route[2] /\ back' = back + 1
    /\ WriteMessage([got EXCEPT !.route = Tail(@)], "request")
    /\ UNCHANGED <<cfg, cand, cert>>

EgressOK == RequestOK /\ Len(got.route) <= 1 /\ got.egress \in {"", node}

\* The egress answers.
Respond ==
    /\ at = "request" /\ EgressOK
    /\ \E r \in Responses : WriteMessage(r, "response")
    /\ UNCHANGED <<cfg, cand, node, back, cert>>

\* UNSUPPORTED_PROTOCOL, ROUTE_INVALID or UNREACHABLE_EGRESS, or no answer.
Refuse ==
    /\ at = "request" /\ ~EgressOK /\ ~(RequestOK /\ Len(got.route) > 1)
    /\ at' = "failed"
    /\ UNCHANGED <<cfg, cand, node, back, sent, wire, cert>>

\* A relay reads the response and writes it again.
RelayResponse ==
    /\ at = "response" /\ back > 0
    /\ back' = back - 1
    /\ IF got.type = "ConnectResponse" THEN WriteMessage(got, "response")
       ELSE at' = "failed" /\ UNCHANGED <<sent, wire>>
    /\ UNCHANGED <<cfg, cand, node, cert>>

\* runHandshake needs the client's e2eRuntime.
ReadResponse ==
    /\ at = "response" /\ back = 0
    /\ at' = IF \/ got.type # "ConnectResponse"
                \/ got.ok /\ effectiveE2ERequired(cand) /\ cfg.serviceCA = ""
             THEN "failed" ELSE "answered"
    /\ UNCHANGED <<cfg, cand, node, back, sent, wire, cert>>

-----------------------------------------------------------------------------
(* A server's certificates, and frames of a stream. *)

\* handleE2EStream and the begin of runHandshake: the service of the request is
\* looked up, then its certificate.
PresentCertificate(name) ==
    /\ at = "server"
    /\ servicesNamed(cfg, "tcp", name) # {}
    /\ LET svc == findService(cfg, "tcp", name)
       IN  isServiceE2EConfigured(svc) /\ cert' = serviceCertificate(cfg, svc)
    /\ cand' = [NoCandidate EXCEPT !.service = name]
    /\ at' = "presented"
    /\ UNCHANGED <<cfg, node, back, sent, wire>>

\* Either end writes a message, or a client this model knows nothing of a
\* request; what does not fit is not written.
Write(m) ==
    /\ at = "stream" /\ node' = Peer
    /\ WriteMessage(m, IF m.type = "ConnectRequest" THEN "request" ELSE "frame")
    /\ UNCHANGED <<cfg, cand, back, cert>>

\* A request of an older client, without the E2E fields.
WriteLegacy(m) ==
    /\ at = "stream" /\ node' = Peer
    /\ sent' = m /\ wire' = Frame(m.type, LegacyRequest(m)) /\ at' = "request"
    /\ UNCHANGED <<cfg, cand, back, cert>>

Terminated ==
    /\ at \in {"refused", "failed", "answered", "server", "presented", "frame"}
    /\ UNCHANGED vars

Next ==
    \/ Start \/ OpenTCPStream \/ Relay \/ Respond \/ Refuse \/ RelayResponse \/ ReadResponse
    \/ \E name \in ByteStrings : PresentCertificate(name)
    \/ \E m \in Messages : Write(m)
    \/ \E m \in OldRequests : WriteLegacy(m)
    \/ Terminated

Spec == Init /\ [][Next]_vars

-----------------------------------------------------------------------------
(* Properties. *)

\* Whatever a writer of the protocol lets through, its reader decodes to the
\* same message (a response's code set right by WriteConnectResponse): their
\* limits agree, and no count or length is cut to its width.
ArrivesUnchanged == at \in {"request", "response", "frame"} => got = Normal(sent)

\* The names of a configuration that are too long for a request.
Overlong == {s \in ByteStrings : StrLen[s] > MaxTargetLength}
Names(c) == {c.service, c.egress} \cup ToSet(c.route)

\* Every request of an accepted client configuration finds a session, fits
\* its frame, is well-formed for every hop, reaches its egress and comes back
\* to a client that can go on with it, unless a name is too long to be sent.
AcceptedConfigIsServed == at = "failed" /\ cfg # NoConfig => Names(cand) \cap Overlong # {}

\* A server that started presents for a service the certificate of that
\* service's own files, issued for the name the client asked for.
CertificateOfService ==
    at = "presented" =>
        /\ ServiceCerts[cert].service = cand.service
        /\ cert = findService(cfg, "tcp", cand.service).cert
=============================================================================
