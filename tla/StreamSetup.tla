----------------------------- MODULE StreamSetup -----------------------------
(***************************************************************************)
(* Setting up one local connection: the client tries its route candidates  *)
(* (client.go, stream.go, e2e.go), each request travels hop by hop through *)
(* the relays to the egress (server/connection.go), which authorizes it    *)
(* (policy.go), dials the service's target and, for an E2E candidate,      *)
(* completes the handshake first (server/e2e.go). Every attempt opens its  *)
(* own chain of QUIC streams, and any stream may be lost at any time; what *)
(* earlier attempts left behind runs on beside the current one.            *)
(*                                                                         *)
(* One service is requested, always with protocol "tcp". Payload is left   *)
(* out: a proxied direction is forwarded frames and its end. Neither side  *)
(* shuts down (see ClientRuntime and PeerSessions).                        *)
(***************************************************************************)
EXTENDS Naturals, Sequences, FiniteSets

CONSTANTS
    Client,         \* the client's node ID
    Nodes,          \* the servers
    NoEgress,       \* an egress left empty
    Setups,         \* the settings to start from
    MaxCandidates,  \* bound: route candidates of a setting
    MaxHops         \* bound: hops of a candidate

\* The hops a candidate's request should take. A candidate without a route
\* goes to its egress directly, or to the only server of the client.
PathOf(c, upstream) ==
    IF c.route # <<>> THEN c.route
    ELSE <<IF c.egress = NoEgress THEN upstream ELSE c.egress>>

\* The configuration of a server.
ServerConfigs ==
    [peers : SUBSET (Nodes \cup {Client}),
     allowedRelayClients : SUBSET (Nodes \cup {Client}),
     service : BOOLEAN,
     servicePeers : SUBSET (Nodes \cup {Client}),
     serviceE2E : BOOLEAN]

\* A setting: the selectedRoutes of the forward in their order, the client's
\* server for a candidate with neither route nor egress, the configuration of
\* every server, and a bound: streams are lost while fewer than that are dead.
ASSUME SetupAssumption ==
    /\ Client \notin Nodes /\ NoEgress \notin Nodes
    /\ MaxCandidates \in Nat /\ MaxHops \in Nat
    /\ \A s \in Setups :
         /\ s.candidates \in Seq([route : Seq(Nodes), e2e : BOOLEAN,
                                  egress : Nodes \cup {NoEgress}])
         /\ Len(s.candidates) \in 1..MaxCandidates
         /\ s.upstream \in Nodes /\ s.maxLost \in Nat
         /\ s.servers \in [Nodes -> ServerConfigs]
         /\ \A k \in 1..Len(s.candidates) :
              Len(PathOf(s.candidates[k], s.upstream)) <= MaxHops

\* A candidate is tried at most twice: OpenTCPStream reconnects once.
Attempts == 1..(2 * MaxCandidates)

\* Stream <<a, i>> is the i-th hop of attempt a.
Streams == Attempts \X (1..MaxHops)
NextHop(h) == <<h[1], h[2] + 1>>

VARIABLES
    setup,        \* the setting
    client,       \* the client's place in handleLocalConnection
    att, cand, retried, \* its attempt, candidate and second try of the latter
    node, peer,   \* server end of a stream; authenticated ID of the other end
    up, down,     \* frames on the way to the server and back
    dead,         \* streams that were reset or whose connection was lost
    pc, req,      \* each stream's handleStream: its place and request
    target,       \* its TCP connection to the service
    ended,        \* directions its proxy has finished
    verdict,      \* the code it decided on by itself
    candOf        \* the candidate an attempt is for

clientVars == <<client, att, cand, retried, candOf>>
linkVars == <<node, peer, up, down, dead>>
handlerVars == <<pc, req, target, ended, verdict>>
vars == <<setup, client, att, cand, retried, candOf, node, peer, up, down, dead,
          pc, req, target, ended, verdict>>

Candidates == setup.candidates
cfg == setup.servers
Path(c) == PathOf(c, setup.upstream)

NoRequest == [route |-> <<>>, egress |-> NoEgress, e2e |-> FALSE, e2eRoute |-> <<>>]

Init ==
    /\ setup \in Setups
    /\ client = "open" /\ att = 1 /\ cand = 1 /\ retried = FALSE
    /\ candOf = [a \in Attempts |-> 1]
    /\ node = [h \in Streams |-> setup.upstream] /\ peer = [h \in Streams |-> Client]
    /\ up = [h \in Streams |-> <<>>] /\ down = [h \in Streams |-> <<>>]
    /\ dead = {}
    /\ pc = [h \in Streams |-> "none"] /\ req = [h \in Streams |-> NoRequest]
    /\ target = [h \in Streams |-> "none"] /\ ended = [h \in Streams |-> {}]
    /\ verdict = [h \in Streams |-> "none"]

-----------------------------------------------------------------------------
(* Frames. *)

Frame(type, arg) == [type |-> type, arg |-> arg]
Fin == Frame("fin", "none")
Response(code) == Frame("response", code)
E2EClose(code) == Frame("close", code)

Is(q, type) == q # <<>> /\ Head(q).type = type

\* The stream ended where a frame was expected.
UpEnded(h) == h \in dead \/ Is(up[h], "fin")
DownEnded(h) == h \in dead \/ Is(down[h], "fin")

Pop(queue, h) == [queue EXCEPT ![h] = Tail(@)]
Push(queue, h, frames) == [queue EXCEPT ![h] = @ \o frames]

\* Frames written to a lost stream go nowhere.
Answer(h, frames) == IF h \in dead THEN UNCHANGED down
                     ELSE down' = Push(down, h, frames)

-----------------------------------------------------------------------------
(* The client: handleLocalConnection. *)

Candidate == Candidates[cand]
First == <<att, 1>>

\* e2e.Context of the client: the service and request ID are those of the
\* request throughout.
ClientContext(c) == [egress |-> c.egress, route |-> c.route]

\* What OpenTCPStream sends; the transcript's route goes along unchanged.
ConnectRequest(c) ==
    [route |-> c.route, egress |-> c.egress, e2e |-> c.e2e,
     e2eRoute |-> IF c.e2e THEN c.route ELSE <<>>]

OpenTCPStream ==
    /\ client = "open"
    /\ node' = [node EXCEPT ![First] = Path(Candidate)[1]]
    /\ up' = Push(up, First, <<Frame("request", ConnectRequest(Candidate))>>)
    /\ pc' = [pc EXCEPT ![First] = "read"]
    /\ candOf' = [candOf EXCEPT ![att] = cand]
    /\ client' = "response"
    /\ UNCHANGED <<setup, att, cand, retried, peer, down, dead, req, target, ended,
                   verdict>>

RetryableCodes == {"UNREACHABLE_EGRESS", "NEXT_HOP_UNREACHABLE", "TARGET_DIAL_FAILED"}

\* Broken variant of isRetryableSetupError: every rejection is.
RetryEveryRejection(e) == e # "OK"

\* isRetryableSetupError: of the rejections only these; any other error is.
isRetryableSetupError(e) == e \in RetryableCodes \cup {"error"}

\* Broken variant of NextCandidate: one candidate too many.
NextCandidatePastEnd(e) ==
    /\ retried' = FALSE
    /\ IF isRetryableSetupError(e) /\ cand <= Len(Candidates)
       THEN client' = "open" /\ att' = att + 1 /\ cand' = cand + 1
       ELSE client' = "closed" /\ UNCHANGED <<att, cand>>

\* The candidate failed: the next one, or the end of the local connection.
NextCandidate(e) ==
    /\ retried' = FALSE
    /\ IF isRetryableSetupError(e) /\ cand < Len(Candidates)
       THEN client' = "open" /\ att' = att + 1 /\ cand' = cand + 1
       ELSE client' = "closed" /\ UNCHANGED <<att, cand>>

\* Without a connection no stream is opened and no second try is made.
NoConnection ==
    /\ client = "open"
    /\ NextCandidate("error")
    /\ UNCHANGED <<setup, candOf, linkVars, handlerVars>>

\* Broken variant of ResponseOK: an E2E stream is used without a handshake.
ResponseOKSkipsHandshake ==
    /\ client = "response" /\ Is(down[First], "response")
    /\ Head(down[First]).arg = "OK"
    /\ down' = Pop(down, First)
    /\ client' = "proxy"
    /\ UNCHANGED <<setup, att, cand, retried, candOf, node, peer, up, dead,
                   handlerVars>>

\* ReadConnectResponse in OpenTCPStream.
ResponseOK ==
    /\ client = "response" /\ Is(down[First], "response")
    /\ Head(down[First]).arg = "OK"
    /\ down' = Pop(down, First)
    /\ client' = IF Candidate.e2e THEN "clientHello" ELSE "proxy"
    /\ UNCHANGED <<setup, att, cand, retried, candOf, node, peer, up, dead,
                   handlerVars>>

ResponseRejected ==
    /\ client = "response" /\ Is(down[First], "response")
    /\ Head(down[First]).arg # "OK"
    /\ down' = Pop(down, First)
    /\ up' = Push(up, First, <<Fin>>)
    /\ NextCandidate(Head(down[First]).arg)
    /\ UNCHANGED <<setup, candOf, node, peer, dead, handlerVars>>

\* The streams of the client's connection to server n: sessions keep one
\* connection per server, and an earlier one was closed with its streams.
ConnectionTo(n) == {h \in Streams : h[2] = 1 /\ pc[h] # "none" /\ node[h] = n}

\* The stream broke: the session drops its connection, and every stream of
\* the connection with it, reconnects and tries once more.
ResponseLost ==
    /\ client = "response" /\ DownEnded(First)
    /\ up' = Push(up, First, <<Fin>>)
    /\ IF retried
       THEN NextCandidate("error") /\ UNCHANGED dead
       ELSE /\ retried' = TRUE /\ att' = att + 1 /\ client' = "open"
            /\ dead' = dead \cup ConnectionTo(node[First])
            /\ UNCHANGED cand
    /\ UNCHANGED <<setup, candOf, node, peer, down, handlerVars>>

\* runHandshake.
SendClientHello ==
    /\ client = "clientHello" /\ First \notin dead
    /\ up' = Push(up, First, <<Frame("clientHello", ClientContext(Candidate))>>)
    /\ client' = "serverHello"
    /\ UNCHANGED <<setup, att, cand, retried, candOf, node, peer, down, dead,
                   handlerVars>>

\* VerifyServerHello succeeds only on a signature over the same context.
ServerHelloOK ==
    /\ client = "serverHello" /\ Is(down[First], "serverHello")
    /\ Head(down[First]).arg = ClientContext(Candidate)
    /\ down' = Pop(down, First)
    /\ up' = Push(up, First, <<Frame("clientFinished", "none")>>)
    /\ client' = "proxy"
    /\ UNCHANGED <<setup, att, cand, retried, candOf, node, peer, dead, handlerVars>>

\* An E2EClose carries the code of a rejection (e2eSetupError); a certificate
\* that does not verify and a lost stream are other errors.
HandshakeFail ==
    /\ client \in {"clientHello", "serverHello"}
    /\ \/ /\ client = "serverHello" /\ Is(down[First], "close")
          /\ NextCandidate(Head(down[First]).arg)
       \/ /\ client = "serverHello" /\ Is(down[First], "serverHello")
          /\ NextCandidate("error")
       \/ DownEnded(First) /\ NextCandidate("error")
    /\ up' = Push(up, First, <<Fin>>)
    /\ UNCHANGED <<setup, candOf, node, peer, down, dead, handlerVars>>

\* Broken variant of ProxyAborted: a proxy that breaks fails over.
ProxyAbortedFailsOver ==
    /\ client \in {"proxy", "drain"}
    /\ dead' = dead \cup {First}
    /\ NextCandidate("error")
    /\ UNCHANGED <<setup, candOf, node, peer, up, down, handlerVars>>

\* The client's proxy: the local application half-closes and the stream's end
\* is awaited, or either side breaks and both are aborted.
LocalEOF ==
    /\ client = "proxy"
    /\ up' = Push(up, First, <<Fin>>)
    /\ client' = "drain"
    /\ UNCHANGED <<setup, att, cand, retried, candOf, node, peer, down, dead,
                   handlerVars>>

ProxyDone ==
    /\ client = "drain" /\ DownEnded(First)
    /\ client' = "closed"
    /\ UNCHANGED <<setup, att, cand, retried, candOf, linkVars, handlerVars>>

ProxyAborted ==
    /\ client \in {"proxy", "drain"}
    /\ dead' = dead \cup {First}
    /\ client' = "closed"
    /\ UNCHANGED <<setup, att, cand, retried, candOf, node, peer, up, down,
                   handlerVars>>

handleLocalConnection ==
    \/ OpenTCPStream \/ NoConnection
    \/ ResponseOK \/ ResponseRejected \/ ResponseLost
    \/ SendClientHello \/ ServerHelloOK \/ HandshakeFail
    \/ LocalEOF \/ ProxyDone \/ ProxyAborted

-----------------------------------------------------------------------------
(* A server's policy. *)

Among(id, list) == list = {} \/ id \in list

validateConnectRoute(n, r) ==
    r.route # <<>> =>
        /\ r.route[1] = n
        /\ r.egress \in {NoEgress, r.route[Len(r.route)]}

authorizeRelayIngress(n, id) == Among(id, cfg[n].allowedRelayClients)
requireConfiguredPeer(n, id) == id \in cfg[n].peers
findService(n) == cfg[n].service
authorizeServicePeer(n, id) == Among(id, cfg[n].servicePeers)
isServiceE2EConfigured(n) == cfg[n].serviceE2E

\* The checks of handleStream in their order: a rejection's code, or how the
\* request is served.
Decide(n, id, r) ==
    IF ~validateConnectRoute(n, r) THEN "ROUTE_INVALID"
    ELSE IF Len(r.route) > 1
         THEN IF authorizeRelayIngress(n, id) THEN "relay" ELSE "ACCESS_DENIED"
    ELSE IF Len(r.route) = 1 /\ ~requireConfiguredPeer(n, id) THEN "ACCESS_DENIED"
    ELSE IF r.egress \notin {NoEgress, n} THEN "UNREACHABLE_EGRESS"
    ELSE IF ~findService(n) THEN "SERVICE_NOT_FOUND"
    ELSE IF r.e2e THEN IF isServiceE2EConfigured(n) THEN "e2e" ELSE "ACCESS_DENIED"
    ELSE IF ~authorizeServicePeer(n, id) THEN "ACCESS_DENIED"
    ELSE IF isServiceE2EConfigured(n) /\ r.route # <<>> THEN "ACCESS_DENIED"
    ELSE "plain"

-----------------------------------------------------------------------------
(* A server: handleStream for stream h. *)

Goto(h, label) == pc' = [pc EXCEPT ![h] = label]

\* A rejection is answered, and the stream closed.
Reject(h, frame) ==
    /\ Answer(h, <<frame, Fin>>)
    /\ verdict' = [verdict EXCEPT ![h] = frame.arg]
    /\ Goto(h, "end")

ReadConnectRequest(h) ==
    /\ pc[h] = "read" /\ Is(up[h], "request")
    /\ LET r == Head(up[h]).arg
           d == Decide(node[h], peer[h], r)
       IN  /\ req' = [req EXCEPT ![h] = r]
           /\ CASE d = "relay" -> Goto(h, "openNext") /\ UNCHANGED <<down, verdict>>
                [] d = "plain" -> Goto(h, "dial") /\ UNCHANGED <<down, verdict>>
                [] d = "e2e" -> /\ Answer(h, <<Response("OK")>>)
                                /\ Goto(h, IF h \in dead THEN "end" ELSE "hello")
                                /\ UNCHANGED verdict
                [] OTHER -> Reject(h, Response(d))
    /\ up' = Pop(up, h)
    /\ UNCHANGED <<setup, clientVars, node, peer, dead, target, ended>>

ReadRequestFail(h) ==
    /\ pc[h] = "read" /\ UpEnded(h)
    /\ Answer(h, <<Fin>>)
    /\ Goto(h, "end")
    /\ UNCHANGED <<setup, clientVars, node, peer, up, dead, req, target, ended,
                   verdict>>

\* handlePlaintextServiceStream.
DialTarget(h) ==
    /\ pc[h] = "dial"
    /\ \/ /\ target' = [target EXCEPT ![h] = "open"]
          /\ Goto(h, "answer") /\ UNCHANGED <<down, verdict>>
       \/ Reject(h, Response("TARGET_DIAL_FAILED")) /\ UNCHANGED target
    /\ UNCHANGED <<setup, clientVars, node, peer, up, dead, req, ended>>

WriteOK(h) ==
    /\ pc[h] = "answer"
    /\ Answer(h, <<Response("OK")>>)
    /\ IF h \in dead
       THEN Goto(h, "end") /\ target' = [target EXCEPT ![h] = "closed"]
       ELSE Goto(h, "proxy") /\ UNCHANGED target
    /\ UNCHANGED <<setup, clientVars, node, peer, up, dead, req, ended, verdict>>

\* Broken variant of ServerContext: the shortened route is used.
ServerContextOfHop(r) == [egress |-> r.egress, route |-> r.route]

\* The server's runHandshake. The transcript's route is E2ERoute, or the
\* request's own route where that is empty (nil).
ServerContext(r) ==
    [egress |-> r.egress, route |-> IF r.e2eRoute # <<>> THEN r.e2eRoute ELSE r.route]

\* Broken variant of ReadClientHello: the hop before is authorized in place of
\* the client.
ReadClientHelloOfHop(h) ==
    /\ pc[h] = "hello" /\ Is(up[h], "clientHello")
    /\ IF authorizeServicePeer(node[h], peer[h])
       THEN Goto(h, "e2eDial") /\ UNCHANGED <<down, verdict>>
       ELSE Reject(h, E2EClose("ACCESS_DENIED"))
    /\ up' = Pop(up, h)
    /\ UNCHANGED <<setup, clientVars, node, peer, dead, req, target, ended>>

\* VerifyClientHello, then authorizeServicePeer for the original client. A
\* hello over another context does not verify; one over the same context may
\* fail too, by its certificate.
ReadClientHello(h) ==
    /\ pc[h] = "hello" /\ Is(up[h], "clientHello")
    /\ LET agree == Head(up[h]).arg = ServerContext(req[h])
       IN  \/ Reject(h, E2EClose("INTERNAL_ERROR"))
           \/ /\ agree /\ ~authorizeServicePeer(node[h], Client)
              /\ Reject(h, E2EClose("ACCESS_DENIED"))
           \/ /\ agree /\ authorizeServicePeer(node[h], Client)
              /\ Goto(h, "e2eDial") /\ UNCHANGED <<down, verdict>>
    /\ up' = Pop(up, h)
    /\ UNCHANGED <<setup, clientVars, node, peer, dead, req, target, ended>>

\* beforeServerHello dials the target.
E2EDialTarget(h) ==
    /\ pc[h] = "e2eDial"
    /\ \/ /\ target' = [target EXCEPT ![h] = "open"]
          /\ Goto(h, "serverHello") /\ UNCHANGED <<down, verdict>>
       \/ Reject(h, E2EClose("TARGET_DIAL_FAILED")) /\ UNCHANGED target
    /\ UNCHANGED <<setup, clientVars, node, peer, up, dead, req, ended>>

SendServerHello(h) ==
    /\ pc[h] = "serverHello" /\ h \notin dead
    /\ down' = Push(down, h, <<Frame("serverHello", ServerContext(req[h]))>>)
    /\ Goto(h, "finished")
    /\ UNCHANGED <<setup, clientVars, node, peer, up, dead, req, target, ended,
                   verdict>>

ReadClientFinished(h) ==
    /\ pc[h] = "finished" /\ Is(up[h], "clientFinished")
    /\ up' = Pop(up, h)
    /\ Goto(h, "proxy")
    /\ UNCHANGED <<setup, clientVars, node, peer, down, dead, req, target, ended,
                   verdict>>

\* Broken variant of E2EFail: the target stays connected.
E2EFailKeepsTarget(h) ==
    /\ \/ pc[h] \in {"hello", "finished"} /\ UpEnded(h)
       \/ pc[h] = "serverHello"
    /\ Reject(h, E2EClose("INTERNAL_ERROR"))
    /\ UNCHANGED <<setup, clientVars, node, peer, up, dead, req, target, ended>>

\* A frame that could not be read, or a server hello that could not be signed
\* or written: handleE2EStream closes the target it may have dialed and reports
\* the error. The keys of two honest ends always give the traffic keys.
E2EFail(h) ==
    /\ \/ pc[h] \in {"hello", "finished"} /\ UpEnded(h)
       \/ pc[h] = "serverHello"
    /\ target' = [target EXCEPT ![h] = IF @ = "open" THEN "closed" ELSE @]
    /\ Reject(h, E2EClose("INTERNAL_ERROR"))
    /\ UNCHANGED <<setup, clientVars, node, peer, up, dead, req, ended>>

-----------------------------------------------------------------------------
(* handleRelayStream. *)

Forwarded(r) == [r EXCEPT !.route = Tail(@)]

\* peers.OpenStream gives a stream authenticated as the next hop, which has to
\* be a configured peer; the request is forwarded with its route shortened.
OpenNext(h) ==
    /\ pc[h] = "openNext" /\ req[h].route[2] \in cfg[node[h]].peers
    /\ node' = [node EXCEPT ![NextHop(h)] = req[h].route[2]]
    /\ peer' = [peer EXCEPT ![NextHop(h)] = node[h]]
    /\ up' = Push(up, NextHop(h), <<Frame("request", Forwarded(req[h]))>>)
    /\ pc' = [pc EXCEPT ![h] = "waitNext", ![NextHop(h)] = "read"]
    /\ UNCHANGED <<setup, clientVars, down, dead, req, target, ended, verdict>>

OpenNextFail(h) ==
    /\ pc[h] = "openNext"
    /\ Reject(h, Response("NEXT_HOP_UNREACHABLE"))
    /\ UNCHANGED <<setup, clientVars, node, peer, up, dead, req, target, ended>>

\* The response is passed on. If that fails or it is a rejection, both streams
\* are closed, the outbound one by the deferred Close.
RelayResponse(h) ==
    /\ pc[h] = "waitNext" /\ Is(down[NextHop(h)], "response")
    /\ LET resp == Head(down[NextHop(h)])
           ok == resp.arg = "OK" /\ h \notin dead
           popped == Pop(down, NextHop(h))
       IN  /\ down' = IF h \in dead THEN popped
                      ELSE Push(popped, h, IF ok THEN <<resp>> ELSE <<resp, Fin>>)
           /\ up' = IF ok THEN up ELSE Push(up, NextHop(h), <<Fin>>)
           /\ Goto(h, IF ok THEN "relay" ELSE "end")
    /\ UNCHANGED <<setup, clientVars, node, peer, dead, req, target, ended, verdict>>

\* Broken variant of RelayResponseLost: the relay goes on waiting.
RelayKeepsWaiting(h) ==
    /\ pc[h] = "waitNext" /\ DownEnded(NextHop(h))
    /\ UNCHANGED vars

RelayResponseLost(h) ==
    /\ pc[h] = "waitNext" /\ DownEnded(NextHop(h))
    /\ Reject(h, Response("NEXT_HOP_UNREACHABLE"))
    /\ up' = Push(up, NextHop(h), <<Fin>>)
    /\ UNCHANGED <<setup, clientVars, node, peer, dead, req, target, ended>>

-----------------------------------------------------------------------------
(* The servers' proxies, as ProxyIO has them: an end is passed on, an error   *)
(* aborts both sides, and the handler ends when both directions have.         *)

Finish(h, direction) ==
    /\ ended' = [ended EXCEPT ![h] = @ \cup {direction}]
    /\ Goto(h, IF ended[h] \cup {direction} = {"up", "down"} THEN "end" ELSE pc[h])

\* A relay copies one frame in either direction.
RelayUp(h) ==
    /\ pc[h] = "relay" /\ up[h] # <<>> /\ "up" \notin ended[h]
    /\ up' = Push(Pop(up, h), NextHop(h), <<Head(up[h])>>)
    /\ IF Is(up[h], "fin") THEN Finish(h, "up") ELSE UNCHANGED <<ended, pc>>
    /\ UNCHANGED <<setup, clientVars, node, peer, down, dead, req, target, verdict>>

RelayDown(h) ==
    /\ pc[h] = "relay" /\ down[NextHop(h)] # <<>> /\ "down" \notin ended[h]
    /\ down' = Push(Pop(down, NextHop(h)), h, <<Head(down[NextHop(h)])>>)
    /\ IF Is(down[NextHop(h)], "fin") THEN Finish(h, "down")
       ELSE UNCHANGED <<ended, pc>>
    /\ UNCHANGED <<setup, clientVars, node, peer, up, dead, req, target, verdict>>

RelayAbort(h) ==
    /\ pc[h] = "relay" /\ {h, NextHop(h)} \cap dead # {}
    /\ dead' = dead \cup {h, NextHop(h)}
    /\ Goto(h, "end")
    /\ UNCHANGED <<setup, clientVars, node, peer, up, down, req, target, ended,
                   verdict>>

\* The egress proxies between the stream and the target, which is closed when
\* the handler ends.
CloseTarget(h) ==
    target' = [target EXCEPT ![h] = IF pc'[h] = "end" THEN "closed" ELSE @]

EgressUp(h) ==
    /\ pc[h] = "proxy" /\ Is(up[h], "fin") /\ "up" \notin ended[h]
    /\ up' = Pop(up, h)
    /\ Finish(h, "up") /\ CloseTarget(h)
    /\ UNCHANGED <<setup, clientVars, node, peer, down, dead, req, verdict>>

\* The service ends its side.
TargetEOF(h) ==
    /\ pc[h] = "proxy" /\ "down" \notin ended[h]
    /\ Answer(h, <<Fin>>)
    /\ Finish(h, "down") /\ CloseTarget(h)
    /\ UNCHANGED <<setup, clientVars, node, peer, up, dead, req, verdict>>

\* The stream is lost, or the target's connection breaks.
EgressAbort(h) ==
    /\ pc[h] = "proxy"
    /\ dead' = dead \cup {h}
    /\ Goto(h, "end") /\ CloseTarget(h)
    /\ UNCHANGED <<setup, clientVars, node, peer, up, down, req, ended, verdict>>

\* Of the steps of a handler, the ones it takes without the service's help.
Serve(h) ==
    \/ ReadConnectRequest(h) \/ ReadRequestFail(h) \/ DialTarget(h) \/ WriteOK(h)
    \/ ReadClientHello(h) \/ E2EDialTarget(h) \/ SendServerHello(h)
    \/ ReadClientFinished(h) \/ E2EFail(h)
    \/ OpenNext(h) \/ OpenNextFail(h) \/ RelayResponse(h) \/ RelayResponseLost(h)
    \/ RelayUp(h) \/ RelayDown(h) \/ RelayAbort(h) \/ EgressUp(h)

handleStream(h) == Serve(h) \/ TargetEOF(h) \/ EgressAbort(h)

-----------------------------------------------------------------------------

\* A stream is reset, or the connection below it is lost.
LoseStream(h) ==
    /\ pc[h] # "none" /\ h \notin dead /\ Cardinality(dead) < setup.maxLost
    /\ dead' = dead \cup {h}
    /\ UNCHANGED <<setup, clientVars, node, peer, up, down, handlerVars>>

Terminated ==
    /\ client = "closed" /\ \A h \in Streams : pc[h] \in {"none", "end"}
    /\ UNCHANGED vars

Next ==
    \/ handleLocalConnection
    \/ \E h \in Streams : handleStream(h) \/ LoseStream(h)
    \/ Terminated

Spec == Init /\ [][Next]_vars

\* A relay in peers.OpenStream for a configured peer: OpenStreamSync has no
\* timeout and may wait for ever for a stream that the peer's limit does not
\* grant.
AwaitsCredit(h) == pc[h] = "openNext" /\ req[h].route[2] \in cfg[node[h]].peers

\* The client and the handlers run, dials end by their timeout, the service
\* closes its side once it has seen the end of the other (TargetEOF), and a
\* proxy notices a lost stream. Nothing makes the local application finish,
\* and nothing grants a stream, to a relay or to the client (OpenTCPStream).
FairSpec ==
    /\ Spec
    /\ WF_vars(ResponseOK \/ ResponseRejected \/ ResponseLost \/ SendClientHello
               \/ ServerHelloOK \/ HandshakeFail \/ ProxyDone)
    /\ \A h \in Streams :
         /\ WF_vars(~AwaitsCredit(h) /\ Serve(h))
         /\ WF_vars("up" \in ended[h] /\ TargetEOF(h))
         /\ WF_vars(h \in dead /\ EgressAbort(h))

-----------------------------------------------------------------------------
(* Properties. *)

Codes == {"OK", "ROUTE_INVALID", "ACCESS_DENIED", "UNREACHABLE_EGRESS",
          "SERVICE_NOT_FOUND", "TARGET_DIAL_FAILED", "NEXT_HOP_UNREACHABLE",
          "INTERNAL_ERROR"}

Requests == [route : Seq(Nodes), egress : Nodes \cup {NoEgress}, e2e : BOOLEAN,
             e2eRoute : Seq(Nodes)]

\* The type of every variable.
TypeOK ==
    /\ setup \in Setups
    /\ client \in {"open", "response", "clientHello", "serverHello", "proxy",
                   "drain", "closed"}
    /\ att \in Attempts /\ cand \in 1..Len(Candidates) /\ retried \in BOOLEAN
    /\ candOf \in [Attempts -> 1..Len(Candidates)]
    /\ node \in [Streams -> Nodes] /\ peer \in [Streams -> Nodes \cup {Client}]
    /\ dead \in SUBSET Streams
    /\ pc \in [Streams -> {"none", "read", "dial", "answer", "hello", "e2eDial",
                           "serverHello", "finished", "openNext", "waitNext",
                           "relay", "proxy", "end"}]
    /\ req \in [Streams -> Requests]
    /\ target \in [Streams -> {"none", "open", "closed"}]
    /\ ended \in [Streams -> SUBSET {"up", "down"}]
    /\ verdict \in [Streams -> Codes \cup {"none"}]
    /\ \A h \in Streams : \A i \in 1..Len(up[h]) :
         up[h][i].type \in {"request", "clientHello", "clientFinished", "fin"}
    /\ \A h \in Streams : \A i \in 1..Len(down[h]) :
         down[h][i].type \in {"response", "serverHello", "close", "fin"}

CandidateOf(h) == Candidates[candOf[h[1]]]
Sender(h) == IF h[2] = 1 THEN Client ELSE Path(CandidateOf(h))[h[2] - 1]

\* A service's target is dialed only if every hop's policy admits the request:
\* each relay admits the hop before it, a routed request reaches the egress
\* from a configured peer, and the service admits the hop before it or, end to
\* end, the client; a routed plaintext request never reaches an E2E service.
TargetAuthorized ==
    \A h \in Streams : target[h] # "none" =>
        LET c == CandidateOf(h)
            n == Path(c)[h[2]]
        IN  /\ h[2] = Len(Path(c)) /\ node[h] = n
            /\ \A i \in 1..(h[2] - 1) :
                 LET relay == Path(c)[i]
                 IN  Among(Sender(<<h[1], i>>), cfg[relay].allowedRelayClients)
            /\ c.route # <<>> => Sender(h) \in cfg[n].peers
            /\ cfg[n].service
            /\ IF c.e2e
               THEN cfg[n].serviceE2E /\ Among(Client, cfg[n].servicePeers)
               ELSE /\ Among(Sender(h), cfg[n].servicePeers)
                    /\ cfg[n].serviceE2E => c.route = <<>>

\* The client proxies only on an attempt whose egress has reached the target:
\* a success is never reported by a hop before the last.
ProxyMeansTarget ==
    client \in {"proxy", "drain"} => target[<<att, Len(Path(Candidate))>>] # "none"

\* Client and egress build the same transcript, however many hops have
\* shortened the route in between.
TranscriptsAgree ==
    \A h \in Streams : pc[h] = "hello" =>
        ServerContext(req[h]) = ClientContext(CandidateOf(h))

\* A policy decision against the client is final: unless a stream of that
\* attempt was lost, no other attempt follows a denial.
DenialStopsFailover ==
    \A h \in Streams :
        (/\ verdict[h] \in {"ACCESS_DENIED", "SERVICE_NOT_FOUND", "ROUTE_INVALID"}
         /\ h[1] < att)
            => \E i \in 1..MaxHops : <<h[1], i>> \in dead

\* The end-to-end handshake is final: an egress goes on to proxying only for
\* the attempt the client ended with, so that after a handshake no failover,
\* whatever breaks the proxy, has a second service work on the connection.
HandshakeIsFinal ==
    \A h \in Streams : pc[h] = "proxy" /\ CandidateOf(h).e2e => h[1] = att

\* Every setup ends, whatever is lost on the way: the client is left waiting
\* for a response only behind a relay that waits for a stream to its next hop,
\* with every stream between the two intact, and never for a handshake frame.
SetupEnds ==
    client \in {"response", "clientHello", "serverHello"} ~>
        (\/ client \in {"open", "proxy", "closed"}
         \/ [](/\ client = "response"
               /\ \E i \in 1..MaxHops :
                    /\ AwaitsCredit(<<att, i>>)
                    /\ \A j \in 1..i : <<att, j>> \notin dead))

\* Once the local connection is closed, every target connection made for it is
\* closed too, the ones of abandoned attempts included.
TargetsReleased == client = "closed" ~> \A h \in Streams : target[h] # "open"
=============================================================================
