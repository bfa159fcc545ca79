-------------------------- MODULE RequestPathProofs --------------------------
(***************************************************************************)
(* Proofs about RequestPath for all configurations, names and messages: a  *)
(* message arrives as it was written, an accepted client configuration is  *)
(* served, and a server presents the certificate of the service.           *)
(***************************************************************************)
EXTENDS RequestPath, FramesProofs

-----------------------------------------------------------------------------
(* The inductive invariant. *)

\* What is on the wire is the frame of the message written last, which a
\* client that knows no E2E fields wrote without them.
Wire ==
    at \in {"request", "response", "frame"} =>
        /\ sent \in MessageTypes
        /\ \/ WriteFrameOK(sent) /\ wire = Frame(sent.type, Payload(sent))
           \/ sent \in OldRequests /\ wire = Frame(sent.type, LegacyRequest(sent))

\* Who runs has accepted its configuration.
Accepted ==
    /\ at = "load" => cfg \in Configs
    /\ at = "stream" => cfg = NoConfig
    /\ at = "client" => cfg \in Configs /\ ValidateClient(cfg)
    /\ at = "server" => cfg \in Configs /\ loadServiceCertificatesOK(cfg)

\* A request of a configuration, at any hop: short, and for this hop.
ForThisHop(m, hop) ==
    /\ m \in ConnectRequests /\ m.protocol = "tcp"
    /\ Len(m.route) <= MaxForwardRouteLength /\ Len(m.e2eRoute) <= MaxForwardRouteLength
    /\ m.route # <<>> => m.route[1] = hop /\ m.egress \in {"", Last(m.route)}
    /\ m.route = <<>> => m.egress \in {"", hop}

Underway ==
    /\ at = "request" /\ cfg # NoConfig => ForThisHop(sent, node)
    /\ at = "response" => sent \in ConnectResponses /\ WriteFrameOK(sent)
    /\ at \in {"request", "response"} /\ cfg # NoConfig =>
         (effectiveE2ERequired(cand) => cfg.serviceCA # "")

IInv == Wire /\ Accepted /\ Underway /\ AcceptedConfigIsServed /\ CertificateOfService

-----------------------------------------------------------------------------
(* What a frame on the wire says. *)

LEMMA Got ==
    ASSUME Wire, at \in {"request", "response", "frame"}
    PROVE  got = Normal(sent)
<1>1. CASE WriteFrameOK(sent) /\ wire = Frame(sent.type, Payload(sent))
  BY <1>1, RoundTrip DEF got, Wire
<1>2. CASE sent \in OldRequests /\ wire = Frame(sent.type, LegacyRequest(sent))
  <2>1. /\ sent \in ConnectRequests /\ CanWriteRequest(sent) /\ ~sent.e2eRequired
        /\ sent.e2eRoute = <<>> /\ PayloadSize(LegacyRequest(sent)) <= MaxPayloadSize
    BY <1>2, MessageAssumption
  <2> QED BY <1>2, <2>1, LegacyFrame DEF got
<1> QED BY <1>1, <1>2 DEF Wire

\* A request that is read is the one that was written, and was writable.
LEMMA GotRequest ==
    ASSUME Wire, at = "request", got.type = "ConnectRequest"
    PROVE  got = sent /\ sent \in ConnectRequests /\ CanWriteRequest(sent)
<1>1. got = Normal(sent) /\ sent \in MessageTypes BY Got DEF Wire
<1>2. sent.type = "ConnectRequest"
  <2>1. CASE sent.type # "ConnectResponse" BY <1>1, <2>1 DEF Normal
  <2>2. CASE sent.type = "ConnectResponse"
    <3>1. sent \in ConnectResponses
      BY <1>1, <2>2 DEF MessageTypes, ConnectRequests, E2EHellos, E2EData, E2ECloses,
         E2EClientFinished
    <3>2. Normal(sent).type = "ConnectResponse" BY <2>2, <3>1 DEF Normal, ConnectResponses
    <3> QED BY <1>1, <3>2
  <2> QED BY <2>1, <2>2
<1>3. sent \in ConnectRequests
  BY <1>1, <1>2 DEF MessageTypes, ConnectResponses, E2EHellos, E2EData, E2ECloses,
     E2EClientFinished
<1>4. got = sent BY <1>1, <1>2 DEF Normal
<1>5. CanWriteRequest(sent)
  <2>1. CASE WriteFrameOK(sent) BY <1>2, <2>1 DEF WriteFrameOK, CanWrite
  <2>2. CASE sent \in OldRequests BY <2>2, MessageAssumption
  <2> QED BY <2>1, <2>2 DEF Wire
<1> QED BY <1>3, <1>4, <1>5

-----------------------------------------------------------------------------
(* Accepted configurations. *)

\* The largest and the smallest of a set of places.
LEMMA MaxIn ==
    ASSUME NEW n \in Nat, NEW S, S \subseteq 1..n, S # {}
    PROVE  Max(S) \in S
<1> DEFINE T == {n - i : i \in S}
<1>1. T \subseteq Nat /\ T # {}
  <2>1. \A i \in S : n - i \in Nat
    <3>1. \A i \in 1..n : n - i \in Nat OBVIOUS
    <3> QED BY <3>1
  <2>2. PICK i \in S : TRUE OBVIOUS
  <2> QED BY <2>1, <2>2
<1>2. PICK x \in T : \A y \in T : x <= y
  <2> HIDE DEF T
  <2> QED BY <1>1, Least, Zenon
<1>3. PICK i \in S : x = n - i BY <1>2
<1>4. \A j \in S : i >= j
  <2> SUFFICES ASSUME NEW j \in S PROVE i >= j OBVIOUS
  <2>1. n - j \in T OBVIOUS
  <2>2. x <= n - j BY <1>2, <2>1
  <2>3. i \in Nat /\ j \in Nat OBVIOUS
  <2> QED BY <1>3, <2>2, <2>3
<1> QED BY <1>3, <1>4, Zenon DEF Max

LEMMA MinIn ==
    ASSUME NEW n \in Nat, NEW S, S \subseteq 1..n, S # {}
    PROVE  Min(S) \in S
<1>1. S \subseteq Nat OBVIOUS
<1>2. \E x \in S : \A y \in S : x <= y BY <1>1, Least, Zenon
<1> QED BY <1>2, Zenon DEF Min

LEMMA NonEmpty ==
    ASSUME NEW S, NEW s \in Seq(S), s # <<>>
    PROVE  Len(s) \in Nat \ {0} /\ 1 \in DOMAIN s /\ Len(s) \in DOMAIN s
OBVIOUS

\* The route of no hops.
LEMMA NoHops ==
    /\ <<>> \in Seq(ByteStrings) /\ Len(<<>>) <= MaxForwardRouteLength
    /\ \A i \in DOMAIN <<>> : FALSE
<1>1. <<>> \in Seq(ByteStrings) /\ Len(<<>>) = 0 BY EmptySeq, Zenon
<1>2. \A r \in Seq(ByteStrings) : Len(r) = 0 =>
          Len(r) <= MaxForwardRouteLength /\ \A i \in DOMAIN r : FALSE
  BY ONLY TRUE DEF MaxForwardRouteLength
<1> QED BY <1>1, <1>2, Zenon

\* What a candidate of an accepted configuration is like.
Served(c, d) ==
    /\ d.service \in ByteStrings /\ d.service # "" /\ d.egress \in ByteStrings
    /\ d.route \in Seq(ByteStrings) /\ Len(d.route) <= MaxForwardRouteLength
    /\ \A i \in DOMAIN d.route : d.route[i] # ""
    /\ selectSession(c, d) # ""
    /\ d.route # <<>> => d.route[1] = selectSession(c, d) /\ d.egress \in {"", Last(d.route)}
    /\ d.route = <<>> => d.egress \in {"", selectSession(c, d)}
    /\ effectiveE2ERequired(d) => c.serviceCA # ""

\* A forward that wants E2E has the service CA to check it.
LEMMA E2EServed ==
    ASSUME NEW c, NEW fwd, validateForwardE2E(c, fwd), NEW d,
           d.e2eMode = normalizedForwardE2E(fwd.e2e)
    PROVE  effectiveE2ERequired(d) => c.serviceCA # ""
  BY DEF validateForwardE2E, normalizedForwardE2E, effectiveE2ERequired

\* A candidate with a route, from a forward or from a service's routes.
LEMMA RoutedServed ==
    ASSUME NEW c \in Configs, ValidateClient(c), NEW fwd \in ForwardConfigs, fwd.service # "",
           validateForwardE2E(c, fwd),
           NEW route \in Seq(ByteStrings), NEW egress \in ByteStrings, route # <<>>,
           ValidRoute(c, route, IF egress = "" THEN Last(route) ELSE egress)
    PROVE  Served(c, Selected(fwd, egress, route))
<1> DEFINE d == Selected(fwd, egress, route)
<1>1. /\ d.service = fwd.service /\ d.egress = egress /\ d.route = route
      /\ d.e2eMode = normalizedForwardE2E(fwd.e2e)
  BY DEF Selected
<1>2. /\ Len(route) <= MaxForwardRouteLength /\ "" \notin ToSet(route)
      /\ route[1] \in IDs(c.servers) /\ egress \in {"", Last(route)}
  BY DEF ValidRoute, Configured
<1>3. \A i \in DOMAIN route : route[i] # "" BY <1>2 DEF ToSet
<1>4. route[1] # ""
  <2>1. 1 \in DOMAIN route BY NonEmpty
  <2> QED BY <1>3, <2>1
<1> HIDE DEF d
<1>5. selectSession(c, d) = route[1] BY <1>1, <1>2, <1>4 DEF selectSession
<1>6. effectiveE2ERequired(d) => c.serviceCA # "" BY <1>1, E2EServed
<1>7. d.service \in ByteStrings BY <1>1 DEF ForwardConfigs
<1> QED BY <1>1, <1>2, <1>3, <1>4, <1>5, <1>6, <1>7 DEF Served, d

\* A candidate without a route.
LEMMA DirectServed ==
    ASSUME NEW c \in Configs, ValidateClient(c), NEW fwd \in ForwardConfigs, fwd.service # "",
           validateForwardE2E(c, fwd), fwd.route = <<>>,
           fwd.egress \in IDs(c.servers) \/ (fwd.egress = "" /\ Len(c.servers) = 1)
    PROVE  Served(c, Selected(fwd, fwd.egress, fwd.route))
<1> DEFINE d == Selected(fwd, fwd.egress, fwd.route)
<1>1. /\ d.service = fwd.service /\ d.egress = fwd.egress /\ d.route = <<>>
      /\ d.e2eMode = normalizedForwardE2E(fwd.e2e)
  BY DEF Selected
<1>2. Named(c.servers) BY DEF ValidateClient, validateClientServers, validateConfiguredServers
<1>3. "" \notin IDs(c.servers) BY <1>2 DEF Named, IDs
<1> HIDE DEF d
<1>4. selectSession(c, d) # "" /\ d.egress \in {"", selectSession(c, d)}
  <2>1. CASE fwd.egress \in IDs(c.servers)
    BY <1>1, <1>3, <2>1 DEF selectSession
  <2>2. CASE fwd.egress = "" /\ Len(c.servers) = 1
    <3>1. selectSession(c, d) = c.servers[1].id BY <1>1, <2>2 DEF selectSession, defaultID
    <3>2. 1 \in DOMAIN c.servers
      <4>1. c.servers \in Seq(Addressed) BY DEF Configs
      <4>2. c.servers # <<>> BY DEF ValidateClient, validateClientServers
      <4> QED BY <4>1, <4>2, NonEmpty
    <3> QED BY <1>1, <1>2, <2>2, <3>1, <3>2 DEF Named
  <2> QED BY <2>1, <2>2
<1>5. effectiveE2ERequired(d) => c.serviceCA # "" BY <1>1, E2EServed
<1>6. d.service \in ByteStrings /\ d.egress \in ByteStrings BY <1>1 DEF ForwardConfigs
<1>7. /\ d.route \in Seq(ByteStrings) /\ Len(d.route) <= MaxForwardRouteLength
      /\ \A i \in DOMAIN d.route : d.route[i] # ""
  BY <1>1, NoHops, Zenon
<1> QED BY <1>1, <1>4, <1>5, <1>6, <1>7 DEF Served, d

LEMMA CandidatesServed ==
    ASSUME NEW c \in Configs, ValidateClient(c), NEW i \in DOMAIN c.forwards,
           NEW d \in ToSet(resolveCandidates(c, c.forwards[i]))
    PROVE  Served(c, d)
<1> DEFINE fwd == c.forwards[i]
<1> DEFINE R == routesOf(c, fwd)
<1> DEFINE candidates == c.routes[Max(R)].candidates
<1>0. fwd \in ForwardConfigs /\ c.routes \in Seq(ServiceRoutes) BY DEF Configs
<1>1. /\ fwd.service # "" /\ validateForwardE2E(c, fwd)
      /\ validateForwardRoute(c, fwd) /\ validateForwardEgress(c, fwd)
      /\ validateServiceRoutes(c)
  BY DEF ValidateClient
<1>2. fwd.egress \in ByteStrings /\ fwd.route \in Seq(ByteStrings)
  BY <1>0 DEF ForwardConfigs
<1> HIDE DEF fwd
<1>3. CASE fwd.route # <<>>
  <2>1. resolveCandidates(c, fwd) = <<Selected(fwd, fwd.egress, fwd.route)>>
    BY <1>3 DEF resolveCandidates
  <2>2. d = Selected(fwd, fwd.egress, fwd.route) BY <2>1 DEF ToSet, fwd
  <2>3. ValidRoute(c, fwd.route, IF fwd.egress = "" THEN Last(fwd.route) ELSE fwd.egress)
    BY <1>1, <1>3 DEF validateForwardRoute
  <2> QED BY <1>0, <1>1, <1>2, <1>3, <2>2, <2>3, RoutedServed
<1>4. CASE fwd.route = <<>> /\ (fwd.egress # "" \/ R = {})
  <2>1. resolveCandidates(c, fwd) = <<Selected(fwd, fwd.egress, fwd.route)>>
    BY <1>4 DEF resolveCandidates
  <2>2. d = Selected(fwd, fwd.egress, fwd.route) BY <2>1 DEF ToSet, fwd
  <2>3. R = {} => ~hasServiceRoute(c, fwd.protocol, fwd.service)
    BY DEF hasServiceRoute, routesOf, RouteKey
  <2>4. fwd.egress \in IDs(c.servers) \/ (fwd.egress = "" /\ Len(c.servers) = 1)
    BY <1>1, <1>4, <2>3 DEF validateForwardEgress
  <2> QED BY <1>0, <1>1, <1>4, <2>2, <2>4, DirectServed
<1>5. CASE fwd.route = <<>> /\ fwd.egress = "" /\ R # {}
  <2>1. Max(R) \in DOMAIN c.routes
    <3>1. R \subseteq 1..Len(c.routes) /\ Len(c.routes) \in Nat BY <1>0 DEF routesOf
    <3>2. Max(R) \in R
      <4> HIDE DEF R
      <4> QED BY <1>5, <3>1, MaxIn
    <3> QED BY <3>2 DEF routesOf
  <2>2. /\ candidates \in Seq(Candidates) /\ candidates # <<>>
        /\ \A j \in DOMAIN candidates :
             /\ candidates[j].egress # "" /\ candidates[j].route # <<>>
             /\ ValidRoute(c, candidates[j].route, candidates[j].egress)
    <3>1. c.routes[Max(R)] \in ServiceRoutes BY <1>0, <2>1
    <3>2. candidates \in Seq(Candidates) BY <3>1 DEF ServiceRoutes
    <3> QED BY <1>1, <2>1, <3>2 DEF validateServiceRoutes
  <2>3. resolveCandidates(c, fwd) =
          [j \in DOMAIN candidates |->
             Selected(fwd, candidates[j].egress, candidates[j].route)]
    BY <1>5, <2>2 DEF resolveCandidates
  <2> HIDE DEF candidates, R
  <2>4. PICK j \in DOMAIN candidates :
          d = Selected(fwd, candidates[j].egress, candidates[j].route)
    BY <2>3 DEF ToSet, fwd
  <2>5. candidates[j].egress \in ByteStrings /\ candidates[j].route \in Seq(ByteStrings)
    <3>1. candidates \in Seq(Candidates) BY <2>2
    <3>2. candidates[j] \in Candidates BY <2>4, <3>1
    <3> QED BY <3>2 DEF Candidates
  <2>6. /\ candidates[j].route # <<>> /\ candidates[j].egress # ""
        /\ ValidRoute(c, candidates[j].route, candidates[j].egress)
    BY <2>2, <2>4
  <2> QED BY <1>0, <1>1, <2>4, <2>5, <2>6, RoutedServed
<1> QED BY <1>3, <1>4, <1>5

\* The request of a candidate without overlong names can be written, and is
\* for the server whose session was chosen.
LEMMA RequestServed ==
    ASSUME NEW c \in Configs, NEW d, Served(c, d)
    PROVE  /\ Request(d) \in ConnectRequests /\ ForThisHop(Request(d), selectSession(c, d))
           /\ Names(d) \cap Overlong = {} => WriteFrameOK(Request(d))
<1> DEFINE m == Request(d)
<1> DEFINE e2eRoute == IF effectiveE2ERequired(d) THEN d.route ELSE <<>>
<1>0. /\ d.service \in ByteStrings /\ d.service # "" /\ d.egress \in ByteStrings
      /\ d.route \in Seq(ByteStrings) /\ Len(d.route) <= MaxForwardRouteLength
      /\ \A i \in DOMAIN d.route : d.route[i] # ""
  BY DEF Served
<1>1. /\ m.type = "ConnectRequest" /\ m.id = RequestID /\ m.protocol = "tcp"
      /\ m.service = d.service /\ m.egress = d.egress /\ m.route = d.route
      /\ m.e2eRequired = effectiveE2ERequired(d) /\ m.e2eRoute = e2eRoute
  BY DEF Request
<1>3. /\ e2eRoute \in Seq(ByteStrings) /\ Len(e2eRoute) <= MaxForwardRouteLength
      /\ e2eRoute = d.route \/ e2eRoute = <<>>
  BY <1>0, NoHops, Zenon
<1>4. m \in ConnectRequests
  <2>1. effectiveE2ERequired(d) \in BOOLEAN BY DEF effectiveE2ERequired
  <2>2. RequestID \in ByteStrings /\ "tcp" \in ByteStrings BY MessageAssumption
  <2> HIDE DEF e2eRoute
  <2>3. m = [type |-> "ConnectRequest", id |-> RequestID, protocol |-> "tcp",
             service |-> d.service, egress |-> d.egress, route |-> d.route,
             e2eRequired |-> effectiveE2ERequired(d), e2eRoute |-> e2eRoute]
    BY DEF Request, e2eRoute
  <2>4. \A e \in BOOLEAN, i, p, s, x \in ByteStrings, q, t \in Seq(ByteStrings) : \A n :
          n = [type |-> "ConnectRequest", id |-> i, protocol |-> p, service |-> s,
               egress |-> x, route |-> q, e2eRequired |-> e, e2eRoute |-> t]
            => n \in ConnectRequests
    BY ONLY TRUE DEF ConnectRequests
  <2> HIDE DEF m
  <2> QED BY <1>0, <1>3, <2>1, <2>2, <2>3, <2>4, Zenon
<1> HIDE DEF m, e2eRoute
<1>5. ForThisHop(m, selectSession(c, d))
  BY <1>0, <1>1, <1>3, <1>4, Zenon DEF ForThisHop, Served
<1>6. ASSUME Names(d) \cap Overlong = {} PROVE WriteFrameOK(m)
  <2>1. \A s \in ByteStrings : s \in Names(d) => Within(s, 0, MaxTargetLength)
                                                /\ (s # "" => Within(s, 1, MaxTargetLength))
    <3> SUFFICES ASSUME NEW s \in ByteStrings, s \in Names(d)
                 PROVE  /\ Within(s, 0, MaxTargetLength)
                        /\ s # "" => Within(s, 1, MaxTargetLength)
      OBVIOUS
    <3>1. StrLen[s] \in Nat /\ (StrLen[s] = 0 <=> s = "") BY StrLenAssumption
    <3>2. ~(StrLen[s] > MaxTargetLength) BY <1>6 DEF Overlong
    <3>3. MaxTargetLength \in Nat BY Limits
    <3>4. \A n, b \in Nat : ~(n > b) => n \in 0..b /\ (n # 0 => n \in 1..b) BY ONLY TRUE, SMT
    <3> QED BY <3>1, <3>2, <3>3, <3>4, Zenon DEF Within
  <2>2. Within(m.service, 1, MaxTargetLength) /\ Within(m.egress, 0, MaxTargetLength)
    <3>1. d.service \in Names(d) /\ d.egress \in Names(d) BY DEF Names
    <3> QED BY <1>0, <1>1, <2>1, <3>1
  <2>3. AllWithin(d.route, MaxTargetLength)
    <3>1. ASSUME NEW i \in DOMAIN d.route PROVE Within(d.route[i], 1, MaxTargetLength)
      <4>1. d.route[i] \in ByteStrings /\ d.route[i] # ""
        <5>1. \A S : \A r \in Seq(S) : \A k \in DOMAIN r : r[k] \in S BY ONLY TRUE
        <5> QED BY <1>0, <5>1, Zenon
      <4>2. d.route[i] \in Names(d) BY DEF Names, ToSet
      <4> QED BY <2>1, <4>1, <4>2
    <3> QED BY <3>1 DEF AllWithin
  <2>4. AllWithin(m.e2eRoute, MaxTargetLength)
    <3>1. CASE e2eRoute = d.route BY <1>1, <2>3, <3>1
    <3>2. CASE e2eRoute = <<>> BY <1>1, <3>2, NoHops, Zenon DEF AllWithin
    <3> QED BY <1>3, <3>1, <3>2
  <2>5. /\ Len(m.route) <= 255 /\ Len(m.route) <= 3
        /\ Len(m.e2eRoute) <= 255 /\ Len(m.e2eRoute) <= 3
    <3>1. \A r \in Seq(ByteStrings) : Len(r) <= MaxForwardRouteLength =>
              Len(r) <= 255 /\ Len(r) <= 3
      BY ONLY TRUE DEF MaxForwardRouteLength
    <3> QED BY <1>0, <1>1, <1>3, <3>1, Zenon
  <2>6. CanWriteRequest(m)
    BY <1>1, <2>2, <2>3, <2>4, <2>5, MessageAssumption, Zenon
    DEF CanWriteRequest, encodedRouteLengthOK
  <2> QED BY <1>4, <2>5, <2>6, RequestFits, Zenon
<1> QED BY <1>4, <1>5, <1>6, Zenon DEF m

LEMMA TailOf ==
    ASSUME NEW S, NEW t \in Seq(S), Len(t) > 1
    PROVE  /\ Tail(t) \in Seq(S) /\ Len(Tail(t)) = Len(t) - 1 /\ Tail(t) # <<>>
           /\ Tail(t)[1] = t[2] /\ Tail(t)[Len(Tail(t))] = t[Len(t)]
           /\ \A i \in DOMAIN Tail(t) : \E j \in DOMAIN t : Tail(t)[i] = t[j]
<1>1. /\ Tail(t) \in Seq(S) /\ Len(Tail(t)) = Len(t) - 1 /\ Tail(t) # <<>>
      /\ \A i \in 1..(Len(t) - 1) : Tail(t)[i] = t[i + 1]
  <2>1. t # <<>> BY EmptySeq
  <2>2. /\ Tail(t) \in Seq(S) /\ Len(Tail(t)) = Len(t) - 1
        /\ \A i \in 1..Len(Tail(t)) : Tail(t)[i] = t[i + 1]
    BY <2>1, HeadTailProperties
  <2>3. Tail(t) # <<>>
    <3>1. Len(<<>>) = 0 BY EmptySeq, Zenon
    <3>2. Len(Tail(t)) # 0 BY <2>2
    <3> QED BY <3>1, <3>2, Zenon
  <2> QED BY <2>2, <2>3
<1>2. Tail(t)[1] = t[2] /\ Tail(t)[Len(Tail(t))] = t[Len(t)]
  <2>1. Len(t) \in Nat /\ 1 \in 1..(Len(t) - 1) /\ Len(t) - 1 \in 1..(Len(t) - 1) OBVIOUS
  <2>2. Tail(t)[Len(t) - 1] = t[Len(t) - 1 + 1] /\ Len(t) - 1 + 1 = Len(t) BY <1>1, <2>1
  <2>3. \A j : j = 1 + 1 => Tail(t)[1] = t[j] BY <1>1, <2>1
  <2> QED BY <1>1, <2>2, <2>3
<1>3. ASSUME NEW i \in DOMAIN Tail(t) PROVE \E j \in DOMAIN t : Tail(t)[i] = t[j]
  <2>1. i \in 1..(Len(t) - 1) BY <1>1
  <2>2. i + 1 \in DOMAIN t BY <2>1
  <2> QED BY <1>1, <2>1, <2>2
<1> QED BY <1>1, <1>2, <1>3

\* A relay's request goes to the next hop, and can be written.
LEMMA Relayed ==
    ASSUME NEW m \in ConnectRequests, CanWriteRequest(m), Len(m.route) > 1
    PROVE  LET next == [m EXCEPT !.route = Tail(@)]
           IN  /\ next \in ConnectRequests /\ CanWriteRequest(next)
               /\ \A hop : ForThisHop(m, hop) =>
                    ForThisHop(next, m.route[2]) /\ WriteFrameOK(next)
<1> DEFINE r == Tail(m.route)
<1> DEFINE next == [m EXCEPT !.route = r]
<1>0. m.route \in Seq(ByteStrings) BY DEF ConnectRequests
<1>1. /\ r \in Seq(ByteStrings) /\ Len(r) = Len(m.route) - 1 /\ r # <<>>
      /\ r[1] = m.route[2] /\ Last(r) = Last(m.route)
      /\ \A i \in DOMAIN r : \E j \in DOMAIN m.route : r[i] = m.route[j]
  BY <1>0, TailOf, Zenon DEF Last
<1> HIDE DEF r
<1>2. /\ next \in ConnectRequests /\ next.type = "ConnectRequest" /\ next.id = m.id
      /\ next.protocol = m.protocol /\ next.service = m.service /\ next.egress = m.egress
      /\ next.route = r /\ next.e2eRoute = m.e2eRoute
  BY <1>1 DEF ConnectRequests
<1> HIDE DEF next
<1>3. CanWriteRequest(next)
  <2>1. Len(m.route) <= 255 /\ AllWithin(m.route, MaxTargetLength)
    BY DEF CanWriteRequest, encodedRouteLengthOK
  <2>2. Len(r) <= 255 BY <1>0, <1>1, <2>1
  <2>3. AllWithin(r, MaxTargetLength) BY <1>1, <2>1, Zenon DEF AllWithin
  <2> QED BY <1>2, <2>2, <2>3, Zenon DEF CanWriteRequest, encodedRouteLengthOK
<1>4. ASSUME NEW hop, ForThisHop(m, hop)
      PROVE  ForThisHop(next, m.route[2]) /\ WriteFrameOK(next)
  <2>1. m.route # <<>>
    <3>1. Len(<<>>) = 0 BY EmptySeq, Zenon
    <3> QED BY <3>1
  <2>2. Len(r) <= MaxForwardRouteLength /\ Len(r) <= 3 /\ Len(next.e2eRoute) <= 3
    <3>1. Len(m.route) <= 3 /\ Len(m.e2eRoute) <= 3 BY <1>4 DEF ForThisHop, MaxForwardRouteLength
    <3>2. Len(m.route) \in Nat BY <1>0
    <3>3. Len(r) <= 3 BY <1>1, <3>1, <3>2
    <3> QED BY <1>2, <3>1, <3>3 DEF MaxForwardRouteLength
  <2>3. ForThisHop(next, m.route[2])
    BY <1>1, <1>2, <1>4, <2>1, <2>2, Zenon DEF ForThisHop
  <2> QED BY <1>2, <1>3, <2>2, <2>3, RequestFits, Zenon
<1> QED BY <1>2, <1>3, <1>4, Zenon DEF next, r

-----------------------------------------------------------------------------
(* The steps. *)

\* What WriteMessage leaves on the wire.
LEMMA Written ==
    ASSUME NEW m \in MessageTypes, NEW label, label \in {"request", "response", "frame"},
           WriteMessage(m, label)
    PROVE  /\ Wire' /\ sent' = m
           /\ at' = label \/ (at' = "failed" /\ ~WriteFrameOK(m))
           /\ WriteFrameOK(m) => at' = label
  BY Zenon DEF WriteMessage, Wire

LEMMA InitIInv == Init => IInv
<1> SUFFICES ASSUME Init PROVE IInv OBVIOUS
<1>1. at \in {"load", "stream"} BY DEF Init
<1>2. Wire BY <1>1 DEF Wire
<1>3. Accepted
  <2>1. CASE at = "load" BY <2>1, ConfigAssumption DEF Init, Accepted
  <2>2. CASE at = "stream" BY <2>2 DEF Init, Accepted
  <2> QED BY <1>1, <2>1, <2>2
<1>4. Underway BY <1>1 DEF Underway
<1>5. AcceptedConfigIsServed /\ CertificateOfService
  BY <1>1 DEF AcceptedConfigIsServed, CertificateOfService
<1> QED BY <1>2, <1>3, <1>4, <1>5 DEF IInv

LEMMA StartStep == IInv /\ Start => IInv'
<1> SUFFICES ASSUME IInv, Start PROVE IInv' OBVIOUS
<1>1. cfg \in Configs /\ cfg' = cfg BY DEF IInv, Accepted, Start
<1>2. \/ at' = "client" /\ ValidateClient(cfg)
      \/ at' = "server" /\ loadServiceCertificatesOK(cfg)
      \/ at' = "refused"
  <2>1. ValidateForMode(cfg) =>
          \/ cfg.mode = "client" /\ ValidateClient(cfg)
          \/ cfg.mode = "server"
    BY DEF ValidateForMode
  <2> QED BY <2>1, Zenon DEF Start
<1>3. Wire' /\ Underway' BY <1>2 DEF Wire, Underway
<1>4. Accepted' BY <1>1, <1>2 DEF Accepted
<1>5. AcceptedConfigIsServed' /\ CertificateOfService'
  BY <1>2 DEF AcceptedConfigIsServed, CertificateOfService
<1> QED BY <1>3, <1>4, <1>5 DEF IInv

LEMMA OpenStep == IInv /\ OpenTCPStream => IInv'
<1> SUFFICES ASSUME IInv, OpenTCPStream PROVE IInv' OBVIOUS
<1>1. at = "client" /\ cfg \in Configs /\ ValidateClient(cfg) /\ cfg' = cfg
  BY DEF IInv, Accepted, OpenTCPStream
<1>2. PICK i \in DOMAIN cfg.forwards : \E c \in ToSet(resolveCandidates(cfg, cfg.forwards[i])) :
        /\ cand' = c /\ node' = selectSession(cfg, c)
        /\ IF selectSession(cfg, c) # "" THEN WriteMessage(Request(c), "request")
           ELSE at' = "failed" /\ UNCHANGED <<sent, wire>>
  BY Zenon DEF OpenTCPStream
<1>3. PICK c \in ToSet(resolveCandidates(cfg, cfg.forwards[i])) :
        /\ cand' = c /\ node' = selectSession(cfg, c)
        /\ IF selectSession(cfg, c) # "" THEN WriteMessage(Request(c), "request")
           ELSE at' = "failed" /\ UNCHANGED <<sent, wire>>
  BY <1>2, Zenon
<1>4. Served(cfg, c) BY <1>1, CandidatesServed
<1>5. /\ Request(c) \in ConnectRequests /\ ForThisHop(Request(c), selectSession(cfg, c))
      /\ Names(c) \cap Overlong = {} => WriteFrameOK(Request(c))
  BY <1>1, <1>4, RequestServed, Zenon
<1>6. WriteMessage(Request(c), "request") BY <1>3, <1>4, Zenon DEF Served
<1>7. /\ Wire' /\ sent' = Request(c)
      /\ at' = "request" \/ (at' = "failed" /\ ~WriteFrameOK(Request(c)))
  BY <1>5, <1>6, Written, Zenon DEF MessageTypes
<1>8. Underway'
  <2>1. effectiveE2ERequired(cand') => cfg'.serviceCA # ""
    BY <1>1, <1>3, <1>4, Zenon DEF Served
  <2>2. ForThisHop(sent', node') BY <1>3, <1>5, <1>7, Zenon
  <2>3. at' # "response" BY <1>7
  <2> QED BY <1>7, <2>1, <2>2, <2>3, Zenon DEF Underway
<1>9. Accepted' BY <1>7 DEF Accepted
<1>10. AcceptedConfigIsServed' BY <1>3, <1>5, <1>7, Zenon DEF AcceptedConfigIsServed
<1>11. CertificateOfService' BY <1>7 DEF CertificateOfService
<1> QED BY <1>7, <1>8, <1>9, <1>10, <1>11 DEF IInv

LEMMA RelayStep == IInv /\ Relay => IInv'
<1> SUFFICES ASSUME IInv, Relay PROVE IInv' OBVIOUS
<1>1. /\ at = "request" /\ got.type = "ConnectRequest" /\ Len(got.route) > 1
      /\ cfg' = cfg /\ cand' = cand /\ node' = got.route[2]
      /\ WriteMessage([got EXCEPT !.route = Tail(@)], "request")
  BY DEF Relay, RequestOK
<1>2. got = sent /\ sent \in ConnectRequests /\ CanWriteRequest(sent)
  BY <1>1, GotRequest, Zenon DEF IInv
<1> DEFINE next == [sent EXCEPT !.route = Tail(@)]
<1>3. /\ next \in ConnectRequests
      /\ \A hop : ForThisHop(sent, hop) =>
           ForThisHop(next, sent.route[2]) /\ WriteFrameOK(next)
  BY <1>1, <1>2, Relayed, Zenon
<1>4. WriteMessage(next, "request") BY <1>1, <1>2, Zenon
<1> HIDE DEF next
<1>5. /\ Wire' /\ sent' = next
      /\ at' = "request" \/ (at' = "failed" /\ ~WriteFrameOK(next))
  BY <1>3, <1>4, Written, Zenon DEF MessageTypes
<1>6. cfg # NoConfig => ForThisHop(next, node') /\ at' = "request"
  <2>1. cfg # NoConfig => ForThisHop(sent, node) BY <1>1 DEF IInv, Underway
  <2> QED BY <1>1, <1>2, <1>3, <1>5, <2>1, Zenon
<1>7. Underway'
  <2>1. at' # "response" BY <1>5
  <2>2. cfg # NoConfig => (effectiveE2ERequired(cand) => cfg.serviceCA # "")
    BY <1>1, Zenon DEF IInv, Underway
  <2> QED BY <1>1, <1>5, <1>6, <2>1, <2>2, Zenon DEF Underway
<1>8. Accepted' BY <1>5 DEF Accepted
<1>9. AcceptedConfigIsServed' BY <1>1, <1>5, <1>6 DEF AcceptedConfigIsServed
<1>10. CertificateOfService' BY <1>5 DEF CertificateOfService
<1> QED BY <1>5, <1>7, <1>8, <1>9, <1>10 DEF IInv

LEMMA RespondStep == IInv /\ Respond => IInv'
<1> SUFFICES ASSUME IInv, Respond PROVE IInv' OBVIOUS
<1>1. at = "request" /\ cfg' = cfg /\ cand' = cand BY DEF Respond
<1>2. PICK r \in Responses : WriteMessage(r, "response") BY DEF Respond
<1>3. r \in ConnectResponses /\ WriteFrameOK(r) BY MessageAssumption
<1>4. Wire' /\ sent' = r /\ at' = "response"
  BY <1>2, <1>3, Written, Zenon DEF MessageTypes
<1>5. Underway'
  <2>1. cfg # NoConfig => (effectiveE2ERequired(cand) => cfg.serviceCA # "")
    BY <1>1, Zenon DEF IInv, Underway
  <2>2. at' # "request" BY <1>4
  <2> QED BY <1>1, <1>3, <1>4, <2>1, <2>2, Zenon DEF Underway
<1>6. Accepted' BY <1>4 DEF Accepted
<1>7. AcceptedConfigIsServed' /\ CertificateOfService'
  BY <1>4 DEF AcceptedConfigIsServed, CertificateOfService
<1> QED BY <1>4, <1>5, <1>6, <1>7 DEF IInv

\* Nothing a client of an accepted configuration sent is refused.
LEMMA RefuseStep == IInv /\ Refuse => IInv'
<1> SUFFICES ASSUME IInv, Refuse PROVE IInv' OBVIOUS
<1>1. /\ at = "request" /\ at' = "failed" /\ cfg' = cfg
      /\ ~EgressOK /\ ~(RequestOK /\ Len(got.route) > 1)
  BY DEF Refuse
<1>2. cfg = NoConfig
  <2> SUFFICES ASSUME cfg # NoConfig PROVE FALSE OBVIOUS
  <2>1. ForThisHop(sent, node) BY <1>1 DEF IInv, Underway
  <2>2. sent \in ConnectRequests /\ sent.type = "ConnectRequest" /\ sent.protocol = "tcp"
    BY <2>1 DEF ForThisHop, ConnectRequests
  <2>3. got = sent
    <3>1. got = Normal(sent) BY <1>1, Got DEF IInv
    <3> QED BY <2>2, <3>1 DEF Normal
  <2>4. RequestOK BY <2>1, <2>2, <2>3, Zenon DEF RequestOK, validateConnectRoute, ForThisHop
  <2>5. Len(got.route) <= 1 => got.egress \in {"", node}
    <3> SUFFICES ASSUME Len(got.route) <= 1 PROVE got.egress \in {"", node} OBVIOUS
    <3>1. CASE sent.route = <<>> BY <2>1, <2>3, <3>1 DEF ForThisHop
    <3>2. CASE sent.route # <<>>
      <4>1. sent.route \in Seq(ByteStrings) BY <2>2 DEF ConnectRequests
      <4>2. Len(sent.route) \in Nat \ {0} BY <3>2, <4>1, NonEmpty, Zenon
      <4>3. Len(sent.route) = 1
        <5>1. Len(sent.route) <= 1 BY <2>3, Zenon
        <5>2. \A n \in Nat \ {0} : n <= 1 => n = 1 BY ONLY TRUE, SMT
        <5> QED BY <4>2, <5>1, <5>2, Zenon
      <4>4. Last(sent.route) = node BY <2>1, <3>2, <4>3 DEF ForThisHop, Last
      <4> QED BY <2>1, <2>3, <3>2, <4>4 DEF ForThisHop
    <3> QED BY <3>1, <3>2
  <2>6. Len(got.route) \in Nat
    <3>1. sent.route \in Seq(ByteStrings) BY <2>2 DEF ConnectRequests
    <3> QED BY <2>3, <3>1
  <2>7. Len(got.route) <= 1 \/ Len(got.route) > 1 BY <2>6
  <2> QED BY <1>1, <2>4, <2>5, <2>7, Zenon DEF EgressOK
<1>3. Wire' /\ Underway' /\ Accepted' BY <1>1 DEF Wire, Underway, Accepted
<1>4. AcceptedConfigIsServed' /\ CertificateOfService'
  BY <1>1, <1>2 DEF AcceptedConfigIsServed, CertificateOfService
<1> QED BY <1>3, <1>4 DEF IInv

\* A response in the client's or a relay's hands.
LEMMA GotResponse ==
    ASSUME IInv, at = "response"
    PROVE  /\ got \in ConnectResponses /\ got.type = "ConnectResponse"
           /\ WriteFrameOK(got) /\ got \in MessageTypes
<1>1. sent \in ConnectResponses /\ WriteFrameOK(sent) BY DEF IInv, Underway
<1>2. got = Normal(sent) BY Got DEF IInv
<1>3. got \in ConnectResponses /\ WriteFrameOK(got) BY <1>1, <1>2, ResponseFits
<1> QED BY <1>3 DEF ConnectResponses, MessageTypes

LEMMA RelayResponseStep == IInv /\ RelayResponse => IInv'
<1> SUFFICES ASSUME IInv, RelayResponse PROVE IInv' OBVIOUS
<1>1. at = "response" /\ cfg' = cfg /\ cand' = cand BY DEF RelayResponse
<1>2. /\ got \in ConnectResponses /\ got.type = "ConnectResponse"
      /\ WriteFrameOK(got) /\ got \in MessageTypes
  BY <1>1, GotResponse
<1>3. WriteMessage(got, "response") BY <1>2 DEF RelayResponse
<1>4. Wire' /\ sent' = got /\ at' = "response" BY <1>2, <1>3, Written, Zenon
<1>5. Underway'
  <2>1. cfg # NoConfig => (effectiveE2ERequired(cand) => cfg.serviceCA # "")
    BY <1>1, Zenon DEF IInv, Underway
  <2>2. at' # "request" BY <1>4
  <2> QED BY <1>1, <1>2, <1>4, <2>1, <2>2, Zenon DEF Underway
<1>6. Accepted' BY <1>4 DEF Accepted
<1>7. AcceptedConfigIsServed' /\ CertificateOfService'
  BY <1>4 DEF AcceptedConfigIsServed, CertificateOfService
<1> QED BY <1>4, <1>5, <1>6, <1>7 DEF IInv

\* The client of an accepted configuration can go on with every response.
LEMMA ReadResponseStep == IInv /\ ReadResponse => IInv'
<1> SUFFICES ASSUME IInv, ReadResponse PROVE IInv' OBVIOUS
<1>1. at = "response" /\ cfg' = cfg /\ at' \in {"failed", "answered"} BY DEF ReadResponse
<1>2. cfg # NoConfig => at' = "answered"
  <2>1. cfg # NoConfig => (effectiveE2ERequired(cand) => cfg.serviceCA # "")
    BY <1>1, Zenon DEF IInv, Underway
  <2>2. got.type = "ConnectResponse" BY <1>1, GotResponse
  <2> QED BY <2>1, <2>2, Zenon DEF ReadResponse
<1>3. Wire' /\ Underway' /\ Accepted' BY <1>1 DEF Wire, Underway, Accepted
<1>4. AcceptedConfigIsServed' /\ CertificateOfService'
  BY <1>1, <1>2 DEF AcceptedConfigIsServed, CertificateOfService
<1> QED BY <1>3, <1>4 DEF IInv

\* The first service of the name is the one whose certificate was checked at
\* start, and the cache holds this certificate under its key.
LEMMA PresentStep == ASSUME NEW name PROVE IInv /\ PresentCertificate(name) => IInv'
<1> SUFFICES ASSUME IInv, PresentCertificate(name) PROVE IInv' OBVIOUS
<1> DEFINE S == servicesNamed(cfg, "tcp", name)
<1> DEFINE svc == findService(cfg, "tcp", name)
<1>1. /\ at = "server" /\ at' = "presented" /\ cfg' = cfg /\ S # {}
      /\ isServiceE2EConfigured(svc) /\ cert' = serviceCertificate(cfg, svc)
      /\ cand' = [NoCandidate EXCEPT !.service = name]
  BY DEF PresentCertificate
<1>2. cfg.services \in Seq(ServiceConfigs) /\ loadServiceCertificatesOK(cfg)
  BY <1>1 DEF IInv, Accepted, Configs
<1>3. DOMAIN cfg.services = 1..Len(cfg.services) /\ Len(cfg.services) \in Nat BY <1>2
<1>4. Min(S) \in S
  <2>1. S \subseteq 1..Len(cfg.services) BY <1>3 DEF servicesNamed
  <2> HIDE DEF S
  <2> QED BY <1>1, <1>3, <2>1, MinIn
<1>5. /\ Min(S) \in DOMAIN cfg.services /\ svc = cfg.services[Min(S)] /\ svc.name = name
  BY <1>4, Zenon DEF servicesNamed, findService
<1>6. ServiceCerts[svc.cert].service = name
  <2>1. CertificateLoads(cfg, svc) BY <1>1, <1>2, <1>5, Zenon DEF loadServiceCertificatesOK
  <2> QED BY <1>5, <2>1 DEF CertificateLoads
<1> DEFINE K == {i \in DOMAIN cfg.services :
                   /\ isServiceE2EConfigured(cfg.services[i])
                   /\ serviceE2ECacheKey(cfg.services[i]) = serviceE2ECacheKey(svc)}
<1>7. cert' = cfg.services[Max(K)].cert BY <1>1, Zenon DEF serviceCertificate
<1>8. Max(K) \in K
  <2>1. Min(S) \in K BY <1>1, <1>5, Zenon
  <2>2. K \subseteq 1..Len(cfg.services) BY <1>3
  <2> HIDE DEF K
  <2> QED BY <1>3, <2>1, <2>2, MaxIn
<1>9. cert' = svc.cert
  <2>1. serviceE2ECacheKey(cfg.services[Max(K)]) = serviceE2ECacheKey(svc) BY <1>8, Zenon
  <2> HIDE DEF K, svc
  <2> QED BY <1>7, <2>1 DEF serviceE2ECacheKey
<1> HIDE DEF svc
<1>10. cand'.service = name BY <1>1 DEF NoCandidate
<1>11. CertificateOfService'
  <2>1. cert' = findService(cfg', "tcp", cand'.service).cert
    BY <1>1, <1>9, <1>10, Zenon DEF svc
  <2> QED BY <1>6, <1>9, <1>10, <2>1 DEF CertificateOfService
<1>12. Wire' /\ Underway' /\ Accepted' /\ AcceptedConfigIsServed'
  BY <1>1 DEF Wire, Underway, Accepted, AcceptedConfigIsServed
<1> QED BY <1>11, <1>12 DEF IInv

LEMMA WriteStep == ASSUME NEW m \in Messages PROVE IInv /\ Write(m) => IInv'
<1> SUFFICES ASSUME IInv, Write(m) PROVE IInv' OBVIOUS
<1> DEFINE label == IF m.type = "ConnectRequest" THEN "request" ELSE "frame"
<1>1. cfg = NoConfig /\ cfg' = cfg BY DEF IInv, Accepted, Write
<1>2. m \in MessageTypes /\ WriteMessage(m, label) BY MessageAssumption DEF Write
<1>3. label \in {"request", "frame"} OBVIOUS
<1> HIDE DEF label
<1>4. Wire' /\ (at' = label \/ at' = "failed") BY <1>2, <1>3, Written, Zenon
<1>5. Underway' /\ Accepted' BY <1>1, <1>3, <1>4 DEF Underway, Accepted
<1>6. AcceptedConfigIsServed' /\ CertificateOfService'
  BY <1>1, <1>3, <1>4 DEF AcceptedConfigIsServed, CertificateOfService
<1> QED BY <1>4, <1>5, <1>6 DEF IInv

LEMMA WriteLegacyStep == ASSUME NEW m \in OldRequests PROVE IInv /\ WriteLegacy(m) => IInv'
<1> SUFFICES ASSUME IInv, WriteLegacy(m) PROVE IInv' OBVIOUS
<1>1. cfg = NoConfig /\ cfg' = cfg BY DEF IInv, Accepted, WriteLegacy
<1>2. m \in MessageTypes BY MessageAssumption DEF MessageTypes
<1>3. /\ sent' = m /\ wire' = Frame(m.type, LegacyRequest(m)) /\ at' = "request"
  BY DEF WriteLegacy
<1>4. Wire' BY <1>2, <1>3 DEF Wire
<1>5. Underway' /\ Accepted' BY <1>1, <1>3 DEF Underway, Accepted
<1>6. AcceptedConfigIsServed' /\ CertificateOfService'
  BY <1>3 DEF AcceptedConfigIsServed, CertificateOfService
<1> QED BY <1>4, <1>5, <1>6 DEF IInv

LEMMA Stutter == IInv /\ UNCHANGED vars => IInv'
  BY Zenon DEF IInv, vars, Wire, Accepted, Underway, AcceptedConfigIsServed, CertificateOfService

LEMMA Step == IInv /\ [Next]_vars => IInv'
  BY StartStep, OpenStep, RelayStep, RespondStep, RefuseStep, RelayResponseStep,
     ReadResponseStep, PresentStep, WriteStep, WriteLegacyStep, Stutter, Zenon
  DEF Next, Terminated

LEMMA Invariant == Spec => []IInv
  BY InitIInv, Step, PTL DEF Spec

-----------------------------------------------------------------------------
(* Theorems. *)

\* Whatever a Write function of the protocol let through is read back as the
\* same message, at every hop, for names, routes, chains and texts of every
\* length: also a request of a client that writes no E2E fields.
THEOREM Arrives == Spec => []ArrivesUnchanged
<1>1. IInv => ArrivesUnchanged BY Got DEF IInv, ArrivesUnchanged
<1> QED BY <1>1, Invariant, PTL

\* A client configuration that passed validation is served: of every forward
\* and every candidate the request finds a session, is written unless a name
\* is too long, is accepted by every hop, and its response can be used.
THEOREM ServedConfig == Spec => []AcceptedConfigIsServed
<1>1. IInv => AcceptedConfigIsServed BY DEF IInv
<1> QED BY <1>1, Invariant, PTL

\* A server that started presents for a service the certificate of this
\* service's own files, issued for the name the client asked for.
THEOREM OwnCertificate == Spec => []CertificateOfService
<1>1. IInv => CertificateOfService BY DEF IInv
<1> QED BY <1>1, Invariant, PTL
=============================================================================
