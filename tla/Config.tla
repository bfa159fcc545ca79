------------------------------- MODULE Config -------------------------------
(***************************************************************************)
(* A node's configuration: what validation accepts (config/validate.go),   *)
(* and what the client and the server make of an accepted one: the route   *)
(* candidates of a forward (client/routes.go), the upstream session of a   *)
(* candidate (client/session.go), the service of a request and its         *)
(* certificate (server/policy.go, server/e2e.go, identity/service.go).     *)
(***************************************************************************)
EXTENDS Naturals, Sequences, SequencesExt

CONSTANTS
    HostPorts,    \* the strings net.SplitHostPort accepts
    ServiceCerts  \* the certificate files, by path: service, key and CA

MaxForwardRouteLength == 3
RouteSelectionOrdered == "ordered"
ForwardE2EModes == {"off", "auto", "always"}

Configured(strings) == "" \notin strings
IDs(entries) == {entries[i].id : i \in DOMAIN entries}
Named(entries) == \A i \in DOMAIN entries : entries[i].id # ""
DistinctIDs(entries) == IsInjective([i \in DOMAIN entries |-> entries[i].id])

-----------------------------------------------------------------------------
(* Validation. *)

validateCommon(cfg) ==
    Configured({cfg.nodeID, cfg.mode, cfg.identity.cert, cfg.identity.key, cfg.identity.ca})

validateConfiguredServers(servers) ==
    /\ Named(servers) /\ DistinctIDs(servers)
    /\ \A i \in DOMAIN servers : servers[i].address # ""

validateClientServers(cfg) == cfg.servers # <<>> /\ validateConfiguredServers(cfg.servers)

\* A route as forwards and candidates may give it, with its egress.
ValidRoute(cfg, route, egress) ==
    /\ Len(route) <= MaxForwardRouteLength /\ Configured(ToSet(route))
    /\ route[1] \in IDs(cfg.servers) /\ egress = Last(route)

RouteKey(r) == <<r.protocol, r.service>>

validateServiceRoutes(cfg) ==
    /\ \A i \in DOMAIN cfg.routes :
         LET r == cfg.routes[i]
         IN  /\ r.service # "" /\ r.protocol = "tcp"
             /\ r.selection \in {"", RouteSelectionOrdered}
             /\ r.candidates # <<>>
             /\ \A j \in DOMAIN r.candidates :
                  /\ r.candidates[j].egress # "" /\ r.candidates[j].route # <<>>
                  /\ ValidRoute(cfg, r.candidates[j].route, r.candidates[j].egress)
    /\ IsInjective([i \in DOMAIN cfg.routes |-> RouteKey(cfg.routes[i])])

\* "" is off.
validateForwardE2E(cfg, fwd) ==
    /\ fwd.e2e \in ForwardE2EModes \cup {""}
    /\ fwd.e2e \in {"auto", "always"} => cfg.serviceCA # ""

hasServiceRoute(cfg, protocol, service) ==
    <<protocol, service>> \in {RouteKey(cfg.routes[i]) : i \in DOMAIN cfg.routes}

\* Broken variant of validateForwardRoute: the egress is not compared.
validateForwardRouteOnly(cfg, fwd) ==
    fwd.route # <<>> => ValidRoute(cfg, fwd.route, Last(fwd.route))

validateForwardRoute(cfg, fwd) ==
    fwd.route # <<>> =>
        ValidRoute(cfg, fwd.route, IF fwd.egress = "" THEN Last(fwd.route) ELSE fwd.egress)

\* Without a route the egress is a server, or can be left out.
validateForwardEgress(cfg, fwd) ==
    fwd.route = <<>> =>
        \/ fwd.egress \in IDs(cfg.servers)
        \/ /\ fwd.egress = ""
           /\ Len(cfg.servers) = 1 \/ hasServiceRoute(cfg, fwd.protocol, fwd.service)

ValidateClient(cfg) ==
    /\ validateCommon(cfg) /\ cfg.mode = "client"
    /\ validateClientServers(cfg) /\ validateServiceRoutes(cfg)
    /\ cfg.forwards # <<>>
    /\ \A i \in DOMAIN cfg.forwards :
         LET fwd == cfg.forwards[i]
         IN  /\ fwd.protocol = "tcp" /\ fwd.listen \in HostPorts /\ fwd.service # ""
             /\ validateForwardE2E(cfg, fwd)
             /\ validateForwardRoute(cfg, fwd) /\ validateForwardEgress(cfg, fwd)

validateServerPeers(cfg) ==
    /\ Named(cfg.peers) /\ DistinctIDs(cfg.peers) /\ cfg.nodeID \notin IDs(cfg.peers)
    /\ \A i \in DOMAIN cfg.peers :
         cfg.peers[i].address \in IF cfg.peers[i].dial THEN HostPorts ELSE HostPorts \cup {""}

isServiceE2EConfigured(svc) == svc.cert # "" \/ svc.key # ""

validateServiceE2E(cfg, svc) ==
    isServiceE2EConfigured(svc) =>
        svc.protocol = "tcp" /\ Configured({svc.cert, svc.key, cfg.serviceCA})

ValidateServer(cfg) ==
    /\ validateCommon(cfg) /\ cfg.mode = "server" /\ cfg.listen # ""
    /\ cfg.routes = <<>> /\ cfg.servers = <<>>
    /\ validateServerPeers(cfg) /\ Configured(ToSet(cfg.allowedRelayClients))
    /\ \A i \in DOMAIN cfg.services :
         LET svc == cfg.services[i]
         IN  /\ svc.name # "" /\ svc.protocol \in {"tcp", "udp"} /\ svc.target \in HostPorts
             /\ validateServiceE2E(cfg, svc) /\ Configured(ToSet(svc.peers))

ValidateForMode(cfg) ==
    \/ cfg.mode = "client" /\ ValidateClient(cfg)
    \/ cfg.mode = "server" /\ ValidateServer(cfg)

-----------------------------------------------------------------------------
(* The client: candidates and sessions. *)

normalizedForwardE2E(mode) == IF mode = "" THEN "off" ELSE mode

Selected(fwd, egress, route) ==
    [service |-> fwd.service, egress |-> egress, route |-> route,
     e2eMode |-> normalizedForwardE2E(fwd.e2e)]

\* newRouteResolver keeps the last route of a service.
routesOf(cfg, fwd) == {i \in DOMAIN cfg.routes : RouteKey(cfg.routes[i]) = RouteKey(fwd)}

resolveCandidates(cfg, fwd) ==
    LET candidates == cfg.routes[Max(routesOf(cfg, fwd))].candidates
    IN  IF \/ fwd.route # <<>> \/ fwd.egress # ""
           \/ routesOf(cfg, fwd) = {} \/ candidates = <<>>
        THEN <<Selected(fwd, fwd.egress, fwd.route)>>
        ELSE [j \in DOMAIN candidates |->
                Selected(fwd, candidates[j].egress, candidates[j].route)]

effectiveE2ERequired(cand) ==
    cand.e2eMode = "always" \/ (cand.e2eMode = "auto" /\ Len(cand.route) > 1)

\* newUpstreamSessions: a default exists only beside a single server.
defaultID(cfg) == IF Len(cfg.servers) = 1 THEN cfg.servers[1].id ELSE ""

\* The server whose session carries the candidate; "" if none is found.
selectSession(cfg, cand) ==
    LET selector == IF cand.route # <<>> THEN cand.route[1] ELSE cand.egress
    IN  IF selector = "" THEN defaultID(cfg)
        ELSE IF selector \in IDs(cfg.servers) THEN selector ELSE ""

-----------------------------------------------------------------------------
(* The server: services and their certificates. *)

\* LoadServiceCertificate and VerifyServiceCertificate.
CertificateLoads(cfg, svc) ==
    /\ svc.cert \in DOMAIN ServiceCerts
    /\ ServiceCerts[svc.cert] = [service |-> svc.name, key |-> svc.key, ca |-> cfg.serviceCA]

loadServiceCertificatesOK(cfg) ==
    \A i \in DOMAIN cfg.services :
        isServiceE2EConfigured(cfg.services[i]) => CertificateLoads(cfg, cfg.services[i])

\* Broken variant of serviceE2ECacheKey: the files are left out.
serviceE2ECacheKeyOfName(svc) == <<svc.protocol, svc.name>>

serviceE2ECacheKey(svc) == <<svc.protocol, svc.name, svc.cert, svc.key>>

\* The files of the certificate in the cache under the service's key: that of
\* the last service with this key.
serviceCertificate(cfg, svc) ==
    cfg.services[Max({i \in DOMAIN cfg.services :
        /\ isServiceE2EConfigured(cfg.services[i])
        /\ serviceE2ECacheKey(cfg.services[i]) = serviceE2ECacheKey(svc)})].cert

\* The places of the services of that name; the first one is used.
servicesNamed(cfg, protocol, service) ==
    {i \in DOMAIN cfg.services :
        cfg.services[i].protocol = protocol /\ cfg.services[i].name = service}
findService(cfg, protocol, service) == cfg.services[Min(servicesNamed(cfg, protocol, service))]
=============================================================================
