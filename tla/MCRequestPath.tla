---------------------------- MODULE MCRequestPath ----------------------------
(* RequestPath for two upstream servers A and B, with names, routes and
   messages at the protocol's limits. A name "l<n>" is n bytes long. *)
EXTENDS RequestPath, TLC

Lengths ==
    [A |-> 1, B |-> 1, X |-> 1, web |-> 3, db |-> 2, tcp |-> 3, uuid |-> 16,
     l24 |-> 24, l25 |-> 25, l32 |-> 32, l33 |-> 33, l4096 |-> 4096, l4097 |-> 4097,
     l8192 |-> 8192, l8193 |-> 8193, l16384 |-> 16384, l16385 |-> 16385,
     l65508 |-> 65508, l65509 |-> 65509, l65531 |-> 65531, l65532 |-> 65532]
        @@ ("" :> 0)

MCHostPorts == {"h:1"}

\* web.pem has a key file of its own, and web2.pem the same service.
MCServiceCerts ==
    [f \in {"web.pem", "web2.pem", "db.pem"} |->
        [service |-> IF f = "db.pem" THEN "db" ELSE "web",
         key |-> IF f = "web.pem" THEN "web.key" ELSE "other.key", ca |-> "ca"]]

Repeat(n, s) == [i \in 1..n |-> s]

-----------------------------------------------------------------------------
(* Client configurations. *)

Base == [nodeID |-> "X", mode |-> "client",
         identity |-> [cert |-> "c", key |-> "k", ca |-> "ca"], serviceCA |-> "ca",
         servers |-> <<>>, peers |-> <<>>, listen |-> "", forwards |-> <<>>,
         routes |-> <<>>, services |-> <<>>, allowedRelayClients |-> <<>>]

Server(id) == [id |-> id, address |-> "h:1"]
ServerLists == {<<>>, <<Server("A")>>, <<Server("A"), Server("B")>>,
                <<Server("A"), Server("A")>>, <<Server("l4096")>>, <<Server("")>>,
                <<[id |-> "A", address |-> ""]>>}

Forwards ==
    [protocol : {"tcp"}, listen : {"h:1"}, service : {"web", "l4096"},
     egress : {"", "A", "B", "X", "l4096"},
     route : {<<>>, <<"A">>, <<"A", "B">>, <<"X", "A">>, <<"A", "", "B">>,
              <<"A", "X", "B">>, <<"A", "B", "A", "X">>, Repeat(3, "l4096"),
              Repeat(8, "l4096")},
     e2e : {"", "auto", "always", "never"}]

\* One field at a time is missing or wrong.
Good == [protocol |-> "tcp", listen |-> "h:1", service |-> "web", egress |-> "",
         route |-> <<>>, e2e |-> "off"]
BadForwards ==
    {[Good EXCEPT !.protocol = "udp"], [Good EXCEPT !.protocol = ""],
     [Good EXCEPT !.listen = ""], [Good EXCEPT !.listen = "h"],
     [Good EXCEPT !.service = ""], [Good EXCEPT !.service = "l4097"]}

Route(service, candidates) ==
    [service |-> service, protocol |-> "tcp", selection |-> "", candidates |-> candidates]
Cand(egress, route) == [egress |-> egress, route |-> route]

RouteLists ==
    {<<>>, <<Route("web", <<Cand("B", <<"A", "B">>), Cand("A", <<"A">>)>>)>>,
     <<Route("db", <<Cand("A", <<"A">>)>>)>>, <<Route("web", <<>>)>>,
     <<Route("web", <<Cand("A", <<"A">>)>>), Route("web", <<Cand("B", <<"B">>)>>)>>,
     <<Route("web", <<Cand("A", <<"A", "B">>)>>)>>,
     <<Route("web", <<Cand("B", <<"A", "X", "A", "B">>)>>)>>,
     <<Route("web", <<Cand("", <<"A">>)>>)>>, <<Route("web", <<Cand("A", <<>>)>>)>>,
     <<Route("web", <<Cand("A", <<"X", "A">>)>>)>>, <<Route("", <<Cand("A", <<"A">>)>>)>>,
     <<[Route("web", <<Cand("A", <<"A">>)>>) EXCEPT !.selection = "random"]>>,
     <<[Route("web", <<Cand("A", <<"A">>)>>) EXCEPT !.protocol = "udp"]>>}

MCClientConfigs ==
    [nodeID : {Base.nodeID}, mode : {"client"}, identity : {Base.identity},
     serviceCA : {"", "ca"}, servers : ServerLists, peers : {<<>>}, listen : {""},
     forwards : {<<f>> : f \in Forwards \cup BadForwards}, routes : RouteLists,
     services : {<<>>}, allowedRelayClients : {<<>>}]

-----------------------------------------------------------------------------
(* Server configurations. *)

Services ==
    [name : {"web", "db"}, protocol : {"tcp", "udp"}, target : {"h:1"}, peers : {<<>>},
     cert : {"", "web.pem", "web2.pem", "db.pem"}, key : {"", "web.key", "other.key"}]

MCServerConfigs ==
    [nodeID : {Base.nodeID}, mode : {"server"}, identity : {Base.identity},
     serviceCA : {"", "ca"}, servers : {<<>>}, peers : {<<>>}, listen : {"h:1"},
     forwards : {<<>>}, routes : {<<>>}, services : {<<s, t>> : s, t \in Services},
     allowedRelayClients : {<<>>}]

\* One field at a time is missing or wrong.
GoodClient == [Base EXCEPT !.servers = <<Server("A")>>, !.forwards = <<Good>>]
GoodService == [name |-> "web", protocol |-> "tcp", target |-> "h:1", peers |-> <<>>,
                cert |-> "web.pem", key |-> "web.key"]
GoodServer == [Base EXCEPT !.mode = "server", !.listen = "h:1", !.services = <<GoodService>>]
Neighbour(id, address, dial) == [id |-> id, address |-> address, dial |-> dial]

MCBadConfigs ==
    {[GoodClient EXCEPT !.forwards = <<>>], [GoodClient EXCEPT !.nodeID = ""],
     [GoodClient EXCEPT !.mode = "both"], [GoodClient EXCEPT !.identity.key = ""],
     [GoodServer EXCEPT !.listen = ""], [GoodServer EXCEPT !.servers = <<Server("A")>>],
     [GoodServer EXCEPT !.allowedRelayClients = <<"">>],
     [GoodServer EXCEPT !.services[1].peers = <<"">>],
     [GoodServer EXCEPT !.services[1].target = "h"]}
    \cup {[GoodServer EXCEPT !.peers = ps] :
            ps \in {<<Neighbour("", "", FALSE)>>, <<Neighbour("X", "", FALSE)>>,
                    <<Neighbour("A", "h", FALSE)>>, <<Neighbour("A", "", TRUE)>>,
                    <<Neighbour("A", "", FALSE), Neighbour("A", "h:1", TRUE)>>}}

-----------------------------------------------------------------------------
(* Messages. *)

Routes == {<<>>, <<"A", "B">>, <<"">>, <<"l4097">>, Repeat(255, "B"), Repeat(256, "B"),
           Repeat(7, "l4096"), Repeat(8, "l4096"), Repeat(15, "l4096")}

Req(protocol, service, egress, route, e2eRequired, e2eRoute) ==
    [type |-> "ConnectRequest", id |-> "uuid", protocol |-> protocol, service |-> service,
     egress |-> egress, route |-> route, e2eRequired |-> e2eRequired, e2eRoute |-> e2eRoute]

Requests ==
    {Req("tcp", "web", "A", r, e, t) : r, t \in Routes, e \in BOOLEAN}
    \cup {Req(p, s, e, <<"A">>, FALSE, <<>>) : p \in {"", "tcp", "l32", "l33"},
            s \in {"", "web", "l4096", "l4097"}, e \in {"", "A", "l4096", "l4097"}}

Texts == {"", "A", "l65531", "l65532"}

MCResponses ==
    [type : {"ConnectResponse"}, ok : BOOLEAN, code : {0, 1, 8}, message : {"", "A", "l65531"}]

Hellos ==
    [type : {"E2EClientHello", "E2EServerHello"},
     chain : {Repeat(n, s) : n \in {0, 1, 3, 4, 8, 9},
                             s \in {"", "A", "l4096", "l16384", "l16385"}},
     key : {"", "A", "l4096", "l4097"}, signature : {"", "A", "l8192", "l8193"}]

MCMessages ==
    Requests \cup MCResponses \cup Hellos
    \cup [type : {"E2EData"}, nonce : {"", "A", "l24", "l25"},
          ciphertext : {"", "A", "l65508", "l65509"}]
    \cup [type : {"E2EClose"}, code : {0, 1, 255}, connectCode : {0, 8, 9}, message : Texts]
    \cup [type : {"E2EClientFinished"}, signature : {"", "A", "l8192", "l8193"}]

MCOldRequests ==
    {m \in Requests : CanWriteRequest(m) /\ ~m.e2eRequired /\ m.e2eRoute = <<>>
                      /\ PayloadSize(LegacyRequest(m)) <= MaxPayloadSize}
=============================================================================
