---------------------------- MODULE MCStreamSetup ----------------------------
(* StreamSetup on small networks. *)
EXTENDS StreamSetup

CONSTANTS C, A, B, D

Server(peers, relayClients, service, servicePeers, serviceE2E) ==
    [peers |-> peers, allowedRelayClients |-> relayClients, service |-> service,
     servicePeers |-> servicePeers, serviceE2E |-> serviceE2E]

Setting(candidates, upstream, servers, maxLost) ==
    [candidates |-> candidates, upstream |-> upstream, servers |-> servers,
     maxLost |-> maxLost]

\* A server that is not on the way.
Idle == Server({}, {}, FALSE, {}, FALSE)

\* Forward mode `auto`: end to end through the relay A, else B in plaintext.
AutoCandidates ==
    <<[route |-> <<A, B>>, egress |-> B, e2e |-> TRUE],
      [route |-> <<B>>, egress |-> NoEgress, e2e |-> FALSE]>>

\* A relays for B. The relay's clients, B's peers and B's service vary.
AutoSetups ==
    {Setting(AutoCandidates, B,
        [n \in Nodes |-> CASE n = A -> Server({B}, ac, FALSE, {}, FALSE)
                           [] n = B -> Server(bp, {}, s[1], s[2], s[3])
                           [] OTHER -> Idle], 1) :
     ac \in {{}, {B}}, bp \in {{}, {A}, {A, C}},
     s \in {<<FALSE, {}, FALSE>>} \cup ({TRUE} \X {{}, {A}, {C}} \X BOOLEAN)}

\* Policies that leave the end-to-end candidate or just the plaintext one;
\* more streams are lost.
OpenSetups ==
    {Setting(AutoCandidates, B,
        [n \in Nodes |-> CASE n = A -> Server({B}, {}, FALSE, {}, FALSE)
                           [] n = B -> Server({A, C}, {}, TRUE, {C}, se)
                           [] OTHER -> Idle], 2) :
     se \in BOOLEAN}

\* Forward mode `off`: three hops in plaintext, then the only server directly.
\* D may not have B as a peer. Streams are lost where the service refuses the
\* hop before it.
LongCandidates ==
    <<[route |-> <<A, D, B>>, egress |-> B, e2e |-> FALSE],
      [route |-> <<>>, egress |-> NoEgress, e2e |-> FALSE]>>

LongSetups ==
    {Setting(LongCandidates, A,
        [n \in Nodes |-> CASE n = A -> Server({D}, {C}, TRUE, {}, TRUE)
                           [] n = D -> Server(dp, dc, FALSE, {}, FALSE)
                           [] n = B -> Server({D}, {}, TRUE, sp, se)],
        IF sp = {D} THEN 0 ELSE 1) :
     dp \in {{A}, {A, B}}, dc \in {{A}, {C}}, sp \in {{C}, {D}}, se \in BOOLEAN}

\* Forward mode `always` without a route: end to end with the named egress, or
\* with the only server of the client.
DirectSetups ==
    {Setting(<<[route |-> <<>>, egress |-> e, e2e |-> TRUE]>>, B,
        [n \in Nodes |-> IF n = B THEN Server({}, {}, TRUE, sp, TRUE) ELSE Idle], 1) :
     e \in {B, NoEgress}, sp \in {{A}, {C}}}

MCSetups == AutoSetups \cup OpenSetups \cup LongSetups \cup DirectSetups
=============================================================================
