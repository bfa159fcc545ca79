-------------------------- MODULE StreamSetupProofs --------------------------
(***************************************************************************)
(* Safety of StreamSetup for any settings: any number of servers,          *)
(* candidates and hops, any policies, and any number of lost streams.      *)
(***************************************************************************)
EXTENDS StreamSetup, TLAPS, SequenceTheorems

-----------------------------------------------------------------------------
(* The inductive invariant. What is said of a stream h of an attempt refers   *)
(* to the candidate of that attempt: its hops, the policy of the hop that     *)
(* serves h, and the request that hop should be sent.                         *)

Hops(h) == Path(CandidateOf(h))
Policy(h) == cfg[Hops(h)[h[2]]]
LastHop(h) == <<h[1], Len(Hops(h))>>

Expected(h) ==
    [route |-> IF CandidateOf(h).route = <<>> THEN <<>>
               ELSE SubSeq(CandidateOf(h).route, h[2], Len(CandidateOf(h).route)),
     egress |-> CandidateOf(h).egress, e2e |-> CandidateOf(h).e2e,
     e2eRoute |-> IF CandidateOf(h).e2e THEN CandidateOf(h).route ELSE <<>>]

\* The policies along the way: of a relay, of the egress for any request, and
\* for requests in plaintext and end to end.
RelayAdmits(h) == Among(Sender(h), Policy(h).allowedRelayClients)
Admitted(h) == \A i \in 1..(h[2] - 1) : RelayAdmits(<<h[1], i>>)
EgressAdmits(h) ==
    /\ h[2] = Len(Hops(h))
    /\ CandidateOf(h).route # <<>> => Sender(h) \in Policy(h).peers
    /\ Policy(h).service
PlainAdmits(h) ==
    /\ EgressAdmits(h) /\ ~CandidateOf(h).e2e
    /\ Among(Sender(h), Policy(h).servicePeers)
    /\ Policy(h).serviceE2E => CandidateOf(h).route = <<>>
E2EAdmits(h) == EgressAdmits(h) /\ CandidateOf(h).e2e /\ Policy(h).serviceE2E
ClientAdmitted(h) == Among(Client, Policy(h).servicePeers)

\* The places of a handler: those in which it still has its request to serve,
\* the ones in which the next hop is at work, and the ones of an egress that
\* has its target.
Working == {"dial", "answer", "hello", "e2eDial", "serverHello", "finished",
            "openNext", "waitNext", "relay", "proxy"}
Relaying == {"waitNext", "relay"}
Handshaking == {"hello", "e2eDial", "serverHello", "finished"}
Connected == {"answer", "serverHello", "finished", "proxy"}

\* A stream that is not open yet carries nothing; an open one belongs to the
\* current attempt or an earlier one, goes to the hop it should go to from the
\* hop before it, and all hops before have admitted and passed on the request.
Opened(h) ==
    IF pc[h] = "none"
    THEN /\ up[h] = <<>> /\ down[h] = <<>> /\ target[h] = "none" /\ verdict[h] = "none"
         /\ h[2] = 1 => peer[h] = Client
    ELSE /\ h[1] <= att /\ (h[1] = att => client # "open")
         /\ h[2] <= Len(Hops(h))
         /\ node[h] = Hops(h)[h[2]] /\ peer[h] = Sender(h)
         /\ Admitted(h)
         /\ \A i \in 1..(h[2] - 1) : pc[<<h[1], i>>] \in Relaying \cup {"end"}

\* What the place of a handler says of its request and of its policy.
Served(h) ==
    /\ pc[h] \in Working => req[h] = Expected(h)
    /\ pc[h] \in Relaying \cup {"openNext"} => h[2] < Len(Hops(h)) /\ RelayAdmits(h)
    /\ pc[h] \in Relaying => pc[NextHop(h)] # "none"
    /\ pc[h] \in {"dial", "answer"} => PlainAdmits(h)
    /\ pc[h] \in Handshaking => E2EAdmits(h)
    /\ pc[h] = "e2eDial" => ClientAdmitted(h)
    /\ pc[h] \in Connected => target[h] # "none"
    /\ target[h] # "none" =>
         /\ pc[h] \in Connected \cup {"end"}
         /\ PlainAdmits(h) \/ (E2EAdmits(h) /\ ClientAdmitted(h))

\* The frames towards the egress: the request of the hop, once and in front,
\* and what follows it unchanged through all hops.
Following(h) ==
    {Frame("clientHello", ClientContext(CandidateOf(h))),
     Frame("clientFinished", "none"), Fin}
UpFrames(h) == Following(h) \cup {Frame("request", Expected(h))}
UpQueued(h) ==
    /\ up[h] \in Seq(UpFrames(h))
    /\ pc[h] = "read" => up[h] # <<>> /\ Tail(up[h]) \in Seq(Following(h))
    /\ pc[h] \in Working => up[h] \in Seq(Following(h))

\* The frames towards the client: a plaintext OK and a ServerHello only once
\* the egress has the target.
Reached(h) == target[LastHop(h)] # "none"
Failures == Codes \ {"OK"}
DownFrames(h) ==
    {Response(code) : code \in Failures} \cup {E2EClose(code) : code \in Failures}
    \cup {Fin}
    \cup (IF CandidateOf(h).e2e \/ Reached(h) THEN {Response("OK")} ELSE {})
    \cup (IF Reached(h) THEN {Frame("serverHello", ClientContext(CandidateOf(h)))}
          ELSE {})
DownQueued(h) == down[h] \in Seq(DownFrames(h))

\* The client: two attempts for each candidate at most, and a stream it waits
\* on is open.
ClientPlace ==
    /\ att <= 2 * cand /\ (att = 2 * cand => retried \/ client = "closed")
    /\ client \notin {"open", "closed"} => candOf[att] = cand /\ pc[First] # "none"
    /\ client \in {"clientHello", "serverHello"} => Candidate.e2e
    /\ ProxyMeansTarget

\* q is defined on the streams.
PerStream(q) == q = [h \in Streams |-> q[h]]

\* TypeOK without the frames, which UpQueued and DownQueued describe.
ClientTypes ==
    /\ setup \in Setups
    /\ client \in {"open", "response", "clientHello", "serverHello", "proxy",
                   "drain", "closed"}
    /\ att \in Nat \ {0} /\ cand \in 1..Len(Candidates) /\ retried \in BOOLEAN
    /\ candOf \in [Attempts -> 1..Len(Candidates)]
LinkTypes ==
    /\ node \in [Streams -> Nodes] /\ peer \in [Streams -> Nodes \cup {Client}]
    /\ dead \in SUBSET Streams /\ PerStream(up) /\ PerStream(down)
HandlerTypes ==
    /\ pc \in [Streams -> Working \cup {"none", "read", "end"}]
    /\ req \in [Streams -> Requests]
    /\ target \in [Streams -> {"none", "open", "closed"}]
    /\ ended \in [Streams -> SUBSET {"up", "down"}]
    /\ verdict \in [Streams -> Codes \cup {"none"}]
Types == ClientTypes /\ LinkTypes /\ HandlerTypes

Requested ==
    /\ Types /\ ClientPlace
    /\ \A h \in Streams : Opened(h) /\ Served(h) /\ UpQueued(h) /\ DownQueued(h)

-----------------------------------------------------------------------------
(* Sequences, streams and settings. *)

\* Reading the first of a sequence of frames.
LEMMA HeadTail ==
    ASSUME NEW S, NEW q \in Seq(S), q # <<>>
    PROVE  Head(q) \in S /\ Tail(q) \in Seq(S)
OBVIOUS

\* Writing one or two frames.
LEMMA PushOne ==
    ASSUME NEW S, NEW q \in Seq(S), NEW f \in S
    PROVE  q \o <<f>> \in Seq(S)
OBVIOUS

LEMMA PushTwo ==
    ASSUME NEW S, NEW q \in Seq(S), NEW f \in S, NEW g \in S
    PROVE  q \o <<f, g>> \in Seq(S)
OBVIOUS

\* What is behind the first frame when one is added.
LEMMA PushBehind ==
    ASSUME NEW S, NEW T, NEW q \in Seq(T), q # <<>>, Tail(q) \in Seq(S), NEW f \in S
    PROVE  q \o <<f>> # <<>> /\ Tail(q \o <<f>>) \in Seq(S)
<1>1. Len(q) \in Nat /\ Len(q) > 0
  OBVIOUS
<1>2. q \o <<f>> = Append(q, f)
  OBVIOUS
<1>3. Tail(Append(q, f)) = Append(Tail(q), f)
  BY <1>1
<1> QED
  BY <1>2, <1>3

\* More frames allow more sequences.
LEMMA Wider ==
    ASSUME NEW S, NEW T, S \subseteq T, NEW q \in Seq(S)
    PROVE  q \in Seq(T)
OBVIOUS

\* What the length says.
LEMMA NonEmpty == ASSUME NEW S, NEW q \in Seq(S) PROVE (Len(q) > 0) <=> (q # <<>>)
OBVIOUS

LEMMA Nothing == ASSUME NEW S PROVE <<>> \in Seq(S)
OBVIOUS

\* Streams as pairs.
LEMMA StreamPair ==
    /\ \A h \in Streams :
         h = <<h[1], h[2]>> /\ h[1] \in Attempts /\ h[2] \in 1..MaxHops
    /\ \A a \in Attempts : \A i \in 1..MaxHops :
         <<a, i>> \in Streams /\ <<a, i>>[1] = a /\ <<a, i>>[2] = i
BY DEF Streams

LEMMA StreamIndex ==
    /\ MaxHops \in Nat
    /\ \A h \in Streams : h[1] \in Nat \ {0} /\ h[2] \in Nat \ {0} /\ h[2] <= MaxHops
    /\ \A h \in Streams : \A i \in 1..h[2] : <<h[1], i>> \in Streams
<1>1. MaxHops \in Nat
  BY SetupAssumption
<1>2. \A h \in Streams : h[1] \in Nat \ {0} /\ h[2] \in Nat \ {0} /\ h[2] <= MaxHops
  BY <1>1, StreamPair DEF Attempts
<1>3. \A h \in Streams : \A i \in 1..h[2] : i \in 1..MaxHops
  BY <1>1, <1>2
<1> QED
  BY <1>1, <1>2, <1>3, StreamPair

\* The hops of a candidate.
LEMMA PathShape ==
    ASSUME NEW s \in Setups, NEW k \in 1..Len(s.candidates)
    PROVE  LET c == s.candidates[k]
               p == PathOf(c, s.upstream)
           IN  /\ c \in [route : Seq(Nodes), e2e : BOOLEAN, egress : Nodes \cup {NoEgress}]
               /\ p \in Seq(Nodes) /\ Len(p) \in 1..MaxHops
               /\ c.route # <<>> => p = c.route
               /\ c.route = <<>> => Len(p) = 1
<1> DEFINE c == s.candidates[k]
           p == PathOf(c, s.upstream)
<1>1. /\ c \in [route : Seq(Nodes), e2e : BOOLEAN, egress : Nodes \cup {NoEgress}]
      /\ s.upstream \in Nodes /\ Len(p) <= MaxHops /\ MaxHops \in Nat
  <2> DEFINE Forms == [route : Seq(Nodes), e2e : BOOLEAN,
                       egress : Nodes \cup {NoEgress}]
  <2>1. /\ s.candidates \in Seq(Forms)
        /\ s.upstream \in Nodes /\ Len(p) <= MaxHops /\ MaxHops \in Nat
    BY SetupAssumption
  <2> HIDE DEF Forms, p
  <2>2. c \in Forms
    BY <2>1
  <2> QED
    BY <2>1, <2>2 DEF Forms
<1>2. CASE c.route # <<>>
  <2>1. p = c.route
    BY <1>2 DEF PathOf
  <2>2. c.route \in Seq(Nodes)
    BY <1>1
  <2>3. Len(c.route) \in Nat /\ Len(c.route) > 0
    BY <2>2, <1>2
  <2> QED
    BY <1>1, <1>2, <2>1, <2>2, <2>3
<1>3. CASE c.route = <<>>
  <2> DEFINE n == IF c.egress = NoEgress THEN s.upstream ELSE c.egress
  <2>1. p = <<n>>
    BY <1>3 DEF PathOf
  <2>2. n \in Nodes
    BY <1>1
  <2> HIDE DEF n
  <2>3. <<n>> \in Seq(Nodes) /\ Len(<<n>>) = 1
    BY <2>2
  <2> QED
    BY <1>1, <1>3, <2>1, <2>3
<1> QED
  BY <1>2, <1>3

LEMMA HopsShape ==
    ASSUME ClientTypes, NEW h \in Streams
    PROVE  /\ CandidateOf(h) \in [route : Seq(Nodes), e2e : BOOLEAN,
                                  egress : Nodes \cup {NoEgress}]
           /\ Hops(h) \in Seq(Nodes) /\ Len(Hops(h)) \in 1..MaxHops
           /\ CandidateOf(h).route # <<>> => Hops(h) = CandidateOf(h).route
           /\ CandidateOf(h).route = <<>> => Len(Hops(h)) = 1
           /\ LastHop(h) \in Streams
<1>1. h[1] \in Attempts
  BY StreamPair
<1>2. setup \in Setups /\ candOf[h[1]] \in 1..Len(setup.candidates)
  BY <1>1 DEF ClientTypes, Candidates
<1>3. /\ CandidateOf(h) \in [route : Seq(Nodes), e2e : BOOLEAN,
                              egress : Nodes \cup {NoEgress}]
      /\ Hops(h) \in Seq(Nodes) /\ Len(Hops(h)) \in 1..MaxHops
      /\ CandidateOf(h).route # <<>> => Hops(h) = CandidateOf(h).route
      /\ CandidateOf(h).route = <<>> => Len(Hops(h)) = 1
  BY <1>2, PathShape DEF Hops, Path, CandidateOf, Candidates
<1>4. LastHop(h) \in Streams
  BY <1>1, <1>3, StreamPair DEF LastHop
<1> QED
  BY <1>3, <1>4

\* The request a hop should be sent: the rest of the route from that hop on.
LEMMA ExpectedShape ==
    ASSUME ClientTypes, NEW h \in Streams, h[2] <= Len(Hops(h))
    PROVE  /\ Expected(h) \in Requests
           /\ CandidateOf(h).route = <<>> =>
                Expected(h).route = <<>> /\ Len(Expected(h).route) = 0
           /\ CandidateOf(h).route # <<>> =>
                /\ Expected(h).route # <<>>
                /\ Len(Expected(h).route) = Len(Hops(h)) - h[2] + 1
                /\ Expected(h).route[1] = Hops(h)[h[2]]
                /\ h[2] < Len(Hops(h)) =>
                     /\ Expected(h).route[2] = Hops(h)[h[2] + 1]
                     /\ Tail(Expected(h).route) =
                          SubSeq(CandidateOf(h).route, h[2] + 1, Len(CandidateOf(h).route))
<1> DEFINE c == CandidateOf(h)
           r == c.route
           i == h[2]
<1>1. c \in [route : Seq(Nodes), e2e : BOOLEAN, egress : Nodes \cup {NoEgress}]
  BY HopsShape
<1>2. r \in Seq(Nodes) /\ Len(r) \in Nat /\ i \in Nat \ {0}
  BY <1>1, StreamPair
<1>3. r # <<>> => Hops(h) = r /\ i <= Len(r)
  BY HopsShape
<1>4. Expected(h).route = IF r = <<>> THEN <<>> ELSE SubSeq(r, i, Len(r))
  BY DEF Expected
<1>5. CASE r = <<>>
  <2>1. Expected(h).route = <<>> /\ Len(Expected(h).route) = 0
    BY <1>4, <1>5
  <2>2. Expected(h) \in Requests
    BY <1>1, <1>2, <1>5, Nothing DEF Expected, Requests
  <2> QED
    BY <2>1, <2>2, <1>5
<1>6. CASE r # <<>>
  <2> DEFINE s == SubSeq(r, i, Len(r))
  <2>1. i \in 1..Len(r) /\ Len(r) \in 1..Len(r)
    BY <1>2, <1>3, <1>6
  <2>a. i <= Len(r) + 1
    BY <2>1, <1>2
  <2>b. \A k \in i..Len(r) : r[k] \in Nodes
    BY <1>2
  <2>2. s \in Seq(Nodes)
    BY <1>2, <2>1, <2>b
  <2>c. Len(s) = Len(r) - i + 1
    BY <1>2, <2>1
  <2>3. s[1] = r[i]
    BY <1>2, <2>1
  <2>4. s # <<>>
    <3>1. Len(s) > 0
      BY <2>c, <2>1, <1>2
    <3> HIDE DEF s
    <3> QED
      BY <3>1, <2>2, NonEmpty
  <2>5. ASSUME i < Len(r)
        PROVE  s[2] = r[i + 1] /\ Tail(s) = SubSeq(r, i + 1, Len(r))
    <3>1. s[2] = r[i + 1]
      BY <1>2, <2>1, <2>5
    <3>2. Tail(s) = SubSeq(r, i + 1, Len(r))
      <4> DEFINE t == SubSeq(r, i + 1, Len(r))
      <4>1. \A k \in (i + 1)..Len(r) : r[k] \in Nodes
        BY <1>2
      <4>2. t \in Seq(Nodes) /\ Len(t) = Len(r) - i
        BY <1>2, <2>1, <2>5, <4>1
      <4>3. \A k \in 1..(Len(r) - i) : t[k] = r[i + k]
        BY <1>2, <2>1, <2>5
      <4>4. \A k \in 1..(Len(r) - i + 1) : s[k] = r[i + k - 1]
        BY <1>2, <2>1
      <4> HIDE DEF s, t
      <4>5. Tail(s) \in Seq(Nodes) /\ Len(Tail(s)) = Len(s) - 1
        BY <2>2, <2>4
      <4>6. \A k \in 1..(Len(s) - 1) : Tail(s)[k] = s[k + 1]
        BY <2>2, <2>4
      <4>7. Len(Tail(s)) = Len(t)
        BY <4>5, <4>2, <2>c, <1>2
      <4>8. ASSUME NEW k \in 1..Len(t) PROVE Tail(s)[k] = t[k]
        <5>1. k \in 1..(Len(r) - i) /\ k + 1 \in 1..(Len(r) - i + 1) /\ k \in 1..(Len(s) - 1)
          BY <4>2, <2>c, <1>2
        <5>2. s[k + 1] = r[i + k]
          BY <5>1, <4>4, <1>2
        <5> QED
          BY <5>1, <5>2, <4>3, <4>6
      <4> QED
        BY <4>2, <4>5, <4>7, <4>8, SeqEqual DEF t
    <3> QED
      BY <3>1, <3>2
  <2> HIDE DEF s
  <2>6. Expected(h).route = s
    BY <1>4, <1>6 DEF s
  <2>7. Expected(h) \in Requests
    BY <1>1, <1>2, <2>2, <2>6, Nothing DEF Expected, Requests
  <2> QED
    BY <2>c, <2>3, <2>4, <2>5, <2>6, <2>7, <1>3, <1>6
<1> QED
  BY <1>5, <1>6

\* Where the checks of handleStream lead for the request a hop should be sent.
LEMMA Decisions ==
    ASSUME ClientTypes, NEW h \in Streams, h[2] <= Len(Hops(h)),
           NEW d, d = Decide(Hops(h)[h[2]], Sender(h), Expected(h))
    PROVE  /\ d = "relay" => h[2] < Len(Hops(h)) /\ RelayAdmits(h)
           /\ d = "plain" => PlainAdmits(h)
           /\ d = "e2e" => E2EAdmits(h)
           /\ d \notin {"relay", "plain", "e2e"} => d \in Failures
<1> DEFINE r == Expected(h)
           n == Hops(h)[h[2]]
<1>1. /\ CandidateOf(h).route = <<>> => r.route = <<>> /\ Len(r.route) = 0
      /\ CandidateOf(h).route # <<>> =>
           r.route # <<>> /\ Len(r.route) = Len(Hops(h)) - h[2] + 1
  BY ExpectedShape
<1>2. Len(Hops(h)) \in Nat /\ h[2] \in Nat \ {0} /\ h[2] <= Len(Hops(h))
  BY HopsShape, StreamPair
<1>3. CandidateOf(h).route = <<>> => h[2] = 1 /\ Len(Hops(h)) = 1
  BY HopsShape, <1>2
<1>4. Len(r.route) > 1 => h[2] < Len(Hops(h))
  BY <1>1, <1>2
<1>5. ~(Len(r.route) > 1) => h[2] = Len(Hops(h))
  <2>1. CASE CandidateOf(h).route = <<>>
    BY <2>1, <1>3
  <2>2. CASE CandidateOf(h).route # <<>>
    <3>1. Len(r.route) = Len(Hops(h)) - h[2] + 1
      BY <2>2, <1>1
    <3> HIDE DEF r
    <3> QED
      BY <3>1, <1>2
  <2> QED
    BY <2>1, <2>2
<1>6. CandidateOf(h).route # <<>> /\ h[2] = Len(Hops(h)) => Len(r.route) = 1
  BY <1>1, <1>2
<1>7. r.e2e = CandidateOf(h).e2e
  BY DEF Expected
<1>8. Policy(h) = cfg[n]
  BY DEF Policy
<1> HIDE DEF r, n
<1>9. d = Decide(n, Sender(h), r)
  BY DEF r, n
<1>10. ASSUME d = "relay" PROVE h[2] < Len(Hops(h)) /\ RelayAdmits(h)
  <2>1. Len(r.route) > 1 /\ authorizeRelayIngress(n, Sender(h))
    BY <1>9, <1>10 DEF Decide
  <2> QED
    BY <2>1, <1>4, <1>8 DEF authorizeRelayIngress, RelayAdmits
<1>11. ASSUME d = "plain" PROVE PlainAdmits(h)
  <2>1. /\ ~(Len(r.route) > 1) /\ (Len(r.route) = 1 => requireConfiguredPeer(n, Sender(h)))
        /\ findService(n) /\ ~r.e2e /\ authorizeServicePeer(n, Sender(h))
        /\ ~(isServiceE2EConfigured(n) /\ r.route # <<>>)
    BY <1>9, <1>11 DEF Decide
  <2> QED
    BY <2>1, <1>1, <1>5, <1>6, <1>7, <1>8
    DEF PlainAdmits, EgressAdmits, requireConfiguredPeer, findService,
        authorizeServicePeer, isServiceE2EConfigured
<1>12. ASSUME d = "e2e" PROVE E2EAdmits(h)
  <2>1. /\ ~(Len(r.route) > 1) /\ (Len(r.route) = 1 => requireConfiguredPeer(n, Sender(h)))
        /\ findService(n) /\ r.e2e /\ isServiceE2EConfigured(n)
    BY <1>9, <1>12 DEF Decide
  <2> QED
    BY <2>1, <1>5, <1>6, <1>7, <1>8
    DEF E2EAdmits, EgressAdmits, requireConfiguredPeer, findService,
        isServiceE2EConfigured
<1>13. d \notin {"relay", "plain", "e2e"} => d \in Failures
  BY <1>9 DEF Decide, Failures, Codes
<1> QED
  BY <1>10, <1>11, <1>12, <1>13

\* The transcripts of client and egress, from the request of any hop.
LEMMA SameTranscript ==
    ASSUME ClientTypes, NEW h \in Streams, h[2] <= Len(Hops(h)), CandidateOf(h).e2e
    PROVE  ServerContext(Expected(h)) = ClientContext(CandidateOf(h))
<1>1. CandidateOf(h).route = <<>> => Expected(h).route = <<>>
  BY ExpectedShape
<1> QED
  BY <1>1 DEF ServerContext, ClientContext, Expected

-----------------------------------------------------------------------------
(* What a step leaves alone. *)

LEMMA SameRequestOf ==
    ASSUME setup' = setup, NEW h, candOf'[h[1]] = candOf[h[1]]
    PROVE  /\ CandidateOf(h)' = CandidateOf(h) /\ Hops(h)' = Hops(h)
           /\ Policy(h)' = Policy(h) /\ LastHop(h)' = LastHop(h)
           /\ Expected(h)' = Expected(h) /\ Sender(h)' = Sender(h)
           /\ Following(h)' = Following(h) /\ UpFrames(h)' = UpFrames(h)
<1>1. CandidateOf(h)' = CandidateOf(h)
  BY DEF CandidateOf, Candidates
<1>2. Hops(h)' = Hops(h)
  BY <1>1 DEF Hops, Path
<1>3. Policy(h)' = Policy(h) /\ LastHop(h)' = LastHop(h)
  BY <1>2 DEF Policy, LastHop, cfg
<1>4. Expected(h)' = Expected(h)
  BY <1>1 DEF Expected
<1>5. Sender(h)' = Sender(h)
  BY <1>1 DEF Sender, Path
<1>6. Following(h)' = Following(h)
  BY <1>1 DEF Following, ClientContext, Frame, Fin
<1>7. UpFrames(h)' = UpFrames(h)
  BY <1>4, <1>6 DEF UpFrames, Frame
<1> QED
  BY <1>1, <1>2, <1>3, <1>4, <1>5, <1>6, <1>7

LEMMA SamePolicyOf ==
    ASSUME setup' = setup, NEW h, candOf'[h[1]] = candOf[h[1]]
    PROVE  /\ RelayAdmits(h)' <=> RelayAdmits(h)
           /\ Admitted(h)' <=> Admitted(h)
           /\ EgressAdmits(h)' <=> EgressAdmits(h)
           /\ PlainAdmits(h)' <=> PlainAdmits(h)
           /\ E2EAdmits(h)' <=> E2EAdmits(h)
           /\ ClientAdmitted(h)' <=> ClientAdmitted(h)
<1>1. ASSUME NEW g, g[1] = h[1] PROVE RelayAdmits(g)' <=> RelayAdmits(g)
  BY <1>1, SameRequestOf DEF RelayAdmits, Among
<1>2. Admitted(h)' <=> Admitted(h)
  BY <1>1 DEF Admitted
<1>3. EgressAdmits(h)' <=> EgressAdmits(h)
  BY SameRequestOf DEF EgressAdmits
<1>4. PlainAdmits(h)' <=> PlainAdmits(h)
  BY <1>3, SameRequestOf DEF PlainAdmits, Among
<1>5. E2EAdmits(h)' <=> E2EAdmits(h)
  BY <1>3, SameRequestOf DEF E2EAdmits
<1>6. ClientAdmitted(h)' <=> ClientAdmitted(h)
  BY SameRequestOf DEF ClientAdmitted, Among
<1> QED
  BY <1>1, <1>2, <1>3, <1>4, <1>5, <1>6

\* The same when no candidate changes.
LEMMA SameRequest ==
    ASSUME setup' = setup, candOf' = candOf, NEW h
    PROVE  /\ CandidateOf(h)' = CandidateOf(h) /\ Hops(h)' = Hops(h)
           /\ Policy(h)' = Policy(h) /\ LastHop(h)' = LastHop(h)
           /\ Expected(h)' = Expected(h) /\ Sender(h)' = Sender(h)
           /\ Following(h)' = Following(h) /\ UpFrames(h)' = UpFrames(h)
BY SameRequestOf

LEMMA SamePolicy ==
    ASSUME setup' = setup, candOf' = candOf, NEW h
    PROVE  /\ RelayAdmits(h)' <=> RelayAdmits(h)
           /\ Admitted(h)' <=> Admitted(h)
           /\ EgressAdmits(h)' <=> EgressAdmits(h)
           /\ PlainAdmits(h)' <=> PlainAdmits(h)
           /\ E2EAdmits(h)' <=> E2EAdmits(h)
           /\ ClientAdmitted(h)' <=> ClientAdmitted(h)
BY SamePolicyOf

\* A step that keeps every attempt's candidate, leaves no place that counts as
\* open, passed on or connected, and does not take the client back.
Steady ==
    /\ setup' = setup /\ candOf' = candOf
    /\ att \in Nat /\ att' \in Nat /\ att <= att'
    /\ att' = att /\ client # "open" => client' # "open"
    /\ \A g \in Streams :
         /\ pc[g] # "none" => pc'[g] # "none"
         /\ pc[g] \in Relaying \cup {"end"} => pc'[g] \in Relaying \cup {"end"}
         /\ target[g] # "none" => target'[g] # "none"

\* No stream is opened, and the ones that are not open stay empty.
NoneOpened ==
    \A g \in Streams :
        /\ node'[g] = node[g] /\ peer'[g] = peer[g]
        /\ pc[g] = "none" => /\ pc'[g] = "none" /\ up'[g] = up[g] /\ down'[g] = down[g]
                             /\ target'[g] = target[g] /\ verdict'[g] = verdict[g]

LEMMA OpenedStays ==
    ASSUME Types, NEW h \in Streams, Opened(h), Steady,
           pc[h] # "none", node'[h] = node[h], peer'[h] = peer[h]
    PROVE  Opened(h)'
<1>1. pc'[h] # "none" /\ setup' = setup /\ candOf' = candOf
  BY DEF Steady
<1>2. h[1] \in Nat /\ h[2] \in Nat
  BY StreamIndex
<1>3. h[1] <= att' /\ (h[1] = att' => client' # "open")
  BY <1>2 DEF Opened, Steady
<1>4. h[2] <= Len(Hops(h)') /\ node'[h] = Hops(h)'[h[2]] /\ peer'[h] = Sender(h)' /\ Admitted(h)'
  BY <1>1, SameRequest, SamePolicy DEF Opened
<1>5. \A i \in 1..(h[2] - 1) : <<h[1], i>> \in Streams
  BY StreamIndex, <1>2
<1>6. \A i \in 1..(h[2] - 1) : pc'[<<h[1], i>>] \in Relaying \cup {"end"}
  BY <1>5 DEF Opened, Steady
<1> QED
  BY <1>1, <1>3, <1>4, <1>6 DEF Opened

LEMMA OpenedKept ==
    ASSUME Types, \A h \in Streams : Opened(h), Steady, NoneOpened
    PROVE  \A h \in Streams : Opened(h)'
<1> SUFFICES ASSUME NEW h \in Streams PROVE Opened(h)'
  OBVIOUS
<1>1. CASE pc[h] = "none"
  BY <1>1 DEF Opened, NoneOpened
<1>2. CASE pc[h] # "none"
  BY <1>2, OpenedStays DEF NoneOpened
<1> QED
  BY <1>1, <1>2

\* The next hop of a handler that relays is a stream.
LEMMA NextStream ==
    ASSUME ClientTypes, NEW h \in Streams, h[2] < Len(Hops(h))
    PROVE  /\ NextHop(h) \in Streams /\ NextHop(h) # h
           /\ NextHop(h)[1] = h[1] /\ NextHop(h)[2] = h[2] + 1
           /\ CandidateOf(NextHop(h)) = CandidateOf(h) /\ Hops(NextHop(h)) = Hops(h)
           /\ LastHop(NextHop(h)) = LastHop(h)
<1>1. h[1] \in Attempts /\ h[2] \in Nat /\ h[2] + 1 \in 1..MaxHops /\ h[2] # h[2] + 1
  BY HopsShape, StreamPair, StreamIndex
<1>2. NextHop(h) \in Streams /\ NextHop(h)[1] = h[1] /\ NextHop(h)[2] = h[2] + 1
  BY <1>1, StreamPair DEF NextHop
<1> QED
  BY <1>1, <1>2 DEF CandidateOf, Hops, LastHop

LEMMA ServedKept ==
    ASSUME Types, NEW h \in Streams, Served(h), Steady,
           pc'[h] = pc[h], req'[h] = req[h], target'[h] = target[h]
    PROVE  Served(h)'
<1>1. setup' = setup /\ candOf' = candOf
  BY DEF Steady
<1>2. pc[h] \in Relaying => pc'[NextHop(h)] # "none"
  <2>1. ASSUME pc[h] \in Relaying PROVE NextHop(h) \in Streams /\ pc[NextHop(h)] # "none"
    BY <2>1, NextStream DEF Served, Types
  <2> QED
    BY <2>1 DEF Steady
<1>3. NextHop(h)' = NextHop(h)
  BY DEF NextHop
<1> QED
  BY <1>1, <1>2, <1>3, SameRequest, SamePolicy DEF Served

\* The place of h still has, or no longer has, the same kind of work.
Stays(h) == \/ pc'[h] = pc[h] \/ pc'[h] = "end"
            \/ pc[h] \in Working /\ pc'[h] \in Working

LEMMA Places == "read" \notin Working /\ "end" \notin Working /\ "none" \notin Working
BY DEF Working

LEMMA UpKept ==
    ASSUME setup' = setup, candOf' = candOf, NEW h, UpQueued(h), Stays(h), up'[h] = up[h]
    PROVE  UpQueued(h)'
BY SameRequest, Places DEF UpQueued, Stays

LEMMA UpPushed ==
    ASSUME setup' = setup, candOf' = candOf, NEW h, UpQueued(h), Stays(h),
           NEW f \in Following(h), up'[h] = up[h] \o <<f>>
    PROVE  UpQueued(h)'
<1>1. f \in UpFrames(h)
  BY DEF UpFrames
<1>2. up'[h] \in Seq(UpFrames(h))
  BY <1>1, PushOne DEF UpQueued
<1>3. pc[h] = "read" => up'[h] # <<>> /\ Tail(up'[h]) \in Seq(Following(h))
  BY PushBehind DEF UpQueued
<1>4. pc[h] \in Working => up'[h] \in Seq(Following(h))
  BY PushOne DEF UpQueued
<1> QED
  BY <1>2, <1>3, <1>4, SameRequest, Places DEF UpQueued, Stays

LEMMA UpPopped ==
    ASSUME setup' = setup, candOf' = candOf, NEW h, UpQueued(h),
           pc[h] \in Working \cup {"read"}, pc'[h] \in Working \cup {"end"},
           up[h] # <<>>, up'[h] = Tail(up[h])
    PROVE  UpQueued(h)'
<1>1. up'[h] \in Seq(UpFrames(h))
  BY HeadTail DEF UpQueued
<1>2. up'[h] \in Seq(Following(h))
  BY HeadTail DEF UpQueued
<1> QED
  BY <1>1, <1>2, SameRequest, Places DEF UpQueued

LEMMA DownWider ==
    ASSUME Types, NEW h \in Streams, Steady
    PROVE  DownFrames(h) \subseteq DownFrames(h)'
<1>1. LastHop(h) \in Streams
  BY HopsShape DEF Types
<1>2. Reached(h) => Reached(h)'
  BY <1>1, SameRequest DEF Reached, Steady
<1>3. CandidateOf(h)' = CandidateOf(h)
  BY SameRequest DEF Steady
<1>4. ClientContext(CandidateOf(h))' = ClientContext(CandidateOf(h))
  BY <1>3 DEF ClientContext
<1> QED
  BY <1>2, <1>3, <1>4 DEF DownFrames, Response, E2EClose, Fin, Frame, Failures, Codes

LEMMA DownKept ==
    ASSUME Types, NEW h \in Streams, Steady, DownQueued(h), down'[h] = down[h]
    PROVE  DownQueued(h)'
BY DownWider, Wider DEF DownQueued

LEMMA DownPushed ==
    ASSUME Types, NEW h \in Streams, Steady, DownQueued(h),
           NEW f \in DownFrames(h)', down'[h] = down[h] \o <<f>>
    PROVE  DownQueued(h)'
<1>1. down[h] \in Seq(DownFrames(h)')
  BY DownWider, Wider DEF DownQueued
<1> QED
  BY <1>1, PushOne DEF DownQueued

LEMMA DownPushedTwo ==
    ASSUME Types, NEW h \in Streams, Steady, DownQueued(h),
           NEW f \in DownFrames(h)', NEW g \in DownFrames(h)', down'[h] = down[h] \o <<f, g>>
    PROVE  DownQueued(h)'
<1>1. down[h] \in Seq(DownFrames(h)')
  BY DownWider, Wider DEF DownQueued
<1> QED
  BY <1>1, PushTwo DEF DownQueued

LEMMA DownPopped ==
    ASSUME Types, NEW h \in Streams, Steady, DownQueued(h),
           down[h] # <<>>, down'[h] = Tail(down[h])
    PROVE  DownQueued(h)'
<1>1. Tail(down[h]) \in Seq(DownFrames(h))
  BY HeadTail DEF DownQueued
<1> QED
  BY <1>1, DownWider, Wider DEF DownQueued

\* Queues of all streams.
LEMMA Pushed ==
    ASSUME NEW q, PerStream(q), NEW h \in Streams, NEW frames
    PROVE  /\ PerStream(Push(q, h, frames)) /\ Push(q, h, frames)[h] = q[h] \o frames
           /\ \A g \in Streams : g # h => Push(q, h, frames)[g] = q[g]
<1>1. DOMAIN q = Streams
  BY DEF PerStream
<1> QED
  BY <1>1 DEF PerStream, Push

LEMMA Popped ==
    ASSUME NEW q, PerStream(q), NEW h \in Streams
    PROVE  /\ PerStream(Pop(q, h)) /\ Pop(q, h)[h] = Tail(q[h])
           /\ \A g \in Streams : g # h => Pop(q, h)[g] = q[g]
<1>1. DOMAIN q = Streams
  BY DEF PerStream
<1> QED
  BY <1>1 DEF PerStream, Pop

\* The client's attempts stay within their bound.
LEMMA FirstStream ==
    ASSUME ClientTypes, ClientPlace
    PROVE  /\ att \in Attempts /\ First \in Streams /\ First[1] = att /\ First[2] = 1
           /\ cand \in Nat /\ att \in Nat /\ cand <= Len(Candidates)
           /\ Len(Candidates) \in Nat /\ MaxCandidates \in Nat /\ Len(Candidates) <= MaxCandidates
<1>1. /\ Len(Candidates) \in 1..MaxCandidates /\ MaxCandidates \in Nat
  BY SetupAssumption DEF ClientTypes, Candidates
<1>2. cand \in Nat /\ att \in Nat \ {0} /\ cand <= Len(Candidates) /\ att <= 2 * cand
  BY <1>1 DEF ClientTypes, ClientPlace
<1>3. att \in Attempts
  BY <1>1, <1>2 DEF Attempts
<1>4. 1 \in 1..MaxHops
  <2>1. setup \in Setups /\ cand \in 1..Len(setup.candidates)
    BY DEF ClientTypes, Candidates
  <2> QED
    BY <2>1, PathShape, StreamIndex
<1> QED
  BY <1>1, <1>2, <1>3, <1>4, StreamPair DEF First

\* While the client waits on its attempt, the attempt's candidate is its own.
LEMMA OwnCandidate ==
    ASSUME ClientTypes, ClientPlace, client \notin {"open", "closed"}
    PROVE  CandidateOf(First) = Candidate /\ LastHop(First) = <<att, Len(Path(Candidate))>>
BY FirstStream DEF ClientPlace, CandidateOf, Candidate, LastHop, Hops

LEMMA ClientKept ==
    ASSUME Types, ClientPlace, Steady, UNCHANGED clientVars
    PROVE  ClientPlace'
<1>1. First \in Streams
  BY FirstStream DEF Types
<1>2. /\ client' = client /\ att' = att /\ cand' = cand /\ retried' = retried
      /\ candOf' = candOf /\ setup' = setup /\ First' = First /\ Candidate' = Candidate
  BY DEF clientVars, Steady, First, Candidate, Candidates
<1>3. client \notin {"open", "closed"} => pc'[First] # "none"
  BY <1>1 DEF ClientPlace, Steady
<1>4. ProxyMeansTarget'
  <2>1. ASSUME client \in {"proxy", "drain"}
        PROVE  target'[<<att, Len(Path(Candidate))>>] # "none"
    <3>1. target[<<att, Len(Path(Candidate))>>] # "none"
      BY <2>1 DEF ClientPlace, ProxyMeansTarget
    <3>2. <<att, Len(Path(Candidate))>> \in Streams
      BY <1>1, <2>1, OwnCandidate, HopsShape DEF Types
    <3> QED
      BY <3>1, <3>2 DEF Steady
  <2>2. Path(Candidate)' = Path(Candidate)
    BY <1>2 DEF Path
  <2> QED
    BY <1>2, <2>1, <2>2 DEF ProxyMeansTarget
<1> QED
  BY <1>2, <1>3, <1>4 DEF ClientPlace

-----------------------------------------------------------------------------
(* The handlers' steps. *)

\* A step of the handler of h, as far as places, requests and targets go.
HandlerStep(h) ==
    /\ setup' = setup /\ UNCHANGED clientVars /\ node' = node /\ peer' = peer
    /\ pc[h] # "none" /\ pc'[h] # "none"
    /\ pc[h] \in Relaying \cup {"end"} => pc'[h] \in Relaying \cup {"end"}
    /\ target[h] # "none" => target'[h] # "none"
    /\ \A g \in Streams : g # h =>
         /\ pc'[g] = pc[g] /\ req'[g] = req[g] /\ target'[g] = target[g]
         /\ verdict'[g] = verdict[g]

\* The step reads and writes only the stream itself.
OwnStream(h) ==
    /\ PerStream(up)' /\ PerStream(down)'
    /\ \A g \in Streams : g # h => up'[g] = up[g] /\ down'[g] = down[g]

LEMMA HandlerSteady ==
    ASSUME Types, NEW h \in Streams, HandlerStep(h)
    PROVE  Steady /\ ClientTypes'
<1>1. setup' = setup /\ candOf' = candOf /\ att' = att /\ client' = client
  BY DEF HandlerStep, clientVars
<1>2. att \in Nat /\ att' \in Nat /\ att <= att'
  BY <1>1 DEF Types, ClientTypes
<1>3. Steady
  BY <1>1, <1>2 DEF Steady, HandlerStep
<1>4. ClientTypes'
  BY <1>1 DEF HandlerStep, clientVars, Types, ClientTypes, Candidates
<1> QED
  BY <1>3, <1>4

LEMMA HandlerKept ==
    ASSUME Requested, NEW h \in Streams, HandlerStep(h), LinkTypes', HandlerTypes', Served(h)',
           \A g \in Streams : UpQueued(g)' /\ DownQueued(g)',
           \A g \in Streams : pc[g] = "none" => up'[g] = up[g] /\ down'[g] = down[g]
    PROVE  Requested'
<1>1. Steady /\ ClientTypes'
  BY HandlerSteady DEF Requested
<1>2. NoneOpened
  BY DEF NoneOpened, HandlerStep
<1>3. \A g \in Streams : Opened(g)'
  BY <1>1, <1>2, OpenedKept DEF Requested
<1>4. \A g \in Streams : Served(g)'
  <2> SUFFICES ASSUME NEW g \in Streams, g # h PROVE Served(g)'
    OBVIOUS
  <2> QED
    BY <1>1, ServedKept DEF Requested, HandlerStep
<1>5. ClientPlace'
  BY <1>1, ClientKept DEF Requested, HandlerStep
<1> QED
  BY <1>1, <1>3, <1>4, <1>5 DEF Requested, Types

LEMMA OwnStreamKept ==
    ASSUME Requested, NEW h \in Streams, HandlerStep(h), OwnStream(h), dead' \in SUBSET Streams,
           HandlerTypes', Served(h)', UpQueued(h)', DownQueued(h)'
    PROVE  Requested'
<1>1. Steady
  BY HandlerSteady DEF Requested
<1>2. \A g \in Streams : UpQueued(g)' /\ DownQueued(g)'
  <2> SUFFICES ASSUME NEW g \in Streams, g # h PROVE UpQueued(g)' /\ DownQueued(g)'
    OBVIOUS
  <2>1. Stays(g)
    BY DEF Stays, HandlerStep
  <2>2. UpQueued(g)'
    BY <1>1, <2>1, UpKept DEF Requested, Steady, OwnStream
  <2> QED
    BY <1>1, <2>2, DownKept DEF Requested, OwnStream
<1>3. LinkTypes'
  BY DEF LinkTypes, Types, Requested, HandlerStep, OwnStream
<1>4. \A g \in Streams : pc[g] = "none" => up'[g] = up[g] /\ down'[g] = down[g]
  BY DEF HandlerStep, OwnStream
<1> QED
  BY <1>2, <1>3, <1>4, HandlerKept

\* Frames that handlers write.
LEMMA FailureFrames ==
    ASSUME NEW h, NEW code \in Failures
    PROVE  /\ Response(code) \in DownFrames(h)' /\ E2EClose(code) \in DownFrames(h)'
           /\ Fin \in DownFrames(h)'
BY DEF DownFrames, Response, E2EClose, Fin, Frame, Failures, Codes

LEMMA FinFrames == ASSUME NEW h PROVE Fin \in DownFrames(h)' /\ Fin \in Following(h)
BY DEF DownFrames, Following, Response, E2EClose, Fin, Frame, Failures, Codes

LEMMA AnswerOne ==
    ASSUME Requested, NEW h \in Streams, Steady, NEW f \in DownFrames(h)', Answer(h, <<f>>)
    PROVE  /\ DownQueued(h)' /\ PerStream(down)'
           /\ \A g \in Streams : g # h => down'[g] = down[g]
<1>1. CASE h \in dead
  <2>1. down' = down
    BY <1>1 DEF Answer
  <2> QED
    BY <2>1, DownKept DEF Requested, Types, LinkTypes, PerStream
<1>2. CASE h \notin dead
  <2>1. down' = Push(down, h, <<f>>)
    BY <1>2 DEF Answer
  <2>2. /\ PerStream(Push(down, h, <<f>>)) /\ Push(down, h, <<f>>)[h] = down[h] \o <<f>>
        /\ \A g \in Streams : g # h => Push(down, h, <<f>>)[g] = down[g]
    <3>1. PerStream(down) BY DEF Requested, Types, LinkTypes
    <3>2. \A r : PerStream(r) => \A s :
            /\ PerStream(Push(r, h, s)) /\ Push(r, h, s)[h] = r[h] \o s
            /\ \A g \in Streams : g # h => Push(r, h, s)[g] = r[g]
      BY ONLY h \in Streams, Pushed
    <3> QED BY <3>1, <3>2, Zenon
  <2>3. DownQueued(h)'
    BY <2>1, <2>2, DownPushed DEF Requested
  <2> QED
    BY <2>1, <2>2, <2>3 DEF PerStream
<1> QED
  BY <1>1, <1>2

LEMMA AnswerTwo ==
    ASSUME Requested, NEW h \in Streams, Steady, NEW f \in DownFrames(h)',
           NEW e \in DownFrames(h)', Answer(h, <<f, e>>)
    PROVE  /\ DownQueued(h)' /\ PerStream(down)'
           /\ \A g \in Streams : g # h => down'[g] = down[g]
<1>1. CASE h \in dead
  <2>1. down' = down
    BY <1>1 DEF Answer
  <2> QED
    BY <2>1, DownKept DEF Requested, Types, LinkTypes, PerStream
<1>2. CASE h \notin dead
  <2>1. down' = Push(down, h, <<f, e>>)
    BY <1>2 DEF Answer
  <2>2. /\ PerStream(Push(down, h, <<f, e>>)) /\ Push(down, h, <<f, e>>)[h] = down[h] \o <<f, e>>
        /\ \A g \in Streams : g # h => Push(down, h, <<f, e>>)[g] = down[g]
    <3>1. PerStream(down)
      BY DEF Requested, Types, LinkTypes
    <3>2. \A r : PerStream(r) => \A s :
            /\ PerStream(Push(r, h, s)) /\ Push(r, h, s)[h] = r[h] \o s
            /\ \A g \in Streams : g # h => Push(r, h, s)[g] = r[g]
      BY ONLY h \in Streams, Pushed
    <3> QED
      BY <3>1, <3>2, Zenon
  <2>3. DownQueued(h)'
    BY <2>1, <2>2, DownPushedTwo DEF Requested
  <2> QED
    BY <2>1, <2>2, <2>3 DEF PerStream
<1> QED
  BY <1>1, <1>2

\* What a handler reads from its stream.
LEMMA ReadUp ==
    ASSUME Requested, NEW h \in Streams, up[h] # <<>>
    PROVE  /\ Head(up[h]) \in UpFrames(h)
           /\ Head(up[h]).type = "request" => Head(up[h]).arg = Expected(h)
           /\ Head(up[h]).type = "clientHello" => Head(up[h]).arg = ClientContext(CandidateOf(h))
<1>1. Head(up[h]) \in UpFrames(h)
  BY HeadTail DEF Requested, UpQueued
<1> QED
  BY <1>1 DEF UpFrames, Following, Frame, Fin

\* A rejection.
LEMMA RejectEffect ==
    ASSUME Requested, NEW h \in Streams, NEW frame, NEW code \in Failures,
           frame = Response(code) \/ frame = E2EClose(code), Reject(h, frame)
    PROVE  /\ pc' \in [Streams -> Working \cup {"none", "read", "end"}]
           /\ verdict' \in [Streams -> Codes \cup {"none"}]
           /\ pc'[h] = "end" /\ verdict'[h] = code /\ Answer(h, <<frame, Fin>>)
           /\ \A g \in Streams : g # h => pc'[g] = pc[g] /\ verdict'[g] = verdict[g]
<1>1. frame.arg = code /\ code \in Codes
  BY DEF Response, E2EClose, Frame, Failures
<1> QED
  BY <1>1 DEF Reject, Goto, Requested, Types, HandlerTypes

LEMMA RejectAnswer ==
    ASSUME Requested, NEW h \in Streams, NEW frame, NEW code \in Failures,
           frame = Response(code) \/ frame = E2EClose(code), Steady, Answer(h, <<frame, Fin>>)
    PROVE  /\ DownQueued(h)' /\ PerStream(down)'
           /\ \A g \in Streams : g # h => down'[g] = down[g]
BY AnswerTwo, FailureFrames

\* Where h is served and from whom its request comes.
LEMMA AtItsHop ==
    ASSUME Requested, NEW h \in Streams, pc[h] # "none"
    PROVE  /\ ClientTypes /\ h[2] <= Len(Hops(h)) /\ node[h] = Hops(h)[h[2]]
           /\ peer[h] = Sender(h) /\ Admitted(h) /\ Expected(h) \in Requests
<1>1. /\ ClientTypes /\ h[2] <= Len(Hops(h)) /\ node[h] = Hops(h)[h[2]]
      /\ peer[h] = Sender(h) /\ Admitted(h)
  BY DEF Requested, Opened, Types
<1> QED
  BY <1>1, ExpectedShape

\* The cases of ReadConnectRequest.
LEMMA ReadConnectRequestCases ==
    ASSUME Requested, NEW h \in Streams, ReadConnectRequest(h)
    PROVE  /\ pc[h] = "read" /\ up[h] # <<>> /\ up' = Pop(up, h)
           /\ req' = [req EXCEPT ![h] = Expected(h)]
           /\ UNCHANGED <<setup, clientVars, node, peer, dead, target, ended>>
           /\ \/ /\ Goto(h, "openNext") /\ UNCHANGED <<down, verdict>>
                 /\ h[2] < Len(Hops(h)) /\ RelayAdmits(h)
              \/ /\ Goto(h, "dial") /\ UNCHANGED <<down, verdict>>
                 /\ PlainAdmits(h)
              \/ /\ Answer(h, <<Response("OK")>>) /\ UNCHANGED verdict
                 /\ Goto(h, IF h \in dead THEN "end" ELSE "hello")
                 /\ E2EAdmits(h)
              \/ \E code \in Failures : Reject(h, Response(code))
<1> DEFINE r == Head(up[h]).arg
           d == Decide(node[h], peer[h], r)
<1>1. pc[h] = "read" /\ up[h] # <<>> /\ Head(up[h]).type = "request" /\ up' = Pop(up, h)
  BY DEF ReadConnectRequest, Is
<1>2. r = Expected(h)
  BY <1>1, ReadUp
<1>3. ClientTypes /\ h[2] <= Len(Hops(h)) /\ d = Decide(Hops(h)[h[2]], Sender(h), Expected(h))
  BY <1>1, <1>2, AtItsHop
<1>4. /\ d = "relay" => h[2] < Len(Hops(h)) /\ RelayAdmits(h)
      /\ d = "plain" => PlainAdmits(h)
      /\ d = "e2e" => E2EAdmits(h)
      /\ d \notin {"relay", "plain", "e2e"} => d \in Failures
  BY <1>3, Decisions
<1>5. /\ req' = [req EXCEPT ![h] = r]
      /\ UNCHANGED <<setup, clientVars, node, peer, dead, target, ended>>
      /\ CASE d = "relay" -> Goto(h, "openNext") /\ UNCHANGED <<down, verdict>>
           [] d = "plain" -> Goto(h, "dial") /\ UNCHANGED <<down, verdict>>
           [] d = "e2e" -> /\ Answer(h, <<Response("OK")>>)
                           /\ Goto(h, IF h \in dead THEN "end" ELSE "hello")
                           /\ UNCHANGED verdict
           [] OTHER -> Reject(h, Response(d))
  BY DEF ReadConnectRequest
<1> HIDE DEF r, d
<1>6. \/ d = "relay" /\ Goto(h, "openNext") /\ UNCHANGED <<down, verdict>>
      \/ d = "plain" /\ Goto(h, "dial") /\ UNCHANGED <<down, verdict>>
      \/ /\ d = "e2e" /\ Answer(h, <<Response("OK")>>)
         /\ Goto(h, IF h \in dead THEN "end" ELSE "hello") /\ UNCHANGED verdict
      \/ d \notin {"relay", "plain", "e2e"} /\ Reject(h, Response(d))
  BY <1>5
<1> QED
  BY <1>1, <1>2, <1>4, <1>5, <1>6

LEMMA ReadConnectRequestKept ==
    ASSUME Requested, NEW h \in Streams, ReadConnectRequest(h)
    PROVE  Requested'
<1>1. /\ pc[h] = "read" /\ up[h] # <<>> /\ up' = Pop(up, h)
      /\ req' = [req EXCEPT ![h] = Expected(h)]
      /\ UNCHANGED <<setup, clientVars, node, peer, dead, target, ended>>
  BY ReadConnectRequestCases
<1>2. /\ req' \in [Streams -> Requests] /\ req'[h] = Expected(h)
      /\ \A g \in Streams : g # h => req'[g] = req[g]
  BY <1>1, AtItsHop DEF Requested, Types, HandlerTypes
<1>3. /\ PerStream(up)' /\ up'[h] = Tail(up[h])
      /\ \A g \in Streams : g # h => up'[g] = up[g]
  <2>1. PerStream(up)
    BY DEF Requested, Types, LinkTypes
  <2>2. /\ PerStream(Pop(up, h)) /\ Pop(up, h)[h] = Tail(up[h])
        /\ \A g \in Streams : g # h => Pop(up, h)[g] = up[g]
    BY <2>1, Popped
  <2> QED
    BY <2>2, <1>1 DEF PerStream
<1>4. target[h] = "none"
  BY <1>1 DEF Requested, Served, Connected
<1>5. ASSUME pc' \in [Streams -> Working \cup {"none", "read", "end"}],
             verdict' \in [Streams -> Codes \cup {"none"}],
             pc'[h] \in {"openNext", "dial", "hello", "end"},
             \A g \in Streams : g # h => pc'[g] = pc[g] /\ verdict'[g] = verdict[g]
      PROVE  HandlerStep(h) /\ HandlerTypes' /\ UpQueued(h)' /\ Steady
  <2>1. HandlerStep(h)
    BY <1>1, <1>2, <1>5 DEF HandlerStep, Relaying
  <2>2. HandlerTypes'
    BY <1>1, <1>2, <1>5 DEF HandlerTypes, Types, Requested
  <2>3. Steady
    BY <2>1, HandlerSteady DEF Requested
  <2>4. pc'[h] \in Working \cup {"end"}
    BY <1>5 DEF Working
  <2>5. UpQueued(h)'
    BY <1>1, <1>3, <2>3, <2>4, UpPopped DEF Requested, Steady
  <2> QED
    BY <2>1, <2>2, <2>3, <2>5
<1>6. ASSUME HandlerStep(h), HandlerTypes', UpQueued(h)', DownQueued(h)', Served(h)',
             PerStream(down)', \A g \in Streams : g # h => down'[g] = down[g]
      PROVE  Requested'
  <2>1. OwnStream(h)
    BY <1>3, <1>6 DEF OwnStream
  <2>2. dead' \in SUBSET Streams
    BY <1>1 DEF Requested, Types, LinkTypes
  <2> QED
    BY <1>6, <2>1, <2>2, OwnStreamKept
<1>7. CASE /\ Goto(h, "openNext") /\ UNCHANGED <<down, verdict>>
           /\ h[2] < Len(Hops(h)) /\ RelayAdmits(h)
  <2>1. /\ pc' \in [Streams -> Working \cup {"none", "read", "end"}]
        /\ verdict' \in [Streams -> Codes \cup {"none"}] /\ pc'[h] = "openNext"
        /\ \A g \in Streams : g # h => pc'[g] = pc[g] /\ verdict'[g] = verdict[g]
    BY <1>7 DEF Goto, Requested, Types, HandlerTypes, Working
  <2>2. HandlerStep(h) /\ HandlerTypes' /\ UpQueued(h)' /\ Steady
    BY <2>1, <1>5
  <2>3. DownQueued(h)'
    BY <2>2, <1>7, DownKept DEF Requested
  <2>4. Served(h)'
    BY <1>1, <1>2, <1>4, <1>7, <2>1, <2>2, SameRequest, SamePolicy
    DEF Served, Steady, Relaying, Handshaking, Connected
  <2>5. PerStream(down)'
    BY <1>7 DEF Requested, Types, LinkTypes, PerStream
  <2> QED
    BY <1>7, <2>2, <2>3, <2>4, <2>5, <1>6
<1>8. CASE Goto(h, "dial") /\ UNCHANGED <<down, verdict>> /\ PlainAdmits(h)
  <2>1. /\ pc' \in [Streams -> Working \cup {"none", "read", "end"}]
        /\ verdict' \in [Streams -> Codes \cup {"none"}] /\ pc'[h] = "dial"
        /\ \A g \in Streams : g # h => pc'[g] = pc[g] /\ verdict'[g] = verdict[g]
    BY <1>8 DEF Goto, Requested, Types, HandlerTypes, Working
  <2>2. HandlerStep(h) /\ HandlerTypes' /\ UpQueued(h)' /\ Steady
    BY <2>1, <1>5
  <2>3. DownQueued(h)'
    BY <2>2, <1>8, DownKept DEF Requested
  <2>4. Served(h)'
    BY <1>1, <1>2, <1>4, <1>8, <2>1, <2>2, SameRequest, SamePolicy
    DEF Served, Steady, Relaying, Handshaking, Connected
  <2>5. PerStream(down)'
    BY <1>8 DEF Requested, Types, LinkTypes, PerStream
  <2> QED
    BY <1>8, <2>2, <2>3, <2>4, <2>5, <1>6
<1>9. CASE /\ Answer(h, <<Response("OK")>>) /\ UNCHANGED verdict
           /\ Goto(h, IF h \in dead THEN "end" ELSE "hello") /\ E2EAdmits(h)
  <2>1. /\ pc' \in [Streams -> Working \cup {"none", "read", "end"}]
        /\ verdict' \in [Streams -> Codes \cup {"none"}] /\ pc'[h] \in {"hello", "end"}
        /\ \A g \in Streams : g # h => pc'[g] = pc[g] /\ verdict'[g] = verdict[g]
    BY <1>9 DEF Goto, Requested, Types, HandlerTypes, Working
  <2>2. HandlerStep(h) /\ HandlerTypes' /\ UpQueued(h)' /\ Steady
    BY <2>1, <1>5
  <2>3. CandidateOf(h)'.e2e
    BY <1>9, <2>2, SameRequest DEF E2EAdmits, Steady
  <2>4. Response("OK") \in DownFrames(h)'
    BY <2>3 DEF DownFrames
  <2>5. /\ DownQueued(h)' /\ PerStream(down)'
        /\ \A g \in Streams : g # h => down'[g] = down[g]
    BY <1>9, <2>2, <2>4, AnswerOne
  <2>6. Served(h)'
    BY <1>1, <1>2, <1>4, <1>9, <2>1, <2>2, SameRequest, SamePolicy
    DEF Served, Steady, Working, Relaying, Handshaking, Connected
  <2> QED
    BY <2>2, <2>5, <2>6, <1>6
<1>10. ASSUME NEW code \in Failures, Reject(h, Response(code))
       PROVE  Requested'
  <2>1. /\ pc' \in [Streams -> Working \cup {"none", "read", "end"}]
        /\ verdict' \in [Streams -> Codes \cup {"none"}] /\ pc'[h] = "end"
        /\ \A g \in Streams : g # h => pc'[g] = pc[g] /\ verdict'[g] = verdict[g]
        /\ Answer(h, <<Response(code), Fin>>)
    BY <1>10, RejectEffect
  <2>2. HandlerStep(h) /\ HandlerTypes' /\ UpQueued(h)' /\ Steady
    BY <2>1, <1>5
  <2>3. /\ DownQueued(h)' /\ PerStream(down)'
        /\ \A g \in Streams : g # h => down'[g] = down[g]
    BY <2>1, <2>2, RejectAnswer
  <2>4. Served(h)'
    BY <1>1, <1>2, <1>4, <2>1, <2>2, SameRequest, SamePolicy
    DEF Served, Steady, Working, Relaying, Handshaking, Connected
  <2> QED
    BY <2>2, <2>3, <2>4, <1>6
<1> QED
  BY <1>7, <1>8, <1>9, <1>10, ReadConnectRequestCases

\* The parts of the other handlers' steps.
LEMMA UpSame ==
    ASSUME Requested, NEW h \in Streams, Steady, Stays(h), up' = up
    PROVE  /\ UpQueued(h)' /\ PerStream(up)'
           /\ \A g \in Streams : g # h => up'[g] = up[g]
<1>1. UpQueued(h)'
  BY UpKept DEF Requested, Steady
<1> QED
  BY <1>1 DEF Requested, Types, LinkTypes, PerStream

LEMMA UpTaken ==
    ASSUME Requested, NEW h \in Streams, Steady, up[h] # <<>>, up' = Pop(up, h),
           pc[h] \in Working \cup {"read"}, pc'[h] \in Working \cup {"end"}
    PROVE  /\ UpQueued(h)' /\ PerStream(up)'
           /\ \A g \in Streams : g # h => up'[g] = up[g]
<1>1. PerStream(up)
  BY DEF Requested, Types, LinkTypes
<1>2. /\ PerStream(Pop(up, h)) /\ Pop(up, h)[h] = Tail(up[h])
      /\ \A g \in Streams : g # h => Pop(up, h)[g] = up[g]
  BY <1>1, Popped
<1>3. UpQueued(h)'
  BY <1>2, UpPopped DEF Requested, Steady
<1> QED
  BY <1>2, <1>3 DEF PerStream

LEMMA DownSame ==
    ASSUME Requested, NEW h \in Streams, Steady, down' = down
    PROVE  /\ DownQueued(h)' /\ PerStream(down)'
           /\ \A g \in Streams : g # h => down'[g] = down[g]
<1>1. DownQueued(h)'
  BY DownKept DEF Requested
<1> QED
  BY <1>1 DEF Requested, Types, LinkTypes, PerStream

LEMMA ServedEnd ==
    ASSUME Requested, NEW h \in Streams, Steady, pc'[h] = "end",
           target'[h] # "none" => target[h] # "none"
    PROVE  Served(h)'
<1>1. Served(h)
  BY DEF Requested
<1> QED
  BY <1>1, SamePolicy DEF Served, Steady, Working, Relaying, Handshaking, Connected

\* A handler's step with a new place and target, where nothing else of the
\* handler's state is touched.
PlaceAndTarget(h) ==
    /\ setup' = setup /\ UNCHANGED clientVars /\ node' = node /\ peer' = peer
    /\ req' = req /\ dead' \in SUBSET Streams
    /\ ended' \in [Streams -> SUBSET {"up", "down"}]
    /\ pc' \in [Streams -> Working \cup {"none", "read", "end"}]
    /\ verdict' \in [Streams -> Codes \cup {"none"}]
    /\ target' \in [Streams -> {"none", "open", "closed"}]
    /\ \A g \in Streams : g # h =>
         pc'[g] = pc[g] /\ verdict'[g] = verdict[g] /\ target'[g] = target[g]

LEMMA PlaceAndTargetStep ==
    ASSUME Requested, NEW h \in Streams, PlaceAndTarget(h), pc[h] # "none", pc'[h] # "none",
           pc[h] \in Relaying \cup {"end"} => pc'[h] \in Relaying \cup {"end"},
           target[h] # "none" => target'[h] # "none"
    PROVE  HandlerStep(h) /\ HandlerTypes' /\ Steady
<1>1. HandlerStep(h)
  BY DEF HandlerStep, PlaceAndTarget
<1>2. HandlerTypes'
  BY DEF HandlerTypes, PlaceAndTarget, Requested, Types
<1> QED
  BY <1>1, <1>2, HandlerSteady DEF Requested

LEMMA PlaceAndTargetKept ==
    ASSUME Requested, NEW h \in Streams, PlaceAndTarget(h), HandlerStep(h), HandlerTypes', Served(h)',
           UpQueued(h)', PerStream(up)', \A g \in Streams : g # h => up'[g] = up[g],
           DownQueued(h)', PerStream(down)', \A g \in Streams : g # h => down'[g] = down[g]
    PROVE  Requested'
<1>1. OwnStream(h)
  BY DEF OwnStream
<1>2. dead' \in SUBSET Streams
  BY DEF PlaceAndTarget
<1> QED
  BY <1>1, <1>2, OwnStreamKept

LEMMA RejectKept ==
    ASSUME Requested, NEW h \in Streams, pc[h] # "none", NEW frame, NEW code \in Failures,
           frame = Response(code) \/ frame = E2EClose(code), Reject(h, frame),
           UNCHANGED <<setup, clientVars, node, peer, dead, req, ended>>,
           \/ up' = up
           \/ up[h] # <<>> /\ up' = Pop(up, h) /\ pc[h] \in Working \cup {"read"},
           target' \in [Streams -> {"none", "open", "closed"}],
           target'[h] # "none" <=> target[h] # "none",
           \A g \in Streams : g # h => target'[g] = target[g]
    PROVE  Requested'
<1>1. /\ pc' \in [Streams -> Working \cup {"none", "read", "end"}]
      /\ verdict' \in [Streams -> Codes \cup {"none"}]
      /\ pc'[h] = "end" /\ Answer(h, <<frame, Fin>>)
      /\ \A g \in Streams : g # h => pc'[g] = pc[g] /\ verdict'[g] = verdict[g]
  BY RejectEffect
<1>2. PlaceAndTarget(h)
  BY <1>1 DEF PlaceAndTarget, Requested, Types, LinkTypes, HandlerTypes
<1>3. HandlerStep(h) /\ HandlerTypes' /\ Steady
  BY <1>1, <1>2, PlaceAndTargetStep
<1>4. Served(h)'
  BY <1>1, <1>3, ServedEnd
<1>5. /\ DownQueued(h)' /\ PerStream(down)'
      /\ \A g \in Streams : g # h => down'[g] = down[g]
  BY <1>1, <1>3, RejectAnswer
<1>6. /\ UpQueued(h)' /\ PerStream(up)' /\ \A g \in Streams : g # h => up'[g] = up[g]
  <2>1. CASE up' = up
    <3>1. Stays(h)
      BY <1>1 DEF Stays
    <3> QED
      BY <2>1, <3>1, <1>3, UpSame
  <2>2. CASE up[h] # <<>> /\ up' = Pop(up, h) /\ pc[h] \in Working \cup {"read"}
    <3>1. pc'[h] \in Working \cup {"end"}
      BY <1>1
    <3> QED
      BY <2>2, <3>1, <1>3, UpTaken
  <2> QED
    BY <2>1, <2>2
<1> QED
  BY <1>2, <1>3, <1>4, <1>5, <1>6, PlaceAndTargetKept

LEMMA ReadRequestFailKept ==
    ASSUME Requested, NEW h \in Streams, ReadRequestFail(h)
    PROVE  Requested'
<1>1. /\ pc[h] = "read" /\ Answer(h, <<Fin>>) /\ pc' = [pc EXCEPT ![h] = "end"]
      /\ UNCHANGED <<setup, clientVars, node, peer, up, dead, req, target, ended, verdict>>
  BY DEF ReadRequestFail, Goto
<1>2. PlaceAndTarget(h) /\ pc'[h] = "end"
  BY <1>1 DEF PlaceAndTarget, Requested, Types, LinkTypes, HandlerTypes
<1>3. HandlerStep(h) /\ HandlerTypes' /\ Steady
  BY <1>1, <1>2, PlaceAndTargetStep
<1>4. Served(h)'
  BY <1>1, <1>2, <1>3, ServedEnd
<1>5. /\ DownQueued(h)' /\ PerStream(down)'
      /\ \A g \in Streams : g # h => down'[g] = down[g]
  BY <1>1, <1>3, FinFrames, AnswerOne
<1>6. /\ UpQueued(h)' /\ PerStream(up)' /\ \A g \in Streams : g # h => up'[g] = up[g]
  BY <1>1, <1>2, <1>3, UpSame DEF Stays
<1> QED
  BY <1>2, <1>3, <1>4, <1>5, <1>6, PlaceAndTargetKept

LEMMA DialTargetKept ==
    ASSUME Requested, NEW h \in Streams, DialTarget(h)
    PROVE  Requested'
<1>1. pc[h] = "dial" /\ UNCHANGED <<setup, clientVars, node, peer, up, dead, req, ended>>
  BY DEF DialTarget
<1>2. PlainAdmits(h) /\ req[h] = Expected(h)
  BY <1>1 DEF Requested, Served, Working
<1>3. CASE /\ target' = [target EXCEPT ![h] = "open"]
           /\ Goto(h, "answer") /\ UNCHANGED <<down, verdict>>
  <2>1. PlaceAndTarget(h) /\ pc'[h] = "answer" /\ target'[h] = "open"
    BY <1>1, <1>3 DEF PlaceAndTarget, Goto, Requested, Types, LinkTypes, HandlerTypes, Working
  <2>2. HandlerStep(h) /\ HandlerTypes' /\ Steady
    BY <1>1, <2>1, PlaceAndTargetStep DEF Relaying
  <2>3. Served(h)'
    BY <1>1, <1>2, <2>1, <2>2, SameRequest, SamePolicy
    DEF Served, Steady, Working, Relaying, Handshaking, Connected
  <2>4. /\ DownQueued(h)' /\ PerStream(down)'
        /\ \A g \in Streams : g # h => down'[g] = down[g]
    BY <1>3, <2>2, DownSame
  <2>5. /\ UpQueued(h)' /\ PerStream(up)' /\ \A g \in Streams : g # h => up'[g] = up[g]
    BY <1>1, <2>1, <2>2, UpSame DEF Stays, Working
  <2> QED
    BY <2>1, <2>2, <2>3, <2>4, <2>5, PlaceAndTargetKept
<1>4. CASE Reject(h, Response("TARGET_DIAL_FAILED")) /\ UNCHANGED target
  <2>1. "TARGET_DIAL_FAILED" \in Failures
    BY DEF Failures, Codes
  <2> QED
    BY <1>1, <1>4, <2>1, RejectKept DEF Requested, Types, HandlerTypes
<1> QED
  BY <1>3, <1>4 DEF DialTarget

\* An egress that has its target is the last hop.
LEMMA EgressReached ==
    ASSUME Requested, NEW h \in Streams, target[h] # "none"
    PROVE  LastHop(h) = h /\ Reached(h)
<1>1. h[2] = Len(Hops(h))
  BY DEF Requested, Served, PlainAdmits, E2EAdmits, EgressAdmits
<1>2. LastHop(h) = h
  BY <1>1, StreamPair DEF LastHop
<1> QED
  BY <1>2 DEF Reached

LEMMA WriteOKKept ==
    ASSUME Requested, NEW h \in Streams, WriteOK(h)
    PROVE  Requested'
<1>1. /\ pc[h] = "answer" /\ Answer(h, <<Response("OK")>>)
      /\ UNCHANGED <<setup, clientVars, node, peer, up, dead, req, ended, verdict>>
      /\ \/ Goto(h, "end") /\ target' = [target EXCEPT ![h] = "closed"]
         \/ Goto(h, "proxy") /\ UNCHANGED target
  BY DEF WriteOK
<1>2. target[h] # "none" /\ req[h] = Expected(h)
  BY <1>1 DEF Requested, Served, Connected, Working
<1>3. /\ PlaceAndTarget(h) /\ pc'[h] \in {"end", "proxy"} /\ target'[h] # "none"
  BY <1>1, <1>2 DEF PlaceAndTarget, Goto, Requested, Types, LinkTypes, HandlerTypes, Working
<1>4. HandlerStep(h) /\ HandlerTypes' /\ Steady
  BY <1>1, <1>3, PlaceAndTargetStep DEF Relaying
<1>5. Served(h)'
  <2>1. Served(h)
    BY DEF Requested
  <2> QED
    BY <2>1, <1>1, <1>2, <1>3, <1>4, SameRequest, SamePolicy
    DEF Served, Steady, Working, Relaying, Handshaking, Connected
<1>6. Response("OK") \in DownFrames(h)'
  <2>1. Reached(h)'
    BY <1>2, <1>3, <1>4, EgressReached, SameRequest DEF Reached, Steady
  <2> QED
    BY <2>1 DEF DownFrames
<1>7. /\ DownQueued(h)' /\ PerStream(down)'
      /\ \A g \in Streams : g # h => down'[g] = down[g]
  BY <1>1, <1>4, <1>6, AnswerOne
<1>8. /\ UpQueued(h)' /\ PerStream(up)' /\ \A g \in Streams : g # h => up'[g] = up[g]
  BY <1>1, <1>3, <1>4, UpSame DEF Stays, Working
<1> QED
  BY <1>3, <1>4, <1>5, <1>7, <1>8, PlaceAndTargetKept

LEMMA ReadClientHelloKept ==
    ASSUME Requested, NEW h \in Streams, ReadClientHello(h)
    PROVE  Requested'
<1>1. /\ pc[h] = "hello" /\ up[h] # <<>> /\ up' = Pop(up, h)
      /\ UNCHANGED <<setup, clientVars, node, peer, dead, req, target, ended>>
  BY DEF ReadClientHello, Is
<1>2. E2EAdmits(h) /\ req[h] = Expected(h) /\ target[h] = "none"
  BY <1>1 DEF Requested, Served, Working, Handshaking, Connected
<1>3. node[h] = Hops(h)[h[2]]
  BY <1>1, AtItsHop
<1>4. \/ \E code \in Failures : Reject(h, E2EClose(code))
      \/ /\ authorizeServicePeer(node[h], Client) /\ Goto(h, "e2eDial")
         /\ UNCHANGED <<down, verdict>>
  <2>1. \/ Reject(h, E2EClose("INTERNAL_ERROR"))
        \/ Reject(h, E2EClose("ACCESS_DENIED"))
        \/ /\ authorizeServicePeer(node[h], Client) /\ Goto(h, "e2eDial")
           /\ UNCHANGED <<down, verdict>>
    BY DEF ReadClientHello
  <2>2. "INTERNAL_ERROR" \in Failures /\ "ACCESS_DENIED" \in Failures
    BY DEF Failures, Codes
  <2> QED
    BY <2>1, <2>2
<1>5. ASSUME NEW code \in Failures, Reject(h, E2EClose(code)) PROVE Requested'
  <2>1. pc[h] \in Working \cup {"read"}
    BY <1>1 DEF Working
  <2> QED
    BY <1>1, <1>5, <2>1, RejectKept DEF Requested, Types, HandlerTypes
<1>6. CASE /\ authorizeServicePeer(node[h], Client) /\ Goto(h, "e2eDial")
           /\ UNCHANGED <<down, verdict>>
  <2>1. PlaceAndTarget(h) /\ pc'[h] = "e2eDial" /\ target'[h] = "none"
    BY <1>1, <1>2, <1>6 DEF PlaceAndTarget, Goto, Requested, Types, LinkTypes, HandlerTypes, Working
  <2>2. HandlerStep(h) /\ HandlerTypes' /\ Steady
    BY <1>1, <2>1, PlaceAndTargetStep DEF Relaying
  <2>3. ClientAdmitted(h)
    BY <1>3, <1>6 DEF ClientAdmitted, Policy, authorizeServicePeer
  <2>4. Served(h)'
    BY <1>1, <1>2, <2>1, <2>2, <2>3, SameRequest, SamePolicy
    DEF Served, Steady, Working, Relaying, Handshaking, Connected
  <2>5. /\ DownQueued(h)' /\ PerStream(down)'
        /\ \A g \in Streams : g # h => down'[g] = down[g]
    BY <1>6, <2>2, DownSame
  <2>6. /\ UpQueued(h)' /\ PerStream(up)' /\ \A g \in Streams : g # h => up'[g] = up[g]
    BY <1>1, <2>1, <2>2, UpTaken DEF Working
  <2> QED
    BY <2>1, <2>2, <2>4, <2>5, <2>6, PlaceAndTargetKept
<1> QED
  BY <1>4, <1>5, <1>6

LEMMA E2EDialTargetKept ==
    ASSUME Requested, NEW h \in Streams, E2EDialTarget(h)
    PROVE  Requested'
<1>1. pc[h] = "e2eDial" /\ UNCHANGED <<setup, clientVars, node, peer, up, dead, req, ended>>
  BY DEF E2EDialTarget
<1>2. E2EAdmits(h) /\ ClientAdmitted(h) /\ req[h] = Expected(h)
  BY <1>1 DEF Requested, Served, Working, Handshaking
<1>3. CASE /\ target' = [target EXCEPT ![h] = "open"]
           /\ Goto(h, "serverHello") /\ UNCHANGED <<down, verdict>>
  <2>1. PlaceAndTarget(h) /\ pc'[h] = "serverHello" /\ target'[h] = "open"
    BY <1>1, <1>3 DEF PlaceAndTarget, Goto, Requested, Types, LinkTypes, HandlerTypes, Working
  <2>2. HandlerStep(h) /\ HandlerTypes' /\ Steady
    BY <1>1, <2>1, PlaceAndTargetStep DEF Relaying
  <2>3. Served(h)'
    BY <1>1, <1>2, <2>1, <2>2, SameRequest, SamePolicy
    DEF Served, Steady, Working, Relaying, Handshaking, Connected
  <2>4. /\ DownQueued(h)' /\ PerStream(down)'
        /\ \A g \in Streams : g # h => down'[g] = down[g]
    BY <1>3, <2>2, DownSame
  <2>5. /\ UpQueued(h)' /\ PerStream(up)' /\ \A g \in Streams : g # h => up'[g] = up[g]
    BY <1>1, <2>1, <2>2, UpSame DEF Stays, Working
  <2> QED
    BY <2>1, <2>2, <2>3, <2>4, <2>5, PlaceAndTargetKept
<1>4. CASE Reject(h, E2EClose("TARGET_DIAL_FAILED")) /\ UNCHANGED target
  <2>1. "TARGET_DIAL_FAILED" \in Failures
    BY DEF Failures, Codes
  <2> QED
    BY <1>1, <1>4, <2>1, RejectKept DEF Requested, Types, HandlerTypes
<1> QED
  BY <1>3, <1>4 DEF E2EDialTarget

LEMMA SendServerHelloKept ==
    ASSUME Requested, NEW h \in Streams, SendServerHello(h)
    PROVE  Requested'
<1>1. /\ pc[h] = "serverHello" /\ h \notin dead /\ Goto(h, "finished")
      /\ down' = Push(down, h, <<Frame("serverHello", ServerContext(req[h]))>>)
      /\ UNCHANGED <<setup, clientVars, node, peer, up, dead, req, target, ended, verdict>>
  BY DEF SendServerHello
<1>2. E2EAdmits(h) /\ target[h] # "none" /\ req[h] = Expected(h)
  BY <1>1 DEF Requested, Served, Working, Handshaking, Connected
<1>3. PlaceAndTarget(h) /\ pc'[h] = "finished" /\ target'[h] = target[h]
  BY <1>1 DEF PlaceAndTarget, Goto, Requested, Types, LinkTypes, HandlerTypes, Working
<1>4. HandlerStep(h) /\ HandlerTypes' /\ Steady
  BY <1>1, <1>3, PlaceAndTargetStep DEF Relaying
<1>5. Served(h)'
  <2>1. Served(h)
    BY DEF Requested
  <2> QED
    BY <2>1, <1>1, <1>2, <1>3, <1>4, SameRequest, SamePolicy
    DEF Served, Steady, Working, Relaying, Handshaking, Connected
<1>6. Frame("serverHello", ServerContext(req[h])) \in DownFrames(h)'
  <2>1. ServerContext(req[h]) = ClientContext(CandidateOf(h))
    BY <1>1, <1>2, AtItsHop, SameTranscript DEF E2EAdmits
  <2>2. Frame("serverHello", ClientContext(CandidateOf(h))) \in DownFrames(h)
    BY <1>2, EgressReached DEF DownFrames
  <2> QED
    BY <2>1, <2>2, <1>4, DownWider DEF Requested
<1>7. Answer(h, <<Frame("serverHello", ServerContext(req[h]))>>)
  BY <1>1 DEF Answer
<1>8. /\ DownQueued(h)' /\ PerStream(down)'
      /\ \A g \in Streams : g # h => down'[g] = down[g]
  BY <1>4, <1>6, <1>7, AnswerOne
<1>9. /\ UpQueued(h)' /\ PerStream(up)' /\ \A g \in Streams : g # h => up'[g] = up[g]
  BY <1>1, <1>3, <1>4, UpSame DEF Stays, Working
<1> QED
  BY <1>3, <1>4, <1>5, <1>8, <1>9, PlaceAndTargetKept

LEMMA ReadClientFinishedKept ==
    ASSUME Requested, NEW h \in Streams, ReadClientFinished(h)
    PROVE  Requested'
<1>1. /\ pc[h] = "finished" /\ up[h] # <<>> /\ up' = Pop(up, h) /\ Goto(h, "proxy")
      /\ UNCHANGED <<setup, clientVars, node, peer, down, dead, req, target, ended, verdict>>
  BY DEF ReadClientFinished, Is
<1>2. PlaceAndTarget(h) /\ pc'[h] = "proxy" /\ target'[h] = target[h]
  BY <1>1 DEF PlaceAndTarget, Goto, Requested, Types, LinkTypes, HandlerTypes, Working
<1>3. HandlerStep(h) /\ HandlerTypes' /\ Steady
  BY <1>1, <1>2, PlaceAndTargetStep DEF Relaying
<1>4. Served(h)'
  <2>1. Served(h)
    BY DEF Requested
  <2> QED
    BY <2>1, <1>1, <1>2, <1>3, SameRequest, SamePolicy
    DEF Served, Steady, Working, Relaying, Handshaking, Connected
<1>5. /\ DownQueued(h)' /\ PerStream(down)'
      /\ \A g \in Streams : g # h => down'[g] = down[g]
  BY <1>1, <1>3, DownSame
<1>6. /\ UpQueued(h)' /\ PerStream(up)' /\ \A g \in Streams : g # h => up'[g] = up[g]
  BY <1>1, <1>2, <1>3, UpTaken DEF Working
<1> QED
  BY <1>2, <1>3, <1>4, <1>5, <1>6, PlaceAndTargetKept

LEMMA E2EFailKept ==
    ASSUME Requested, NEW h \in Streams, E2EFail(h)
    PROVE  Requested'
<1>1. /\ pc[h] \in {"hello", "finished", "serverHello"}
      /\ target' = [target EXCEPT ![h] = IF @ = "open" THEN "closed" ELSE @]
      /\ Reject(h, E2EClose("INTERNAL_ERROR"))
      /\ UNCHANGED <<setup, clientVars, node, peer, up, dead, req, ended>>
  BY DEF E2EFail
<1>2. "INTERNAL_ERROR" \in Failures
  BY DEF Failures, Codes
<1>3. /\ target' \in [Streams -> {"none", "open", "closed"}]
      /\ target'[h] # "none" <=> target[h] # "none"
      /\ \A g \in Streams : g # h => target'[g] = target[g]
  BY <1>1 DEF Requested, Types, HandlerTypes
<1> QED
  BY <1>1, <1>2, <1>3, RejectKept

LEMMA OpenNextFailKept ==
    ASSUME Requested, NEW h \in Streams, OpenNextFail(h)
    PROVE  Requested'
<1>1. /\ pc[h] = "openNext" /\ Reject(h, Response("NEXT_HOP_UNREACHABLE"))
      /\ UNCHANGED <<setup, clientVars, node, peer, up, dead, req, target, ended>>
  BY DEF OpenNextFail
<1>2. "NEXT_HOP_UNREACHABLE" \in Failures
  BY DEF Failures, Codes
<1> QED
  BY <1>1, <1>2, RejectKept DEF Requested, Types, HandlerTypes

\* The end of one direction.
LEMMA FinishEffect ==
    ASSUME Requested, NEW h \in Streams, NEW direction \in {"up", "down"}, Finish(h, direction)
    PROVE  /\ pc' \in [Streams -> Working \cup {"none", "read", "end"}]
           /\ pc'[h] \in {pc[h], "end"}
           /\ ended' \in [Streams -> SUBSET {"up", "down"}]
           /\ ended'[h] = ended[h] \cup {direction}
           /\ pc'[h] = "end" /\ pc[h] # "end" => ended'[h] = {"up", "down"}
           /\ \A g \in Streams : g # h => pc'[g] = pc[g] /\ ended'[g] = ended[g]
BY DEF Finish, Goto, Requested, Types, HandlerTypes

LEMMA CloseTargetEffect ==
    ASSUME Requested, NEW h \in Streams, CloseTarget(h), target[h] # "none"
    PROVE  /\ target' \in [Streams -> {"none", "open", "closed"}]
           /\ target'[h] # "none"
           /\ \A g \in Streams : g # h => target'[g] = target[g]
BY DEF CloseTarget, Requested, Types, HandlerTypes

\* The steps of an egress's proxy.
LEMMA ProxyStepKept ==
    ASSUME Requested, NEW h \in Streams, pc[h] = "proxy",
           UNCHANGED <<setup, clientVars, node, peer, req, verdict>>,
           pc' \in [Streams -> Working \cup {"none", "read", "end"}], pc'[h] \in {"proxy", "end"},
           \A g \in Streams : g # h => pc'[g] = pc[g],
           ended' \in [Streams -> SUBSET {"up", "down"}], CloseTarget(h),
           dead' \in SUBSET Streams,
           up' = up \/ (up[h] # <<>> /\ up' = Pop(up, h)),
           down' = down \/ Answer(h, <<Fin>>)
    PROVE  Requested'
<1>1. target[h] # "none" /\ req[h] = Expected(h)
  BY DEF Requested, Served, Connected, Working
<1>2. /\ target' \in [Streams -> {"none", "open", "closed"}] /\ target'[h] # "none"
      /\ \A g \in Streams : g # h => target'[g] = target[g]
  BY <1>1, CloseTargetEffect
<1>3. PlaceAndTarget(h)
  BY <1>2 DEF PlaceAndTarget, Requested, Types, LinkTypes, HandlerTypes
<1>4. HandlerStep(h) /\ HandlerTypes' /\ Steady
  BY <1>2, <1>3, PlaceAndTargetStep DEF Relaying
<1>5. Served(h)'
  <2>1. Served(h)
    BY DEF Requested
  <2> QED
    BY <2>1, <1>1, <1>2, <1>4, SameRequest, SamePolicy
    DEF Served, Steady, Working, Relaying, Handshaking, Connected
<1>6. /\ DownQueued(h)' /\ PerStream(down)'
      /\ \A g \in Streams : g # h => down'[g] = down[g]
  BY <1>4, DownSame, AnswerOne, FinFrames
<1>7. /\ UpQueued(h)' /\ PerStream(up)' /\ \A g \in Streams : g # h => up'[g] = up[g]
  <2>1. Stays(h) /\ pc[h] \in Working \cup {"read"} /\ pc'[h] \in Working \cup {"end"}
    BY DEF Stays, Working
  <2>2. CASE up' = up
    BY <2>1, <2>2, <1>4, UpSame
  <2>3. CASE up[h] # <<>> /\ up' = Pop(up, h)
    BY <2>1, <2>3, <1>4, UpTaken
  <2> QED
    BY <2>2, <2>3
<1> QED
  BY <1>3, <1>4, <1>5, <1>6, <1>7, PlaceAndTargetKept

LEMMA EgressKept ==
    ASSUME Requested, NEW h \in Streams, EgressUp(h) \/ TargetEOF(h) \/ EgressAbort(h)
    PROVE  Requested'
<1>1. CASE EgressUp(h)
  <2>1. /\ pc[h] = "proxy" /\ up[h] # <<>> /\ up' = Pop(up, h)
        /\ Finish(h, "up") /\ CloseTarget(h)
        /\ UNCHANGED <<setup, clientVars, node, peer, down, dead, req, verdict>>
    BY <1>1 DEF EgressUp, Is
  <2>2. /\ pc' \in [Streams -> Working \cup {"none", "read", "end"}] /\ pc'[h] \in {"proxy", "end"}
        /\ \A g \in Streams : g # h => pc'[g] = pc[g]
        /\ ended' \in [Streams -> SUBSET {"up", "down"}]
    BY <2>1, FinishEffect
  <2> QED
    BY <2>1, <2>2, ProxyStepKept DEF Requested, Types, LinkTypes
<1>2. CASE TargetEOF(h)
  <2>1. /\ pc[h] = "proxy" /\ Answer(h, <<Fin>>) /\ Finish(h, "down") /\ CloseTarget(h)
        /\ UNCHANGED <<setup, clientVars, node, peer, up, dead, req, verdict>>
    BY <1>2 DEF TargetEOF
  <2>2. /\ pc' \in [Streams -> Working \cup {"none", "read", "end"}] /\ pc'[h] \in {"proxy", "end"}
        /\ \A g \in Streams : g # h => pc'[g] = pc[g]
        /\ ended' \in [Streams -> SUBSET {"up", "down"}]
    BY <2>1, FinishEffect
  <2> QED
    BY <2>1, <2>2, ProxyStepKept DEF Requested, Types, LinkTypes
<1>3. CASE EgressAbort(h)
  <2>1. /\ pc[h] = "proxy" /\ dead' = dead \cup {h} /\ Goto(h, "end") /\ CloseTarget(h)
        /\ UNCHANGED <<setup, clientVars, node, peer, up, down, req, ended, verdict>>
    BY <1>3 DEF EgressAbort
  <2>2. /\ pc' \in [Streams -> Working \cup {"none", "read", "end"}] /\ pc'[h] = "end"
        /\ \A g \in Streams : g # h => pc'[g] = pc[g]
        /\ ended' \in [Streams -> SUBSET {"up", "down"}] /\ dead' \in SUBSET Streams
    BY <2>1 DEF Goto, Requested, Types, LinkTypes, HandlerTypes
  <2> QED
    BY <2>1, <2>2, ProxyStepKept
<1> QED
  BY <1>1, <1>2, <1>3

LEMMA LoseStreamKept ==
    ASSUME Requested, NEW h \in Streams, LoseStream(h)
    PROVE  Requested'
<1>1. /\ pc[h] # "none" /\ dead' = dead \cup {h}
      /\ UNCHANGED <<setup, clientVars, node, peer, up, down, handlerVars>>
  BY DEF LoseStream
<1>2. PlaceAndTarget(h) /\ pc' = pc /\ target' = target
  BY <1>1 DEF PlaceAndTarget, handlerVars, Requested, Types, LinkTypes, HandlerTypes
<1>3. HandlerStep(h) /\ HandlerTypes' /\ Steady
  BY <1>1, <1>2, PlaceAndTargetStep
<1>4. Served(h)'
  BY <1>1, <1>2, <1>3, ServedKept DEF handlerVars, Requested
<1>5. /\ DownQueued(h)' /\ PerStream(down)'
      /\ \A g \in Streams : g # h => down'[g] = down[g]
  BY <1>1, <1>3, DownSame
<1>6. /\ UpQueued(h)' /\ PerStream(up)' /\ \A g \in Streams : g # h => up'[g] = up[g]
  BY <1>1, <1>2, <1>3, UpSame DEF Stays
<1> QED
  BY <1>2, <1>3, <1>4, <1>5, <1>6, PlaceAndTargetKept

-----------------------------------------------------------------------------
(* The relays' steps, which involve the next hop's stream. *)

LEMMA NextFrames ==
    ASSUME ClientTypes, NEW h \in Streams, h[2] < Len(Hops(h))
    PROVE  /\ Following(NextHop(h)) = Following(h)
           /\ DownFrames(NextHop(h)) = DownFrames(h)
BY NextStream DEF Following, DownFrames, Reached

LEMMA ForwardedExpected ==
    ASSUME ClientTypes, NEW h \in Streams, h[2] < Len(Hops(h))
    PROVE  /\ Forwarded(Expected(h)) = Expected(NextHop(h))
           /\ Expected(h).route[2] = Hops(NextHop(h))[NextHop(h)[2]]
<1>1. Len(Hops(h)) \in Nat /\ h[2] \in Nat \ {0} /\ h[2] <= Len(Hops(h))
  BY HopsShape, StreamIndex
<1>2. CandidateOf(h).route # <<>>
  <2>1. CandidateOf(h).route = <<>> => Len(Hops(h)) = 1
    BY HopsShape
  <2>2. \A i, l \in Nat : i # 0 /\ i < l => l # 1
    OBVIOUS
  <2>3. Len(Hops(h)) # 1
    BY <1>1, <2>2
  <2> QED
    BY <2>1, <2>3
<1>3. /\ Expected(h).route[2] = Hops(h)[h[2] + 1]
      /\ Tail(Expected(h).route) =
           SubSeq(CandidateOf(h).route, h[2] + 1, Len(CandidateOf(h).route))
  BY <1>1, <1>2, ExpectedShape
<1>4. NextHop(h)[2] = h[2] + 1 /\ CandidateOf(NextHop(h)) = CandidateOf(h) /\ Hops(NextHop(h)) = Hops(h)
  BY NextStream
<1>5. Forwarded(Expected(h)) = Expected(NextHop(h))
  <2> DEFINE Request(route, c) ==
               [route |-> route, egress |-> c.egress, e2e |-> c.e2e,
                e2eRoute |-> IF c.e2e THEN c.route ELSE <<>>]
  <2>2. \A r, route, c : [Request(r, c) EXCEPT !.route = route] = Request(route, c)
    OBVIOUS
  <2>3. Expected(h) = Request(SubSeq(CandidateOf(h).route, h[2], Len(CandidateOf(h).route)),
                              CandidateOf(h))
    BY <1>2 DEF Expected
  <2>4. Expected(NextHop(h)) =
          Request(SubSeq(CandidateOf(h).route, h[2] + 1, Len(CandidateOf(h).route)),
                  CandidateOf(h))
    BY <1>2, <1>4 DEF Expected
  <2> HIDE DEF Request
  <2>5. Forwarded(Expected(h)) = [Expected(h) EXCEPT !.route = Tail(Expected(h).route)]
    BY DEF Forwarded
  <2> DEFINE rest == Tail(Expected(h).route)
  <2>6. Expected(NextHop(h)) = Request(rest, CandidateOf(h))
    BY <1>3, <2>4
  <2> HIDE DEF rest
  <2>7. [Expected(h) EXCEPT !.route = rest] = Request(rest, CandidateOf(h))
    BY <2>2, <2>3
  <2> QED
    BY <2>5, <2>6, <2>7 DEF rest
<1> QED
  BY <1>3, <1>4, <1>5

\* The next hop's stream is not open before OpenNext.
LEMMA NextNotOpen ==
    ASSUME Requested, NEW h \in Streams, pc[h] \notin Relaying \cup {"end"},
           NEW g \in Streams, g[1] = h[1], g[2] > h[2]
    PROVE  pc[g] = "none"
<1> SUFFICES ASSUME pc[g] # "none" PROVE FALSE
  OBVIOUS
<1>1. h[2] \in 1..(g[2] - 1)
  BY StreamIndex
<1>2. <<g[1], h[2]>> = h
  BY StreamPair
<1> QED
  BY <1>1, <1>2 DEF Requested, Opened

LEMMA OpenNextKept ==
    ASSUME Requested, NEW h \in Streams, OpenNext(h)
    PROVE  Requested'
<1> DEFINE n == NextHop(h)
<1>1. /\ pc[h] = "openNext"
      /\ node' = [node EXCEPT ![n] = req[h].route[2]]
      /\ peer' = [peer EXCEPT ![n] = node[h]]
      /\ up' = Push(up, n, <<Frame("request", Forwarded(req[h]))>>)
      /\ pc' = [pc EXCEPT ![h] = "waitNext", ![n] = "read"]
      /\ UNCHANGED <<setup, clientVars, down, dead, req, target, ended, verdict>>
  BY DEF OpenNext
<1>2. ClientTypes /\ Types /\ h[2] < Len(Hops(h)) /\ RelayAdmits(h) /\ req[h] = Expected(h)
  BY <1>1 DEF Requested, Types, Served, Working
<1>3. /\ n \in Streams /\ n # h /\ n[1] = h[1] /\ n[2] = h[2] + 1
      /\ CandidateOf(n) = CandidateOf(h) /\ Hops(n) = Hops(h)
  BY <1>2, NextStream
<1>4. Forwarded(req[h]) = Expected(n) /\ req[h].route[2] = Hops(n)[n[2]]
  BY <1>2, ForwardedExpected
<1>5. h[2] \in Nat \ {0} /\ n[2] \in Nat \ {0} /\ h[1] \in Nat /\ n[2] > h[2] /\ n[2] # 1
  BY <1>3, StreamIndex
<1>6. pc[n] = "none"
  BY <1>1, <1>3, <1>5, NextNotOpen DEF Relaying
<1>7. up[n] = <<>> /\ down[n] = <<>> /\ target[n] = "none" /\ verdict[n] = "none"
  BY <1>3, <1>6 DEF Requested, Opened
<1> HIDE DEF n
<1>8. /\ h[1] <= att /\ (h[1] = att => client # "open") /\ h[2] <= Len(Hops(h))
      /\ node[h] = Hops(h)[h[2]] /\ peer[h] = Sender(h) /\ Admitted(h)
      /\ \A i \in 1..(h[2] - 1) : pc[<<h[1], i>>] \in Relaying \cup {"end"}
  BY <1>1 DEF Requested, Opened
<1>9. n[2] \in 1..Len(Hops(n)) /\ Hops(n) \in Seq(Nodes) /\ Hops(n)[n[2]] \in Nodes
  <2>1. Hops(n) \in Seq(Nodes) /\ Len(Hops(n)) \in Nat
    BY <1>2, <1>3, HopsShape
  <2>2. n[2] \in 1..Len(Hops(n))
    BY <1>2, <1>3, <1>5, <2>1
  <2> QED
    BY <2>1, <2>2
<1>10. /\ pc' \in [Streams -> Working \cup {"none", "read", "end"}]
       /\ pc'[h] = "waitNext" /\ pc'[n] = "read"
       /\ \A g \in Streams : g # h /\ g # n => pc'[g] = pc[g]
  BY <1>1, <1>3 DEF Types, HandlerTypes, Working, Requested
<1>11. /\ node' \in [Streams -> Nodes] /\ peer' \in [Streams -> Nodes \cup {Client}]
       /\ node'[n] = Hops(n)[n[2]] /\ peer'[n] = node[h]
       /\ \A g \in Streams : g # n => node'[g] = node[g] /\ peer'[g] = peer[g]
  BY <1>1, <1>2, <1>3, <1>4, <1>9 DEF Types, LinkTypes
<1>12. /\ PerStream(up)' /\ up'[n] = <<>> \o <<Frame("request", Expected(n))>>
       /\ \A g \in Streams : g # n => up'[g] = up[g]
  <2>1. PerStream(up)
    BY <1>2 DEF Types, LinkTypes
  <2>2. \A s : /\ PerStream(Push(up, n, s)) /\ Push(up, n, s)[n] = up[n] \o s
               /\ \A g \in Streams : g # n => Push(up, n, s)[g] = up[g]
    BY ONLY <2>1, <1>3, Pushed
  <2>3. up' = Push(up, n, <<Frame("request", Expected(n))>>)
    BY <1>1, <1>4
  <2>4. /\ PerStream(up') /\ up'[n] = up[n] \o <<Frame("request", Expected(n))>>
        /\ \A g \in Streams : g # n => up'[g] = up[g]
    BY <2>2, <2>3, Zenon
  <2> QED
    BY <2>4, <1>7 DEF PerStream
<1>13. setup' = setup /\ candOf' = candOf /\ att' = att /\ client' = client
  BY <1>1 DEF clientVars
<1>14. ClientTypes'
  BY <1>1, <1>2, <1>13 DEF clientVars, ClientTypes, Candidates
<1>15. LinkTypes' /\ HandlerTypes'
  <2>1. LinkTypes'
    BY <1>1, <1>2, <1>11, <1>12 DEF Types, LinkTypes, PerStream
  <2>2. HandlerTypes'
    BY <1>1, <1>2, <1>10 DEF Types, HandlerTypes
  <2> QED
    BY <2>1, <2>2
<1>16. Steady
  <2>1. att \in Nat /\ att' \in Nat /\ att <= att'
    BY <1>2, <1>13 DEF ClientTypes
  <2>2. ASSUME NEW g \in Streams
        PROVE  /\ pc[g] # "none" => pc'[g] # "none"
               /\ pc[g] \in Relaying \cup {"end"} => pc'[g] \in Relaying \cup {"end"}
               /\ target[g] # "none" => target'[g] # "none"
    BY <1>1, <1>6, <1>10 DEF Relaying
  <2> QED
    BY <1>13, <2>1, <2>2 DEF Steady
<1>17. Opened(n)'
  <2>1. n[1] <= att' /\ (n[1] = att' => client' # "open")
    BY <1>3, <1>8, <1>13
  <2>2. n[2] <= Len(Hops(n)') /\ node'[n] = Hops(n)'[n[2]]
    BY <1>2, <1>3, <1>9, <1>11, <1>13, SameRequest, HopsShape
  <2>3. peer'[n] = Sender(n)'
    <3>1. Sender(n) = Hops(h)[h[2]]
      <4>1. n[2] - 1 = h[2]
        BY <1>3, <1>5
      <4> QED
        BY <4>1, <1>3, <1>5 DEF Sender, Hops
    <3> QED
      BY <3>1, <1>8, <1>11, <1>13, SameRequest
  <2>4. Admitted(n)'
    <3>1. ASSUME NEW i \in 1..(n[2] - 1) PROVE RelayAdmits(<<n[1], i>>)
      <4>1. i \in 1..(h[2] - 1) \/ i = h[2]
        BY <1>3, <1>5
      <4>2. <<n[1], h[2]>> = h
        BY <1>3, StreamPair
      <4> QED
        BY <4>1, <4>2, <1>2, <1>3, <1>8 DEF Admitted
    <3>2. Admitted(n)
      BY <3>1 DEF Admitted
    <3> QED
      BY <3>2, <1>13, SamePolicy
  <2>5. ASSUME NEW i \in 1..(n[2] - 1) PROVE pc'[<<n[1], i>>] \in Relaying \cup {"end"}
    <3>1. i \in 1..(h[2] - 1) \/ i = h[2]
      BY <1>3, <1>5
    <3>2. <<n[1], h[2]>> = h
      BY <1>3, StreamPair
    <3>3. CASE i = h[2]
      BY <3>2, <3>3, <1>10 DEF Relaying
    <3>4. CASE i \in 1..(h[2] - 1)
      <4>1. pc[<<n[1], i>>] \in Relaying \cup {"end"} /\ <<n[1], i>> \in Streams
        BY <3>4, <1>3, <1>5, <1>8, StreamIndex
      <4> QED
        BY <4>1, <1>16 DEF Steady
    <3> QED
      BY <3>1, <3>3, <3>4
  <2> QED
    BY <1>10, <2>1, <2>2, <2>3, <2>4, <2>5 DEF Opened
<1>18. ASSUME NEW g \in Streams, g # n PROVE Opened(g)'
  <2>1. CASE pc[g] = "none"
    <3>1. g # h /\ Opened(g)
      BY <2>1, <1>1 DEF Requested
    <3> QED
      BY <2>1, <3>1, <1>18, <1>1, <1>10, <1>11, <1>12 DEF Opened
  <2>2. CASE pc[g] # "none"
    BY <2>2, <1>18, <1>2, <1>11, <1>16, OpenedStays DEF Requested
  <2> QED
    BY <2>1, <2>2
<1>19. Served(h)'
  <2>1. Served(h) /\ NextHop(h)' = NextHop(h)
    BY DEF Requested, NextHop
  <2> QED
    BY <2>1, <1>1, <1>2, <1>10, <1>16, SameRequest, SamePolicy
    DEF Served, Steady, Working, Relaying, Handshaking, Connected, n
<1>20. Served(n)'
  BY <1>1, <1>7, <1>10 DEF Served, Working, Relaying, Handshaking, Connected
<1>21. ASSUME NEW g \in Streams, g # h, g # n PROVE Served(g)'
  BY <1>21, <1>1, <1>2, <1>10, <1>16, ServedKept DEF Requested
<1>22. UpQueued(n)'
  <2> DEFINE f == Frame("request", Expected(n))
  <2>1. f \in UpFrames(n)
    BY DEF UpFrames
  <2> HIDE DEF f
  <2>2. up'[n] = <<f>>
    BY <1>12 DEF f
  <2>3. <<f>> \in Seq(UpFrames(n)) /\ <<f>> # <<>> /\ Tail(<<f>>) = <<>>
    BY <2>1
  <2> QED
    BY <2>2, <2>3, <1>10, <1>13, SameRequest, Nothing, Places DEF UpQueued
<1>23. ASSUME NEW g \in Streams, g # n PROVE UpQueued(g)'
  <2>1. Stays(g)
    BY <1>1, <1>10, <1>23 DEF Stays, Working
  <2> QED
    BY <2>1, <1>12, <1>13, <1>23, UpKept DEF Requested
<1>24. ASSUME NEW g \in Streams PROVE DownQueued(g)'
  BY <1>1, <1>2, <1>16, DownKept DEF Requested
<1>25. ClientPlace'
  BY <1>1, <1>2, <1>16, ClientKept DEF Requested
<1> QED
  BY <1>14, <1>15, <1>17, <1>18, <1>19, <1>20, <1>21, <1>22, <1>23, <1>24, <1>25
  DEF Requested, Types

LEMMA RelayShape ==
    ASSUME Requested, NEW h \in Streams, pc[h] \in Relaying
    PROVE  /\ NextHop(h) \in Streams /\ NextHop(h) # h /\ pc[NextHop(h)] # "none"
           /\ Following(NextHop(h)) = Following(h) /\ DownFrames(NextHop(h)) = DownFrames(h)
           /\ up[h] \in Seq(Following(h)) /\ req[h] = Expected(h)
<1>1. /\ ClientTypes /\ h[2] < Len(Hops(h)) /\ pc[NextHop(h)] # "none"
      /\ up[h] \in Seq(Following(h)) /\ req[h] = Expected(h)
  BY DEF Requested, Types, Served, UpQueued, Relaying, Working
<1> QED
  BY <1>1, NextStream, NextFrames

\* A relay's step, as far as its place goes.
RelayStep(h) ==
    /\ UNCHANGED <<setup, clientVars, node, peer, req, target>>
    /\ dead' \in SUBSET Streams
    /\ ended' \in [Streams -> SUBSET {"up", "down"}]
    /\ pc' \in [Streams -> Working \cup {"none", "read", "end"}]
    /\ verdict' \in [Streams -> Codes \cup {"none"}]
    /\ pc[h] \in Relaying /\ pc'[h] \in Relaying \cup {"end"}
    /\ \A g \in Streams : g # h => pc'[g] = pc[g] /\ verdict'[g] = verdict[g]

LEMMA RelaySteady ==
    ASSUME Requested, NEW h \in Streams, RelayStep(h)
    PROVE  HandlerStep(h) /\ Steady /\ HandlerTypes' /\ Served(h)' /\ \A g \in Streams : Stays(g)
<1>1. HandlerStep(h)
  BY DEF HandlerStep, RelayStep, Relaying
<1>2. Steady
  BY <1>1, HandlerSteady DEF Requested
<1>3. HandlerTypes'
  BY DEF RelayStep, HandlerTypes, Requested, Types
<1>4. Served(h)'
  <2>1. Served(h) /\ NextHop(h)' = NextHop(h) /\ NextHop(h) \in Streams /\ NextHop(h) # h
    BY RelayShape DEF Requested, NextHop, RelayStep
  <2>2. pc[NextHop(h)] # "none" /\ pc'[NextHop(h)] # "none"
    BY <2>1, RelayShape DEF RelayStep
  <2> QED
    BY <2>1, <2>2, <1>2, SameRequest, SamePolicy
    DEF Served, Steady, RelayStep, Working, Relaying, Handshaking, Connected
<1>5. \A g \in Streams : Stays(g)
  BY DEF Stays, RelayStep, Working, Relaying
<1> QED
  BY <1>1, <1>2, <1>3, <1>4, <1>5

LEMMA RelayStepKept ==
    ASSUME Requested, NEW h \in Streams, RelayStep(h), PerStream(up)', PerStream(down)',
           UpQueued(h)', UpQueued(NextHop(h))', DownQueued(h)', DownQueued(NextHop(h))',
           \A g \in Streams : g # h /\ g # NextHop(h) => up'[g] = up[g] /\ down'[g] = down[g]
    PROVE  Requested'
<1>1. HandlerStep(h) /\ Steady /\ HandlerTypes' /\ Served(h)' /\ \A g \in Streams : Stays(g)
  BY RelaySteady
<1>2. \A g \in Streams : UpQueued(g)' /\ DownQueued(g)'
  <2> SUFFICES ASSUME NEW g \in Streams, g # h, g # NextHop(h)
               PROVE  UpQueued(g)' /\ DownQueued(g)'
    OBVIOUS
  <2>1. UpQueued(g)'
    BY <1>1, UpKept DEF Requested, Steady
  <2> QED
    BY <1>1, <2>1, DownKept DEF Requested
<1>3. LinkTypes'
  BY DEF LinkTypes, Types, Requested, RelayStep
<1>4. \A g \in Streams : pc[g] = "none" => up'[g] = up[g] /\ down'[g] = down[g]
  BY RelayShape DEF RelayStep, Relaying
<1> QED
  BY <1>1, <1>2, <1>3, <1>4, HandlerKept

\* A frame is added to the stream of the next hop.
LEMMA UpGiven ==
    ASSUME Requested, NEW h \in Streams, RelayStep(h), NEW f \in Following(h),
           up' = Push(up, NextHop(h), <<f>>)
    PROVE  /\ UpQueued(NextHop(h))' /\ UpQueued(h)' /\ PerStream(up)'
           /\ \A g \in Streams : g # NextHop(h) => up'[g] = up[g]
<1> DEFINE n == NextHop(h)
<1>1. n \in Streams /\ n # h /\ Following(n) = Following(h) /\ pc[h] \in Relaying
  BY RelayShape DEF RelayStep
<1>2. Steady /\ \A g \in Streams : Stays(g)
  BY RelaySteady
<1> HIDE DEF n
<1>3. /\ PerStream(up') /\ up'[n] = up[n] \o <<f>>
      /\ \A g \in Streams : g # n => up'[g] = up[g]
  <2>1. PerStream(up) /\ up' = Push(up, n, <<f>>)
    BY DEF Requested, Types, LinkTypes, n
  <2>2. \A s : /\ PerStream(Push(up, n, s)) /\ Push(up, n, s)[n] = up[n] \o s
               /\ \A g \in Streams : g # n => Push(up, n, s)[g] = up[g]
    BY ONLY <2>1, <1>1, Pushed
  <2> QED
    BY <2>1, <2>2, Zenon
<1>4. UpQueued(n)'
  BY <1>1, <1>2, <1>3, UpPushed DEF Requested, Steady
<1>5. UpQueued(h)'
  BY <1>1, <1>2, <1>3, UpKept DEF Requested, Steady
<1> QED
  BY <1>3, <1>4, <1>5 DEF n, PerStream

LEMMA RelayUpKept ==
    ASSUME Requested, NEW h \in Streams, RelayUp(h)
    PROVE  Requested'
<1> DEFINE n == NextHop(h)
           f == Head(up[h])
<1>1. /\ pc[h] = "relay" /\ up[h] # <<>> /\ up' = Push(Pop(up, h), n, <<f>>)
      /\ Finish(h, "up") \/ UNCHANGED <<ended, pc>>
      /\ UNCHANGED <<setup, clientVars, node, peer, down, dead, req, target, verdict>>
  BY DEF RelayUp
<1>2. RelayStep(h)
  <2>1. /\ ended' \in [Streams -> SUBSET {"up", "down"}]
        /\ pc' \in [Streams -> Working \cup {"none", "read", "end"}] /\ pc'[h] \in {pc[h], "end"}
        /\ \A g \in Streams : g # h => pc'[g] = pc[g]
    <3>1. CASE Finish(h, "up")
      BY <3>1, FinishEffect
    <3>2. CASE UNCHANGED <<ended, pc>>
      BY <3>2 DEF Requested, Types, HandlerTypes
    <3> QED
      BY <1>1, <3>1, <3>2
  <2> QED
    BY <1>1, <2>1 DEF RelayStep, Relaying, Requested, Types, LinkTypes, HandlerTypes
<1>3. Steady /\ \A g \in Streams : Stays(g)
  BY <1>2, RelaySteady
<1>4. /\ n \in Streams /\ n # h /\ Following(n) = Following(h) /\ up[h] \in Seq(Following(h))
  BY <1>2, RelayShape DEF RelayStep
<1>5. f \in Following(h)
  BY <1>1, <1>4, HeadTail
<1> HIDE DEF n, f
<1>6. /\ PerStream(up)' /\ up'[n] = up[n] \o <<f>> /\ up'[h] = Tail(up[h])
      /\ \A g \in Streams : g # h /\ g # n => up'[g] = up[g]
  <2>1. PerStream(up)
    BY DEF Requested, Types, LinkTypes
  <2>2. /\ PerStream(Pop(up, h)) /\ Pop(up, h)[h] = Tail(up[h])
        /\ \A g \in Streams : g # h => Pop(up, h)[g] = up[g]
    BY <2>1, Popped
  <2>3. \A q : PerStream(q) => \A s :
               /\ PerStream(Push(q, n, s)) /\ Push(q, n, s)[n] = q[n] \o s
               /\ \A g \in Streams : g # n => Push(q, n, s)[g] = q[g]
    BY ONLY <1>4, Pushed
  <2>4. /\ PerStream(up') /\ up'[n] = Pop(up, h)[n] \o <<f>>
        /\ \A g \in Streams : g # n => up'[g] = Pop(up, h)[g]
    BY <1>1, <2>2, <2>3, Zenon
  <2> QED
    BY <2>2, <2>4, <1>4 DEF PerStream
<1>7. UpQueued(n)'
  BY <1>3, <1>4, <1>5, <1>6, UpPushed DEF Requested, Steady
<1>8. UpQueued(h)'
  <2>1. pc[h] \in Working \cup {"read"} /\ pc'[h] \in Working \cup {"end"}
    BY <1>1, <1>2 DEF RelayStep, Relaying, Working
  <2> QED
    BY <1>1, <1>3, <1>6, <2>1, UpPopped DEF Requested, Steady
<1>9. DownQueued(h)' /\ DownQueued(n)' /\ PerStream(down)'
      /\ \A g \in Streams : down'[g] = down[g]
  BY <1>1, <1>3, <1>4, DownSame
<1> QED
  BY <1>2, <1>6, <1>7, <1>8, <1>9, RelayStepKept DEF n

LEMMA RelayAbortKept ==
    ASSUME Requested, NEW h \in Streams, RelayAbort(h)
    PROVE  Requested'
<1>1. /\ pc[h] = "relay" /\ dead' = dead \cup {h, NextHop(h)} /\ Goto(h, "end")
      /\ UNCHANGED <<setup, clientVars, node, peer, up, down, req, target, ended, verdict>>
  BY DEF RelayAbort
<1>2. NextHop(h) \in Streams
  BY <1>1, RelayShape DEF Relaying
<1>3. RelayStep(h)
  BY <1>1, <1>2 DEF RelayStep, Goto, Relaying, Requested, Types, LinkTypes, HandlerTypes
<1>4. Steady /\ \A g \in Streams : Stays(g)
  BY <1>3, RelaySteady
<1>5. /\ UpQueued(h)' /\ UpQueued(NextHop(h))' /\ PerStream(up)'
      /\ DownQueued(h)' /\ DownQueued(NextHop(h))' /\ PerStream(down)'
  BY <1>1, <1>2, <1>4, UpSame, DownSame
<1> QED
  BY <1>1, <1>3, <1>5, RelayStepKept

\* A frame is taken from the stream of the next hop.
LEMMA DownTaken ==
    ASSUME Requested, NEW h \in Streams, RelayStep(h), down[NextHop(h)] # <<>>,
           NEW popped, popped = Pop(down, NextHop(h)), NEW resp, resp = Head(down[NextHop(h)]),
           \/ down' = popped
           \/ down' = Push(popped, h, <<resp>>)
           \/ down' = Push(popped, h, <<resp, Fin>>)
    PROVE  /\ DownQueued(h)' /\ DownQueued(NextHop(h))' /\ PerStream(down)'
           /\ \A g \in Streams : g # h /\ g # NextHop(h) => down'[g] = down[g]
           /\ down'[NextHop(h)] = Tail(down[NextHop(h)])
           /\ \/ down' = popped /\ down'[h] = down[h]
              \/ down' = Push(popped, h, <<resp>>) /\ down'[h] = down[h] \o <<resp>>
              \/ down' = Push(popped, h, <<resp, Fin>>) /\ down'[h] = down[h] \o <<resp, Fin>>
<1> DEFINE n == NextHop(h)
<1>1. n \in Streams /\ n # h /\ DownFrames(n) = DownFrames(h) /\ pc[h] \in Relaying
  BY RelayShape DEF RelayStep
<1>2. Steady
  BY RelaySteady
<1> HIDE DEF n
<1>3. resp \in DownFrames(h)'
  <2>1. resp \in DownFrames(n)
    BY <1>1, HeadTail DEF Requested, DownQueued, n
  <2> QED
    BY <2>1, <1>1, <1>2, DownWider DEF Requested
<1>4. /\ PerStream(popped) /\ popped[n] = Tail(down[n])
      /\ \A g \in Streams : g # n => popped[g] = down[g]
  <2>1. PerStream(down) /\ popped = Pop(down, n)
    BY DEF Requested, Types, LinkTypes, n
  <2> QED
    BY <2>1, <1>1, Popped
<1>5. \A s : /\ PerStream(Push(popped, h, s)) /\ Push(popped, h, s)[h] = popped[h] \o s
             /\ \A g \in Streams : g # h => Push(popped, h, s)[g] = popped[g]
  BY ONLY <1>4, h \in Streams, Pushed
<1>6. /\ PerStream(down') /\ \A g \in Streams : g # h => down'[g] = popped[g]
      /\ \/ down' = popped /\ down'[h] = popped[h]
         \/ down' = Push(popped, h, <<resp>>) /\ down'[h] = popped[h] \o <<resp>>
         \/ down' = Push(popped, h, <<resp, Fin>>) /\ down'[h] = popped[h] \o <<resp, Fin>>
  <2>1. CASE down' = popped BY <1>4, <2>1, Zenon
  <2>2. CASE down' = Push(popped, h, <<resp>>) BY <1>5, <2>2, Zenon
  <2>3. CASE down' = Push(popped, h, <<resp, Fin>>) BY <1>5, <2>3, Zenon
  <2> QED BY <2>1, <2>2, <2>3, Zenon
<1>7. PerStream(down)'
  BY <1>6 DEF PerStream
<1>8. popped[h] = down[h]
  BY <1>1, <1>4
<1>9. DownQueued(n)'
  <2>1. down'[n] = Tail(down[n]) /\ down[n] # <<>>
    BY <1>1, <1>4, <1>6 DEF n
  <2> QED
    BY <2>1, <1>1, <1>2, DownPopped DEF Requested
<1>10. DownQueued(h)'
  <2>1. CASE down'[h] = popped[h]
    BY <2>1, <1>8, <1>2, DownKept DEF Requested
  <2>2. CASE down'[h] = popped[h] \o <<resp>>
    BY <2>2, <1>8, <1>2, <1>3, DownPushed DEF Requested
  <2>3. CASE down'[h] = popped[h] \o <<resp, Fin>>
    BY <2>3, <1>8, <1>2, <1>3, FinFrames, DownPushedTwo DEF Requested
  <2> QED
    BY <1>6, <2>1, <2>2, <2>3
<1>11. /\ \A g \in Streams : g # h /\ g # n => down'[g] = down[g]
       /\ down'[n] = Tail(down[n])
  BY <1>1, <1>4, <1>6
<1>12. \/ down' = popped /\ down'[h] = down[h]
       \/ down' = Push(popped, h, <<resp>>) /\ down'[h] = down[h] \o <<resp>>
       \/ down' = Push(popped, h, <<resp, Fin>>) /\ down'[h] = down[h] \o <<resp, Fin>>
  BY <1>6, <1>8
<1> QED
  BY <1>7, <1>9, <1>10, <1>11, <1>12 DEF n

LEMMA RelayDownKept ==
    ASSUME Requested, NEW h \in Streams, RelayDown(h)
    PROVE  Requested'
<1>1. /\ pc[h] = "relay" /\ down[NextHop(h)] # <<>>
      /\ down' = Push(Pop(down, NextHop(h)), h, <<Head(down[NextHop(h)])>>)
      /\ Finish(h, "down") \/ UNCHANGED <<ended, pc>>
      /\ UNCHANGED <<setup, clientVars, node, peer, up, dead, req, target, verdict>>
  BY DEF RelayDown
<1>2. RelayStep(h)
  <2>1. /\ ended' \in [Streams -> SUBSET {"up", "down"}]
        /\ pc' \in [Streams -> Working \cup {"none", "read", "end"}] /\ pc'[h] \in {pc[h], "end"}
        /\ \A g \in Streams : g # h => pc'[g] = pc[g]
    <3>1. CASE Finish(h, "down")
      BY <3>1, FinishEffect
    <3>2. CASE UNCHANGED <<ended, pc>>
      BY <3>2 DEF Requested, Types, HandlerTypes
    <3> QED
      BY <1>1, <3>1, <3>2
  <2> QED
    BY <1>1, <2>1 DEF RelayStep, Relaying, Requested, Types, LinkTypes, HandlerTypes
<1>3. Steady /\ (\A g \in Streams : Stays(g)) /\ NextHop(h) \in Streams
  BY <1>2, RelaySteady, RelayShape DEF RelayStep
<1>4. /\ DownQueued(h)' /\ DownQueued(NextHop(h))' /\ PerStream(down)'
      /\ \A g \in Streams : g # h /\ g # NextHop(h) => down'[g] = down[g]
  BY <1>1, <1>2, DownTaken
<1>5. UpQueued(h)' /\ UpQueued(NextHop(h))' /\ PerStream(up)'
  BY <1>1, <1>3, UpSame
<1> QED
  BY <1>1, <1>2, <1>4, <1>5, RelayStepKept

\* The cases of RelayResponse.
LEMMA RelayResponseCases ==
    ASSUME Requested, NEW h \in Streams, RelayResponse(h),
           NEW n, n = NextHop(h), NEW resp, resp = Head(down[n])
    PROVE  /\ pc[h] = "waitNext" /\ down[n] # <<>> /\ resp.type = "response"
           /\ UNCHANGED <<setup, clientVars, node, peer, dead, req, target, ended, verdict>>
           /\ \/ /\ resp.arg = "OK" /\ h \notin dead /\ Goto(h, "relay")
                 /\ down' = Push(Pop(down, n), h, <<resp>>) /\ up' = up
              \/ /\ resp.arg # "OK" /\ h \notin dead /\ Goto(h, "end")
                 /\ down' = Push(Pop(down, n), h, <<resp, Fin>>)
                 /\ up' = Push(up, n, <<Fin>>)
              \/ /\ h \in dead /\ Goto(h, "end") /\ down' = Pop(down, n)
                 /\ up' = Push(up, n, <<Fin>>)
BY DEF RelayResponse, Is

LEMMA RelayResponseKept ==
    ASSUME Requested, NEW h \in Streams, RelayResponse(h)
    PROVE  Requested'
<1> DEFINE n == NextHop(h)
           resp == Head(down[n])
<1> HIDE DEF n, resp
<1>1. /\ pc[h] = "waitNext" /\ down[n] # <<>>
      /\ UNCHANGED <<setup, clientVars, node, peer, dead, req, target, ended, verdict>>
      /\ Goto(h, "relay") \/ Goto(h, "end")
      /\ up' = up \/ up' = Push(up, n, <<Fin>>)
      /\ \/ down' = Pop(down, n)
         \/ down' = Push(Pop(down, n), h, <<resp>>)
         \/ down' = Push(Pop(down, n), h, <<resp, Fin>>)
  BY RelayResponseCases DEF n, resp
<1>2. RelayStep(h)
  BY <1>1 DEF RelayStep, Goto, Relaying, Working, Requested, Types, LinkTypes, HandlerTypes
<1>3. Steady /\ (\A g \in Streams : Stays(g)) /\ n \in Streams
  BY <1>2, RelaySteady, RelayShape DEF RelayStep, n
<1>4. /\ DownQueued(h)' /\ DownQueued(n)' /\ PerStream(down)'
      /\ \A g \in Streams : g # h /\ g # n => down'[g] = down[g]
  BY <1>1, <1>2, DownTaken DEF n, resp
<1>5. UpQueued(h)' /\ UpQueued(n)' /\ PerStream(up)'
      /\ \A g \in Streams : g # n => up'[g] = up[g]
  <2>1. CASE up' = up
    BY <2>1, <1>3, UpSame
  <2>2. CASE up' = Push(up, n, <<Fin>>)
    BY <2>2, <1>2, UpGiven, FinFrames DEF n
  <2> QED
    BY <1>1, <2>1, <2>2
<1> QED
  BY <1>2, <1>4, <1>5, RelayStepKept DEF n

LEMMA RelayResponseLostKept ==
    ASSUME Requested, NEW h \in Streams, RelayResponseLost(h)
    PROVE  Requested'
<1> DEFINE frame == Response("NEXT_HOP_UNREACHABLE")
<1>1. /\ pc[h] = "waitNext" /\ Reject(h, frame) /\ up' = Push(up, NextHop(h), <<Fin>>)
      /\ UNCHANGED <<setup, clientVars, node, peer, dead, req, target, ended>>
  BY DEF RelayResponseLost
<1>2. "NEXT_HOP_UNREACHABLE" \in Failures
  BY DEF Failures, Codes
<1>3. /\ pc' \in [Streams -> Working \cup {"none", "read", "end"}]
      /\ verdict' \in [Streams -> Codes \cup {"none"}]
      /\ pc'[h] = "end" /\ Answer(h, <<frame, Fin>>)
      /\ \A g \in Streams : g # h => pc'[g] = pc[g] /\ verdict'[g] = verdict[g]
  BY <1>1, <1>2, RejectEffect
<1> HIDE DEF frame
<1>4. RelayStep(h)
  BY <1>1, <1>3 DEF RelayStep, Relaying, Requested, Types, LinkTypes, HandlerTypes
<1>5. Steady /\ NextHop(h) \in Streams /\ NextHop(h) # h
  BY <1>4, RelaySteady, RelayShape DEF RelayStep
<1>6. /\ DownQueued(h)' /\ PerStream(down)'
      /\ \A g \in Streams : g # h => down'[g] = down[g]
  BY <1>2, <1>3, <1>5, RejectAnswer DEF frame
<1>7. DownQueued(NextHop(h))'
  BY <1>5, <1>6, DownKept DEF Requested
<1>8. UpQueued(h)' /\ UpQueued(NextHop(h))' /\ PerStream(up)'
      /\ \A g \in Streams : g # NextHop(h) => up'[g] = up[g]
  BY <1>1, <1>4, UpGiven, FinFrames
<1> QED
  BY <1>4, <1>6, <1>7, <1>8, RelayStepKept

-----------------------------------------------------------------------------
(* The client's steps. *)

LEMMA ClientStepKept ==
    ASSUME Requested, UNCHANGED <<setup, candOf, node, peer, handlerVars>>,
           dead' \in SUBSET Streams, ClientTypes', ClientPlace',
           att <= att', att' = att /\ client # "open" => client' # "open",
           up' # up \/ down' # down => pc[First] # "none",
           up' = up \/ \E f \in Following(First) : up' = Push(up, First, <<f>>),
           down' = down \/ (down[First] # <<>> /\ down' = Pop(down, First))
    PROVE  Requested'
<1>1. First \in Streams /\ att \in Nat /\ att' \in Nat
  BY FirstStream DEF Requested, Types, ClientTypes
<1>2. pc' = pc /\ target' = target /\ req' = req /\ ended' = ended /\ verdict' = verdict
  BY DEF handlerVars
<1>3. Steady
  BY <1>1, <1>2 DEF Steady
<1>4. /\ PerStream(up') /\ \A g \in Streams : g # First => up'[g] = up[g]
      /\ up'[First] = up[First] \/ \E f \in Following(First) : up'[First] = up[First] \o <<f>>
  <2>1. PerStream(up)
    BY DEF Requested, Types, LinkTypes
  <2>2. \A s : /\ PerStream(Push(up, First, s)) /\ Push(up, First, s)[First] = up[First] \o s
               /\ \A g \in Streams : g # First => Push(up, First, s)[g] = up[g]
    BY ONLY <2>1, <1>1, Pushed
  <2>3. CASE up' = up
    BY <2>1, <2>3
  <2>4. ASSUME NEW f \in Following(First), up' = Push(up, First, <<f>>)
        PROVE  /\ PerStream(up') /\ \A g \in Streams : g # First => up'[g] = up[g]
               /\ up'[First] = up[First] \o <<f>>
    BY <2>2, <2>4, Zenon
  <2> QED
    BY <2>3, <2>4
<1>5. /\ PerStream(down') /\ \A g \in Streams : g # First => down'[g] = down[g]
      /\ down'[First] = down[First] \/ (down[First] # <<>> /\ down'[First] = Tail(down[First]))
  <2>1. PerStream(down)
    BY DEF Requested, Types, LinkTypes
  <2> QED
    BY <2>1, <1>1, Popped
<1>6. LinkTypes' /\ HandlerTypes'
  <2>1. LinkTypes'
    BY <1>4, <1>5 DEF LinkTypes, PerStream, Requested, Types
  <2>2. HandlerTypes'
    BY <1>2 DEF HandlerTypes, Requested, Types
  <2> QED
    BY <2>1, <2>2
<1>7. \A g \in Streams : Opened(g)'
  <2>1. NoneOpened
    BY <1>2, <1>4, <1>5 DEF NoneOpened
  <2> QED
    BY <2>1, <1>3, OpenedKept DEF Requested
<1>8. \A g \in Streams : Served(g)'
  BY <1>2, <1>3, ServedKept DEF Requested
<1>9. ASSUME NEW g \in Streams PROVE UpQueued(g)'
  <2>1. Stays(g) /\ UpQueued(g)
    BY <1>2 DEF Stays, Requested
  <2>2. CASE up'[g] = up[g]
    BY <2>1, <2>2, <1>3, UpKept DEF Steady
  <2>3. CASE up'[g] # up[g]
    <3>1. g = First /\ \E f \in Following(g) : up'[g] = up[g] \o <<f>>
      BY <2>3, <1>4
    <3> QED
      BY <3>1, <2>1, <1>3, UpPushed DEF Steady
  <2> QED
    BY <2>2, <2>3
<1>10. ASSUME NEW g \in Streams PROVE DownQueued(g)'
  <2>1. CASE down'[g] = down[g]
    BY <2>1, <1>3, DownKept DEF Requested
  <2>2. CASE down'[g] # down[g]
    <3>1. down[g] # <<>> /\ down'[g] = Tail(down[g])
      BY <2>2, <1>5
    <3> QED
      BY <3>1, <1>3, DownPopped DEF Requested
  <2> QED
    BY <2>1, <2>2
<1> QED
  BY <1>6, <1>7, <1>8, <1>9, <1>10 DEF Requested, Types

LEMMA NextCandidateKept ==
    ASSUME Requested, setup' = setup, candOf' = candOf, NEW e, NextCandidate(e)
    PROVE  /\ ClientTypes' /\ ClientPlace' /\ att <= att'
           /\ att' = att => client' # "open"
           /\ \/ client' = "open" /\ att' = att + 1 /\ isRetryableSetupError(e)
              \/ client' = "closed" /\ att' = att
<1>1. /\ cand \in Nat /\ att \in Nat /\ att # 0 /\ Len(Candidates) \in Nat
      /\ cand \in 1..Len(Candidates) /\ att <= 2 * cand
  BY FirstStream DEF Requested, Types, ClientTypes, ClientPlace
<1>2. retried' = FALSE
  BY DEF NextCandidate
<1>3. CASE isRetryableSetupError(e) /\ cand < Len(Candidates)
  <2>1. client' = "open" /\ att' = att + 1 /\ cand' = cand + 1
    BY <1>3 DEF NextCandidate
  <2>2. cand' \in 1..Len(Candidates) /\ att' \in Nat \ {0} /\ att' # att /\ att <= att'
        /\ att' <= 2 * cand' /\ att' # 2 * cand'
    BY <2>1, <1>1, <1>3
  <2>3. ClientTypes'
    BY <1>2, <2>1, <2>2 DEF ClientTypes, Candidates, Requested, Types
  <2>4. ClientPlace'
    BY <1>2, <2>1, <2>2 DEF ClientPlace, ProxyMeansTarget
  <2> QED
    BY <1>3, <2>1, <2>2, <2>3, <2>4
<1>4. CASE ~(isRetryableSetupError(e) /\ cand < Len(Candidates))
  <2>1. client' = "closed" /\ att' = att /\ cand' = cand
    BY <1>4 DEF NextCandidate
  <2>2. ClientTypes'
    BY <1>2, <2>1 DEF ClientTypes, Candidates, Requested, Types
  <2>3. ClientPlace'
    BY <1>1, <2>1 DEF ClientPlace, ProxyMeansTarget
  <2> QED
    BY <1>1, <2>1, <2>2, <2>3
<1> QED
  BY <1>3, <1>4

LEMMA NoConnectionKept == ASSUME Requested, NoConnection PROVE Requested'
<1>1. /\ client = "open" /\ NextCandidate("error")
      /\ UNCHANGED <<setup, candOf, node, peer, up, down, dead, handlerVars>>
  BY DEF NoConnection, linkVars
<1>2. ClientTypes' /\ ClientPlace' /\ att <= att' /\ (att' = att => client' # "open")
  BY <1>1, NextCandidateKept
<1> QED
  BY <1>1, <1>2, ClientStepKept DEF Requested, Types, LinkTypes

\* What the frames the client reads say.
LEMMA ReadDown ==
    ASSUME Requested, NEW h \in Streams, down[h] # <<>>
    PROVE  /\ Head(down[h]) \in DownFrames(h)
           /\ Head(down[h]).type = "response" /\ Head(down[h]).arg = "OK" =>
                CandidateOf(h).e2e \/ Reached(h)
           /\ Head(down[h]).type = "serverHello" => Reached(h)
<1>1. Head(down[h]) \in DownFrames(h)
  BY HeadTail DEF Requested, DownQueued
<1> QED
  BY <1>1 DEF DownFrames, Response, E2EClose, Fin, Frame, Failures, Codes

\* A step after which the client waits on, or proxies, the same attempt.
LEMMA SameAttemptKept ==
    ASSUME Requested, UNCHANGED <<setup, att, cand, retried, candOf, target, pc>>,
           client \notin {"open", "closed"},
           client' \in {"response", "clientHello", "serverHello", "proxy", "drain", "closed"},
           client' \in {"clientHello", "serverHello"} => Candidate.e2e,
           client' \in {"proxy", "drain"} => Reached(First)
    PROVE  /\ ClientTypes' /\ ClientPlace' /\ att <= att' /\ att' = att /\ client' # "open"
           /\ pc[First] # "none"
<1>1. ClientTypes /\ ClientPlace /\ att \in Nat /\ First \in Streams
  BY FirstStream DEF Requested, Types
<1>2. ClientTypes'
  BY <1>1 DEF ClientTypes, Candidates
<1>3. First' = First /\ Candidate' = Candidate /\ Path(Candidate)' = Path(Candidate)
  BY DEF First, Candidate, Candidates, Path
<1>4. ProxyMeansTarget'
  BY <1>1, <1>3, OwnCandidate DEF ProxyMeansTarget, Reached
<1>5. pc[First] # "none" /\ candOf[att] = cand
  BY <1>1 DEF ClientPlace
<1>6. ClientPlace'
  BY <1>1, <1>3, <1>4, <1>5 DEF ClientPlace
<1> QED
  BY <1>1, <1>2, <1>5, <1>6

LEMMA ResponseOKKept == ASSUME Requested, ResponseOK PROVE Requested'
<1>1. /\ client = "response" /\ down[First] # <<>> /\ Head(down[First]).type = "response"
      /\ Head(down[First]).arg = "OK" /\ down' = Pop(down, First)
      /\ client' = IF Candidate.e2e THEN "clientHello" ELSE "proxy"
      /\ UNCHANGED <<setup, att, cand, retried, candOf, node, peer, up, dead, handlerVars>>
  BY DEF ResponseOK, Is
<1>2. First \in Streams /\ CandidateOf(First) = Candidate
  BY <1>1, FirstStream, OwnCandidate DEF Requested, Types
<1>3. Candidate.e2e \/ Reached(First)
  BY <1>1, <1>2, ReadDown
<1>4. target' = target /\ pc' = pc
  BY <1>1 DEF handlerVars
<1>5. /\ ClientTypes' /\ ClientPlace' /\ att <= att' /\ att' = att /\ client' # "open"
      /\ pc[First] # "none"
  BY <1>1, <1>3, <1>4, SameAttemptKept
<1> QED
  BY <1>1, <1>5, ClientStepKept DEF Requested, Types, LinkTypes

LEMMA ResponseRejectedKept == ASSUME Requested, ResponseRejected PROVE Requested'
<1>1. /\ client = "response" /\ down[First] # <<>> /\ down' = Pop(down, First)
      /\ up' = Push(up, First, <<Fin>>) /\ NextCandidate(Head(down[First]).arg)
      /\ UNCHANGED <<setup, candOf, node, peer, dead, handlerVars>>
  BY DEF ResponseRejected, Is
<1>2. ClientTypes' /\ ClientPlace' /\ att <= att' /\ (att' = att => client' # "open")
  BY <1>1, NextCandidateKept
<1>3. pc[First] # "none"
  BY <1>1 DEF Requested, ClientPlace
<1> QED
  BY <1>1, <1>2, <1>3, ClientStepKept, FinFrames DEF Requested, Types, LinkTypes

LEMMA ResponseLostKept == ASSUME Requested, ResponseLost PROVE Requested'
<1>1. /\ client = "response" /\ up' = Push(up, First, <<Fin>>)
      /\ UNCHANGED <<setup, candOf, node, peer, down, handlerVars>>
      /\ \/ retried /\ NextCandidate("error") /\ UNCHANGED dead
         \/ /\ ~retried /\ retried' = TRUE /\ att' = att + 1 /\ client' = "open"
            /\ dead' = dead \cup ConnectionTo(node[First]) /\ UNCHANGED cand
  BY DEF ResponseLost
<1>2. pc[First] # "none" /\ First \in Streams
  BY <1>1, FirstStream DEF Requested, ClientPlace, Types
<1>3. CASE retried /\ NextCandidate("error") /\ UNCHANGED dead
  <2>1. ClientTypes' /\ ClientPlace' /\ att <= att' /\ (att' = att => client' # "open")
    BY <1>1, <1>3, NextCandidateKept
  <2> QED
    BY <1>1, <1>2, <1>3, <2>1, ClientStepKept, FinFrames DEF Requested, Types, LinkTypes
<1>4. CASE /\ ~retried /\ retried' = TRUE /\ att' = att + 1 /\ client' = "open"
           /\ dead' = dead \cup ConnectionTo(node[First]) /\ UNCHANGED cand
  <2>1. att \in Nat /\ att # 0 /\ cand \in Nat /\ att <= 2 * cand /\ att # 2 * cand
    BY <1>1, <1>4, FirstStream DEF Requested, Types, ClientTypes, ClientPlace
  <2>2. att' \in Nat \ {0} /\ att' <= 2 * cand /\ att <= att' /\ att' # att
    BY <1>4, <2>1
  <2>3. ClientTypes'
    BY <1>1, <1>4, <2>2 DEF Requested, Types, ClientTypes, Candidates
  <2>4. ClientPlace'
    BY <1>1, <1>4, <2>2 DEF ClientPlace, ProxyMeansTarget
  <2>5. dead' \in SUBSET Streams
    BY <1>4 DEF Requested, Types, LinkTypes, ConnectionTo
  <2> QED
    BY <1>1, <1>2, <1>4, <2>2, <2>3, <2>4, <2>5, ClientStepKept, FinFrames
<1> QED
  BY <1>1, <1>3, <1>4

LEMMA SendClientHelloKept == ASSUME Requested, SendClientHello PROVE Requested'
<1> DEFINE f == Frame("clientHello", ClientContext(Candidate))
<1>1. /\ client = "clientHello" /\ up' = Push(up, First, <<f>>) /\ client' = "serverHello"
      /\ UNCHANGED <<setup, att, cand, retried, candOf, node, peer, down, dead, handlerVars>>
  BY DEF SendClientHello
<1>2. CandidateOf(First) = Candidate /\ Candidate.e2e
  BY <1>1, OwnCandidate DEF Requested, Types, ClientPlace
<1>3. f \in Following(First)
  BY <1>2 DEF Following
<1> HIDE DEF f
<1>4. target' = target /\ pc' = pc
  BY <1>1 DEF handlerVars
<1>5. /\ ClientTypes' /\ ClientPlace' /\ att <= att' /\ att' = att /\ client' # "open"
      /\ pc[First] # "none"
  BY <1>1, <1>2, <1>4, SameAttemptKept
<1> QED
  BY <1>1, <1>3, <1>5, ClientStepKept DEF Requested, Types, LinkTypes

LEMMA ServerHelloOKKept == ASSUME Requested, ServerHelloOK PROVE Requested'
<1> DEFINE f == Frame("clientFinished", "none")
<1>1. /\ client = "serverHello" /\ down[First] # <<>> /\ Head(down[First]).type = "serverHello"
      /\ down' = Pop(down, First) /\ up' = Push(up, First, <<f>>) /\ client' = "proxy"
      /\ UNCHANGED <<setup, att, cand, retried, candOf, node, peer, dead, handlerVars>>
  BY DEF ServerHelloOK, Is
<1>2. Reached(First)
  BY <1>1, FirstStream, ReadDown DEF Requested, Types
<1>3. f \in Following(First)
  BY DEF Following
<1> HIDE DEF f
<1>4. target' = target /\ pc' = pc
  BY <1>1 DEF handlerVars
<1>5. /\ ClientTypes' /\ ClientPlace' /\ att <= att' /\ att' = att /\ client' # "open"
      /\ pc[First] # "none"
  BY <1>1, <1>2, <1>4, SameAttemptKept
<1> QED
  BY <1>1, <1>3, <1>5, ClientStepKept DEF Requested, Types, LinkTypes

LEMMA HandshakeFailKept == ASSUME Requested, HandshakeFail PROVE Requested'
<1>1. /\ client \in {"clientHello", "serverHello"} /\ up' = Push(up, First, <<Fin>>)
      /\ \E e : NextCandidate(e)
      /\ UNCHANGED <<setup, candOf, node, peer, down, dead, handlerVars>>
  BY DEF HandshakeFail
<1>2. ClientTypes' /\ ClientPlace' /\ att <= att' /\ (att' = att => client' # "open")
  BY <1>1, NextCandidateKept
<1>3. pc[First] # "none"
  BY <1>1 DEF Requested, ClientPlace
<1> QED
  BY <1>1, <1>2, <1>3, ClientStepKept, FinFrames DEF Requested, Types, LinkTypes

LEMMA ProxyKept == ASSUME Requested, LocalEOF \/ ProxyDone \/ ProxyAborted PROVE Requested'
<1>1. /\ client \in {"proxy", "drain"} /\ client' \in {"drain", "closed"}
      /\ UNCHANGED <<setup, att, cand, retried, candOf, node, peer, down, handlerVars>>
      /\ up' = up \/ up' = Push(up, First, <<Fin>>)
      /\ dead' = dead \/ dead' = dead \cup {First}
  BY DEF LocalEOF, ProxyDone, ProxyAborted, linkVars
<1>2. First \in Streams /\ Reached(First)
  BY <1>1, FirstStream, OwnCandidate DEF Requested, Types, ClientPlace, ProxyMeansTarget, Reached
<1>3. target' = target /\ pc' = pc
  BY <1>1 DEF handlerVars
<1>4. /\ ClientTypes' /\ ClientPlace' /\ att <= att' /\ att' = att /\ client' # "open"
      /\ pc[First] # "none"
  BY <1>1, <1>2, <1>3, SameAttemptKept
<1>5. dead' \in SUBSET Streams
  BY <1>1, <1>2 DEF Requested, Types, LinkTypes
<1> QED
  BY <1>1, <1>4, <1>5, ClientStepKept, FinFrames

\* What the first hop should be sent is what OpenTCPStream sends.
LEMMA FirstRequest ==
    ASSUME NEW c \in [route : Seq(Nodes), e2e : BOOLEAN, egress : Nodes \cup {NoEgress}]
    PROVE  (IF c.route = <<>> THEN <<>> ELSE SubSeq(c.route, 1, Len(c.route))) = c.route
<1> DEFINE r == c.route
<1>1. r \in Seq(Nodes)
  OBVIOUS
<1> HIDE DEF r
<1>2. SubSeq(r, 1, Len(r)) = r
  <2> DEFINE t == SubSeq(r, 1, Len(r))
  <2>1. Len(r) \in Nat /\ \A i \in 1..Len(r) : r[i] \in Nodes
    BY <1>1
  <2>2. t \in Seq(Nodes) /\ Len(t) = Len(r)
    BY <1>1, <2>1
  <2>3. \A i \in 1..Len(r) : t[i] = r[i]
    BY <1>1, <2>1
  <2> HIDE DEF t
  <2>4. t = r
    BY <1>1, <2>2, <2>3, SeqEqual
  <2> QED
    BY <2>4 DEF t
<1> QED
  BY <1>2 DEF r

LEMMA OpenTCPStreamKept == ASSUME Requested, OpenTCPStream PROVE Requested'
<1>1. /\ client = "open" /\ node' = [node EXCEPT ![First] = Path(Candidate)[1]]
      /\ up' = Push(up, First, <<Frame("request", ConnectRequest(Candidate))>>)
      /\ pc' = [pc EXCEPT ![First] = "read"] /\ candOf' = [candOf EXCEPT ![att] = cand]
      /\ client' = "response"
      /\ UNCHANGED <<setup, att, cand, retried, peer, down, dead, req, target, ended, verdict>>
  BY DEF OpenTCPStream
<1>2. /\ First \in Streams /\ First[1] = att /\ First[2] = 1 /\ att \in Attempts /\ att \in Nat
      /\ setup \in Setups /\ cand \in 1..Len(setup.candidates) /\ Types
  BY FirstStream DEF Requested, Types, ClientTypes, Candidates
<1>3. /\ candOf' \in [Attempts -> 1..Len(Candidates)] /\ candOf'[att] = cand
      /\ \A a \in Attempts : a # att => candOf'[a] = candOf[a]
  BY <1>1, <1>2 DEF Types, ClientTypes, Candidates
<1>4. ASSUME NEW g, g = First PROVE CandidateOf(g)' = Candidate /\ Hops(g)' = Path(Candidate)
  <2>1. CandidateOf(g)' = setup'.candidates[candOf'[g[1]]]
    BY DEF CandidateOf, Candidates
  <2>2. CandidateOf(g)' = Candidate
    BY <2>1, <1>1, <1>2, <1>3, <1>4 DEF Candidate, Candidates
  <2> QED
    BY <2>2, <1>1 DEF Hops, Path
<1>5. /\ Candidate \in [route : Seq(Nodes), e2e : BOOLEAN, egress : Nodes \cup {NoEgress}]
      /\ Path(Candidate) \in Seq(Nodes) /\ Len(Path(Candidate)) \in 1..MaxHops
  BY <1>2, PathShape DEF Candidate, Candidates, Path
<1>6. Path(Candidate)[1] \in Nodes /\ 1 <= Len(Path(Candidate)) /\ 1 \in 1..Len(Path(Candidate))
  <2>1. Len(Path(Candidate)) \in Nat /\ 1 <= Len(Path(Candidate))
    BY <1>5, StreamIndex
  <2> QED
    BY <1>5, <2>1
<1>7. /\ pc' \in [Streams -> Working \cup {"none", "read", "end"}] /\ pc'[First] = "read"
      /\ \A g \in Streams : g # First => pc'[g] = pc[g]
  BY <1>1, <1>2 DEF Types, HandlerTypes
<1>8. /\ node' \in [Streams -> Nodes] /\ node'[First] = Path(Candidate)[1]
      /\ \A g \in Streams : g # First => node'[g] = node[g]
  BY <1>1, <1>2, <1>6 DEF Types, LinkTypes
<1>9. ASSUME NEW g \in Streams, g[1] = att
      PROVE  /\ pc[g] = "none" /\ up[g] = <<>> /\ down[g] = <<>> /\ target[g] = "none"
             /\ verdict[g] = "none" /\ (g[2] = 1 => peer[g] = Client)
  BY <1>1, <1>9 DEF Requested, Opened
<1>10. /\ PerStream(up)' /\ up'[First] = <<Frame("request", ConnectRequest(Candidate))>>
       /\ \A g \in Streams : g # First => up'[g] = up[g]
  <2> DEFINE f == Frame("request", ConnectRequest(Candidate))
  <2>1. PerStream(up)
    BY <1>2 DEF Types, LinkTypes
  <2>2. \A s : /\ PerStream(Push(up, First, s)) /\ Push(up, First, s)[First] = up[First] \o s
               /\ \A g \in Streams : g # First => Push(up, First, s)[g] = up[g]
    BY ONLY <2>1, <1>2, Pushed
  <2> HIDE DEF f
  <2>3. /\ PerStream(up') /\ up'[First] = up[First] \o <<f>>
        /\ \A g \in Streams : g # First => up'[g] = up[g]
    BY <1>1, <2>2, Zenon DEF f
  <2>4. up[First] = <<>>
    BY <1>2, <1>9
  <2>5. <<>> \o <<f>> = <<f>>
    OBVIOUS
  <2> QED
    BY <2>3, <2>4, <2>5 DEF PerStream, f
<1>11. Types'
  <2>1. ClientTypes'
    BY <1>1, <1>2, <1>3 DEF Types, ClientTypes, Candidates
  <2>2. LinkTypes'
    BY <1>1, <1>2, <1>8, <1>10 DEF Types, LinkTypes, PerStream
  <2>3. HandlerTypes'
    BY <1>1, <1>2, <1>7 DEF Types, HandlerTypes
  <2> QED
    BY <2>1, <2>2, <2>3 DEF Types
<1>12. ClientPlace'
  <2>1. First' = First
    BY <1>1 DEF First
  <2> QED
    BY <1>1, <1>3, <1>7, <2>1 DEF ClientPlace, ProxyMeansTarget, Requested
<1>13. ASSUME NEW g, g = First
       PROVE  Opened(g)' /\ Served(g)' /\ UpQueued(g)' /\ DownQueued(g)'
  <2>1. g \in Streams /\ g[1] = att /\ g[2] = 1
    BY <1>2, <1>13
  <2>2. peer'[g] = Client /\ down'[g] = <<>> /\ target'[g] = "none"
    BY <1>1, <2>1, <1>9
  <2>3. Sender(g)' = Client
    BY <2>1, <1>13, <1>2 DEF Sender
  <2>4. Admitted(g)'
    BY <2>1, <1>13, <1>2 DEF Admitted
  <2>5. Opened(g)'
    BY <1>1, <1>2, <1>4, <1>6, <1>7, <1>8, <2>1, <1>13, <2>2, <2>3, <2>4 DEF Opened
  <2>6. Served(g)'
    BY <1>7, <2>1, <1>13, <2>2 DEF Served, Working, Relaying, Handshaking, Connected
  <2>7. Expected(g)' = ConnectRequest(Candidate)
    <3>1. (IF Candidate.route = <<>> THEN <<>>
           ELSE SubSeq(Candidate.route, 1, Len(Candidate.route))) = Candidate.route
      BY <1>5, FirstRequest
    <3>2. Expected(g)' =
            [route |-> IF Candidate.route = <<>> THEN <<>>
                       ELSE SubSeq(Candidate.route, 1, Len(Candidate.route)),
             egress |-> Candidate.egress, e2e |-> Candidate.e2e,
             e2eRoute |-> IF Candidate.e2e THEN Candidate.route ELSE <<>>]
      BY <1>4, <1>13, <2>1 DEF Expected
    <3> QED
      BY <3>1, <3>2 DEF ConnectRequest
  <2>8. UpQueued(g)'
    <3> DEFINE f == Frame("request", ConnectRequest(Candidate))
    <3>1. f \in UpFrames(g)'
      BY <2>7 DEF UpFrames, Frame
    <3> HIDE DEF f
    <3>2. up'[g] = <<f>>
      BY <1>10, <1>13 DEF f
    <3>3. <<f>> \in Seq(UpFrames(g)') /\ <<f>> # <<>> /\ Tail(<<f>>) = <<>>
      BY <3>1
    <3> QED
      BY <1>7, <2>1, <1>13, <3>2, <3>3, Nothing, Places DEF UpQueued
  <2>9. DownQueued(g)'
    BY <2>1, <1>13, <2>2, Nothing DEF DownQueued
  <2> QED
    BY <2>5, <2>6, <2>8, <2>9
<1>14. ASSUME NEW g \in Streams, g[1] = att, g # First
       PROVE  Opened(g)' /\ Served(g)' /\ UpQueued(g)' /\ DownQueued(g)'
  <2>1. /\ pc'[g] = "none" /\ up'[g] = <<>> /\ down'[g] = <<>> /\ target'[g] = "none"
        /\ verdict'[g] = "none" /\ (g[2] = 1 => peer'[g] = Client)
    BY <1>1, <1>7, <1>9, <1>10, <1>14
  <2>2. Opened(g)'
    BY <2>1 DEF Opened
  <2>3. Served(g)'
    BY <2>1 DEF Served, Working, Relaying, Handshaking, Connected
  <2>4. UpQueued(g)' /\ DownQueued(g)'
    BY <2>1, Nothing, Places DEF UpQueued, DownQueued
  <2> QED
    BY <2>2, <2>3, <2>4
<1>15. ASSUME NEW g \in Streams, g[1] # att
       PROVE  Opened(g)' /\ Served(g)' /\ UpQueued(g)' /\ DownQueued(g)'
  <2>1. g[1] \in Attempts /\ g[1] \in Nat /\ g[2] \in Nat /\ g # First
    BY <1>2, <1>15, StreamPair, StreamIndex
  <2>2. candOf'[g[1]] = candOf[g[1]] /\ setup' = setup
    BY <1>1, <1>3, <1>15, <2>1
  <2>3. ASSUME NEW f \in Streams, f[1] = g[1]
        PROVE  /\ pc'[f] = pc[f] /\ node'[f] = node[f] /\ peer'[f] = peer[f] /\ req'[f] = req[f]
               /\ target'[f] = target[f] /\ up'[f] = up[f] /\ down'[f] = down[f]
               /\ verdict'[f] = verdict[f]
    BY <1>1, <1>2, <1>7, <1>8, <1>10, <1>15, <2>3
  <2>4. /\ pc'[g] = pc[g] /\ node'[g] = node[g] /\ peer'[g] = peer[g] /\ req'[g] = req[g]
        /\ target'[g] = target[g] /\ up'[g] = up[g] /\ down'[g] = down[g]
        /\ verdict'[g] = verdict[g]
    BY <2>3
  <2>5. Opened(g)'
    <3>1. CASE pc[g] = "none"
      BY <3>1, <2>4 DEF Opened, Requested
    <3>2. CASE pc[g] # "none"
      <4>1. Opened(g)
        BY DEF Requested
      <4>2. g[1] <= att' /\ g[1] # att'
        BY <3>2, <4>1, <1>1, <1>15 DEF Opened
      <4>3. \A i \in 1..(g[2] - 1) : <<g[1], i>> \in Streams /\ <<g[1], i>>[1] = g[1]
        BY <2>1, StreamIndex
      <4>4. \A i \in 1..(g[2] - 1) : pc'[<<g[1], i>>] \in Relaying \cup {"end"}
        BY <3>2, <4>1, <4>3, <2>3 DEF Opened
      <4> QED
        BY <3>2, <4>1, <4>2, <4>4, <2>2, <2>4, SameRequestOf, SamePolicyOf DEF Opened
    <3> QED
      BY <3>1, <3>2
  <2>6. Served(g)'
    <3>1. Served(g) /\ NextHop(g)' = NextHop(g)
      BY DEF Requested, NextHop
    <3>2. pc[g] \in Relaying => pc'[NextHop(g)] # "none"
      <4>1. ASSUME pc[g] \in Relaying
            PROVE  NextHop(g) \in Streams /\ NextHop(g)[1] = g[1] /\ pc[NextHop(g)] # "none"
        BY <4>1, <3>1, <1>2, NextStream DEF Served, Types
      <4> QED
        BY <4>1, <2>3
    <3> QED
      BY <3>1, <3>2, <2>2, <2>4, SameRequestOf, SamePolicyOf DEF Served
  <2>7. UpQueued(g)'
    BY <2>2, <2>4, SameRequestOf DEF UpQueued, Requested
  <2>8. DownQueued(g)'
    <3>1. CandidateOf(g)' = CandidateOf(g) /\ LastHop(g)' = LastHop(g)
      BY <2>2, SameRequestOf
    <3>2. Reached(g)' <=> Reached(g)
      BY <1>1, <3>1 DEF Reached
    <3>3. DownFrames(g)' = DownFrames(g)
      BY <3>1, <3>2 DEF DownFrames, ClientContext, Response, E2EClose, Fin, Frame, Failures, Codes
    <3> QED
      BY <3>3, <2>4 DEF DownQueued, Requested
  <2> QED
    BY <2>5, <2>6, <2>7, <2>8
<1> QED
  BY <1>11, <1>12, <1>13, <1>14, <1>15 DEF Requested

-----------------------------------------------------------------------------
(* The theorems about a request. *)

LEMMA StutterKept == ASSUME Requested, UNCHANGED vars PROVE Requested'
<1>1. /\ UNCHANGED <<setup, candOf, node, peer, handlerVars>> /\ UNCHANGED clientVars
      /\ up' = up /\ down' = down /\ dead' = dead /\ att' = att /\ client' = client
      /\ pc' = pc /\ target' = target
  BY DEF vars, handlerVars, clientVars
<1>2. ClientTypes' /\ att \in Nat /\ att <= att'
  BY <1>1 DEF clientVars, Requested, Types, ClientTypes, Candidates
<1>3. Steady
  BY <1>1, <1>2 DEF Steady
<1>4. ClientPlace'
  BY <1>1, <1>3, ClientKept DEF Requested
<1> QED
  BY <1>1, <1>2, <1>4, ClientStepKept DEF Requested, Types, LinkTypes

LEMMA RequestedInit == Init => Requested
<1> SUFFICES ASSUME Init PROVE Requested
  OBVIOUS
<1>1. /\ setup \in Setups /\ client = "open" /\ att = 1 /\ cand = 1 /\ retried = FALSE
      /\ candOf = [a \in Attempts |-> 1] /\ node = [h \in Streams |-> setup.upstream]
      /\ peer = [h \in Streams |-> Client] /\ up = [h \in Streams |-> <<>>]
      /\ down = [h \in Streams |-> <<>>] /\ dead = {} /\ pc = [h \in Streams |-> "none"]
      /\ req = [h \in Streams |-> NoRequest] /\ target = [h \in Streams |-> "none"]
      /\ ended = [h \in Streams |-> {}] /\ verdict = [h \in Streams |-> "none"]
  BY DEF Init
<1>2. Len(setup.candidates) \in Nat /\ 1 \in 1..Len(setup.candidates) /\ setup.upstream \in Nodes
  <2>1. Len(setup.candidates) \in 1..MaxCandidates /\ MaxCandidates \in Nat
        /\ setup.upstream \in Nodes
    BY <1>1, SetupAssumption
  <2> QED
    BY <2>1
<1>3. Types
  <2>1. ClientTypes
    <3>1. candOf \in [Attempts -> 1..Len(Candidates)] /\ cand \in 1..Len(Candidates)
      BY <1>1, <1>2 DEF Candidates
    <3>2. \A a : a = 1 => a \in Nat \ {0}
      OBVIOUS
    <3>3. att \in Nat \ {0}
      BY ONLY <1>1, <3>2
    <3>4. \A b : b = FALSE => b \in BOOLEAN
      OBVIOUS
    <3>5. retried \in BOOLEAN
      BY ONLY <1>1, <3>4, Zenon
    <3> QED
      BY <1>1, <3>1, <3>3, <3>5 DEF ClientTypes
  <2>2. LinkTypes
    BY <1>1, <1>2 DEF LinkTypes, PerStream
  <2>3. NoRequest \in Requests
    BY Nothing DEF NoRequest, Requests
  <2>4. HandlerTypes
    BY <1>1, <2>3 DEF HandlerTypes
  <2> QED
    BY <2>1, <2>2, <2>4 DEF Types
<1>4. ClientPlace
  BY <1>1 DEF ClientPlace, ProxyMeansTarget
<1>5. ASSUME NEW h \in Streams PROVE Opened(h) /\ Served(h) /\ UpQueued(h) /\ DownQueued(h)
  BY <1>1, Nothing, Places
  DEF Opened, Served, UpQueued, DownQueued, Working, Relaying, Handshaking, Connected
<1> QED
  BY <1>3, <1>4, <1>5 DEF Requested

LEMMA ClientKeeps == ASSUME Requested, handleLocalConnection PROVE Requested'
BY OpenTCPStreamKept, NoConnectionKept, ResponseOKKept, ResponseRejectedKept, ResponseLostKept,
   SendClientHelloKept, ServerHelloOKKept, HandshakeFailKept, ProxyKept
   DEF handleLocalConnection

LEMMA HandlerKeeps ==
    ASSUME Requested, NEW h \in Streams, handleStream(h) PROVE Requested'
BY ReadConnectRequestKept, ReadRequestFailKept, DialTargetKept, WriteOKKept, ReadClientHelloKept,
   E2EDialTargetKept, SendServerHelloKept, ReadClientFinishedKept, E2EFailKept, OpenNextKept,
   OpenNextFailKept, RelayResponseKept, RelayResponseLostKept, RelayUpKept, RelayDownKept,
   RelayAbortKept, EgressKept
   DEF handleStream, Serve

LEMMA RequestedNext == Requested /\ [Next]_vars => Requested'
<1> SUFFICES ASSUME Requested, [Next]_vars PROVE Requested'
  OBVIOUS
<1>1. CASE handleLocalConnection
  BY <1>1, ClientKeeps
<1>2. ASSUME NEW h \in Streams, handleStream(h) PROVE Requested'
  BY <1>2, HandlerKeeps
<1>3. ASSUME NEW h \in Streams, LoseStream(h) PROVE Requested'
  BY <1>3, LoseStreamKept
<1>4. CASE Terminated
  BY <1>4, StutterKept DEF Terminated
<1>5. CASE UNCHANGED vars
  BY <1>5, StutterKept
<1> QED
  BY <1>1, <1>2, <1>3, <1>4, <1>5 DEF Next

\* In every reachable state, the streams carry the requests they should.
THEOREM Inductive == Spec => []Requested
BY RequestedInit, RequestedNext, PTL DEF Spec

\* The types of all variables, frames included.
LEMMA RequestedTypes == Requested => TypeOK
<1> SUFFICES ASSUME Requested PROVE TypeOK
  OBVIOUS
<1>1. att \in Attempts
  BY FirstStream DEF Requested, Types
<1>2. ASSUME NEW h \in Streams, NEW i \in 1..Len(up[h])
      PROVE  up[h][i].type \in {"request", "clientHello", "clientFinished", "fin"}
  <2>1. up[h][i] \in UpFrames(h)
    BY DEF Requested, UpQueued
  <2> QED
    BY <2>1 DEF UpFrames, Following, Frame, Fin
<1>3. ASSUME NEW h \in Streams, NEW i \in 1..Len(down[h])
      PROVE  down[h][i].type \in {"response", "serverHello", "close", "fin"}
  <2>1. down[h][i] \in DownFrames(h)
    BY DEF Requested, DownQueued
  <2> QED
    BY <2>1 DEF DownFrames, Frame, Response, E2EClose, Fin
<1>4. pc \in [Streams -> {"none", "read", "dial", "answer", "hello", "e2eDial",
                          "serverHello", "finished", "openNext", "waitNext",
                          "relay", "proxy", "end"}]
  <2>1. Working \cup {"none", "read", "end"} =
          {"none", "read", "dial", "answer", "hello", "e2eDial", "serverHello",
           "finished", "openNext", "waitNext", "relay", "proxy", "end"}
    BY DEF Working
  <2> QED
    BY <2>1 DEF Requested, Types, HandlerTypes
<1> QED
  BY <1>1, <1>2, <1>3, <1>4 DEF TypeOK, Requested, Types, ClientTypes, LinkTypes, HandlerTypes

\* Every variable of a setup keeps its type: the attempts of a client stay
\* within two for each candidate, hops within the candidate's path.
THEOREM TypeCorrect == Spec => []TypeOK
BY Inductive, RequestedTypes, PTL

LEMMA RequestedAuthorized == Requested => TargetAuthorized
<1> SUFFICES ASSUME Requested, NEW h \in Streams, target[h] # "none"
             PROVE  LET c == CandidateOf(h)
                        n == Path(c)[h[2]]
                    IN  /\ h[2] = Len(Path(c)) /\ node[h] = n
                        /\ \A i \in 1..(h[2] - 1) :
                             LET relay == Path(c)[i]
                             IN  Among(Sender(<<h[1], i>>), cfg[relay].allowedRelayClients)
                        /\ c.route # <<>> => Sender(h) \in cfg[n].peers
                        /\ cfg[n].service
                        /\ IF c.e2e
                           THEN cfg[n].serviceE2E /\ Among(Client, cfg[n].servicePeers)
                           ELSE /\ Among(Sender(h), cfg[n].servicePeers)
                                /\ cfg[n].serviceE2E => c.route = <<>>
  BY DEF TargetAuthorized
<1>1. pc[h] # "none" /\ (PlainAdmits(h) \/ (E2EAdmits(h) /\ ClientAdmitted(h)))
  BY DEF Requested, Served, Connected
<1>2. node[h] = Hops(h)[h[2]] /\ Admitted(h)
  BY <1>1, AtItsHop
<1>3. ASSUME NEW i \in 1..(h[2] - 1)
      PROVE  Among(Sender(<<h[1], i>>), cfg[Path(CandidateOf(h))[i]].allowedRelayClients)
  <2>1. RelayAdmits(<<h[1], i>>)
    BY <1>2 DEF Admitted
  <2> QED
    BY <2>1 DEF RelayAdmits, Policy, Hops, CandidateOf
<1> QED
  BY <1>1, <1>2, <1>3 DEF PlainAdmits, E2EAdmits, EgressAdmits, ClientAdmitted, Policy, Hops

\* A target is dialed only where the policies of all hops on the way admit the
\* request, for any settings of any number of servers and whatever is lost.
THEOREM Authorized == Spec => []TargetAuthorized
BY Inductive, RequestedAuthorized, PTL

\* The client proxies only once the egress of the attempt has its target.
THEOREM HonestSuccess == Spec => []ProxyMeansTarget
<1>1. Requested => ProxyMeansTarget
  BY DEF Requested, ClientPlace
<1> QED
  BY <1>1, Inductive, PTL

LEMMA RequestedTranscripts == Requested => TranscriptsAgree
<1> SUFFICES ASSUME Requested, NEW h \in Streams, pc[h] = "hello"
             PROVE  ServerContext(req[h]) = ClientContext(CandidateOf(h))
  BY DEF TranscriptsAgree
<1>1. req[h] = Expected(h) /\ CandidateOf(h).e2e
  BY DEF Requested, Served, Working, Handshaking, E2EAdmits
<1> QED
  BY <1>1, AtItsHop, SameTranscript

\* The egress computes its transcript from the context the client signs,
\* however many relays have shortened the route of the request.
THEOREM Transcripts == Spec => []TranscriptsAgree
BY Inductive, RequestedTranscripts, PTL

=============================================================================
