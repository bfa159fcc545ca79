--------------------------- MODULE FailoverProofs ---------------------------
(***************************************************************************)
(* What ends the failover, for any settings. A policy decision against the *)
(* client does (DenialStopsFailover of StreamSetup): the argument follows  *)
(* the denial from the hop that decided it to the client, which nothing    *)
(* but it and an OK before it can reach unless a stream of the attempt is  *)
(* lost. So does the end of the E2E handshake (HandshakeIsFinal): here the *)
(* client's last frame is followed to the egress.                          *)
(***************************************************************************)
EXTENDS StreamSetupProofs

Denials == {"ACCESS_DENIED", "SERVICE_NOT_FOUND", "ROUTE_INVALID"}

\* The frames before a denial and behind it.
OKs == {Response("OK")}
Fins == {Fin}

\* The places in which a handler may still deny the request.
Deciding == {"read", "openNext", "hello"}

\* No stream of attempt a was lost.
Intact(a) == \A i \in 1..MaxHops : <<a, i>> \notin dead

\* The client waits for attempt a.
Awaits(a) == att = a /\ client \in {"response", "clientHello", "serverHello"}

\* The hops before p are open towards the client, and have passed on nothing
\* but an OK.
Passing(a, p) ==
    \A i \in 1..(p - 1) :
        /\ pc[<<a, i>>] \in Relaying /\ "down" \notin ended[<<a, i>>]
        /\ down[<<a, i>>] \in Seq(OKs)

\* A denial is under way in q: behind an OK at most, and followed by the end.
Denial(f) == f.type \in {"response", "close"} /\ f.arg \in Denials
Denying(q) ==
    \E n \in 1..Len(q) :
        /\ \A i \in 1..(n - 1) : q[i] = Response("OK")
        /\ Denial(q[n])
        /\ \A i \in (n + 1)..Len(q) : q[i] = Fin

\* The denial of hop h has come as far as the stream of hop p.
Travels(h, p) ==
    /\ Passing(h[1], p) /\ Denying(down[<<h[1], p>>])
    /\ \A i \in p..h[2] : pc[<<h[1], i>>] \in {"relay", "end"}
    /\ \A i \in (p + 1)..h[2] : down[<<h[1], i>>] \in Seq(Fins)

\* While a hop has not decided, the client hears nothing final.
Undecided(h) ==
    pc[h] \in Deciding /\ Intact(h[1]) =>
        Awaits(h[1]) /\ Passing(h[1], h[2]) /\ down[h] \in Seq(OKs)

\* Once it has denied the request, the denial is on its way to the client, or
\* the client has got it and closed the local connection.
Denied(h) ==
    verdict[h] \in Denials =>
        /\ pc[h] = "end" /\ target[h] = "none"
        /\ \A i \in (h[2] + 1)..MaxHops : pc[<<h[1], i>>] = "none"
        /\ Intact(h[1]) =>
             \/ att = h[1] /\ client = "closed"
             \/ Awaits(h[1]) /\ \E p \in 1..h[2] : Travels(h, p)

\* A direction ends only in a proxy.
Unended(h) == pc[h] \notin {"relay", "proxy", "end"} => ended[h] = {}

Decided == \A h \in Streams : Undecided(h) /\ Denied(h) /\ Unended(h)

-----------------------------------------------------------------------------
(* The frames of a denial. *)

LEMMA FrameKinds ==
    /\ ~Denial(Response("OK")) /\ ~Denial(Fin) /\ Response("OK") # Fin
    /\ Response("OK").type = "response" /\ Response("OK").arg = "OK" /\ Fin.type = "fin"
    /\ \A code \in Denials : Denial(Response(code)) /\ Denial(E2EClose(code))
    /\ \A f : Denial(f) => f.type # "fin" /\ f.type # "serverHello" /\ f.arg # "OK"
BY DEF Denial, Response, E2EClose, Fin, Frame, Denials

\* A denial that is written behind an OK at most.
LEMMA DenyingWritten ==
    ASSUME NEW q \in Seq(OKs), NEW f, Denial(f)
    PROVE  Denying(q \o <<f>>) /\ Denying(q \o <<f, Fin>>)
<1>1. Len(q) \in Nat /\ \A i \in 1..Len(q) : q[i] = Response("OK")
  BY DEF OKs
<1> DEFINE n == Len(q) + 1
<1>2. ASSUME NEW r, r = q \o <<f>> \/ r = q \o <<f, Fin>> PROVE Denying(r)
  <2>1. Len(r) \in {n, n + 1} /\ n \in Nat /\ n - 1 = Len(q) /\ n \in 1..Len(r)
    BY <1>1, <1>2
  <2>2. \A i \in 1..Len(q) : r[i] = q[i]
    BY <1>1, <1>2
  <2>3. r[n] = f
    BY <1>1, <1>2
  <2>4. \A i \in (n + 1)..Len(r) : r[i] = Fin
    BY <1>1, <1>2
  <2> HIDE DEF n
  <2> QED
    BY <1>1, <2>1, <2>2, <2>3, <2>4 DEF Denying
<1> QED
  BY <1>2

\* The end may follow it.
LEMMA DenyingEnded ==
    ASSUME NEW S, NEW q \in Seq(S), Denying(q)
    PROVE  Denying(q \o <<Fin>>)
<1>1. PICK n \in 1..Len(q) :
        /\ \A i \in 1..(n - 1) : q[i] = Response("OK")
        /\ Denial(q[n])
        /\ \A i \in (n + 1)..Len(q) : q[i] = Fin
  BY DEF Denying
<1> DEFINE r == q \o <<Fin>>
<1>2. /\ Len(q) \in Nat /\ Len(r) = Len(q) + 1 /\ r[Len(q) + 1] = Fin
      /\ \A i \in 1..Len(q) : r[i] = q[i]
  OBVIOUS
<1> HIDE DEF r
<1>3. \A i \in 1..(n - 1) : r[i] = Response("OK")
  BY <1>1, <1>2
<1>4. Denial(r[n]) /\ n \in 1..Len(r)
  BY <1>1, <1>2
<1>5. \A i \in (n + 1)..Len(r) : i \in (n + 1)..Len(q) \/ i = Len(q) + 1
  BY <1>2
<1>6. \A i \in (n + 1)..Len(r) : r[i] = Fin
  BY <1>1, <1>2, <1>5
<1> QED
  BY <1>3, <1>4, <1>6 DEF Denying, r

\* The first frame is an OK with the denial behind it, or the denial itself.
LEMMA DenyingRead ==
    ASSUME NEW S, NEW q \in Seq(S), Denying(q)
    PROVE  /\ q # <<>>
           /\ \/ Head(q) = Response("OK") /\ Denying(Tail(q))
              \/ Denial(Head(q)) /\ Tail(q) \in Seq(Fins)
<1>1. PICK n \in 1..Len(q) :
        /\ \A i \in 1..(n - 1) : q[i] = Response("OK")
        /\ Denial(q[n])
        /\ \A i \in (n + 1)..Len(q) : q[i] = Fin
  BY DEF Denying
<1>2. Len(q) \in Nat /\ Len(q) > 0 /\ q # <<>> /\ Head(q) = q[1]
  BY <1>1
<1> DEFINE r == Tail(q)
<1>3. /\ r \in Seq(S) /\ Len(r) = Len(q) - 1
      /\ \A i \in 1..Len(r) : r[i] = q[i + 1]
  BY <1>2
<1> HIDE DEF r
<1>4. CASE n = 1
  <2>1. \A i \in 1..Len(r) : r[i] = Fin
    BY <1>1, <1>2, <1>3, <1>4
  <2>2. r \in Seq(Fins)
    BY <2>1, <1>3 DEF Fins
  <2> QED
    BY <1>1, <1>2, <1>4, <2>2 DEF r
<1>5. CASE n > 1
  <2>1. n - 1 \in 1..Len(r) /\ (n - 1) + 1 = n
    BY <1>1, <1>2, <1>3, <1>5
  <2>2. Denial(r[n - 1])
    BY <1>1, <1>3, <2>1
  <2>3. \A i \in 1..((n - 1) - 1) : r[i] = Response("OK")
    BY <1>1, <1>3, <1>2, <2>1
  <2>4. \A i \in ((n - 1) + 1)..Len(r) : r[i] = Fin
    BY <1>1, <1>3, <1>2, <2>1
  <2>5. Denying(r)
    BY <2>1, <2>2, <2>3, <2>4 DEF Denying
  <2>6. q[1] = Response("OK")
    BY <1>1, <1>5
  <2> QED
    BY <2>5, <2>6, <1>2 DEF r
<1> QED
  BY <1>1, <1>2, <1>4, <1>5


-----------------------------------------------------------------------------
(* Attempts that a step leaves alone. *)

\* The client's attention to attempt a is kept.
Attends(a) ==
    att = a => /\ att' = a
               /\ client \in {"response", "clientHello", "serverHello"} =>
                    client' \in {"response", "clientHello", "serverHello"}
               /\ client = "closed" => client' = "closed"

SameStream(h) ==
    /\ pc'[h] = pc[h] /\ down'[h] = down[h] /\ ended'[h] = ended[h]
    /\ verdict'[h] = verdict[h] /\ target'[h] = target[h]

LEMMA IntactBefore ==
    ASSUME NEW a, dead \subseteq dead', Intact(a)' PROVE Intact(a)
BY DEF Intact

LEMMA AwaitsKept ==
    ASSUME NEW a, Attends(a), Awaits(a) PROVE Awaits(a)'
BY DEF Attends, Awaits

LEMMA EarlierStream ==
    ASSUME NEW h \in Streams, NEW p \in 1..h[2], NEW i \in 1..p
    PROVE  i \in 1..MaxHops /\ <<h[1], i>> \in Streams /\ i \in Nat /\ p \in Nat
BY StreamIndex, StreamPair

LEMMA AttemptKept ==
    ASSUME NEW h \in Streams, Undecided(h), Denied(h), dead \subseteq dead', Attends(h[1]),
           \A g \in Streams : g[1] = h[1] => SameStream(g)
    PROVE  Undecided(h)' /\ Denied(h)'
<1>1. /\ h[1] \in Attempts /\ h[2] \in 1..MaxHops /\ h[2] \in Nat /\ MaxHops \in Nat
      /\ h = <<h[1], h[2]>>
  BY StreamPair, StreamIndex
<1>2. \A i \in 1..MaxHops : SameStream(<<h[1], i>>)
  BY <1>1, StreamPair
<1>3. \A i \in 1..h[2] : i \in 1..MaxHops
  BY <1>1
<1>4. SameStream(h)
  OBVIOUS
<1>5. Intact(h[1])' => Intact(h[1])
  BY IntactBefore
<1>6. Awaits(h[1]) => Awaits(h[1])'
  BY AwaitsKept
<1>7. ASSUME NEW p \in 1..h[2], Passing(h[1], p) PROVE Passing(h[1], p)'
  <2>1. \A i \in 1..(p - 1) : i \in 1..MaxHops
    BY <1>1
  <2> QED
    BY <1>2, <1>7, <2>1 DEF Passing, SameStream
<1>8. Undecided(h)'
  <2>1. h[2] \in 1..h[2]
    BY <1>1
  <2> QED
    BY <1>4, <1>5, <1>6, <1>7, <2>1 DEF Undecided, SameStream
<1>9. ASSUME NEW p \in 1..h[2], Travels(h, p) PROVE Travels(h, p)'
  <2>1. Passing(h[1], p)'
    BY <1>7, <1>9 DEF Travels
  <2>2. \A i \in p..h[2] : i \in 1..MaxHops
    BY <1>1
  <2>3. p \in p..h[2] /\ \A i \in (p + 1)..h[2] : i \in p..h[2]
    BY <1>1
  <2> QED
    BY <1>2, <1>9, <2>1, <2>2, <2>3 DEF Travels, SameStream
<1>10. Denied(h)'
  <2> SUFFICES ASSUME verdict'[h] \in Denials PROVE Denied(h)'
    BY DEF Denied
  <2>1. verdict[h] \in Denials
    BY <1>4 DEF SameStream
  <2>2. \A i \in (h[2] + 1)..MaxHops : i \in 1..MaxHops
    BY <1>1
  <2>3. /\ pc'[h] = "end" /\ target'[h] = "none"
        /\ \A i \in (h[2] + 1)..MaxHops : pc'[<<h[1], i>>] = "none"
    BY <1>2, <1>4, <2>1, <2>2 DEF Denied, SameStream
  <2>4. ASSUME Intact(h[1])'
        PROVE  \/ att' = h[1] /\ client' = "closed"
               \/ Awaits(h[1])' /\ \E p \in 1..h[2] : Travels(h, p)'
    <3>1. \/ att = h[1] /\ client = "closed"
          \/ Awaits(h[1]) /\ \E p \in 1..h[2] : Travels(h, p)
      BY <1>5, <2>1, <2>4 DEF Denied
    <3> QED
      BY <3>1, <1>6, <1>9 DEF Attends
  <2> QED
    BY <2>3, <2>4 DEF Denied
<1> QED
  BY <1>8, <1>10

\* A step of a handler of attempt a leaves the client and the other attempts
\* alone.
Within(a) ==
    /\ UNCHANGED clientVars /\ dead \subseteq dead'
    /\ \A g \in Streams : g[1] # a => SameStream(g)

LEMMA OthersKept ==
    ASSUME Decided, NEW a, Within(a), NEW h \in Streams, h[1] # a
    PROVE  Undecided(h)' /\ Denied(h)'
<1>1. Attends(h[1])
  BY DEF Within, Attends, clientVars
<1> QED
  BY <1>1, AttemptKept DEF Decided, Within

-----------------------------------------------------------------------------
(* A handler that neither relays nor has ended is the last of its attempt,    *)
(* and nobody has denied the request.                                         *)

Busy(h) == pc[h] \notin Relaying \cup {"none", "end"}

LEMMA Alone ==
    ASSUME Requested, Decided, NEW g \in Streams, Busy(g), NEW h \in Streams, h[1] = g[1]
    PROVE  /\ verdict[h] \notin Denials
           /\ h # g => pc[h] \in Relaying \cup {"none", "end"} /\ pc[h] \notin Deciding
           /\ h[2] > g[2] => pc[h] = "none"
           /\ h[2] < g[2] => pc[h] \in Relaying \cup {"end"}
<1>1. /\ h = <<h[1], h[2]>> /\ g = <<g[1], g[2]>> /\ h[2] \in Nat \ {0} /\ g[2] \in Nat \ {0}
      /\ g[2] \in 1..MaxHops /\ h[2] \in 1..MaxHops
  BY StreamPair, StreamIndex
<1>2. h # g => h[2] < g[2] \/ h[2] > g[2]
  BY <1>1
<1>3. h[2] > g[2] => pc[h] = "none"
  BY NextNotOpen DEF Busy
<1>4. ASSUME h[2] < g[2] PROVE pc[h] \in Relaying \cup {"end"}
  <2>1. h[2] \in 1..(g[2] - 1)
    BY <1>1, <1>4
  <2>2. Opened(g) /\ pc[g] # "none"
    BY DEF Requested, Busy
  <2>3. pc[<<g[1], h[2]>>] \in Relaying \cup {"end"}
    BY <2>1, <2>2 DEF Opened
  <2> QED
    BY <2>3, <1>1
<1>5. verdict[h] \notin Denials
  <2> SUFFICES ASSUME verdict[h] \in Denials PROVE FALSE
    OBVIOUS
  <2>1. pc[h] = "end" /\ \A i \in (h[2] + 1)..MaxHops : pc[<<h[1], i>>] = "none"
    BY DEF Decided, Denied
  <2>2. h # g
    BY <2>1 DEF Busy
  <2>3. CASE h[2] > g[2]
    BY <2>1, <2>3, <1>3
  <2>4. CASE h[2] < g[2]
    <3>1. g[2] \in (h[2] + 1)..MaxHops
      BY <1>1, <2>4
    <3>2. pc[g] = "none"
      BY <2>1, <3>1, <1>1
    <3> QED
      BY <3>2 DEF Busy
  <2> QED
    BY <1>2, <2>2, <2>3, <2>4
<1>6. h # g => pc[h] \in Relaying \cup {"none", "end"} /\ pc[h] \notin Deciding
  BY <1>2, <1>3, <1>4 DEF Relaying, Deciding
<1> QED
  BY <1>3, <1>4, <1>5, <1>6

\* Such a handler's step that neither leaves it undecided nor denies the
\* request.
LEMMA BusyKept ==
    ASSUME Requested, Decided, NEW g \in Streams, Busy(g), Within(g[1]),
           \A h \in Streams : h # g => pc'[h] = pc[h] /\ verdict'[h] = verdict[h],
           pc'[g] \notin Deciding, verdict'[g] \notin Denials
    PROVE  \A h \in Streams : Undecided(h)' /\ Denied(h)'
<1> SUFFICES ASSUME NEW h \in Streams PROVE Undecided(h)' /\ Denied(h)'
  OBVIOUS
<1>1. CASE h[1] # g[1]
  BY <1>1, OthersKept
<1>2. CASE h[1] = g[1]
  <2>1. pc'[h] \notin Deciding /\ verdict'[h] \notin Denials
    BY <1>2, Alone
  <2> QED
    BY <2>1 DEF Undecided, Denied
<1> QED
  BY <1>1, <1>2


-----------------------------------------------------------------------------
(* The steps of a handler that works on its own stream only. *)

Own(g) ==
    /\ UNCHANGED clientVars /\ dead \subseteq dead'
    /\ \A h \in Streams : h # g => SameStream(h)

LEMMA OwnWithin == ASSUME NEW g \in Streams, Own(g) PROVE Within(g[1])
BY DEF Own, Within

LEMMA OwnKept ==
    ASSUME Requested, Decided, NEW g \in Streams, Busy(g), Own(g),
           pc'[g] \notin Deciding, verdict'[g] \notin Denials
    PROVE  \A h \in Streams : Undecided(h)' /\ Denied(h)'
BY BusyKept, OwnWithin DEF Own, SameStream

LEMMA Answered ==
    ASSUME Requested, NEW g \in Streams, NEW frames, Answer(g, frames)
    PROVE  /\ \A h \in Streams : h # g => down'[h] = down[h]
           /\ g \notin dead => down'[g] = down[g] \o frames
<1>1. PerStream(down)
  BY DEF Requested, Types, LinkTypes
<1>2. CASE g \in dead
  BY <1>2 DEF Answer
<1>3. CASE g \notin dead
  <2>1. down' = Push(down, g, frames)
    BY <1>3 DEF Answer
  <2>2. \A r : PerStream(r) => \A s :
          /\ PerStream(Push(r, g, s)) /\ Push(r, g, s)[g] = r[g] \o s
          /\ \A h \in Streams : h # g => Push(r, g, s)[h] = r[h]
    BY ONLY g \in Streams, Pushed
  <2> QED
    BY <1>1, <2>1, <2>2, Zenon
<1> QED
  BY <1>2, <1>3

\* The hops before are left alone.
LEMMA PassingKept ==
    ASSUME NEW g \in Streams, Own(g), NEW p \in 1..g[2], Passing(g[1], p)
    PROVE  Passing(g[1], p)'
<1>1. g[2] \in Nat /\ g = <<g[1], g[2]>>
  BY StreamIndex, StreamPair
<1>2. ASSUME NEW i \in 1..(p - 1) PROVE SameStream(<<g[1], i>>)
  <2>1. i \in 1..p /\ i # g[2]
    BY <1>1
  <2>2. <<g[1], i>> \in Streams /\ <<g[1], i>> # g
    BY <1>1, <2>1, EarlierStream
  <2> QED
    BY <2>2 DEF Own
<1> QED
  BY <1>2 DEF Passing, SameStream

\* A hop that stays undecided may have sent an OK.
LEMMA StillDeciding ==
    ASSUME Requested, Decided, NEW g \in Streams, pc[g] \in Deciding, Own(g),
           verdict'[g] = verdict[g],
           down'[g] = down[g] \/ (g \notin dead => down'[g] = down[g] \o <<Response("OK")>>)
    PROVE  \A h \in Streams : Undecided(h)' /\ Denied(h)'
<1> SUFFICES ASSUME NEW h \in Streams PROVE Undecided(h)' /\ Denied(h)'
  OBVIOUS
<1>1. Busy(g)
  BY DEF Busy, Deciding, Relaying
<1>2. CASE h[1] # g[1]
  BY <1>2, OthersKept, OwnWithin
<1>3. CASE h[1] = g[1]
  <2>1. verdict[h] \notin Denials /\ (h # g => pc[h] \notin Deciding)
    BY <1>1, <1>3, Alone
  <2>2. verdict'[h] = verdict[h] /\ (h # g => pc'[h] = pc[h])
    BY DEF Own, SameStream
  <2>3. Denied(h)'
    BY <2>1, <2>2 DEF Denied
  <2>4. ASSUME h = g, Intact(g[1])' PROVE Undecided(g)'
    <3>1. Intact(g[1])
      BY <2>4, IntactBefore DEF Own
    <3>2. Awaits(g[1]) /\ Passing(g[1], g[2]) /\ down[g] \in Seq(OKs)
      BY <3>1 DEF Decided, Undecided
    <3>3. g \notin dead
      BY <3>1, StreamPair DEF Intact
    <3>4. down'[g] \in Seq(OKs)
      BY <3>2, <3>3, PushOne DEF OKs
    <3>5. g[2] \in 1..g[2]
      BY StreamIndex
    <3>6. Awaits(g[1])'
      BY <3>2 DEF Awaits, Own, clientVars
    <3> QED
      BY <3>2, <3>4, <3>5, <3>6, PassingKept DEF Undecided
  <2>5. Undecided(h)'
    BY <2>1, <2>2, <2>4 DEF Undecided
  <2> QED
    BY <2>3, <2>5
<1> QED
  BY <1>2, <1>3

\* A hop that denies the request puts the denial into its stream.
LEMMA NowDenied ==
    ASSUME Requested, Decided, NEW g \in Streams, pc[g] \in Deciding, Own(g),
           pc'[g] = "end", target'[g] = target[g], NEW f, Denial(f),
           g \notin dead => down'[g] = down[g] \o <<f, Fin>>
    PROVE  \A h \in Streams : Undecided(h)' /\ Denied(h)'
<1> SUFFICES ASSUME NEW h \in Streams PROVE Undecided(h)' /\ Denied(h)'
  OBVIOUS
<1>1. Busy(g) /\ "end" \notin Deciding
  BY DEF Busy, Deciding, Relaying
<1>2. CASE h[1] # g[1]
  BY <1>2, OthersKept, OwnWithin
<1>3. CASE h[1] = g[1] /\ h # g
  <2>1. verdict[h] \notin Denials /\ pc[h] \notin Deciding
    BY <1>1, <1>3, Alone
  <2>2. verdict'[h] = verdict[h] /\ pc'[h] = pc[h]
    BY <1>3 DEF Own, SameStream
  <2> QED
    BY <2>1, <2>2 DEF Denied, Undecided
<1>4. CASE h = g
  <2>1. Undecided(g)'
    BY <1>1 DEF Undecided
  <2>2. target'[g] = "none"
    <3>1. pc[g] \notin Connected \cup {"end"}
      BY DEF Deciding, Connected
    <3> QED
      BY <3>1 DEF Requested, Served
  <2>3. g[2] \in Nat \ {0} /\ MaxHops \in Nat /\ g[1] \in Attempts /\ g = <<g[1], g[2]>>
    BY StreamPair, StreamIndex
  <2>4. ASSUME NEW i \in (g[2] + 1)..MaxHops PROVE pc'[<<g[1], i>>] = "none"
    <3>1. i \in 1..MaxHops /\ i > g[2] /\ i # g[2]
      BY <2>3
    <3>2. <<g[1], i>> \in Streams /\ <<g[1], i>>[1] = g[1] /\ <<g[1], i>>[2] = i
      BY <3>1, <2>3, StreamPair
    <3>3. pc[<<g[1], i>>] = "none" /\ <<g[1], i>> # g
      BY <3>1, <3>2, <1>1, Alone
    <3> QED
      BY <3>2, <3>3 DEF Own, SameStream
  <2>5. ASSUME Intact(g[1])'
        PROVE  Awaits(g[1])' /\ \E p \in 1..g[2] : Travels(g, p)'
    <3>1. Intact(g[1])
      BY <2>5, IntactBefore DEF Own
    <3>2. Awaits(g[1]) /\ Passing(g[1], g[2]) /\ down[g] \in Seq(OKs)
      BY <3>1 DEF Decided, Undecided
    <3>3. g \notin dead
      BY <3>1, StreamPair DEF Intact
    <3>4. Denying(down'[g])
      BY <3>2, <3>3, DenyingWritten
    <3>5. g[2] \in 1..g[2]
      BY <2>3
    <3>6. Passing(g[1], g[2])'
      BY <3>2, <3>5, PassingKept
    <3>7. Travels(g, g[2])'
      <4>1. \A i \in g[2]..g[2] : i = g[2]
        BY <2>3
      <4>2. \A i \in (g[2] + 1)..g[2] : FALSE
        BY <2>3
      <4> QED
        BY <2>3, <3>4, <3>6, <4>1, <4>2 DEF Travels
    <3>8. Awaits(g[1])'
      BY <3>2 DEF Awaits, Own, clientVars
    <3> QED
      BY <3>5, <3>7, <3>8
  <2>6. Denied(g)'
    BY <2>2, <2>4, <2>5 DEF Denied
  <2> QED
    BY <1>4, <2>1, <2>6
<1> QED
  BY <1>2, <1>3, <1>4


\* Where a direction may have ended.
Proxying == {"relay", "proxy", "end"}

LEMMA UnendedKept ==
    ASSUME Decided,
           \A h \in Streams : pc'[h] \notin Proxying => pc[h] \notin Proxying /\ ended'[h] = ended[h]
    PROVE  \A h \in Streams : Unended(h)'
BY DEF Decided, Unended, Proxying

LEMMA OwnUnended ==
    ASSUME Decided, NEW g \in Streams, Busy(g), Own(g),
           IF pc[g] = "proxy" THEN pc'[g] \in {"proxy", "end"} ELSE ended'[g] = ended[g]
    PROVE  \A h \in Streams : Unended(h)'
<1>1. ASSUME NEW h \in Streams, pc'[h] \notin Proxying
      PROVE  pc[h] \notin Proxying /\ ended'[h] = ended[h]
  <2>1. CASE h = g
    BY <1>1, <2>1 DEF Busy, Relaying, Proxying
  <2>2. CASE h # g
    BY <1>1, <2>2 DEF Own, SameStream
  <2> QED
    BY <2>1, <2>2
<1> QED
  BY <1>1, UnendedKept

\* A rejection that is not a denial.
LEMMA RejectOwn ==
    ASSUME Requested, NEW g \in Streams, NEW frame, NEW code \in Failures,
           frame = Response(code) \/ frame = E2EClose(code), Reject(g, frame),
           UNCHANGED <<clientVars, dead, ended>>,
           \A h \in Streams : h # g => target'[h] = target[h]
    PROVE  /\ Own(g) /\ pc'[g] = "end" /\ verdict'[g] = code
           /\ g \notin dead => down'[g] = down[g] \o <<frame, Fin>>
<1>1. /\ pc'[g] = "end" /\ verdict'[g] = code /\ Answer(g, <<frame, Fin>>)
      /\ \A h \in Streams : h # g => pc'[h] = pc[h] /\ verdict'[h] = verdict[h]
  BY RejectEffect
<1>2. /\ \A h \in Streams : h # g => down'[h] = down[h]
      /\ g \notin dead => down'[g] = down[g] \o <<frame, Fin>>
  BY <1>1, Answered
<1> QED
  BY <1>1, <1>2 DEF Own, SameStream, clientVars

LEMMA RejectFinal ==
    ASSUME Requested, Decided, NEW g \in Streams, Busy(g), pc[g] # "proxy",
           NEW frame, NEW code \in Failures,
           frame = Response(code) \/ frame = E2EClose(code), Reject(g, frame),
           UNCHANGED <<clientVars, dead, ended>>,
           \A h \in Streams : h # g => target'[h] = target[h],
           code \in Denials => pc[g] \in Deciding /\ target'[g] = target[g]
    PROVE  Decided'
<1>1. /\ Own(g) /\ pc'[g] = "end" /\ verdict'[g] = code
      /\ g \notin dead => down'[g] = down[g] \o <<frame, Fin>>
  BY RejectOwn
<1>2. \A h \in Streams : Unended(h)'
  BY <1>1, OwnUnended
<1>3. CASE code \in Denials
  <2>1. Denial(frame)
    BY <1>3, FrameKinds
  <2> QED
    BY <1>1, <1>2, <1>3, <2>1, NowDenied DEF Decided
<1>4. CASE code \notin Denials
  <2>1. pc'[g] \notin Deciding
    BY <1>1 DEF Deciding
  <2> QED
    BY <1>1, <1>2, <1>4, <2>1, OwnKept DEF Decided
<1> QED
  BY <1>3, <1>4

\* A step of a handler of which only the place, the target, the ends and the
\* frames to the client change.
LEMMA OwnFinal ==
    ASSUME Requested, Decided, NEW g \in Streams, Busy(g), Own(g), pc'[g] \notin Deciding,
           verdict'[g] = verdict[g],
           IF pc[g] = "proxy" THEN pc'[g] \in {"proxy", "end"} ELSE ended'[g] = ended[g]
    PROVE  Decided'
<1>1. verdict[g] \notin Denials
  BY Alone
<1> QED
  BY <1>1, OwnUnended, OwnKept DEF Decided

LEMMA BusyPlaces ==
    ASSUME NEW g, pc[g] \in {"read", "dial", "answer", "hello", "e2eDial", "serverHello",
                             "finished", "openNext", "proxy"}
    PROVE  Busy(g)
BY DEF Busy, Relaying

LEMMA ReadConnectRequestFinal ==
    ASSUME Requested, Decided, NEW g \in Streams, ReadConnectRequest(g)
    PROVE  Decided'
<1>1. /\ pc[g] = "read"
      /\ UNCHANGED <<setup, clientVars, node, peer, dead, target, ended>>
      /\ \/ Goto(g, "openNext") /\ UNCHANGED <<down, verdict>>
         \/ Goto(g, "dial") /\ UNCHANGED <<down, verdict>>
         \/ /\ Answer(g, <<Response("OK")>>) /\ UNCHANGED verdict
            /\ Goto(g, IF g \in dead THEN "end" ELSE "hello")
         \/ \E code \in Failures : Reject(g, Response(code))
  BY ReadConnectRequestCases
<1>2. Busy(g) /\ pc[g] \in Deciding /\ pc[g] # "proxy"
  BY <1>1, BusyPlaces DEF Deciding
<1>3. DOMAIN pc = Streams
  BY DEF Requested, Types, HandlerTypes
<1>4. CASE Goto(g, "openNext") /\ UNCHANGED <<down, verdict>>
  <2>1. Own(g)
    BY <1>1, <1>3, <1>4 DEF Goto, Own, SameStream, clientVars
  <2> QED
    BY <1>1, <1>2, <1>4, <2>1, StillDeciding, OwnUnended DEF Decided
<1>5. CASE Goto(g, "dial") /\ UNCHANGED <<down, verdict>>
  <2>1. Own(g) /\ pc'[g] = "dial"
    BY <1>1, <1>3, <1>5 DEF Goto, Own, SameStream, clientVars
  <2> QED
    BY <1>1, <1>2, <1>5, <2>1, OwnFinal DEF Deciding
<1>6. CASE /\ Answer(g, <<Response("OK")>>) /\ UNCHANGED verdict
           /\ Goto(g, IF g \in dead THEN "end" ELSE "hello")
  <2>1. /\ \A h \in Streams : h # g => down'[h] = down[h]
        /\ g \notin dead => down'[g] = down[g] \o <<Response("OK")>>
    BY <1>6, Answered
  <2>2. Own(g)
    BY <1>1, <1>3, <1>6, <2>1 DEF Goto, Own, SameStream, clientVars
  <2> QED
    BY <1>1, <1>2, <1>6, <2>1, <2>2, StillDeciding, OwnUnended DEF Decided
<1>7. CASE \E code \in Failures : Reject(g, Response(code))
  BY <1>1, <1>2, <1>7, RejectFinal
<1> QED
  BY <1>1, <1>4, <1>5, <1>6, <1>7

LEMMA ReadRequestFailFinal ==
    ASSUME Requested, Decided, NEW g \in Streams, ReadRequestFail(g)
    PROVE  Decided'
<1>1. /\ pc[g] = "read" /\ Answer(g, <<Fin>>) /\ Goto(g, "end")
      /\ UNCHANGED <<setup, clientVars, node, peer, up, dead, req, target, ended, verdict>>
  BY DEF ReadRequestFail
<1>2. Busy(g) /\ DOMAIN pc = Streams
  BY <1>1, BusyPlaces DEF Requested, Types, HandlerTypes
<1>3. \A h \in Streams : h # g => down'[h] = down[h]
  BY <1>1, Answered
<1>4. Own(g) /\ pc'[g] = "end"
  BY <1>1, <1>2, <1>3 DEF Goto, Own, SameStream, clientVars
<1> QED
  BY <1>1, <1>2, <1>4, OwnFinal DEF Deciding


LEMMA DialFinal ==
    ASSUME Requested, Decided, NEW g \in Streams, DialTarget(g) \/ E2EDialTarget(g)
    PROVE  Decided'
<1>1. /\ pc[g] \in {"dial", "e2eDial"}
      /\ UNCHANGED <<clientVars, dead, ended>>
      /\ \/ /\ target' = [target EXCEPT ![g] = "open"] /\ UNCHANGED <<down, verdict>>
            /\ Goto(g, "answer") \/ Goto(g, "serverHello")
         \/ /\ Reject(g, Response("TARGET_DIAL_FAILED")) \/ Reject(g, E2EClose("TARGET_DIAL_FAILED"))
            /\ UNCHANGED target
  BY DEF DialTarget, E2EDialTarget
<1>2. Busy(g) /\ pc[g] # "proxy" /\ DOMAIN pc = Streams /\ DOMAIN target = Streams
  BY <1>1, BusyPlaces DEF Requested, Types, HandlerTypes
<1>3. CASE /\ target' = [target EXCEPT ![g] = "open"] /\ UNCHANGED <<down, verdict>>
           /\ Goto(g, "answer") \/ Goto(g, "serverHello")
  <2>1. Own(g) /\ pc'[g] \in {"answer", "serverHello"}
    BY <1>1, <1>2, <1>3 DEF Goto, Own, SameStream, clientVars
  <2> QED
    BY <1>1, <1>2, <1>3, <2>1, OwnFinal DEF Deciding
<1>4. CASE /\ \/ Reject(g, Response("TARGET_DIAL_FAILED"))
              \/ Reject(g, E2EClose("TARGET_DIAL_FAILED"))
           /\ UNCHANGED target
  <2>1. "TARGET_DIAL_FAILED" \in Failures /\ "TARGET_DIAL_FAILED" \notin Denials
    BY DEF Failures, Codes, Denials
  <2> QED
    BY <1>1, <1>2, <1>4, <2>1, RejectFinal
<1> QED
  BY <1>1, <1>3, <1>4

LEMMA WriteOKFinal ==
    ASSUME Requested, Decided, NEW g \in Streams, WriteOK(g)
    PROVE  Decided'
<1>1. /\ pc[g] = "answer" /\ Answer(g, <<Response("OK")>>)
      /\ UNCHANGED <<clientVars, dead, ended, verdict>>
      /\ \/ Goto(g, "end") /\ target' = [target EXCEPT ![g] = "closed"]
         \/ Goto(g, "proxy") /\ UNCHANGED target
  BY DEF WriteOK
<1>2. Busy(g) /\ DOMAIN pc = Streams /\ DOMAIN target = Streams
  BY <1>1, BusyPlaces DEF Requested, Types, HandlerTypes
<1>3. \A h \in Streams : h # g => down'[h] = down[h]
  BY <1>1, Answered
<1>4. Own(g) /\ pc'[g] \in {"end", "proxy"}
  BY <1>1, <1>2, <1>3 DEF Goto, Own, SameStream, clientVars
<1> QED
  BY <1>1, <1>2, <1>4, OwnFinal DEF Deciding

LEMMA ReadClientHelloFinal ==
    ASSUME Requested, Decided, NEW g \in Streams, ReadClientHello(g)
    PROVE  Decided'
<1>1. /\ pc[g] = "hello"
      /\ UNCHANGED <<clientVars, dead, target, ended>>
      /\ \/ Reject(g, E2EClose("INTERNAL_ERROR"))
         \/ Reject(g, E2EClose("ACCESS_DENIED"))
         \/ Goto(g, "e2eDial") /\ UNCHANGED <<down, verdict>>
  BY DEF ReadClientHello
<1>2. Busy(g) /\ pc[g] \in Deciding /\ pc[g] # "proxy" /\ DOMAIN pc = Streams
  BY <1>1, BusyPlaces DEF Requested, Types, HandlerTypes, Deciding
<1>3. "INTERNAL_ERROR" \in Failures /\ "ACCESS_DENIED" \in Failures
  BY DEF Failures, Codes
<1>4. CASE Reject(g, E2EClose("INTERNAL_ERROR")) \/ Reject(g, E2EClose("ACCESS_DENIED"))
  BY <1>1, <1>2, <1>3, <1>4, RejectFinal
<1>5. CASE Goto(g, "e2eDial") /\ UNCHANGED <<down, verdict>>
  <2>1. Own(g) /\ pc'[g] = "e2eDial"
    BY <1>1, <1>2, <1>5 DEF Goto, Own, SameStream, clientVars
  <2> QED
    BY <1>1, <1>2, <1>5, <2>1, OwnFinal DEF Deciding
<1> QED
  BY <1>1, <1>4, <1>5

LEMMA SendServerHelloFinal ==
    ASSUME Requested, Decided, NEW g \in Streams, SendServerHello(g)
    PROVE  Decided'
<1> DEFINE hello == <<Frame("serverHello", ServerContext(req[g]))>>
<1>1. /\ pc[g] = "serverHello" /\ Answer(g, hello) /\ Goto(g, "finished")
      /\ UNCHANGED <<clientVars, dead, ended, target, verdict>>
  BY DEF SendServerHello, Answer
<1> HIDE DEF hello
<1>2. Busy(g) /\ DOMAIN pc = Streams
  BY <1>1, BusyPlaces DEF Requested, Types, HandlerTypes
<1>3. \A h \in Streams : h # g => down'[h] = down[h]
  BY <1>1, Answered
<1>4. Own(g) /\ pc'[g] = "finished"
  BY <1>1, <1>2, <1>3 DEF Goto, Own, SameStream, clientVars
<1> QED
  BY <1>1, <1>2, <1>4, OwnFinal DEF Deciding

LEMMA ReadClientFinishedFinal ==
    ASSUME Requested, Decided, NEW g \in Streams, ReadClientFinished(g)
    PROVE  Decided'
<1>1. /\ pc[g] = "finished" /\ Goto(g, "proxy")
      /\ UNCHANGED <<clientVars, down, dead, ended, target, verdict>>
  BY DEF ReadClientFinished
<1>2. Busy(g) /\ DOMAIN pc = Streams
  BY <1>1, BusyPlaces DEF Requested, Types, HandlerTypes
<1>3. Own(g) /\ pc'[g] = "proxy"
  BY <1>1, <1>2 DEF Goto, Own, SameStream, clientVars
<1> QED
  BY <1>1, <1>2, <1>3, OwnFinal DEF Deciding

LEMMA E2EFailFinal ==
    ASSUME Requested, Decided, NEW g \in Streams, E2EFail(g)
    PROVE  Decided'
<1>1. /\ pc[g] \in {"hello", "finished", "serverHello"} /\ Reject(g, E2EClose("INTERNAL_ERROR"))
      /\ \E t : target' = [target EXCEPT ![g] = t]
      /\ UNCHANGED <<clientVars, dead, ended>>
  BY DEF E2EFail
<1>2. Busy(g) /\ pc[g] # "proxy" /\ \A h \in Streams : h # g => target'[h] = target[h]
  BY <1>1, BusyPlaces DEF Requested, Types, HandlerTypes
<1>3. "INTERNAL_ERROR" \in Failures /\ "INTERNAL_ERROR" \notin Denials
  BY DEF Failures, Codes, Denials
<1> QED
  BY <1>1, <1>2, <1>3, RejectFinal

LEMMA OpenNextFailFinal ==
    ASSUME Requested, Decided, NEW g \in Streams, OpenNextFail(g)
    PROVE  Decided'
<1>1. /\ pc[g] = "openNext" /\ Reject(g, Response("NEXT_HOP_UNREACHABLE"))
      /\ UNCHANGED <<clientVars, dead, ended, target>>
  BY DEF OpenNextFail
<1>2. Busy(g) /\ pc[g] # "proxy"
  BY <1>1, BusyPlaces
<1>3. "NEXT_HOP_UNREACHABLE" \in Failures /\ "NEXT_HOP_UNREACHABLE" \notin Denials
  BY DEF Failures, Codes, Denials
<1> QED
  BY <1>1, <1>2, <1>3, RejectFinal

LEMMA EgressFinal ==
    ASSUME Requested, Decided, NEW g \in Streams, EgressUp(g) \/ TargetEOF(g) \/ EgressAbort(g)
    PROVE  Decided'
<1>1. /\ pc[g] = "proxy" /\ CloseTarget(g) /\ UNCHANGED <<clientVars, verdict>>
      /\ down' = down \/ Answer(g, <<Fin>>)
      /\ \/ \E d \in {"up", "down"} : Finish(g, d) /\ dead' = dead
         \/ Goto(g, "end") /\ UNCHANGED ended /\ dead' = dead \cup {g}
  BY DEF EgressUp, TargetEOF, EgressAbort
<1>2. Busy(g) /\ DOMAIN pc = Streams /\ DOMAIN target = Streams /\ DOMAIN ended = Streams
  BY <1>1, BusyPlaces DEF Requested, Types, HandlerTypes
<1>3. \A h \in Streams : h # g => down'[h] = down[h]
  BY <1>1, Answered
<1>4. /\ pc'[g] \in {"proxy", "end"}
      /\ \A h \in Streams : h # g => pc'[h] = pc[h] /\ ended'[h] = ended[h]
  BY <1>1, <1>2 DEF Finish, Goto
<1>5. \A h \in Streams : h # g => target'[h] = target[h]
  BY <1>1, <1>2 DEF CloseTarget
<1>6. Own(g)
  BY <1>1, <1>3, <1>4, <1>5 DEF Own, SameStream, clientVars
<1> QED
  BY <1>1, <1>2, <1>4, <1>6, OwnFinal DEF Deciding


-----------------------------------------------------------------------------
(* Relays. *)

LEMMA OpenNextFinal ==
    ASSUME Requested, Decided, NEW g \in Streams, OpenNext(g)
    PROVE  Decided'
<1> DEFINE n == NextHop(g)
<1>1. /\ pc[g] = "openNext" /\ pc' = [pc EXCEPT ![g] = "waitNext", ![n] = "read"]
      /\ UNCHANGED <<clientVars, down, dead, target, ended, verdict>>
  BY DEF OpenNext
<1>2. Busy(g) /\ g[2] < Len(Hops(g)) /\ ClientTypes /\ DOMAIN pc = Streams /\ pc[g] \in Deciding
  BY <1>1, BusyPlaces DEF Requested, Types, HandlerTypes, Served, Deciding
<1>3. /\ n \in Streams /\ n # g /\ n = <<g[1], g[2] + 1>> /\ n[1] = g[1] /\ n[2] = g[2] + 1
      /\ g[2] \in Nat \ {0} /\ g = <<g[1], g[2]>>
  BY <1>2, NextStream, StreamIndex, StreamPair DEF NextHop
<1> HIDE DEF n
<1>4. pc[n] = "none" /\ down[n] = <<>>
  <2>1. n[2] > g[2]
    BY <1>3
  <2>2. pc[n] = "none"
    BY <1>2, <1>3, <2>1, Alone
  <2> QED
    BY <1>3, <2>2 DEF Requested, Opened
<1>5. /\ pc'[g] = "waitNext" /\ pc'[n] = "read"
      /\ \A h \in Streams : h # g /\ h # n => pc'[h] = pc[h]
  BY <1>1, <1>2, <1>3
<1>6. \A h \in Streams : Unended(h)'
  <2>1. \A h \in Streams : pc'[h] \notin Proxying => pc[h] \notin Proxying /\ ended'[h] = ended[h]
    BY <1>1, <1>4, <1>5 DEF Proxying
  <2> QED
    BY <2>1, UnendedKept
<1>7. Within(g[1])
  BY <1>1, <1>3, <1>5 DEF Within, SameStream, clientVars
<1>8. ASSUME Intact(g[1])'
      PROVE  Awaits(g[1])' /\ Passing(g[1], n[2])' /\ down'[n] \in Seq(OKs)
  <2>1. Intact(g[1])
    BY <1>1, <1>8 DEF Intact
  <2>2. Awaits(g[1]) /\ Passing(g[1], g[2]) /\ down[g] \in Seq(OKs)
    BY <1>2, <2>1 DEF Decided, Undecided
  <2>3. ended[g] = {}
    BY <1>1 DEF Decided, Unended
  <2>4. ASSUME NEW i \in 1..(n[2] - 1)
        PROVE  /\ pc'[<<g[1], i>>] \in Relaying /\ "down" \notin ended'[<<g[1], i>>]
               /\ down'[<<g[1], i>>] \in Seq(OKs)
    <3>1. i \in 1..g[2] /\ (i = g[2] \/ i \in 1..(g[2] - 1))
      BY <1>3
    <3>2. CASE i = g[2]
      BY <3>2, <1>1, <1>3, <1>5, <2>2, <2>3 DEF Relaying
    <3>3. CASE i \in 1..(g[2] - 1)
      <4>1. /\ pc[<<g[1], i>>] \in Relaying /\ "down" \notin ended[<<g[1], i>>]
            /\ down[<<g[1], i>>] \in Seq(OKs)
        BY <2>2, <3>3 DEF Passing
      <4>2. <<g[1], i>> \in Streams /\ i # g[2] /\ i # n[2]
        BY <1>3, <3>1, <3>3, StreamIndex
      <4>3. <<g[1], i>> # g /\ <<g[1], i>> # n
        BY <1>3, <4>2
      <4>4. pc'[<<g[1], i>>] = pc[<<g[1], i>>]
        BY <1>5, <4>2, <4>3
      <4> QED
        BY <1>1, <4>1, <4>4
    <3> QED
      BY <3>1, <3>2, <3>3
  <2>5. Awaits(g[1])'
    BY <1>1, <2>2 DEF Awaits, clientVars
  <2>6. down'[n] \in Seq(OKs)
    BY <1>1, <1>4, Nothing
  <2> QED
    BY <2>4, <2>5, <2>6 DEF Passing
<1>9. ASSUME NEW h \in Streams PROVE Undecided(h)' /\ Denied(h)'
  <2>1. CASE h[1] # g[1]
    BY <1>7, <2>1, OthersKept
  <2>2. CASE h[1] = g[1]
    <3>1. verdict[h] \notin Denials /\ (h # g => pc[h] \notin Deciding)
      BY <1>2, <2>2, Alone
    <3>2. Denied(h)'
      BY <1>1, <3>1 DEF Denied
    <3>3. CASE h = n
      BY <1>3, <1>8, <3>2, <3>3 DEF Undecided
    <3>4. CASE h # n
      <4>1. pc'[h] \notin Deciding
        BY <1>5, <3>1, <3>4 DEF Deciding
      <4> QED
        BY <3>2, <4>1 DEF Undecided
    <3> QED
      BY <3>3, <3>4
  <2> QED
    BY <2>1, <2>2
<1> QED
  BY <1>6, <1>9 DEF Decided


\* A relay's step: it changes its own place, and the frames to the client on
\* its two streams.
Relays(g) ==
    /\ pc[g] \in Relaying /\ UNCHANGED <<clientVars, target>> /\ dead \subseteq dead'
    /\ pc'[g] \in Relaying \cup {"end"} /\ verdict'[g] \notin Denials
    /\ \A h \in Streams : h # g =>
         pc'[h] = pc[h] /\ ended'[h] = ended[h] /\ verdict'[h] = verdict[h]
    /\ \A h \in Streams : h # g /\ h # NextHop(g) => down'[h] = down[h]

\* What becomes of a frame to the client: an OK is passed on and the relay goes
\* on, a denial is passed on, and so is an end once the relay copies. The step
\* may also concern the other direction.
Forwards(g) ==
    LET n == NextHop(g)
        f == Head(down[n])
    IN  \/ /\ down'[g] = down[g] /\ down'[n] = down[n]
           /\ "down" \notin ended[g] => pc'[g] \in Relaying /\ "down" \notin ended'[g]
           /\ pc[g] = "relay" => pc'[g] \in {"relay", "end"}
        \/ /\ down[n] # <<>>
           /\ f = Response("OK") =>
                /\ down'[n] = Tail(down[n]) /\ down'[g] = down[g] \o <<f>>
                /\ pc'[g] \in Relaying /\ ended'[g] = ended[g]
           /\ Denial(f) =>
                /\ down'[n] = Tail(down[n])
                /\ down'[g] = down[g] \o <<f>> \/ down'[g] = down[g] \o <<f, Fin>>
                /\ pc'[g] \in {"relay", "end"}
           /\ f = Fin /\ pc[g] = "relay" =>
                /\ down'[n] = Tail(down[n]) /\ down'[g] = down[g] \o <<Fin>>
                /\ pc'[g] \in {"relay", "end"}

LEMMA RelayIndex ==
    ASSUME Requested, NEW g \in Streams, pc[g] \in Relaying
    PROVE  /\ NextHop(g) \in Streams /\ NextHop(g) # g /\ NextHop(g) = <<g[1], g[2] + 1>>
           /\ NextHop(g)[1] = g[1] /\ NextHop(g)[2] = g[2] + 1
           /\ g[2] \in Nat \ {0} /\ MaxHops \in Nat /\ g = <<g[1], g[2]>> /\ g[1] \in Attempts
           /\ g[2] \in 1..MaxHops /\ pc[g] # "none" /\ pc[g] # "end" /\ pc[g] \notin Deciding
<1>1. pc[g] # "none" /\ pc[g] # "end" /\ pc[g] \notin Deciding
  BY DEF Relaying, Deciding
<1>2. ClientTypes /\ g[2] < Len(Hops(g))
  BY DEF Requested, Types, Served
<1> QED
  BY <1>1, <1>2, NextStream, StreamIndex, StreamPair DEF NextHop

\* The hops before p after the relay's step.
LEMMA PassingRelayed ==
    ASSUME Requested, NEW g \in Streams, Relays(g), NEW p \in 1..MaxHops, Passing(g[1], p),
           g[2] < p => /\ pc'[g] \in Relaying /\ "down" \notin ended'[g]
                       /\ down'[g] \in Seq(OKs),
           g[2] + 1 < p => down'[NextHop(g)] \in Seq(OKs)
    PROVE  Passing(g[1], p)'
<1> DEFINE n == NextHop(g)
<1>1. /\ n \in Streams /\ n # g /\ n = <<g[1], g[2] + 1>>
      /\ g[2] \in Nat \ {0} /\ MaxHops \in Nat /\ g = <<g[1], g[2]>> /\ g[1] \in Attempts
  BY RelayIndex DEF Relays
<1>2. \A h \in Streams : h # g =>
        /\ pc'[h] = pc[h] /\ ended'[h] = ended[h] /\ (h # n => down'[h] = down[h])
  BY DEF Relays
<1>3. g[2] + 1 < p => down'[n] \in Seq(OKs)
  OBVIOUS
<1> HIDE DEF n
<1>4. ASSUME NEW i \in 1..(p - 1)
      PROVE  /\ pc'[<<g[1], i>>] \in Relaying /\ "down" \notin ended'[<<g[1], i>>]
             /\ down'[<<g[1], i>>] \in Seq(OKs)
  <2>1. i \in 1..MaxHops /\ i < p
    BY <1>1
  <2>2. /\ pc[<<g[1], i>>] \in Relaying /\ "down" \notin ended[<<g[1], i>>]
        /\ down[<<g[1], i>>] \in Seq(OKs)
    BY DEF Passing
  <2>3. <<g[1], i>> \in Streams
    BY <1>1, <2>1, StreamPair
  <2>4. CASE i = g[2]
    BY <1>1, <2>1, <2>4
  <2>5. CASE i = g[2] + 1
    BY <1>1, <1>2, <1>3, <2>1, <2>2, <2>5
  <2>6. CASE i # g[2] /\ i # g[2] + 1
    <3>1. <<g[1], i>> # g /\ <<g[1], i>> # n
      BY <1>1, <2>6
    <3> QED
      BY <1>2, <2>2, <2>3, <3>1
  <2> QED
    BY <2>4, <2>5, <2>6
<1> QED
  BY <1>4 DEF Passing

\* Where nothing but an OK is before and behind the relay, it passes that on.
LEMMA RelayedOK ==
    ASSUME NEW g, "down" \notin ended[g], down[g] \in Seq(OKs),
           down[NextHop(g)] \in Seq(OKs), pc[g] \in Relaying, Forwards(g)
    PROVE  /\ pc'[g] \in Relaying /\ "down" \notin ended'[g]
           /\ down'[g] \in Seq(OKs) /\ down'[NextHop(g)] \in Seq(OKs)
<1> DEFINE n == NextHop(g)
           f == Head(down[n])
<1>1. down[n] # <<>> => f = Response("OK") /\ Tail(down[n]) \in Seq(OKs)
  BY HeadTail DEF OKs
<1>2. \/ /\ down'[g] = down[g] /\ down'[n] = down[n]
         /\ "down" \notin ended[g] => pc'[g] \in Relaying /\ "down" \notin ended'[g]
      \/ /\ down[n] # <<>>
         /\ f = Response("OK") =>
              /\ down'[n] = Tail(down[n]) /\ down'[g] = down[g] \o <<f>>
              /\ pc'[g] \in Relaying /\ ended'[g] = ended[g]
  BY DEF Forwards
<1>3. down[g] \o <<Response("OK")>> \in Seq(OKs)
  BY PushOne DEF OKs
<1> HIDE DEF n, f
<1>4. down[n] \in Seq(OKs)
  BY DEF n
<1> QED
  BY <1>1, <1>2, <1>3, <1>4 DEF n

LEMMA RelayUndecided ==
    ASSUME Requested, Decided, NEW g \in Streams, Relays(g), Intact(g[1])' => Forwards(g),
           NEW h \in Streams, h[1] = g[1]
    PROVE  Undecided(h)'
<1> SUFFICES ASSUME pc'[h] \in Deciding, Intact(h[1])'
             PROVE  Awaits(h[1])' /\ Passing(h[1], h[2])' /\ down'[h] \in Seq(OKs)
  BY DEF Undecided
<1> DEFINE n == NextHop(g)
<1>1. /\ n \in Streams /\ n # g /\ n = <<g[1], g[2] + 1>>
      /\ g[2] \in Nat \ {0} /\ MaxHops \in Nat /\ g = <<g[1], g[2]>> /\ g[1] \in Attempts
      /\ pc[g] # "none" /\ pc[g] \in Relaying
  BY RelayIndex DEF Relays
<1>2. h = <<g[1], h[2]>> /\ h[2] \in Nat \ {0} /\ h[2] \in 1..MaxHops
  BY StreamPair, StreamIndex
<1>3. h # g /\ pc[h] \in Deciding
  BY DEF Relays, Relaying, Deciding
<1>4. Intact(h[1]) /\ Forwards(g)
  BY IntactBefore DEF Relays
<1>5. Awaits(g[1]) /\ Passing(g[1], h[2]) /\ down[h] \in Seq(OKs)
  BY <1>3, <1>4 DEF Decided, Undecided
<1>6. g[2] < h[2]
  <2>1. ASSUME h[2] < g[2] PROVE FALSE
    <3>1. h[2] \in 1..(g[2] - 1)
      BY <1>1, <1>2, <2>1
    <3>2. pc[h] \in Relaying \cup {"end"}
      BY <1>1, <1>2, <3>1 DEF Requested, Opened
    <3> QED
      BY <1>3, <3>2 DEF Deciding, Relaying
  <2> QED
    BY <1>1, <1>2, <1>3, <2>1
<1>7. "down" \notin ended[g] /\ down[g] \in Seq(OKs)
  <2>1. g[2] \in 1..(h[2] - 1)
    BY <1>1, <1>2, <1>6
  <2> QED
    BY <1>1, <1>5, <2>1 DEF Passing
<1>8. down[n] \in Seq(OKs)
  <2>1. CASE h[2] = g[2] + 1
    BY <1>1, <1>2, <1>5, <2>1
  <2>2. CASE h[2] # g[2] + 1
    <3>1. g[2] + 1 \in 1..(h[2] - 1)
      BY <1>1, <1>2, <1>6, <2>2
    <3> QED
      BY <1>1, <1>5, <3>1 DEF Passing
  <2> QED
    BY <2>1, <2>2
<1>9. /\ pc'[g] \in Relaying /\ "down" \notin ended'[g]
      /\ down'[g] \in Seq(OKs) /\ down'[n] \in Seq(OKs)
  BY <1>1, <1>4, <1>7, <1>8, RelayedOK
<1>10. Passing(g[1], h[2])'
  BY <1>2, <1>5, <1>9, PassingRelayed
<1>11. Awaits(g[1])'
  BY <1>5 DEF Awaits, Relays, clientVars
<1>12. down'[h] \in Seq(OKs)
  BY <1>3, <1>5, <1>9 DEF Relays
<1> QED
  BY <1>10, <1>11, <1>12


\* The denial of hop h after the step of a relay before it.
LEMMA RelayTravels ==
    ASSUME Requested, NEW g \in Streams, Relays(g), Forwards(g),
           NEW h \in Streams, h[1] = g[1], g[2] < h[2],
           NEW p \in 1..h[2], Travels(h, p)
    PROVE  \E k \in 1..h[2] : Travels(h, k)'
<1> DEFINE n == NextHop(g)
           f == Head(down[n])
           a == g[1]
<1>1. /\ n \in Streams /\ n # g /\ n = <<a, g[2] + 1>>
      /\ g[2] \in Nat \ {0} /\ MaxHops \in Nat /\ g = <<a, g[2]>> /\ a \in Attempts
      /\ pc[g] \in Relaying
  BY RelayIndex DEF Relays
<1>2. /\ h = <<a, h[2]>> /\ h[2] \in Nat \ {0} /\ h[2] \in 1..MaxHops
      /\ p \in Nat \ {0} /\ p \in 1..MaxHops /\ p <= h[2]
  BY StreamPair, StreamIndex
<1>3. /\ Passing(a, p) /\ Denying(down[<<a, p>>])
      /\ \A i \in p..h[2] : pc[<<a, i>>] \in {"relay", "end"}
      /\ \A i \in (p + 1)..h[2] : down[<<a, i>>] \in Seq(Fins)
  BY DEF Travels
<1>4. ASSUME NEW i \in 1..h[2]
      PROVE  /\ <<a, i>> \in Streams
             /\ i # g[2] => pc'[<<a, i>>] = pc[<<a, i>>]
             /\ i # g[2] /\ i # g[2] + 1 => down'[<<a, i>>] = down[<<a, i>>]
  <2>1. <<a, i>> \in Streams
    BY <1>1, <1>2, StreamPair
  <2>2. (i # g[2] => <<a, i>> # g) /\ (i # g[2] + 1 => <<a, i>> # n)
    BY <1>1
  <2> QED
    BY <2>1, <2>2 DEF Relays
<1>5. PICK S : down[n] \in Seq(S)
  BY <1>1 DEF Requested, DownQueued
<1>6. PICK T : down[g] \in Seq(T)
  BY DEF Requested, DownQueued
<1>7. \/ /\ down'[g] = down[g] /\ down'[n] = down[n]
         /\ "down" \notin ended[g] => pc'[g] \in Relaying /\ "down" \notin ended'[g]
         /\ pc[g] = "relay" => pc'[g] \in {"relay", "end"}
      \/ /\ down[n] # <<>>
         /\ f = Response("OK") =>
              /\ down'[n] = Tail(down[n]) /\ down'[g] = down[g] \o <<f>>
              /\ pc'[g] \in Relaying /\ ended'[g] = ended[g]
         /\ Denial(f) =>
              /\ down'[n] = Tail(down[n])
              /\ down'[g] = down[g] \o <<f>> \/ down'[g] = down[g] \o <<f, Fin>>
              /\ pc'[g] \in {"relay", "end"}
         /\ f = Fin /\ pc[g] = "relay" =>
              /\ down'[n] = Tail(down[n]) /\ down'[g] = down[g] \o <<Fin>>
              /\ pc'[g] \in {"relay", "end"}
  BY DEF Forwards
<1>8. h[1] = a /\ n = NextHop(g)
  OBVIOUS
<1> HIDE DEF n, f, a
<1>9. ASSUME g[2] < p
      PROVE  "down" \notin ended[g] /\ down[g] \in Seq(OKs)
  <2>1. g[2] \in 1..(p - 1)
    BY <1>1, <1>2, <1>9
  <2> QED
    BY <1>1, <1>3, <2>1 DEF Passing
<1>10. ASSUME g[2] < p PROVE \A i \in p..h[2] : pc'[<<a, i>>] \in {"relay", "end"}
  <2>1. \A i \in p..h[2] : i \in 1..h[2] /\ i # g[2]
    BY <1>1, <1>2, <1>10
  <2> QED
    BY <1>3, <1>4, <2>1
<1>11. ASSUME g[2] < p PROVE \A i \in (p + 1)..h[2] : down'[<<a, i>>] \in Seq(Fins)
  <2>1. \A i \in (p + 1)..h[2] : i \in 1..h[2] /\ i # g[2] /\ i # g[2] + 1
    BY <1>1, <1>2, <1>11
  <2> QED
    BY <1>3, <1>4, <2>1
<1>12. CASE g[2] + 1 < p
  <2>1. g[2] < p /\ g[2] + 1 \in 1..(p - 1)
    BY <1>1, <1>2, <1>12
  <2>2. down[n] \in Seq(OKs)
    BY <1>1, <1>3, <2>1 DEF Passing
  <2>3. /\ pc'[g] \in Relaying /\ "down" \notin ended'[g]
        /\ down'[g] \in Seq(OKs) /\ down'[n] \in Seq(OKs)
    BY <1>1, <1>8, <1>9, <2>1, <2>2, RelayedOK
  <2>4. Passing(a, p)'
    BY <1>2, <1>3, <1>8, <2>3, PassingRelayed DEF a
  <2>5. p # g[2] /\ p # g[2] + 1
    BY <1>1, <1>2, <1>12
  <2>6. Denying(down'[<<a, p>>])
    BY <1>3, <1>4, <2>5
  <2> QED
    BY <1>8, <1>10, <1>11, <2>1, <2>4, <2>6 DEF Travels
<1>13. CASE g[2] + 1 = p
  <2>1. g[2] < p /\ <<a, p>> = n /\ ~(g[2] + 1 < p)
    BY <1>1, <1>2, <1>13
  <2>2. /\ down[n] # <<>>
        /\ \/ f = Response("OK") /\ Denying(Tail(down[n]))
           \/ Denial(f) /\ Tail(down[n]) \in Seq(Fins)
    <3>1. Denying(down[n])
      BY <1>3, <2>1
    <3> QED
      BY <1>5, <3>1, DenyingRead DEF f
  <2>3. CASE Denying(down'[n]) /\ pc'[g] \in Relaying /\ "down" \notin ended'[g]
             /\ down'[g] \in Seq(OKs)
    <3>1. Passing(a, p)'
      BY <1>2, <1>3, <2>1, <2>3, PassingRelayed DEF a
    <3> QED
      BY <1>8, <1>10, <1>11, <2>1, <2>3, <3>1 DEF Travels
  <2>4. CASE f = Response("OK") /\ Denying(Tail(down[n]))
    <3>1. ~Denial(f) /\ f # Fin
      BY <2>4, FrameKinds
    <3>2. down[g] \o <<f>> \in Seq(OKs)
      BY <1>9, <2>1, <2>4, PushOne DEF OKs
    <3>3. Denying(down[n])
      BY <1>3, <2>1
    <3> QED
      BY <1>7, <1>9, <2>1, <2>3, <2>4, <3>2, <3>3
  <2>5. CASE Denial(f) /\ Tail(down[n]) \in Seq(Fins)
    <3>1. CASE /\ down'[g] = down[g] /\ down'[n] = down[n]
               /\ "down" \notin ended[g] => pc'[g] \in Relaying /\ "down" \notin ended'[g]
      BY <1>3, <1>9, <2>1, <2>3, <3>1
    <3>2. CASE /\ down'[n] = Tail(down[n])
               /\ down'[g] = down[g] \o <<f>> \/ down'[g] = down[g] \o <<f, Fin>>
               /\ pc'[g] \in {"relay", "end"}
      <4>1. Denying(down'[g])
        BY <1>9, <2>1, <2>5, <3>2, DenyingWritten
      <4>2. Passing(a, g[2])
        <5>1. \A i \in 1..(g[2] - 1) : i \in 1..(p - 1)
          BY <1>1, <1>2, <2>1
        <5> QED
          BY <1>3, <5>1 DEF Passing
      <4>3. g[2] \in 1..MaxHops /\ g[2] \in 1..h[2] /\ ~(g[2] < g[2]) /\ ~(g[2] + 1 < g[2])
        BY <1>1, <1>2, <2>1
      <4>4. Passing(a, g[2])'
        BY <4>2, <4>3, PassingRelayed DEF a
      <4>5. \A i \in g[2]..h[2] : pc'[<<a, i>>] \in {"relay", "end"}
        <5>1. \A i \in g[2]..h[2] : i = g[2] \/ i \in p..h[2]
          BY <1>1, <1>2, <1>13
        <5> QED
          BY <1>1, <1>10, <2>1, <3>2, <5>1
      <4>6. \A i \in (g[2] + 1)..h[2] : down'[<<a, i>>] \in Seq(Fins)
        <5>1. \A i \in (g[2] + 1)..h[2] : i = p \/ i \in (p + 1)..h[2]
          BY <1>1, <1>2, <1>13
        <5> QED
          BY <1>11, <2>1, <2>5, <3>2, <5>1
      <4> QED
        BY <1>1, <1>8, <4>1, <4>3, <4>4, <4>5, <4>6 DEF Travels
    <3>3. f # Response("OK")
      BY <2>5, FrameKinds
    <3> QED
      BY <1>7, <2>5, <3>1, <3>2
  <2> QED
    BY <2>2, <2>4, <2>5
<1>14. CASE g[2] >= p
  <2>1. /\ g[2] \in p..h[2] /\ g[2] + 1 \in (p + 1)..h[2] /\ ~(g[2] < p) /\ ~(g[2] + 1 < p)
        /\ p # g[2] + 1
    BY <1>1, <1>2, <1>14
  <2>2. pc[g] = "relay" /\ down[n] \in Seq(Fins)
    BY <1>1, <1>3, <2>1 DEF Relaying
  <2>3. down[n] # <<>> => f = Fin /\ Tail(down[n]) \in Seq(Fins)
    BY <2>2, HeadTail DEF f, Fins
  <2>4. Passing(a, p)'
    BY <1>2, <1>3, <2>1, PassingRelayed DEF a
  <2>5. /\ pc'[g] \in {"relay", "end"} /\ down'[n] \in Seq(Fins)
        /\ down'[g] = down[g] \/ down'[g] = down[g] \o <<Fin>>
    BY <1>7, <2>2, <2>3
  <2>6. Denying(down'[<<a, p>>])
    <3>1. CASE p = g[2]
      <4>1. Denying(down[g])
        BY <1>1, <1>3, <3>1
      <4>2. Denying(down[g] \o <<Fin>>)
        BY <1>6, <4>1, DenyingEnded
      <4> QED
        BY <1>1, <2>5, <3>1, <4>1, <4>2
    <3>2. CASE p # g[2]
      BY <1>3, <1>4, <2>1, <3>2
    <3> QED
      BY <3>1, <3>2
  <2>7. \A i \in p..h[2] : pc'[<<a, i>>] \in {"relay", "end"}
    <3>1. \A i \in p..h[2] : i \in 1..h[2]
      BY <1>2
    <3> QED
      BY <1>1, <1>3, <1>4, <2>5, <3>1
  <2>8. ASSUME NEW i \in (p + 1)..h[2] PROVE down'[<<a, i>>] \in Seq(Fins)
    <3>1. i \in 1..h[2] /\ down[<<a, i>>] \in Seq(Fins)
      BY <1>2, <1>3
    <3>2. CASE i = g[2]
      <4>1. down[g] \in Seq(Fins)
        BY <1>1, <3>1, <3>2
      <4>2. down[g] \o <<Fin>> \in Seq(Fins)
        BY <4>1, PushOne DEF Fins
      <4> QED
        BY <1>1, <2>5, <3>2, <4>1, <4>2
    <3>3. CASE i = g[2] + 1
      BY <1>1, <2>5, <3>3
    <3>4. CASE i # g[2] /\ i # g[2] + 1
      BY <1>4, <3>1, <3>4
    <3> QED
      BY <3>2, <3>3, <3>4
  <2> QED
    BY <1>8, <2>4, <2>6, <2>7, <2>8 DEF Travels
<1> QED
  BY <1>1, <1>2, <1>12, <1>13, <1>14

LEMMA RelayDenied ==
    ASSUME Requested, Decided, NEW g \in Streams, Relays(g), Intact(g[1])' => Forwards(g),
           NEW h \in Streams, h[1] = g[1]
    PROVE  Denied(h)'
<1> SUFFICES ASSUME verdict'[h] \in Denials PROVE Denied(h)'
  BY DEF Denied
<1>1. /\ g[2] \in Nat \ {0} /\ MaxHops \in Nat /\ g = <<g[1], g[2]>> /\ g[1] \in Attempts
      /\ pc[g] # "none" /\ pc[g] \in Relaying /\ g[2] \in 1..MaxHops
  BY RelayIndex DEF Relays
<1>2. h = <<g[1], h[2]>> /\ h[2] \in Nat \ {0}
  BY StreamPair, StreamIndex
<1>3. h # g /\ verdict[h] \in Denials
  BY DEF Relays
<1>4. /\ pc[h] = "end" /\ target[h] = "none"
      /\ \A i \in (h[2] + 1)..MaxHops : pc[<<h[1], i>>] = "none"
  BY <1>3 DEF Decided, Denied
<1>5. pc'[h] = "end" /\ target'[h] = "none"
  BY <1>3, <1>4 DEF Relays
<1>6. g[2] \notin (h[2] + 1)..MaxHops
  BY <1>1, <1>4
<1>7. g[2] < h[2]
  BY <1>1, <1>2, <1>3, <1>6
<1>8. ASSUME NEW i \in (h[2] + 1)..MaxHops PROVE pc'[<<h[1], i>>] = "none"
  <2>1. i # g[2] /\ i \in 1..MaxHops
    BY <1>2, <1>6
  <2>2. <<h[1], i>> \in Streams /\ <<h[1], i>> # g
    BY <1>1, <2>1, StreamPair
  <2> QED
    BY <1>4, <2>2 DEF Relays
<1>9. ASSUME Intact(h[1])'
      PROVE  \/ att' = h[1] /\ client' = "closed"
             \/ Awaits(h[1])' /\ \E p \in 1..h[2] : Travels(h, p)'
  <2>1. Intact(h[1]) /\ Forwards(g)
    BY <1>9, IntactBefore DEF Relays
  <2>2. \/ att = h[1] /\ client = "closed"
        \/ Awaits(h[1]) /\ \E p \in 1..h[2] : Travels(h, p)
    BY <1>3, <2>1 DEF Decided, Denied
  <2>3. att' = att /\ client' = client
    BY DEF Relays, clientVars
  <2>4. (\E p \in 1..h[2] : Travels(h, p)) => (\E p \in 1..h[2] : Travels(h, p)')
    BY <1>7, <2>1, RelayTravels
  <2> QED
    BY <2>2, <2>3, <2>4 DEF Awaits
<1> QED
  BY <1>5, <1>8, <1>9 DEF Denied

LEMMA RelayFinal ==
    ASSUME Requested, Decided, NEW g \in Streams, Relays(g), Intact(g[1])' => Forwards(g),
           pc[g] = "relay" => pc'[g] \in {"relay", "end"},
           pc[g] = "waitNext" => ended'[g] = ended[g]
    PROVE  Decided'
<1>1. ASSUME NEW h \in Streams, pc'[h] \notin Proxying
      PROVE  pc[h] \notin Proxying /\ ended'[h] = ended[h]
  <2>1. CASE h = g
    BY <1>1, <2>1 DEF Relays, Relaying, Proxying
  <2>2. CASE h # g
    BY <1>1, <2>2 DEF Relays
  <2> QED
    BY <2>1, <2>2
<1>2. \A h \in Streams : Unended(h)'
  BY <1>1, UnendedKept
<1>3. Within(g[1])
  <2>1. NextHop(g)[1] = g[1]
    BY RelayIndex DEF Relays
  <2> QED
    BY <2>1 DEF Relays, Within, SameStream, clientVars
<1>4. ASSUME NEW h \in Streams PROVE Undecided(h)' /\ Denied(h)'
  <2>1. CASE h[1] # g[1]
    BY <1>3, <2>1, OthersKept
  <2>2. CASE h[1] = g[1]
    BY <2>2, RelayUndecided, RelayDenied
  <2> QED
    BY <2>1, <2>2
<1> QED
  BY <1>2, <1>4 DEF Decided


LEMMA FrameMoved ==
    ASSUME Requested, NEW g \in Streams, NEW n \in Streams, n # g,
           NEW s, down' = Push(Pop(down, n), g, s)
    PROVE  /\ down'[n] = Tail(down[n]) /\ down'[g] = down[g] \o s
           /\ \A h \in Streams : h # g /\ h # n => down'[h] = down[h]
<1>1. PerStream(down)
  BY DEF Requested, Types, LinkTypes
<1> DEFINE q == Pop(down, n)
<1>2. /\ PerStream(q) /\ q[n] = Tail(down[n])
      /\ \A h \in Streams : h # n => q[h] = down[h]
  BY <1>1, Popped
<1> HIDE DEF q
<1>0. g \in Streams
  OBVIOUS
<1>3. \A r : PerStream(r) => \A t :
        /\ PerStream(Push(r, g, t)) /\ Push(r, g, t)[g] = r[g] \o t
        /\ \A h \in Streams : h # g => Push(r, g, t)[h] = r[h]
  BY ONLY <1>0, Pushed
<1>4. down' = Push(q, g, s)
  BY DEF q
<1>5. down'[g] = q[g] \o s /\ \A h \in Streams : h # g => down'[h] = q[h]
  BY ONLY <1>2, <1>3, <1>4, Zenon
<1> QED
  BY <1>2, <1>5

LEMMA NotDenied ==
    ASSUME Decided, NEW g \in Streams, pc[g] # "end" PROVE verdict[g] \notin Denials
BY DEF Decided, Denied

LEMMA RelayUpFinal ==
    ASSUME Requested, Decided, NEW g \in Streams, RelayUp(g)
    PROVE  Decided'
<1>1. /\ pc[g] = "relay"
      /\ Finish(g, "up") \/ UNCHANGED <<ended, pc>>
      /\ UNCHANGED <<clientVars, down, dead, target, verdict>>
  BY DEF RelayUp
<1>2. DOMAIN pc = Streams /\ DOMAIN ended = Streams
  BY DEF Requested, Types, HandlerTypes
<1>3. /\ pc'[g] \in {"relay", "end"}
      /\ "down" \notin ended[g] => pc'[g] = "relay" /\ "down" \notin ended'[g]
      /\ \A h \in Streams : h # g => pc'[h] = pc[h] /\ ended'[h] = ended[h]
  BY <1>1, <1>2 DEF Finish, Goto
<1>4. verdict[g] \notin Denials
  BY <1>1, NotDenied
<1>5. Relays(g)
  BY <1>1, <1>3, <1>4 DEF Relays, Relaying, clientVars
<1>6. Forwards(g)
  BY <1>1, <1>3 DEF Forwards, Relaying
<1> QED
  BY <1>1, <1>3, <1>5, <1>6, RelayFinal

LEMMA RelayDownFinal ==
    ASSUME Requested, Decided, NEW g \in Streams, RelayDown(g)
    PROVE  Decided'
<1> DEFINE n == NextHop(g)
           f == Head(down[n])
<1>1. /\ pc[g] = "relay" /\ down[n] # <<>> /\ down' = Push(Pop(down, n), g, <<f>>)
      /\ IF f.type = "fin" THEN Finish(g, "down") ELSE UNCHANGED <<ended, pc>>
      /\ UNCHANGED <<clientVars, dead, target, verdict>>
  BY DEF RelayDown, Is
<1>2. /\ DOMAIN pc = Streams /\ DOMAIN ended = Streams /\ n \in Streams /\ n # g
      /\ pc[g] \in Relaying
  BY <1>1, RelayIndex DEF Requested, Types, HandlerTypes, Relaying
<1>3. /\ down'[n] = Tail(down[n]) /\ down'[g] = down[g] \o <<f>>
      /\ \A h \in Streams : h # g /\ h # n => down'[h] = down[h]
  BY <1>1, <1>2, FrameMoved
<1>4. /\ pc'[g] \in {"relay", "end"}
      /\ f.type # "fin" => pc'[g] = "relay" /\ ended'[g] = ended[g]
      /\ \A h \in Streams : h # g => pc'[h] = pc[h] /\ ended'[h] = ended[h]
  <2> HIDE DEF f
  <2> QED
    BY <1>1, <1>2 DEF Finish, Goto
<1>5. verdict[g] \notin Denials
  BY <1>1, NotDenied
<1>6. Relays(g)
  BY <1>1, <1>2, <1>3, <1>4, <1>5 DEF Relays, Relaying, clientVars
<1>7. /\ f = Response("OK") => f.type # "fin"
      /\ pc[g] = "relay" /\ "relay" \in Relaying
  BY <1>1, FrameKinds DEF Relaying
<1>8. Forwards(g)
  <2> HIDE DEF f
  <2>1. /\ down[n] # <<>>
        /\ f = Response("OK") =>
             /\ down'[n] = Tail(down[n]) /\ down'[g] = down[g] \o <<f>>
             /\ pc'[g] \in Relaying /\ ended'[g] = ended[g]
        /\ Denial(f) =>
             /\ down'[n] = Tail(down[n])
             /\ down'[g] = down[g] \o <<f>> \/ down'[g] = down[g] \o <<f, Fin>>
             /\ pc'[g] \in {"relay", "end"}
        /\ f = Fin /\ pc[g] = "relay" =>
             /\ down'[n] = Tail(down[n]) /\ down'[g] = down[g] \o <<Fin>>
             /\ pc'[g] \in {"relay", "end"}
    BY <1>1, <1>3, <1>4, <1>7
  <2> QED
    BY <2>1 DEF Forwards, f
<1> QED
  BY <1>1, <1>4, <1>6, <1>8, RelayFinal

LEMMA RelayAbortFinal ==
    ASSUME Requested, Decided, NEW g \in Streams, RelayAbort(g)
    PROVE  Decided'
<1>1. /\ pc[g] = "relay" /\ dead' = dead \cup {g, NextHop(g)} /\ Goto(g, "end")
      /\ UNCHANGED <<clientVars, down, target, ended, verdict>>
  BY DEF RelayAbort
<1>2. DOMAIN pc = Streams
  BY DEF Requested, Types, HandlerTypes
<1>3. pc'[g] = "end" /\ \A h \in Streams : h # g => pc'[h] = pc[h]
  BY <1>1, <1>2 DEF Goto
<1>4. verdict[g] \notin Denials
  BY <1>1, NotDenied
<1>5. Relays(g)
  BY <1>1, <1>3, <1>4 DEF Relays, Relaying, clientVars
<1>6. ~Intact(g[1])'
  BY <1>1, StreamPair DEF Intact
<1> QED
  BY <1>1, <1>3, <1>5, <1>6, RelayFinal

LEMMA RelayResponseLostFinal ==
    ASSUME Requested, Decided, NEW g \in Streams, RelayResponseLost(g)
    PROVE  Decided'
<1> DEFINE n == NextHop(g)
           f == Head(down[n])
<1>1. /\ pc[g] = "waitNext" /\ Reject(g, Response("NEXT_HOP_UNREACHABLE"))
      /\ n \in dead \/ (down[n] # <<>> /\ f.type = "fin")
      /\ UNCHANGED <<clientVars, dead, target, ended>>
  BY DEF RelayResponseLost, DownEnded, Is
<1>2. "NEXT_HOP_UNREACHABLE" \in Failures /\ "NEXT_HOP_UNREACHABLE" \notin Denials
  BY DEF Failures, Codes, Denials
<1>3. Own(g) /\ pc'[g] = "end" /\ verdict'[g] = "NEXT_HOP_UNREACHABLE"
  BY <1>1, <1>2, RejectOwn
<1>4. /\ n \in Streams /\ n[1] = g[1] /\ n = <<n[1], n[2]>> /\ n[2] \in 1..MaxHops
  BY <1>1, RelayIndex, StreamPair DEF Relaying
<1>5. Relays(g)
  BY <1>1, <1>2, <1>3 DEF Relays, Relaying, Own, SameStream, clientVars
<1>6. ASSUME Intact(g[1])' PROVE Forwards(g)
  <2>1. n \notin dead
    BY <1>1, <1>4, <1>6 DEF Intact
  <2>2. down[n] # <<>> /\ f # Response("OK") /\ ~Denial(f) /\ pc[g] # "relay"
    BY <1>1, <2>1, FrameKinds
  <2> QED
    BY <2>2 DEF Forwards
<1> QED
  BY <1>1, <1>3, <1>5, <1>6, RelayFinal

LEMMA RelayResponseFinal ==
    ASSUME Requested, Decided, NEW g \in Streams, RelayResponse(g)
    PROVE  Decided'
<1> DEFINE n == NextHop(g)
           f == Head(down[n])
<1>1. /\ pc[g] = "waitNext" /\ down[n] # <<>> /\ f.type = "response"
      /\ UNCHANGED <<clientVars, dead, target, ended, verdict>>
      /\ IF g \in dead THEN down' = Pop(down, n) /\ Goto(g, "end")
         ELSE IF f.arg = "OK"
              THEN down' = Push(Pop(down, n), g, <<f>>) /\ Goto(g, "relay")
              ELSE down' = Push(Pop(down, n), g, <<f, Fin>>) /\ Goto(g, "end")
  BY DEF RelayResponse, Is
<1>2. /\ DOMAIN pc = Streams /\ n \in Streams /\ n # g /\ pc[g] \in Relaying
  BY <1>1, RelayIndex DEF Requested, Types, HandlerTypes, Relaying
<1> HIDE DEF n
<1>3. pc'[g] \in {"relay", "end"} /\ \A h \in Streams : h # g => pc'[h] = pc[h]
  <2> HIDE DEF f
  <2> QED
    BY <1>1, <1>2 DEF Goto
<1>4. \A h \in Streams : h # g /\ h # n => down'[h] = down[h]
  <2>1. PerStream(down)
    BY DEF Requested, Types, LinkTypes
  <2>2. CASE g \in dead
    BY <1>1, <1>2, <2>1, <2>2, Popped
  <2>3. CASE g \notin dead
    <3>1. PICK s : down' = Push(Pop(down, n), g, s)
      BY <1>1, <2>3
    <3> QED
      BY <1>2, <3>1, FrameMoved
  <2> QED
    BY <2>2, <2>3
<1>5. verdict[g] \notin Denials
  BY <1>1, NotDenied
<1>6. Relays(g)
  BY <1>1, <1>2, <1>3, <1>4, <1>5 DEF Relays, Relaying, clientVars, n
<1>7. ASSUME Intact(g[1])' PROVE Forwards(g)
  <2>1. g \notin dead
    BY <1>1, <1>7, StreamPair DEF Intact
  <2>2. f # Fin /\ (f = Response("OK") => f.arg = "OK") /\ (Denial(f) => f.arg # "OK")
    BY <1>1, FrameKinds
  <2>3. CASE f.arg = "OK"
    <3>1. down' = Push(Pop(down, n), g, <<f>>) /\ pc'[g] = "relay"
      BY <1>1, <1>2, <2>1, <2>3 DEF Goto
    <3>2. down'[n] = Tail(down[n]) /\ down'[g] = down[g] \o <<f>>
      <4>1. \A s : down' = Push(Pop(down, n), g, s) =>
              down'[n] = Tail(down[n]) /\ down'[g] = down[g] \o s
        BY <1>2, FrameMoved
      <4> HIDE DEF f
      <4> QED
        BY ONLY <3>1, <4>1, Zenon
    <3> HIDE DEF f
    <3>3. /\ down[n] # <<>>
          /\ f = Response("OK") =>
               /\ down'[n] = Tail(down[n]) /\ down'[g] = down[g] \o <<f>>
               /\ pc'[g] \in Relaying /\ ended'[g] = ended[g]
      BY <1>1, <3>1, <3>2 DEF Relaying
    <3> QED
      BY <2>2, <2>3, <3>3 DEF Forwards, f, n
  <2>4. CASE f.arg # "OK"
    <3>1. down' = Push(Pop(down, n), g, <<f, Fin>>) /\ pc'[g] = "end"
      BY <1>1, <1>2, <2>1, <2>4 DEF Goto
    <3>2. down'[n] = Tail(down[n]) /\ down'[g] = down[g] \o <<f, Fin>>
      <4>1. \A s : down' = Push(Pop(down, n), g, s) =>
              down'[n] = Tail(down[n]) /\ down'[g] = down[g] \o s
        BY <1>2, FrameMoved
      <4> HIDE DEF f
      <4> QED
        BY ONLY <3>1, <4>1, Zenon
    <3> QED
      BY <1>1, <2>2, <2>4, <3>1, <3>2 DEF Forwards, n
  <2> QED
    BY <2>3, <2>4
<1> QED
  BY <1>1, <1>3, <1>6, <1>7, RelayFinal


-----------------------------------------------------------------------------
(* The client. *)

\* A step of the client, which changes at most the frames of its attempt.
Hears ==
    /\ UNCHANGED handlerVars /\ dead \subseteq dead'
    /\ \A h \in Streams : h[1] # att => down'[h] = down[h]

LEMMA EarlierKept ==
    ASSUME Decided, Hears, NEW h \in Streams, h[1] # att
    PROVE  Undecided(h)' /\ Denied(h)'
<1>1. Attends(h[1])
  BY DEF Attends
<1>2. \A g \in Streams : g[1] = h[1] => SameStream(g)
  BY DEF Hears, SameStream, handlerVars
<1> QED
  BY <1>1, <1>2, AttemptKept DEF Decided, Hears

LEMMA HearsUnended == ASSUME Decided, Hears PROVE \A h \in Streams : Unended(h)'
BY DEF Decided, Hears, Unended, handlerVars

\* An attempt that is lost, or in which nothing was denied and nothing is open.
LEMMA SettledKept ==
    ASSUME Decided, Hears, NEW h \in Streams,
           Intact(h[1]) => pc[h] \notin Deciding /\ verdict[h] \notin Denials
    PROVE  Undecided(h)' /\ Denied(h)'
<1>1. Intact(h[1])' => Intact(h[1])
  BY IntactBefore DEF Hears
<1>2. pc' = pc /\ verdict' = verdict /\ target' = target
  BY DEF Hears, handlerVars
<1>3. Undecided(h)'
  BY <1>1, <1>2 DEF Undecided
<1>4. Denied(h)'
  BY <1>1, <1>2 DEF Decided, Denied
<1> QED
  BY <1>3, <1>4

\* An attempt whose denial the client has got.
LEMMA ClosedKept ==
    ASSUME Decided, Hears, NEW h \in Streams, h[1] = att, att' = att, client' = "closed",
           Intact(h[1]) => pc[h] \notin Deciding
    PROVE  Undecided(h)' /\ Denied(h)'
<1>1. Intact(h[1])' => Intact(h[1])
  BY IntactBefore DEF Hears
<1>2. pc' = pc /\ verdict' = verdict /\ target' = target
  BY DEF Hears, handlerVars
<1>3. Undecided(h)'
  BY <1>1, <1>2 DEF Undecided
<1>4. Denied(h)'
  BY <1>1, <1>2 DEF Decided, Denied
<1> QED
  BY <1>3, <1>4

\* A client that neither waits nor has closed: before the stream is opened, and
\* while it proxies.
LEMMA ProxyingFinal ==
    ASSUME Decided, Hears, client \in {"open", "proxy", "drain"}
    PROVE  Decided'
<1>1. ASSUME NEW h \in Streams PROVE Undecided(h)' /\ Denied(h)'
  <2>1. CASE h[1] # att
    BY <2>1, EarlierKept
  <2>2. CASE h[1] = att
    <3>1. Intact(h[1]) => pc[h] \notin Deciding /\ verdict[h] \notin Denials
      BY DEF Decided, Undecided, Denied, Awaits
    <3> QED
      BY <3>1, SettledKept
  <2> QED
    BY <2>1, <2>2
<1> QED
  BY <1>1, HearsUnended DEF Decided

\* What a waiting client may read while its request is undecided or denied.
LEMMA FirstFrame ==
    ASSUME Requested, Decided, NEW h \in Streams, h[1] = att, Intact(att), client # "closed",
           pc[h] \in Deciding \/ verdict[h] \in Denials
    PROVE  /\ First \notin dead
           /\ down[First] # <<>> =>
                \/ Head(down[First]) = Response("OK")
                \/ Denial(Head(down[First])) /\ pc[h] \notin Deciding
<1>1. /\ First \in Streams /\ First = <<att, 1>> /\ h[2] \in Nat \ {0} /\ h = <<att, h[2]>>
      /\ att \in Attempts /\ 1 \in 1..MaxHops
  <2>1. First \in Streams /\ att \in Attempts
    BY FirstStream DEF Requested, Types
  <2> QED
    BY <2>1, StreamPair, StreamIndex DEF First
<1>2. First \notin dead
  BY <1>1 DEF Intact
<1>3. ASSUME down[First] \in Seq(OKs), down[First] # <<>>
      PROVE  Head(down[First]) = Response("OK")
  BY <1>3, HeadTail DEF OKs
<1>4. ASSUME NEW p \in Nat \ {0}, p # 1, Passing(att, p) PROVE down[First] \in Seq(OKs)
  <2>1. 1 \in 1..(p - 1)
    BY <1>4
  <2> QED
    BY <1>1, <1>4, <2>1 DEF Passing
<1>5. CASE pc[h] \in Deciding
  <2>1. Passing(att, h[2]) /\ down[h] \in Seq(OKs)
    BY <1>5 DEF Decided, Undecided
  <2>2. down[First] \in Seq(OKs)
    BY <1>1, <1>4, <2>1
  <2> QED
    BY <1>2, <1>3, <2>2
<1>6. CASE verdict[h] \in Denials
  <2>1. /\ pc[h] = "end" /\ \E p \in 1..h[2] : Travels(h, p)
    BY <1>6 DEF Decided, Denied
  <2>2. PICK p \in 1..h[2] : Travels(h, p)
    BY <2>1
  <2>3. Passing(att, p) /\ Denying(down[<<att, p>>]) /\ p \in Nat \ {0}
    BY <1>1, <2>2 DEF Travels
  <2>4. CASE p = 1
    <3>1. PICK S : down[First] \in Seq(S)
      BY <1>1 DEF Requested, DownQueued
    <3>2. Denying(down[First])
      BY <1>1, <2>3, <2>4
    <3>3. Head(down[First]) = Response("OK") \/ Denial(Head(down[First]))
      BY <3>1, <3>2, DenyingRead
    <3> QED
      BY <1>2, <2>1, <3>3 DEF Deciding
  <2>5. CASE p # 1
    <3>1. down[First] \in Seq(OKs)
      BY <1>4, <2>3, <2>5
    <3> QED
      BY <1>2, <1>3, <3>1
  <2> QED
    BY <2>4, <2>5
<1> QED
  BY <1>5, <1>6

\* The client gives up the attempt, or goes on, on another frame than an OK or
\* on the loss of its stream; a denial closes the local connection.
LEMMA HeardFinal ==
    ASSUME Requested, Decided, Hears, client # "closed",
           \/ First \in dead
           \/ /\ down[First] # <<>> /\ Head(down[First]) # Response("OK")
              /\ Denial(Head(down[First])) => att' = att /\ client' = "closed"
    PROVE  Decided'
<1>1. ASSUME NEW h \in Streams PROVE Undecided(h)' /\ Denied(h)'
  <2>1. CASE h[1] # att
    BY <2>1, EarlierKept
  <2>2. CASE h[1] = att
    <3>1. CASE Intact(h[1]) /\ (pc[h] \in Deciding \/ verdict[h] \in Denials)
      <4>1. /\ First \notin dead
            /\ down[First] # <<>> =>
                 \/ Head(down[First]) = Response("OK")
                 \/ Denial(Head(down[First])) /\ pc[h] \notin Deciding
        BY <2>2, <3>1, FirstFrame
      <4>2. att' = att /\ client' = "closed" /\ pc[h] \notin Deciding
        BY <4>1
      <4> QED
        BY <2>2, <4>2, ClosedKept
    <3>2. CASE ~(Intact(h[1]) /\ (pc[h] \in Deciding \/ verdict[h] \in Denials))
      BY <3>2, SettledKept
    <3> QED
      BY <3>1, <3>2
  <2> QED
    BY <2>1, <2>2
<1> QED
  BY <1>1, HearsUnended DEF Decided

\* A denial is not retryable.
LEMMA DenialCloses ==
    ASSUME NEW f, Denial(f), NextCandidate(f.arg)
    PROVE  att' = att /\ client' = "closed"
BY DEF NextCandidate, Denial, Denials, isRetryableSetupError, RetryableCodes

LEMMA FirstOnly ==
    ASSUME Requested
    PROVE  /\ First \in Streams /\ First[1] = att
           /\ down' = Pop(down, First) =>
                /\ down'[First] = Tail(down[First])
                /\ \A h \in Streams : h # First => down'[h] = down[h]
<1>1. First \in Streams /\ First[1] = att
  BY FirstStream DEF Requested, Types
<1>2. PerStream(down)
  BY DEF Requested, Types, LinkTypes
<1> QED
  BY <1>1, <1>2, Popped


LEMMA HeardSteps ==
    ASSUME Requested, Decided,
           ResponseRejected \/ ResponseLost \/ ServerHelloOK \/ HandshakeFail
    PROVE  Decided'
<1>1. First \in Streams /\ First[1] = att
  BY FirstOnly
<1>2. Hears /\ client # "closed"
  <2>1. CASE down' = Pop(down, First)
    <3>1. \A h \in Streams : h[1] # att => down'[h] = down[h]
      BY <1>1, <2>1, FirstOnly
    <3> QED
      BY <3>1 DEF Hears, ResponseRejected, ResponseLost, ServerHelloOK, HandshakeFail
  <2>2. CASE down' = down
    BY <2>2 DEF Hears, ResponseRejected, ResponseLost, ServerHelloOK, HandshakeFail
  <2> QED
    BY <2>1, <2>2 DEF ResponseRejected, ResponseLost, ServerHelloOK, HandshakeFail
<1> DEFINE f == Head(down[First])
<1>3. \/ First \in dead
      \/ /\ down[First] # <<>>
         /\ \/ f.type = "fin" \/ f.type = "serverHello"
            \/ NextCandidate(f.arg) /\ (f.type = "close" \/ f.arg # "OK")
  BY DEF ResponseRejected, ResponseLost, ServerHelloOK, HandshakeFail, DownEnded, Is
<1> HIDE DEF f
<1>4. \/ First \in dead
      \/ /\ down[First] # <<>> /\ f # Response("OK")
         /\ Denial(f) => att' = att /\ client' = "closed"
  BY <1>3, FrameKinds, DenialCloses
<1> QED
  BY <1>2, <1>4, HeardFinal DEF f

LEMMA QuietSteps ==
    ASSUME Decided, NoConnection \/ LocalEOF \/ ProxyDone \/ ProxyAborted
    PROVE  Decided'
<1>1. Hears /\ client \in {"open", "proxy", "drain"}
  BY DEF Hears, NoConnection, LocalEOF, ProxyDone, ProxyAborted, linkVars
<1> QED
  BY <1>1, ProxyingFinal

LEMMA SendClientHelloFinal == ASSUME Decided, SendClientHello PROVE Decided'
<1>1. /\ client = "clientHello" /\ client' = "serverHello" /\ att' = att
      /\ UNCHANGED <<down, dead, handlerVars>>
  BY DEF SendClientHello
<1>2. Hears
  BY <1>1 DEF Hears
<1>3. ASSUME NEW h \in Streams PROVE Undecided(h)' /\ Denied(h)'
  <2>1. Attends(h[1]) /\ \A g \in Streams : SameStream(g)
    BY <1>1 DEF Attends, SameStream, handlerVars
  <2> QED
    BY <1>1, <2>1, AttemptKept DEF Decided
<1> QED
  BY <1>2, <1>3, HearsUnended DEF Decided

\* Once the target is reached, every hop of the attempt has decided, and none
\* has denied.
LEMMA ReachedDecided ==
    ASSUME Requested, Decided, NEW h \in Streams, Reached(h)
    PROVE  pc[h] \notin Deciding /\ verdict[h] \notin Denials
<1> DEFINE l == LastHop(h)
<1>1. l \in Streams /\ l = <<h[1], Len(Hops(h))>> /\ l[1] = h[1] /\ target[l] # "none"
  BY HopsShape, StreamPair DEF LastHop, Reached, Requested, Types
<1>2. /\ h = <<l[1], h[2]>> /\ l = <<h[1], l[2]>> /\ h[2] \in Nat \ {0} /\ l[2] \in Nat \ {0}
      /\ l[2] \in 1..MaxHops
  BY <1>1, StreamPair, StreamIndex
<1>3. l[2] = Len(Hops(h))
  BY <1>1
<1> HIDE DEF l
<1>4. pc[l] \in Connected \cup {"end"} /\ pc[l] # "none" /\ pc[l] \notin Deciding
  <2>1. pc[l] \in Connected \cup {"end"}
    BY <1>1 DEF Requested, Served
  <2> QED
    BY <2>1 DEF Connected, Deciding
<1>5. CASE h = l
  <2>1. verdict[h] \notin Denials
    BY <1>1, <1>5 DEF Decided, Denied
  <2> QED
    BY <1>4, <1>5, <2>1
<1>6. CASE h # l
  <2>1. CASE h[2] < l[2]
    <3>1. h[2] \in 1..(l[2] - 1)
      BY <1>2, <2>1
    <3>2. pc[h] \in Relaying \cup {"end"}
      BY <1>1, <1>2, <1>4, <3>1 DEF Requested, Opened
    <3>3. l[2] \in (h[2] + 1)..MaxHops
      BY <1>2, <2>1
    <3>4. verdict[h] \notin Denials
      BY <1>2, <1>4, <3>3 DEF Decided, Denied
    <3> QED
      BY <3>2, <3>4 DEF Relaying, Deciding
  <2>2. CASE h[2] > l[2]
    <3>1. Len(Hops(h)) \in Nat /\ ~(h[2] <= Len(Hops(h)))
      BY <1>2, <1>3, <2>2
    <3>2. pc[h] = "none" /\ verdict[h] = "none"
      BY <3>1 DEF Requested, Opened
    <3> QED
      BY <3>2 DEF Deciding, Denials
  <2> QED
    BY <1>2, <1>6, <2>1, <2>2
<1> QED
  BY <1>5, <1>6

LEMMA ResponseOKFinal == ASSUME Requested, Decided, ResponseOK PROVE Decided'
<1>1. /\ client = "response" /\ down[First] # <<>> /\ Head(down[First]).type = "response"
      /\ Head(down[First]).arg = "OK" /\ down' = Pop(down, First) /\ att' = att
      /\ client' = IF Candidate.e2e THEN "clientHello" ELSE "proxy"
      /\ UNCHANGED <<candOf, setup, dead, handlerVars>>
  BY DEF ResponseOK, Is
<1>2. /\ First \in Streams /\ First[1] = att /\ First = <<att, 1>>
      /\ down'[First] = Tail(down[First])
      /\ \A h \in Streams : h # First => down'[h] = down[h]
  BY <1>1, FirstOnly DEF First
<1>3. CandidateOf(First) = Candidate
  BY <1>1, OwnCandidate DEF Requested, Types
<1>4. Candidate.e2e \/ Reached(First)
  BY <1>1, <1>2, <1>3, ReadDown
<1>5. Hears
  BY <1>1, <1>2 DEF Hears
<1>6. ASSUME NEW h \in Streams, h[1] = att, Reached(First) PROVE Undecided(h)' /\ Denied(h)'
  <2>1. Reached(h)
    BY <1>2, <1>6 DEF Reached, LastHop, Hops, CandidateOf
  <2> QED
    BY <1>5, <2>1, ReachedDecided, SettledKept
<1>7. ~Denial(Head(down[First]))
  BY <1>1 DEF Denial, Denials
<1>8. ASSUME NEW h \in Streams, h[1] = att, Candidate.e2e PROVE Undecided(h)' /\ Denied(h)'
  <2>1. /\ h[2] \in Nat \ {0} /\ h = <<h[1], h[2]>> /\ h[1] \in Attempts /\ MaxHops \in Nat
        /\ h[2] \in 1..MaxHops
    BY <1>8, StreamPair, StreamIndex
  <2>0. First = <<h[1], 1>>
    BY <1>2, <1>8
  <2>2. /\ pc' = pc /\ verdict' = verdict /\ target' = target /\ ended' = ended
        /\ client' = "clientHello" /\ Intact(h[1])' = Intact(h[1])
    BY <1>1, <1>8 DEF handlerVars, Intact
  <2>3. Awaits(h[1])'
    BY <1>1, <1>8, <2>2 DEF Awaits
  <2>4. \A i \in 1..MaxHops : i # 1 => down'[<<h[1], i>>] = down[<<h[1], i>>]
    BY <1>2, <2>0, <2>1, StreamPair
  <2>5. down[First] \in Seq(OKs) => down'[First] \in Seq(OKs)
    BY <1>1, <1>2, HeadTail
  <2>6. ASSUME NEW p \in 1..MaxHops, Passing(h[1], p) PROVE Passing(h[1], p)'
    <3>1. ASSUME NEW i \in 1..(p - 1) PROVE down'[<<h[1], i>>] \in Seq(OKs)
      <4>1. i \in 1..MaxHops /\ down[<<h[1], i>>] \in Seq(OKs)
        BY <2>1, <2>6 DEF Passing
      <4> QED
        BY <1>2, <2>0, <2>4, <2>5, <4>1
    <3> QED
      BY <2>2, <2>6, <3>1 DEF Passing
  <2>7. Undecided(h)'
    <3> SUFFICES ASSUME pc[h] \in Deciding, Intact(h[1])
                 PROVE  Awaits(h[1])' /\ Passing(h[1], h[2])' /\ down'[h] \in Seq(OKs)
      BY <1>8, <2>2 DEF Undecided
    <3>1. Passing(h[1], h[2]) /\ down[h] \in Seq(OKs)
      BY <1>8 DEF Decided, Undecided
    <3> QED
      BY <1>2, <2>0, <2>1, <2>3, <2>5, <2>6, <3>1
  <2>8. Denied(h)'
    <3> SUFFICES ASSUME verdict[h] \in Denials PROVE Denied(h)'
      BY <2>2 DEF Denied
    <3>1. /\ pc[h] = "end" /\ target[h] = "none"
          /\ \A i \in (h[2] + 1)..MaxHops : pc[<<h[1], i>>] = "none"
      BY DEF Decided, Denied
    <3>2. ASSUME Intact(h[1]) PROVE \E p \in 1..h[2] : Travels(h, p)'
      <4>1. PICK p \in 1..h[2] : Travels(h, p)
        BY <1>1, <1>8, <3>2 DEF Decided, Denied
      <4>2. /\ Passing(h[1], p) /\ Denying(down[<<h[1], p>>])
            /\ \A i \in p..h[2] : pc[<<h[1], i>>] \in {"relay", "end"}
            /\ \A i \in (p + 1)..h[2] : down[<<h[1], i>>] \in Seq(Fins)
        BY <1>8, <4>1 DEF Travels
      <4>3. p \in 1..MaxHops
        BY <2>1
      <4>4. Passing(h[1], p)'
        BY <2>6, <4>2, <4>3
      <4>5. Denying(down'[<<h[1], p>>])
        <5>1. CASE p = 1
          <6>1. PICK S : down[First] \in Seq(S)
            BY <1>2 DEF Requested, DownQueued
          <6>2. Denying(down[First])
            BY <1>2, <2>0, <4>2, <5>1
          <6>3. Denying(Tail(down[First]))
            BY <1>7, <6>1, <6>2, DenyingRead
          <6> QED
            BY <1>2, <2>0, <5>1, <6>3
        <5>2. CASE p # 1
          BY <2>4, <4>2, <4>3, <5>2
        <5> QED
          BY <5>1, <5>2
      <4>6. \A i \in (p + 1)..h[2] : i \in 1..MaxHops /\ i # 1
        BY <2>1
      <4>7. \A i \in (p + 1)..h[2] : down'[<<h[1], i>>] \in Seq(Fins)
        BY <2>4, <4>2, <4>6
      <4> QED
        BY <1>8, <2>2, <4>2, <4>4, <4>5, <4>7 DEF Travels
    <3> QED
      BY <1>8, <2>2, <2>3, <3>1, <3>2 DEF Denied
  <2> QED
    BY <2>7, <2>8
<1>9. \A h \in Streams : Undecided(h)' /\ Denied(h)'
  BY <1>4, <1>5, <1>6, <1>8, EarlierKept
<1> QED
  BY <1>5, <1>9, HearsUnended DEF Decided

LEMMA OpenTCPStreamFinal == ASSUME Requested, Decided, OpenTCPStream PROVE Decided'
<1>1. /\ client = "open" /\ pc' = [pc EXCEPT ![First] = "read"] /\ client' = "response"
      /\ UNCHANGED <<att, down, dead, target, ended, verdict>>
  BY DEF OpenTCPStream
<1>2. /\ First \in Streams /\ First[1] = att /\ First[2] = 1 /\ DOMAIN pc = Streams
  BY FirstStream DEF Requested, Types, HandlerTypes
<1>3. \A h \in Streams : h[1] = att => pc[h] = "none"
  BY <1>1 DEF Requested, Opened
<1>4. \A h \in Streams : h[1] = att => verdict[h] = "none" /\ down[h] = <<>>
  BY <1>3 DEF Requested, Opened
<1>5. pc'[First] = "read" /\ \A h \in Streams : h # First => pc'[h] = pc[h]
  BY <1>1, <1>2
<1>6. \A h \in Streams : Unended(h)'
  <2>1. \A h \in Streams : pc'[h] \notin Proxying => pc[h] \notin Proxying /\ ended'[h] = ended[h]
    BY <1>1, <1>2, <1>3, <1>5 DEF Proxying
  <2> QED
    BY <2>1, UnendedKept
<1>7. ASSUME NEW h \in Streams PROVE Undecided(h)' /\ Denied(h)'
  <2>1. CASE h[1] # att
    <3>1. Attends(h[1]) /\ \A g \in Streams : g[1] = h[1] => SameStream(g)
      BY <1>1, <1>2, <1>5, <2>1 DEF Attends, SameStream
    <3> QED
      BY <1>1, <3>1, AttemptKept DEF Decided
  <2>2. CASE h[1] = att
    <3>1. Denied(h)'
      BY <1>1, <1>4, <2>2 DEF Denied, Denials
    <3>2. CASE h = First
      <4>1. Awaits(h[1])' /\ down'[h] \in Seq(OKs)
        BY <1>1, <1>4, <2>2, Nothing DEF Awaits
      <4>2. Passing(h[1], h[2])'
        <5>1. h[2] = 1
          BY <1>2, <3>2
        <5>2. \A i \in 1..(1 - 1) : FALSE
          OBVIOUS
        <5> QED
          BY <5>1, <5>2 DEF Passing
      <4> QED
        BY <2>2, <3>1, <4>1, <4>2 DEF Undecided
    <3>3. CASE h # First
      <4>1. pc'[h] \notin Deciding
        BY <1>3, <1>5, <2>2, <3>3 DEF Deciding
      <4> QED
        BY <3>1, <4>1 DEF Undecided
    <3> QED
      BY <3>2, <3>3
  <2> QED
    BY <2>1, <2>2
<1> QED
  BY <1>6, <1>7 DEF Decided


-----------------------------------------------------------------------------
(* All steps. *)

LEMMA UntouchedFinal ==
    ASSUME Decided, UNCHANGED <<clientVars, down, handlerVars>>, dead \subseteq dead'
    PROVE  Decided'
<1>1. Hears
  BY DEF Hears
<1>2. ASSUME NEW h \in Streams PROVE Undecided(h)' /\ Denied(h)'
  <2>1. Attends(h[1]) /\ \A g \in Streams : SameStream(g)
    BY DEF Attends, SameStream, clientVars, handlerVars
  <2> QED
    BY <2>1, AttemptKept DEF Decided
<1> QED
  BY <1>1, <1>2, HearsUnended DEF Decided

LEMMA DecidedInit == Init => Decided
<1> SUFFICES ASSUME Init, NEW h \in Streams PROVE Undecided(h) /\ Denied(h) /\ Unended(h)
  BY DEF Decided
<1>1. pc[h] = "none" /\ verdict[h] = "none" /\ ended[h] = {}
  BY DEF Init
<1> QED
  BY <1>1 DEF Undecided, Denied, Unended, Deciding, Denials

LEMMA ClientFinal == ASSUME Requested, Decided, handleLocalConnection PROVE Decided'
BY OpenTCPStreamFinal, QuietSteps, ResponseOKFinal, HeardSteps, SendClientHelloFinal
   DEF handleLocalConnection

LEMMA HandlerFinal ==
    ASSUME Requested, Decided, NEW h \in Streams, handleStream(h) PROVE Decided'
BY ReadConnectRequestFinal, ReadRequestFailFinal, DialFinal, WriteOKFinal, ReadClientHelloFinal,
   SendServerHelloFinal, ReadClientFinishedFinal, E2EFailFinal, OpenNextFinal, OpenNextFailFinal,
   RelayResponseFinal, RelayResponseLostFinal, RelayUpFinal, RelayDownFinal, RelayAbortFinal,
   EgressFinal
   DEF handleStream, Serve

LEMMA DecidedNext == Requested /\ Decided /\ [Next]_vars => Decided'
<1> SUFFICES ASSUME Requested, Decided, [Next]_vars PROVE Decided'
  OBVIOUS
<1>1. CASE handleLocalConnection
  BY <1>1, ClientFinal
<1>2. ASSUME NEW h \in Streams, handleStream(h) PROVE Decided'
  BY <1>2, HandlerFinal
<1>3. ASSUME NEW h \in Streams, LoseStream(h) PROVE Decided'
  <2>1. UNCHANGED <<clientVars, down, handlerVars>> /\ dead \subseteq dead'
    BY <1>3 DEF LoseStream
  <2> QED
    BY <2>1, UntouchedFinal
<1>4. CASE UNCHANGED vars
  <2>1. UNCHANGED <<clientVars, down, handlerVars>> /\ dead \subseteq dead'
    BY <1>4 DEF vars, clientVars, handlerVars
  <2> QED
    BY <2>1, UntouchedFinal
<1> QED
  BY <1>1, <1>2, <1>3, <1>4 DEF Next, Terminated

LEMMA DecidedStops == Requested /\ Decided => DenialStopsFailover
<1> SUFFICES ASSUME Requested, Decided, NEW h \in Streams, verdict[h] \in Denials, h[1] < att
             PROVE  \E i \in 1..MaxHops : <<h[1], i>> \in dead
  BY DEF DenialStopsFailover, Denials
<1>1. h[1] \in Nat /\ att \in Nat /\ h[1] # att
  BY StreamIndex DEF Requested, Types, ClientTypes
<1>2. ~Intact(h[1])
  BY <1>1 DEF Decided, Denied, Awaits
<1> QED
  BY <1>2 DEF Intact

\* For any settings: a policy decision against the client is final. Unless a
\* stream of the attempt was lost, the client makes no other attempt after a
\* hop has denied its request (isRetryableSetupError and the order in which
\* relays pass on responses, ends and E2E closes).
THEOREM FinalDenial == Spec => []DenialStopsFailover
<1>1. Spec => []Requested
  BY Inductive
<1>2. Requested /\ Decided /\ [Next]_vars => Decided'
  BY DecidedNext
<1>3. Init => Decided
  BY DecidedInit
<1> QED
  BY <1>1, <1>2, <1>3, DecidedStops, PTL DEF Spec


-----------------------------------------------------------------------------
(* The end of the handshake. *)

\* The client has ended its failover.
Settled == {"proxy", "drain", "closed"}

\* ClientFinished is on its way in q.
Finished(q) == \E i \in 1..Len(q) : q[i].type = "clientFinished"

\* Hop h has the end of the handshake before it, or has gone on to proxying.
Committed(h) == Finished(up[h]) \/ (pc[h] = "proxy" /\ CandidateOf(h).e2e)

Final == \A h \in Streams : Committed(h) => h[1] = att /\ client \in Settled

\* Frames that are read or written.
LEMMA FinishedRead ==
    ASSUME NEW S, NEW q \in Seq(S), q # <<>>, Finished(Tail(q))
    PROVE  Finished(q)
<1>1. PICK i \in 1..Len(Tail(q)) : Tail(q)[i].type = "clientFinished"
  BY DEF Finished
<1>2. i + 1 \in 1..Len(q) /\ q[i + 1] = Tail(q)[i]
  OBVIOUS
<1> QED
  BY <1>1, <1>2 DEF Finished

LEMMA FinishedWritten ==
    ASSUME NEW S, NEW q \in Seq(S), NEW f, Finished(q \o <<f>>)
    PROVE  Finished(q) \/ f.type = "clientFinished"
<1>1. PICK i \in 1..Len(q \o <<f>>) : (q \o <<f>>)[i].type = "clientFinished"
  BY DEF Finished
<1>2. Len(q) \in Nat /\ Len(q \o <<f>>) = Len(q) + 1
  OBVIOUS
<1>3. CASE i \in 1..Len(q)
  BY <1>1, <1>3 DEF Finished
<1>4. CASE i = Len(q) + 1
  <2>1. (q \o <<f>>)[i] = f
    BY <1>2, <1>4
  <2> QED
    BY <1>1, <2>1
<1> QED
  BY <1>2, <1>3, <1>4

LEMMA FinishedHead ==
    ASSUME NEW S, NEW q \in Seq(S), q # <<>>, Head(q).type = "clientFinished"
    PROVE  Finished(q)
<1>1. 1 \in 1..Len(q) /\ q[1] = Head(q)
  OBVIOUS
<1> QED
  BY <1>1 DEF Finished

LEMMA Queued ==
    ASSUME Requested
    PROVE  PerStream(up) /\ \A h \in Streams : up[h] \in Seq(UpFrames(h))
BY DEF Requested, Types, LinkTypes, UpQueued

\* The queues of all streams after a frame was read or written.
LEMMA QueueRead ==
    ASSUME Requested, NEW h \in Streams, up[h] # <<>>, NEW g \in Streams,
           Finished(Pop(up, h)[g])
    PROVE  Finished(up[g])
<1>1. Pop(up, h)[h] = Tail(up[h]) /\ (g # h => Pop(up, h)[g] = up[g])
  BY Queued, Popped
<1> QED
  BY <1>1, Queued, FinishedRead

LEMMA QueueWritten ==
    ASSUME Requested, NEW h \in Streams, NEW f, NEW g \in Streams,
           Finished(Push(up, h, <<f>>)[g])
    PROVE  Finished(up[g]) \/ (g = h /\ f.type = "clientFinished")
<1>1. /\ Push(up, h, <<f>>)[h] = up[h] \o <<f>>
      /\ g # h => Push(up, h, <<f>>)[g] = up[g]
  <2>1. PerStream(up)
    BY Queued
  <2>2. \A s : /\ PerStream(Push(up, h, s)) /\ Push(up, h, s)[h] = up[h] \o s
               /\ \A k \in Streams : k # h => Push(up, h, s)[k] = up[k]
    BY ONLY <2>1, h \in Streams, Pushed
  <2> QED
    BY <2>2, Zenon
<1>2. CASE g # h
  BY <1>1, <1>2
<1>3. CASE g = h
  <2>1. Finished(up[h] \o <<f>>) /\ up[h] \in Seq(UpFrames(h))
    BY <1>1, <1>3, Queued
  <2> QED
    BY <1>3, <2>1, FinishedWritten
<1> QED
  BY <1>2, <1>3

\* A handler's step keeps Final if it makes nothing of nothing.
LEMMA StepFinal ==
    ASSUME Final, UNCHANGED <<setup, clientVars>>,
           \A h \in Streams : Finished(up'[h]) =>
               \E g \in Streams : g[1] = h[1] /\ Committed(g),
           \A h \in Streams : pc'[h] = "proxy" =>
               pc[h] = "proxy" \/ Committed(h) \/ ~CandidateOf(h).e2e
    PROVE  Final'
<1> SUFFICES ASSUME NEW h \in Streams, Committed(h)'
             PROVE  h[1] = att' /\ client' \in Settled
  BY DEF Final
<1>1. CandidateOf(h)' = CandidateOf(h)
  BY DEF CandidateOf, Candidates, clientVars
<1>2. \E g \in Streams : g[1] = h[1] /\ Committed(g)
  BY <1>1 DEF Committed
<1> QED
  BY <1>2 DEF Final, clientVars

\* A handler that leaves the frames towards the egress alone, and does not go
\* on to proxying.
LEMMA QuietHandlerFinal ==
    ASSUME Requested, Final, NEW h \in Streams,
           \/ ReadRequestFail(h) \/ DialTarget(h) \/ E2EDialTarget(h)
           \/ SendServerHello(h) \/ E2EFail(h) \/ OpenNextFail(h) \/ RelayDown(h)
           \/ RelayAbort(h) \/ TargetEOF(h) \/ EgressAbort(h)
    PROVE  Final'
<1>1. UNCHANGED <<setup, clientVars, up>>
  BY DEF ReadRequestFail, DialTarget, E2EDialTarget, SendServerHello, E2EFail, OpenNextFail,
         RelayDown, RelayAbort, TargetEOF, EgressAbort
<1>2. \/ pc' = pc
      \/ \E label \in {"end", "answer", "serverHello", "finished", pc[h]} :
           pc' = [pc EXCEPT ![h] = label]
  BY DEF ReadRequestFail, DialTarget, E2EDialTarget, SendServerHello, E2EFail, OpenNextFail,
         RelayDown, RelayAbort, TargetEOF, EgressAbort, Reject, Goto, Finish
<1>3. \A g \in Streams : pc'[g] = "proxy" => pc[g] = "proxy"
  BY <1>2 DEF Requested, Types, HandlerTypes
<1>4. \A g \in Streams : Finished(up'[g]) => Committed(g)
  BY <1>1 DEF Committed
<1> QED
  BY <1>1, <1>3, <1>4, StepFinal

\* A handler that reads a frame of its stream.
LEMMA ReadingFinal ==
    ASSUME Requested, Final, NEW h \in Streams,
           ReadConnectRequest(h) \/ ReadClientHello(h) \/ ReadClientFinished(h) \/ EgressUp(h)
    PROVE  Final'
<1>1. /\ UNCHANGED <<setup, clientVars>> /\ up[h] # <<>> /\ up' = Pop(up, h)
      /\ \/ ReadClientFinished(h)
         \/ \E label \in {"end", "openNext", "dial", "hello", "e2eDial", pc[h]} :
              pc' = [pc EXCEPT ![h] = label]
  <2>1. CASE ReadConnectRequest(h)
    BY <2>1, ReadConnectRequestCases DEF Goto, Reject
  <2>2. CASE ReadClientHello(h) \/ EgressUp(h)
    BY <2>2 DEF ReadClientHello, EgressUp, Is, Reject, Goto, Finish
  <2>3. CASE ReadClientFinished(h)
    BY <2>3 DEF ReadClientFinished, Is
  <2> QED
    BY <2>1, <2>2, <2>3
<1>2. \A g \in Streams : Finished(up'[g]) => Committed(g)
  BY <1>1, QueueRead DEF Committed
<1>3. \A g \in Streams : pc'[g] = "proxy" => pc[g] = "proxy" \/ Committed(g)
  <2>1. CASE ReadClientFinished(h)
    <3>1. pc' = [pc EXCEPT ![h] = "proxy"] /\ Finished(up[h])
      BY <2>1, Queued, FinishedHead DEF ReadClientFinished, Goto, Is
    <3> QED
      BY <3>1 DEF Committed, Requested, Types, HandlerTypes
  <2>2. CASE \E label \in {"end", "openNext", "dial", "hello", "e2eDial", pc[h]} :
               pc' = [pc EXCEPT ![h] = label]
    BY <2>2 DEF Requested, Types, HandlerTypes
  <2> QED
    BY <1>1, <2>1, <2>2
<1> QED
  BY <1>1, <1>2, <1>3, StepFinal

\* An egress that answers OK before it proxies has a request in plaintext.
LEMMA PlainFinal ==
    ASSUME Requested, Final, NEW h \in Streams, WriteOK(h)
    PROVE  Final'
<1>1. /\ UNCHANGED <<setup, clientVars, up>> /\ pc[h] = "answer"
      /\ \E label : pc' = [pc EXCEPT ![h] = label]
  BY DEF WriteOK, Goto
<1>2. ~CandidateOf(h).e2e
  BY <1>1 DEF Requested, Served, PlainAdmits
<1>3. \A g \in Streams : pc'[g] = "proxy" => pc[g] = "proxy" \/ ~CandidateOf(g).e2e
  BY <1>1, <1>2 DEF Requested, Types, HandlerTypes
<1>4. \A g \in Streams : Finished(up'[g]) => Committed(g)
  BY <1>1 DEF Committed
<1> QED
  BY <1>1, <1>3, <1>4, StepFinal

\* A relay moves frames to the next hop of the same attempt.
LEMMA RelayingFinal ==
    ASSUME Requested, Final, NEW h \in Streams,
           OpenNext(h) \/ RelayResponse(h) \/ RelayResponseLost(h) \/ RelayUp(h)
    PROVE  Final'
<1> DEFINE n == NextHop(h)
<1>1. n \in Streams /\ n # h /\ n[1] = h[1] /\ UNCHANGED <<setup, clientVars>>
  <2>1. h[2] < Len(Hops(h))
    BY DEF OpenNext, RelayResponse, RelayResponseLost, RelayUp, Requested, Served, Relaying
  <2>2. UNCHANGED <<setup, clientVars>>
    BY DEF OpenNext, RelayResponse, RelayResponseLost, RelayUp
  <2> QED
    BY <2>1, <2>2, NextStream DEF Requested, Types
<1>2. \A g \in Streams : pc'[g] = "proxy" => pc[g] = "proxy"
  <2>1. \/ pc' = pc \/ pc' = [pc EXCEPT ![h] = "waitNext", ![n] = "read"]
        \/ \E label \in {"relay", "end", pc[h]} : pc' = [pc EXCEPT ![h] = label]
    BY DEF OpenNext, RelayResponse, RelayResponseLost, RelayUp, Reject, Goto, Finish
  <2> QED
    BY <1>1, <2>1 DEF Requested, Types, HandlerTypes
<1>3. ASSUME NEW g \in Streams, Finished(up'[g])
      PROVE  \E k \in Streams : k[1] = g[1] /\ Committed(k)
  <2>1. CASE up' = up
    BY <1>3, <2>1 DEF Committed
  <2>2. ASSUME NEW f, up' = Push(up, n, <<f>>), f.type # "clientFinished"
        PROVE  \E k \in Streams : k[1] = g[1] /\ Committed(k)
    <3>1. Finished(up[g])
      BY <1>1, <1>3, <2>2, QueueWritten
    <3> QED
      BY <3>1 DEF Committed
  <2>3. CASE RelayUp(h)
    <3>1. up[h] # <<>> /\ up' = Push(Pop(up, h), n, <<Head(up[h])>>)
      BY <2>3 DEF RelayUp
    <3> DEFINE q == Pop(up, h)
    <3>2. PerStream(q) /\ q[h] = Tail(up[h]) /\ \A k \in Streams : k # h => q[k] = up[k]
      BY Queued, Popped
    <3> HIDE DEF q, n
    <3>3. up'[n] = q[n] \o <<Head(up[h])>> /\ (g # n => up'[g] = q[g])
      <4>1. up' = Push(q, n, <<Head(up[h])>>)
        BY <3>1 DEF q
      <4>2. PerStream(q) /\ n \in Streams
        BY <1>1, <3>2
      <4>3. \A s : /\ PerStream(Push(q, n, s)) /\ Push(q, n, s)[n] = q[n] \o s
                   /\ \A k \in Streams : k # n => Push(q, n, s)[k] = q[k]
        BY ONLY <4>2, Pushed
      <4> QED
        BY <4>1, <4>3, Zenon
    <3>4. Finished(q[g]) => Committed(g)
      BY <3>1, QueueRead DEF q, Committed
    <3>5. CASE g # n
      BY <1>3, <3>3, <3>4, <3>5
    <3>6. CASE g = n
      <4>1. q[n] \in Seq(UpFrames(n))
        BY <1>1, <3>2, Queued
      <4>2. Finished(q[n]) \/ Head(up[h]).type = "clientFinished"
        BY <1>3, <3>3, <3>6, <4>1, FinishedWritten
      <4>3. Head(up[h]).type = "clientFinished" => Committed(h)
        BY <3>1, Queued, FinishedHead DEF Committed
      <4> QED
        BY <1>1, <3>4, <3>6, <4>2, <4>3
    <3> QED
      BY <3>5, <3>6
  <2>4. CASE OpenNext(h)
    <3>1. up' = Push(up, n, <<Frame("request", Forwarded(req[h]))>>)
      BY <2>4 DEF OpenNext
    <3>2. Frame("request", Forwarded(req[h])).type # "clientFinished"
      BY DEF Frame
    <3> QED
      BY <2>2, <3>1, <3>2
  <2>5. CASE RelayResponse(h) \/ RelayResponseLost(h)
    <3>1. up' = up \/ up' = Push(up, n, <<Fin>>)
      BY <2>5 DEF RelayResponse, RelayResponseLost
    <3>2. Fin.type # "clientFinished"
      BY DEF Fin, Frame
    <3> QED
      BY <2>1, <2>2, <3>1, <3>2
  <2> QED
    BY <2>3, <2>4, <2>5
<1> QED
  BY <1>1, <1>2, <1>3, StepFinal

\* The client settles only when the handshake is over, and goes on with the
\* same attempt.
LEMMA ClientStepFinal == ASSUME Requested, Final, handleLocalConnection PROVE Final'
<1>1. First \in Streams /\ First[1] = att
  BY FirstOnly
<1>2. setup' = setup
  BY DEF handleLocalConnection, OpenTCPStream, NoConnection, ResponseOK, ResponseRejected,
         ResponseLost, SendClientHello, ServerHelloOK, HandshakeFail, LocalEOF, ProxyDone,
         ProxyAborted
<1>3. /\ \A h \in Streams : pc'[h] = "proxy" =>
           pc[h] = "proxy" /\ (CandidateOf(h)' = CandidateOf(h))
  <2>1. CASE OpenTCPStream
    <3>1. /\ client = "open" /\ pc' = [pc EXCEPT ![First] = "read"]
          /\ candOf' = [candOf EXCEPT ![att] = cand]
      BY <2>1 DEF OpenTCPStream
    <3>2. ASSUME NEW h \in Streams, pc'[h] = "proxy"
          PROVE  pc[h] = "proxy" /\ CandidateOf(h)' = CandidateOf(h)
      <4>1. pc[h] = "proxy"
        BY <1>1, <3>1, <3>2 DEF Requested, Types, HandlerTypes
      <4>2. h[1] # att
        BY <3>1, <4>1 DEF Requested, Opened
      <4>3. candOf'[h[1]] = candOf[h[1]]
        BY <3>1, <4>2 DEF Requested, Types, ClientTypes
      <4> QED
        BY <1>2, <4>1, <4>3 DEF CandidateOf, Candidates
    <3> QED
      BY <3>2
  <2>2. CASE ~OpenTCPStream
    <3>1. pc' = pc /\ candOf' = candOf
      BY <2>2 DEF handleLocalConnection, NoConnection, ResponseOK, ResponseRejected,
         ResponseLost, SendClientHello, ServerHelloOK, HandshakeFail, LocalEOF, ProxyDone,
         ProxyAborted, handlerVars
    <3> QED
      BY <1>2, <3>1 DEF CandidateOf, Candidates
  <2> QED
    BY <2>1, <2>2
<1>4. ASSUME NEW h \in Streams, Finished(up'[h])
      PROVE  Finished(up[h]) \/ (ServerHelloOK /\ h = First)
  <2>1. CASE up' = up
    BY <1>4, <2>1
  <2>2. ASSUME NEW f, up' = Push(up, First, <<f>>)
        PROVE  Finished(up[h]) \/ (h = First /\ f.type = "clientFinished")
    BY <1>1, <1>4, <2>2, QueueWritten
  <2>3. /\ Fin.type # "clientFinished"
        /\ Frame("request", ConnectRequest(Candidate)).type # "clientFinished"
        /\ Frame("clientHello", ClientContext(Candidate)).type # "clientFinished"
    BY DEF Fin, Frame
  <2>4. CASE ServerHelloOK
    BY <2>2, <2>4 DEF ServerHelloOK
  <2>5. CASE ~ServerHelloOK
    <3>1. \/ up' = up \/ up' = Push(up, First, <<Fin>>)
          \/ up' = Push(up, First, <<Frame("request", ConnectRequest(Candidate))>>)
          \/ up' = Push(up, First, <<Frame("clientHello", ClientContext(Candidate))>>)
      BY <2>5 DEF handleLocalConnection, OpenTCPStream, NoConnection, ResponseOK,
         ResponseRejected, ResponseLost, SendClientHello, HandshakeFail, LocalEOF, ProxyDone,
         ProxyAborted, linkVars
    <3> QED
      BY <2>1, <2>2, <2>3, <3>1
  <2> QED
    BY <2>4, <2>5
<1>5. ASSUME NEW h \in Streams, Committed(h)'
      PROVE  Committed(h) \/ (ServerHelloOK /\ h = First)
  BY <1>3, <1>4, <1>5 DEF Committed
<1>6. CASE client \notin Settled
  <2>1. \A h \in Streams : ~Committed(h)
    BY <1>6 DEF Final
  <2>2. ServerHelloOK => client' \in Settled /\ att' = att
    BY DEF ServerHelloOK, Settled
  <2> QED
    BY <1>1, <1>5, <2>1, <2>2 DEF Final
<1>7. CASE client \in Settled
  <2>1. LocalEOF \/ ProxyDone \/ ProxyAborted
    BY <1>7 DEF handleLocalConnection, OpenTCPStream, NoConnection, ResponseOK,
       ResponseRejected, ResponseLost, SendClientHello, ServerHelloOK, HandshakeFail, Settled
  <2>2. client' \in Settled /\ att' = att /\ ~ServerHelloOK
    BY <1>7, <2>1 DEF LocalEOF, ProxyDone, ProxyAborted, ServerHelloOK, Settled
  <2> QED
    BY <1>5, <2>2 DEF Final
<1> QED
  BY <1>6, <1>7

LEMMA FinalInit == Init => Final
<1> SUFFICES ASSUME Init, NEW h \in Streams PROVE ~Committed(h)
  BY DEF Final
<1>1. pc[h] = "none" /\ up[h] = <<>>
  BY DEF Init
<1> QED
  BY <1>1 DEF Committed, Finished

LEMMA FinalNext == Requested /\ Final /\ [Next]_vars => Final'
<1> SUFFICES ASSUME Requested, Final, [Next]_vars PROVE Final'
  OBVIOUS
<1>1. CASE handleLocalConnection
  BY <1>1, ClientStepFinal
<1>2. ASSUME NEW h \in Streams, handleStream(h) PROVE Final'
  BY <1>2, QuietHandlerFinal, ReadingFinal, PlainFinal, RelayingFinal DEF handleStream, Serve
<1>3. ASSUME UNCHANGED <<setup, clientVars, up, pc>> PROVE Final'
  <2>1. \A h \in Streams : Finished(up'[h]) => Committed(h)
    BY <1>3 DEF Committed
  <2> QED
    BY <1>3, <2>1, StepFinal
<1>4. ASSUME NEW h \in Streams, LoseStream(h) PROVE Final'
  BY <1>3, <1>4 DEF LoseStream, handlerVars
<1>5. CASE UNCHANGED vars
  BY <1>3, <1>5 DEF vars, clientVars
<1> QED
  BY <1>1, <1>2, <1>4, <1>5 DEF Next, Terminated

\* For any settings: after an end-to-end handshake no failover follows. An
\* egress proxies for an E2E candidate only in the attempt the client ended
\* with (the return after the proxy in handleLocalConnection, and the order of
\* runHandshake on both sides).
THEOREM FinalHandshake == Spec => []HandshakeIsFinal
<1>1. Final => HandshakeIsFinal
  BY DEF Final, Committed, HandshakeIsFinal
<1> QED
  BY <1>1, Inductive, FinalInit, FinalNext, PTL DEF Spec
=============================================================================
