---------------------------- MODULE PeerSessions ----------------------------
(***************************************************************************)
(* The peer sessions of a qoru server (internal/server/peers.go) with the  *)
(* goroutines that share them: Run's startup and accept loop               *)
(* (server.go), one handleConnection per connection (connection.go), one   *)
(* maintainConnection per dialed peer, and the handlers that forward a     *)
(* request to a next hop through OpenStream.                               *)
(*                                                                         *)
(* peerSessions.connection holds s.mu while it looks a session up and      *)
(* while it registers a dialed one, but not while it dials: every step     *)
(* below is one critical section or one step outside the mutex.            *)
(***************************************************************************)
EXTENDS Naturals, Sequences

CONSTANTS
    Nodes,      \* node IDs a certificate may carry
    Peers,      \* node IDs listed under `peers`
    Addressed,  \* peers configured with an address
    Dialing,    \* peers configured with dial: true
    Openers,    \* goroutines of handleStream that forward to a next hop
    Main,       \* the goroutine of Run
    Inbound,    \* QUIC connections the listener may accept
    Outbound,   \* QUIC connections the server may dial
    NoConn,     \* the nil connection
    NoNode,     \* a certificate without a node ID; also an unset argument
    Backoff     \* reconnect delays in ticks of the first delay (500ms)

ASSUME PeersAssumption ==
    /\ Dialing \subseteq Addressed /\ Addressed \subseteq Peers
    /\ Peers \subseteq Nodes /\ NoNode \notin Nodes
ASSUME GoroutinesAssumption ==
    /\ Main \notin Openers \cup Dialing /\ Openers \cap Dialing = {}
ASSUME ConnAssumption == NoConn \notin Inbound \cup Outbound
ASSUME BackoffAssumption ==
    Backoff \in Seq(Nat \ {0}) /\ Len(Backoff) > 0 /\ Backoff[1] = 1

VARIABLES
    conns,      \* peerSessions.conns
    reconnect,  \* peerSessions.reconnect; failCount 0 is an absent entry
    alive,      \* connections whose Context() is not done
    remote,     \* authenticated node at the other end of a connection
    handler,    \* progress of handleConnection for a connection
    pc, arg, held, \* each goroutine: its place, peerID argument, connection
    retried,    \* openers in the second attempt of OpenStream
    timer,      \* ticks left of a maintainer's sleepUntilNextDial
    todo,       \* dialed peers ConnectAll has not reached
    cancelled   \* the server's context is done

sessionVars == <<conns, reconnect>>
connVars == <<alive, remote, handler>>
goVars == <<pc, arg, held, retried, timer, todo>>
vars == <<conns, reconnect, alive, remote, handler, pc, arg, held, retried,
          timer, todo, cancelled>>

Conn == Inbound \cup Outbound

\* The maintainer of peer p is the goroutine named p.
Goroutines == {Main} \cup Dialing \cup Openers

InConnection == {"lookup", "dial", "register", "spawn"}
PCs == InConnection \cup
       {"got", "err", "idle", "connectAll", "accept", "acceptWait", "drain",
        "stopped", "watch", "sleep", "exited"}

Init ==
    /\ conns = [n \in Nodes |-> NoConn]
    /\ reconnect = [n \in Nodes |-> [failCount |-> 0, wait |-> 0]]
    /\ alive = {}
    /\ remote = [c \in Conn |-> NoNode]
    /\ handler = [c \in Conn |-> "none"]
    /\ pc = [g \in Goroutines |-> IF g = Main THEN "connectAll" ELSE "idle"]
    /\ arg = [g \in Goroutines |-> IF g \in Dialing THEN g ELSE NoNode]
    /\ held = [g \in Goroutines |-> NoConn]
    /\ retried = {}
    /\ timer = [p \in Dialing |-> 0]
    /\ todo = Dialing
    /\ cancelled = FALSE

\* A connection nothing refers to stands for the next one to be made.
Fresh(c) ==
    /\ c \notin alive /\ handler[c] = "none"
    /\ \A n \in Nodes : conns[n] # c
    /\ \A g \in Goroutines : held[g] # c

-----------------------------------------------------------------------------
(* Reconnect backoff. *)

DialDelay(failCount) ==
    IF failCount < Len(Backoff) THEN Backoff[failCount + 1]
                                ELSE Backoff[Len(Backoff)]

\* failCount grows without bound in the code; beyond the table's length its
\* value is never told apart.
recordDialFailure(n) ==
    LET f == reconnect[n].failCount
    IN  reconnect' = [reconnect EXCEPT ![n] =
          [failCount |-> IF f < Len(Backoff) THEN f + 1 ELSE f,
           wait |-> DialDelay(f)]]

resetDialBackoff(n) ==
    reconnect' = [reconnect EXCEPT ![n] = [failCount |-> 0, wait |-> 0]]

-----------------------------------------------------------------------------
(* peerSessions.connection, as called by goroutine g for peer arg[g]. *)

Goto(g, label, c) ==
    /\ pc' = [pc EXCEPT ![g] = label]
    /\ held' = [held EXCEPT ![g] = c]

\* First critical section: a live session is returned; a dead one is
\* removed, and the caller dials unless it may not.
MayDial(n) == n \in Addressed /\ reconnect[n].wait = 0

Lookup(g) ==
    /\ pc[g] = "lookup"
    /\ IF conns[arg[g]] \in alive
       THEN Goto(g, "got", conns[arg[g]]) /\ UNCHANGED conns
       ELSE /\ conns' = [conns EXCEPT ![arg[g]] = NoConn]
            /\ Goto(g, IF MayDial(arg[g]) THEN "dial" ELSE "err", NoConn)
    /\ UNCHANGED <<reconnect, connVars, arg, retried, timer, todo, cancelled>>

\* quic.DialAddr, outside the mutex. TLS ties the connection to arg[g].
DialOK(g) ==
    /\ pc[g] = "dial" /\ ~cancelled
    /\ \E c \in Outbound :
         /\ Fresh(c)
         /\ alive' = alive \cup {c}
         /\ remote' = [remote EXCEPT ![c] = arg[g]]
         /\ Goto(g, "register", c)
    /\ UNCHANGED <<sessionVars, handler, arg, retried, timer, todo, cancelled>>

DialFail(g) ==
    /\ pc[g] = "dial"
    /\ recordDialFailure(arg[g])
    /\ Goto(g, "err", NoConn)
    /\ UNCHANGED <<conns, connVars, arg, retried, timer, todo, cancelled>>

\* identity.ClientTLSConfig fails: no dial, and no backoff is recorded.
TLSConfigFail(g) ==
    /\ pc[g] = "dial"
    /\ Goto(g, "err", NoConn)
    /\ UNCHANGED <<sessionVars, connVars, arg, retried, timer, todo, cancelled>>

\* Broken variants of Register: the duplicate is not closed; onConnected is
\* called for the session that won.
RegisterKeepsDuplicate(g) ==
    /\ pc[g] = "register"
    /\ LET n == arg[g] IN
       IF conns[n] \in alive
       THEN Goto(g, "got", conns[n]) /\ UNCHANGED sessionVars
       ELSE /\ conns' = [conns EXCEPT ![n] = held[g]]
            /\ resetDialBackoff(n)
            /\ Goto(g, "spawn", held[g])
    /\ UNCHANGED <<connVars, arg, retried, timer, todo, cancelled>>

RegisterServesTwice(g) ==
    /\ pc[g] = "register"
    /\ LET n == arg[g] IN
       IF conns[n] \in alive
       THEN /\ alive' = alive \ {held[g]}
            /\ Goto(g, "spawn", conns[n])
            /\ UNCHANGED sessionVars
       ELSE /\ conns' = [conns EXCEPT ![n] = held[g]]
            /\ resetDialBackoff(n)
            /\ Goto(g, "spawn", held[g])
            /\ UNCHANGED alive
    /\ UNCHANGED <<remote, handler, arg, retried, timer, todo, cancelled>>

\* Second critical section: a session registered meanwhile wins.
Register(g) ==
    /\ pc[g] = "register"
    /\ LET n == arg[g] IN
       IF conns[n] \in alive
       THEN /\ alive' = alive \ {held[g]}
            /\ Goto(g, "got", conns[n])
            /\ UNCHANGED sessionVars
       ELSE /\ conns' = [conns EXCEPT ![n] = held[g]]
            /\ resetDialBackoff(n)
            /\ Goto(g, "spawn", held[g])
            /\ UNCHANGED alive
    /\ UNCHANGED <<remote, handler, arg, retried, timer, todo, cancelled>>

\* Broken variant of Spawn: no accept loop for a dialed session.
SpawnNothing(g) ==
    /\ pc[g] = "spawn"
    /\ pc' = [pc EXCEPT ![g] = "got"]
    /\ UNCHANGED <<sessionVars, connVars, arg, held, retried, timer, todo,
                   cancelled>>

\* onConnected, after the mutex is released.
Spawn(g) ==
    /\ pc[g] = "spawn"
    /\ handler' = [handler EXCEPT ![held[g]] = "start"]
    /\ pc' = [pc EXCEPT ![g] = "got"]
    /\ UNCHANGED <<sessionVars, alive, remote, arg, held, retried, timer, todo,
                   cancelled>>

connection(g) ==
    \/ Lookup(g) \/ DialOK(g) \/ DialFail(g) \/ TLSConfigFail(g)
    \/ Register(g) \/ Spawn(g)

\* Broken variant of drop: the session is forgotten and left open.
dropWithoutClose(n, c) ==
    /\ conns' = [conns EXCEPT ![n] = IF @ = c THEN NoConn ELSE @]
    /\ UNCHANGED alive

\* drop closes and forgets c if it is still the session of n.
drop(n, c) ==
    IF conns[n] = c
    THEN conns' = [conns EXCEPT ![n] = NoConn] /\ alive' = alive \ {c}
    ELSE UNCHANGED <<conns, alive>>

-----------------------------------------------------------------------------
(* maintainConnection, the goroutine of a dialed peer. *)

\* `for ctx.Err() == nil`
LoopLabel == IF cancelled THEN "exited" ELSE "lookup"

MaintainGot(p) ==
    /\ pc[p] = "got"
    /\ pc' = [pc EXCEPT ![p] = "watch"]
    /\ UNCHANGED <<sessionVars, connVars, arg, held, retried, timer, todo,
                   cancelled>>

\* Broken variant of sleepUntilNextDial: one tick short, without a minimum.
sleepTooShort(p) ==
    /\ pc[p] = "err"
    /\ timer' = [timer EXCEPT ![p] = reconnect[p].wait - 1]
    /\ Goto(p, "sleep", NoConn)
    /\ UNCHANGED <<sessionVars, connVars, arg, retried, todo, cancelled>>

\* sleepUntilNextDial reads the entry and arms its timer.
sleepUntilNextDial(p) ==
    /\ pc[p] = "err"
    /\ timer' = [timer EXCEPT ![p] =
                   IF reconnect[p].wait > 0 THEN reconnect[p].wait ELSE 1]
    /\ Goto(p, "sleep", NoConn)
    /\ UNCHANGED <<sessionVars, connVars, arg, retried, todo, cancelled>>

MaintainWake(p) ==
    /\ pc[p] = "sleep" /\ (timer[p] = 0 \/ cancelled)
    /\ timer' = [timer EXCEPT ![p] = 0]
    /\ Goto(p, LoopLabel, NoConn)
    /\ UNCHANGED <<sessionVars, connVars, arg, retried, todo, cancelled>>

\* Broken variant of MaintainDrop: the maintainer gives up.
MaintainGivesUp(p) ==
    /\ pc[p] = "watch" /\ held[p] \notin alive
    /\ drop(p, held[p])
    /\ Goto(p, "exited", NoConn)
    /\ UNCHANGED <<reconnect, remote, handler, arg, retried, timer, todo,
                   cancelled>>

MaintainDrop(p) ==
    /\ pc[p] = "watch" /\ held[p] \notin alive
    /\ drop(p, held[p])
    /\ Goto(p, LoopLabel, NoConn)
    /\ UNCHANGED <<reconnect, remote, handler, arg, retried, timer, todo,
                   cancelled>>

MaintainCancelled(p) ==
    /\ pc[p] = "watch" /\ cancelled
    /\ Goto(p, "exited", NoConn)
    /\ UNCHANGED <<sessionVars, connVars, arg, retried, timer, todo, cancelled>>

maintainConnection(p) ==
    \/ connection(p) \/ MaintainGot(p) \/ sleepUntilNextDial(p)
    \/ MaintainWake(p) \/ MaintainDrop(p) \/ MaintainCancelled(p)

-----------------------------------------------------------------------------
(* OpenStream, called by handleRelayStream for the next hop of a route. *)

\* A stream is accepted on some served connection; the route may name any
\* node.
AcceptStream(o) ==
    /\ pc[o] = "idle"
    /\ \E c \in alive : handler[c] = "serving"
    /\ \E n \in Nodes : arg' = [arg EXCEPT ![o] = n]
    /\ Goto(o, "lookup", NoConn)
    /\ UNCHANGED <<sessionVars, connVars, retried, timer, todo, cancelled>>

OpenStreamReturn(o) ==
    /\ Goto(o, "idle", NoConn)
    /\ arg' = [arg EXCEPT ![o] = NoNode]
    /\ retried' = retried \ {o}

OpenStreamOK(o) ==
    /\ pc[o] = "got" /\ held[o] \in alive
    /\ OpenStreamReturn(o)
    /\ UNCHANGED <<sessionVars, connVars, timer, todo, cancelled>>

\* Broken variant of OpenStreamFail: no limit to the attempts.
OpenStreamRetries(o) ==
    /\ pc[o] = "got" /\ (held[o] \notin alive \/ cancelled)
    /\ drop(arg[o], held[o])
    /\ Goto(o, "lookup", NoConn)
    /\ UNCHANGED <<reconnect, remote, handler, arg, retried, timer, todo,
                   cancelled>>

\* OpenStreamSync fails on a dead connection or a done context: the session
\* is dropped and looked up once more; a second failure is returned.
OpenStreamFail(o) ==
    /\ pc[o] = "got" /\ (held[o] \notin alive \/ cancelled)
    /\ IF o \in retried
       THEN OpenStreamReturn(o) /\ UNCHANGED <<conns, alive>>
       ELSE /\ drop(arg[o], held[o])
            /\ retried' = retried \cup {o}
            /\ Goto(o, "lookup", NoConn)
            /\ UNCHANGED arg
    /\ UNCHANGED <<reconnect, remote, handler, timer, todo, cancelled>>

OpenStreamErr(o) ==
    /\ pc[o] = "err"
    /\ OpenStreamReturn(o)
    /\ UNCHANGED <<sessionVars, connVars, timer, todo, cancelled>>

OpenStream(o) ==
    connection(o) \/ OpenStreamOK(o) \/ OpenStreamFail(o) \/ OpenStreamErr(o)

-----------------------------------------------------------------------------
(* handleConnection: RegisterInbound, then the stream accept loop. *)

\* Broken variants of RegisterInbound: any node is registered; the newest
\* session replaces the one before.
RegisterAnyone(c) ==
    LET n == remote[c] IN
    IF conns[n] \in alive
    THEN /\ alive' = IF conns[n] = c THEN alive ELSE alive \ {c}
         /\ UNCHANGED sessionVars
    ELSE /\ conns' = [conns EXCEPT ![n] = c]
         /\ resetDialBackoff(n)
         /\ UNCHANGED alive

LastInboundWins(c) ==
    LET n == remote[c] IN
    IF n \notin Peers
    THEN UNCHANGED <<conns, reconnect, alive>>
    ELSE /\ conns' = [conns EXCEPT ![n] = c]
         /\ alive' = alive \ ({conns[n]} \ {c})
         /\ resetDialBackoff(n)

RegisterInbound(c) ==
    LET n == remote[c] IN
    IF n \notin Peers
    THEN UNCHANGED <<conns, reconnect, alive>>
    ELSE IF conns[n] \in alive
    THEN /\ alive' = IF conns[n] = c THEN alive ELSE alive \ {c}
         /\ UNCHANGED sessionVars
    ELSE /\ conns' = [conns EXCEPT ![n] = c]
         /\ resetDialBackoff(n)
         /\ UNCHANGED alive

HandleStart(c) ==
    /\ handler[c] = "start" /\ remote[c] # NoNode
    /\ RegisterInbound(c)
    /\ handler' = [handler EXCEPT ![c] = "serving"]
    /\ UNCHANGED <<remote, goVars, cancelled>>

\* identity.PeerNodeID fails.
HandleNoIdentity(c) ==
    /\ handler[c] = "start" /\ remote[c] = NoNode
    /\ alive' = alive \ {c}
    /\ handler' = [handler EXCEPT ![c] = "none"]
    /\ UNCHANGED <<sessionVars, remote, goVars, cancelled>>

\* Broken variant of HandleEnd: the connection is left open.
HandleEndLeavesOpen(c) ==
    /\ handler[c] = "serving" /\ (c \notin alive \/ cancelled)
    /\ handler' = [handler EXCEPT ![c] = "none"]
    /\ UNCHANGED <<sessionVars, alive, remote, goVars, cancelled>>

\* AcceptStream fails: the connection is closed. The wait for its streams is
\* bounded by a timeout and ends in either case.
HandleEnd(c) ==
    /\ handler[c] = "serving" /\ (c \notin alive \/ cancelled)
    /\ alive' = alive \ {c}
    /\ handler' = [handler EXCEPT ![c] = "none"]
    /\ UNCHANGED <<sessionVars, remote, goVars, cancelled>>

handleConnection(c) == HandleStart(c) \/ HandleNoIdentity(c) \/ HandleEnd(c)

-----------------------------------------------------------------------------
(* Run: ConnectAll, the accept loop and the shutdown. *)

ConnectAllNext ==
    /\ pc[Main] = "connectAll"
    /\ \E p \in todo :
         /\ arg' = [arg EXCEPT ![Main] = p]
         /\ todo' = todo \ {p}
    /\ Goto(Main, "lookup", NoConn)
    /\ UNCHANGED <<sessionVars, connVars, retried, timer, cancelled>>

\* Whatever connection returned, the maintainer of that peer is started.
StartMaintainer ==
    /\ pc[Main] \in {"got", "err"}
    /\ pc' = [pc EXCEPT ![arg[Main]] = LoopLabel, ![Main] = "connectAll"]
    /\ held' = [held EXCEPT ![Main] = NoConn]
    /\ arg' = [arg EXCEPT ![Main] = NoNode]
    /\ UNCHANGED <<sessionVars, connVars, retried, timer, todo, cancelled>>

ConnectAllDone ==
    /\ pc[Main] = "connectAll" /\ todo = {}
    /\ Goto(Main, "accept", NoConn)
    /\ UNCHANGED <<sessionVars, connVars, arg, retried, timer, todo, cancelled>>

Accept ==
    /\ pc[Main] = "accept"
    /\ \E c \in Inbound, n \in Nodes \cup {NoNode} :
         /\ Fresh(c)
         /\ alive' = alive \cup {c}
         /\ remote' = [remote EXCEPT ![c] = n]
         /\ handler' = [handler EXCEPT ![c] = "start"]
    /\ UNCHANGED <<sessionVars, goVars, cancelled>>

\* A transient failure of listener.Accept, and the wait that follows it. The
\* length of the wait (100ms doubling to 30s) is left out.
AcceptFail ==
    /\ pc[Main] = "accept" /\ ~cancelled
    /\ Goto(Main, "acceptWait", NoConn)
    /\ UNCHANGED <<sessionVars, connVars, arg, retried, timer, todo, cancelled>>

AcceptRetry ==
    /\ pc[Main] = "acceptWait"
    /\ Goto(Main, "accept", NoConn)
    /\ UNCHANGED <<sessionVars, connVars, arg, retried, timer, todo, cancelled>>

\* Broken variant of AcceptCancelled: a done context is one more failure.
AcceptKeepsTrying ==
    /\ pc[Main] \in {"accept", "acceptWait"} /\ cancelled
    /\ Goto(Main, "acceptWait", NoConn)
    /\ UNCHANGED <<sessionVars, connVars, arg, retried, timer, todo, cancelled>>

AcceptCancelled ==
    /\ pc[Main] \in {"accept", "acceptWait"} /\ cancelled
    /\ Goto(Main, "drain", NoConn)
    /\ UNCHANGED <<sessionVars, connVars, arg, retried, timer, todo, cancelled>>

\* waitGroupTimeout ends, with every handler finished or by its timeout, and
\* the deferred Close closes and forgets every session.
Close ==
    /\ pc[Main] = "drain"
    /\ alive' = alive \ {conns[n] : n \in Nodes}
    /\ conns' = [n \in Nodes |-> NoConn]
    /\ Goto(Main, "stopped", NoConn)
    /\ UNCHANGED <<reconnect, remote, handler, arg, retried, timer, todo,
                   cancelled>>

Startup == connection(Main) \/ ConnectAllNext \/ StartMaintainer \/ ConnectAllDone
Run == Startup \/ Accept \/ AcceptFail \/ AcceptRetry \/ AcceptCancelled \/ Close

-----------------------------------------------------------------------------
(* The environment. *)

\* The peer closes the connection, it idles out or the network fails.
ConnDies(c) ==
    /\ c \in alive
    /\ alive' = alive \ {c}
    /\ UNCHANGED <<sessionVars, remote, handler, goVars, cancelled>>

Cancel ==
    /\ ~cancelled /\ cancelled' = TRUE
    /\ UNCHANGED <<sessionVars, connVars, goVars>>

Less(t) == IF t > 0 THEN t - 1 ELSE 0

Tick ==
    /\ (\E n \in Nodes : reconnect[n].wait > 0) \/ (\E p \in Dialing : timer[p] > 0)
    /\ reconnect' = [n \in Nodes |-> [reconnect[n] EXCEPT !.wait = Less(@)]]
    /\ timer' = [p \in Dialing |-> Less(timer[p])]
    /\ UNCHANGED <<conns, connVars, pc, arg, held, retried, todo, cancelled>>

\* The context is done and every goroutine has returned.
Terminated ==
    /\ pc[Main] = "stopped"
    /\ \A p \in Dialing : pc[p] = "exited"
    /\ \A o \in Openers : pc[o] = "idle"
    /\ \A c \in Conn : handler[c] = "none" /\ c \notin alive
    /\ UNCHANGED vars

Next ==
    \/ Run
    \/ \E p \in Dialing : maintainConnection(p)
    \/ \E o \in Openers : AcceptStream(o) \/ OpenStream(o)
    \/ \E c \in Conn : handleConnection(c) \/ ConnDies(c)
    \/ Cancel \/ Tick \/ Terminated

Spec == Init /\ [][Next]_vars

\* Every goroutine that can run is scheduled, clocks advance, and a dial and
\* a drain end (each is bounded by a timeout). OpenStreamSync has no timeout:
\* it has to end when its connection is dead or the context is done, but on a
\* live connection it may wait for ever for a stream that the peer's limit
\* does not grant, so OpenStreamOK is not assumed to happen. Nor is a failed
\* Accept.
Scheduled ==
    /\ \A p \in Dialing : WF_vars(maintainConnection(p))
    /\ \A o \in Openers : WF_vars(connection(o) \/ OpenStreamFail(o) \/ OpenStreamErr(o))
    /\ \A c \in Conn : WF_vars(handleConnection(c))
    /\ WF_vars(Startup)
    /\ WF_vars(AcceptRetry \/ AcceptCancelled \/ Close)
    /\ WF_vars(Tick)

\* A peer that is dialed again and again is reached again and again.
Reachable(p) == \E g \in Goroutines : arg[g] = p /\ DialOK(g)

FairSpec == Spec /\ Scheduled /\ \A p \in Dialing : SF_vars(Reachable(p))

-----------------------------------------------------------------------------
(* Properties. *)

\* The type of every variable.
TypeOK ==
    /\ conns \in [Nodes -> Conn \cup {NoConn}]
    /\ reconnect \in [Nodes -> [failCount : 0..Len(Backoff), wait : Nat]]
    /\ alive \in SUBSET Conn
    /\ remote \in [Conn -> Nodes \cup {NoNode}]
    /\ handler \in [Conn -> {"none", "start", "serving"}]
    /\ pc \in [Goroutines -> PCs]
    /\ arg \in [Goroutines -> Nodes \cup {NoNode}]
    /\ held \in [Goroutines -> Conn \cup {NoConn}]
    /\ retried \in SUBSET Openers
    /\ timer \in [Dialing -> Nat]
    /\ todo \in SUBSET Dialing
    /\ cancelled \in BOOLEAN

\* No session leaks: an open connection with a configured peer is the one
\* registered session of that peer, or is still on its way to registration
\* (dialed and not yet in the second critical section of connection, or
\* accepted and not yet in RegisterInbound). So every duplicate, from
\* whichever side and in whichever order, has been closed.
NoOrphanSession ==
    \A c \in alive : remote[c] \in Peers =>
        \/ conns[remote[c]] = c
        \/ handler[c] = "start"
        \/ \E g \in Goroutines : pc[g] = "register" /\ held[g] = c

\* A live registered session has its stream accept loop, or the goroutine
\* that registered it is about to start it (server.go:88: outbound peer
\* connections need a stream accept loop too).
RegisteredIsServed ==
    \A n \in Nodes : conns[n] \in alive =>
        \/ handler[conns[n]] # "none"
        \/ \E g \in Goroutines : pc[g] = "spawn" /\ held[g] = conns[n]

\* No connection gets two accept loops: while a goroutine is about to start
\* one, none runs and no other goroutine is about to start it.
OneAcceptLoop ==
    \A g \in Goroutines : pc[g] = "spawn" =>
        /\ handler[held[g]] = "none"
        /\ \A h \in Goroutines \ {g} : pc[h] = "spawn" => held[h] # held[g]

RegisteredIdentity ==
    \A n \in Nodes : conns[n] # NoConn => n \in Peers /\ remote[conns[n]] = n

HeldIdentity ==
    \A g \in Goroutines : pc[g] \in {"got", "watch"} =>
        held[g] # NoConn /\ remote[held[g]] = arg[g]

\* A request for next hop n travels only on a connection authenticated as n,
\* and only configured peers have sessions.
SessionIdentity == RegisteredIdentity /\ HeldIdentity

\* Nobody goes on with a connection that lost: a connection that was handed
\* out (to a request, or to the maintainer that watches it) is still the
\* session of its peer unless it is closed.
HeldIsSession ==
    \A g \in Goroutines : pc[g] \in {"got", "watch"} /\ held[g] \in alive =>
        conns[arg[g]] = held[g]

\* The first live session wins: a live session stays until it is closed, and
\* is never replaced in the step that closes it.
FirstLiveWins ==
    [][\A n \in Nodes : conns[n] \in alive /\ conns'[n] # conns[n] =>
          conns'[n] = NoConn /\ conns[n] \notin alive']_vars

\* maintainConnection never gives up: until shutdown, a dialed peer has a
\* live connection again and again.
MaintainedPeerReconnects ==
    \A p \in Dialing : []<>(cancelled \/ \E c \in alive : remote[c] = p)

\* After the context is done every connection is eventually closed for good,
\* those whose dial finished after Run returned included.
ShutdownClosesAll == cancelled ~> [](alive = {})

\* Run returns once the context is done.
RunReturns == cancelled ~> pc[Main] = "stopped"

\* The one place where a forwarded request may stay: in OpenStreamSync on a
\* connection that lives, waiting for a stream the peer does not grant.
AwaitsCredit(o) == pc[o] = "got" /\ held[o] \in alive /\ ~cancelled

\* A forwarded request gets a stream or an error, unless the connection it
\* was given lives on, the server is not shut down and the peer never grants
\* it a stream: lookups, dials and lost sessions never keep it for ever.
OpenStreamReturns ==
    \A o \in Openers : pc[o] = "lookup" ~> (pc[o] = "idle" \/ []AwaitsCredit(o))

\* The documented reconnect policy, "then `16s` forever until reconnect
\* succeeds": with a live session there is no backoff left.
BackoffEndsWithReconnect ==
    \A n \in Nodes : conns[n] \in alive => reconnect[n].wait = 0
=============================================================================
