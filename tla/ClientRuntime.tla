---------------------------- MODULE ClientRuntime ----------------------------
(***************************************************************************)
(* The qoru client (internal/client): Run's startup, accept loops and      *)
(* shutdown, the handlers of local TCP connections with their failover     *)
(* over route candidates, and the reconnecting upstream sessions they      *)
(* share. A session's mutex is held while it dials, so a handler, Run or   *)
(* another handler of the same upstream waits for the dial to end.         *)
(***************************************************************************)
EXTENDS Naturals, Sequences, FiniteSets

CONSTANTS
    Servers,     \* configured upstream servers
    Forwards,    \* configured local listeners
    Candidates,  \* per forward: the resolved routes [server, e2e], in order
    Handlers,    \* goroutines of handleLocalConnection
    Main,        \* the goroutine of Run
    Conn, NoConn, \* QUIC connections, and nil
    Nobody,      \* the holder of a free mutex
    Backoff,     \* reconnect delays in ticks
    DialTimeout  \* the longest dial in ticks

ASSUME ClientAssumption ==
    /\ Main \notin Handlers /\ Nobody \notin Handlers \cup {Main}
    /\ NoConn \notin Conn /\ Servers # {}
    /\ Forwards # {} /\ IsFiniteSet(Forwards)
    /\ Candidates \in [Forwards -> Seq([server : Servers, e2e : BOOLEAN])]
    /\ \A f \in Forwards : Len(Candidates[f]) > 0
    /\ Backoff \in Seq(Nat \ {0}) /\ Len(Backoff) > 0
    /\ DialTimeout \in Nat

VARIABLES
    conn, closed,     \* reconnectingUpstreamSession, per server
    failCount, wait,  \* backoffFailCount; ticks until nextDial
    mu,               \* the goroutine that holds the session's mutex
    dialAge,          \* ticks since a dialing goroutine read the clock
    alive,            \* connections whose Context() is not done
    pc, srv, held,    \* each goroutine: its place, session and connection
    forward, cand,    \* each handler: its forward and candidate number
    retried,          \* handlers in the second attempt of OpenTCPStream
    todo,             \* servers ConnectAll or Close has not reached
    acceptor, listening, errCh, \* accept loops, open listeners, errors queued
    cancelled         \* the client's context is done

sessionVars == <<conn, closed, failCount, wait, mu, dialAge>>
handlerVars == <<forward, cand, retried>>
runVars == <<todo, acceptor, listening, errCh>>
vars == <<conn, closed, failCount, wait, mu, dialAge, alive, pc, srv, held,
          forward, cand, retried, todo, acceptor, listening, errCh, cancelled>>

Goroutines == Handlers \cup {Main}

Init ==
    /\ conn = [s \in Servers |-> NoConn] /\ closed = [s \in Servers |-> FALSE]
    /\ failCount = [s \in Servers |-> 0] /\ wait = [s \in Servers |-> 0]
    /\ mu = [s \in Servers |-> Nobody] /\ dialAge = [s \in Servers |-> 0]
    /\ alive = {}
    /\ pc = [g \in Goroutines |-> IF g = Main THEN "connectAll" ELSE "idle"]
    /\ srv = [g \in Goroutines |-> CHOOSE s \in Servers : TRUE]
    /\ held = [g \in Goroutines |-> NoConn]
    /\ forward = [h \in Handlers |-> CHOOSE f \in Forwards : TRUE]
    /\ cand = [h \in Handlers |-> 1]
    /\ retried = {}
    /\ todo = Servers
    /\ acceptor = [f \in Forwards |-> "off"]
    /\ listening = {} /\ errCh = 0
    /\ cancelled = FALSE

Fresh(c) ==
    /\ c \notin alive
    /\ \A s \in Servers : conn[s] # c
    /\ \A g \in Goroutines : held[g] # c

Goto(g, label, c) ==
    /\ pc' = [pc EXCEPT ![g] = label]
    /\ held' = [held EXCEPT ![g] = c]

-----------------------------------------------------------------------------
(* reconnectingUpstreamSession.connection, called by g for srv[g]. *)

\* A live connection is returned at once.
ConnectLive(g) ==
    /\ pc[g] = "connect" /\ mu[srv[g]] = Nobody
    /\ ~closed[srv[g]] /\ conn[srv[g]] \in alive
    /\ Goto(g, "open", conn[srv[g]])
    /\ UNCHANGED <<sessionVars, alive, srv, handlerVars, runVars, cancelled>>

\* A closed session and an active backoff fail fast.
ConnectErr(g) ==
    /\ pc[g] = "connect" /\ mu[srv[g]] = Nobody
    /\ \/ closed[srv[g]] /\ UNCHANGED conn
       \/ /\ ~closed[srv[g]] /\ conn[srv[g]] \notin alive /\ wait[srv[g]] > 0
          /\ conn' = [conn EXCEPT ![srv[g]] = NoConn]
    /\ Goto(g, "err", NoConn)
    /\ UNCHANGED <<closed, failCount, wait, mu, dialAge, alive, srv, handlerVars,
                   runVars, cancelled>>

\* Broken variant of ConnectDial: the mutex is released for the dial.
ConnectDialUnlocked(g) ==
    /\ pc[g] = "connect" /\ mu[srv[g]] = Nobody
    /\ ~closed[srv[g]] /\ conn[srv[g]] \notin alive /\ wait[srv[g]] = 0
    /\ conn' = [conn EXCEPT ![srv[g]] = NoConn]
    /\ Goto(g, "dial", NoConn)
    /\ UNCHANGED <<closed, failCount, wait, mu, dialAge, alive, srv, handlerVars,
                   runVars, cancelled>>

\* Otherwise g reads the clock and dials, holding the mutex.
ConnectDial(g) ==
    /\ pc[g] = "connect" /\ mu[srv[g]] = Nobody
    /\ ~closed[srv[g]] /\ conn[srv[g]] \notin alive /\ wait[srv[g]] = 0
    /\ conn' = [conn EXCEPT ![srv[g]] = NoConn]
    /\ mu' = [mu EXCEPT ![srv[g]] = g]
    /\ dialAge' = [dialAge EXCEPT ![srv[g]] = 0]
    /\ Goto(g, "dial", NoConn)
    /\ UNCHANGED <<closed, failCount, wait, alive, srv, handlerVars, runVars,
                   cancelled>>

DialDelay(n) == IF n < Len(Backoff) THEN Backoff[n + 1] ELSE Backoff[Len(Backoff)]

\* The delay counts from the clock read before the dial. failCount grows
\* without bound in the code; beyond the table it is never told apart.
recordDialFailure(s) ==
    /\ failCount' = [failCount EXCEPT ![s] = IF @ < Len(Backoff) THEN @ + 1 ELSE @]
    /\ LET delay == DialDelay(failCount[s])
       IN  wait' = [wait EXCEPT ![s] =
                      IF delay > dialAge[s] THEN delay - dialAge[s] ELSE 0]

Unlock(s) ==
    /\ mu' = [mu EXCEPT ![s] = Nobody]
    /\ dialAge' = [dialAge EXCEPT ![s] = 0]

\* Broken variant of DialFail: the dial is repeated at once.
DialRepeats(g) ==
    /\ pc[g] = "dial"
    /\ Unlock(srv[g])
    /\ Goto(g, "connect", NoConn)
    /\ UNCHANGED <<conn, closed, failCount, wait, alive, srv, handlerVars, runVars,
                   cancelled>>

DialFail(g) ==
    /\ pc[g] = "dial"
    /\ recordDialFailure(srv[g])
    /\ Unlock(srv[g])
    /\ Goto(g, "err", NoConn)
    /\ UNCHANGED <<conn, closed, alive, srv, handlerVars, runVars, cancelled>>

resetDialBackoff(s) ==
    /\ failCount' = [failCount EXCEPT ![s] = 0]
    /\ wait' = [wait EXCEPT ![s] = 0]

DialOK(g) ==
    /\ pc[g] = "dial" /\ ~cancelled
    /\ \E c \in Conn :
         /\ Fresh(c)
         /\ alive' = alive \cup {c}
         /\ conn' = [conn EXCEPT ![srv[g]] = c]
         /\ Goto(g, "open", c)
    /\ resetDialBackoff(srv[g])
    /\ Unlock(srv[g])
    /\ UNCHANGED <<closed, srv, handlerVars, runVars, cancelled>>

connection(g) ==
    ConnectLive(g) \/ ConnectErr(g) \/ ConnectDial(g) \/ DialFail(g) \/ DialOK(g)

-----------------------------------------------------------------------------
(* handleLocalConnection. *)

Route(h) == Candidates[forward[h]]

\* OpenTCPStream or the handshake returned an error: the next candidate is
\* tried if the error is retryable, else the local connection is closed.
CandidateFailed(h, retryable) ==
    /\ IF retryable /\ ~cancelled /\ cand[h] < Len(Route(h))
       THEN /\ cand' = [cand EXCEPT ![h] = @ + 1]
            /\ srv' = [srv EXCEPT ![h] = Route(h)[cand[h] + 1].server]
            /\ Goto(h, "connect", NoConn)
       ELSE /\ Goto(h, "idle", NoConn)
            /\ UNCHANGED <<cand, srv>>
    /\ retried' = retried \ {h}
    /\ UNCHANGED forward

\* connection failed: not a rejection, so retryable.
NoConnection(h) ==
    /\ pc[h] = "err"
    /\ CandidateFailed(h, TRUE)
    /\ UNCHANGED <<sessionVars, alive, runVars, cancelled>>

\* The server answered OK on a stream of the held connection.
StreamOK(h) ==
    /\ pc[h] = "open" /\ held[h] \in alive
    /\ Goto(h, IF Route(h)[cand[h]].e2e THEN "handshake" ELSE "proxy", held[h])
    /\ UNCHANGED <<sessionVars, alive, srv, handlerVars, runVars, cancelled>>

\* The server answered with a retryable or with a final code.
StreamRejected(h) ==
    /\ pc[h] = "open" /\ held[h] \in alive
    /\ \E retryable \in BOOLEAN : CandidateFailed(h, retryable)
    /\ UNCHANGED <<sessionVars, alive, runVars, cancelled>>

\* The stream could not be opened, written or read, whether or not its
\* connection is dead. Only a first attempt under a live context reconnects.
StreamBroken(h) ==
    /\ pc[h] = "open"
    /\ IF cancelled \/ h \in retried
       THEN CandidateFailed(h, TRUE)
       ELSE /\ Goto(h, "drop", held[h])
            /\ UNCHANGED <<srv, handlerVars>>
    /\ UNCHANGED <<sessionVars, alive, runVars, cancelled>>

\* Broken variant of dropConnection: the connection is forgotten, not closed.
dropWithoutClose(h) ==
    /\ pc[h] = "drop" /\ mu[srv[h]] = Nobody
    /\ conn' = [conn EXCEPT ![srv[h]] = IF @ = held[h] THEN NoConn ELSE @]
    /\ retried' = retried \cup {h}
    /\ Goto(h, "connect", NoConn)
    /\ UNCHANGED <<closed, failCount, wait, mu, dialAge, alive, srv, forward, cand,
                   runVars, cancelled>>

dropConnection(h) ==
    /\ pc[h] = "drop" /\ mu[srv[h]] = Nobody
    /\ IF conn[srv[h]] = held[h]
       THEN /\ conn' = [conn EXCEPT ![srv[h]] = NoConn]
            /\ alive' = alive \ {held[h]}
       ELSE UNCHANGED <<conn, alive>>
    /\ retried' = retried \cup {h}
    /\ Goto(h, "connect", NoConn)
    /\ UNCHANGED <<closed, failCount, wait, mu, dialAge, srv, forward, cand,
                   runVars, cancelled>>

\* runHandshake: the peer's E2EClose code decides whether the error is
\* retryable; any other error is.
HandshakeOK(h) ==
    /\ pc[h] = "handshake" /\ held[h] \in alive
    /\ Goto(h, "proxy", held[h])
    /\ UNCHANGED <<sessionVars, alive, srv, handlerVars, runVars, cancelled>>

HandshakeFail(h) ==
    /\ pc[h] = "handshake"
    /\ \E retryable \in BOOLEAN : CandidateFailed(h, retryable)
    /\ UNCHANGED <<sessionVars, alive, runVars, cancelled>>

\* The proxy ends by its endpoints or because the connection died.
ProxyEnd(h) ==
    /\ pc[h] = "proxy"
    /\ Goto(h, "idle", NoConn)
    /\ retried' = retried \ {h}
    /\ UNCHANGED <<sessionVars, alive, srv, forward, cand, runVars, cancelled>>

handleLocalConnection(h) ==
    \/ connection(h) \/ NoConnection(h) \/ StreamOK(h) \/ StreamRejected(h)
    \/ StreamBroken(h) \/ dropConnection(h) \/ HandshakeOK(h) \/ HandshakeFail(h)
    \/ ProxyEnd(h)

-----------------------------------------------------------------------------
(* acceptForward. *)

\* Broken variant of Accept: candidates are counted from zero.
AcceptFromZero(f) ==
    /\ acceptor[f] = "accept" /\ f \in listening
    /\ \E h \in Handlers :
         /\ pc[h] = "idle"
         /\ forward' = [forward EXCEPT ![h] = f]
         /\ cand' = [cand EXCEPT ![h] = 0]
         /\ srv' = [srv EXCEPT ![h] = Candidates[f][1].server]
         /\ Goto(h, "connect", NoConn)
    /\ UNCHANGED <<sessionVars, alive, retried, runVars, cancelled>>

Accept(f) ==
    /\ acceptor[f] = "accept" /\ f \in listening
    /\ \E h \in Handlers :
         /\ pc[h] = "idle"
         /\ forward' = [forward EXCEPT ![h] = f]
         /\ cand' = [cand EXCEPT ![h] = 1]
         /\ srv' = [srv EXCEPT ![h] = Candidates[f][1].server]
         /\ Goto(h, "connect", NoConn)
    /\ UNCHANGED <<sessionVars, alive, retried, runVars, cancelled>>

\* Accept fails, because the listener was closed or by itself.
AcceptErr(f) ==
    /\ acceptor[f] = "accept"
    /\ acceptor' = [acceptor EXCEPT ![f] = IF cancelled THEN "done" ELSE "send"]
    /\ UNCHANGED <<sessionVars, alive, pc, srv, held, handlerVars, todo,
                   listening, errCh, cancelled>>

\* Broken variant of SendErr: the accept loop goes on after its error.
SendErrContinues(f) ==
    /\ acceptor[f] = "send" /\ errCh < Cardinality(Forwards)
    /\ acceptor' = [acceptor EXCEPT ![f] = "accept"]
    /\ errCh' = errCh + 1
    /\ UNCHANGED <<sessionVars, alive, pc, srv, held, handlerVars, todo,
                   listening, cancelled>>

\* errCh <- err, a channel with room for one error per listener.
SendErr(f) ==
    /\ acceptor[f] = "send" /\ errCh < Cardinality(Forwards)
    /\ acceptor' = [acceptor EXCEPT ![f] = "done"]
    /\ errCh' = errCh + 1
    /\ UNCHANGED <<sessionVars, alive, pc, srv, held, handlerVars, todo,
                   listening, cancelled>>

-----------------------------------------------------------------------------
(* Run. *)

MainGoto(label) == Goto(Main, label, NoConn)

ConnectAllNext ==
    /\ pc[Main] = "connectAll"
    /\ \E s \in todo : srv' = [srv EXCEPT ![Main] = s] /\ todo' = todo \ {s}
    /\ MainGoto("connect")
    /\ UNCHANGED <<sessionVars, alive, handlerVars, acceptor, listening, errCh,
                   cancelled>>

ConnectAllOK ==
    /\ pc[Main] = "open"
    /\ MainGoto("connectAll")
    /\ UNCHANGED <<sessionVars, alive, srv, handlerVars, runVars, cancelled>>

\* Broken variant of StartupFail: an unreachable upstream is tried for ever.
StartupRetries ==
    /\ pc[Main] = "err"
    /\ todo' = todo \cup {srv[Main]}
    /\ MainGoto("connectAll")
    /\ UNCHANGED <<sessionVars, alive, srv, handlerVars, acceptor, listening, errCh,
                   cancelled>>

\* An upstream that cannot be reached, the E2E runtime or a listener fails:
\* Run returns the error. Sessions connected so far stay open.
StartupFail ==
    /\ pc[Main] = "err" \/ (pc[Main] = "connectAll" /\ todo = {})
    /\ MainGoto("failed")
    /\ UNCHANGED <<sessionVars, alive, srv, handlerVars, runVars, cancelled>>

StartListeners ==
    /\ pc[Main] = "connectAll" /\ todo = {}
    /\ listening' = Forwards
    /\ acceptor' = [f \in Forwards |-> "accept"]
    /\ MainGoto("run")
    /\ UNCHANGED <<sessionVars, alive, srv, handlerVars, todo, errCh, cancelled>>

\* The select of Run, and closeListeners.
Shutdown ==
    /\ pc[Main] = "run"
    /\ \/ cancelled /\ UNCHANGED errCh
       \/ errCh > 0 /\ errCh' = errCh - 1
    /\ listening' = {}
    /\ todo' = Servers
    /\ MainGoto("close")
    /\ UNCHANGED <<sessionVars, alive, srv, handlerVars, acceptor, cancelled>>

\* Broken variant of Close: the session is marked, its connection not closed.
CloseMarks(s) ==
    /\ pc[Main] = "close" /\ s \in todo /\ mu[s] = Nobody
    /\ closed' = [closed EXCEPT ![s] = TRUE]
    /\ todo' = todo \ {s}
    /\ UNCHANGED <<conn, failCount, wait, mu, dialAge, alive, pc, srv, held,
                   handlerVars, acceptor, listening, errCh, cancelled>>

Close(s) ==
    /\ pc[Main] = "close" /\ s \in todo /\ mu[s] = Nobody
    /\ closed' = [closed EXCEPT ![s] = TRUE]
    /\ alive' = alive \ {conn[s]}
    /\ conn' = [conn EXCEPT ![s] = NoConn]
    /\ todo' = todo \ {s}
    /\ UNCHANGED <<failCount, wait, mu, dialAge, pc, srv, held, handlerVars,
                   acceptor, listening, errCh, cancelled>>

CloseDone ==
    /\ pc[Main] = "close" /\ todo = {}
    /\ MainGoto("waitAccept")
    /\ UNCHANGED <<sessionVars, alive, srv, handlerVars, runVars, cancelled>>

\* Broken variant of AcceptorsDone: the accept loops are not waited for.
AcceptorsIgnored ==
    /\ pc[Main] = "waitAccept"
    /\ MainGoto("waitHandlers")
    /\ UNCHANGED <<sessionVars, alive, srv, handlerVars, runVars, cancelled>>

\* acceptWG first, so that no handler starts while handlerWG is waited for.
AcceptorsDone ==
    /\ pc[Main] = "waitAccept" /\ \A f \in Forwards : acceptor[f] = "done"
    /\ MainGoto("waitHandlers")
    /\ UNCHANGED <<sessionVars, alive, srv, handlerVars, runVars, cancelled>>

HandlersDone ==
    /\ pc[Main] = "waitHandlers" /\ \A h \in Handlers : pc[h] = "idle"
    /\ MainGoto("stopped")
    /\ UNCHANGED <<sessionVars, alive, srv, handlerVars, runVars, cancelled>>

\* Either wait may time out; Run then returns an error at once.
WaitTimeout ==
    /\ pc[Main] \in {"waitAccept", "waitHandlers"}
    /\ MainGoto("timedOut")
    /\ UNCHANGED <<sessionVars, alive, srv, handlerVars, runVars, cancelled>>

Startup ==
    connection(Main) \/ ConnectAllNext \/ ConnectAllOK \/ StartupFail \/ StartListeners
Stop ==
    \/ Shutdown \/ (\E s \in Servers : Close(s)) \/ CloseDone
    \/ AcceptorsDone \/ HandlersDone \/ WaitTimeout

-----------------------------------------------------------------------------
(* The environment. *)

ConnDies(c) ==
    /\ c \in alive
    /\ alive' = alive \ {c}
    /\ UNCHANGED <<sessionVars, pc, srv, held, handlerVars, runVars, cancelled>>

Cancel ==
    /\ ~cancelled /\ cancelled' = TRUE
    /\ UNCHANGED <<sessionVars, alive, pc, srv, held, handlerVars, runVars>>

Less(t) == IF t > 0 THEN t - 1 ELSE 0

\* A dial ends before its timeout passes.
Tick ==
    /\ \E s \in Servers : wait[s] > 0 \/ mu[s] # Nobody
    /\ \A s \in Servers : dialAge[s] < DialTimeout
    /\ wait' = [s \in Servers |-> Less(wait[s])]
    /\ dialAge' = [s \in Servers |-> IF mu[s] # Nobody THEN dialAge[s] + 1 ELSE 0]
    /\ UNCHANGED <<conn, closed, failCount, mu, alive, pc, srv, held, handlerVars,
                   runVars, cancelled>>

Returned == pc[Main] \in {"stopped", "failed", "timedOut"}

\* Run has returned and nothing is left to do.
Terminated ==
    /\ Returned /\ alive = {}
    /\ \A h \in Handlers : pc[h] = "idle"
    /\ UNCHANGED vars

Next ==
    \/ Startup \/ Stop
    \/ \E h \in Handlers : handleLocalConnection(h)
    \/ \E f \in Forwards : Accept(f) \/ AcceptErr(f) \/ SendErr(f)
    \/ \E c \in Conn : ConnDies(c)
    \/ Cancel \/ Tick \/ Terminated

Spec == Init /\ [][Next]_vars

-----------------------------------------------------------------------------
(* Fairness: goroutines that can run do; a mutex is handed over fairly (Go's *)
(* sync.Mutex starves nobody); a dial ends by its timeout. Nothing says that *)
(* a server answers, so waiting for an answer only has to end once the       *)
(* connection is dead. A proxy need not end even then: both its copies may   *)
(* be blocked on the local application. The timer of waitGroupTimeout fires. *)

Unblocked(h) ==
    /\ held[h] \notin alive
    /\ StreamBroken(h) \/ HandshakeFail(h)

FairHandler(h) ==
    /\ SF_vars(ConnectLive(h) \/ ConnectErr(h) \/ ConnectDial(h))
    /\ SF_vars(dropConnection(h))
    /\ WF_vars(DialFail(h) \/ DialOK(h))
    /\ WF_vars(NoConnection(h))
    /\ WF_vars(Unblocked(h))

Fairness ==
    /\ \A h \in Handlers : FairHandler(h)
    /\ \A f \in Forwards : WF_vars(f \notin listening /\ AcceptErr(f))
                             /\ WF_vars(SendErr(f))
    /\ WF_vars(Startup)
    /\ WF_vars(Shutdown) /\ WF_vars(CloseDone)
    /\ \A s \in Servers : SF_vars(Close(s))
    /\ WF_vars(AcceptorsDone) /\ WF_vars(HandlersDone) /\ WF_vars(WaitTimeout)

FairSpec == Spec /\ Fairness

-----------------------------------------------------------------------------
(* Properties. *)

HandlerPCs == {"idle", "connect", "dial", "err", "open", "drop", "handshake", "proxy"}
MainPCs == {"connectAll", "connect", "dial", "err", "open", "run", "close",
            "waitAccept", "waitHandlers", "stopped", "failed", "timedOut"}

\* The type of every variable.
TypeOK ==
    /\ conn \in [Servers -> Conn \cup {NoConn}]
    /\ closed \in [Servers -> BOOLEAN]
    /\ failCount \in [Servers -> 0..Len(Backoff)]
    /\ wait \in [Servers -> Nat]
    /\ mu \in [Servers -> Goroutines \cup {Nobody}]
    /\ dialAge \in [Servers -> 0..DialTimeout]
    /\ alive \in SUBSET Conn
    /\ pc \in [Goroutines -> HandlerPCs \cup MainPCs]
    /\ srv \in [Goroutines -> Servers]
    /\ held \in [Goroutines -> Conn \cup {NoConn}]
    /\ forward \in [Handlers -> Forwards]
    /\ cand \in [Handlers -> Nat \ {0}]
    /\ retried \in SUBSET Handlers
    /\ todo \in SUBSET Servers
    /\ acceptor \in [Forwards -> {"off", "accept", "send", "done"}]
    /\ listening \in SUBSET Forwards
    /\ errCh \in 0..Cardinality(Forwards)
    /\ cancelled \in BOOLEAN

\* No upstream connection leaks: every open connection is the current one of
\* a session that has not been closed, so there is at most one per upstream
\* and none survives Close, however many handlers reconnect at once.
NoLeakedConnection ==
    \A c \in alive : \E s \in Servers : conn[s] = c /\ ~closed[s]

\* An upstream is dialed by one goroutine at a time, only when it has no live
\* connection, and never after its session was closed.
DialsAreExclusive ==
    \A g \in Goroutines : pc[g] = "dial" =>
        /\ mu[srv[g]] = g /\ ~closed[srv[g]] /\ conn[srv[g]] = NoConn

\* "successful reconnect resets the backoff state": an upstream with a live
\* connection has no failures and no delay.
LiveMeansNoBackoff ==
    \A s \in Servers : conn[s] \in alive => failCount[s] = 0 /\ wait[s] = 0

\* When Run returns without a timeout after it had started, nothing it
\* started is left: no connection, no handler, no accept loop.
ReturnedMeansQuiet ==
    pc[Main] = "stopped" =>
        /\ alive = {}
        /\ \A h \in Handlers : pc[h] = "idle"
        /\ \A f \in Forwards : acceptor[f] = "done"

\* An accept loop that reports its error never waits for Run, which receives
\* one error at most: errCh has room for it, whatever the other loops sent.
ErrSendNeverBlocks ==
    \A f \in Forwards : acceptor[f] = "send" => errCh < Cardinality(Forwards)

\* Once Run shuts down, because of the context or of a listener error, every
\* handler ends for good, the ones waiting for an answer or for a dial
\* included; only one that proxies may stay, over a connection that is closed,
\* until its local application reads, writes or ends.
ShutdownEndsHandlers ==
    pc[Main] = "close" ~>
        [](\A h \in Handlers :
             pc[h] = "idle" \/ (pc[h] = "proxy" /\ held[h] \notin alive))

\* Run returns after the context is done, at whatever point that happens.
RunReturns == cancelled ~> Returned

\* A handler that needs a connection gets one or an error.
ConnectEnds ==
    \A h \in Handlers : pc[h] = "connect" ~> pc[h] # "connect" /\ pc[h] # "dial"

\* The documented "reconnect backoff after failed dial attempts": when a dial
\* has failed, the next attempt has to wait.
BackoffAfterFailedDial ==
    [][\A h \in Handlers : pc[h] = "dial" /\ pc'[h] = "err" =>
          wait'[srv[h]] > 0]_vars
=============================================================================
