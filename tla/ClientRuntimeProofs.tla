------------------------- MODULE ClientRuntimeProofs -------------------------
(***************************************************************************)
(* Safety of ClientRuntime for any number of upstreams, listeners,         *)
(* handlers and connections.                                               *)
(***************************************************************************)
EXTENDS ClientRuntime, FiniteSetTheorems, TLAPS

\* The session part: what the mutex held across the dial buys.
Sessions == DialsAreExclusive /\ NoLeakedConnection /\ LiveMeansNoBackoff

IInv == TypeOK /\ Sessions

\* What the assumptions on the constants say, in the form the proofs use.
LEMMA Ids ==
    /\ Main \in Goroutines /\ Handlers \subseteq Goroutines
    /\ Main \notin Handlers /\ Nobody \notin Goroutines
    /\ NoConn \notin Conn
  BY ClientAssumption DEF Goroutines

\* The table has an entry, and every delay taken from it is a number.
LEMMA BackoffType ==
    /\ Len(Backoff) \in Nat /\ Len(Backoff) > 0 /\ DialTimeout \in Nat
    /\ \A n \in 0..Len(Backoff) : DialDelay(n) \in Nat
<1>1. Len(Backoff) \in Nat /\ Len(Backoff) > 0 /\ DialTimeout \in Nat
  BY ClientAssumption
<1>2. \A i \in 1..Len(Backoff) : Backoff[i] \in Nat
  BY ClientAssumption
<1> QED BY <1>1, <1>2 DEF DialDelay

\* The error channel's capacity, the number of listeners, is a number.
LEMMA CapacityType == Cardinality(Forwards) \in Nat
  BY ClientAssumption, FS_CardinalityType

\* An element of a sequence over S is in S.
LEMMA SeqElement ==
    ASSUME NEW S, NEW q \in Seq(S), NEW i \in 1..Len(q)
    PROVE  q[i] \in S
  OBVIOUS

\* Every candidate of a forward names a configured server.
LEMMA RouteType ==
    /\ \A f \in Forwards : Candidates[f][1].server \in Servers
    /\ \A f \in Forwards, n \in Nat \ {0} :
         n < Len(Candidates[f]) => Candidates[f][n + 1].server \in Servers
<1>1. \A f \in Forwards :
        /\ Candidates[f] \in Seq([server : Servers, e2e : BOOLEAN])
        /\ Len(Candidates[f]) > 0
  BY ClientAssumption
<1>2. \A f \in Forwards, i \in Nat :
        1 <= i /\ i <= Len(Candidates[f]) => Candidates[f][i].server \in Servers
  <2> SUFFICES ASSUME NEW f \in Forwards, NEW i \in Nat,
                      1 <= i, i <= Len(Candidates[f])
               PROVE  Candidates[f][i].server \in Servers
    OBVIOUS
  <2>1. i \in 1..Len(Candidates[f])
    BY <1>1
  <2>2. Candidates[f][i] \in [server : Servers, e2e : BOOLEAN]
    BY <1>1, <2>1, SeqElement
  <2> QED BY <2>2
<1>3. \A f \in Forwards : Len(Candidates[f]) \in Nat /\ Len(Candidates[f]) >= 1
  BY <1>1
<1> QED BY <1>2, <1>3

-----------------------------------------------------------------------------
(* Types. *)

\* The initial state is well typed.
LEMMA TypeInit == Init => TypeOK
<1> SUFFICES ASSUME Init PROVE TypeOK
  OBVIOUS
<1>1. (CHOOSE s \in Servers : TRUE) \in Servers
      /\ (CHOOSE f \in Forwards : TRUE) \in Forwards
  BY ClientAssumption
<1>2. srv \in [Goroutines -> Servers] /\ forward \in [Handlers -> Forwards]
  BY <1>1 DEF Init
<1>3. /\ failCount \in [Servers -> 0..Len(Backoff)]
      /\ dialAge \in [Servers -> 0..DialTimeout]
  BY BackoffType DEF Init
<1>4. pc \in [Goroutines -> HandlerPCs \cup MainPCs]
  BY DEF Init, HandlerPCs, MainPCs
<1>5. /\ conn \in [Servers -> Conn \cup {NoConn}] /\ closed \in [Servers -> BOOLEAN]
      /\ wait \in [Servers -> Nat] /\ mu \in [Servers -> Goroutines \cup {Nobody}]
      /\ held \in [Goroutines -> Conn \cup {NoConn}]
      /\ cand \in [Handlers -> Nat \ {0}]
      /\ acceptor \in [Forwards -> {"off", "accept", "send", "done"}]
      /\ alive = {} /\ retried = {} /\ todo = Servers /\ listening = {}
      /\ cancelled = FALSE
  BY DEF Init
<1>6. errCh \in 0..Cardinality(Forwards)
  BY CapacityType DEF Init
<1> QED BY <1>2, <1>3, <1>4, <1>5, <1>6 DEF TypeOK

\* The steps of connection keep the types.
LEMMA TypeConnection ==
    ASSUME TypeOK, NEW g \in Goroutines, connection(g)
    PROVE  TypeOK'
<1> USE Ids DEF HandlerPCs, MainPCs, Goto, handlerVars, runVars, TypeOK
<1>1. CASE ConnectLive(g) BY <1>1 DEF ConnectLive, sessionVars
<1>2. CASE ConnectErr(g) BY <1>2 DEF ConnectErr
<1>3. CASE ConnectDial(g) BY <1>3, BackoffType DEF ConnectDial
<1>4. CASE DialFail(g)
  <2>1. failCount' \in [Servers -> 0..Len(Backoff)]
    BY <1>4, BackoffType DEF DialFail, recordDialFailure
  <2>2. wait' \in [Servers -> Nat]
    <3>1. DialDelay(failCount[srv[g]]) \in Nat /\ dialAge[srv[g]] \in Nat
      BY BackoffType
    <3> DEFINE delay == DialDelay(failCount[srv[g]])
               left == IF delay > dialAge[srv[g]] THEN delay - dialAge[srv[g]] ELSE 0
    <3>2. wait' = [wait EXCEPT ![srv[g]] = left]
      BY <1>4 DEF DialFail, recordDialFailure
    <3>3. left \in Nat BY <3>1
    <3> HIDE DEF left
    <3> QED BY <3>2, <3>3
  <2>3. /\ mu' \in [Servers -> Goroutines \cup {Nobody}]
        /\ dialAge' \in [Servers -> 0..DialTimeout]
    BY <1>4, BackoffType DEF DialFail, Unlock
  <2>4. /\ pc' \in [Goroutines -> HandlerPCs \cup MainPCs]
        /\ held' \in [Goroutines -> Conn \cup {NoConn}]
    BY <1>4 DEF DialFail
  <2> QED BY <1>4, <2>1, <2>2, <2>3, <2>4 DEF DialFail
<1>5. CASE DialOK(g)
  BY <1>5, BackoffType DEF DialOK, resetDialBackoff, Unlock
<1> QED BY <1>1, <1>2, <1>3, <1>4, <1>5 DEF connection

\* So does moving on to the next candidate.
LEMMA TypeCandidate ==
    ASSUME TypeOK, NEW h \in Handlers, NEW r, CandidateFailed(h, r)
    PROVE  /\ pc' \in [Goroutines -> HandlerPCs \cup MainPCs]
           /\ srv' \in [Goroutines -> Servers]
           /\ held' \in [Goroutines -> Conn \cup {NoConn}]
           /\ forward' = forward
           /\ cand' \in [Handlers -> Nat \ {0}]
           /\ retried' \in SUBSET Handlers
<1>1. CASE r /\ ~cancelled /\ cand[h] < Len(Route(h))
  <2>1. /\ cand' = [cand EXCEPT ![h] = cand[h] + 1]
        /\ srv' = [srv EXCEPT ![h] = Route(h)[cand[h] + 1].server]
        /\ Goto(h, "connect", NoConn)
        /\ retried' = retried \ {h} /\ forward' = forward
    BY <1>1 DEF CandidateFailed
  <2>2. Route(h)[cand[h] + 1].server \in Servers
    BY <1>1, RouteType DEF Route, TypeOK
  <2> QED BY <2>1, <2>2, Ids DEF TypeOK, Goto, HandlerPCs
<1>2. CASE ~(r /\ ~cancelled /\ cand[h] < Len(Route(h)))
  BY <1>2, Ids DEF CandidateFailed, TypeOK, Goto, HandlerPCs
<1> QED BY <1>1, <1>2

\* The steps of handleLocalConnection keep the types.
LEMMA TypeHandler ==
    ASSUME TypeOK, NEW h \in Handlers, handleLocalConnection(h)
    PROVE  TypeOK'
<1> USE Ids DEF sessionVars, runVars
<1>1. CASE connection(h) BY <1>1, TypeConnection
<1>2. CASE NoConnection(h) BY <1>2, TypeCandidate DEF NoConnection, TypeOK
<1>3. CASE StreamOK(h)
  BY <1>3 DEF StreamOK, Goto, TypeOK, HandlerPCs, handlerVars
<1>4. CASE StreamRejected(h) BY <1>4, TypeCandidate DEF StreamRejected, TypeOK
<1>5. CASE StreamBroken(h)
  <2>1. CASE cancelled \/ h \in retried
    BY <1>5, <2>1, TypeCandidate DEF StreamBroken, TypeOK
  <2>2. CASE ~(cancelled \/ h \in retried)
    BY <1>5, <2>2 DEF StreamBroken, Goto, TypeOK, HandlerPCs, handlerVars
  <2> QED BY <2>1, <2>2
<1>6. CASE dropConnection(h)
  BY <1>6 DEF dropConnection, Goto, TypeOK, HandlerPCs
<1>7. CASE HandshakeOK(h)
  BY <1>7 DEF HandshakeOK, Goto, TypeOK, HandlerPCs, handlerVars
<1>8. CASE HandshakeFail(h) BY <1>8, TypeCandidate DEF HandshakeFail, TypeOK
<1>9. CASE ProxyEnd(h) BY <1>9 DEF ProxyEnd, Goto, TypeOK, HandlerPCs
<1> QED BY <1>1, <1>2, <1>3, <1>4, <1>5, <1>6, <1>7, <1>8, <1>9
  DEF handleLocalConnection

\* Every step keeps the types.
LEMMA TypeStep == TypeOK /\ [Next]_vars => TypeOK'
<1> SUFFICES ASSUME TypeOK, [Next]_vars PROVE TypeOK'
  OBVIOUS
<1> USE Ids DEF sessionVars, handlerVars, runVars
<1>1. CASE Startup
  <2> USE DEF MainGoto, Goto, TypeOK, MainPCs
  <2>1. CASE connection(Main) BY <2>1, TypeConnection
  <2>2. CASE ConnectAllNext BY <2>2 DEF ConnectAllNext
  <2>3. CASE ConnectAllOK BY <2>3 DEF ConnectAllOK
  <2>4. CASE StartupFail BY <2>4 DEF StartupFail
  <2>5. CASE StartListeners BY <2>5 DEF StartListeners
  <2> QED BY <1>1, <2>1, <2>2, <2>3, <2>4, <2>5 DEF Startup
<1>2. CASE Stop
  <2>1. CASE Shutdown
    <3>1. errCh' \in 0..Cardinality(Forwards)
      BY <2>1, CapacityType DEF Shutdown, TypeOK
    <3> QED BY <2>1, <3>1 DEF Shutdown, MainGoto, Goto, TypeOK, MainPCs
  <2>2. ASSUME NEW s \in Servers, Close(s) PROVE TypeOK'
    BY <2>2 DEF Close, TypeOK
  <2>3. CASE CloseDone \/ AcceptorsDone \/ HandlersDone \/ WaitTimeout
    BY <2>3 DEF CloseDone, AcceptorsDone, HandlersDone, WaitTimeout, MainGoto,
                Goto, TypeOK, MainPCs
  <2> QED BY <1>2, <2>1, <2>2, <2>3 DEF Stop
<1>3. ASSUME NEW h \in Handlers, handleLocalConnection(h) PROVE TypeOK'
  BY <1>3, TypeHandler
<1>4. ASSUME NEW f \in Forwards, Accept(f) \/ AcceptErr(f) \/ SendErr(f)
      PROVE  TypeOK'
  <2>1. CASE Accept(f)
    <3>1. PICK h \in Handlers :
            /\ forward' = [forward EXCEPT ![h] = f]
            /\ cand' = [cand EXCEPT ![h] = 1]
            /\ srv' = [srv EXCEPT ![h] = Candidates[f][1].server]
            /\ Goto(h, "connect", NoConn)
      BY <2>1 DEF Accept
    <3>2. Candidates[f][1].server \in Servers BY RouteType
    <3>3. /\ forward' \in [Handlers -> Forwards] /\ cand' \in [Handlers -> Nat \ {0}]
          /\ srv' \in [Goroutines -> Servers]
      BY <3>1, <3>2 DEF TypeOK
    <3>4. /\ pc' \in [Goroutines -> HandlerPCs \cup MainPCs]
          /\ held' \in [Goroutines -> Conn \cup {NoConn}]
      BY <3>1 DEF Goto, TypeOK, HandlerPCs
    <3> QED BY <2>1, <3>3, <3>4 DEF Accept, TypeOK
  <2>2. CASE AcceptErr(f) BY <2>2 DEF AcceptErr, TypeOK
  <2>3. CASE SendErr(f) BY <2>3, CapacityType DEF SendErr, TypeOK
  <2> QED BY <1>4, <2>1, <2>2, <2>3
<1>5. ASSUME NEW c \in Conn, ConnDies(c) PROVE TypeOK'
  BY <1>5 DEF ConnDies, TypeOK
<1>6. CASE Cancel \/ Terminated \/ UNCHANGED vars
  BY <1>6 DEF Cancel, Terminated, vars, TypeOK
<1>7. CASE Tick
  <2>1. wait' \in [Servers -> Nat] BY <1>7 DEF Tick, Less, TypeOK
  <2>2. dialAge' \in [Servers -> 0..DialTimeout]
    <3>1. \A s \in Servers :
            dialAge[s] \in 0..DialTimeout /\ dialAge[s] < DialTimeout
      BY <1>7 DEF Tick, TypeOK
    <3>2. \A s \in Servers : (IF mu[s] # Nobody THEN dialAge[s] + 1 ELSE 0)
                                \in 0..DialTimeout
      BY <3>1, BackoffType
    <3> QED BY <1>7, <3>2 DEF Tick
  <2> QED BY <1>7, <2>1, <2>2 DEF Tick, TypeOK
<1> QED BY <1>1, <1>2, <1>3, <1>4, <1>5, <1>6, <1>7 DEF Next

\* The client's state is well typed in every reachable state.
THEOREM TypeCorrect == Spec => []TypeOK
  BY TypeInit, TypeStep, PTL DEF Spec

-----------------------------------------------------------------------------
(* Sessions. *)

\* Steps that leave the sessions alone: connections may die, and goroutines
\* move without beginning a dial.
LEMMA QuietStep ==
    ASSUME TypeOK, Sessions,
           UNCHANGED <<conn, closed, failCount, wait, mu>>,
           alive' \subseteq alive,
           \A g \in Goroutines :
               pc'[g] = "dial" => pc[g] = "dial" /\ srv'[g] = srv[g]
    PROVE  Sessions'
<1> USE DEF Sessions
<1>1. DialsAreExclusive' BY DEF DialsAreExclusive
<1>2. NoLeakedConnection' BY DEF NoLeakedConnection
<1>3. LiveMeansNoBackoff' BY DEF LiveMeansNoBackoff
<1> QED BY <1>1, <1>2, <1>3

\* A quiet step in which one goroutine moves.
LEMMA QuietGoto ==
    ASSUME TypeOK, Sessions, NEW g \in Goroutines, NEW label, NEW c,
           Goto(g, label, c), label # "dial",
           \A h \in Goroutines : h # g => srv'[h] = srv[h],
           UNCHANGED sessionVars, UNCHANGED alive
    PROVE  Sessions'
<1>1. \A h \in Goroutines :
        pc'[h] = "dial" => pc[h] = "dial" /\ srv'[h] = srv[h]
  BY DEF TypeOK, Goto
<1> QED BY <1>1, QuietStep DEF sessionVars

\* Goto moves one goroutine and no other.
LEMMA GotoEffect ==
    ASSUME TypeOK, NEW g \in Goroutines, NEW label, NEW c, Goto(g, label, c)
    PROVE  /\ pc'[g] = label
           /\ \A h \in Goroutines : h # g => pc'[h] = pc[h]
  BY DEF TypeOK, Goto

\* The steps of connection keep the session invariant: the mutex is held from
\* the check for a live connection to the end of the dial.
LEMMA SessionsConnection ==
    ASSUME TypeOK, Sessions, NEW g \in Goroutines, connection(g)
    PROVE  Sessions'
<1> USE Ids
<1> DEFINE s == srv[g]
<1>s. s \in Servers BY DEF TypeOK
<1>1. CASE ConnectLive(g) BY <1>1, QuietGoto DEF ConnectLive
<1>2. CASE ConnectErr(g)
  <2>1. /\ mu[s] = Nobody /\ Goto(g, "err", NoConn)
        /\ UNCHANGED <<closed, failCount, wait, mu, alive, srv>>
        /\ conn' = conn \/ (conn[s] \notin alive /\ conn' = [conn EXCEPT ![s] = NoConn])
    BY <1>2 DEF ConnectErr
  <2>2. pc'[g] = "err" /\ \A h \in Goroutines : h # g => pc'[h] = pc[h]
    BY <2>1, GotoEffect
  <2> HIDE DEF s
  <2>3. DialsAreExclusive'
    BY <1>s, <2>1, <2>2 DEF Sessions, DialsAreExclusive, TypeOK
  <2>4. NoLeakedConnection'
    BY <1>s, <2>1 DEF Sessions, NoLeakedConnection, TypeOK
  <2>5. LiveMeansNoBackoff'
    BY <1>s, <2>1 DEF Sessions, LiveMeansNoBackoff, TypeOK
  <2> QED BY <2>3, <2>4, <2>5 DEF Sessions
<1>3. CASE ConnectDial(g)
  <2>1. /\ mu[s] = Nobody /\ Goto(g, "dial", NoConn)
        /\ ~closed[s] /\ conn[s] \notin alive
        /\ conn' = [conn EXCEPT ![s] = NoConn] /\ mu' = [mu EXCEPT ![s] = g]
        /\ UNCHANGED <<closed, failCount, wait, alive, srv>>
    BY <1>3 DEF ConnectDial
  <2>2. pc'[g] = "dial" /\ \A h \in Goroutines : h # g => pc'[h] = pc[h]
    BY <2>1, GotoEffect
  <2>3. DialsAreExclusive'
    BY <1>s, <2>1, <2>2 DEF Sessions, DialsAreExclusive, TypeOK
  <2> HIDE DEF s
  <2>4. NoLeakedConnection' /\ LiveMeansNoBackoff'
    BY <1>s, <2>1 DEF Sessions, NoLeakedConnection, LiveMeansNoBackoff, TypeOK
  <2> QED BY <2>3, <2>4 DEF Sessions
<1>4. CASE DialFail(g)
  <2>1. /\ pc[g] = "dial" /\ Goto(g, "err", NoConn)
        /\ mu' = [mu EXCEPT ![s] = Nobody]
        /\ \A t \in Servers : t # s => failCount'[t] = failCount[t] /\ wait'[t] = wait[t]
        /\ UNCHANGED <<conn, closed, alive, srv>>
    BY <1>4 DEF DialFail, Unlock, recordDialFailure, TypeOK
  <2>2. pc'[g] = "err" /\ \A h \in Goroutines : h # g => pc'[h] = pc[h]
    BY <2>1, GotoEffect
  <2>3. mu[s] = g /\ conn[s] = NoConn
    BY <2>1 DEF Sessions, DialsAreExclusive
  <2>4. DialsAreExclusive'
    BY <1>s, <2>1, <2>2, <2>3 DEF Sessions, DialsAreExclusive, TypeOK
  <2>5. NoLeakedConnection' /\ LiveMeansNoBackoff'
    BY <1>s, <2>1, <2>3
    DEF Sessions, NoLeakedConnection, LiveMeansNoBackoff, TypeOK
  <2> QED BY <2>4, <2>5 DEF Sessions
<1>5. CASE DialOK(g)
  <2>1. PICK c \in Conn :
          /\ Fresh(c) /\ alive' = alive \cup {c}
          /\ conn' = [conn EXCEPT ![s] = c] /\ Goto(g, "open", c)
    BY <1>5 DEF DialOK
  <2>2. /\ pc[g] = "dial" /\ mu' = [mu EXCEPT ![s] = Nobody]
        /\ failCount' = [failCount EXCEPT ![s] = 0] /\ wait' = [wait EXCEPT ![s] = 0]
        /\ UNCHANGED <<closed, srv>>
    BY <1>5 DEF DialOK, Unlock, resetDialBackoff
  <2>3. pc'[g] = "open" /\ \A h \in Goroutines : h # g => pc'[h] = pc[h]
    BY <2>1, GotoEffect
  <2>4. mu[s] = g /\ conn[s] = NoConn /\ ~closed[s]
    BY <2>2 DEF Sessions, DialsAreExclusive
  <2>5. DialsAreExclusive'
    BY <1>s, <2>1, <2>2, <2>3, <2>4 DEF Sessions, DialsAreExclusive, TypeOK
  <2>6. NoLeakedConnection'
    BY <1>s, <2>1, <2>2, <2>4 DEF Sessions, NoLeakedConnection, TypeOK
  <2>7. LiveMeansNoBackoff'
    BY <1>s, <2>1, <2>2 DEF Sessions, LiveMeansNoBackoff, TypeOK, Fresh
  <2> QED BY <2>5, <2>6, <2>7 DEF Sessions
<1> QED BY <1>1, <1>2, <1>3, <1>4, <1>5 DEF connection

\* The steps of handleLocalConnection keep it; dropConnection closes what it
\* forgets.
LEMMA SessionsHandler ==
    ASSUME TypeOK, Sessions, NEW h \in Handlers, handleLocalConnection(h)
    PROVE  Sessions'
<1> USE Ids
<1>0. ASSUME NEW r, CandidateFailed(h, r), UNCHANGED sessionVars, UNCHANGED alive
      PROVE  Sessions'
  <2>1. /\ Goto(h, "connect", NoConn) \/ Goto(h, "idle", NoConn)
        /\ \A g \in Goroutines : g # h => srv'[g] = srv[g]
    BY <1>0 DEF CandidateFailed, TypeOK
  <2> QED BY <1>0, <2>1, QuietGoto
<1>1. CASE connection(h) BY <1>1, SessionsConnection
<1>2. CASE NoConnection(h) BY <1>0, <1>2 DEF NoConnection
<1>3. CASE StreamOK(h)
  <2>1. Goto(h, "handshake", held[h]) \/ Goto(h, "proxy", held[h])
    BY <1>3 DEF StreamOK
  <2> QED BY <1>3, <2>1, QuietGoto DEF StreamOK
<1>4. CASE StreamRejected(h) BY <1>0, <1>4 DEF StreamRejected
<1>5. CASE StreamBroken(h) BY <1>0, <1>5, QuietGoto DEF StreamBroken
<1>6. CASE dropConnection(h)
  <2> DEFINE s == srv[h]
  <2>1. /\ mu[s] = Nobody /\ Goto(h, "connect", NoConn)
        /\ UNCHANGED <<closed, failCount, wait, mu, srv>>
        /\ \/ UNCHANGED <<conn, alive>>
           \/ /\ conn[s] = held[h] /\ conn' = [conn EXCEPT ![s] = NoConn]
              /\ alive' = alive \ {held[h]}
    BY <1>6 DEF dropConnection
  <2>2. pc'[h] = "connect" /\ \A g \in Goroutines : g # h => pc'[g] = pc[g]
    BY <2>1, GotoEffect
  <2>3. s \in Servers BY DEF TypeOK
  <2> HIDE DEF s
  <2>4. DialsAreExclusive'
    BY <2>1, <2>2, <2>3 DEF Sessions, DialsAreExclusive, TypeOK
  <2>5. NoLeakedConnection'
    <3> SUFFICES ASSUME NEW c \in alive'
                 PROVE  \E t \in Servers : conn'[t] = c /\ ~closed'[t]
      BY DEF NoLeakedConnection
    <3>1. PICK t \in Servers : conn[t] = c /\ ~closed[t]
      BY <2>1 DEF Sessions, NoLeakedConnection
    <3>2. conn'[t] = c
      BY <2>1, <2>3, <3>1 DEF TypeOK
    <3> QED BY <2>1, <3>1, <3>2
  <2>6. LiveMeansNoBackoff'
    <3> SUFFICES ASSUME NEW t \in Servers, conn'[t] \in alive'
                 PROVE  failCount'[t] = 0 /\ wait'[t] = 0
      BY DEF LiveMeansNoBackoff
    <3>1. NoConn \notin alive BY ClientAssumption DEF TypeOK
    <3>2. conn'[t] = conn[t] /\ conn[t] \in alive
      <4>1. CASE UNCHANGED <<conn, alive>> BY <4>1
      <4>2. CASE /\ conn' = [conn EXCEPT ![s] = NoConn]
                 /\ alive' = alive \ {held[h]}
        BY <2>3, <3>1, <4>2 DEF TypeOK
      <4> QED BY <2>1, <4>1, <4>2
    <3> QED BY <2>1, <3>2 DEF Sessions, LiveMeansNoBackoff
  <2> QED BY <2>4, <2>5, <2>6 DEF Sessions
<1>7. CASE HandshakeOK(h) BY <1>7, QuietGoto DEF HandshakeOK
<1>8. CASE HandshakeFail(h) BY <1>0, <1>8 DEF HandshakeFail
<1>9. CASE ProxyEnd(h) BY <1>9, QuietGoto DEF ProxyEnd
<1> QED BY <1>1, <1>2, <1>3, <1>4, <1>5, <1>6, <1>7, <1>8, <1>9
  DEF handleLocalConnection

\* IInv is inductive.
LEMMA IInvInit == Init => IInv
<1>1. Init => Sessions
  BY Ids DEF Init, Sessions, DialsAreExclusive, NoLeakedConnection,
             LiveMeansNoBackoff
<1> QED BY <1>1, TypeInit DEF IInv

\* The inductive step: no operation of the client breaks IInv.
LEMMA IInvStep == IInv /\ [Next]_vars => IInv'
<1> SUFFICES ASSUME TypeOK, Sessions, [Next]_vars PROVE Sessions'
  BY TypeStep DEF IInv
<1> USE Ids
<1>1. CASE Startup
  <2> USE DEF MainGoto
  <2>1. CASE connection(Main) BY <2>1, SessionsConnection
  <2>2. CASE ConnectAllNext
    <3>1. \A h \in Goroutines : h # Main => srv'[h] = srv[h]
      BY <2>2 DEF ConnectAllNext, TypeOK
    <3> QED BY <2>2, <3>1, QuietGoto DEF ConnectAllNext
  <2>3. CASE ConnectAllOK BY <2>3, QuietGoto DEF ConnectAllOK
  <2>4. CASE StartupFail BY <2>4, QuietGoto DEF StartupFail
  <2>5. CASE StartListeners BY <2>5, QuietGoto DEF StartListeners
  <2> QED BY <1>1, <2>1, <2>2, <2>3, <2>4, <2>5 DEF Startup
<1>2. CASE Stop
  <2> USE DEF MainGoto
  <2>1. CASE Shutdown BY <2>1, QuietGoto DEF Shutdown
  <2>2. ASSUME NEW s \in Servers, Close(s) PROVE Sessions'
    BY <2>2 DEF Close, Sessions, DialsAreExclusive, NoLeakedConnection,
                LiveMeansNoBackoff, TypeOK
  <2>3. CASE CloseDone \/ AcceptorsDone \/ HandlersDone \/ WaitTimeout
    BY <2>3, QuietGoto DEF CloseDone, AcceptorsDone, HandlersDone, WaitTimeout
  <2> QED BY <1>2, <2>1, <2>2, <2>3 DEF Stop
<1>3. ASSUME NEW h \in Handlers, handleLocalConnection(h) PROVE Sessions'
  BY <1>3, SessionsHandler
<1>4. ASSUME NEW f \in Forwards, Accept(f) \/ AcceptErr(f) \/ SendErr(f)
      PROVE  Sessions'
  <2>1. CASE Accept(f)
    <3>1. PICK h \in Handlers : /\ srv' = [srv EXCEPT ![h] = Candidates[f][1].server]
                                /\ Goto(h, "connect", NoConn)
      BY <2>1 DEF Accept
    <3>2. \A g \in Goroutines : g # h => srv'[g] = srv[g] BY <3>1 DEF TypeOK
    <3> QED BY <2>1, <3>1, <3>2, QuietGoto DEF Accept
  <2>2. CASE AcceptErr(f) \/ SendErr(f)
    BY <2>2, QuietStep DEF AcceptErr, SendErr, sessionVars
  <2> QED BY <1>4, <2>1, <2>2
<1>5. ASSUME NEW c \in Conn, ConnDies(c) PROVE Sessions'
  BY <1>5, QuietStep DEF ConnDies, sessionVars
<1>6. CASE Cancel \/ Terminated \/ UNCHANGED vars
  BY <1>6, QuietStep DEF Cancel, Terminated, vars, sessionVars
<1>7. CASE Tick
  BY <1>7 DEF Tick, Less, Sessions, DialsAreExclusive, NoLeakedConnection,
              LiveMeansNoBackoff, TypeOK
<1> QED BY <1>1, <1>2, <1>3, <1>4, <1>5, <1>6, <1>7 DEF Next

\* In every reachable state the inductive invariant holds.
THEOREM Invariant == Spec => []IInv
  BY IInvInit, IInvStep, PTL DEF Spec

\* However many handlers reconnect at once, every open connection is the
\* current one of a session that is not closed.
THEOREM NoLeak == Spec => []NoLeakedConnection
<1>1. IInv => NoLeakedConnection BY DEF IInv, Sessions
<1> QED BY <1>1, Invariant, PTL

\* Dials of an upstream are exclusive, need a dead connection, and stop with
\* the session.
THEOREM ExclusiveDials == Spec => []DialsAreExclusive
<1>1. IInv => DialsAreExclusive BY DEF IInv, Sessions
<1> QED BY <1>1, Invariant, PTL

\* A live connection leaves no backoff behind.
THEOREM ResetOnReconnect == Spec => []LiveMeansNoBackoff
<1>1. IInv => LiveMeansNoBackoff BY DEF IInv, Sessions
<1> QED BY <1>1, Invariant, PTL
-----------------------------------------------------------------------------
(* The error channel. *)

StartupPCs == {"connectAll", "connect", "dial", "err", "open"}

Ended == {f \in Forwards : acceptor[f] = "done"}

\* Accept loops exist only once Run has started them, and sending its error is
\* the last act of a loop: errCh never holds more errors than loops ended.
OneErrorEach ==
    /\ pc[Main] \in StartupPCs => \A f \in Forwards : acceptor[f] = "off"
    /\ errCh <= Cardinality(Ended)

\* The ended loops can be counted, and one that has not ended leaves the count
\* below the number of listeners.
LEMMA EndedCount ==
    /\ IsFiniteSet(Ended) /\ Cardinality(Ended) \in Nat
    /\ \A f \in Forwards : acceptor[f] # "done" => Cardinality(Ended) < Cardinality(Forwards)
<1>1. Ended \in SUBSET Forwards BY DEF Ended
<1>2. IsFiniteSet(Ended) /\ Cardinality(Ended) <= Cardinality(Forwards)
      /\ (Cardinality(Forwards) = Cardinality(Ended) => Forwards = Ended)
  BY <1>1, ClientAssumption, FS_Subset
<1>3. Cardinality(Ended) \in Nat BY <1>2, FS_CardinalityType
<1>4. \A f \in Forwards : acceptor[f] # "done" => Forwards # Ended BY DEF Ended
<1> QED BY <1>2, <1>3, <1>4, CapacityType

\* A loop that ends adds one to the count.
LEMMA EndedGrows ==
    ASSUME TypeOK, NEW f \in Forwards, acceptor[f] # "done",
           acceptor' = [acceptor EXCEPT ![f] = "done"]
    PROVE  Cardinality(Ended') = Cardinality(Ended) + 1
<1>1. Ended' = Ended \cup {f} BY DEF Ended, TypeOK
<1>2. f \notin Ended BY DEF Ended
<1> QED BY <1>1, <1>2, EndedCount, FS_AddElement

\* Goroutines of handlers and of connection(Main) leave the accept loops alone.
LEMMA ErrorQuiet ==
    ASSUME TypeOK, OneErrorEach, UNCHANGED <<acceptor, errCh>>,
           pc'[Main] \in StartupPCs => pc[Main] \in StartupPCs
    PROVE  OneErrorEach'
  BY DEF OneErrorEach, Ended

\* OneErrorEach is inductive, given the types.
LEMMA OneErrorEachStep ==
    ASSUME TypeOK, OneErrorEach, [Next]_vars
    PROVE  OneErrorEach'
<1> USE Ids
<1>0. ASSUME NEW h \in Handlers, NEW label, NEW c, Goto(h, label, c)
      PROVE  pc'[Main] = pc[Main]
  BY <1>0 DEF Goto, TypeOK
<1>1. CASE Startup
  <2>1. CASE connection(Main)
    <3>1. pc[Main] \in StartupPCs
      BY <2>1 DEF connection, ConnectLive, ConnectErr, ConnectDial, DialFail,
                  DialOK, StartupPCs
    <3>2. UNCHANGED <<acceptor, errCh>>
      BY <2>1 DEF connection, ConnectLive, ConnectErr, ConnectDial, DialFail,
                  DialOK, runVars
    <3> QED BY <3>1, <3>2, ErrorQuiet
  <2>2. CASE ConnectAllNext \/ ConnectAllOK \/ StartupFail
    BY <2>2, ErrorQuiet DEF ConnectAllNext, ConnectAllOK, StartupFail, runVars,
                            StartupPCs
  <2>3. CASE StartListeners
    <3>1. Ended = {} /\ Ended' = {}
      BY <2>3 DEF StartListeners, OneErrorEach, StartupPCs, Ended
    <3>2. pc'[Main] = "run" /\ errCh' = errCh
      BY <2>3 DEF StartListeners, MainGoto, Goto, TypeOK
    <3>3. errCh' <= Cardinality(Ended')
      BY <3>1, <3>2 DEF OneErrorEach
    <3> QED BY <3>2, <3>3 DEF OneErrorEach, StartupPCs
  <2> QED BY <1>1, <2>1, <2>2, <2>3 DEF Startup
<1>2. CASE Stop
  <2>1. CASE Shutdown
    <3>1. errCh' \in Nat /\ errCh' <= errCh
      BY <2>1, CapacityType DEF Shutdown, TypeOK
    <3>2. Ended' = Ended /\ pc'[Main] = "close"
      BY <2>1 DEF Shutdown, MainGoto, Goto, TypeOK, Ended
    <3>3. errCh \in Nat BY CapacityType DEF TypeOK
    <3>4. errCh' <= Cardinality(Ended')
      BY <3>1, <3>2, <3>3, EndedCount DEF OneErrorEach
    <3> QED BY <3>2, <3>4 DEF OneErrorEach, StartupPCs
  <2>2. ASSUME NEW s \in Servers, Close(s) PROVE OneErrorEach'
    BY <2>2, ErrorQuiet DEF Close
  <2>3. CASE CloseDone \/ AcceptorsDone \/ HandlersDone \/ WaitTimeout
    <3>1. pc'[Main] \notin StartupPCs
      BY <2>3 DEF CloseDone, AcceptorsDone, HandlersDone, WaitTimeout, MainGoto,
                  Goto, TypeOK, StartupPCs
    <3> QED BY <2>3, <3>1, ErrorQuiet
        DEF CloseDone, AcceptorsDone, HandlersDone, WaitTimeout, runVars
  <2> QED BY <1>2, <2>1, <2>2, <2>3 DEF Stop
<1>3. ASSUME NEW h \in Handlers, handleLocalConnection(h) PROVE OneErrorEach'
  <2>1. UNCHANGED <<acceptor, errCh>>
    BY <1>3 DEF handleLocalConnection, connection, ConnectLive, ConnectErr,
                ConnectDial, DialFail, DialOK, NoConnection, StreamOK,
                StreamRejected, StreamBroken, dropConnection, HandshakeOK,
                HandshakeFail, ProxyEnd, runVars
  <2>2. pc'[Main] = pc[Main]
    BY <1>0, <1>3
    DEF handleLocalConnection, connection, ConnectLive, ConnectErr,
        ConnectDial, DialFail, DialOK, NoConnection, StreamOK, StreamRejected,
        StreamBroken, dropConnection, HandshakeOK, HandshakeFail, ProxyEnd,
        CandidateFailed
  <2> QED BY <2>1, <2>2, ErrorQuiet
<1>4. ASSUME NEW f \in Forwards, Accept(f) \/ AcceptErr(f) \/ SendErr(f)
      PROVE  OneErrorEach'
  <2>1. CASE Accept(f)
    BY <1>0, <2>1, ErrorQuiet DEF Accept, runVars
  <2>2. CASE AcceptErr(f)
    <3>1. \/ acceptor' = [acceptor EXCEPT ![f] = "done"]
          \/ acceptor' = [acceptor EXCEPT ![f] = "send"]
      BY <2>2 DEF AcceptErr
    <3>2. Cardinality(Ended') >= Cardinality(Ended) /\ Cardinality(Ended') \in Nat
      <4>1. CASE acceptor' = [acceptor EXCEPT ![f] = "done"]
        <5>1. acceptor[f] # "done" BY <2>2 DEF AcceptErr
        <5>2. Cardinality(Ended') = Cardinality(Ended) + 1
          BY <4>1, <5>1, EndedGrows
        <5>3. Cardinality(Ended) \in Nat BY EndedCount
        <5> QED BY <5>2, <5>3
      <4>2. CASE acceptor' = [acceptor EXCEPT ![f] = "send"]
        <5>1. Ended' = Ended BY <2>2, <4>2 DEF AcceptErr, Ended, TypeOK
        <5> QED BY <5>1, EndedCount
      <4> QED BY <3>1, <4>1, <4>2
    <3>3. errCh' = errCh /\ errCh \in Nat /\ pc' = pc
      BY <2>2, CapacityType DEF AcceptErr, TypeOK
    <3>4. errCh' <= Cardinality(Ended')
      BY <3>2, <3>3, EndedCount DEF OneErrorEach
    <3>5. pc[Main] \notin StartupPCs
      BY <2>2 DEF AcceptErr, OneErrorEach
    <3> QED BY <3>3, <3>4, <3>5 DEF OneErrorEach
  <2>3. CASE SendErr(f)
    <3>1. errCh' = errCh + 1 /\ errCh \in Nat /\ pc' = pc
      BY <2>3, CapacityType DEF SendErr, TypeOK
    <3>2. Cardinality(Ended') = Cardinality(Ended) + 1
      BY <2>3, EndedGrows DEF SendErr
    <3>3. errCh' <= Cardinality(Ended')
      BY <3>1, <3>2, EndedCount DEF OneErrorEach
    <3>4. pc[Main] \notin StartupPCs
      BY <2>3 DEF SendErr, OneErrorEach
    <3> QED BY <3>1, <3>3, <3>4 DEF OneErrorEach
  <2> QED BY <1>4, <2>1, <2>2, <2>3
<1>5. ASSUME NEW c \in Conn, ConnDies(c) PROVE OneErrorEach'
  BY <1>5, ErrorQuiet DEF ConnDies, runVars
<1>6. CASE Cancel \/ Tick \/ Terminated \/ UNCHANGED vars
  BY <1>6, ErrorQuiet DEF Cancel, Tick, Terminated, vars, runVars
<1> QED BY <1>1, <1>2, <1>3, <1>4, <1>5, <1>6 DEF Next

\* However many listeners fail, before or during the shutdown, no accept loop
\* blocks on the error channel.
THEOREM ErrSendFree == Spec => []ErrSendNeverBlocks
<1>1. Init => OneErrorEach
  <2> SUFFICES ASSUME Init PROVE OneErrorEach
    OBVIOUS
  <2>1. errCh = 0 /\ Cardinality(Ended) \in Nat BY EndedCount DEF Init
  <2>2. errCh <= Cardinality(Ended) BY <2>1
  <2> QED BY <2>2 DEF Init, OneErrorEach
<1>2. TypeOK /\ OneErrorEach /\ [Next]_vars => OneErrorEach'
  BY OneErrorEachStep
<1>3. TypeOK /\ OneErrorEach => ErrSendNeverBlocks
  <2> SUFFICES ASSUME TypeOK, OneErrorEach, NEW f \in Forwards, acceptor[f] = "send"
               PROVE  errCh < Cardinality(Forwards)
    BY DEF ErrSendNeverBlocks
  <2>1. Cardinality(Ended) < Cardinality(Forwards) /\ Cardinality(Ended) \in Nat
    BY EndedCount
  <2>2. errCh \in Nat /\ errCh <= Cardinality(Ended)
    BY CapacityType DEF TypeOK, OneErrorEach
  <2> QED BY <2>1, <2>2, CapacityType
<1> QED BY <1>1, <1>2, <1>3, TypeCorrect, PTL DEF Spec

-----------------------------------------------------------------------------
(* The shutdown of Run. *)

WaitPCs == {"waitAccept", "waitHandlers", "stopped"}

\* What each stage of the shutdown has seen to: sessions closed, then accept
\* loops ended, then handlers ended.
Stages ==
    /\ pc[Main] \in WaitPCs => todo = {}
    /\ pc[Main] \in {"close"} \cup WaitPCs => \A s \in Servers \ todo : closed[s]
    /\ pc[Main] \in {"waitHandlers", "stopped"} => \A f \in Forwards : acceptor[f] = "done"
    /\ pc[Main] = "stopped" => \A h \in Handlers : pc[h] = "idle"

\* An accept loop that has ended starts no handler, and an idle handler stays so
\* by itself.
LEMMA StagesStep ==
    ASSUME TypeOK, Stages, [Next]_vars
    PROVE  Stages'
<1> USE Ids
<1>0. ASSUME pc'[Main] \notin {"close"} \cup WaitPCs PROVE Stages'
  BY <1>0 DEF Stages, WaitPCs
<1>1. ASSUME pc'[Main] = pc[Main], UNCHANGED <<closed, todo>>,
             \A f \in Forwards : acceptor[f] = "done" => acceptor'[f] = "done",
             pc[Main] = "stopped" => \A h \in Handlers : pc[h] = "idle" => pc'[h] = "idle"
      PROVE  Stages'
  BY <1>1 DEF Stages
<1>2. ASSUME NEW h \in Handlers, NEW label, NEW c, Goto(h, label, c), pc[h] # "idle",
             UNCHANGED <<closed, todo, acceptor>>
      PROVE  Stages'
  <2>1. /\ pc'[Main] = pc[Main]
        /\ \A k \in Handlers : pc[k] = "idle" => pc'[k] = "idle"
    BY <1>2 DEF Goto, TypeOK
  <2> QED BY <1>1, <1>2, <2>1
<1>3. CASE Startup
  <2>1. pc'[Main] \notin {"close"} \cup WaitPCs
    BY <1>3 DEF Startup, connection, ConnectLive, ConnectErr, ConnectDial, DialFail,
       DialOK, ConnectAllNext, ConnectAllOK, StartupFail, StartListeners, MainGoto, Goto,
       TypeOK, WaitPCs
  <2> QED BY <1>0, <2>1
<1>4. CASE Stop
  <2> USE DEF MainGoto, Goto, TypeOK, WaitPCs
  <2>1. CASE Shutdown BY <2>1 DEF Shutdown, Stages
  <2>2. ASSUME NEW s \in Servers, Close(s) PROVE Stages' BY <2>2 DEF Close, Stages
  <2>3. CASE CloseDone BY <2>3 DEF CloseDone, Stages, sessionVars, runVars
  <2>4. CASE AcceptorsDone BY <2>4 DEF AcceptorsDone, Stages, sessionVars, runVars
  <2>5. CASE HandlersDone BY <2>5 DEF HandlersDone, Stages, sessionVars, runVars
  <2>6. CASE WaitTimeout BY <1>0, <2>6 DEF WaitTimeout
  <2> QED BY <1>4, <2>1, <2>2, <2>3, <2>4, <2>5, <2>6 DEF Stop
<1>5. ASSUME NEW h \in Handlers, handleLocalConnection(h) PROVE Stages'
  <2>1. UNCHANGED <<closed, todo, acceptor>> /\ pc[h] # "idle"
    BY <1>5 DEF handleLocalConnection, connection, ConnectLive, ConnectErr, ConnectDial,
       DialFail, DialOK, NoConnection, StreamOK, StreamRejected, StreamBroken,
       dropConnection, HandshakeOK, HandshakeFail, ProxyEnd, runVars, sessionVars
  <2>2. \E label, c : Goto(h, label, c)
    BY <1>5 DEF handleLocalConnection, connection, ConnectLive, ConnectErr, ConnectDial,
       DialFail, DialOK, NoConnection, StreamOK, StreamRejected, StreamBroken,
       dropConnection, HandshakeOK, HandshakeFail, ProxyEnd, CandidateFailed
  <2> QED BY <1>2, <2>1, <2>2
<1>6. ASSUME NEW f \in Forwards, Accept(f) \/ AcceptErr(f) \/ SendErr(f)
      PROVE  Stages'
  <2>1. CASE Accept(f)
    <3>1. pc[Main] # "stopped" BY <2>1 DEF Accept, Stages
    <3>2. pc'[Main] = pc[Main] /\ UNCHANGED <<closed, todo, acceptor>>
      BY <2>1 DEF Accept, Goto, TypeOK, sessionVars, runVars
    <3> QED BY <1>1, <3>1, <3>2
  <2>2. CASE AcceptErr(f) \/ SendErr(f)
    <3>1. \A k \in Forwards : acceptor[k] = "done" => acceptor'[k] = "done"
      BY <2>2 DEF AcceptErr, SendErr, TypeOK
    <3> QED BY <1>1, <2>2, <3>1 DEF AcceptErr, SendErr, sessionVars
  <2> QED BY <1>6, <2>1, <2>2
<1>7. ASSUME NEW c \in Conn, ConnDies(c) PROVE Stages'
  BY <1>1, <1>7 DEF ConnDies, sessionVars, runVars
<1>8. CASE Cancel \/ Tick \/ Terminated \/ UNCHANGED vars
  BY <1>1, <1>8 DEF Cancel, Tick, Terminated, vars, sessionVars, runVars
<1> QED BY <1>3, <1>4, <1>5, <1>6, <1>7, <1>8 DEF Next

\* When Run returns from a shutdown that did not time out, it leaves no connection,
\* no handler and no accept loop behind.
THEOREM Quiet == Spec => []ReturnedMeansQuiet
<1>1. Init => Stages BY Ids DEF Init, Stages, WaitPCs
<1>2. IInv /\ Stages /\ [Next]_vars => Stages' BY StagesStep DEF IInv
<1>3. IInv /\ Stages => ReturnedMeansQuiet
  BY DEF IInv, Sessions, NoLeakedConnection, Stages, WaitPCs, ReturnedMeansQuiet
<1> QED BY <1>1, <1>2, <1>3, Invariant, PTL DEF Spec
=============================================================================
