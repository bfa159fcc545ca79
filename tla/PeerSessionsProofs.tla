------------------------- MODULE PeerSessionsProofs -------------------------
(***************************************************************************)
(* Safety of PeerSessions for every set of nodes, peers, goroutines and    *)
(* connections.                                                            *)
(***************************************************************************)
EXTENDS PeerSessions, TLAPS

\* Where a goroutine is inside connection its argument is a node, and where
\* it may dial, an addressed peer.
ArgOK ==
    \A g \in Goroutines :
        /\ pc[g] \in InConnection \cup {"got", "watch"} => arg[g] \in Nodes
        /\ pc[g] \in {"dial", "register", "spawn"} => arg[g] \in Addressed

\* ConnectAll and the maintainers: a maintainer has not begun while its peer
\* is still to be connected or is being connected at startup.
StartupOK ==
    /\ pc[Main] \in InConnection \cup {"got", "err"} => arg[Main] \in Dialing
    /\ \A p \in Dialing :
         /\ arg[p] = p
         /\ p \in todo \/ arg[Main] = p => pc[p] = "idle"
         /\ p \in todo => arg[Main] # p

\* A dialed connection belongs to the goroutine that dialed it until that
\* goroutine has started its accept loop.
DialedOK ==
    \A g \in Goroutines : pc[g] \in {"register", "spawn"} =>
        /\ held[g] \in Conn
        /\ remote[held[g]] = arg[g]
        /\ handler[held[g]] = "none"
        /\ \A h \in Goroutines \ {g} :
             pc[h] \in {"register", "spawn"} => held[h] # held[g]

\* The control part of the invariant is inductive by itself.
Control == TypeOK /\ ArgOK /\ StartupOK

\* The conjuncts of the invariant about connections and sessions.
Sessions ==
    DialedOK /\ SessionIdentity /\ NoOrphanSession /\ RegisteredIsServed

\* The inductive invariant.
IInv == Control /\ Sessions

\* What the assumptions on the constants say, in the form the proofs use.
LEMMA Ids ==
    /\ Main \in Goroutines /\ Dialing \subseteq Goroutines
    /\ Openers \subseteq Goroutines
    /\ Main \notin Dialing /\ Main \notin Openers
    /\ \A o \in Openers : o \notin Dialing
    /\ NoConn \notin Conn /\ NoNode \notin Nodes
    /\ Inbound \subseteq Conn /\ Outbound \subseteq Conn
    /\ Dialing \subseteq Addressed /\ Addressed \subseteq Peers
    /\ Peers \subseteq Nodes
  BY PeersAssumption, GoroutinesAssumption, ConnAssumption DEF Goroutines, Conn

\* The delay after any number of failures is positive.
LEMMA BackoffType ==
    /\ Len(Backoff) \in Nat /\ Len(Backoff) > 0
    /\ \A f \in 0..Len(Backoff) : DialDelay(f) \in Nat
<1>1. Len(Backoff) \in Nat /\ Len(Backoff) > 0
  BY BackoffAssumption
<1>2. \A i \in 1..Len(Backoff) : Backoff[i] \in Nat
  BY BackoffAssumption
<1> QED BY <1>1, <1>2 DEF DialDelay

Entries == [failCount : 0..Len(Backoff), wait : Nat]

\* recordDialFailure and resetDialBackoff keep the reconnect table well typed.
LEMMA ReconnectType ==
    ASSUME reconnect \in [Nodes -> Entries], NEW n,
           recordDialFailure(n) \/ resetDialBackoff(n)
    PROVE  reconnect' \in [Nodes -> Entries]
<1>1. CASE resetDialBackoff(n)
  <2>1. [failCount |-> 0, wait |-> 0] \in Entries
    BY BackoffType DEF Entries
  <2> QED BY <1>1, <2>1 DEF resetDialBackoff
<1>2. CASE recordDialFailure(n)
  <2>1. CASE n \in Nodes
    <3> DEFINE f == reconnect[n].failCount
               e == [failCount |-> IF f < Len(Backoff) THEN f + 1 ELSE f,
                     wait |-> DialDelay(f)]
    <3>1. f \in 0..Len(Backoff) BY <2>1 DEF Entries
    <3>2. e \in Entries BY <3>1, BackoffType DEF Entries
    <3>3. reconnect' = [reconnect EXCEPT ![n] = e]
      BY <1>2 DEF recordDialFailure
    <3> HIDE DEF e
    <3> QED BY <3>2, <3>3
  <2>2. CASE n \notin Nodes
    BY <1>2, <2>2 DEF recordDialFailure
  <2> QED BY <2>1, <2>2
<1> QED BY <1>1, <1>2

-----------------------------------------------------------------------------
(* Control. *)

\* The control part holds initially.
LEMMA ControlInit == Init => Control
<1> USE Ids DEF Init, PCs, InConnection
<1> SUFFICES ASSUME Init PROVE Control
  OBVIOUS
<1>1. reconnect \in [Nodes -> Entries]
  BY BackoffType DEF Entries
<1>2. TypeOK BY <1>1 DEF TypeOK, Entries
<1>3. ArgOK BY DEF ArgOK
<1>4. StartupOK BY DEF StartupOK
<1> QED BY <1>2, <1>3, <1>4 DEF Control

\* The steps of connection keep the control part.
LEMMA ControlConnection ==
    ASSUME Control, NEW g \in Goroutines, connection(g)
    PROVE  Control'
<1> USE Ids DEF PCs, InConnection
<1>1. CASE Lookup(g)
  <2>1. TypeOK' BY <1>1 DEF Control, TypeOK, Lookup, Goto, connVars
  <2>2. ArgOK'
    BY <1>1 DEF Control, TypeOK, ArgOK, Lookup, Goto, MayDial
  <2>3. StartupOK' BY <1>1 DEF Control, TypeOK, StartupOK, Lookup, Goto
  <2> QED BY <2>1, <2>2, <2>3 DEF Control
<1>2. CASE DialOK(g)
  <2>1. TypeOK' BY <1>2 DEF Control, TypeOK, DialOK, Goto, sessionVars
  <2>2. ArgOK' BY <1>2 DEF Control, TypeOK, ArgOK, DialOK, Goto
  <2>3. StartupOK' BY <1>2 DEF Control, TypeOK, StartupOK, DialOK, Goto
  <2> QED BY <2>1, <2>2, <2>3 DEF Control
<1>3. CASE DialFail(g)
  <2>1. TypeOK'
    <3>1. reconnect' \in [Nodes -> [failCount : 0..Len(Backoff), wait : Nat]]
      BY <1>3, ReconnectType DEF Control, TypeOK, DialFail, Entries
    <3> QED BY <1>3, <3>1 DEF Control, TypeOK, DialFail, Goto, connVars
  <2>2. ArgOK' BY <1>3 DEF Control, TypeOK, ArgOK, DialFail, Goto
  <2>3. StartupOK' BY <1>3 DEF Control, TypeOK, StartupOK, DialFail, Goto
  <2> QED BY <2>1, <2>2, <2>3 DEF Control
<1>4. CASE TLSConfigFail(g)
  <2>1. TypeOK'
    BY <1>4 DEF Control, TypeOK, TLSConfigFail, Goto, sessionVars, connVars
  <2>2. ArgOK' BY <1>4 DEF Control, TypeOK, ArgOK, TLSConfigFail, Goto
  <2>3. StartupOK' BY <1>4 DEF Control, TypeOK, StartupOK, TLSConfigFail, Goto
  <2> QED BY <2>1, <2>2, <2>3 DEF Control
<1>5. CASE Register(g)
  <2>1. TypeOK'
    <3>1. reconnect' \in [Nodes -> [failCount : 0..Len(Backoff), wait : Nat]]
      BY <1>5, ReconnectType DEF Control, TypeOK, Register, sessionVars, Entries
    <3> QED BY <1>5, <3>1 DEF Control, TypeOK, Register, Goto, sessionVars
  <2>2. ArgOK' BY <1>5 DEF Control, TypeOK, ArgOK, Register, Goto
  <2>3. StartupOK' BY <1>5 DEF Control, TypeOK, StartupOK, Register, Goto
  <2> QED BY <2>1, <2>2, <2>3 DEF Control
<1>6. CASE Spawn(g)
  <2>1. TypeOK' BY <1>6 DEF Control, TypeOK, Spawn, sessionVars
  <2>2. ArgOK' BY <1>6 DEF Control, TypeOK, ArgOK, Spawn
  <2>3. StartupOK' BY <1>6 DEF Control, TypeOK, StartupOK, Spawn
  <2> QED BY <2>1, <2>2, <2>3 DEF Control
<1> QED BY <1>1, <1>2, <1>3, <1>4, <1>5, <1>6 DEF connection

\* The steps of maintainConnection outside connection.
LEMMA ControlMaintain ==
    ASSUME Control, NEW p \in Dialing,
           MaintainGot(p) \/ sleepUntilNextDial(p) \/ MaintainWake(p)
             \/ MaintainDrop(p) \/ MaintainCancelled(p)
    PROVE  Control'
<1> USE Ids DEF PCs, InConnection
<1>1. CASE MaintainGot(p)
  <2>1. TypeOK'
    BY <1>1 DEF Control, TypeOK, MaintainGot, sessionVars, connVars
  <2>2. ArgOK' BY <1>1 DEF Control, TypeOK, ArgOK, MaintainGot
  <2>3. StartupOK' BY <1>1 DEF Control, TypeOK, StartupOK, MaintainGot
  <2> QED BY <2>1, <2>2, <2>3 DEF Control
<1>2. CASE sleepUntilNextDial(p)
  <2>1. TypeOK'
    BY <1>2 DEF Control, TypeOK, sleepUntilNextDial, Goto, sessionVars, connVars
  <2>2. ArgOK' BY <1>2 DEF Control, TypeOK, ArgOK, sleepUntilNextDial, Goto
  <2>3. StartupOK' BY <1>2 DEF Control, TypeOK, StartupOK, sleepUntilNextDial, Goto
  <2> QED BY <2>1, <2>2, <2>3 DEF Control
<1>3. CASE MaintainWake(p)
  <2>1. TypeOK'
    BY <1>3 DEF Control, TypeOK, MaintainWake, Goto, sessionVars, connVars, LoopLabel
  <2>2. ArgOK' BY <1>3 DEF Control, TypeOK, ArgOK, StartupOK, MaintainWake, Goto, LoopLabel
  <2>3. StartupOK' BY <1>3 DEF Control, TypeOK, StartupOK, MaintainWake, Goto, LoopLabel
  <2> QED BY <2>1, <2>2, <2>3 DEF Control
<1>4. CASE MaintainDrop(p)
  <2>1. TypeOK'
    BY <1>4 DEF Control, TypeOK, MaintainDrop, Goto, sessionVars, connVars, LoopLabel, drop
  <2>2. ArgOK' BY <1>4 DEF Control, TypeOK, ArgOK, StartupOK, MaintainDrop, Goto, LoopLabel
  <2>3. StartupOK' BY <1>4 DEF Control, TypeOK, StartupOK, MaintainDrop, Goto, LoopLabel
  <2> QED BY <2>1, <2>2, <2>3 DEF Control
<1>5. CASE MaintainCancelled(p)
  <2>1. TypeOK'
    BY <1>5 DEF Control, TypeOK, MaintainCancelled, Goto, sessionVars, connVars
  <2>2. ArgOK' BY <1>5 DEF Control, TypeOK, ArgOK, MaintainCancelled, Goto
  <2>3. StartupOK' BY <1>5 DEF Control, TypeOK, StartupOK, MaintainCancelled, Goto
  <2> QED BY <2>1, <2>2, <2>3 DEF Control
<1> QED BY <1>1, <1>2, <1>3, <1>4, <1>5

\* The steps of a forwarding handler outside connection.
LEMMA ControlOpen ==
    ASSUME Control, NEW o \in Openers,
           AcceptStream(o) \/ OpenStreamOK(o) \/ OpenStreamFail(o)
             \/ OpenStreamErr(o)
    PROVE  Control'
<1> USE Ids DEF PCs, InConnection
<1>1. CASE AcceptStream(o)
  <2>1. TypeOK'
    BY <1>1 DEF Control, TypeOK, AcceptStream, Goto, sessionVars, connVars
  <2>2. ArgOK' BY <1>1 DEF Control, TypeOK, ArgOK, AcceptStream, Goto
  <2>3. StartupOK' BY <1>1 DEF Control, TypeOK, StartupOK, AcceptStream, Goto
  <2> QED BY <2>1, <2>2, <2>3 DEF Control
<1>2. CASE OpenStreamOK(o)
  <2>1. TypeOK'
    BY <1>2 DEF Control, TypeOK, OpenStreamOK, OpenStreamReturn, Goto, sessionVars, connVars
  <2>2. ArgOK' BY <1>2 DEF Control, TypeOK, ArgOK, OpenStreamOK, OpenStreamReturn, Goto
  <2>3. StartupOK' BY <1>2 DEF Control, TypeOK, StartupOK, OpenStreamOK, OpenStreamReturn, Goto
  <2> QED BY <2>1, <2>2, <2>3 DEF Control
<1>3. CASE OpenStreamFail(o)
  <2>1. TypeOK'
    <3>1. /\ conns' \in [Nodes -> Conn \cup {NoConn}]
          /\ alive' \in SUBSET Conn
      BY <1>3 DEF Control, TypeOK, OpenStreamFail, drop
    <3>2. /\ pc' \in [Goroutines -> PCs]
          /\ held' \in [Goroutines -> Conn \cup {NoConn}]
          /\ arg' \in [Goroutines -> Nodes \cup {NoNode}]
          /\ retried' \in SUBSET Openers
      <4>1. CASE o \in retried
        BY <1>3, <4>1 DEF Control, TypeOK, OpenStreamFail, OpenStreamReturn, Goto
      <4>2. CASE o \notin retried
        <5>1. /\ Goto(o, "lookup", NoConn)
              /\ arg' = arg /\ retried' = retried \cup {o}
          BY <1>3, <4>2 DEF OpenStreamFail
        <5> QED BY <5>1 DEF Control, TypeOK, Goto
      <4> QED BY <4>1, <4>2
    <3> QED BY <1>3, <3>1, <3>2 DEF Control, TypeOK, OpenStreamFail
  <2>2. ArgOK' BY <1>3 DEF Control, TypeOK, ArgOK, OpenStreamFail, OpenStreamReturn, Goto
  <2>3. StartupOK' BY <1>3 DEF Control, TypeOK, StartupOK, OpenStreamFail, OpenStreamReturn, Goto
  <2> QED BY <2>1, <2>2, <2>3 DEF Control
<1>4. CASE OpenStreamErr(o)
  <2>1. TypeOK'
    BY <1>4 DEF Control, TypeOK, OpenStreamErr, OpenStreamReturn, Goto, sessionVars, connVars
  <2>2. ArgOK' BY <1>4 DEF Control, TypeOK, ArgOK, OpenStreamErr, OpenStreamReturn, Goto
  <2>3. StartupOK' BY <1>4 DEF Control, TypeOK, StartupOK, OpenStreamErr, OpenStreamReturn, Goto
  <2> QED BY <2>1, <2>2, <2>3 DEF Control
<1> QED BY <1>1, <1>2, <1>3, <1>4

\* The steps of Run outside connection.
LEMMA ControlRun ==
    ASSUME Control, ConnectAllNext \/ StartMaintainer \/ ConnectAllDone \/ Accept
             \/ AcceptFail \/ AcceptRetry \/ AcceptCancelled \/ Close
    PROVE  Control'
<1> USE Ids DEF PCs, InConnection
<1>1. CASE ConnectAllNext
  <2>1. TypeOK'
    BY <1>1 DEF Control, TypeOK, ConnectAllNext, Goto, sessionVars, connVars
  <2>2. ArgOK' BY <1>1 DEF Control, TypeOK, ArgOK, ConnectAllNext, Goto
  <2>3. StartupOK' BY <1>1 DEF Control, TypeOK, StartupOK, ConnectAllNext, Goto
  <2> QED BY <2>1, <2>2, <2>3 DEF Control
<1>2. CASE StartMaintainer
  <2>1. TypeOK'
    BY <1>2 DEF Control, TypeOK, StartMaintainer, Goto, sessionVars, connVars, LoopLabel
  <2>2. ArgOK' BY <1>2 DEF Control, TypeOK, ArgOK, StartupOK, StartMaintainer, LoopLabel
  <2>3. StartupOK' BY <1>2 DEF Control, TypeOK, StartupOK, StartMaintainer, LoopLabel
  <2> QED BY <2>1, <2>2, <2>3 DEF Control
<1>3. CASE ConnectAllDone
  <2>1. TypeOK'
    BY <1>3 DEF Control, TypeOK, ConnectAllDone, Goto, sessionVars, connVars
  <2>2. ArgOK' BY <1>3 DEF Control, TypeOK, ArgOK, ConnectAllDone, Goto
  <2>3. StartupOK' BY <1>3 DEF Control, TypeOK, StartupOK, ConnectAllDone, Goto
  <2> QED BY <2>1, <2>2, <2>3 DEF Control
<1>4. CASE Accept
  <2>1. TypeOK'
    BY <1>4 DEF Control, TypeOK, Accept, sessionVars, goVars
  <2>2. ArgOK' BY <1>4 DEF Control, TypeOK, ArgOK, Accept, goVars
  <2>3. StartupOK' BY <1>4 DEF Control, TypeOK, StartupOK, Accept, goVars
  <2> QED BY <2>1, <2>2, <2>3 DEF Control
<1>5. CASE AcceptFail
  <2>1. TypeOK'
    BY <1>5 DEF Control, TypeOK, AcceptFail, Goto, sessionVars, connVars
  <2>2. ArgOK' BY <1>5 DEF Control, TypeOK, ArgOK, AcceptFail, Goto
  <2>3. StartupOK' BY <1>5 DEF Control, TypeOK, StartupOK, AcceptFail, Goto
  <2> QED BY <2>1, <2>2, <2>3 DEF Control
<1>6. CASE AcceptRetry
  <2>1. TypeOK'
    BY <1>6 DEF Control, TypeOK, AcceptRetry, Goto, sessionVars, connVars
  <2>2. ArgOK' BY <1>6 DEF Control, TypeOK, ArgOK, AcceptRetry, Goto
  <2>3. StartupOK' BY <1>6 DEF Control, TypeOK, StartupOK, AcceptRetry, Goto
  <2> QED BY <2>1, <2>2, <2>3 DEF Control
<1>7. CASE AcceptCancelled
  <2>1. TypeOK'
    BY <1>7 DEF Control, TypeOK, AcceptCancelled, Goto, sessionVars, connVars
  <2>2. ArgOK' BY <1>7 DEF Control, TypeOK, ArgOK, AcceptCancelled, Goto
  <2>3. StartupOK' BY <1>7 DEF Control, TypeOK, StartupOK, AcceptCancelled, Goto
  <2> QED BY <2>1, <2>2, <2>3 DEF Control
<1>8. CASE Close
  <2>1. TypeOK'
    BY <1>8 DEF Control, TypeOK, Close, Goto, sessionVars, connVars
  <2>2. ArgOK' BY <1>8 DEF Control, TypeOK, ArgOK, Close, Goto
  <2>3. StartupOK' BY <1>8 DEF Control, TypeOK, StartupOK, Close, Goto
  <2> QED BY <2>1, <2>2, <2>3 DEF Control
<1> QED BY <1>1, <1>2, <1>3, <1>4, <1>5, <1>6, <1>7, <1>8

\* The handlers, the environment and time.
LEMMA ControlOther ==
    ASSUME Control,
           (\E c \in Conn : handleConnection(c) \/ ConnDies(c))
             \/ Cancel \/ Tick \/ Terminated \/ UNCHANGED vars
    PROVE  Control'
<1> USE Ids DEF PCs, InConnection
<1>1. ASSUME NEW c \in Conn, HandleStart(c) PROVE Control'
  <2>1. reconnect' \in [Nodes -> Entries]
    <3>1. reconnect' = reconnect \/ resetDialBackoff(remote[c])
      BY <1>1 DEF HandleStart, RegisterInbound, sessionVars
    <3> QED BY <3>1, ReconnectType DEF Control, TypeOK, Entries
  <2>2. /\ conns' \in [Nodes -> Conn \cup {NoConn}]
        /\ alive' \in SUBSET Conn
    <3>1. /\ conns' = conns \/ conns' = [conns EXCEPT ![remote[c]] = c]
          /\ alive' = alive \/ alive' = alive \ {c}
      BY <1>1 DEF HandleStart, RegisterInbound, sessionVars
    <3> QED BY <3>1 DEF Control, TypeOK
  <2> QED BY <1>1, <2>1, <2>2
    DEF Control, TypeOK, ArgOK, StartupOK, HandleStart, goVars, Entries
<1>2. ASSUME NEW c \in Conn, HandleNoIdentity(c) \/ HandleEnd(c) PROVE Control'
  BY <1>2 DEF Control, TypeOK, ArgOK, StartupOK, HandleNoIdentity, HandleEnd,
              sessionVars, goVars
<1>3. ASSUME NEW c \in Conn, ConnDies(c) PROVE Control'
  BY <1>3 DEF Control, TypeOK, ArgOK, StartupOK, ConnDies, sessionVars, goVars
<1>4. CASE Cancel
  BY <1>4 DEF Control, TypeOK, ArgOK, StartupOK, Cancel, sessionVars, connVars,
              goVars
<1>5. CASE Tick
  <2>1. reconnect' \in [Nodes -> Entries]
    <3>1. \A n \in Nodes : reconnect[n] \in Entries
      BY DEF Control, TypeOK, Entries
    <3>2. \A e \in Entries : [e EXCEPT !.wait = Less(@)] \in Entries
      BY DEF Entries, Less
    <3> QED BY <1>5, <3>1, <3>2 DEF Tick
  <2>2. timer' \in [Dialing -> Nat]
    BY <1>5 DEF Control, TypeOK, Tick, Less
  <2> QED BY <1>5, <2>1, <2>2
    DEF Control, TypeOK, ArgOK, StartupOK, Tick, connVars, Entries
<1>6. CASE Terminated \/ UNCHANGED vars
  BY <1>6 DEF Control, TypeOK, ArgOK, StartupOK, Terminated, vars
<1> QED BY <1>1, <1>2, <1>3, <1>4, <1>5, <1>6 DEF handleConnection

\* The control part of the invariant is inductive.
LEMMA ControlStep == Control /\ [Next]_vars => Control'
<1> SUFFICES ASSUME Control, [Next]_vars PROVE Control'
  OBVIOUS
<1>1. CASE Run
  BY <1>1, Ids, ControlConnection, ControlRun DEF Run, Startup
<1>2. ASSUME NEW p \in Dialing, maintainConnection(p) PROVE Control'
  BY <1>2, Ids, ControlConnection, ControlMaintain DEF maintainConnection
<1>3. ASSUME NEW o \in Openers, AcceptStream(o) \/ OpenStream(o) PROVE Control'
  BY <1>3, Ids, ControlConnection, ControlOpen DEF OpenStream
<1> QED BY <1>1, <1>2, <1>3, ControlOther DEF Next

\* The server's state is well typed in every reachable state.
THEOREM TypeCorrect == Spec => []TypeOK
<1>1. Control => TypeOK BY DEF Control
<1> QED BY <1>1, ControlInit, ControlStep, PTL DEF Spec

-----------------------------------------------------------------------------
(* Sessions. *)

Dialed == {"register", "spawn"}
Holding == {"got", "watch"}

\* Steps that register nothing and start no accept loop: they may close
\* connections, forget sessions that are no longer open, end the handler of
\* a closed connection, and move goroutines that hold no dialed connection.
LEMMA QuietStep ==
    ASSUME Control, Control', Sessions,
           remote' = remote,
           alive' \subseteq alive,
           \A c \in Conn : handler'[c] = handler[c]
                             \/ (handler[c] # "none" /\ c \notin alive'),
           \A n \in Nodes : conns'[n] = conns[n]
                              \/ (conns'[n] = NoConn /\ conns[n] \notin alive'),
           \A g \in Goroutines : pc[g] \in Dialed \/ pc'[g] \in Dialed =>
               pc'[g] = pc[g] /\ held'[g] = held[g] /\ arg'[g] = arg[g],
           \A g \in Goroutines : pc'[g] \in Holding =>
               \/ pc[g] \in Holding /\ held'[g] = held[g] /\ arg'[g] = arg[g]
               \/ held'[g] = conns[arg[g]] /\ arg'[g] = arg[g]
                    /\ arg[g] \in Nodes /\ held'[g] # NoConn
    PROVE  Sessions'
<1> USE Ids DEF Sessions, Dialed, Holding
<1>1. DialedOK'
  BY DEF DialedOK
<1>2. RegisteredIdentity'
  BY DEF SessionIdentity, RegisteredIdentity
<1>3. HeldIdentity'
  BY DEF SessionIdentity, RegisteredIdentity, HeldIdentity
<1>4. NoOrphanSession'
  <2> SUFFICES ASSUME NEW c \in alive', remote[c] \in Peers
               PROVE  \/ conns'[remote[c]] = c
                      \/ handler'[c] = "start"
                      \/ \E g \in Goroutines : pc'[g] = "register" /\ held'[g] = c
    BY DEF NoOrphanSession
  <2>1. c \in alive /\ c \in Conn /\ remote[c] \in Nodes
    BY DEF Control, TypeOK
  <2>2. CASE conns[remote[c]] = c
    BY <2>1, <2>2
  <2>3. CASE handler[c] = "start"
    BY <2>1, <2>3
  <2>4. ASSUME NEW g \in Goroutines, pc[g] = "register", held[g] = c
        PROVE  pc'[g] = "register" /\ held'[g] = c
    BY <2>4
  <2> QED BY <2>1, <2>2, <2>3, <2>4 DEF NoOrphanSession
<1>5. RegisteredIsServed'
  <2> SUFFICES ASSUME NEW n \in Nodes, conns'[n] \in alive'
               PROVE  \/ handler'[conns'[n]] # "none"
                      \/ \E g \in Goroutines :
                           pc'[g] = "spawn" /\ held'[g] = conns'[n]
    BY DEF RegisteredIsServed
  <2>1. conns'[n] = conns[n] /\ conns[n] \in alive /\ conns[n] \in Conn
    BY DEF Control, TypeOK
  <2>2. CASE handler[conns[n]] # "none"
    BY <2>1, <2>2
  <2>3. ASSUME NEW g \in Goroutines, pc[g] = "spawn", held[g] = conns[n]
        PROVE  pc'[g] = "spawn" /\ held'[g] = conns'[n]
    BY <2>1, <2>3
  <2> QED BY <2>1, <2>2, <2>3 DEF RegisteredIsServed
<1> QED BY <1>1, <1>2, <1>3, <1>4, <1>5 DEF SessionIdentity

\* What Goto does to the two functions it updates.
LEMMA GotoEffect ==
    ASSUME TypeOK, NEW g \in Goroutines, NEW label, NEW c, Goto(g, label, c)
    PROVE  /\ pc'[g] = label /\ held'[g] = c
           /\ \A h \in Goroutines : h # g => pc'[h] = pc[h] /\ held'[h] = held[h]
  BY DEF TypeOK, Goto

\* A quiet step in which one goroutine moves on and holds nothing.
LEMMA QuietGoto ==
    ASSUME Control, Control', Sessions,
           NEW g \in Goroutines, NEW label, Goto(g, label, NoConn),
           pc[g] \notin Dialed, label \notin Dialed \cup Holding,
           \A h \in Goroutines : h # g => arg'[h] = arg[h],
           remote' = remote, handler' = handler, alive' \subseteq alive,
           \A n \in Nodes : conns'[n] = conns[n]
                              \/ (conns'[n] = NoConn /\ conns[n] \notin alive')
    PROVE  Sessions'
<1>1. /\ pc'[g] = label
      /\ \A h \in Goroutines : h # g => pc'[h] = pc[h] /\ held'[h] = held[h]
  BY GotoEffect DEF Control
<1> QED BY <1>1, QuietStep DEF Dialed, Holding

\* drop closes the session it forgets.
LEMMA DropQuiet ==
    ASSUME TypeOK, NEW p \in Nodes, NEW c \in Conn, drop(p, c)
    PROVE  /\ alive' \subseteq alive
           /\ \A n \in Nodes : conns'[n] = conns[n]
                                 \/ (conns'[n] = NoConn /\ conns[n] \notin alive')
  BY Ids DEF TypeOK, drop

\* The steps of connection keep the session part: a dialed connection is closed,
\* or registered and then served.
LEMMA SessionsConnection ==
    ASSUME Control, Control', Sessions, NEW g \in Goroutines, connection(g)
    PROVE  Sessions'
<1> USE Ids DEF Dialed, Holding
<1>1. CASE Lookup(g)
  <2>1. pc[g] = "lookup" /\ arg[g] \in Nodes
    BY <1>1 DEF Lookup, Control, ArgOK, InConnection
  <2>2. CASE conns[arg[g]] \in alive
    <3>1. conns[arg[g]] # NoConn BY <2>2 DEF Control, TypeOK
    <3>2. /\ Goto(g, "got", conns[arg[g]])
          /\ UNCHANGED <<conns, alive, remote, handler, arg>>
      BY <1>1, <2>2 DEF Lookup, connVars
    <3>3. /\ pc'[g] = "got" /\ held'[g] = conns[arg[g]]
          /\ \A h \in Goroutines : h # g => pc'[h] = pc[h] /\ held'[h] = held[h]
      BY <3>2, GotoEffect DEF Control
    <3> QED BY <2>1, <3>1, <3>2, <3>3, QuietStep
  <2>3. CASE conns[arg[g]] \notin alive
    <3>1. /\ conns' = [conns EXCEPT ![arg[g]] = NoConn]
          /\ UNCHANGED <<alive, remote, handler, arg>>
          /\ Goto(g, "dial", NoConn) \/ Goto(g, "err", NoConn)
      BY <1>1, <2>3 DEF Lookup, connVars
    <3>2. \A n \in Nodes : conns'[n] = conns[n]
                             \/ (conns'[n] = NoConn /\ conns[n] \notin alive')
      BY <2>1, <2>3, <3>1 DEF Control, TypeOK
    <3> QED BY <2>1, <3>1, <3>2, QuietGoto
  <2> QED BY <2>2, <2>3
<1>2. CASE DialFail(g)
  BY <1>2, QuietGoto DEF DialFail, connVars
<1>3. CASE TLSConfigFail(g)
  BY <1>3, QuietGoto DEF TLSConfigFail, sessionVars, connVars
<1>4. CASE DialOK(g)
  BY <1>4 DEF Control, TypeOK, ArgOK, Sessions, DialedOK, SessionIdentity,
              RegisteredIdentity, HeldIdentity, NoOrphanSession,
              RegisteredIsServed, DialOK, Goto, sessionVars, Fresh
<1>5. CASE Register(g)
  <2>1. /\ pc[g] = "register" /\ arg[g] \in Addressed /\ held[g] \in Conn
        /\ remote[held[g]] = arg[g] /\ handler[held[g]] = "none"
    BY <1>5 DEF Register, Control, ArgOK, InConnection, Sessions, DialedOK
  <2>2. CASE conns[arg[g]] \in alive
    <3>1. conns[arg[g]] # NoConn BY <2>2 DEF Control, TypeOK
    <3>2. /\ alive' = alive \ {held[g]} /\ Goto(g, "got", conns[arg[g]])
          /\ UNCHANGED <<conns, remote, handler, arg>>
      BY <1>5, <2>2 DEF Register, sessionVars
    <3>3. /\ pc'[g] = "got" /\ held'[g] = conns[arg[g]]
          /\ \A h \in Goroutines : h # g => pc'[h] = pc[h] /\ held'[h] = held[h]
      BY <3>2, GotoEffect DEF Control
    <3> USE DEF Sessions
    <3>4. DialedOK' BY <3>2, <3>3 DEF DialedOK
    <3>5. SessionIdentity'
      BY <2>1, <3>1, <3>2, <3>3
      DEF SessionIdentity, RegisteredIdentity, HeldIdentity
    <3>6. NoOrphanSession'
      BY <3>2, <3>3 DEF NoOrphanSession
    <3>7. RegisteredIsServed'
      BY <2>1, <3>2, <3>3 DEF RegisteredIsServed
    <3> QED BY <3>4, <3>5, <3>6, <3>7
  <2>3. CASE conns[arg[g]] \notin alive
    <3>1. /\ conns' = [conns EXCEPT ![arg[g]] = held[g]]
          /\ Goto(g, "spawn", held[g])
          /\ UNCHANGED <<alive, remote, handler, arg>>
      BY <1>5, <2>3 DEF Register
    <3>2. /\ pc'[g] = "spawn" /\ held'[g] = held[g]
          /\ \A h \in Goroutines : h # g => pc'[h] = pc[h] /\ held'[h] = held[h]
      BY <3>1, GotoEffect DEF Control
    <3> USE DEF Sessions
    <3>3. DialedOK' BY <2>1, <3>1, <3>2 DEF DialedOK
    <3>7. conns'[arg[g]] = held[g]
           /\ \A n \in Nodes : n # arg[g] => conns'[n] = conns[n]
      BY <2>1, <3>1 DEF Control, TypeOK
    <3>4. SessionIdentity'
      BY <2>1, <3>1, <3>2, <3>7
      DEF SessionIdentity, RegisteredIdentity, HeldIdentity
    <3>5. NoOrphanSession'
      <4> SUFFICES ASSUME NEW c \in alive, remote[c] \in Peers
                   PROVE  \/ conns'[remote[c]] = c
                          \/ handler[c] = "start"
                          \/ \E h \in Goroutines : pc'[h] = "register" /\ held'[h] = c
        BY <3>1 DEF NoOrphanSession
      <4>1. CASE c = held[g] BY <2>1, <3>7, <4>1
      <4>2. CASE conns[remote[c]] = c BY <2>3, <3>7, <4>2
      <4>3. CASE handler[c] = "start" BY <4>3
      <4>4. ASSUME NEW h \in Goroutines, pc[h] = "register", held[h] = c, c # held[g]
            PROVE  pc'[h] = "register" /\ held'[h] = c
        BY <3>2, <4>4
      <4> QED BY <4>1, <4>2, <4>3, <4>4 DEF NoOrphanSession
    <3>6. RegisteredIsServed'
      BY <2>1, <3>1, <3>2 DEF Control, TypeOK, RegisteredIsServed
    <3> QED BY <3>3, <3>4, <3>5, <3>6
  <2> QED BY <2>2, <2>3
<1>6. CASE Spawn(g)
  BY <1>6 DEF Control, TypeOK, ArgOK, Sessions, DialedOK, SessionIdentity,
              RegisteredIdentity, HeldIdentity, NoOrphanSession,
              RegisteredIsServed, Spawn, sessionVars
<1> QED BY <1>1, <1>2, <1>3, <1>4, <1>5, <1>6 DEF connection

\* The other steps of maintainConnection keep the session part.
LEMMA SessionsMaintain ==
    ASSUME Control, Control', Sessions, NEW p \in Dialing,
           MaintainGot(p) \/ sleepUntilNextDial(p) \/ MaintainWake(p)
             \/ MaintainDrop(p) \/ MaintainCancelled(p)
    PROVE  Sessions'
<1> USE Ids DEF Dialed, Holding
<1>1. CASE MaintainGot(p)
  <2>1. /\ pc[p] = "got" /\ pc'[p] = "watch" /\ held' = held
        /\ \A h \in Goroutines : h # p => pc'[h] = pc[h]
        /\ UNCHANGED <<conns, alive, remote, handler, arg>>
    BY <1>1 DEF MaintainGot, Control, TypeOK, sessionVars, connVars
  <2> QED BY <2>1, QuietStep
<1>2. CASE sleepUntilNextDial(p)
  BY <1>2, QuietGoto DEF sleepUntilNextDial, sessionVars, connVars
<1>3. CASE MaintainWake(p)
  BY <1>3, QuietGoto DEF MaintainWake, LoopLabel, sessionVars, connVars
<1>4. CASE MaintainDrop(p)
  <2>1. /\ pc[p] = "watch" /\ drop(p, held[p]) /\ Goto(p, LoopLabel, NoConn)
        /\ UNCHANGED <<remote, handler, arg>>
    BY <1>4 DEF MaintainDrop
  <2>2. held[p] \in Conn
    BY <2>1 DEF Control, TypeOK, Sessions, SessionIdentity, HeldIdentity
  <2>3. LoopLabel \in {"exited", "lookup"} BY DEF LoopLabel
  <2> QED BY <2>1, <2>2, <2>3, DropQuiet, QuietGoto DEF Control
<1>5. CASE MaintainCancelled(p)
  BY <1>5, QuietGoto DEF MaintainCancelled, sessionVars, connVars
<1> QED BY <1>1, <1>2, <1>3, <1>4, <1>5

\* So do the other steps of a forwarding handler.
LEMMA SessionsOpen ==
    ASSUME Control, Control', Sessions, NEW o \in Openers,
           AcceptStream(o) \/ OpenStreamOK(o) \/ OpenStreamFail(o)
             \/ OpenStreamErr(o)
    PROVE  Sessions'
<1> USE Ids DEF Dialed, Holding
<1>1. CASE AcceptStream(o)
  <2>1. \A h \in Goroutines : h # o => arg'[h] = arg[h]
    BY <1>1 DEF AcceptStream, Control, TypeOK
  <2> QED BY <1>1, <2>1, QuietGoto DEF AcceptStream, sessionVars, connVars
<1>2. CASE OpenStreamOK(o) \/ OpenStreamErr(o)
  <2>1. \A h \in Goroutines : h # o => arg'[h] = arg[h]
    BY <1>2 DEF OpenStreamOK, OpenStreamErr, OpenStreamReturn, Control, TypeOK
  <2> QED BY <1>2, <2>1, QuietGoto
    DEF OpenStreamOK, OpenStreamErr, OpenStreamReturn, sessionVars, connVars
<1>3. CASE OpenStreamFail(o)
  <2>1. pc[o] = "got" /\ UNCHANGED <<remote, handler>>
    BY <1>3 DEF OpenStreamFail
  <2>2. held[o] \in Conn /\ arg[o] \in Nodes
    BY <2>1 DEF Control, TypeOK, ArgOK, Sessions, SessionIdentity, HeldIdentity
  <2>3. CASE o \in retried
    <3>1. /\ Goto(o, "idle", NoConn) /\ arg' = [arg EXCEPT ![o] = NoNode]
          /\ UNCHANGED <<conns, alive>>
      BY <1>3, <2>3 DEF OpenStreamFail, OpenStreamReturn
    <3>2. \A h \in Goroutines : h # o => arg'[h] = arg[h]
      BY <3>1 DEF Control, TypeOK
    <3> QED BY <2>1, <3>1, <3>2, QuietGoto
  <2>4. CASE o \notin retried
    <3>1. drop(arg[o], held[o]) /\ Goto(o, "lookup", NoConn) /\ arg' = arg
      BY <1>3, <2>4 DEF OpenStreamFail
    <3>2. /\ alive' \subseteq alive
          /\ \A n \in Nodes : conns'[n] = conns[n]
                 \/ (conns'[n] = NoConn /\ conns[n] \notin alive')
      BY <2>2, <3>1, DropQuiet DEF Control
    <3> QED BY <2>1, <3>1, <3>2, QuietGoto
  <2> QED BY <2>3, <2>4
<1> QED BY <1>1, <1>2, <1>3

\* So do the steps of Run; Close closes every session it forgets.
LEMMA SessionsRun ==
    ASSUME Control, Control', Sessions,
           ConnectAllNext \/ StartMaintainer \/ ConnectAllDone \/ Accept
             \/ AcceptFail \/ AcceptRetry \/ AcceptCancelled \/ Close
    PROVE  Sessions'
<1> USE Ids DEF Dialed, Holding
<1>1. CASE ConnectAllNext
  <2>1. \A h \in Goroutines : h # Main => arg'[h] = arg[h]
    BY <1>1 DEF ConnectAllNext, Control, TypeOK
  <2> QED BY <1>1, <2>1, QuietGoto DEF ConnectAllNext, sessionVars, connVars
<1>2. CASE StartMaintainer
  <2> DEFINE p == arg[Main]
  <2>1. /\ pc[Main] \in {"got", "err"}
        /\ pc' = [pc EXCEPT ![p] = LoopLabel, ![Main] = "connectAll"]
        /\ held' = [held EXCEPT ![Main] = NoConn]
        /\ arg' = [arg EXCEPT ![Main] = NoNode]
        /\ UNCHANGED <<conns, alive, remote, handler>>
    BY <1>2 DEF StartMaintainer, sessionVars, connVars
  <2>2. p \in Dialing /\ pc[p] = "idle"
    BY <2>1 DEF Control, StartupOK
  <2>3. LoopLabel \in {"exited", "lookup"} BY DEF LoopLabel
  <2>4. pc'[p] = LoopLabel /\ pc'[Main] = "connectAll"
    BY <2>1, <2>2 DEF Control, TypeOK
  <2>5. \A h \in Goroutines : h # Main /\ h # p =>
           pc'[h] = pc[h] /\ held'[h] = held[h] /\ arg'[h] = arg[h]
    BY <2>1, <2>2 DEF Control, TypeOK
  <2> HIDE DEF p
  <2> QED BY <2>1, <2>2, <2>3, <2>4, <2>5, QuietStep
<1>3. CASE ConnectAllDone
  BY <1>3, QuietGoto DEF ConnectAllDone, sessionVars, connVars
<1>4. CASE Accept
  BY <1>4 DEF Control, TypeOK, Sessions, DialedOK, SessionIdentity,
              RegisteredIdentity, HeldIdentity, NoOrphanSession,
              RegisteredIsServed, Accept, Fresh, sessionVars, goVars
<1>5. CASE AcceptFail
  BY <1>5, QuietGoto DEF AcceptFail, sessionVars, connVars
<1>6. CASE AcceptRetry
  BY <1>6, QuietGoto DEF AcceptRetry, sessionVars, connVars
<1>7. CASE AcceptCancelled
  BY <1>7, QuietGoto DEF AcceptCancelled, sessionVars, connVars
<1>8. CASE Close
  <2>1. \A n \in Nodes : conns'[n] = NoConn /\ conns[n] \notin alive'
    BY <1>8 DEF Close
  <2> QED BY <1>8, <2>1, QuietGoto DEF Close
<1> QED BY <1>1, <1>2, <1>3, <1>4, <1>5, <1>6, <1>7, <1>8

\* So do the handlers of connections, the environment and time.
LEMMA SessionsOther ==
    ASSUME Control, Control', Sessions,
           (\E c \in Conn : handleConnection(c) \/ ConnDies(c))
             \/ Cancel \/ Tick \/ Terminated \/ UNCHANGED vars
    PROVE  Sessions'
<1> USE Ids DEF Dialed, Holding
<1>1. ASSUME NEW c \in Conn, HandleStart(c) PROVE Sessions'
  <2>1. /\ handler[c] = "start" /\ remote[c] \in Nodes
        /\ handler' = [handler EXCEPT ![c] = "serving"]
        /\ UNCHANGED <<remote, pc, held, arg>>
    BY <1>1 DEF HandleStart, goVars, Control, TypeOK
  <2>2. CASE remote[c] \in Peers /\ conns[remote[c]] \notin alive
    <3>1. conns' = [conns EXCEPT ![remote[c]] = c] /\ alive' = alive
      BY <1>1, <2>2 DEF HandleStart, RegisterInbound
    <3> QED BY <2>1, <2>2, <3>1
      DEF Control, TypeOK, Sessions, DialedOK, SessionIdentity,
          RegisteredIdentity, HeldIdentity, NoOrphanSession, RegisteredIsServed
  <2>3. CASE ~(remote[c] \in Peers /\ conns[remote[c]] \notin alive)
    <3>1. /\ conns' = conns /\ alive' \subseteq alive
          /\ alive \ {c} \subseteq alive'
          /\ remote[c] \in Peers /\ c \in alive' => conns[remote[c]] = c
      BY <1>1, <2>3 DEF HandleStart, RegisterInbound, sessionVars
    <3> QED BY <2>1, <3>1
      DEF Control, TypeOK, Sessions, DialedOK, SessionIdentity,
          RegisteredIdentity, HeldIdentity, NoOrphanSession, RegisteredIsServed
  <2> QED BY <2>2, <2>3
<1>2. ASSUME NEW c \in Conn, HandleNoIdentity(c) \/ HandleEnd(c) PROVE Sessions'
  <2>1. /\ handler[c] # "none" /\ alive' = alive \ {c}
        /\ handler' = [handler EXCEPT ![c] = "none"]
        /\ UNCHANGED <<conns, remote, pc, held, arg>>
    BY <1>2 DEF HandleNoIdentity, HandleEnd, sessionVars, goVars
  <2>2. \A d \in Conn : handler'[d] = handler[d]
                          \/ (handler[d] # "none" /\ d \notin alive')
    BY <2>1 DEF Control, TypeOK
  <2> QED BY <2>1, <2>2, QuietStep
<1>3. ASSUME NEW c \in Conn, ConnDies(c) PROVE Sessions'
  BY <1>3, QuietStep DEF ConnDies, sessionVars, goVars
<1>4. CASE Cancel
  BY <1>4, QuietStep DEF Cancel, sessionVars, connVars, goVars
<1>5. CASE Tick
  BY <1>5, QuietStep DEF Tick, connVars
<1>6. CASE Terminated \/ UNCHANGED vars
  BY <1>6, QuietStep DEF Terminated, vars
<1> QED BY <1>1, <1>2, <1>3, <1>4, <1>5, <1>6 DEF handleConnection

\* IInv is inductive.
LEMMA IInvInit == Init => IInv
<1>1. Init => Sessions
  BY Ids DEF Init, Sessions, DialedOK, SessionIdentity, RegisteredIdentity,
             HeldIdentity, NoOrphanSession, RegisteredIsServed
<1> QED BY <1>1, ControlInit DEF IInv

\* The inductive step: no operation of the server breaks IInv.
LEMMA IInvStep == IInv /\ [Next]_vars => IInv'
<1> SUFFICES ASSUME Control, Sessions, [Next]_vars PROVE IInv'
  BY DEF IInv
<1>0. Control' BY ControlStep
<1>1. CASE Run
  BY <1>0, <1>1, Ids, SessionsConnection, SessionsRun DEF Run, Startup, IInv
<1>2. ASSUME NEW p \in Dialing, maintainConnection(p) PROVE IInv'
  BY <1>0, <1>2, Ids, SessionsConnection, SessionsMaintain
  DEF maintainConnection, IInv
<1>3. ASSUME NEW o \in Openers, AcceptStream(o) \/ OpenStream(o) PROVE IInv'
  BY <1>0, <1>3, Ids, SessionsConnection, SessionsOpen DEF OpenStream, IInv
<1> QED BY <1>0, <1>1, <1>2, <1>3, SessionsOther DEF Next, IInv

-----------------------------------------------------------------------------
(* Theorems. *)

\* In every reachable state the inductive invariant holds.
THEOREM Invariant == Spec => []IInv
  BY IInvInit, IInvStep, PTL DEF Spec

\* No session of a configured peer leaks: every open connection with a peer is
\* its registered session or still on its way to registration, however dials,
\* inbound connections, failures and the shutdown interleave.
THEOREM NoOrphan == Spec => []NoOrphanSession
<1>1. IInv => NoOrphanSession BY DEF IInv, Sessions
<1> QED BY <1>1, Invariant, PTL

\* A live registered session has its accept loop, or is about to get it.
THEOREM Served == Spec => []RegisteredIsServed
<1>1. IInv => RegisteredIsServed BY DEF IInv, Sessions
<1> QED BY <1>1, Invariant, PTL

\* onConnected never starts a second accept loop on a connection.
THEOREM SingleLoop == Spec => []OneAcceptLoop
<1>1. IInv => OneAcceptLoop
  BY DEF IInv, Sessions, DialedOK, OneAcceptLoop
<1> QED BY <1>1, Invariant, PTL

\* Sessions and the connections handed to callers are with the peer asked for.
THEOREM Identity == Spec => []SessionIdentity
<1>1. IInv => SessionIdentity BY DEF IInv, Sessions
<1> QED BY <1>1, Invariant, PTL

\* No step displaces a live session: it is only ever closed and forgotten.
LEMMA LiveKept ==
    ASSUME IInv, [Next]_vars
    PROVE  \A n \in Nodes : conns[n] \in alive /\ conns'[n] # conns[n] =>
               conns'[n] = NoConn /\ conns[n] \notin alive'
<1> DEFINE Kept == \A n \in Nodes : conns[n] \in alive /\ conns'[n] # conns[n] =>
                       conns'[n] = NoConn /\ conns[n] \notin alive'
<1> SUFFICES Kept OBVIOUS
<1> USE Ids
<1>t. TypeOK /\ SessionIdentity BY DEF IInv, Control, Sessions
<1>1. ASSUME NEW g \in Goroutines, connection(g) PROVE Kept
  <2>1. CASE Lookup(g) BY <1>t, <2>1 DEF Lookup, TypeOK
  <2>2. CASE Register(g) BY <1>t, <2>2 DEF Register, TypeOK, sessionVars
  <2>3. CASE DialOK(g) \/ DialFail(g) \/ TLSConfigFail(g) \/ Spawn(g)
    BY <2>3 DEF DialOK, DialFail, TLSConfigFail, Spawn, sessionVars
  <2> QED BY <1>1, <2>1, <2>2, <2>3 DEF connection
<1>2. ASSUME NEW n \in Nodes, NEW c, drop(n, c) PROVE Kept
  BY <1>t, <1>2 DEF drop, TypeOK
<1>3. CASE Run
  <2>1. CASE Close BY <1>t, <2>1 DEF Close, TypeOK
  <2>2. CASE connection(Main) BY <1>1, <2>2
  <2>3. CASE ConnectAllNext \/ StartMaintainer \/ ConnectAllDone \/ Accept
               \/ AcceptFail \/ AcceptRetry \/ AcceptCancelled
    BY <2>3 DEF ConnectAllNext, StartMaintainer, ConnectAllDone, Accept,
                AcceptFail, AcceptRetry, AcceptCancelled, sessionVars
  <2> QED BY <1>3, <2>1, <2>2, <2>3 DEF Run, Startup
<1>4. ASSUME NEW p \in Dialing, maintainConnection(p) PROVE Kept
  <2>1. CASE connection(p) BY <1>1, <2>1
  <2>2. CASE MaintainDrop(p)
    <3>1. drop(p, held[p]) BY <2>2 DEF MaintainDrop
    <3> QED BY <1>2, <3>1
  <2>3. CASE MaintainGot(p) \/ sleepUntilNextDial(p) \/ MaintainWake(p)
               \/ MaintainCancelled(p)
    BY <2>3 DEF MaintainGot, sleepUntilNextDial, MaintainWake,
                MaintainCancelled, sessionVars
  <2> QED BY <1>4, <2>1, <2>2, <2>3 DEF maintainConnection
<1>5. ASSUME NEW o \in Openers, AcceptStream(o) \/ OpenStream(o) PROVE Kept
  <2>1. CASE connection(o) BY <1>1, <2>1
  <2>2. CASE OpenStreamFail(o)
    <3>1. arg[o] \in Nodes
      BY <2>2 DEF OpenStreamFail, IInv, Control, ArgOK
    <3>2. drop(arg[o], held[o]) \/ conns' = conns
      BY <2>2 DEF OpenStreamFail
    <3> QED BY <1>2, <3>1, <3>2
  <2>3. CASE AcceptStream(o) \/ OpenStreamOK(o) \/ OpenStreamErr(o)
    BY <2>3 DEF AcceptStream, OpenStreamOK, OpenStreamErr, sessionVars
  <2> QED BY <1>5, <2>1, <2>2, <2>3 DEF OpenStream
<1>6. ASSUME NEW c \in Conn, handleConnection(c) \/ ConnDies(c) PROVE Kept
  <2>1. CASE HandleStart(c)
    BY <1>t, <2>1 DEF HandleStart, RegisterInbound, sessionVars, TypeOK
  <2>2. CASE HandleNoIdentity(c) \/ HandleEnd(c) \/ ConnDies(c)
    BY <2>2 DEF HandleNoIdentity, HandleEnd, ConnDies, sessionVars
  <2> QED BY <1>6, <2>1, <2>2 DEF handleConnection
<1>7. CASE Cancel \/ Tick \/ Terminated \/ UNCHANGED vars
  BY <1>7 DEF Cancel, Tick, Terminated, vars, sessionVars
<1> QED BY <1>3, <1>4, <1>5, <1>6, <1>7 DEF Next

\* The first live session wins: no step replaces a live session of a peer.
THEOREM FirstLive == Spec => FirstLiveWins
<1>1. IInv /\ [Next]_vars =>
        [\A n \in Nodes : conns[n] \in alive /\ conns'[n] # conns[n] =>
            conns'[n] = NoConn /\ conns[n] \notin alive']_vars
  BY LiveKept
<1> QED BY <1>1, Invariant, PTL DEF Spec, FirstLiveWins

-----------------------------------------------------------------------------
(* Connections that were handed out. *)

\* HeldIsSession from the moment a dialed connection is registered.
HeldOK ==
    \A g \in Goroutines : pc[g] \in {"spawn", "got", "watch"} /\ held[g] \in alive =>
        conns[arg[g]] = held[g]

\* A connection that is opened in a step was held by nobody.
LEMMA OpenedIsFresh ==
    ASSUME IInv, [Next]_vars
    PROVE  \A c \in alive' : c \in alive \/ \A g \in Goroutines : held[g] # c
<1> DEFINE New == \A c \in alive' : c \in alive \/ \A g \in Goroutines : held[g] # c
<1> SUFFICES New OBVIOUS
<1>1. CASE alive' \subseteq alive BY <1>1
<1>2. ASSUME NEW g \in Goroutines, connection(g) PROVE New
  <2>1. CASE DialOK(g) BY <2>1 DEF DialOK, Fresh
  <2> QED BY <1>1, <1>2, <2>1 DEF connection, Lookup, DialFail, TLSConfigFail, Register,
        Spawn, connVars
<1>3. CASE Run
  <2>1. CASE Accept BY <2>1 DEF Accept, Fresh
  <2> QED BY <1>1, <1>2, <1>3, <2>1, Ids DEF Run, Startup, ConnectAllNext, StartMaintainer,
        ConnectAllDone, AcceptFail, AcceptRetry, AcceptCancelled, Close, connVars
<1>4. ASSUME NEW p \in Dialing, maintainConnection(p) PROVE New
  BY <1>1, <1>2, <1>4, Ids DEF maintainConnection, MaintainGot, sleepUntilNextDial,
     MaintainWake, MaintainDrop, MaintainCancelled, drop, connVars
<1>5. ASSUME NEW o \in Openers, AcceptStream(o) \/ OpenStream(o) PROVE New
  BY <1>1, <1>2, <1>5, Ids DEF AcceptStream, OpenStream, OpenStreamOK, OpenStreamFail,
     OpenStreamErr, drop, connVars
<1>6. ASSUME NEW c \in Conn, handleConnection(c) \/ ConnDies(c) PROVE New
  BY <1>1, <1>6 DEF handleConnection, HandleStart, RegisterInbound, HandleNoIdentity,
     HandleEnd, ConnDies, sessionVars
<1>7. CASE Cancel \/ Tick \/ Terminated \/ UNCHANGED vars
  BY <1>1, <1>7 DEF Cancel, Tick, Terminated, vars, connVars
<1> QED BY <1>3, <1>4, <1>5, <1>6, <1>7 DEF Next

\* A goroutine is handed the session it found or registered in the same step;
\* otherwise it keeps the connection it had.
LEMMA HandedOut ==
    ASSUME IInv, [Next]_vars, NEW h \in Goroutines, pc'[h] \in {"spawn", "got", "watch"}
    PROVE  /\ arg'[h] = arg[h] /\ arg[h] \in Nodes
           /\ \/ pc[h] \in {"spawn", "got", "watch"} /\ held'[h] = held[h]
              \/ conns'[arg[h]] = held'[h]
<1> DEFINE Handed == /\ arg'[h] = arg[h] /\ arg[h] \in Nodes
                     /\ \/ pc[h] \in {"spawn", "got", "watch"} /\ held'[h] = held[h]
                        \/ conns'[arg[h]] = held'[h]
<1> SUFFICES Handed OBVIOUS
<1> USE Ids DEF InConnection
<1>t. TypeOK /\ ArgOK /\ StartupOK BY DEF IInv, Control
<1>0. ASSUME pc'[h] = pc[h], held'[h] = held[h], arg'[h] = arg[h] PROVE Handed
  BY <1>t, <1>0 DEF ArgOK, StartupOK, TypeOK
<1>1. ASSUME NEW g \in Goroutines, connection(g) PROVE Handed
  <2>1. arg' = arg /\ \A k \in Goroutines : k # g => pc'[k] = pc[k] /\ held'[k] = held[k]
    BY <1>t, <1>1 DEF connection, Lookup, DialOK, DialFail, TLSConfigFail, Register,
       Spawn, Goto, TypeOK
  <2>2. CASE h # g BY <1>0, <2>1, <2>2
  <2>3. CASE h = g
    <3>1. arg[g] \in Nodes
      BY <1>t, <1>1 DEF connection, Lookup, DialOK, DialFail, TLSConfigFail, Register,
         Spawn, ArgOK
    <3>2. CASE Lookup(g) BY <1>t, <2>1, <2>3, <3>1, <3>2 DEF Lookup, Goto, TypeOK
    <3>3. CASE Register(g)
      BY <1>t, <2>1, <2>3, <3>1, <3>3 DEF Register, Goto, TypeOK, sessionVars
    <3>4. CASE Spawn(g) BY <1>t, <2>1, <2>3, <3>1, <3>4 DEF Spawn, TypeOK
    <3>5. CASE DialOK(g) \/ DialFail(g) \/ TLSConfigFail(g)
      BY <1>t, <2>3, <3>5 DEF DialOK, DialFail, TLSConfigFail, Goto, TypeOK
    <3> QED BY <1>1, <3>2, <3>3, <3>4, <3>5 DEF connection
  <2> QED BY <2>2, <2>3
<1>2. ASSUME NEW g \in Goroutines, NEW label, Goto(g, label, NoConn),
             label \notin {"spawn", "got", "watch"},
             \A k \in Goroutines : k # g => arg'[k] = arg[k]
      PROVE  Handed
  BY <1>t, <1>0, <1>2, GotoEffect
<1>3. CASE Run
  <2>1. CASE StartMaintainer
    <3>1. arg[Main] \in Dialing BY <1>t, <2>1 DEF StartMaintainer, StartupOK
    <3>2. h # Main /\ h # arg[Main]
      BY <1>t, <2>1, <3>1 DEF StartMaintainer, TypeOK, LoopLabel
    <3> QED BY <1>t, <1>0, <2>1, <3>2 DEF StartMaintainer, TypeOK
  <2>2. CASE ConnectAllNext
    <3>1. \A k \in Goroutines : k # Main => arg'[k] = arg[k]
      BY <1>t, <2>2 DEF ConnectAllNext, TypeOK
    <3> QED BY <1>2, <2>2, <3>1 DEF ConnectAllNext
  <2>3. CASE ConnectAllDone \/ AcceptFail \/ AcceptRetry \/ AcceptCancelled \/ Close
    BY <1>2, <2>3 DEF ConnectAllDone, AcceptFail, AcceptRetry, AcceptCancelled, Close
  <2>4. CASE Accept BY <1>0, <2>4 DEF Accept, goVars
  <2> QED BY <1>1, <1>3, <2>1, <2>2, <2>3, <2>4 DEF Run, Startup
<1>4. ASSUME NEW p \in Dialing, maintainConnection(p) PROVE Handed
  <2>1. CASE MaintainGot(p)
    <3>1. arg[p] \in Nodes BY <1>t DEF StartupOK
    <3> QED BY <1>t, <1>0, <2>1, <3>1 DEF MaintainGot, TypeOK
  <2>2. CASE sleepUntilNextDial(p) \/ MaintainWake(p) \/ MaintainDrop(p)
               \/ MaintainCancelled(p)
    <3>1. LoopLabel \notin {"spawn", "got", "watch"} BY DEF LoopLabel
    <3> QED BY <1>2, <2>2, <3>1 DEF sleepUntilNextDial, MaintainWake, MaintainDrop,
          MaintainCancelled
  <2> QED BY <1>1, <1>4, <2>1, <2>2 DEF maintainConnection
<1>5. ASSUME NEW o \in Openers, AcceptStream(o) \/ OpenStream(o) PROVE Handed
  <2>1. CASE connection(o) BY <1>1, <2>1
  <2>2. CASE ~connection(o)
    <3>1. \A k \in Goroutines : k # o => arg'[k] = arg[k]
      BY <1>t, <1>5, <2>2 DEF AcceptStream, OpenStream, OpenStreamOK, OpenStreamFail,
         OpenStreamErr, OpenStreamReturn, TypeOK
    <3>2. Goto(o, "lookup", NoConn) \/ Goto(o, "idle", NoConn)
      BY <1>5, <2>2 DEF AcceptStream, OpenStream, OpenStreamOK, OpenStreamFail,
         OpenStreamErr, OpenStreamReturn
    <3> QED BY <1>2, <3>1, <3>2
  <2> QED BY <2>1, <2>2
<1>6. CASE UNCHANGED <<pc, held, arg>> BY <1>0, <1>6
<1>7. ASSUME NEW c \in Conn, handleConnection(c) \/ ConnDies(c) PROVE Handed
  BY <1>6, <1>7 DEF handleConnection, HandleStart, HandleNoIdentity, HandleEnd,
     ConnDies, goVars
<1>8. CASE Cancel \/ Tick \/ Terminated \/ UNCHANGED vars
  BY <1>6, <1>8 DEF Cancel, Tick, Terminated, vars, goVars
<1> QED BY <1>3, <1>4, <1>5, <1>7, <1>8 DEF Next

\* Nobody goes on with a connection that lost: what was handed out is the session
\* of its peer for as long as it is open.
THEOREM HeldSession == Spec => []HeldIsSession
<1>1. Init => HeldOK BY DEF Init, HeldOK
<1>2. IInv /\ HeldOK /\ [Next]_vars => HeldOK'
  <2> SUFFICES ASSUME IInv, HeldOK, [Next]_vars, NEW h \in Goroutines,
                      pc'[h] \in {"spawn", "got", "watch"}, held'[h] \in alive'
               PROVE  conns'[arg'[h]] = held'[h]
    BY DEF HeldOK
  <2>1. arg'[h] = arg[h] /\ arg[h] \in Nodes BY HandedOut
  <2>2. CASE conns'[arg[h]] = held'[h] BY <2>1, <2>2
  <2>3. CASE pc[h] \in {"spawn", "got", "watch"} /\ held'[h] = held[h]
    <3>1. held[h] \in alive BY <2>3, OpenedIsFresh
    <3>2. conns[arg[h]] = held[h] BY <2>3, <3>1 DEF HeldOK
    <3> QED BY <2>1, <2>3, <3>1, <3>2, LiveKept
  <2> QED BY <2>2, <2>3, HandedOut
<1>3. HeldOK => HeldIsSession BY DEF HeldOK, HeldIsSession
<1> QED BY <1>1, <1>2, <1>3, Invariant, PTL DEF Spec
=============================================================================
