# qoru: TLA+ models, checks and proofs

qoru carries TCP connections over QUIC. A *client* listens on local ports and
opens one QUIC stream per accepted connection to an upstream *server*; servers
either reach the requested service themselves (*egress*) or pass the request to
the next hop of its route (*relay*). Nodes authenticate each other by mutual
TLS; optionally client and egress also run an end-to-end (E2E) handshake and
encrypt the payload, so that relays see neither.

This directory holds TLA+ modules translated from the Go code under
`src/internal`, TLC configurations that check them on small instances, and
TLAPS proofs of their invariants for instances of any size.
`PROJECT.json` lists the runs, the mutants that show every property can fail,
the source lines each definition stands for, the hazards and the theorems.

## Inventory

| Part | State | Operations | What is hard | What makes it correct |
|---|---|---|---|---|
| Server peer sessions (`server/peers.go`) | `conns`, `reconnect` under one mutex; one maintainer goroutine per dialed peer | `ConnectAll`, `RegisterInbound`, `OpenStream`, `connection`, `drop`, `maintainConnection`, `Close` | the mutex is released for the dial; both sides may dial at once; sessions die at any time; shutdown overtakes dials | one session per peer, the first live one wins, duplicates are closed, every session has one accept loop, maintained peers come back |
| Server runtime (`server/server.go`, `handleConnection`) | listener, connection wait group | accept with backoff, start a handler per connection, drain | accept failures, cancellation at any point | Run returns, every connection is closed |
| Request handling (`server/connection.go`, `policy.go`, `e2e.go`, `dial.go`) | per stream: request, target connection | `handleStream`, plaintext, E2E and relay handlers | decided hop by hop with a shrinking route; streams break between steps | only authorized requests reach a target; responses mean what they say; targets are released |
| Client runtime (`client/client.go`) | listeners, wait groups, error channel | `Run`, `acceptForward`, `handleLocalConnection`, shutdown | failover, shutdown against running handlers, listener errors | nothing is left when Run returns; nobody blocks for ever |
| Client upstream sessions (`client/session.go`) | `conn`, `closed`, backoff under a mutex held through the dial | `connection`, `OpenTCPStream`, `dropConnection`, `Close` | contention, a stale connection dropped late, close against dial | one connection per upstream, none after Close, backoff reset by success |
| Streams and routes (`client/stream.go`, `routes.go`) | candidates of a forward | `OpenTCPStream`, `resolveCandidates` | which errors fail over; four sets of rules for one route | denials are final; what validation accepts is served |
| Proxying (`proxyio/proxy.go`, `*/proxy.go`) | two copy goroutines, `abortOnce`, channel `done` | copy, half-close, abort, close | half-close, errors of one direction, silent far ends | complete or an error; errors unblock; resources released |
| E2E handshake and records (`e2e`, `*/e2e.go`) | ephemeral and traffic keys, sequence numbers, a read buffer, cached service certificates | hellos, records, close | each end uses its own view of the request; streams end inside frames; a write fails after encryption; exhaustion | both ends agree on context and keys; a direction is a pipe; no nonce twice; the right certificate |
| Wire protocol (`protocol`) | none | encode and decode frames | widths and limits on two sides, optional fields | what is written is read back unchanged |
| Configuration (`config`) | the loaded record | validation | agreement with routing, sessions and the servers' checks | no accepted configuration is dead on arrival |
| Identity, CLI, request IDs | none | certificates, flags | | see "Not modelled" |

Interactions: handlers call the sessions (mutexes), sessions start handlers
(`onConnected`), goroutines meet in wait groups, `errCh` and `done`, and nodes
exchange frames on QUIC streams. The hazards these give rise to are listed,
line by line, under `hazards` in `PROJECT.json`.

## Modules

### PeerSessions (with PeerSessionsProofs, MCPeerSessions)

`peerSessions` and every goroutine that uses it: Run (`Main`), one maintainer
per dialed peer, forwarding handlers (`Openers`), and a `handleConnection` per
connection. `connection` is split where the code splits it: `Lookup` is the
first critical section, `DialOK`/`DialFail`/`TLSConfigFail` happen outside the
mutex, `Register` is the second critical section, `Spawn` is `onConnected`
after the unlock. `alive` holds the connections whose context is not done;
connections die at any time (`ConnDies`). Handles of closed connections that
nothing refers to are used again (`Fresh`), which keeps the state space finite
without bounding the number of connections ever made. Time is counted in ticks
of the first delay; `failCount` stops at the length of the delay table, beyond
which the code does not tell its values apart.

### ClientRuntime (with ClientRuntimeProofs, MCClientRuntime)

`Run`, the accept loops, the handlers and the upstream sessions. `mu` is the
holder of a session's mutex: it is taken by `ConnectDial` and given back when
the dial ends; steps that lock and unlock without blocking in between are one
action. `dialAge` is how long ago the dialing goroutine read the clock, because
the code computes the backoff from that reading. What the server answers is a
choice of the environment here.

### ProxyIO (with ProxyIOProofs, MCProxyIO)

`proxyio.Proxy` between endpoints of kinds `tcp`, `quic` and `e2e` (a QUIC
stream under encrypted records). `rd` and `wr` are the two halves of an
endpoint, `sent`/`tail` what its far end has done, `taken`/`delivered` what a
direction has carried, in chunks. The far ends send, end, reset and stop
reading as they like. The order of `proxyOneWay` is kept: copy, then CloseWrite
whatever the copy's result, then abort, then report.

### StreamSetup (with StreamSetupProofs, FailoverProofs, MCStreamSetup)

One local connection from its first candidate to its end, over all hops: the
client's attempts, each hop's `handleStream` with the policy in the code's
order (`Decide`, a chain of early returns), relaying, the E2E setup and the proxies' ends. Each attempt
has its own chain of streams, so handlers of abandoned attempts run on beside
the current one; any stream may be lost. An attempt whose response is lost
drops the whole connection to its first hop, with the streams of earlier
attempts (`ConnectionTo`). A handshake may fail on the server's side at every
step, also between honest ends (a certificate that does not verify, a failing
signature); of the client's side only failures that a frame or a lost stream
causes are modelled. A signature is represented by the
context it covers: verification succeeds exactly on equal contexts.

### E2EStream and Pipe (with E2EStreamProofs, MCE2EStream)

An end-to-end encrypted stream: both `runHandshake` functions, then one
`EncryptedWriter` and one `EncryptedReader` per direction with the io.Copy that
drives them. Hashes, signatures, secrets and keys are terms built from what
they are computed from, so two are equal exactly when their inputs are.
A byte is its place in its direction. The carrier below is a FIFO of frames
that a relay may end anywhere (`Cut`: between frames or behind a header, which
`ReadFrame` reports as io.EOF, or inside, which is an error) and that anyone
may reset. `sealed` is a history of every record encrypted, also of those whose
write failed.

`Pipe` is what one direction promises: a prefix, in order, nothing twice; EOF
behind the last byte of a closed direction, or where the carrier was ended in
an orderly way; an error only if the carrier broke. `CarriesPipes` says that
E2EStream implements a Pipe in each direction, under the mapping that takes the
plaintext handed to the writer for `sent`, what the reader returned for `got`,
and the carrier's fate for `link`. That EOF after a relay's bare FIN counts as
an orderly end is what the code does, not what an E2E protocol might promise:
the end of an encrypted direction is not authenticated against relays.

### Frames, Config and RequestPath (with FramesProofs, RequestPathProofs, MCRequestPath)

`Frames` has every message of the protocol with its true widths and limits; a
payload is a sequence of numbers and strings, of which only identity and length
count (`StrLen` gives the strings their lengths). `Config` has validation, candidate resolution, session selection and the
server's certificate cache. `RequestPath` composes them: a node loads a
configuration, starts or refuses it, and a request travels to its egress and
its response back, written and read again on every hop; or any message, or a
request of a client without E2E fields, is written to a stream. Where the code
searches a list or fills a map from one, the model takes the first or the last
place that fits (`servicesNamed`, `routesOf`).

### Correspondence

`map` in `PROJECT.json` names the lines of every definition. Actions carry the
names of the functions they model; where a function has several atomic steps,
an operator of the function's name is their disjunction. Operators introduced
by "Broken variant of" are mutants: the same definition with a plausible
mistake. They are not part of any specification.

## Runs

| Run | Instance | Shows |
|---|---|---|
| `peer_sessions` | 1 dialed peer, 1 peer that dials us, 1 stranger, 1 inbound and 2 outbound connections at a time, 1 forwarding handler | no session leaks, is replaced while live, goes unserved or is served twice; identities match |
| `peer_liveness` | 1 dialed peer, 2 connections, 2 delays | reconnection, complete shutdown; a forwarded request gets a stream or an error unless it waits for a stream on a live connection |
| `peer_backoff` | as `peer_sessions` | *violation*: a late failing dial leaves a connected peer in backoff |
| `client_runtime` | 2 upstreams, 2 listeners, failover, 2 handlers, 3 connections | no leaked connection, exclusive dials, quiet return, room for every accept loop's error in the channel they share |
| `client_contention` | 1 upstream, 2 handlers, 1 listener | nobody starves on the mutex; shutdown ends all handlers but those that proxy for a silent application; Run returns all the same |
| `client_backoff` | dial as long as the first delay | *violation*: no delay is left after a slow failure |
| `proxy_safety` | all endpoint pairs in use, 2 chunks | nil means complete; EOF only half-closes; without encryption everything is released and errors unblock |
| `proxy_truncated` | encrypted pairs | *violation*: E2EClose OK after a failed copy |
| `proxy_released` | encrypted pairs | *violation*: the receive half stays open |
| `stream_setup` | relay and egress with an E2E candidate and a plaintext fallback (42 settings, one lost stream; 2 settings, two); 3 hops in plaintext, then a direct candidate (16 settings); direct E2E without a route (4 settings) | authorization, transcripts, honest success, final denials, no failover after a handshake; setup ends unless a relay waits for a stream, and targets are released |
| `e2e_stream` | 2 contexts, certificates accepted or not, 3 bytes up and 1 down | each direction is a Pipe, nonces are used once, both ends agree, a closed direction ends |
| `request_path` | some 71,000 client and server configurations, most of them invalid; 1,100 messages at and beyond every limit | decoding inverts encoding, accepted configurations are served, the right certificate is presented |

**Bounds.** A race in the session code needs two goroutines and two
connections of one peer: the maintainer, Run and an opener dial the same peer
while an inbound connection registers. The client's races need two handlers;
two listeners share the error channel, of which one may send before Run reads
it and the other when nobody reads it any more (`ErrSendFree` proves the same
for any number of them). The third connection lets one be dead and still referred to while two live.
Two chunks tell "nothing", "partly" and "all" of a direction apart. Two
candidates and three hops give every kind of node: first relay, middle relay,
egress, and a candidate after a failure. A setting's `maxLost` bounds the
streams lost by themselves; streams aborted by the code are not bounded. `Backoff` has one
entry where only an active delay matters and two where growth does.

In `E2EStream` a Write of 3 bytes becomes two records (`MaxPlain` 2), a record
takes two Reads (`MaxRead` 1), and with `MaxSeq` 2 the sequence numbers run out
in the middle of a Write; the reverse direction carries one byte, which is
enough for its keys and its order against the handshake. `RequestPath` needs no
scaling: the lengths are those of the protocol (255 and 256 hops, names of 4096
and 4097 bytes, frames of 65535), since a string is only its length.

**Symmetry** is used only in safety runs, over connection handles and client
handlers, which no definition tells apart.

**Deadlock** is checked in every run: the only states without a step of the
program are those in which everything has returned (`Terminated`).

## Fairness

- Goroutines that can run are scheduled (weak fairness of their steps).
- A mutex is handed over fairly (strong fairness of the steps that lock):
  Go's `sync.Mutex` starves no waiter.
- A dial ends, by its timeout (`defaultPeerDialTimeout`,
  `defaultQUICDialTimeout`, `defaultTCPDialTimeout`).
- `MaintainedPeerReconnects` also assumes that a peer that is dialed again and
  again is reached again and again (strong fairness of a successful dial);
  nothing can be said of a peer that is never reachable.
- Nothing says that a server answers, that an application sends or reads, that
  a listener fails or that a connection dies. A blocked read or write of a
  setup, or an encrypted CloseWrite, only has to end when its connection or
  stream has.
- Nothing grants a stream. `OpenStreamSync` has no timeout and waits at the
  peer's stream limit for as long as connection and context live
  (`server/peers.go:119` and `:128`), and `proxy_released` shows that credits do
  get lost. `OpenStreamReturns` and `SetupEnds` therefore name the one state in
  which somebody may wait for ever: a server that waits for a stream on a live
  connection, and the client behind it. A second, permanent wait of another
  kind, or a wait for a stream of a connection that is dead, violates them.
- A client's proxy over a dead connection need not end: both copies may be
  blocked on the local application, one reading from it, one writing to it
  (`client/client.go:181` and `:191`), and then nobody notices that the stream
  is gone. `ShutdownEndsHandlers` excepts exactly these handlers; `Run` returns
  without them because the timer of `waitGroupTimeout` fires.
- In `E2EStream` the handshake, a started Write, the close and the reader go
  on; nothing makes a source send or end, and nothing breaks the stream.
- In `StreamSetup` the service closes its side once it has seen the end of
  the other; without that a half-closed proxy may stay open rightly.

## Proofs

TLAPS proves for every value of the constants that satisfies the named
assumptions (`PeersAssumption`, `GoroutinesAssumption`, `ConnAssumption`,
`BackoffAssumption`, `ClientAssumption`, `ProxyAssumption`, `SetupAssumption`,
`StreamAssumption`, `StrLenAssumption`, `ConfigAssumption`, `MessageAssumption`;
they state the disjointness of identifiers, that sizes are positive, that delay
tables and candidate lists are non-empty and that settings, configurations and
messages are records of their type; TLC evaluates them in the runs). Two of them
say more: a request ID has 16 bytes, and what an egress answers fits a frame,
since the text of an error quotes a few names of a request, which itself came
in one.

- **PeerSessions**: `TypeOK`, `NoOrphanSession`, `RegisteredIsServed`,
  `OneAcceptLoop`, `SessionIdentity`, `HeldIsSession` and the action property
  `FirstLiveWins`.
  None of the invariants is inductive alone. `IInv` adds what a place in the
  code says of the connection a goroutine holds: a connection between dial and
  registration is held by one goroutine, registered nowhere and has no handler;
  one between registration and `Spawn` has no handler either; a handler before
  `RegisterInbound` has a connection that is registered only if it was dialed.
  Without these facts `Register` could register a connection twice and `Spawn`
  could meet a running accept loop. The proof that `IInv` is kept goes through
  the actions one by one; actions that leave sessions and connections alone
  share lemmas. `HeldIsSession` starts where a connection is registered, one
  step before it is handed out (`HeldOK`), and then rests on `FirstLiveWins`.
- **ClientRuntime**: `TypeOK`, `NoLeakedConnection`, `DialsAreExclusive`,
  `ErrSendNeverBlocks`, `ReturnedMeansQuiet`, and `LiveMeansNoBackoff` (a success
  resets the backoff), which no run checks by itself. The three
  session properties are
  inductive only together (`Sessions`): a dial that succeeds stores its
  connection without looking, which is right because whoever dials holds the
  mutex and found the session open and without a connection. For the error
  channel `OneErrorEach` says that it never holds more errors than accept loops
  have ended, an error being a loop's last act, and that no loop exists before
  Run has started them; a loop that has yet to send is one of the others, so
  there is room, for any number of listeners. `Stages` says what each
  stage of the shutdown has seen to: sessions closed, then accept loops ended
  (which start no handler any more), then handlers ended.
- **ProxyIO**: `TypeOK`, `NilMeansComplete`, `HalfCloseKeepsReverse`,
  `PlainNothingLeftOpen`. `Copied`
  says what a goroutine's place means for its direction (past io.Copy without
  an error, everything sent has been delivered and the end was clean),
  `Reported` that channel `done` holds the errors of the goroutines that have
  ended, and `Returned` that Proxy goes on only after both. `Shut` and
  `Aborted` say which half has been shut by whom: by EOF, by CloseWrite, by
  `abortOnce` or by the final Close.
- **StreamSetup** (`StreamSetupProofs`): `TypeOK`, `TargetAuthorized`,
  `ProxyMeansTarget`, `TranscriptsAgree`, for any number of nodes, candidates
  and hops. The invariant `Requested` compares every stream with its candidate:
  a stream that is open goes to the hop it should go to, with the request this
  hop should get (`Expected`: the route from this hop on), after all hops
  before it have admitted it (`Opened`); what the place of a handler says of
  its policy (`Served`); and which frames may be under way (`UpQueued`,
  `DownQueued`: a plaintext OK or a ServerHello only once the egress has the
  target). The frames are what carries a decision from one hop to the next, so
  without them no property survives the step that reads one.
- **StreamSetup** (`FailoverProofs`): `DenialStopsFailover` and
  `HandshakeIsFinal`. `Decided` follows
  a denial on its way back: while a hop has not decided, the client waits and
  can hear nothing but OKs; once it has denied, the denial is in one of the
  streams before it, behind an OK at most and followed by the end
  (`Travels`), or the client has closed the local connection. It rests on two
  facts: a handler that neither relays nor has ended is alone at the end of its
  chain, and no denial is a code the client retries on. For the handshake
  `Final` says that a hop which has ClientFinished before it, or has gone on to
  proxying after one, belongs to the attempt the client ended with: the client
  sends the frame in the very step in which it gives up every other candidate.
- **E2EStream**: `TypeOK`, `NonceUsedOnce`, `SessionAgreed`, and `CarriesPipes`
  step by step: the initial state maps to that of a Pipe, and every step to a
  step of the Pipe or a stutter. `Agreement` says how far the progress of one
  side commits the other and that each hello is sent once, in front of
  everything else; `Flow` that the bytes read, buffered and under way, in this
  order, are those written, with consecutive sequence numbers (`Chain`), as
  long as nothing ended the stream; `Nonces` that every record sealed has a
  sequence number below the writer's, or is the writer's last.

- **Frames** (`FramesProofs`): `RoundTrip`, for every message of the protocol
  and strings of any length: if its Write function lets it through, the frame
  is read as the same message. Every limit of a writer fits the width its
  length is stored in (`Limits`) and is the limit of the reader; what an encoder
  puts at a place (`Holds`) is what the decoder finds there, through the
  concatenations and however many entries a route has before it. `PayloadSize`
  is recursive; that it is the sum of the widths (`SizeIsSum`), and that sizes
  add up (`SizeConcat`), is shown without induction over data, by the least
  place at which it would fail: a non-empty set of naturals has a least element
  (`Least`, from the library's `WFMin`). `RequestFits` bounds the size of a
  request with routes of at most three hops.
- **RequestPath** (`RequestPathProofs`): `ArrivesUnchanged`,
  `AcceptedConfigIsServed`, `CertificateOfService`, for every configuration and
  message. `Wire` says that the frame under way is that of the message written
  last, `Accepted` that who runs has validated its configuration, and
  `Underway` that the request is, at every hop, short and meant for this hop
  (`ForThisHop`), which relaying keeps, and that a request that requires E2E
  comes from a client with a service CA. The step that opens a stream is where
  validation, candidate resolution and session selection have to agree, with a
  lemma each for candidates with a route (`RoutedServed`), for those without
  (`DirectServed`: a server named as egress, or the only one) and for both ways
  to a candidate (`CandidatesServed`). `RequestFits` is what
  leaves an overlong name as the only way to fail.

Every invariant and every action property that a passing run checks is stated
by a theorem. The liveness properties are only model-checked: fairness and
ENABLED are out of the prover's reach. Of a refinement, `CarriesPipes`, the
theorem covers every step; the Pipes state no fairness.

## What the checks found

Four runs refute a sentence of the repository's documentation or comments; the
quotations are under `findings` in `PROJECT.json`.

1. `peer_backoff`: a dial that fails after the peer has connected by itself
   records a backoff that outlives the reconnection.
2. `client_backoff`: the client's delay counts from before the dial; a dial
   that fails by timeout leaves no delay.
3. `proxy_truncated`: after a failed copy an encrypted endpoint is closed with
   code OK before it is aborted.
4. `proxy_released`: with encrypted endpoints a regular end leaves the receive
   half of the QUIC stream unread and uncancelled.

Met on the way, without a run of their own:

- The encrypted CloseWrite writes to the stream, and may block on a far end
  that does not read, before the abort that should unblock everything
  (`proxyio/proxy.go:63`). `PlainErrorUnblocks` is therefore stated for plain
  endpoints; `ErrorUnblocks` in ProxyIO, for all, does not hold.
- When the sequence numbers run out, the writer's error is followed by a close
  with code OK like any other failed copy (`e2e/record.go:192`); the reader is
  told EOF. This is `proxy_truncated` again.
- A name of more than 4096 bytes passes validation and is refused only when the
  first request is written; the session then drops the connection that all its
  streams share (`client/session.go:151`). `AcceptedConfigIsServed` names the
  exception.

## Plan

Done: all modules above, and the proofs of every invariant and action property.
Next:

1. `PeerPair`, two PeerSessions that dial each other (the restarted peer whose
   new session is closed as a duplicate, `server/peers.go:97`), if an instance
   stays within reach.
2. Stream credits counted: the streams of rejected requests and of finished
   encrypted proxies against the connection's limit (`client/stream.go:98`);
   today a wait for a stream is only a wait that may not end.
3. Step properties the proofs suggest: that a denial travels back unchanged
   over every hop, and that a session's closing is final.

## Not modelled

YAML loading, the lookup of configuration paths and the command line are file
I/O around the validated record. Certificate parsing and TLS verification
(`identity/tls.go`, `peer.go`) are the standard library's; the authenticated
node ID is taken as given, and cryptography is ideal. Request IDs are random;
only their size on the wire matters. Logging and test support have no
behaviour of the system. UDP services are accepted by validation and rejected
by the server like every protocol but tcp (`Refuse` in RequestPath); nothing else
exists of them. The lengths of timeouts other than the reconnect delays are
abstracted to steps that end. QUIC itself is represented by connections that
live and die and by ordered streams that may be lost, cut or reset; its stream
limits and flow control appear only as reads and writes that may block.
