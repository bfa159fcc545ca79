------------------------------ MODULE E2EStream ------------------------------
(***************************************************************************)
(* An end-to-end encrypted stream between the client and the egress        *)
(* server: the handshake (e2e/handshake.go, both runHandshake functions)   *)
(* and the records (e2e/record.go), each direction copied into by io.Copy. *)
(* In between, relays copy bytes. They know neither frames nor records, so *)
(* what reaches a reader may end anywhere: between frames, behind a        *)
(* header, inside a header or a payload; or the stream is reset.           *)
(*                                                                         *)
(* A byte is its place in its direction. Hashes, signatures, secrets and   *)
(* keys are what they are computed from; a certificate is whether the      *)
(* other side accepts it. Authorization, dialing the target and what       *)
(* follows a failed setup are in StreamSetup, the rest of proxying in      *)
(* ProxyIO.                                                                *)
(***************************************************************************)
EXTENDS Naturals, Sequences

CONSTANTS
    Contexts,   \* e2e.Context: request ID, service, egress and route
    NoKey,      \* no server ephemeral (in a ClientHello's digest), no key yet
    Source,     \* bound: bytes each direction's source has
    MaxWrite,   \* bytes io.Copy reads from its source at once
    MaxPlain,   \* maxPlaintext of a record
    MaxRead,    \* bytes io.Copy asks an EncryptedReader for
    MaxSeq      \* stands for math.MaxUint64

Sides == {"client", "server"}
Directions == {"up", "down"}
WriterOf(d) == IF d = "up" THEN "client" ELSE "server"
ReaderOf(d) == IF d = "up" THEN "server" ELSE "client"
OutOf(side) == IF side = "client" THEN "up" ELSE "down"
InOf(side) == IF side = "client" THEN "down" ELSE "up"

\* A key is what it is derived from, and there is one per direction.
Ephemerals == Sides \cup {NoKey}
Digests(domain) ==
    [domain : {domain}, ctx : Contexts, client : Ephemerals, server : Ephemerals]
Keys == [secret : SUBSET Ephemerals, salt : Digests("transcript"), dir : Directions]
TrafficKeys == [Directions -> Keys]

ASSUME StreamAssumption ==
    /\ Source \in [Directions -> Nat] /\ MaxSeq \in Nat
    /\ {MaxWrite, MaxPlain, MaxRead} \subseteq Nat \ {0}
    /\ NoKey \notin Sides \cup TrafficKeys

VARIABLES
    ctx, cert,      \* each side's context; whether its certificate is accepted
    hs, seen, keys, \* its place in runHandshake, the peer's ephemeral, its keys
    wire, carrier,  \* per direction: frames under way, and the stream below:
                    \* "open", "fin" or "torn" behind them, or "reset"
    copier, pend,   \* the copying goroutine, and what is left of its Write
    wseq, wclosed, sent,      \* EncryptedWriter, and the bytes it has written
    rseq, rbuf, got, result,  \* EncryptedReader, what was read and the outcome
    sealed          \* every record encrypted so far (history)

setupVars == <<ctx, cert, hs, seen, keys>>
writerVars == <<copier, pend, wseq, wclosed, sent>>
readerVars == <<rseq, rbuf, got, result>>
vars == <<ctx, cert, hs, seen, keys, wire, carrier, copier, pend, wseq, wclosed, sent,
          rseq, rbuf, got, result, sealed>>

\* An ephemeral public key is named by the side that generated it.
Init ==
    /\ ctx \in [Sides -> Contexts] /\ cert \in [Sides -> BOOLEAN]
    /\ hs = [side \in Sides |-> IF side = "client" THEN "start" ELSE "clientHello"]
    /\ seen = [side \in Sides |-> NoKey] /\ keys = [side \in Sides |-> NoKey]
    /\ wire = [d \in Directions |-> <<>>] /\ carrier = [d \in Directions |-> "open"]
    /\ copier = [d \in Directions |-> "copy"] /\ pend = [d \in Directions |-> <<>>]
    /\ wseq = [d \in Directions |-> 0] /\ wclosed = [d \in Directions |-> FALSE]
    /\ sent = [d \in Directions |-> <<>>]
    /\ rseq = [d \in Directions |-> 0] /\ rbuf = [d \in Directions |-> <<>>]
    /\ got = [d \in Directions |-> <<>>] /\ result = [d \in Directions |-> "none"]
    /\ sealed = {}

-----------------------------------------------------------------------------
(* The stream below. *)

\* Frames written to a stream that has ended go nowhere.
Put(d, frame) == wire' = IF carrier[d] = "open"
                         THEN [wire EXCEPT ![d] = Append(@, frame)] ELSE wire
Pop(d) == wire' = [wire EXCEPT ![d] = Tail(@)]

\* What ReadFrame finds: a frame, io.EOF (at the end between two frames or
\* behind a header) or another error.
Readable(d) == wire[d] # <<>> /\ carrier[d] # "reset"
AtEOF(d) == wire[d] = <<>> /\ carrier[d] = "fin"
Unreadable(d) == carrier[d] = "reset" \/ (wire[d] = <<>> /\ carrier[d] = "torn")

\* A relay ends a direction after some of its bytes.
Cut(d) ==
    /\ carrier[d] = "open"
    /\ \E k \in 0..Len(wire[d]) :
         /\ wire' = [wire EXCEPT ![d] = SubSeq(@, 1, k)]
         /\ \/ carrier' = [carrier EXCEPT ![d] = "fin"]
            \/ /\ k < Len(wire[d]) \/ pend[d] # <<>>
               /\ carrier' = [carrier EXCEPT ![d] = "torn"]
    /\ UNCHANGED <<setupVars, writerVars, readerVars, sealed>>

\* A direction is reset: by either end's abort, a relay's or the network.
Reset(d) ==
    /\ carrier[d] # "reset"
    /\ carrier' = [carrier EXCEPT ![d] = "reset"]
    /\ UNCHANGED <<setupVars, wire, writerVars, readerVars, sealed>>

-----------------------------------------------------------------------------
(* The handshake. *)

\* Broken variant of Digest: the context is left out.
DigestOfKeys(domain, c, client, server) ==
    [domain |-> domain, client |-> client, server |-> server]

Digest(domain, c, client, server) ==
    [domain |-> domain, ctx |-> c, client |-> client, server |-> server]

SharedSecret(private, peerPublic) == {private, peerPublic}

\* One key per direction.
DeriveTrafficKeys(secret, transcript) ==
    [d \in Directions |-> [secret |-> secret, salt |-> transcript, dir |-> d]]

Hello(side, digest, eph) ==
    [type |-> "hello", by |-> side, eph |-> eph, signed |-> digest]

\* A signature verifies under an accepted certificate, over the same digest.
Verify(side, f, digest) ==
    f.type = "hello" /\ f.by = side /\ cert[side] /\ f.signed = digest

\* The frame a side waits for: VerifyClientHello, VerifyClientFinished and
\* VerifyServerHello.
Accepts(side, f) ==
    CASE hs[side] = "clientHello" ->
           Verify("client", f, Digest("clientHello", ctx[side], f.eph, NoKey))
      [] hs[side] = "clientFinished" ->
           Verify("client", f, Digest("clientFinished", ctx[side], seen[side], "server"))
      [] hs[side] = "serverHello" ->
           Verify("server", f, Digest("serverHello", ctx[side], "client", f.eph))

SetKeys(side, secret, client, server) ==
    keys' = [keys EXCEPT ![side] =
        DeriveTrafficKeys(secret, Digest("transcript", ctx[side], client, server))]

Goto(side, label) == hs' = [hs EXCEPT ![side] = label]

SendClientHello ==
    /\ hs["client"] = "start"
    /\ Put("up", Hello("client", Digest("clientHello", ctx["client"], "client", NoKey),
                       "client"))
    /\ Goto("client", "serverHello")
    /\ UNCHANGED <<ctx, cert, seen, keys, carrier, writerVars, readerVars, sealed>>

\* The next frame is one the side accepts, and its key is remembered.
ReadHello(side, label) ==
    /\ Readable(InOf(side)) /\ Accepts(side, Head(wire[InOf(side)]))
    /\ seen' = [seen EXCEPT ![side] = Head(wire[InOf(side)]).eph]
    /\ Pop(InOf(side)) /\ Goto(side, label)
    /\ UNCHANGED <<ctx, cert, keys, carrier, writerVars, readerVars, sealed>>

ReadClientHello == hs["server"] = "clientHello" /\ ReadHello("server", "prepare")
ReadServerHello == hs["client"] = "serverHello" /\ ReadHello("client", "finish")

\* The client is authorized, the target dialed.
SendServerHello ==
    /\ hs["server"] = "prepare"
    /\ Put("down", Hello("server",
                         Digest("serverHello", ctx["server"], seen["server"], "server"),
                         "server"))
    /\ Goto("server", "clientFinished")
    /\ UNCHANGED <<ctx, cert, seen, keys, carrier, writerVars, readerVars, sealed>>

\* NewClientFinished; the client goes on without waiting for an answer.
SendClientFinished ==
    /\ hs["client"] = "finish"
    /\ Put("up", Hello("client",
                       Digest("clientFinished", ctx["client"], "client", seen["client"]),
                       NoKey))
    /\ SetKeys("client", SharedSecret("client", seen["client"]), "client", seen["client"])
    /\ Goto("client", "records")
    /\ UNCHANGED <<ctx, cert, seen, carrier, writerVars, readerVars, sealed>>

ReadClientFinished ==
    /\ hs["server"] = "clientFinished"
    /\ Readable("up") /\ Accepts("server", Head(wire["up"]))
    /\ Pop("up")
    /\ SetKeys("server", SharedSecret("server", seen["server"]), seen["server"], "server")
    /\ Goto("server", "records")
    /\ UNCHANGED <<ctx, cert, seen, carrier, writerVars, readerVars, sealed>>

CloseFrame(code) == [type |-> "close", code |-> code]

\* A frame could not be read, verified or written, or the server refuses the
\* client or cannot dial: the stream is closed, by the server with an E2EClose.
HandshakeFails(side) ==
    /\ \/ /\ hs[side] \in {"clientHello", "serverHello", "clientFinished"}
          /\ \/ AtEOF(InOf(side)) \/ Unreadable(InOf(side))
             \/ Readable(InOf(side)) /\ ~Accepts(side, Head(wire[InOf(side)]))
       \/ hs[side] \in {"start", "finish"} /\ carrier[OutOf(side)] # "open"
       \/ hs[side] = "prepare"
    /\ Goto(side, "failed")
    /\ LET d == OutOf(side)
       IN  /\ IF side = "server" THEN Put(d, CloseFrame("error")) ELSE UNCHANGED wire
           /\ carrier' = [carrier EXCEPT ![d] = IF @ = "open" THEN "fin" ELSE @]
    /\ UNCHANGED <<ctx, cert, seen, keys, writerVars, readerVars, sealed>>

Handshake ==
    \/ SendClientHello \/ ReadClientHello \/ SendServerHello
    \/ ReadServerHello \/ SendClientFinished \/ ReadClientFinished
    \/ \E side \in Sides : HandshakeFails(side)

-----------------------------------------------------------------------------
(* Writing: io.Copy into an EncryptedWriter. *)

Min(m, n) == IF m <= n THEN m ELSE n
Copying(d) == hs[WriterOf(d)] = "records" /\ copier[d] = "copy"

\* The source yields some bytes, and Write is called with them.
CopyRead(d) ==
    /\ Copying(d) /\ pend[d] = <<>>
    /\ \E n \in 1..Min(MaxWrite, Source[d] - Len(sent[d])) :
         pend' = [pend EXCEPT ![d] = [i \in 1..n |-> Len(sent[d]) + i]]
    /\ UNCHANGED <<setupVars, wire, carrier, copier, wseq, wclosed, sent, readerVars,
                   sealed>>

\* The record writeRecordLocked makes of the next part of the Write.
Record(d) ==
    [type |-> "data", key |-> keys[WriterOf(d)][d], seq |-> wseq[d], dir |-> d,
     text |-> SubSeq(pend[d], 1, Min(MaxPlain, Len(pend[d])))]

\* Broken variant of WriteRecord: the last sequence number is used too.
WriteRecordToTheEnd(d) ==
    /\ Copying(d) /\ pend[d] # <<>>
    /\ Put(d, Record(d))
    /\ sealed' = sealed \cup {Record(d)}
    /\ wseq' = [wseq EXCEPT ![d] = @ + 1]
    /\ sent' = [sent EXCEPT ![d] = @ \o Record(d).text]
    /\ pend' = [pend EXCEPT ![d] = SubSeq(@, Len(Record(d).text) + 1, Len(@))]
    /\ UNCHANGED <<setupVars, carrier, copier, wclosed, readerVars>>

WriteRecord(d) ==
    /\ Copying(d) /\ pend[d] # <<>> /\ wseq[d] # MaxSeq
    /\ Put(d, Record(d))
    /\ sealed' = sealed \cup {Record(d)}
    /\ wseq' = [wseq EXCEPT ![d] = @ + 1]
    /\ sent' = [sent EXCEPT ![d] = @ \o Record(d).text]
    /\ pend' = [pend EXCEPT ![d] = SubSeq(@, Len(Record(d).text) + 1, Len(@))]
    /\ UNCHANGED <<setupVars, carrier, copier, wclosed, readerVars>>

\* Broken variant of WriteFails: io.Copy tries the next bytes.
WriteFailsGoesOn(d) ==
    /\ Copying(d) /\ pend[d] # <<>> /\ wseq[d] # MaxSeq /\ carrier[d] # "open"
    /\ sealed' = sealed \cup {Record(d)}
    /\ pend' = [pend EXCEPT ![d] = Tail(@)]
    /\ UNCHANGED <<setupVars, wire, carrier, copier, wseq, wclosed, sent, readerVars>>

\* The stream refuses the record, which was encrypted and may have left in
\* part: the sequence number stays, and io.Copy ends.
WriteFails(d) ==
    /\ Copying(d) /\ pend[d] # <<>> /\ wseq[d] # MaxSeq /\ carrier[d] # "open"
    /\ sealed' = sealed \cup {Record(d)}
    /\ pend' = [pend EXCEPT ![d] = <<>>]
    /\ copier' = [copier EXCEPT ![d] = "close"]
    /\ UNCHANGED <<setupVars, wire, carrier, wseq, wclosed, sent, readerVars>>

\* "e2e record sequence exhausted".
WriteExhausted(d) ==
    /\ Copying(d) /\ pend[d] # <<>> /\ wseq[d] = MaxSeq
    /\ pend' = [pend EXCEPT ![d] = <<>>]
    /\ copier' = [copier EXCEPT ![d] = "close"]
    /\ UNCHANGED <<setupVars, wire, carrier, wseq, wclosed, sent, readerVars, sealed>>

\* The source ends or fails.
CopyEnds(d) ==
    /\ Copying(d) /\ pend[d] = <<>>
    /\ copier' = [copier EXCEPT ![d] = "close"]
    /\ UNCHANGED <<setupVars, wire, carrier, pend, wseq, wclosed, sent, readerVars,
                   sealed>>

\* Broken variant of CloseWrite: the frame is not written.
CloseWriteSilently(d) ==
    /\ copier[d] = "close"
    /\ wclosed' = [wclosed EXCEPT ![d] = TRUE]
    /\ copier' = [copier EXCEPT ![d] = "done"]
    /\ UNCHANGED <<setupVars, wire, carrier, pend, wseq, sent, readerVars, sealed>>

\* proxyOneWay calls CloseWrite however the copy ended.
CloseWrite(d) ==
    /\ copier[d] = "close"
    /\ Put(d, CloseFrame("ok"))
    /\ wclosed' = [wclosed EXCEPT ![d] = TRUE]
    /\ copier' = [copier EXCEPT ![d] = "done"]
    /\ UNCHANGED <<setupVars, carrier, pend, wseq, sent, readerVars, sealed>>

Write(d) ==
    \/ CopyRead(d) \/ WriteRecord(d) \/ WriteFails(d) \/ WriteExhausted(d)
    \/ CopyEnds(d) \/ CloseWrite(d)

-----------------------------------------------------------------------------
(* Reading: io.Copy from an EncryptedReader. *)

Reading(d) == hs[ReaderOf(d)] = "records" /\ result[d] = "none"

\* Read hands out what is buffered before it looks at the stream.
ReadBuffered(d) ==
    /\ Reading(d) /\ rbuf[d] # <<>>
    /\ LET n == Min(MaxRead, Len(rbuf[d]))
       IN  /\ got' = [got EXCEPT ![d] = @ \o SubSeq(rbuf[d], 1, n)]
           /\ rbuf' = [rbuf EXCEPT ![d] = SubSeq(@, n + 1, Len(@))]
    /\ UNCHANGED <<setupVars, wire, carrier, writerVars, rseq, result, sealed>>

\* The checks of openDataFrame.
Opens(d, f) ==
    /\ f.seq = rseq[d] /\ f.key = keys[ReaderOf(d)][d] /\ rseq[d] # MaxSeq

\* Broken variant of ReadData: what is still buffered is overwritten.
ReadDataEagerly(d) ==
    /\ Reading(d) /\ Readable(d)
    /\ Head(wire[d]).type = "data" /\ Opens(d, Head(wire[d]))
    /\ rbuf' = [rbuf EXCEPT ![d] = Head(wire[d]).text]
    /\ rseq' = [rseq EXCEPT ![d] = @ + 1]
    /\ Pop(d)
    /\ UNCHANGED <<setupVars, carrier, writerVars, got, result, sealed>>

ReadData(d) ==
    /\ Reading(d) /\ rbuf[d] = <<>> /\ Readable(d)
    /\ Head(wire[d]).type = "data" /\ Opens(d, Head(wire[d]))
    /\ rbuf' = [rbuf EXCEPT ![d] = Head(wire[d]).text]
    /\ rseq' = [rseq EXCEPT ![d] = @ + 1]
    /\ Pop(d)
    /\ UNCHANGED <<setupVars, carrier, writerVars, got, result, sealed>>

\* Any other frame ends the reading, and so does the end of the stream.
ReadEnds(d) ==
    /\ Reading(d) /\ rbuf[d] = <<>>
    /\ \/ /\ Readable(d)
          /\ LET f == Head(wire[d])
             IN  /\ ~(f.type = "data" /\ Opens(d, f))
                 /\ result' = [result EXCEPT ![d] =
                        IF f.type = "close" /\ f.code = "ok" THEN "eof" ELSE "error"]
          /\ Pop(d)
       \/ /\ AtEOF(d) \/ Unreadable(d)
          /\ result' = [result EXCEPT ![d] = IF AtEOF(d) THEN "eof" ELSE "error"]
          /\ UNCHANGED wire
    /\ UNCHANGED <<setupVars, carrier, writerVars, rseq, rbuf, got, sealed>>

Read(d) == ReadBuffered(d) \/ ReadData(d) \/ ReadEnds(d)

-----------------------------------------------------------------------------

\* Neither end has anything left to do by itself.
Terminated ==
    /\ \A side \in Sides : hs[side] \in {"records", "failed"}
    /\ \A d \in Directions :
         /\ hs[WriterOf(d)] = "records" => copier[d] = "done"
         /\ hs[ReaderOf(d)] = "records" => result[d] # "none"
    /\ UNCHANGED vars

Next ==
    \/ Handshake
    \/ \E d \in Directions : Write(d) \/ Read(d) \/ Cut(d) \/ Reset(d)
    \/ Terminated

Spec == Init /\ [][Next]_vars

\* The goroutines of both ends run. Nothing makes a source send or end, and
\* nothing breaks the stream.
FairSpec ==
    /\ Spec
    /\ WF_vars(Handshake)
    /\ \A d \in Directions :
         /\ WF_vars(WriteRecord(d) \/ WriteExhausted(d) \/ CloseWrite(d))
         /\ WF_vars(Read(d))

-----------------------------------------------------------------------------
(* Properties. *)

\* The type of every variable; sequence numbers stay within their width.
TypeOK ==
    /\ ctx \in [Sides -> Contexts] /\ cert \in [Sides -> BOOLEAN]
    /\ hs \in [Sides -> {"start", "clientHello", "serverHello", "prepare", "finish",
                         "clientFinished", "records", "failed"}]
    /\ seen \in [Sides -> Ephemerals]
    /\ keys \in [Sides -> TrafficKeys \cup {NoKey}]
    /\ \A side \in Sides : keys[side] # NoKey <=> hs[side] = "records"
    /\ carrier \in [Directions -> {"open", "fin", "torn", "reset"}]
    /\ copier \in [Directions -> {"copy", "close", "done"}]
    /\ wseq \in [Directions -> 0..MaxSeq] /\ rseq \in [Directions -> 0..MaxSeq]
    /\ wclosed \in [Directions -> BOOLEAN]
    /\ result \in [Directions -> {"none", "eof", "error"}]
    /\ \A d \in Directions : \A i \in 1..Len(wire[d]) :
         wire[d][i].type \in {"hello", "data", "close"}
    /\ \A d \in Directions :
         {sent[d], got[d], pend[d], rbuf[d]} \subseteq Seq(1..Source[d])

\* Each direction is a Pipe: the plaintext of the far end's writer arrives as a
\* prefix, in order; EOF means all of it unless a relay ended the stream; an
\* error means that the stream broke, never that records of an intact stream
\* were refused (keys, sequence numbers and their exhaustion agree).
Link(d) == CASE carrier[d] = "open" -> "whole"
             [] carrier[d] = "fin" -> "cut"
             [] OTHER -> "lost"

Up == INSTANCE Pipe WITH sent <- sent["up"], closed <- wclosed["up"],
    got <- got["up"], result <- result["up"], link <- Link("up")
Down == INSTANCE Pipe WITH sent <- sent["down"], closed <- wclosed["down"],
    got <- got["down"], result <- result["down"], link <- Link("down")

CarriesPipes == Up!Spec /\ Down!Spec

\* No nonce is used for two plaintexts under one key, not even by a record
\* whose write failed after it was encrypted, nor across directions.
NonceUsedOnce == \A r, s \in sealed : r.key = s.key /\ r.seq = s.seq => r = s

\* A side that goes on to records has verified a peer that sees the request as
\* it does, and the two sides' keys are the same once both have them.
SessionAgreed ==
    \A side \in Sides : hs[side] = "records" =>
        /\ ctx["client"] = ctx["server"]
        /\ cert[IF side = "client" THEN "server" ELSE "client"]
        /\ keys["server"] \in {NoKey, keys["client"]}

\* A closed direction ends at its reader, however its stream fares, unless the
\* reader's side gave up during the handshake.
ClosedDirectionEnds ==
    \A d \in Directions :
        wclosed[d] ~> (result[d] # "none" \/ hs[ReaderOf(d)] = "failed")
=============================================================================
