--------------------------- MODULE E2EStreamProofs ---------------------------
(***************************************************************************)
(* Safety of E2EStream for any lengths of source, write, record and read,  *)
(* any number of sequence numbers and any set of contexts, and the         *)
(* refinement of Pipe by each of its directions.                           *)
(***************************************************************************)
EXTENDS E2EStream, TLAPS, SequenceTheorems

-----------------------------------------------------------------------------
(* The inductive invariant. *)

\* The frames that may be under way in direction d.
HelloFrames ==
    [type : {"hello"}, by : Sides, eph : Ephemerals,
     signed : Digests("clientHello") \cup Digests("serverHello")
              \cup Digests("clientFinished")]
DataFrames(d) ==
    [type : {"data"}, key : Keys, seq : Nat, dir : {d}, text : Seq(1..Source[d])]
CloseFrames == [type : {"close"}, code : {"ok", "error"}]
FramesOf(d) == HelloFrames \cup DataFrames(d) \cup CloseFrames

\* f is defined on the directions.
PerDirection(f) == f = [d \in Directions |-> f[d]]

\* TypeOK by parts, with the domains of the functions and the types of frames.
SetupTypes ==
    /\ ctx \in [Sides -> Contexts] /\ cert \in [Sides -> BOOLEAN]
    /\ hs \in [Sides -> {"start", "clientHello", "serverHello", "prepare", "finish",
                         "clientFinished", "records", "failed"}]
    /\ seen \in [Sides -> Ephemerals]
    /\ keys \in [Sides -> TrafficKeys \cup {NoKey}]
    /\ \A side \in Sides : keys[side] # NoKey <=> hs[side] = "records"
CarrierType == carrier \in [Directions -> {"open", "fin", "torn", "reset"}]
Wires == PerDirection(wire) /\ \A d \in Directions : wire[d] \in Seq(FramesOf(d))
WriterTypes ==
    /\ copier \in [Directions -> {"copy", "close", "done"}]
    /\ wseq \in [Directions -> 0..MaxSeq] /\ wclosed \in [Directions -> BOOLEAN]
    /\ PerDirection(sent) /\ PerDirection(pend)
    /\ \A d \in Directions : sent[d] \in Seq(1..Source[d]) /\ pend[d] \in Seq(1..Source[d])
    /\ sealed \subseteq DataFrames("up") \cup DataFrames("down")
ReaderTypes ==
    /\ rseq \in [Directions -> 0..MaxSeq] /\ result \in [Directions -> {"none", "eof", "error"}]
    /\ PerDirection(got) /\ PerDirection(rbuf)
    /\ \A d \in Directions : got[d] \in Seq(1..Source[d]) /\ rbuf[d] \in Seq(1..Source[d])
Types == SetupTypes /\ CarrierType /\ Wires /\ WriterTypes /\ ReaderTypes

\* The three frames of the handshake, as the honest sides make them.
ClientHello ==
    Hello("client", Digest("clientHello", ctx["client"], "client", NoKey), "client")
ServerHello ==
    Hello("server", Digest("serverHello", ctx["server"], seen["server"], "server"), "server")
ClientFinished ==
    Hello("client", Digest("clientFinished", ctx["client"], "client", "server"), NoKey)

SessionKeys ==
    DeriveTrafficKeys({"client", "server"},
                      Digest("transcript", ctx["client"], "client", "server"))

\* How far each side's progress in the handshake commits the other.
Handshaken ==
    /\ hs["client"] \in {"start", "serverHello", "finish", "records", "failed"}
    /\ hs["server"] \in {"clientHello", "prepare", "clientFinished", "records", "failed"}
    /\ hs["client"] \in {"finish", "records"} =>
         /\ seen["client"] = "server" /\ cert["server"] /\ ctx["client"] = ctx["server"]
         /\ hs["server"] \in {"clientFinished", "records", "failed"}
    /\ hs["server"] \in {"prepare", "clientFinished", "records"} =>
         /\ seen["server"] = "client" /\ cert["client"] /\ ctx["client"] = ctx["server"]
         /\ hs["client"] # "start"
    /\ hs["client"] = "records" => keys["client"] = SessionKeys
    /\ hs["server"] = "records" => hs["client"] = "records" /\ keys["server"] = SessionKeys

\* Each hello is sent once, in front of everything else, and is under way only
\* until its reader has taken it.
HellosUp ==
    /\ \A i \in 1..Len(wire["up"]) : wire["up"][i].type = "hello" =>
         \/ /\ i = 1 /\ wire["up"][i] = ClientHello
            /\ hs["client"] # "start" /\ hs["server"] \in {"clientHello", "failed"}
         \/ /\ i = 1 \/ (i = 2 /\ wire["up"][1] = ClientHello)
            /\ wire["up"][i] = ClientFinished
            /\ hs["client"] = "records" /\ hs["server"] # "records"
    /\ hs["client"] # "records" =>
         \A i \in 1..Len(wire["up"]) : wire["up"][i].type = "hello"

HellosDown ==
    /\ \A i \in 1..Len(wire["down"]) : wire["down"][i].type = "hello" =>
         /\ i = 1 /\ wire["down"][i] = ServerHello
         /\ hs["server"] \in {"clientFinished", "records", "failed"}
         /\ hs["client"] \in {"serverHello", "failed"}
    /\ hs["server"] \notin {"records", "failed"} =>
         \A i \in 1..Len(wire["down"]) : wire["down"][i].type = "hello"

\* Nothing is written or read before the handshake is done.
Ready(d) ==
    /\ hs[WriterOf(d)] # "records" =>
         sent[d] = <<>> /\ pend[d] = <<>> /\ wseq[d] = 0 /\ copier[d] = "copy"
    /\ wclosed[d] = (copier[d] = "done")
    /\ hs[ReaderOf(d)] # "records" =>
         got[d] = <<>> /\ rbuf[d] = <<>> /\ rseq[d] = 0 /\ result[d] = "none"

\* A byte is its place: s continues a direction behind its first n bytes.
Numbered(s, n) == \A i \in 1..Len(s) : s[i] = n + i

Bytes(d) ==
    /\ Numbered(sent[d], 0) /\ Numbered(pend[d], Len(sent[d]))
    /\ Numbered(got[d], 0) /\ Numbered(rbuf[d], Len(got[d]))
    /\ Len(got[d]) + Len(rbuf[d]) <= Len(sent[d])

\* The sequence number and the bytes in front of the i-th frame under way.
SeqBefore(d, i) ==
    IF i = 1 THEN rseq[d]
    ELSE IF wire[d][i - 1].type = "data" THEN wire[d][i - 1].seq + 1 ELSE 0
BytesBefore(d, i) ==
    IF i = 1 THEN Len(got[d]) + Len(rbuf[d])
    ELSE IF wire[d][i - 1].type = "data"
         THEN wire[d][i - 1].text[Len(wire[d][i - 1].text)] ELSE 0

\* What the frame at i is to the frames in front of it.
DataOK(d, i) ==
    wire[d][i].type = "data" =>
        /\ wire[d][i].seq = SeqBefore(d, i) /\ wire[d][i].seq < MaxSeq
        /\ wire[d][i].key = keys[WriterOf(d)][d]
        /\ Len(wire[d][i].text) > 0 /\ Numbered(wire[d][i].text, BytesBefore(d, i))
        /\ wire[d][i].text[Len(wire[d][i].text)] <= Len(sent[d])
CloseOK(d, i) ==
    wire[d][i].type = "close" =>
        /\ i = Len(wire[d])
        /\ wire[d][i].code = "ok" => wclosed[d] /\ BytesBefore(d, i) = Len(sent[d])
        /\ wire[d][i].code = "error" => carrier[d] # "open"

\* While the reader reads, the frames under way continue what it has, and as
\* long as nothing ended the stream, nothing that was written is missing.
Chain(d) ==
    result[d] = "none" =>
        /\ \A i \in 1..Len(wire[d]) : DataOK(d, i) /\ CloseOK(d, i)
        /\ carrier[d] = "open" =>
             \/ Len(wire[d]) > 0 /\ wire[d][Len(wire[d])].type = "close"
             \/ /\ SeqBefore(d, Len(wire[d]) + 1) = wseq[d]
                /\ BytesBefore(d, Len(wire[d]) + 1) = Len(sent[d])
                /\ ~wclosed[d]

\* Every record was sealed under its direction's key, with the next sequence
\* number or, if its write failed, the last one its direction will use.
Sealed ==
    \A r \in sealed :
        /\ hs[WriterOf(r.dir)] = "records" /\ r.key = keys[WriterOf(r.dir)][r.dir]
        /\ r.seq < wseq[r.dir] \/ (r.seq = wseq[r.dir] /\ copier[r.dir] # "copy")

Agreement == Handshaken /\ HellosUp /\ HellosDown
Flow(d) == Ready(d) /\ Bytes(d) /\ Chain(d)
Nonces == Sealed /\ NonceUsedOnce
IInv == Types /\ Agreement /\ Nonces /\ \A d \in Directions : Flow(d)

-----------------------------------------------------------------------------
(* Lemmas about the operators of the model. *)

\* The sides and directions are each other's.
LEMMA Dirs ==
    /\ Sides = {"client", "server"} /\ Directions = {"up", "down"}
    /\ WriterOf("up") = "client" /\ WriterOf("down") = "server"
    /\ ReaderOf("up") = "server" /\ ReaderOf("down") = "client"
    /\ OutOf("client") = "up" /\ OutOf("server") = "down"
    /\ InOf("client") = "down" /\ InOf("server") = "up"
  BY DEF Sides, Directions, WriterOf, ReaderOf, OutOf, InOf

\* The assumptions on the constants, in the form the proofs use.
LEMMA Numbers ==
    /\ \A d \in Directions : Source[d] \in Nat
    /\ MaxSeq \in Nat /\ MaxWrite \in Nat \ {0} /\ MaxPlain \in Nat \ {0}
    /\ MaxRead \in Nat \ {0} /\ NoKey \notin Sides /\ NoKey \notin TrafficKeys
  BY StreamAssumption

\* A frame taken from the front.
LEMMA TailFacts ==
    ASSUME NEW S, NEW s \in Seq(S), s # <<>>
    PROVE  /\ Tail(s) \in Seq(S) /\ Len(s) \in Nat /\ Len(s) > 0
           /\ Head(s) = s[1] /\ s[1] \in S
           /\ Len(Tail(s)) = Len(s) - 1
           /\ \A i \in 1..Len(Tail(s)) : Tail(s)[i] = s[i + 1]
  OBVIOUS

\* A frame put at the end.
LEMMA AppendFacts ==
    ASSUME NEW S, NEW s \in Seq(S), NEW f \in S
    PROVE  /\ Append(s, f) \in Seq(S) /\ Len(s) \in Nat
           /\ Len(Append(s, f)) = Len(s) + 1
           /\ \A i \in 1..Len(s) : Append(s, f)[i] = s[i]
           /\ Append(s, f)[Len(s) + 1] = f
  OBVIOUS

\* The front of a sequence.
LEMMA FrontFacts ==
    ASSUME NEW S, NEW s \in Seq(S), NEW k \in 0..Len(s)
    PROVE  /\ SubSeq(s, 1, k) \in Seq(S) /\ Len(SubSeq(s, 1, k)) = k
           /\ \A i \in 1..k : SubSeq(s, 1, k)[i] = s[i]
<1>1. Len(s) \in Nat OBVIOUS
<1>2. \A i \in 1..k : s[i] \in S BY <1>1
<1> QED BY <1>1, <1>2, SubSeqProperties

\* The rest of a sequence.
LEMMA RestFacts ==
    ASSUME NEW S, NEW s \in Seq(S), NEW k \in 0..Len(s)
    PROVE  /\ SubSeq(s, k + 1, Len(s)) \in Seq(S)
           /\ Len(SubSeq(s, k + 1, Len(s))) = Len(s) - k
           /\ \A i \in 1..(Len(s) - k) : SubSeq(s, k + 1, Len(s))[i] = s[k + i]
<1>1. Len(s) \in Nat OBVIOUS
<1>2. \A i \in (k + 1)..Len(s) : s[i] \in S BY <1>1
<1> QED BY <1>1, <1>2, SubSeqProperties

\* The last element of a sequence.
LEMMA LastFacts ==
    ASSUME NEW S, NEW s \in Seq(S), Len(s) > 0
    PROVE  Len(s) \in Nat /\ Len(s) \in 1..Len(s) /\ s[Len(s)] \in S
<1>1. Len(s) \in Nat OBVIOUS
<1>2. Len(s) \in 1..Len(s) BY <1>1
<1> QED BY <1>1, <1>2

\* One sequence behind another.
LEMMA ConcatFacts ==
    ASSUME NEW S, NEW s \in Seq(S), NEW t \in Seq(S)
    PROVE  /\ s \o t \in Seq(S) /\ Len(s) \in Nat /\ Len(t) \in Nat
           /\ Len(s \o t) = Len(s) + Len(t)
           /\ \A i \in 1..Len(s) : (s \o t)[i] = s[i]
           /\ \A i \in 1..Len(t) : (s \o t)[Len(s) + i] = t[i]
  OBVIOUS

-----------------------------------------------------------------------------
(* Types. *)

\* The fields of frames.
LEMMA FrameTypes ==
    ASSUME NEW d \in Directions, NEW f \in FramesOf(d)
    PROVE  /\ f.type \in {"hello", "data", "close"}
           /\ f.type = "hello" => f \in HelloFrames
           /\ f.type = "data" => f.seq \in Nat /\ f.text \in Seq(1..Source[d])
           /\ f.type = "close" => f.code \in {"ok", "error"}
<1>1. CASE f \in HelloFrames BY <1>1 DEF HelloFrames
<1>2. CASE f \in DataFrames(d) BY <1>2 DEF DataFrames
<1>3. CASE f \in CloseFrames BY <1>3 DEF CloseFrames
<1> QED BY <1>1, <1>2, <1>3 DEF FramesOf

\* What is under way are frames.
LEMMA WireTypes ==
    ASSUME NEW w, \A d \in Directions : w[d] \in Seq(FramesOf(d))
    PROVE  /\ \A d \in Directions : Len(w[d]) \in Nat
           /\ \A d \in Directions : \A i \in 1..Len(w[d]) :
                w[d][i] \in FramesOf(d) /\ w[d][i].type \in {"hello", "data", "close"}
<1>1. \A d \in Directions : \A i \in 1..Len(w[d]) : w[d][i] \in FramesOf(d)
  OBVIOUS
<1>2. \A d \in Directions : Len(w[d]) \in Nat OBVIOUS
<1> QED BY <1>1, <1>2, FrameTypes

\* What a step may do to the frames under way in direction d.
Same(d) == wire'[d] = wire[d]
Added(d, f) ==
    /\ Len(wire'[d]) = Len(wire[d]) + 1 /\ wire'[d][Len(wire[d]) + 1] = f
    /\ \A i \in 1..Len(wire[d]) : wire'[d][i] = wire[d][i]
Popped(d) ==
    /\ Len(wire[d]) > 0 /\ Len(wire'[d]) = Len(wire[d]) - 1
    /\ \A i \in 1..Len(wire'[d]) : wire'[d][i] = wire[d][i + 1]
Trimmed(d) ==
    /\ Len(wire'[d]) <= Len(wire[d])
    /\ \A i \in 1..Len(wire'[d]) : wire'[d][i] = wire[d][i]

\* Put appends to the frames of one direction, if its stream takes them.
LEMMA PutEffect ==
    ASSUME Wires, NEW d \in Directions, NEW f \in FramesOf(d), Put(d, f)
    PROVE  /\ Wires'
           /\ \A e \in Directions : e # d => Same(e)
           /\ carrier[d] # "open" => Same(d)
           /\ carrier[d] = "open" => Added(d, f)
<1>1. CASE carrier[d] = "open"
  <2>0. PerDirection(wire) BY DEF Wires
  <2>1. wire' = [wire EXCEPT ![d] = Append(wire[d], f)] BY <1>1 DEF Put
  <2>2. /\ PerDirection(wire') /\ wire'[d] = Append(wire[d], f)
        /\ \A e \in Directions : e # d => wire'[e] = wire[e]
    BY <2>0, <2>1 DEF PerDirection
  <2>3. wire[d] \in Seq(FramesOf(d)) BY DEF Wires
  <2>4. /\ Append(wire[d], f) \in Seq(FramesOf(d))
        /\ Len(Append(wire[d], f)) = Len(wire[d]) + 1
        /\ \A i \in 1..Len(wire[d]) : Append(wire[d], f)[i] = wire[d][i]
        /\ Append(wire[d], f)[Len(wire[d]) + 1] = f
    BY <2>3, AppendFacts
  <2>5. \A e \in Directions : wire'[e] \in Seq(FramesOf(e)) BY <2>2, <2>4 DEF Wires
  <2>7. Wires' BY <2>2, <2>5 DEF Wires, PerDirection
  <2> QED BY <1>1, <2>2, <2>4, <2>7 DEF Same, Added
<1>2. CASE carrier[d] # "open" BY <1>2 DEF Put, Wires, PerDirection, Same
<1> QED BY <1>1, <1>2

\* Pop takes the first frame of one direction.
LEMMA PopEffect ==
    ASSUME Wires, NEW d \in Directions, wire[d] # <<>>, Pop(d)
    PROVE  /\ Wires' /\ Popped(d)
           /\ \A e \in Directions : e # d => Same(e)
           /\ Head(wire[d]) = wire[d][1] /\ wire[d][1] \in FramesOf(d)
<1>0. PerDirection(wire) BY DEF Wires
<1>1. wire' = [wire EXCEPT ![d] = Tail(wire[d])] BY DEF Pop
<1>2. /\ PerDirection(wire') /\ wire'[d] = Tail(wire[d])
      /\ \A e \in Directions : e # d => wire'[e] = wire[e]
  BY <1>0, <1>1 DEF PerDirection
<1>3. wire[d] \in Seq(FramesOf(d)) BY DEF Wires
<1>4. /\ Tail(wire[d]) \in Seq(FramesOf(d)) /\ Len(wire[d]) > 0
      /\ Head(wire[d]) = wire[d][1] /\ wire[d][1] \in FramesOf(d)
      /\ Len(Tail(wire[d])) = Len(wire[d]) - 1
      /\ \A i \in 1..Len(Tail(wire[d])) : Tail(wire[d])[i] = wire[d][i + 1]
  BY <1>3, TailFacts
<1>5. \A e \in Directions : wire'[e] \in Seq(FramesOf(e)) BY <1>2, <1>4 DEF Wires
<1>7. Wires' BY <1>2, <1>5 DEF Wires, PerDirection
<1> QED BY <1>2, <1>4, <1>7 DEF Same, Popped

\* Cut leaves the first k frames.
LEMMA CutEffect ==
    ASSUME Wires, NEW d \in Directions, NEW k \in 0..Len(wire[d]),
           wire' = [wire EXCEPT ![d] = SubSeq(@, 1, k)]
    PROVE  /\ Wires' /\ Trimmed(d)
           /\ \A e \in Directions : e # d => Same(e)
<1>0. PerDirection(wire) BY DEF Wires
<1>1. wire' = [wire EXCEPT ![d] = SubSeq(wire[d], 1, k)] OBVIOUS
<1>2. /\ PerDirection(wire') /\ wire'[d] = SubSeq(wire[d], 1, k)
      /\ \A e \in Directions : e # d => wire'[e] = wire[e]
  BY <1>0, <1>1 DEF PerDirection
<1>3. wire[d] \in Seq(FramesOf(d)) /\ Len(wire[d]) \in Nat BY DEF Wires
<1>4. /\ SubSeq(wire[d], 1, k) \in Seq(FramesOf(d)) /\ Len(SubSeq(wire[d], 1, k)) = k
      /\ \A i \in 1..k : SubSeq(wire[d], 1, k)[i] = wire[d][i]
  BY <1>3, FrontFacts
<1>5. \A e \in Directions : wire'[e] \in Seq(FramesOf(e)) BY <1>2, <1>4 DEF Wires
<1>7. Wires' BY <1>2, <1>5 DEF Wires, PerDirection
<1> QED BY <1>2, <1>3, <1>4, <1>7 DEF Same, Trimmed

\* A step that leaves the frames alone.
LEMMA NoEffect ==
    ASSUME Wires, UNCHANGED wire
    PROVE  Wires' /\ \A e \in Directions : Same(e)
  BY DEF Wires, PerDirection, Same

\* The frames the two sides make are frames.
LEMMA HelloType ==
    ASSUME SetupTypes
    PROVE  /\ \A d \in Directions :
                /\ Hello("client", Digest("clientHello", ctx["client"], "client", NoKey),
                         "client") \in FramesOf(d)
                /\ Hello("server", Digest("serverHello", ctx["server"], seen["server"],
                                          "server"), "server") \in FramesOf(d)
                /\ Hello("client", Digest("clientFinished", ctx["client"], "client",
                                          seen["client"]), NoKey) \in FramesOf(d)
                /\ CloseFrame("ok") \in FramesOf(d) /\ CloseFrame("error") \in FramesOf(d)
  BY Dirs DEF SetupTypes, Hello, Digest, Digests, Ephemerals, CloseFrame, FramesOf, HelloFrames,
              CloseFrames


\* The keys a side derives.
LEMMA KeysType ==
    ASSUME NEW secret \in SUBSET Ephemerals, NEW salt \in Digests("transcript")
    PROVE  DeriveTrafficKeys(secret, salt) \in TrafficKeys
  BY DEF DeriveTrafficKeys, TrafficKeys, Keys

\* The parts of Types say what TypeOK says.
LEMMA TypesImply == Types => TypeOK
<1> SUFFICES ASSUME Types PROVE TypeOK OBVIOUS
<1>1. \A d \in Directions : wire[d] \in Seq(FramesOf(d)) BY DEF Types, Wires
<1>2. \A d \in Directions : \A i \in 1..Len(wire[d]) :
        wire[d][i].type \in {"hello", "data", "close"}
  BY <1>1, WireTypes
<1> QED BY <1>2 DEF Types, TypeOK, SetupTypes, CarrierType, WriterTypes, ReaderTypes

-----------------------------------------------------------------------------
(* The handshake. *)

\* Before the client's first frame nothing is under way to the server; before
\* the server's, nothing to the client.
LEMMA NothingYet ==
    ASSUME Types, Agreement
    PROVE  /\ hs["client"] = "start" => Len(wire["up"]) = 0
           /\ hs["client"] # "records" =>
                /\ Len(wire["up"]) <= 1
                /\ Len(wire["up"]) = 1 => wire["up"][1] = ClientHello
           /\ hs["server"] \in {"clientHello", "prepare"} => Len(wire["down"]) = 0
<1>1. Len(wire["up"]) \in Nat /\ Len(wire["down"]) \in Nat BY Dirs DEF Types, Wires
<1>2. hs["client"] # "records" => \A i \in 1..Len(wire["up"]) :
        i = 1 /\ wire["up"][i] = ClientHello /\ hs["client"] # "start"
  BY DEF Agreement, HellosUp
<1>3. ASSUME hs["client"] # "records" PROVE Len(wire["up"]) <= 1
  <2>1. CASE Len(wire["up"]) >= 2
    <3>1. 2 \in 1..Len(wire["up"]) BY <1>1, <2>1
    <3> QED BY <1>2, <1>3, <3>1
  <2> QED BY <1>1, <2>1
<1>4. ASSUME hs["client"] = "start" PROVE Len(wire["up"]) = 0
  <2>1. CASE Len(wire["up"]) >= 1
    <3>1. 1 \in 1..Len(wire["up"]) BY <1>1, <2>1
    <3> QED BY <1>2, <1>4, <3>1
  <2> QED BY <1>1, <2>1
<1>5. ASSUME hs["server"] \in {"clientHello", "prepare"} PROVE Len(wire["down"]) = 0
  <2>1. CASE Len(wire["down"]) >= 1
    <3>1. 1 \in 1..Len(wire["down"]) BY <1>1, <2>1
    <3>2. wire["down"][1].type = "hello" BY <1>5, <3>1 DEF Agreement, HellosDown
    <3> QED BY <1>5, <3>1, <3>2 DEF Agreement, HellosDown
  <2> QED BY <1>1, <2>1
<1>6. Len(wire["up"]) = 1 => 1 \in 1..Len(wire["up"]) OBVIOUS
<1> QED BY <1>2, <1>3, <1>4, <1>5, <1>6

\* The parts of Types that the handshake does not touch.
LEMMA HandshakeFrame ==
    ASSUME Types, UNCHANGED <<writerVars, readerVars, sealed>>
    PROVE  /\ WriterTypes' /\ ReaderTypes'
           /\ SetupTypes' /\ CarrierType' /\ Wires' => Types'
<1>1. WriterTypes'
  BY DEF Types, WriterTypes, writerVars, PerDirection
<1>2. ReaderTypes'
  BY DEF Types, ReaderTypes, readerVars, PerDirection
<1> QED BY <1>1, <1>2 DEF Types

\* The digests a side signs tell apart what they are computed from.
LEMMA DigestInjective ==
    \A a1, b1, c1, d1, a2, b2, c2, d2 :
        Digest(a1, b1, c1, d1) = Digest(a2, b2, c2, d2) =>
            a1 = a2 /\ b1 = b2 /\ c1 = c2 /\ d1 = d2
  BY DEF Digest

\* What the server learns from the frame it accepts.
LEMMA ServerAccepts ==
    ASSUME Types, Agreement, Readable("up"),
           hs["server"] \in {"clientHello", "clientFinished"},
           Accepts("server", Head(wire["up"]))
    PROVE  /\ Len(wire["up"]) > 0 /\ wire["up"][1] \in FramesOf("up")
           /\ Head(wire["up"]) = wire["up"][1]
           /\ cert["client"] /\ ctx["client"] = ctx["server"] /\ hs["client"] # "start"
           /\ hs["server"] = "clientHello" => wire["up"][1] = ClientHello
           /\ hs["server"] = "clientFinished" =>
                wire["up"][1] = ClientFinished /\ hs["client"] = "records"
<1> DEFINE f == wire["up"][1]
<1>1. /\ Len(wire["up"]) > 0 /\ f \in FramesOf("up") /\ Head(wire["up"]) = f
      /\ Len(wire["up"]) \in Nat
  <2>1. wire["up"] \in Seq(FramesOf("up")) /\ wire["up"] # <<>>
    BY Dirs DEF Types, Wires, Readable
  <2> QED BY <2>1, TailFacts
<1>2. f.type = "hello" /\ cert["client"]
      /\ \/ hs["server"] = "clientHello"
              /\ f.signed = Digest("clientHello", ctx["server"], f.eph, NoKey)
         \/ hs["server"] = "clientFinished"
              /\ f.signed = Digest("clientFinished", ctx["server"], seen["server"], "server")
  BY <1>1 DEF Accepts, Verify
<1>3. 1 \in 1..Len(wire["up"]) BY <1>1
<1>4. \/ f = ClientHello /\ hs["client"] # "start"
      \/ f = ClientFinished /\ hs["client"] = "records"
  BY <1>2, <1>3 DEF Agreement, HellosUp
<1>5. /\ ClientHello.signed = Digest("clientHello", ctx["client"], "client", NoKey)
      /\ ClientFinished.signed = Digest("clientFinished", ctx["client"], "client", "server")
  BY DEF ClientHello, ClientFinished, Hello
<1> HIDE DEF f
<1>6. CASE hs["server"] = "clientHello"
  <2>1. f = ClientHello BY <1>2, <1>4, <1>5, <1>6, DigestInjective
  <2>2. ctx["client"] = ctx["server"] BY <1>2, <1>5, <1>6, <2>1, DigestInjective
  <2> QED BY <1>1, <1>2, <1>4, <1>6, <2>1, <2>2 DEF f
<1>7. CASE hs["server"] = "clientFinished"
  <2>1. f # ClientHello BY <1>2, <1>5, <1>7, DigestInjective
  <2>2. f = ClientFinished /\ hs["client"] = "records" BY <1>4, <2>1
  <2>3. ctx["client"] = ctx["server"] BY <1>2, <1>5, <1>7, <2>2, DigestInjective
  <2> QED BY <1>1, <1>2, <1>7, <2>2, <2>3 DEF f
<1> QED BY <1>6, <1>7

\* The step leaves the frames alone or takes some away, at the front or the end.
Fewer(d) == Same(d) \/ Trimmed(d) \/ Popped(d)

\* Frames that are taken away leave the hellos upward where they belong, unless
\* it is the server's step that has read one.
LEMMA UpKept ==
    ASSUME Types, HellosUp, Wires', UNCHANGED ctx, Fewer("up"),
           (hs'["client"] = "records") = (hs["client"] = "records"),
           hs'["client"] = "start" => hs["client"] = "start",
           hs'["server"] = "records" => hs["server"] = "records",
           ~Popped("up") =>
               \/ hs'["server"] = hs["server"] \/ hs'["server"] = "failed"
               \/ hs["server"] \notin {"clientHello", "failed"}
    PROVE  HellosUp'
<1>1. Len(wire["up"]) \in Nat /\ Len(wire'["up"]) \in Nat
  BY Dirs DEF Types, Wires
<1>2. ClientHello' = ClientHello /\ ClientFinished' = ClientFinished
  BY DEF ClientHello, ClientFinished
<1>3. CASE Popped("up")
  <2>1. Len(wire'["up"]) = Len(wire["up"]) - 1
        /\ \A i \in 1..Len(wire'["up"]) : wire'["up"][i] = wire["up"][i + 1]
    BY <1>3 DEF Popped
  <2>2. \A i \in 1..Len(wire'["up"]) : i + 1 \in 1..Len(wire["up"]) /\ i + 1 # 1
                                       /\ (i + 1 = 2 => i = 1)
    BY <1>1, <2>1
  <2> QED BY <1>1, <1>2, <2>1, <2>2 DEF HellosUp
<1>4. CASE ~Popped("up")
  <2>1. \A i \in 1..Len(wire'["up"]) :
          wire'["up"][i] = wire["up"][i] /\ i \in 1..Len(wire["up"])
    BY <1>1, <1>4 DEF Fewer, Same, Trimmed
  <2>2. \A i \in 1..Len(wire'["up"]) : i = 2 => 1 \in 1..Len(wire'["up"])
    BY <1>1
  <2> QED BY <1>2, <1>4, <2>1, <2>2 DEF HellosUp
<1> QED BY <1>3, <1>4

\* Likewise downward.
LEMMA DownKept ==
    ASSUME Types, HellosDown, Wires', UNCHANGED ctx, Fewer("down"),
           seen'["server"] # seen["server"] => hs["server"] = "clientHello",
           hs["server"] \in {"records", "failed"} => hs'["server"] \in {"records", "failed"},
           hs["server"] = "clientFinished" =>
               hs'["server"] \in {"clientFinished", "records", "failed"},
           ~Popped("down") /\ hs["client"] \in {"serverHello", "failed"} =>
               hs'["client"] \in {"serverHello", "failed"},
           hs'["server"] \notin {"records", "failed"} =>
               hs["server"] \notin {"records", "failed"}
    PROVE  HellosDown'
<1>1. Len(wire["down"]) \in Nat /\ Len(wire'["down"]) \in Nat
  BY Dirs DEF Types, Wires
<1>2. hs["server"] # "clientHello" => ServerHello' = ServerHello
  BY DEF ServerHello
<1>3. CASE Popped("down")
  <2>1. Len(wire'["down"]) = Len(wire["down"]) - 1
        /\ \A i \in 1..Len(wire'["down"]) : wire'["down"][i] = wire["down"][i + 1]
    BY <1>3 DEF Popped
  <2>2. \A i \in 1..Len(wire'["down"]) : i + 1 \in 1..Len(wire["down"]) /\ i + 1 # 1
    BY <1>1, <2>1
  <2> QED BY <2>1, <2>2 DEF HellosDown
<1>4. CASE ~Popped("down")
  <2>1. \A i \in 1..Len(wire'["down"]) :
          wire'["down"][i] = wire["down"][i] /\ i \in 1..Len(wire["down"])
    BY <1>1, <1>4 DEF Fewer, Same, Trimmed
  <2> QED BY <1>2, <1>4, <2>1 DEF HellosDown
<1> QED BY <1>3, <1>4

\* What the client learns from the frame it accepts.
LEMMA ClientAccepts ==
    ASSUME Types, Agreement, Readable("down"), hs["client"] = "serverHello",
           Accepts("client", Head(wire["down"]))
    PROVE  /\ Len(wire["down"]) > 0 /\ Head(wire["down"]) = wire["down"][1]
           /\ wire["down"][1].eph = "server" /\ wire["down"][1].type = "hello"
           /\ cert["server"] /\ ctx["client"] = ctx["server"]
           /\ hs["server"] \in {"clientFinished", "records", "failed"}
<1> DEFINE f == wire["down"][1]
<1>1. Len(wire["down"]) > 0 /\ Head(wire["down"]) = f /\ Len(wire["down"]) \in Nat
  <2>1. wire["down"] \in Seq(FramesOf("down")) /\ wire["down"] # <<>>
    BY Dirs DEF Types, Wires, Readable
  <2> QED BY <2>1, TailFacts
<1>2. /\ f.type = "hello" /\ cert["server"]
      /\ f.signed = Digest("serverHello", ctx["client"], "client", f.eph)
  BY <1>1 DEF Accepts, Verify
<1>3. 1 \in 1..Len(wire["down"]) BY <1>1
<1>4. f = ServerHello /\ hs["server"] \in {"clientFinished", "records", "failed"}
  BY <1>2, <1>3 DEF Agreement, HellosDown
<1>5. /\ ServerHello.signed = Digest("serverHello", ctx["server"], seen["server"], "server")
      /\ ServerHello.eph = "server"
  BY DEF ServerHello, Hello
<1> HIDE DEF f
<1>6. ctx["client"] = ctx["server"] BY <1>2, <1>4, <1>5, DigestInjective
<1> QED BY <1>1, <1>2, <1>4, <1>5, <1>6 DEF f

\* A side goes to another place in runHandshake.
LEMMA GotoEffect ==
    ASSUME Types, NEW side \in Sides, NEW label, Goto(side, label)
    PROVE  hs'[side] = label /\ \A s \in Sides : s # side => hs'[s] = hs[s]
  BY DEF Types, SetupTypes, Goto

LEMMA AgreeSendClientHello ==
    ASSUME Types, Agreement, SendClientHello
    PROVE  Types' /\ Agreement'
<1> USE Dirs
<1>1. /\ hs["client"] = "start" /\ Put("up", ClientHello)
      /\ Goto("client", "serverHello")
      /\ UNCHANGED <<ctx, cert, seen, keys, carrier, writerVars, readerVars, sealed>>
  BY DEF SendClientHello, ClientHello
<1>2. SetupTypes' /\ CarrierType' BY <1>1 DEF Types, SetupTypes, CarrierType, Goto
<1>3. ClientHello \in FramesOf("up") BY HelloType DEF Types, ClientHello
<1>4. Len(wire["up"]) = 0 BY <1>1, NothingYet
<1>5. /\ Wires' /\ Same("down")
      /\ carrier["up"] # "open" => Same("up")
      /\ carrier["up"] = "open" => Added("up", ClientHello)
  BY <1>1, <1>3, PutEffect DEF Types
<1>6. Types' BY <1>1, <1>2, <1>5, HandshakeFrame
<1>7. hs'["client"] = "serverHello" /\ hs'["server"] = hs["server"]
  BY <1>1, GotoEffect
<1>8. hs["server"] \in {"clientHello", "failed"} /\ Handshaken'
  BY <1>1, <1>7 DEF Agreement, Handshaken
<1>9. HellosUp'
  <2>1. CASE carrier["up"] # "open"
    <3>1. Same("up") BY <1>5, <2>1
    <3>2. \A i \in 1..Len(wire'["up"]) : FALSE BY <1>4, <3>1 DEF Same
    <3> QED BY <3>2 DEF HellosUp
  <2>2. CASE carrier["up"] = "open"
    <3>1. Len(wire'["up"]) = 1 /\ wire'["up"][1] = ClientHello
      BY <1>4, <1>5, <2>2 DEF Added
    <3>2. \A i \in 1..Len(wire'["up"]) : i = 1 BY <3>1
    <3>3. ClientHello' = ClientHello /\ ClientHello.type = "hello"
      BY <1>1 DEF ClientHello, Hello
    <3> QED BY <1>7, <1>8, <3>1, <3>2, <3>3 DEF HellosUp
  <2> QED BY <2>1, <2>2
<1>10. HellosDown' BY <1>1, <1>5, <1>7, DownKept DEF Agreement, Fewer
<1> QED BY <1>6, <1>8, <1>9, <1>10 DEF Agreement

LEMMA AgreeReadClientHello ==
    ASSUME Types, Agreement, ReadClientHello
    PROVE  Types' /\ Agreement'
<1> USE Dirs
<1>1. /\ hs["server"] = "clientHello" /\ Readable("up") /\ Accepts("server", Head(wire["up"]))
      /\ seen' = [seen EXCEPT !["server"] = Head(wire["up"]).eph]
      /\ Pop("up") /\ Goto("server", "prepare")
      /\ UNCHANGED <<ctx, cert, keys, carrier, writerVars, readerVars, sealed>>
  BY DEF ReadClientHello, ReadHello
<1>2. /\ cert["client"] /\ ctx["client"] = ctx["server"] /\ hs["client"] # "start"
      /\ Head(wire["up"]) = ClientHello
  BY <1>1, ServerAccepts
<1>3. Head(wire["up"]).eph = "client" BY <1>2 DEF ClientHello, Hello
<1>4. seen'["server"] = "client" /\ seen'["client"] = seen["client"]
      /\ seen' \in [Sides -> Ephemerals]
  BY <1>1, <1>3 DEF Types, SetupTypes, Ephemerals
<1>5. hs'["server"] = "prepare" /\ hs'["client"] = hs["client"] BY <1>1, GotoEffect
<1>6. SetupTypes' /\ CarrierType' BY <1>1, <1>4 DEF Types, SetupTypes, CarrierType, Goto
<1>7. Wires' /\ Popped("up") /\ Same("down") BY <1>1, PopEffect DEF Types, Readable
<1>8. Types' BY <1>1, <1>6, <1>7, HandshakeFrame
<1>9. Handshaken' BY <1>1, <1>2, <1>4, <1>5 DEF Agreement, Handshaken, SessionKeys
<1>10. HellosUp' BY <1>1, <1>5, <1>7, UpKept DEF Agreement, Fewer
<1>11. HellosDown' BY <1>1, <1>5, <1>7, DownKept DEF Agreement, Fewer
<1> QED BY <1>8, <1>9, <1>10, <1>11 DEF Agreement

LEMMA AgreeSendServerHello ==
    ASSUME Types, Agreement, SendServerHello
    PROVE  Types' /\ Agreement'
<1> USE Dirs
<1>1. /\ hs["server"] = "prepare" /\ Put("down", ServerHello)
      /\ Goto("server", "clientFinished")
      /\ UNCHANGED <<ctx, cert, seen, keys, carrier, writerVars, readerVars, sealed>>
  BY DEF SendServerHello, ServerHello
<1>2. SetupTypes' /\ CarrierType' BY <1>1 DEF Types, SetupTypes, CarrierType, Goto
<1>3. ServerHello \in FramesOf("down") BY HelloType DEF Types, ServerHello
<1>4. Len(wire["down"]) = 0 BY <1>1, NothingYet
<1>5. /\ Wires' /\ Same("up")
      /\ carrier["down"] # "open" => Same("down")
      /\ carrier["down"] = "open" => Added("down", ServerHello)
  BY <1>1, <1>3, PutEffect DEF Types
<1>6. Types' BY <1>1, <1>2, <1>5, HandshakeFrame
<1>7. hs'["server"] = "clientFinished" /\ hs'["client"] = hs["client"]
  BY <1>1, GotoEffect
<1>8. hs["client"] \in {"serverHello", "failed"} /\ Handshaken'
  BY <1>1, <1>7 DEF Agreement, Handshaken
<1>9. HellosDown'
  <2>1. CASE carrier["down"] # "open"
    <3>1. Same("down") BY <1>5, <2>1
    <3>2. \A i \in 1..Len(wire'["down"]) : FALSE BY <1>4, <3>1 DEF Same
    <3> QED BY <3>2 DEF HellosDown
  <2>2. CASE carrier["down"] = "open"
    <3>1. Len(wire'["down"]) = 1 /\ wire'["down"][1] = ServerHello
      BY <1>4, <1>5, <2>2 DEF Added
    <3>2. \A i \in 1..Len(wire'["down"]) : i = 1 BY <3>1
    <3>3. ServerHello' = ServerHello /\ ServerHello.type = "hello"
      BY <1>1 DEF ServerHello, Hello
    <3> QED BY <1>7, <1>8, <3>1, <3>2, <3>3 DEF HellosDown
  <2> QED BY <2>1, <2>2
<1>10. HellosUp' BY <1>1, <1>5, <1>7, UpKept DEF Agreement, Fewer
<1> QED BY <1>6, <1>8, <1>9, <1>10 DEF Agreement

LEMMA AgreeReadServerHello ==
    ASSUME Types, Agreement, ReadServerHello
    PROVE  Types' /\ Agreement'
<1> USE Dirs
<1>1. /\ hs["client"] = "serverHello" /\ Readable("down")
      /\ Accepts("client", Head(wire["down"]))
      /\ seen' = [seen EXCEPT !["client"] = Head(wire["down"]).eph]
      /\ Pop("down") /\ Goto("client", "finish")
      /\ UNCHANGED <<ctx, cert, keys, carrier, writerVars, readerVars, sealed>>
  BY DEF ReadServerHello, ReadHello
<1>2. /\ cert["server"] /\ ctx["client"] = ctx["server"]
      /\ hs["server"] \in {"clientFinished", "records", "failed"}
      /\ Head(wire["down"]).eph = "server"
  BY <1>1, ClientAccepts
<1>4. seen'["client"] = "server" /\ seen'["server"] = seen["server"]
      /\ seen' \in [Sides -> Ephemerals]
  BY <1>1, <1>2 DEF Types, SetupTypes, Ephemerals
<1>5. hs'["client"] = "finish" /\ hs'["server"] = hs["server"] BY <1>1, GotoEffect
<1>6. SetupTypes' /\ CarrierType' BY <1>1, <1>4 DEF Types, SetupTypes, CarrierType, Goto
<1>7. Wires' /\ Popped("down") /\ Same("up") BY <1>1, PopEffect DEF Types, Readable
<1>8. Types' BY <1>1, <1>6, <1>7, HandshakeFrame
<1>9. Handshaken' BY <1>1, <1>2, <1>4, <1>5 DEF Agreement, Handshaken, SessionKeys
<1>10. HellosUp' BY <1>1, <1>5, <1>7, UpKept DEF Agreement, Fewer
<1>11. HellosDown' BY <1>1, <1>4, <1>5, <1>7, DownKept DEF Agreement, Fewer
<1> QED BY <1>8, <1>9, <1>10, <1>11 DEF Agreement

LEMMA AgreeSendClientFinished ==
    ASSUME Types, Agreement, SendClientFinished
    PROVE  Types' /\ Agreement'
<1> USE Dirs
<1>0. hs["client"] = "finish" /\ seen["client"] = "server"
  BY DEF SendClientFinished, Agreement, Handshaken
<1>1. /\ Put("up", ClientFinished) /\ Goto("client", "records")
      /\ keys' = [keys EXCEPT !["client"] = SessionKeys]
      /\ UNCHANGED <<ctx, cert, seen, carrier, writerVars, readerVars, sealed>>
  BY <1>0 DEF SendClientFinished, ClientFinished, SetKeys, SharedSecret, SessionKeys
<1>2. SessionKeys \in TrafficKeys /\ SessionKeys # NoKey
  <2>1. Digest("transcript", ctx["client"], "client", "server") \in Digests("transcript")
    BY DEF Types, SetupTypes, Digest, Digests, Ephemerals
  <2>2. {"client", "server"} \in SUBSET Ephemerals BY DEF Ephemerals
  <2> QED BY <2>1, <2>2, KeysType, Numbers DEF SessionKeys
<1>3. SetupTypes' /\ CarrierType'
  BY <1>1, <1>2 DEF Types, SetupTypes, CarrierType, Goto
<1>4. ClientFinished \in FramesOf("up") BY <1>0, HelloType DEF Types, ClientFinished
<1>5. /\ Len(wire["up"]) <= 1 /\ Len(wire["up"]) \in Nat
      /\ Len(wire["up"]) = 1 => wire["up"][1] = ClientHello
  BY <1>0, NothingYet DEF Types, Wires
<1>6. /\ Wires' /\ Same("down")
      /\ carrier["up"] # "open" => Same("up")
      /\ carrier["up"] = "open" => Added("up", ClientFinished)
  BY <1>1, <1>4, PutEffect DEF Types
<1>7. Types' BY <1>1, <1>3, <1>6, HandshakeFrame
<1>8. hs'["client"] = "records" /\ hs'["server"] = hs["server"] /\ SessionKeys' = SessionKeys
      /\ keys'["client"] = SessionKeys /\ keys'["server"] = keys["server"]
  BY <1>1, GotoEffect DEF SessionKeys, Types, SetupTypes
<1>9. hs["server"] \in {"clientFinished", "failed"} /\ Handshaken'
  BY <1>0, <1>1, <1>8 DEF Agreement, Handshaken
<1>10. HellosUp'
  <2>1. ClientHello' = ClientHello /\ ClientFinished' = ClientFinished
    BY <1>1 DEF ClientHello, ClientFinished
  <2>2. CASE carrier["up"] # "open"
    <3>1. Same("up") BY <1>6, <2>2
    <3> QED BY <1>0, <1>8, <1>9, <2>1, <3>1 DEF HellosUp, Agreement, Same
  <2>3. CASE carrier["up"] = "open"
    <3>1. /\ Len(wire'["up"]) = Len(wire["up"]) + 1
          /\ wire'["up"][Len(wire["up"]) + 1] = ClientFinished
          /\ \A i \in 1..Len(wire["up"]) : wire'["up"][i] = wire["up"][i]
      BY <1>6, <2>3 DEF Added
    <3>2. CASE Len(wire["up"]) = 0
      <4>1. \A i \in 1..Len(wire'["up"]) : i = 1 /\ wire'["up"][i] = ClientFinished
        BY <3>1, <3>2
      <4> QED BY <1>8, <1>9, <2>1, <4>1 DEF HellosUp
    <3>3. CASE Len(wire["up"]) = 1
      <4>1. 1 \in 1..Len(wire["up"]) /\ wire["up"][1] = ClientHello
            /\ ClientHello.type = "hello" /\ ClientHello # ClientFinished
        BY <1>5, <3>3, DigestInjective DEF ClientHello, ClientFinished, Hello
      <4>2. hs["server"] = "failed"
        BY <1>0, <1>9, <4>1 DEF Agreement, HellosUp
      <4>3. wire'["up"][1] = ClientHello /\ wire'["up"][2] = ClientFinished
        BY <3>1, <3>3, <4>1
      <4>4. \A i \in 1..Len(wire'["up"]) : i = 1 \/ i = 2 BY <3>1, <3>3
      <4> QED BY <1>8, <2>1, <4>2, <4>3, <4>4 DEF HellosUp
    <3>4. \A n \in Nat : n <= 1 => n = 0 \/ n = 1 OBVIOUS
    <3>5. Len(wire["up"]) = 0 \/ Len(wire["up"]) = 1 BY <1>5, <3>4
    <3> QED BY <3>2, <3>3, <3>5
  <2> QED BY <2>2, <2>3
<1>11. HellosDown' BY <1>0, <1>1, <1>6, <1>8, DownKept DEF Agreement, Fewer
<1> QED BY <1>7, <1>9, <1>10, <1>11 DEF Agreement

LEMMA AgreeReadClientFinished ==
    ASSUME Types, Agreement, ReadClientFinished
    PROVE  Types' /\ Agreement'
<1> USE Dirs
<1>0. /\ hs["server"] = "clientFinished" /\ seen["server"] = "client"
      /\ ctx["client"] = ctx["server"]
      /\ Readable("up") /\ Accepts("server", Head(wire["up"]))
  BY DEF ReadClientFinished, Agreement, Handshaken
<1>1. /\ Pop("up") /\ Goto("server", "records")
      /\ keys' = [keys EXCEPT !["server"] = SessionKeys]
      /\ UNCHANGED <<ctx, cert, seen, carrier, writerVars, readerVars, sealed>>
  <2>1. {"server", "client"} = {"client", "server"} OBVIOUS
  <2> QED BY <1>0, <2>1 DEF ReadClientFinished, SetKeys, SharedSecret, SessionKeys
<1>2. SessionKeys \in TrafficKeys /\ SessionKeys # NoKey
  <2>1. Digest("transcript", ctx["client"], "client", "server") \in Digests("transcript")
    BY DEF Types, SetupTypes, Digest, Digests, Ephemerals
  <2>2. {"client", "server"} \in SUBSET Ephemerals BY DEF Ephemerals
  <2> QED BY <2>1, <2>2, KeysType, Numbers DEF SessionKeys
<1>3. SetupTypes' /\ CarrierType'
  BY <1>1, <1>2 DEF Types, SetupTypes, CarrierType, Goto
<1>4. wire["up"][1] = ClientFinished /\ hs["client"] = "records" /\ Len(wire["up"]) > 0
  BY <1>0, ServerAccepts
<1>5. Wires' /\ Popped("up") /\ Same("down") BY <1>0, <1>1, PopEffect DEF Types, Readable
<1>6. Types' BY <1>1, <1>3, <1>5, HandshakeFrame
<1>7. hs'["server"] = "records" /\ hs'["client"] = "records" /\ SessionKeys' = SessionKeys
      /\ keys'["server"] = SessionKeys /\ keys'["client"] = keys["client"]
  BY <1>1, <1>4, GotoEffect DEF SessionKeys, Types, SetupTypes
<1>8. Handshaken' BY <1>0, <1>1, <1>4, <1>7 DEF Agreement, Handshaken
<1>9. HellosUp'
  <2>1. Len(wire["up"]) \in Nat /\ Len(wire'["up"]) \in Nat
    BY <1>5 DEF Types, Wires
  <2>2. ClientHello # ClientFinished
    BY DigestInjective DEF ClientHello, ClientFinished, Hello
  <2>3. \A i \in 1..Len(wire'["up"]) :
          wire'["up"][i] = wire["up"][i + 1] /\ i + 1 \in 1..Len(wire["up"]) /\ i + 1 # 1
    BY <1>5, <2>1 DEF Popped
  <2>4. \A i \in 1..Len(wire'["up"]) : wire'["up"][i].type # "hello"
    BY <1>4, <2>2, <2>3 DEF Agreement, HellosUp
  <2> QED BY <1>7, <2>4 DEF HellosUp
<1>10. HellosDown' BY <1>0, <1>1, <1>4, <1>5, <1>7, DownKept DEF Agreement, Fewer
<1> QED BY <1>6, <1>8, <1>9, <1>10 DEF Agreement

\* A frame other than a hello is added behind the hellos.
LEMMA UpAdded ==
    ASSUME Types, HellosUp, UNCHANGED <<ctx, hs>>, NEW f, Added("up", f), f.type # "hello",
           hs["client"] = "records"
    PROVE  HellosUp'
<1>1. Len(wire["up"]) \in Nat BY Dirs DEF Types, Wires
<1>2. ClientHello' = ClientHello /\ ClientFinished' = ClientFinished
  BY DEF ClientHello, ClientFinished
<1>3. \A i \in 1..Len(wire'["up"]) :
        \/ i \in 1..Len(wire["up"]) /\ wire'["up"][i] = wire["up"][i]
        \/ wire'["up"][i].type # "hello"
  BY <1>1 DEF Added
<1>4. \A i \in 1..Len(wire["up"]) : i = 2 => wire'["up"][1] = wire["up"][1]
  BY <1>1 DEF Added
<1> QED BY <1>2, <1>3, <1>4 DEF HellosUp

LEMMA DownAdded ==
    ASSUME Types, HellosDown, UNCHANGED <<ctx, seen>>, NEW f, Added("down", f),
           f.type # "hello", hs'["server"] \in {"records", "failed"},
           hs'["client"] = hs["client"]
    PROVE  HellosDown'
<1>1. Len(wire["down"]) \in Nat BY Dirs DEF Types, Wires
<1>2. ServerHello' = ServerHello BY DEF ServerHello
<1>3. \A i \in 1..Len(wire'["down"]) :
        \/ i \in 1..Len(wire["down"]) /\ wire'["down"][i] = wire["down"][i]
        \/ wire'["down"][i].type # "hello"
  BY <1>1 DEF Added
<1> QED BY <1>2, <1>3 DEF HellosDown

\* A side that gives up.
LEMMA AgreeHandshakeFails ==
    ASSUME Types, Agreement, NEW side \in Sides, HandshakeFails(side)
    PROVE  Types' /\ Agreement'
<1> USE Dirs
<1>1. /\ Goto(side, "failed") /\ hs[side] \notin {"records", "failed"}
      /\ IF side = "server" THEN Put("down", CloseFrame("error")) ELSE UNCHANGED wire
      /\ carrier' = [carrier EXCEPT ![OutOf(side)] = IF @ = "open" THEN "fin" ELSE @]
      /\ UNCHANGED <<ctx, cert, seen, keys, writerVars, readerVars, sealed>>
  BY DEF HandshakeFails
<1>2. SetupTypes' BY <1>1 DEF Types, SetupTypes, Goto
<1>3. CarrierType' BY <1>1 DEF Types, CarrierType
<1>4. hs'[side] = "failed" /\ \A s \in Sides : s # side => hs'[s] = hs[s]
  BY <1>1, GotoEffect
<1>5. Handshaken' BY <1>1, <1>4 DEF Agreement, Handshaken, SessionKeys
<1>6. CASE side = "client"
  <2>1. Wires' /\ Same("up") /\ Same("down") BY <1>1, <1>6, NoEffect DEF Types
  <2>2. Types' BY <1>1, <1>2, <1>3, <2>1, HandshakeFrame
  <2>3. HellosUp' BY <1>1, <1>4, <1>6, <2>1, UpKept DEF Agreement, Fewer
  <2>4. HellosDown' BY <1>1, <1>4, <1>6, <2>1, DownKept DEF Agreement, Fewer
  <2> QED BY <1>5, <2>2, <2>3, <2>4 DEF Agreement
<1>7. CASE side = "server"
  <2>1. CloseFrame("error") \in FramesOf("down") BY HelloType DEF Types
  <2>2. /\ Wires' /\ Same("up")
        /\ carrier["down"] # "open" => Same("down")
        /\ carrier["down"] = "open" => Added("down", CloseFrame("error"))
    BY <1>1, <1>7, <2>1, PutEffect DEF Types
  <2>3. Types' BY <1>1, <1>2, <1>3, <2>2, HandshakeFrame
  <2>4. HellosUp' BY <1>1, <1>4, <1>7, <2>2, UpKept DEF Agreement, Fewer
  <2>5. CloseFrame("error").type # "hello" BY DEF CloseFrame
  <2>6. HellosDown'
    <3>1. CASE carrier["down"] = "open"
      BY <1>1, <1>4, <1>7, <2>2, <2>5, <3>1, DownAdded DEF Agreement
    <3>2. CASE carrier["down"] # "open"
      BY <1>1, <1>4, <1>7, <2>2, <3>2, DownKept DEF Agreement, Fewer
    <3> QED BY <3>1, <3>2
  <2> QED BY <1>5, <2>3, <2>4, <2>6 DEF Agreement
<1> QED BY <1>6, <1>7

\* The whole handshake.
LEMMA AgreeHandshake ==
    ASSUME Types, Agreement, Handshake
    PROVE  Types' /\ Agreement'
  BY AgreeSendClientHello, AgreeReadClientHello, AgreeSendServerHello, AgreeReadServerHello,
     AgreeSendClientFinished, AgreeReadClientFinished, AgreeHandshakeFails DEF Handshake

\* Nothing that happens to the stream or on it afterwards disturbs the agreement.
LEMMA AgreeRecords ==
    ASSUME Types, Agreement, Wires', UNCHANGED setupVars,
           \A d \in Directions :
               \/ Fewer(d)
               \/ hs[WriterOf(d)] = "records" /\ \E f : Added(d, f) /\ f.type # "hello"
    PROVE  SetupTypes' /\ Agreement'
<1> USE Dirs
<1>1. UNCHANGED <<ctx, cert, hs, seen, keys>> BY DEF setupVars
<1>2. SetupTypes' BY <1>1 DEF Types, SetupTypes
<1>3. Handshaken' BY <1>1 DEF Agreement, Handshaken, SessionKeys
<1>4. HellosUp'
  <2>1. CASE Fewer("up") BY <1>1, <2>1, UpKept DEF Agreement
  <2>2. CASE hs["client"] = "records" /\ \E f : Added("up", f) /\ f.type # "hello"
    BY <1>1, <2>2, UpAdded DEF Agreement
  <2> QED BY <2>1, <2>2
<1>5. HellosDown'
  <2>1. CASE Fewer("down") BY <1>1, <2>1, DownKept DEF Agreement
  <2>2. CASE hs["server"] = "records" /\ \E f : Added("down", f) /\ f.type # "hello"
    BY <1>1, <2>2, DownAdded DEF Agreement
  <2> QED BY <2>1, <2>2
<1> QED BY <1>2, <1>3, <1>4, <1>5 DEF Agreement

-----------------------------------------------------------------------------
(* The steps of a direction. *)

\* The step does nothing to direction e.
Untouched(e) ==
    /\ wire'[e] = wire[e] /\ carrier'[e] = carrier[e] /\ copier'[e] = copier[e]
    /\ pend'[e] = pend[e] /\ wseq'[e] = wseq[e] /\ wclosed'[e] = wclosed[e]
    /\ sent'[e] = sent[e] /\ rseq'[e] = rseq[e] /\ rbuf'[e] = rbuf[e]
    /\ got'[e] = got[e] /\ result'[e] = result[e]
WriterIdle(e) ==
    /\ copier'[e] = copier[e] /\ pend'[e] = pend[e] /\ wseq'[e] = wseq[e]
    /\ wclosed'[e] = wclosed[e] /\ sent'[e] = sent[e]
ReaderIdle(e) ==
    rseq'[e] = rseq[e] /\ rbuf'[e] = rbuf[e] /\ got'[e] = got[e] /\ result'[e] = result[e]

LEMMA Idle ==
    /\ UNCHANGED writerVars => \A e \in Directions : WriterIdle(e)
    /\ UNCHANGED readerVars => \A e \in Directions : ReaderIdle(e)
    /\ \A e \in Directions :
         Untouched(e) <=> /\ WriterIdle(e) /\ ReaderIdle(e)
                          /\ wire'[e] = wire[e] /\ carrier'[e] = carrier[e]
  BY DEF writerVars, readerVars, WriterIdle, ReaderIdle, Untouched

LEMMA ReaderFrame ==
    ASSUME Types, UNCHANGED readerVars
    PROVE  ReaderTypes'
  BY DEF Types, ReaderTypes, readerVars, PerDirection

LEMMA WriterFrame ==
    ASSUME Types, UNCHANGED <<writerVars, sealed>>
    PROVE  WriterTypes'
  BY DEF Types, WriterTypes, writerVars, PerDirection

LEMMA CarrierFrame ==
    ASSUME Types, UNCHANGED carrier
    PROVE  CarrierType'
  BY DEF Types, CarrierType

\* The record that is written next.
LEMMA RecordFacts ==
    ASSUME Types, NEW d \in Directions, Copying(d), pend[d] # <<>>
    PROVE  /\ Record(d) \in DataFrames(d) /\ Record(d) \in FramesOf(d)
           /\ Record(d).type = "data" /\ Record(d).seq = wseq[d] /\ Record(d).dir = d
           /\ Record(d).key = keys[WriterOf(d)][d]
           /\ Record(d).text \in Seq(1..Source[d])
           /\ Len(Record(d).text) \in 1..Len(pend[d]) /\ Len(pend[d]) \in Nat
           /\ \A i \in 1..Len(Record(d).text) : Record(d).text[i] = pend[d][i]
<1> DEFINE n == Min(MaxPlain, Len(pend[d]))
<1> DEFINE t == SubSeq(pend[d], 1, n)
<1>1. pend[d] \in Seq(1..Source[d]) BY DEF Types, WriterTypes
<1>2. Len(pend[d]) \in Nat /\ Len(pend[d]) > 0 BY <1>1, TailFacts
<1>3. n \in 1..Len(pend[d]) BY <1>2, Numbers DEF Min
<1>4. t \in Seq(1..Source[d]) /\ Len(t) = n /\ \A i \in 1..n : t[i] = pend[d][i]
  <2>1. n \in 0..Len(pend[d]) BY <1>2, <1>3
  <2> HIDE DEF n
  <2> QED BY <1>1, <2>1, FrontFacts
<1>5. keys[WriterOf(d)][d] \in Keys
  <2>1. WriterOf(d) \in Sides BY Dirs
  <2>2. keys[WriterOf(d)] \in TrafficKeys
    BY <2>1 DEF Types, SetupTypes, Copying
  <2> QED BY <2>2 DEF TrafficKeys
<1>6. wseq[d] \in Nat BY Numbers DEF Types, WriterTypes
<1>7. Record(d) = [type |-> "data", key |-> keys[WriterOf(d)][d], seq |-> wseq[d], dir |-> d,
                   text |-> t]
  BY DEF Record
<1> HIDE DEF n, t
<1>8. Record(d) \in DataFrames(d) BY <1>4, <1>5, <1>6, <1>7 DEF DataFrames
<1>9. Record(d).type = "data" /\ Record(d).seq = wseq[d] /\ Record(d).dir = d
      /\ Record(d).key = keys[WriterOf(d)][d] /\ Record(d).text = t
  BY <1>7
<1> QED BY <1>2, <1>3, <1>4, <1>8, <1>9 DEF FramesOf

\* The variables are functions on the directions.
LEMMA Functions ==
    ASSUME Types
    PROVE  /\ PerDirection(wire) /\ PerDirection(carrier) /\ PerDirection(copier)
           /\ PerDirection(pend) /\ PerDirection(wseq) /\ PerDirection(wclosed)
           /\ PerDirection(sent) /\ PerDirection(rseq) /\ PerDirection(rbuf)
           /\ PerDirection(got) /\ PerDirection(result)
<1>1. PerDirection(wire) /\ PerDirection(pend) /\ PerDirection(sent) /\ PerDirection(rbuf)
      /\ PerDirection(got)
  BY DEF Types, Wires, WriterTypes, ReaderTypes
<1>2. PerDirection(carrier) /\ PerDirection(copier) /\ PerDirection(wseq)
      /\ PerDirection(wclosed) /\ PerDirection(rseq) /\ PerDirection(result)
  BY DEF Types, CarrierType, WriterTypes, ReaderTypes, PerDirection
<1> QED BY <1>1, <1>2

\* io.Copy has read some bytes.
LEMMA StepCopyRead ==
    ASSUME Types, Agreement, NEW d \in Directions, CopyRead(d)
    PROVE  /\ Types' /\ Agreement' /\ UNCHANGED <<setupVars, sealed>>
           /\ \A e \in Directions : e # d => Untouched(e)
           /\ \E n \in Nat : Len(pend'[d]) = n /\ \A i \in 1..n : pend'[d][i] = Len(sent[d]) + i
           /\ wire'[d] = wire[d] /\ carrier'[d] = carrier[d] /\ copier'[d] = copier[d]
           /\ wseq'[d] = wseq[d] /\ wclosed'[d] = wclosed[d] /\ sent'[d] = sent[d]
           /\ ReaderIdle(d)
<1>1. /\ UNCHANGED <<setupVars, wire, carrier, copier, wseq, wclosed, sent, readerVars, sealed>>
      /\ \E n \in 1..Min(MaxWrite, Source[d] - Len(sent[d])) :
           pend' = [pend EXCEPT ![d] = [i \in 1..n |-> Len(sent[d]) + i]]
  BY DEF CopyRead
<1>2. PICK n \in 1..Min(MaxWrite, Source[d] - Len(sent[d])) :
        pend' = [pend EXCEPT ![d] = [i \in 1..n |-> Len(sent[d]) + i]]
  BY <1>1
<1> DEFINE p == [i \in 1..n |-> Len(sent[d]) + i]
<1>3. Len(sent[d]) \in Nat
  <2>1. sent[d] \in Seq(1..Source[d]) BY DEF Types, WriterTypes
  <2> QED BY <2>1
<1>4. n \in Nat /\ Len(sent[d]) + n <= Source[d] BY <1>3, Numbers DEF Min
<1>5. \A i \in 1..n : Len(sent[d]) + i \in 1..Source[d] BY <1>3, <1>4, Numbers
<1>6. p \in [1..n -> 1..Source[d]] BY <1>5
<1>7. p \in Seq(1..Source[d]) /\ Len(p) = n /\ \A i \in 1..n : p[i] = Len(sent[d]) + i
  BY <1>4, <1>6
<1>8. PerDirection(pend') /\ pend'[d] = p /\ \A e \in Directions : e # d => pend'[e] = pend[e]
  <2>1. pend' = [pend EXCEPT ![d] = p] BY <1>2
  <2>2. PerDirection(pend) BY Functions
  <2> HIDE DEF p
  <2> QED BY <2>1, <2>2 DEF PerDirection
<1> HIDE DEF p
<1>9. WriterTypes'
  <2>1. \A e \in Directions : pend'[e] \in Seq(1..Source[e]) BY <1>7, <1>8 DEF Types, WriterTypes
  <2> QED BY <1>1, <1>8, <2>1 DEF Types, WriterTypes, PerDirection
<1>10. Wires' /\ \A e \in Directions : Same(e) BY <1>1, NoEffect DEF Types
<1>11. SetupTypes' /\ Agreement' BY <1>1, <1>10, AgreeRecords DEF Fewer
<1>12. Types' BY <1>1, <1>9, <1>10, <1>11, ReaderFrame, CarrierFrame DEF Types
<1>13. \A e \in Directions : ReaderIdle(e) BY <1>1, Idle
<1>14. \A e \in Directions : e # d => Untouched(e)
  BY <1>1, <1>8, <1>13 DEF Untouched, ReaderIdle
<1> QED BY <1>1, <1>4, <1>7, <1>8, <1>11, <1>12, <1>13, <1>14

\* A record is sealed and written.
LEMMA StepWriteRecord ==
    ASSUME Types, Agreement, NEW d \in Directions, WriteRecord(d)
    PROVE  /\ Types' /\ Agreement' /\ UNCHANGED setupVars
           /\ Copying(d) /\ pend[d] # <<>> /\ sealed' = sealed \cup {Record(d)}
           /\ \A e \in Directions : e # d => Untouched(e)
           /\ carrier[d] # "open" => Same(d)
           /\ carrier[d] = "open" => Added(d, Record(d))
           /\ carrier'[d] = carrier[d] /\ copier'[d] = copier[d] /\ wclosed'[d] = wclosed[d]
           /\ wseq[d] < MaxSeq /\ wseq'[d] = wseq[d] + 1
           /\ sent'[d] = sent[d] \o Record(d).text
           /\ pend'[d] = SubSeq(pend[d], Len(Record(d).text) + 1, Len(pend[d]))
           /\ ReaderIdle(d)
<1>1. /\ Copying(d) /\ pend[d] # <<>> /\ wseq[d] # MaxSeq
      /\ Put(d, Record(d)) /\ sealed' = sealed \cup {Record(d)}
      /\ wseq' = [wseq EXCEPT ![d] = wseq[d] + 1]
      /\ sent' = [sent EXCEPT ![d] = sent[d] \o Record(d).text]
      /\ pend' = [pend EXCEPT ![d] = SubSeq(pend[d], Len(Record(d).text) + 1, Len(pend[d]))]
      /\ UNCHANGED <<setupVars, carrier, copier, wclosed, readerVars>>
  BY DEF WriteRecord
<1> DEFINE t == Record(d).text
           r == SubSeq(pend[d], Len(t) + 1, Len(pend[d]))
<1>2. /\ Record(d) \in DataFrames(d) /\ Record(d) \in FramesOf(d) /\ Record(d).type = "data"
      /\ t \in Seq(1..Source[d]) /\ Len(t) \in 1..Len(pend[d]) /\ Len(pend[d]) \in Nat
  BY <1>1, RecordFacts
<1>3. /\ sent[d] \in Seq(1..Source[d]) /\ pend[d] \in Seq(1..Source[d])
      /\ wseq[d] \in 0..MaxSeq
  BY DEF Types, WriterTypes
<1> HIDE DEF t
<1>4. sent[d] \o t \in Seq(1..Source[d]) BY <1>2, <1>3, ConcatFacts
<1>5. r \in Seq(1..Source[d])
  <2>1. Len(t) \in 0..Len(pend[d]) BY <1>2
  <2> QED BY <1>3, <2>1, RestFacts
<1> HIDE DEF r
<1>6. wseq[d] < MaxSeq /\ wseq[d] + 1 \in 0..MaxSeq BY <1>1, <1>3, Numbers
<1>7. /\ PerDirection(wseq') /\ wseq'[d] = wseq[d] + 1
      /\ \A e \in Directions : e # d => wseq'[e] = wseq[e]
  <2>1. wseq' = [wseq EXCEPT ![d] = wseq[d] + 1] BY <1>1
  <2>2. PerDirection(wseq) BY Functions
  <2> QED BY <2>1, <2>2 DEF PerDirection
<1>8. /\ PerDirection(sent') /\ sent'[d] = sent[d] \o t
      /\ \A e \in Directions : e # d => sent'[e] = sent[e]
  <2>1. sent' = [sent EXCEPT ![d] = sent[d] \o t] BY <1>1 DEF t
  <2>2. PerDirection(sent) BY Functions
  <2> QED BY <2>1, <2>2 DEF PerDirection
<1>9. /\ PerDirection(pend') /\ pend'[d] = r
      /\ \A e \in Directions : e # d => pend'[e] = pend[e]
  <2>1. pend' = [pend EXCEPT ![d] = r] BY <1>1 DEF t, r
  <2>2. PerDirection(pend) BY Functions
  <2> QED BY <2>1, <2>2 DEF PerDirection
<1>10. WriterTypes'
  <2>1. \A e \in Directions : sent'[e] \in Seq(1..Source[e]) /\ pend'[e] \in Seq(1..Source[e])
    BY <1>4, <1>5, <1>8, <1>9 DEF Types, WriterTypes
  <2>2. wseq' \in [Directions -> 0..MaxSeq]
    <3>1. \A e \in Directions : wseq'[e] \in 0..MaxSeq
      BY <1>6, <1>7 DEF Types, WriterTypes
    <3> QED BY <1>7, <3>1 DEF PerDirection
  <2>3. sealed' \subseteq DataFrames("up") \cup DataFrames("down")
    BY <1>1, <1>2, Dirs DEF Types, WriterTypes
  <2> QED BY <1>1, <1>8, <1>9, <2>1, <2>2, <2>3 DEF Types, WriterTypes, PerDirection
<1>11. /\ Wires' /\ \A e \in Directions : e # d => Same(e)
       /\ carrier[d] # "open" => Same(d)
       /\ carrier[d] = "open" => Added(d, Record(d))
  BY <1>1, <1>2, PutEffect DEF Types
<1>12. SetupTypes' /\ Agreement'
  <2>1. Record(d).type # "hello" /\ hs[WriterOf(d)] = "records" BY <1>1, <1>2 DEF Copying
  <2> QED BY <1>1, <1>11, <2>1, AgreeRecords DEF Fewer
<1>13. Types' BY <1>1, <1>10, <1>11, <1>12, ReaderFrame, CarrierFrame DEF Types
<1>14. \A e \in Directions : ReaderIdle(e) BY <1>1, Idle
<1>15. \A e \in Directions : e # d => Untouched(e)
  BY <1>1, <1>7, <1>8, <1>9, <1>11, <1>14 DEF Untouched, ReaderIdle, Same
<1> QED BY <1>1, <1>6, <1>7, <1>8, <1>9, <1>11, <1>12, <1>13, <1>14, <1>15 DEF t, r

\* io.Copy ends: a write failed, the sequence numbers or the source.
LEMMA StepCopyStops ==
    ASSUME Types, Agreement, NEW d \in Directions,
           WriteFails(d) \/ WriteExhausted(d) \/ CopyEnds(d)
    PROVE  /\ Types' /\ Agreement' /\ UNCHANGED setupVars
           /\ Copying(d)
           /\ \/ sealed' = sealed
              \/ pend[d] # <<>> /\ wseq[d] < MaxSeq /\ sealed' = sealed \cup {Record(d)}
           /\ \A e \in Directions : e # d => Untouched(e)
           /\ wire'[d] = wire[d] /\ carrier'[d] = carrier[d] /\ copier'[d] = "close"
           /\ wseq'[d] = wseq[d] /\ wclosed'[d] = wclosed[d] /\ sent'[d] = sent[d]
           /\ pend'[d] = <<>>
           /\ ReaderIdle(d)
<1>0. Copying(d) BY DEF WriteFails, WriteExhausted, CopyEnds
<1>1. /\ copier' = [copier EXCEPT ![d] = "close"]
      /\ UNCHANGED <<setupVars, wire, carrier, wseq, wclosed, sent, readerVars>>
  BY DEF WriteFails, WriteExhausted, CopyEnds
<1>2. pend' = [pend EXCEPT ![d] = <<>>] \/ (pend' = pend /\ pend[d] = <<>>)
  BY DEF WriteFails, WriteExhausted, CopyEnds
<1>3. \/ sealed' = sealed
      \/ pend[d] # <<>> /\ wseq[d] < MaxSeq /\ sealed' = sealed \cup {Record(d)}
  <2>1. CASE WriteFails(d)
    <3>1. wseq[d] \in 0..MaxSeq BY DEF Types, WriterTypes
    <3> QED BY <2>1, <3>1, Numbers DEF WriteFails
  <2>2. CASE WriteExhausted(d) BY <2>2 DEF WriteExhausted
  <2>3. CASE CopyEnds(d) BY <2>3 DEF CopyEnds
  <2> QED BY <2>1, <2>2, <2>3
<1>4. PerDirection(pend') /\ pend'[d] = <<>> /\ \A e \in Directions : e # d => pend'[e] = pend[e]
  <2>1. PerDirection(pend) BY Functions
  <2> QED BY <1>2, <2>1 DEF PerDirection
<1>5. /\ copier' \in [Directions -> {"copy", "close", "done"}] /\ copier'[d] = "close"
      /\ \A e \in Directions : e # d => copier'[e] = copier[e]
  BY <1>1 DEF Types, WriterTypes
<1>6. WriterTypes'
  <2>1. \A e \in Directions : pend'[e] \in Seq(1..Source[e])
    <3>1. <<>> \in Seq(1..Source[d]) OBVIOUS
    <3> QED BY <1>4, <3>1 DEF Types, WriterTypes
  <2>2. sealed' \subseteq DataFrames("up") \cup DataFrames("down")
    <3>1. pend[d] # <<>> => Record(d) \in DataFrames(d) BY <1>0, RecordFacts
    <3> QED BY <1>3, <3>1, Dirs DEF Types, WriterTypes
  <2> QED BY <1>1, <1>4, <1>5, <2>1, <2>2 DEF Types, WriterTypes, PerDirection
<1>7. Wires' /\ \A e \in Directions : Same(e) BY <1>1, NoEffect DEF Types
<1>8. SetupTypes' /\ Agreement' BY <1>1, <1>7, AgreeRecords DEF Fewer
<1>9. Types' BY <1>1, <1>6, <1>7, <1>8, ReaderFrame, CarrierFrame DEF Types
<1>10. \A e \in Directions : ReaderIdle(e) BY <1>1, Idle
<1>11. \A e \in Directions : e # d => Untouched(e)
  BY <1>1, <1>4, <1>5, <1>10 DEF Untouched, ReaderIdle
<1> QED BY <1>0, <1>1, <1>3, <1>4, <1>5, <1>8, <1>9, <1>10, <1>11

\* CloseWrite.
LEMMA StepCloseWrite ==
    ASSUME Types, Agreement, NEW d \in Directions, CloseWrite(d), hs[WriterOf(d)] = "records"
    PROVE  /\ Types' /\ Agreement' /\ UNCHANGED <<setupVars, sealed>>
           /\ \A e \in Directions : e # d => Untouched(e)
           /\ carrier[d] # "open" => Same(d)
           /\ carrier[d] = "open" => Added(d, CloseFrame("ok"))
           /\ carrier'[d] = carrier[d] /\ copier[d] = "close" /\ copier'[d] = "done"
           /\ wclosed'[d] = TRUE /\ wseq'[d] = wseq[d] /\ sent'[d] = sent[d]
           /\ pend'[d] = pend[d]
           /\ ReaderIdle(d)
<1>1. /\ copier[d] = "close" /\ Put(d, CloseFrame("ok"))
      /\ wclosed' = [wclosed EXCEPT ![d] = TRUE]
      /\ copier' = [copier EXCEPT ![d] = "done"]
      /\ UNCHANGED <<setupVars, carrier, pend, wseq, sent, readerVars, sealed>>
  BY DEF CloseWrite
<1>2. /\ copier' \in [Directions -> {"copy", "close", "done"}] /\ copier'[d] = "done"
      /\ \A e \in Directions : e # d => copier'[e] = copier[e]
      /\ wclosed' \in [Directions -> BOOLEAN] /\ wclosed'[d] = TRUE
      /\ \A e \in Directions : e # d => wclosed'[e] = wclosed[e]
  BY <1>1 DEF Types, WriterTypes
<1>3. WriterTypes' BY <1>1, <1>2 DEF Types, WriterTypes, PerDirection
<1>4. CloseFrame("ok") \in FramesOf(d) BY HelloType DEF Types
<1>5. /\ Wires' /\ \A e \in Directions : e # d => Same(e)
      /\ carrier[d] # "open" => Same(d)
      /\ carrier[d] = "open" => Added(d, CloseFrame("ok"))
  BY <1>1, <1>4, PutEffect DEF Types
<1>6. SetupTypes' /\ Agreement'
  <2>1. CloseFrame("ok").type # "hello" BY DEF CloseFrame
  <2> QED BY <1>1, <1>5, <2>1, AgreeRecords DEF Fewer
<1>7. Types' BY <1>1, <1>3, <1>5, <1>6, ReaderFrame, CarrierFrame DEF Types
<1>8. \A e \in Directions : ReaderIdle(e) BY <1>1, Idle
<1>9. \A e \in Directions : e # d => Untouched(e)
  BY <1>1, <1>2, <1>5, <1>8 DEF Untouched, ReaderIdle, Same
<1> QED BY <1>1, <1>2, <1>5, <1>6, <1>7, <1>8, <1>9

\* Read hands out bytes of its buffer.
LEMMA StepReadBuffered ==
    ASSUME Types, Agreement, NEW d \in Directions, ReadBuffered(d)
    PROVE  /\ Types' /\ Agreement' /\ UNCHANGED <<setupVars, sealed>> /\ Reading(d)
           /\ \A e \in Directions : e # d => Untouched(e)
           /\ wire'[d] = wire[d] /\ carrier'[d] = carrier[d] /\ WriterIdle(d)
           /\ rseq'[d] = rseq[d] /\ result'[d] = result[d]
           /\ \E n \in 0..Len(rbuf[d]) :
                /\ got'[d] = got[d] \o SubSeq(rbuf[d], 1, n)
                /\ rbuf'[d] = SubSeq(rbuf[d], n + 1, Len(rbuf[d]))
<1> DEFINE n == Min(MaxRead, Len(rbuf[d]))
           s == SubSeq(rbuf[d], 1, n)
           r == SubSeq(rbuf[d], n + 1, Len(rbuf[d]))
<1>1. /\ got' = [got EXCEPT ![d] = got[d] \o s] /\ rbuf' = [rbuf EXCEPT ![d] = r]
      /\ UNCHANGED <<setupVars, wire, carrier, writerVars, rseq, result, sealed>>
      /\ Reading(d)
  BY DEF ReadBuffered
<1>2. rbuf[d] \in Seq(1..Source[d]) /\ got[d] \in Seq(1..Source[d])
  BY DEF Types, ReaderTypes
<1>3. n \in 0..Len(rbuf[d])
  <2>1. Len(rbuf[d]) \in Nat BY <1>2
  <2> QED BY <2>1, Numbers DEF Min
<1> HIDE DEF n
<1>4. s \in Seq(1..Source[d]) /\ r \in Seq(1..Source[d])
  BY <1>2, <1>3, FrontFacts, RestFacts
<1> HIDE DEF s, r
<1>5. got[d] \o s \in Seq(1..Source[d]) BY <1>2, <1>4, ConcatFacts
<1>6. /\ PerDirection(got') /\ got'[d] = got[d] \o s
      /\ \A e \in Directions : e # d => got'[e] = got[e]
  <2>1. PerDirection(got) BY Functions
  <2> QED BY <1>1, <2>1 DEF PerDirection
<1>7. /\ PerDirection(rbuf') /\ rbuf'[d] = r
      /\ \A e \in Directions : e # d => rbuf'[e] = rbuf[e]
  <2>1. PerDirection(rbuf) BY Functions
  <2> QED BY <1>1, <2>1 DEF PerDirection
<1>8. ReaderTypes'
  <2>1. \A e \in Directions : got'[e] \in Seq(1..Source[e]) /\ rbuf'[e] \in Seq(1..Source[e])
    BY <1>4, <1>5, <1>6, <1>7 DEF Types, ReaderTypes
  <2> QED BY <1>1, <1>6, <1>7, <2>1 DEF Types, ReaderTypes, PerDirection
<1>9. Wires' /\ \A e \in Directions : Same(e) BY <1>1, NoEffect DEF Types
<1>10. SetupTypes' /\ Agreement' BY <1>1, <1>9, AgreeRecords DEF Fewer
<1>11. Types' BY <1>1, <1>8, <1>9, <1>10, WriterFrame, CarrierFrame DEF Types
<1>12. \A e \in Directions : WriterIdle(e) BY <1>1, Idle
<1>13. \A e \in Directions : e # d => Untouched(e)
  BY <1>1, <1>6, <1>7, <1>12 DEF Untouched, WriterIdle
<1> QED BY <1>1, <1>3, <1>6, <1>7, <1>10, <1>11, <1>12, <1>13 DEF s, r

\* A record is read and opened.
LEMMA StepReadData ==
    ASSUME Types, Agreement, NEW d \in Directions, ReadData(d)
    PROVE  /\ Types' /\ Agreement' /\ UNCHANGED <<setupVars, sealed>> /\ Reading(d)
           /\ \A e \in Directions : e # d => Untouched(e)
           /\ Popped(d) /\ carrier'[d] = carrier[d] /\ WriterIdle(d)
           /\ wire[d][1].type = "data" /\ Opens(d, wire[d][1])
           /\ rseq'[d] = rseq[d] + 1 /\ result'[d] = result[d] /\ got'[d] = got[d]
           /\ rbuf[d] = <<>> /\ rbuf'[d] = wire[d][1].text
<1>1. /\ Reading(d) /\ rbuf[d] = <<>> /\ Readable(d)
      /\ Head(wire[d]).type = "data" /\ Opens(d, Head(wire[d]))
      /\ rbuf' = [rbuf EXCEPT ![d] = Head(wire[d]).text]
      /\ rseq' = [rseq EXCEPT ![d] = rseq[d] + 1]
      /\ Pop(d)
      /\ UNCHANGED <<setupVars, carrier, writerVars, got, result, sealed>>
  BY DEF ReadData
<1>2. /\ Wires' /\ Popped(d) /\ \A e \in Directions : e # d => Same(e)
      /\ Head(wire[d]) = wire[d][1] /\ wire[d][1] \in FramesOf(d)
  BY <1>1, PopEffect DEF Types, Readable
<1>3. wire[d][1].text \in Seq(1..Source[d]) BY <1>1, <1>2, FrameTypes
<1>4. /\ PerDirection(rbuf') /\ rbuf'[d] = wire[d][1].text
      /\ \A e \in Directions : e # d => rbuf'[e] = rbuf[e]
  <2>1. PerDirection(rbuf) BY Functions
  <2>2. rbuf' = [rbuf EXCEPT ![d] = wire[d][1].text] BY <1>1, <1>2
  <2> QED BY <2>1, <2>2 DEF PerDirection
<1>5. /\ PerDirection(rseq') /\ rseq'[d] = rseq[d] + 1
      /\ \A e \in Directions : e # d => rseq'[e] = rseq[e]
  <2>1. PerDirection(rseq) BY Functions
  <2>2. rseq' = [rseq EXCEPT ![d] = rseq[d] + 1] BY <1>1
  <2> QED BY <2>1, <2>2 DEF PerDirection
<1>6. rseq[d] + 1 \in 0..MaxSeq
  <2>1. rseq[d] \in 0..MaxSeq /\ rseq[d] # MaxSeq BY <1>1 DEF Types, ReaderTypes, Opens
  <2> QED BY <2>1, Numbers
<1>7. ReaderTypes'
  <2>1. \A e \in Directions : rbuf'[e] \in Seq(1..Source[e])
    BY <1>3, <1>4 DEF Types, ReaderTypes
  <2>2. rseq' \in [Directions -> 0..MaxSeq]
    <3>1. \A e \in Directions : rseq'[e] \in 0..MaxSeq BY <1>5, <1>6 DEF Types, ReaderTypes
    <3> QED BY <1>5, <3>1 DEF PerDirection
  <2> QED BY <1>1, <1>4, <2>1, <2>2 DEF Types, ReaderTypes, PerDirection
<1>8. SetupTypes' /\ Agreement' BY <1>1, <1>2, AgreeRecords DEF Fewer
<1>9. Types' BY <1>1, <1>2, <1>7, <1>8, WriterFrame, CarrierFrame DEF Types
<1>10. \A e \in Directions : WriterIdle(e) BY <1>1, Idle
<1>11. \A e \in Directions : e # d => Untouched(e)
  BY <1>1, <1>2, <1>4, <1>5, <1>10 DEF Untouched, WriterIdle, Same
<1> QED BY <1>1, <1>2, <1>4, <1>5, <1>8, <1>9, <1>10, <1>11

\* Reading ends.
LEMMA StepReadEnds ==
    ASSUME Types, Agreement, NEW d \in Directions, ReadEnds(d)
    PROVE  /\ Types' /\ Agreement' /\ UNCHANGED <<setupVars, sealed>> /\ Reading(d)
           /\ \A e \in Directions : e # d => Untouched(e)
           /\ carrier'[d] = carrier[d] /\ WriterIdle(d) /\ rbuf[d] = <<>>
           /\ rseq'[d] = rseq[d] /\ rbuf'[d] = rbuf[d] /\ got'[d] = got[d]
           /\ \/ /\ Popped(d) /\ wire[d][1] \in FramesOf(d)
                 /\ ~(wire[d][1].type = "data" /\ Opens(d, wire[d][1]))
                 /\ result'[d] = IF wire[d][1].type = "close" /\ wire[d][1].code = "ok"
                                 THEN "eof" ELSE "error"
              \/ result'[d] = "eof" /\ carrier[d] = "fin"
              \/ result'[d] = "error" /\ carrier[d] \in {"torn", "reset"}
<1>1. /\ Reading(d) /\ rbuf[d] = <<>>
      /\ UNCHANGED <<setupVars, carrier, writerVars, rseq, rbuf, got, sealed>>
  BY DEF ReadEnds
<1> DEFINE Popping ==
             /\ Readable(d)
             /\ ~(Head(wire[d]).type = "data" /\ Opens(d, Head(wire[d])))
             /\ result' = [result EXCEPT ![d] =
                  IF Head(wire[d]).type = "close" /\ Head(wire[d]).code = "ok"
                  THEN "eof" ELSE "error"]
             /\ Pop(d)
           Ending ==
             /\ AtEOF(d) \/ Unreadable(d)
             /\ result' = [result EXCEPT ![d] = IF AtEOF(d) THEN "eof" ELSE "error"]
             /\ UNCHANGED wire
<1>2. Popping \/ Ending BY DEF ReadEnds
<1>3. /\ result' \in [Directions -> {"none", "eof", "error"}]
      /\ \A e \in Directions : e # d => result'[e] = result[e]
  BY <1>2 DEF Types, ReaderTypes
<1>4. /\ Wires' /\ Fewer(d) /\ \A e \in Directions : e # d => Same(e)
      /\ \/ /\ Popped(d) /\ wire[d][1] \in FramesOf(d)
            /\ ~(wire[d][1].type = "data" /\ Opens(d, wire[d][1]))
            /\ result'[d] = IF wire[d][1].type = "close" /\ wire[d][1].code = "ok"
                            THEN "eof" ELSE "error"
         \/ result'[d] = "eof" /\ carrier[d] = "fin"
         \/ result'[d] = "error" /\ carrier[d] \in {"torn", "reset"}
  <2>1. CASE Popping
    <3>1. /\ Wires' /\ Popped(d) /\ \A e \in Directions : e # d => Same(e)
          /\ Head(wire[d]) = wire[d][1] /\ wire[d][1] \in FramesOf(d)
      BY <2>1, PopEffect DEF Types, Readable
    <3>2. result'[d] = IF wire[d][1].type = "close" /\ wire[d][1].code = "ok"
                       THEN "eof" ELSE "error"
      BY <2>1, <3>1 DEF Types, ReaderTypes
    <3>3. ~(wire[d][1].type = "data" /\ Opens(d, wire[d][1])) BY <2>1, <3>1
    <3> QED BY <3>1, <3>2, <3>3 DEF Fewer
  <2>2. CASE Ending
    <3>1. Wires' /\ \A e \in Directions : Same(e) BY <2>2, NoEffect DEF Types
    <3>2. result'[d] = IF AtEOF(d) THEN "eof" ELSE "error"
      BY <2>2 DEF Types, ReaderTypes
    <3>3. \/ result'[d] = "eof" /\ carrier[d] = "fin"
          \/ result'[d] = "error" /\ carrier[d] \in {"torn", "reset"}
      BY <2>2, <3>2 DEF AtEOF, Unreadable
    <3> QED BY <3>1, <3>3 DEF Fewer
  <2> QED BY <1>2, <2>1, <2>2
<1> HIDE DEF Popping, Ending
<1>5. ReaderTypes' BY <1>1, <1>3 DEF Types, ReaderTypes, PerDirection
<1>6. SetupTypes' /\ Agreement' BY <1>1, <1>4, AgreeRecords DEF Fewer
<1>7. Types' BY <1>1, <1>4, <1>5, <1>6, WriterFrame, CarrierFrame DEF Types
<1>8. \A e \in Directions : WriterIdle(e) BY <1>1, Idle
<1>9. \A e \in Directions : e # d => Untouched(e)
  BY <1>1, <1>3, <1>4, <1>8 DEF Untouched, WriterIdle, Same
<1> QED BY <1>1, <1>4, <1>6, <1>7, <1>8, <1>9

\* The stream is cut or reset.
LEMMA StepBreak ==
    ASSUME Types, Agreement, NEW d \in Directions, Cut(d) \/ Reset(d)
    PROVE  /\ Types' /\ Agreement' /\ UNCHANGED <<setupVars, sealed>>
           /\ \A e \in Directions : e # d => Untouched(e)
           /\ Same(d) \/ Trimmed(d)
           /\ carrier'[d] \in {"fin", "torn", "reset"} /\ WriterIdle(d) /\ ReaderIdle(d)
<1>1. /\ UNCHANGED <<setupVars, writerVars, readerVars, sealed>>
      /\ \E c \in {"fin", "torn", "reset"} : carrier' = [carrier EXCEPT ![d] = c]
  BY DEF Cut, Reset
<1>2. CarrierType' /\ carrier'[d] \in {"fin", "torn", "reset"}
      /\ \A e \in Directions : e # d => carrier'[e] = carrier[e]
  BY <1>1 DEF Types, CarrierType
<1>3. /\ Wires' /\ (Same(d) \/ Trimmed(d))
      /\ \A e \in Directions : e # d => Same(e)
  <2>1. CASE Cut(d)
    <3>1. PICK k \in 0..Len(wire[d]) : wire' = [wire EXCEPT ![d] = SubSeq(@, 1, k)]
      BY <2>1 DEF Cut
    <3> QED BY <3>1, CutEffect DEF Types
  <2>2. CASE Reset(d)
    <3>1. UNCHANGED wire BY <2>2 DEF Reset
    <3> QED BY <3>1, NoEffect DEF Types
  <2> QED BY <2>1, <2>2
<1>4. SetupTypes' /\ Agreement' BY <1>1, <1>3, AgreeRecords DEF Fewer
<1>5. Types' BY <1>1, <1>2, <1>3, <1>4, HandshakeFrame
<1>6. \A e \in Directions : WriterIdle(e) /\ ReaderIdle(e) BY <1>1, Idle
<1>7. \A e \in Directions : e # d => Untouched(e) BY <1>2, <1>3, <1>6, Idle DEF Same
<1> QED BY <1>1, <1>2, <1>3, <1>4, <1>5, <1>6, <1>7

\* Only hellos are under way in direction d.
AllHellos(d) == \A i \in 1..Len(wire[d]) : wire[d][i].type = "hello"

\* What a step of the handshake may do to the frames of direction d.
HandshakeOn(d) ==
    \/ Same(d)
    \/ Popped(d) /\ wire[d][1].type = "hello" /\ hs[ReaderOf(d)] # "records"
    \/ \E f : /\ Added(d, f) /\ AllHellos(d) /\ hs[WriterOf(d)] # "records"
              /\ f.type = "hello" \/ (f = CloseFrame("error") /\ carrier'[d] = "fin")

LEMMA StepHandshake ==
    ASSUME Types, Agreement, Handshake, NEW d \in Directions
    PROVE  /\ UNCHANGED <<writerVars, readerVars, sealed>>
           /\ \A s \in Sides : hs[s] = "records" => hs'[s] = "records" /\ keys'[s] = keys[s]
           /\ keys'[WriterOf(d)] = keys[WriterOf(d)] \/ AllHellos(d)
           /\ carrier'[d] = carrier[d] \/ (carrier[d] = "open" /\ carrier'[d] = "fin")
           /\ HandshakeOn(d)
<1> USE Dirs
<1>0. UNCHANGED <<writerVars, readerVars, sealed>>
  BY DEF Handshake, SendClientHello, ReadClientHello, ReadServerHello, ReadHello,
         SendServerHello, SendClientFinished, ReadClientFinished, HandshakeFails
<1>h. /\ hs["client"] # "records" => AllHellos("up")
      /\ hs["server"] \notin {"records", "failed"} => AllHellos("down")
  BY DEF Agreement, HellosUp, HellosDown, AllHellos
<1>s. ASSUME NEW side \in Sides, NEW label, hs[side] # "records", Goto(side, label)
      PROVE  \A s \in Sides : hs[s] = "records" => hs'[s] = "records"
  BY <1>s, GotoEffect
<1>k. ASSUME NEW side \in Sides, keys[side] = NoKey, NEW v, keys' = [keys EXCEPT ![side] = v]
      PROVE  \A s \in Sides : hs[s] = "records" => keys'[s] = keys[s]
  BY <1>k DEF Types, SetupTypes
<1>1. CASE SendClientHello
  <2>1. /\ hs["client"] = "start" /\ Put("up", ClientHello) /\ Goto("client", "serverHello")
        /\ UNCHANGED <<keys, carrier>>
    BY <1>1 DEF SendClientHello, ClientHello
  <2>2. ClientHello \in FramesOf("up") /\ ClientHello.type = "hello"
    BY HelloType DEF Types, ClientHello, Hello
  <2>3. Same("down") /\ (Same("up") \/ Added("up", ClientHello))
    BY <2>1, <2>2, PutEffect DEF Types
  <2> QED BY <1>0, <1>h, <1>s, <2>1, <2>2, <2>3 DEF HandshakeOn
<1>2. CASE ReadClientHello
  <2>1. /\ hs["server"] = "clientHello" /\ Readable("up") /\ Accepts("server", Head(wire["up"]))
        /\ Pop("up") /\ Goto("server", "prepare") /\ UNCHANGED <<keys, carrier>>
    BY <1>2 DEF ReadClientHello, ReadHello
  <2>2. Same("down") /\ Popped("up") BY <2>1, PopEffect DEF Types, Readable
  <2>3. wire["up"][1].type = "hello" BY <2>1, ServerAccepts DEF ClientHello, Hello
  <2> QED BY <1>0, <1>s, <2>1, <2>2, <2>3 DEF HandshakeOn
<1>3. CASE SendServerHello
  <2>1. /\ hs["server"] = "prepare" /\ Put("down", ServerHello)
        /\ Goto("server", "clientFinished") /\ UNCHANGED <<keys, carrier>>
    BY <1>3 DEF SendServerHello, ServerHello
  <2>2. ServerHello \in FramesOf("down") /\ ServerHello.type = "hello"
    BY HelloType DEF Types, ServerHello, Hello
  <2>3. Same("up") /\ (Same("down") \/ Added("down", ServerHello))
    BY <2>1, <2>2, PutEffect DEF Types
  <2> QED BY <1>0, <1>h, <1>s, <2>1, <2>2, <2>3 DEF HandshakeOn
<1>4. CASE ReadServerHello
  <2>1. /\ hs["client"] = "serverHello" /\ Readable("down")
        /\ Accepts("client", Head(wire["down"]))
        /\ Pop("down") /\ Goto("client", "finish") /\ UNCHANGED <<keys, carrier>>
    BY <1>4 DEF ReadServerHello, ReadHello
  <2>2. Same("up") /\ Popped("down") BY <2>1, PopEffect DEF Types, Readable
  <2>3. wire["down"][1].type = "hello" BY <2>1, ClientAccepts
  <2> QED BY <1>0, <1>s, <2>1, <2>2, <2>3 DEF HandshakeOn
<1>5. CASE SendClientFinished
  <2>0. hs["client"] = "finish" /\ seen["client"] = "server"
    BY <1>5 DEF SendClientFinished, Agreement, Handshaken
  <2>1. /\ Put("up", ClientFinished) /\ Goto("client", "records")
        /\ \E v : keys' = [keys EXCEPT !["client"] = v]
        /\ UNCHANGED carrier
    BY <1>5, <2>0 DEF SendClientFinished, ClientFinished, SetKeys
  <2>2. ClientFinished \in FramesOf("up") /\ ClientFinished.type = "hello"
    BY <2>0, HelloType DEF Types, ClientFinished, Hello
  <2>3. Same("down") /\ (Same("up") \/ Added("up", ClientFinished))
    BY <2>1, <2>2, PutEffect DEF Types
  <2>4. keys["client"] = NoKey /\ keys'["server"] = keys["server"]
    BY <2>0, <2>1 DEF Types, SetupTypes
  <2> QED BY <1>0, <1>h, <1>s, <1>k, <2>0, <2>1, <2>2, <2>3, <2>4 DEF HandshakeOn
<1>6. CASE ReadClientFinished
  <2>1. /\ hs["server"] = "clientFinished" /\ Readable("up")
        /\ Accepts("server", Head(wire["up"]))
        /\ Pop("up") /\ Goto("server", "records")
        /\ \E v : keys' = [keys EXCEPT !["server"] = v]
        /\ UNCHANGED carrier
    BY <1>6 DEF ReadClientFinished, SetKeys
  <2>2. Same("down") /\ Popped("up") BY <2>1, PopEffect DEF Types, Readable
  <2>3. wire["up"][1].type = "hello" BY <2>1, ServerAccepts DEF ClientFinished, Hello
  <2>4. keys["server"] = NoKey /\ keys'["client"] = keys["client"]
    BY <2>1 DEF Types, SetupTypes
  <2> QED BY <1>0, <1>h, <1>s, <1>k, <2>1, <2>2, <2>3, <2>4 DEF HandshakeOn
<1>7. CASE \E side \in Sides : HandshakeFails(side)
  <2>1. PICK side \in Sides : HandshakeFails(side) BY <1>7
  <2>2. /\ Goto(side, "failed") /\ hs[side] \notin {"records", "failed"}
        /\ IF side = "server" THEN Put("down", CloseFrame("error")) ELSE UNCHANGED wire
        /\ carrier' = [carrier EXCEPT ![OutOf(side)] = IF @ = "open" THEN "fin" ELSE @]
        /\ UNCHANGED keys
    BY <2>1 DEF HandshakeFails
  <2>3. /\ \A e \in Directions : \/ carrier'[e] = carrier[e]
                                 \/ carrier[e] = "open" /\ carrier'[e] = "fin"
        /\ side = "server" /\ carrier["down"] = "open" => carrier'["down"] = "fin"
    BY <2>2 DEF Types, CarrierType
  <2>4. CASE side = "client"
    <3>1. Same("up") /\ Same("down") BY <2>2, <2>4, NoEffect DEF Types
    <3> QED BY <1>0, <1>s, <2>2, <2>3, <3>1 DEF HandshakeOn
  <2>5. CASE side = "server"
    <3>1. CloseFrame("error") \in FramesOf("down") BY HelloType DEF Types
    <3>2. /\ Same("up")
          /\ Same("down") \/ (Added("down", CloseFrame("error")) /\ carrier["down"] = "open")
      BY <2>2, <2>5, <3>1, PutEffect DEF Types
    <3> QED BY <1>0, <1>h, <1>s, <2>2, <2>3, <2>5, <3>2 DEF HandshakeOn
  <2> QED BY <2>4, <2>5
<1> QED BY <1>1, <1>2, <1>3, <1>4, <1>5, <1>6, <1>7 DEF Handshake

-----------------------------------------------------------------------------
(* The frames under way continue what was read. *)

\* Frames are unchanged or cut off at the end, and what was written may grow
\* only behind a broken stream.
LEMMA ChainKept ==
    ASSUME Types, Wires', NEW d \in Directions, Chain(d), Same(d) \/ Trimmed(d),
           result'[d] = "none" => result[d] = "none",
           rseq'[d] = rseq[d],
           Len(got'[d]) + Len(rbuf'[d]) = Len(got[d]) + Len(rbuf[d]),
           keys'[WriterOf(d)] = keys[WriterOf(d)] \/ AllHellos(d),
           Len(sent[d]) \in Nat, Len(sent'[d]) \in Nat, Len(sent[d]) <= Len(sent'[d]),
           wclosed[d] => wclosed'[d] /\ sent'[d] = sent[d],
           carrier'[d] = "open" =>
               /\ carrier[d] = "open" /\ Same(d)
               /\ wseq'[d] = wseq[d] /\ sent'[d] = sent[d] /\ wclosed'[d] = wclosed[d]
    PROVE  Chain(d)'
<1> SUFFICES ASSUME result'[d] = "none" PROVE Chain(d)'
  BY DEF Chain
<1>1. /\ Len(wire[d]) \in Nat /\ Len(wire'[d]) \in Nat /\ Len(wire'[d]) <= Len(wire[d])
      /\ \A i \in 1..Len(wire'[d]) : wire'[d][i] = wire[d][i]
  BY DEF Types, Wires, Same, Trimmed
<1>2. \A i \in 1..(Len(wire'[d]) + 1) : i # 1 => i - 1 \in 1..Len(wire'[d])
  BY <1>1
<1>3. \A i \in 1..(Len(wire'[d]) + 1) :
        SeqBefore(d, i)' = SeqBefore(d, i) /\ BytesBefore(d, i)' = BytesBefore(d, i)
  BY <1>1, <1>2 DEF SeqBefore, BytesBefore
<1>4. ASSUME NEW i \in 1..Len(wire'[d]) PROVE DataOK(d, i)'
  <2>1. /\ i \in 1..Len(wire[d]) /\ i \in 1..(Len(wire'[d]) + 1) /\ wire'[d][i] = wire[d][i]
        /\ wire[d][i] \in FramesOf(d)
    BY <1>1 DEF Types, Wires
  <2>2. SUFFICES ASSUME wire[d][i].type = "data" PROVE DataOK(d, i)'
    BY <2>1 DEF DataOK
  <2>3. /\ wire[d][i].seq = SeqBefore(d, i) /\ wire[d][i].seq < MaxSeq
        /\ wire[d][i].key = keys[WriterOf(d)][d]
        /\ Len(wire[d][i].text) > 0 /\ Numbered(wire[d][i].text, BytesBefore(d, i))
        /\ wire[d][i].text[Len(wire[d][i].text)] <= Len(sent[d])
    BY <2>1, <2>2 DEF Chain, DataOK
  <2>4. keys'[WriterOf(d)] = keys[WriterOf(d)] BY <2>1, <2>2 DEF AllHellos
  <2>5. Len(wire[d][i].text) \in Nat
        /\ wire[d][i].text[Len(wire[d][i].text)] \in Nat
    <3>1. wire[d][i].text \in Seq(1..Source[d]) BY <2>1, <2>2, FrameTypes
    <3>2. wire[d][i].text[Len(wire[d][i].text)] \in 1..Source[d] BY <2>3, <3>1, LastFacts
    <3> QED BY <3>1, <3>2, Numbers
  <2>6. wire[d][i].text[Len(wire[d][i].text)] <= Len(sent'[d])
    BY <2>3, <2>5
  <2>7. Numbered(wire'[d][i].text, BytesBefore(d, i)')
    BY <1>3, <2>1, <2>3
  <2> QED BY <1>3, <2>1, <2>3, <2>4, <2>6, <2>7 DEF DataOK, Numbered
<1>5. ASSUME NEW i \in 1..Len(wire'[d]) PROVE CloseOK(d, i)'
  <2>1. i \in 1..Len(wire[d]) /\ i \in 1..(Len(wire'[d]) + 1) /\ wire'[d][i] = wire[d][i]
    BY <1>1
  <2>2. CloseOK(d, i) BY <2>1 DEF Chain
  <2>3. i = Len(wire[d]) => i = Len(wire'[d]) BY <1>1
  <2> QED BY <1>3, <2>1, <2>2, <2>3 DEF CloseOK
<1>6. ASSUME carrier'[d] = "open"
      PROVE  \/ Len(wire'[d]) > 0 /\ wire'[d][Len(wire'[d])].type = "close"
             \/ /\ SeqBefore(d, Len(wire[d]) + 1)' = wseq'[d]
                /\ BytesBefore(d, Len(wire[d]) + 1)' = Len(sent'[d])
                /\ ~wclosed'[d]
  BY <1>6 DEF Chain, Same, SeqBefore, BytesBefore
<1> QED BY <1>4, <1>5, <1>6 DEF Chain

\* The first frame is read.
LEMMA ChainPopped ==
    ASSUME Types, Wires', NEW d \in Directions, Chain(d), Popped(d),
           result'[d] = result[d], wire[d][1].type # "close",
           wire[d][1].type = "data" =>
               /\ rseq'[d] = wire[d][1].seq + 1
               /\ Len(got'[d]) + Len(rbuf'[d]) = wire[d][1].text[Len(wire[d][1].text)],
           wire[d][1].type # "data" => rseq'[d] = 0 /\ Len(got'[d]) + Len(rbuf'[d]) = 0,
           keys'[WriterOf(d)] = keys[WriterOf(d)] \/ AllHellos(d),
           WriterIdle(d), carrier'[d] = "open" => carrier[d] = "open"
    PROVE  Chain(d)'
<1> SUFFICES ASSUME result'[d] = "none" PROVE Chain(d)'
  BY DEF Chain
<1>1. /\ Len(wire[d]) \in Nat /\ Len(wire'[d]) \in Nat /\ Len(wire'[d]) = Len(wire[d]) - 1
      /\ \A i \in 1..Len(wire'[d]) : wire'[d][i] = wire[d][i + 1]
  BY SMTT(30) DEF Types, Wires, Popped
<1>2. \A i \in 1..(Len(wire'[d]) + 1) :
        /\ i \in Nat /\ i + 1 # 1 /\ (i + 1) - 1 = i
        /\ i = 1 \/ (i # 1 /\ i - 1 \in 1..Len(wire'[d]) /\ wire'[d][i - 1] = wire[d][i])
  <2> TAKE i \in 1..(Len(wire'[d]) + 1)
  <2>1. i = 1 \/ (i # 1 /\ i - 1 \in 1..Len(wire'[d]) /\ (i - 1) + 1 = i) BY <1>1
  <2> QED BY <1>1, <2>1, SMTT(30)
<1>3. \A i \in 1..(Len(wire'[d]) + 1) :
        SeqBefore(d, i)' = SeqBefore(d, i + 1) /\ BytesBefore(d, i)' = BytesBefore(d, i + 1)
  BY <1>2, ZenonT(30) DEF SeqBefore, BytesBefore
<1>4. ASSUME NEW i \in 1..Len(wire'[d]) PROVE DataOK(d, i)'
  <2>1. /\ i + 1 \in 1..Len(wire[d]) /\ i \in 1..(Len(wire'[d]) + 1)
        /\ wire'[d][i] = wire[d][i + 1]
    BY <1>1
  <2>2. SUFFICES ASSUME wire[d][i + 1].type = "data" PROVE DataOK(d, i)'
    BY <2>1 DEF DataOK
  <2>3. DataOK(d, i + 1) BY <2>1 DEF Chain
  <2>4. keys'[WriterOf(d)] = keys[WriterOf(d)] BY <2>1, <2>2 DEF AllHellos
  <2>5. sent'[d] = sent[d] BY DEF WriterIdle
  <2> QED BY <1>3, <2>1, <2>2, <2>3, <2>4, <2>5 DEF DataOK, Numbered
<1>5. ASSUME NEW i \in 1..Len(wire'[d]) PROVE CloseOK(d, i)'
  <2>1. /\ i + 1 \in 1..Len(wire[d]) /\ i \in 1..(Len(wire'[d]) + 1)
        /\ wire'[d][i] = wire[d][i + 1]
    BY <1>1
  <2>2. CloseOK(d, i + 1) BY <2>1 DEF Chain
  <2>3. i + 1 = Len(wire[d]) => i = Len(wire'[d]) BY <1>1
  <2> QED BY <1>3, <2>1, <2>2, <2>3 DEF CloseOK, WriterIdle
<1>6. ASSUME carrier'[d] = "open"
      PROVE  \/ Len(wire'[d]) > 0 /\ wire'[d][Len(wire'[d])].type = "close"
             \/ /\ SeqBefore(d, Len(wire[d]) + 1)' = wseq'[d]
                /\ BytesBefore(d, Len(wire[d]) + 1)' = Len(sent'[d])
                /\ ~wclosed'[d]
  <2>1. \/ Len(wire[d]) > 0 /\ wire[d][Len(wire[d])].type = "close"
        \/ /\ SeqBefore(d, Len(wire[d]) + 1) = wseq[d]
           /\ BytesBefore(d, Len(wire[d]) + 1) = Len(sent[d])
           /\ ~wclosed[d]
    BY <1>6 DEF Chain
  <2>2. CASE Len(wire'[d]) = 0
    <3>1. \A m, n \in Nat : n = m - 1 /\ n = 0 => m = 1 /\ m + 1 # 1 /\ (m + 1) - 1 = 1
      OBVIOUS
    <3>2. Len(wire[d]) = 1 /\ Len(wire[d]) + 1 # 1 /\ (Len(wire[d]) + 1) - 1 = 1
      BY <1>1, <2>2, <3>1
    <3>3. Len(wire'[d]) + 1 = 1 BY <2>2
    <3> QED BY <2>1, <3>2, <3>3 DEF WriterIdle, SeqBefore, BytesBefore
  <2>3. CASE Len(wire'[d]) # 0
    <3>1. /\ Len(wire'[d]) > 0 /\ Len(wire'[d]) + 1 # 1 /\ Len(wire[d]) + 1 # 1
          /\ wire'[d][Len(wire'[d])] = wire[d][Len(wire[d])]
          /\ (Len(wire'[d]) + 1) - 1 = Len(wire'[d]) /\ (Len(wire[d]) + 1) - 1 = Len(wire[d])
      <4>1. Len(wire'[d]) \in 1..Len(wire'[d]) /\ Len(wire'[d]) + 1 = Len(wire[d])
        <5>1. \A m, n \in Nat : n = m - 1 /\ n # 0 => n \in 1..n /\ n + 1 = m OBVIOUS
        <5> QED BY <1>1, <2>3, <5>1
      <4> QED BY <1>1, <4>1, SMTT(30)
    <3> QED BY <2>1, <3>1 DEF WriterIdle, SeqBefore, BytesBefore
  <2> QED BY <2>2, <2>3
<1> QED BY <1>4, <1>5, <1>6 DEF Chain

\* Behind the first close nothing is written: none is under way in an open
\* stream that its writer has not closed.
LEMMA NoClose ==
    ASSUME Types, NEW d \in Directions, Chain(d), result[d] = "none",
           carrier[d] = "open", ~wclosed[d]
    PROVE  /\ \A i \in 1..Len(wire[d]) : wire[d][i].type # "close"
           /\ SeqBefore(d, Len(wire[d]) + 1) = wseq[d]
           /\ BytesBefore(d, Len(wire[d]) + 1) = Len(sent[d])
<1>1. wire[d] \in Seq(FramesOf(d)) /\ Len(wire[d]) \in Nat BY DEF Types, Wires
<1>2. ASSUME NEW i \in 1..Len(wire[d]), wire[d][i].type = "close" PROVE FALSE
  <2>1. wire[d][i] \in FramesOf(d) BY <1>1
  <2>2. wire[d][i].code \in {"ok", "error"} BY <1>2, <2>1, FrameTypes
  <2>3. CloseOK(d, i) BY DEF Chain
  <2> QED BY <1>2, <2>2, <2>3 DEF CloseOK
<1>3. ~(Len(wire[d]) > 0 /\ wire[d][Len(wire[d])].type = "close")
  <2>1. Len(wire[d]) > 0 => Len(wire[d]) \in 1..Len(wire[d]) BY <1>1
  <2> QED BY <1>2, <2>1
<1> QED BY <1>2, <1>3 DEF Chain

\* A frame is written behind frames that are none of them a close.
LEMMA ChainAdded ==
    ASSUME Types, Wires', NEW d \in Directions, Chain(d), NEW f, Added(d, f),
           ReaderIdle(d),
           \A i \in 1..Len(wire[d]) : wire[d][i].type # "close",
           keys'[WriterOf(d)] = keys[WriterOf(d)] \/ AllHellos(d),
           Len(sent[d]) \in Nat, Len(sent'[d]) \in Nat, Len(sent[d]) <= Len(sent'[d]),
           f.type = "data" =>
               /\ f.seq = SeqBefore(d, Len(wire[d]) + 1) /\ f.seq < MaxSeq
               /\ f.key = keys'[WriterOf(d)][d] /\ Len(f.text) > 0
               /\ Numbered(f.text, BytesBefore(d, Len(wire[d]) + 1))
               /\ f.text[Len(f.text)] <= Len(sent'[d]),
           f.type = "close" =>
               /\ f.code = "ok" =>
                    wclosed'[d] /\ BytesBefore(d, Len(wire[d]) + 1) = Len(sent'[d])
               /\ f.code = "error" => carrier'[d] # "open",
           carrier'[d] = "open" =>
               \/ f.type = "close"
               \/ /\ f.type = "data" => wseq'[d] = f.seq + 1
                                        /\ Len(sent'[d]) = f.text[Len(f.text)]
                  /\ f.type # "data" => wseq'[d] = 0 /\ Len(sent'[d]) = 0
                  /\ ~wclosed'[d]
    PROVE  Chain(d)'
<1> SUFFICES ASSUME result'[d] = "none" PROVE Chain(d)'
  BY DEF Chain
<1>0. /\ result[d] = "none" /\ rseq'[d] = rseq[d] /\ got'[d] = got[d] /\ rbuf'[d] = rbuf[d]
  BY DEF ReaderIdle
<1>1. /\ Len(wire[d]) \in Nat /\ Len(wire'[d]) = Len(wire[d]) + 1
      /\ wire'[d][Len(wire[d]) + 1] = f
      /\ \A i \in 1..Len(wire[d]) : wire'[d][i] = wire[d][i]
  BY DEF Types, Wires, Added
<1>2. \A i \in 1..(Len(wire[d]) + 1) : i # 1 => i - 1 \in 1..Len(wire[d])
  BY <1>1
<1>3. \A i \in 1..(Len(wire[d]) + 1) :
        SeqBefore(d, i)' = SeqBefore(d, i) /\ BytesBefore(d, i)' = BytesBefore(d, i)
  BY <1>0, <1>1, <1>2 DEF SeqBefore, BytesBefore
<1>4. ASSUME NEW i \in 1..Len(wire[d]) PROVE DataOK(d, i)' /\ CloseOK(d, i)'
  <2>1. /\ i \in 1..(Len(wire[d]) + 1) /\ wire'[d][i] = wire[d][i] /\ wire[d][i] \in FramesOf(d)
        /\ wire[d][i].type # "close"
    BY <1>1 DEF Types, Wires
  <2>2. CloseOK(d, i)' BY <2>1 DEF CloseOK
  <2>3. CASE wire[d][i].type # "data" BY <2>1, <2>2, <2>3 DEF DataOK
  <2>4. CASE wire[d][i].type = "data"
    <3>1. DataOK(d, i) BY <1>0 DEF Chain
    <3>2. keys'[WriterOf(d)] = keys[WriterOf(d)] BY <2>4 DEF AllHellos
    <3>3. wire[d][i].text[Len(wire[d][i].text)] <= Len(sent'[d])
      <4>1. wire[d][i].text \in Seq(1..Source[d]) BY <2>1, <2>4, FrameTypes
      <4>2. wire[d][i].text[Len(wire[d][i].text)] \in 1..Source[d]
        BY <2>4, <3>1, <4>1, LastFacts DEF DataOK
      <4>3. wire[d][i].text[Len(wire[d][i].text)] \in Nat BY <4>2, Numbers
      <4> QED BY <2>4, <3>1, <4>3 DEF DataOK
    <3> QED BY <1>3, <2>1, <2>2, <2>4, <3>1, <3>2, <3>3 DEF DataOK, Numbered
  <2> QED BY <2>3, <2>4
<1>5. ASSUME NEW i, i = Len(wire[d]) + 1 PROVE DataOK(d, i)' /\ CloseOK(d, i)'
  <2>1. i \in 1..(Len(wire[d]) + 1) /\ wire'[d][i] = f BY <1>1, <1>5
  <2>2. SeqBefore(d, i)' = SeqBefore(d, i) /\ BytesBefore(d, i)' = BytesBefore(d, i)
    BY <1>3, <2>1
  <2>3. DataOK(d, i)' BY <1>5, <2>1, <2>2 DEF DataOK, Numbered
  <2>4. CloseOK(d, i)' BY <1>1, <1>5, <2>1, <2>2 DEF CloseOK
  <2> QED BY <2>3, <2>4
<1>6. \A i \in 1..Len(wire'[d]) : i \in 1..Len(wire[d]) \/ i = Len(wire[d]) + 1
  BY <1>1
<1>7. ASSUME carrier'[d] = "open"
      PROVE  \/ Len(wire'[d]) > 0 /\ wire'[d][Len(wire'[d])].type = "close"
             \/ /\ SeqBefore(d, Len(wire[d]) + 1)' = wseq'[d]
                /\ BytesBefore(d, Len(wire[d]) + 1)' = Len(sent'[d])
                /\ ~wclosed'[d]
  <2>1. /\ Len(wire'[d]) > 0 /\ Len(wire'[d]) + 1 # 1 /\ wire'[d][Len(wire'[d])] = f
        /\ (Len(wire'[d]) + 1) - 1 = Len(wire'[d])
    BY <1>1
  <2> QED BY <1>7, <2>1 DEF SeqBefore, BytesBefore
<1> QED BY <1>4, <1>5, <1>6, <1>7 DEF Chain

-----------------------------------------------------------------------------
(* The bytes. *)

\* Consecutive bytes stay consecutive when they are joined and split.
LEMMA NumberedConcat ==
    ASSUME NEW S, NEW s \in Seq(S), NEW t \in Seq(S), NEW n \in Nat,
           Numbered(s, n), Numbered(t, n + Len(s))
    PROVE  Numbered(s \o t, n)
<1>1. /\ Len(s) \in Nat /\ Len(t) \in Nat /\ Len(s \o t) = Len(s) + Len(t)
      /\ \A i \in 1..Len(s) : (s \o t)[i] = s[i]
      /\ \A i \in 1..Len(t) : (s \o t)[Len(s) + i] = t[i]
  BY ConcatFacts
<1>2. ASSUME NEW i \in 1..Len(s \o t) PROVE (s \o t)[i] = n + i
  <2>1. CASE i <= Len(s)
    <3>1. i \in 1..Len(s) BY <1>1, <2>1
    <3> QED BY <1>1, <3>1 DEF Numbered
  <2>2. CASE i > Len(s)
    <3> DEFINE j == i - Len(s)
    <3>1. j \in 1..Len(t) /\ Len(s) + j = i BY <1>1, <2>2
    <3>2. (s \o t)[Len(s) + j] = t[j] /\ t[j] = (n + Len(s)) + j
      <4> HIDE DEF j
      <4> QED BY <1>1, <3>1 DEF Numbered
    <3> QED BY <1>1, <3>1, <3>2
  <2>3. i <= Len(s) \/ i > Len(s) BY <1>1
  <2> QED BY <2>1, <2>2, <2>3
<1> QED BY <1>2 DEF Numbered

LEMMA NumberedSplit ==
    ASSUME NEW S, NEW s \in Seq(S), NEW n \in Nat, Numbered(s, n), NEW k \in 0..Len(s)
    PROVE  /\ Numbered(SubSeq(s, 1, k), n)
           /\ Numbered(SubSeq(s, k + 1, Len(s)), n + k)
<1>0. Len(s) \in Nat OBVIOUS
<1>1. /\ Len(SubSeq(s, 1, k)) = k /\ \A i \in 1..k : SubSeq(s, 1, k)[i] = s[i]
  BY FrontFacts
<1>2. /\ Len(SubSeq(s, k + 1, Len(s))) = Len(s) - k
      /\ \A i \in 1..(Len(s) - k) : SubSeq(s, k + 1, Len(s))[i] = s[k + i]
  BY RestFacts
<1>3. Numbered(SubSeq(s, 1, k), n)
  <2>1. \A i \in 1..k : i \in 1..Len(s) BY <1>0
  <2> QED BY <1>1, <2>1 DEF Numbered
<1>4. Numbered(SubSeq(s, k + 1, Len(s)), n + k)
  <2>1. \A i \in 1..(Len(s) - k) : k + i \in 1..Len(s) /\ n + (k + i) = (n + k) + i BY <1>0
  <2>2. \A i \in 1..(Len(s) - k) : SubSeq(s, k + 1, Len(s))[i] = (n + k) + i
    BY <1>2, <2>1 DEF Numbered
  <2> QED BY <1>2, <2>2 DEF Numbered
<1> QED BY <1>3, <1>4

\* Lengths.
LEMMA Lengths ==
    ASSUME Types, NEW d \in Directions
    PROVE  /\ sent[d] \in Seq(1..Source[d]) /\ Len(sent[d]) \in Nat
           /\ pend[d] \in Seq(1..Source[d]) /\ Len(pend[d]) \in Nat
           /\ got[d] \in Seq(1..Source[d]) /\ Len(got[d]) \in Nat
           /\ rbuf[d] \in Seq(1..Source[d]) /\ Len(rbuf[d]) \in Nat
<1>1. /\ sent[d] \in Seq(1..Source[d]) /\ pend[d] \in Seq(1..Source[d])
      /\ got[d] \in Seq(1..Source[d]) /\ rbuf[d] \in Seq(1..Source[d])
  BY DEF Types, WriterTypes, ReaderTypes
<1> QED BY <1>1

\* A step of neither end.
LEMMA ChainIdle ==
    ASSUME Types, Wires', NEW d \in Directions, Chain(d), Same(d) \/ Trimmed(d),
           WriterIdle(d), ReaderIdle(d),
           keys'[WriterOf(d)] = keys[WriterOf(d)] \/ AllHellos(d),
           carrier'[d] = "open" => carrier[d] = "open" /\ Same(d)
    PROVE  Chain(d)'
<1>1. /\ wseq'[d] = wseq[d] /\ wclosed'[d] = wclosed[d] /\ sent'[d] = sent[d]
      /\ rseq'[d] = rseq[d] /\ rbuf'[d] = rbuf[d] /\ got'[d] = got[d]
      /\ result'[d] = result[d]
  BY DEF WriterIdle, ReaderIdle
<1>2. Len(sent[d]) \in Nat /\ Len(sent'[d]) \in Nat /\ Len(sent[d]) <= Len(sent'[d])
  BY <1>1, Lengths
<1>3. Len(got'[d]) + Len(rbuf'[d]) = Len(got[d]) + Len(rbuf[d]) BY <1>1
<1> QED BY <1>1, <1>2, <1>3, ChainKept

\* Nothing has length 0.
LEMMA EmptyLength == Len(<<>>) = 0
  OBVIOUS

LEMMA FlowUntouched ==
    ASSUME Types, Types', NEW d \in Directions, Flow(d), Untouched(d), UNCHANGED setupVars
    PROVE  Flow(d)'
<1>1. /\ wire'[d] = wire[d] /\ carrier'[d] = carrier[d] /\ copier'[d] = copier[d]
      /\ pend'[d] = pend[d] /\ wseq'[d] = wseq[d] /\ wclosed'[d] = wclosed[d]
      /\ sent'[d] = sent[d] /\ rseq'[d] = rseq[d] /\ rbuf'[d] = rbuf[d]
      /\ got'[d] = got[d] /\ result'[d] = result[d] /\ hs' = hs /\ keys' = keys
  BY DEF Untouched, setupVars
<1>2. Ready(d)' BY <1>1 DEF Flow, Ready
<1>3. Bytes(d)' BY <1>1 DEF Flow, Bytes, Numbered
<1>4. Same(d) /\ WriterIdle(d) /\ ReaderIdle(d) BY <1>1 DEF Same, WriterIdle, ReaderIdle
<1>5. Chain(d)' BY <1>1, <1>4, ChainIdle DEF Flow, Types
<1> QED BY <1>2, <1>3, <1>5 DEF Flow

LEMMA FlowHandshake ==
    ASSUME Types, Agreement, Types', NEW d \in Directions, Flow(d), Handshake
    PROVE  Flow(d)'
<1>1. /\ UNCHANGED <<writerVars, readerVars, sealed>>
      /\ \A s \in Sides : hs[s] = "records" => hs'[s] = "records" /\ keys'[s] = keys[s]
      /\ keys'[WriterOf(d)] = keys[WriterOf(d)] \/ AllHellos(d)
      /\ carrier'[d] = carrier[d] \/ (carrier[d] = "open" /\ carrier'[d] = "fin")
      /\ HandshakeOn(d)
  BY StepHandshake
<1>2. WriterIdle(d) /\ ReaderIdle(d) /\ WriterOf(d) \in Sides /\ ReaderOf(d) \in Sides
  BY <1>1, Idle, Dirs
<1>3. Ready(d)' BY <1>1, <1>2 DEF Flow, Ready, WriterIdle, ReaderIdle
<1>4. Bytes(d)' BY <1>2 DEF Flow, Bytes, Numbered, WriterIdle, ReaderIdle
<1>5. Chain(d)'
  <2>1. CASE Same(d)
    BY <1>1, <1>2, <2>1, ChainIdle DEF Flow, Types
  <2>2. CASE Popped(d) /\ wire[d][1].type = "hello" /\ hs[ReaderOf(d)] # "records"
    <3>1. rseq'[d] = 0 /\ Len(got'[d]) = 0 /\ Len(rbuf'[d]) = 0 /\ result'[d] = result[d]
      BY <1>2, <2>2, EmptyLength DEF Flow, Ready, ReaderIdle
    <3>2. Len(got'[d]) + Len(rbuf'[d]) = 0 BY <3>1
    <3> QED BY <1>1, <1>2, <2>2, <3>1, <3>2, ChainPopped DEF Flow, Types
  <2>3. CASE \E f : /\ Added(d, f) /\ AllHellos(d) /\ hs[WriterOf(d)] # "records"
                    /\ f.type = "hello" \/ (f = CloseFrame("error") /\ carrier'[d] = "fin")
    <3>1. PICK f : /\ Added(d, f) /\ AllHellos(d) /\ hs[WriterOf(d)] # "records"
                   /\ f.type = "hello" \/ (f = CloseFrame("error") /\ carrier'[d] = "fin")
      BY <2>3
    <3>2. wseq'[d] = 0 /\ Len(sent'[d]) = 0 /\ sent'[d] = sent[d] /\ ~wclosed'[d]
      BY <1>2, <3>1, EmptyLength DEF Flow, Ready, WriterIdle
    <3>3. f.type # "data" /\ (f.type = "close" => f.code = "error" /\ carrier'[d] # "open")
      BY <3>1 DEF CloseFrame
    <3>4. \A i \in 1..Len(wire[d]) : wire[d][i].type # "close" BY <3>1 DEF AllHellos
    <3>5. Len(sent[d]) \in Nat /\ Len(sent'[d]) \in Nat /\ Len(sent[d]) <= Len(sent'[d])
      BY <3>2, Lengths
    <3> QED BY <1>1, <1>2, <3>1, <3>2, <3>3, <3>4, <3>5, ChainAdded DEF Flow, Types
  <2> QED BY <1>1, <2>1, <2>2, <2>3 DEF HandshakeOn
<1> QED BY <1>3, <1>4, <1>5 DEF Flow

LEMMA FlowBreak ==
    ASSUME Types, Agreement, Types', NEW d \in Directions, Flow(d), Cut(d) \/ Reset(d)
    PROVE  Flow(d)'
<1>1. /\ UNCHANGED setupVars /\ (Same(d) \/ Trimmed(d))
      /\ carrier'[d] # "open" /\ WriterIdle(d) /\ ReaderIdle(d)
  BY StepBreak
<1>2. Ready(d)' BY <1>1 DEF Flow, Ready, WriterIdle, ReaderIdle, setupVars
<1>3. Bytes(d)' BY <1>1 DEF Flow, Bytes, Numbered, WriterIdle, ReaderIdle
<1>4. Chain(d)' BY <1>1, ChainIdle DEF Flow, Types, setupVars
<1> QED BY <1>2, <1>3, <1>4 DEF Flow

LEMMA FlowCopyRead ==
    ASSUME Types, Agreement, Types', NEW d \in Directions, Flow(d), CopyRead(d)
    PROVE  Flow(d)'
<1>1. /\ UNCHANGED <<setupVars, sealed>>
      /\ \E n \in Nat : Len(pend'[d]) = n /\ \A i \in 1..n : pend'[d][i] = Len(sent[d]) + i
      /\ wire'[d] = wire[d] /\ carrier'[d] = carrier[d] /\ copier'[d] = copier[d]
      /\ wseq'[d] = wseq[d] /\ wclosed'[d] = wclosed[d] /\ sent'[d] = sent[d]
      /\ ReaderIdle(d)
  BY StepCopyRead
<1>2. hs[WriterOf(d)] = "records" /\ hs' = hs /\ keys' = keys
  BY <1>1 DEF CopyRead, Copying, setupVars
<1>3. Ready(d)' BY <1>1, <1>2 DEF Flow, Ready, ReaderIdle
<1>4. Bytes(d)' BY <1>1 DEF Flow, Bytes, Numbered, ReaderIdle
<1>5. Chain(d)'
  <2>1. /\ Same(d) /\ rseq'[d] = rseq[d] /\ result'[d] = result[d]
        /\ Len(got'[d]) + Len(rbuf'[d]) = Len(got[d]) + Len(rbuf[d])
    BY <1>1 DEF Same, ReaderIdle
  <2>2. Len(sent[d]) \in Nat /\ Len(sent'[d]) \in Nat /\ Len(sent[d]) <= Len(sent'[d])
    BY <1>1, Lengths
  <2> QED BY <1>1, <1>2, <2>1, <2>2, ChainKept DEF Flow, Types
<1> QED BY <1>3, <1>4, <1>5 DEF Flow

LEMMA FlowCopyStops ==
    ASSUME Types, Agreement, Types', NEW d \in Directions, Flow(d),
           WriteFails(d) \/ WriteExhausted(d) \/ CopyEnds(d)
    PROVE  Flow(d)'
<1>1. /\ UNCHANGED setupVars /\ Copying(d)
      /\ wire'[d] = wire[d] /\ carrier'[d] = carrier[d] /\ copier'[d] = "close"
      /\ wseq'[d] = wseq[d] /\ wclosed'[d] = wclosed[d] /\ sent'[d] = sent[d]
      /\ pend'[d] = <<>> /\ ReaderIdle(d)
  BY StepCopyStops
<1>2. hs[WriterOf(d)] = "records" /\ copier[d] = "copy" /\ hs' = hs /\ keys' = keys
  BY <1>1 DEF Copying, setupVars
<1>3. Ready(d)' BY <1>1, <1>2 DEF Flow, Ready, ReaderIdle
<1>4. Bytes(d)'
  <2>1. \A i \in 1..Len(pend'[d]) : FALSE BY <1>1, EmptyLength
  <2> QED BY <1>1, <2>1 DEF Flow, Bytes, Numbered, ReaderIdle
<1>5. Chain(d)'
  <2>1. /\ Same(d) /\ rseq'[d] = rseq[d] /\ result'[d] = result[d]
        /\ Len(got'[d]) + Len(rbuf'[d]) = Len(got[d]) + Len(rbuf[d])
    BY <1>1 DEF Same, ReaderIdle
  <2>2. Len(sent[d]) \in Nat /\ Len(sent'[d]) \in Nat /\ Len(sent[d]) <= Len(sent'[d])
    BY <1>1, Lengths
  <2> QED BY <1>1, <1>2, <2>1, <2>2, ChainKept DEF Flow, Types
<1> QED BY <1>3, <1>4, <1>5 DEF Flow

\* Only a side with keys closes a direction.
LEMMA ClosesLater ==
    ASSUME NEW d \in Directions, Ready(d), CloseWrite(d)
    PROVE  hs[WriterOf(d)] = "records"
  BY DEF Ready, CloseWrite

LEMMA FlowCloseWrite ==
    ASSUME Types, Agreement, Types', NEW d \in Directions, Flow(d), CloseWrite(d)
    PROVE  Flow(d)'
<1>0. hs[WriterOf(d)] = "records" BY ClosesLater DEF Flow
<1>1. /\ UNCHANGED <<setupVars, sealed>>
      /\ carrier[d] # "open" => Same(d)
      /\ carrier[d] = "open" => Added(d, CloseFrame("ok"))
      /\ carrier'[d] = carrier[d] /\ copier[d] = "close" /\ copier'[d] = "done"
      /\ wclosed'[d] = TRUE /\ wseq'[d] = wseq[d] /\ sent'[d] = sent[d]
      /\ pend'[d] = pend[d] /\ ReaderIdle(d)
  BY <1>0, StepCloseWrite
<1>2. hs' = hs /\ keys' = keys /\ ~wclosed[d]
  BY <1>1 DEF setupVars, Flow, Ready
<1>3. Ready(d)' BY <1>0, <1>1, <1>2 DEF Flow, Ready, ReaderIdle
<1>4. Bytes(d)' BY <1>1 DEF Flow, Bytes, Numbered, ReaderIdle
<1>5. Chain(d)'
  <2>1. /\ rseq'[d] = rseq[d] /\ result'[d] = result[d]
        /\ Len(got'[d]) + Len(rbuf'[d]) = Len(got[d]) + Len(rbuf[d])
    BY <1>1 DEF ReaderIdle
  <2>2. Len(sent[d]) \in Nat /\ Len(sent'[d]) \in Nat /\ Len(sent[d]) <= Len(sent'[d])
    BY <1>1, Lengths
  <2>3. CASE carrier[d] # "open"
    BY <1>1, <1>2, <2>1, <2>2, <2>3, ChainKept DEF Flow, Types
  <2>4. CASE carrier[d] = "open" /\ result[d] = "none"
    <3>1. /\ \A i \in 1..Len(wire[d]) : wire[d][i].type # "close"
          /\ BytesBefore(d, Len(wire[d]) + 1) = Len(sent'[d])
      BY <1>1, <1>2, <2>4, NoClose DEF Flow
    <3>2. CloseFrame("ok").type = "close" /\ CloseFrame("ok").code = "ok" BY DEF CloseFrame
    <3> QED BY <1>1, <1>2, <2>2, <2>4, <3>1, <3>2, ChainAdded DEF Flow, Types
  <2>5. CASE result[d] # "none" BY <2>1, <2>5 DEF Chain
  <2> QED BY <2>3, <2>4, <2>5
<1> QED BY <1>3, <1>4, <1>5 DEF Flow

LEMMA FlowWriteRecord ==
    ASSUME Types, Agreement, Types', NEW d \in Directions, Flow(d), WriteRecord(d)
    PROVE  Flow(d)'
<1>1. /\ UNCHANGED setupVars /\ Copying(d) /\ pend[d] # <<>>
      /\ carrier[d] # "open" => Same(d)
      /\ carrier[d] = "open" => Added(d, Record(d))
      /\ carrier'[d] = carrier[d] /\ copier'[d] = copier[d] /\ wclosed'[d] = wclosed[d]
      /\ wseq[d] < MaxSeq /\ wseq'[d] = wseq[d] + 1
      /\ sent'[d] = sent[d] \o Record(d).text
      /\ pend'[d] = SubSeq(pend[d], Len(Record(d).text) + 1, Len(pend[d]))
      /\ ReaderIdle(d)
  BY StepWriteRecord
<1>2. hs[WriterOf(d)] = "records" /\ copier[d] = "copy" /\ hs' = hs /\ keys' = keys
      /\ ~wclosed[d]
  BY <1>1 DEF Copying, setupVars, Flow, Ready
<1> DEFINE t == Record(d).text
           n == Len(t)
<1>3. /\ Record(d).type = "data" /\ Record(d).seq = wseq[d]
      /\ Record(d).key = keys[WriterOf(d)][d]
      /\ t \in Seq(1..Source[d]) /\ n \in 1..Len(pend[d]) /\ Len(pend[d]) \in Nat
      /\ \A i \in 1..n : t[i] = pend[d][i]
  BY <1>1, RecordFacts
<1> HIDE DEF t
<1>4. sent[d] \in Seq(1..Source[d]) /\ Len(sent[d]) \in Nat /\ pend[d] \in Seq(1..Source[d])
  BY Lengths
<1>5. Numbered(t, Len(sent[d])) /\ n \in Nat /\ n > 0 /\ t[n] = Len(sent[d]) + n
  <2>1. \A i \in 1..n : i \in 1..Len(pend[d]) BY <1>3
  <2>2. \A i \in 1..n : t[i] = Len(sent[d]) + i BY <1>3, <2>1 DEF Flow, Bytes, Numbered
  <2>3. n \in Nat /\ n > 0 /\ n \in 1..n BY <1>3
  <2> QED BY <2>2, <2>3 DEF Numbered
<1>6. sent'[d] = sent[d] \o t /\ Len(sent'[d]) = Len(sent[d]) + n
  <2>1. sent'[d] = sent[d] \o t BY <1>1 DEF t
  <2> QED BY <1>3, <1>4, <2>1, ConcatFacts
<1>7. Ready(d)' BY <1>1, <1>2 DEF Flow, Ready, ReaderIdle
<1>8. Bytes(d)'
  <2>1. Numbered(sent'[d], 0)
    <3>1. Numbered(sent[d], 0) /\ 0 + Len(sent[d]) = Len(sent[d]) BY <1>4 DEF Flow, Bytes
    <3> QED BY <1>3, <1>4, <1>5, <1>6, <3>1, NumberedConcat
  <2>2. Numbered(pend'[d], Len(sent'[d]))
    <3>1. n \in 0..Len(pend[d]) BY <1>3
    <3>2. Numbered(pend[d], Len(sent[d])) BY DEF Flow, Bytes
    <3>3. Numbered(SubSeq(pend[d], n + 1, Len(pend[d])), Len(sent[d]) + n)
      BY <1>4, <3>1, <3>2, NumberedSplit
    <3> QED BY <1>1, <1>6, <3>3 DEF t
  <2>3. /\ got'[d] = got[d] /\ rbuf'[d] = rbuf[d] /\ Len(got[d]) \in Nat /\ Len(rbuf[d]) \in Nat
    BY <1>1, Lengths DEF ReaderIdle
  <2>4. Len(got[d]) + Len(rbuf[d]) <= Len(sent'[d])
    <3>1. Len(got[d]) + Len(rbuf[d]) <= Len(sent[d]) BY DEF Flow, Bytes
    <3>2. \A a, b, c, m \in Nat : a + b <= c => a + b <= c + m OBVIOUS
    <3> QED BY <1>4, <1>5, <1>6, <2>3, <3>1, <3>2
  <2> QED BY <2>1, <2>2, <2>3, <2>4 DEF Flow, Bytes, Numbered
<1>9. Chain(d)'
  <2>1. /\ rseq'[d] = rseq[d] /\ result'[d] = result[d]
        /\ Len(got'[d]) + Len(rbuf'[d]) = Len(got[d]) + Len(rbuf[d])
    BY <1>1 DEF ReaderIdle
  <2>2. Len(sent[d]) \in Nat /\ Len(sent'[d]) \in Nat /\ Len(sent[d]) <= Len(sent'[d])
    BY <1>4, <1>5, <1>6
  <2>3. CASE carrier[d] # "open"
    BY <1>1, <1>2, <2>1, <2>2, <2>3, ChainKept DEF Flow, Types
  <2>4. CASE carrier[d] = "open" /\ result[d] = "none"
    <3>1. /\ \A i \in 1..Len(wire[d]) : wire[d][i].type # "close"
          /\ SeqBefore(d, Len(wire[d]) + 1) = wseq[d]
          /\ BytesBefore(d, Len(wire[d]) + 1) = Len(sent[d])
      BY <1>2, <2>4, NoClose DEF Flow
    <3>2. Record(d).text[Len(Record(d).text)] = Len(sent'[d])
          /\ Len(Record(d).text) > 0 /\ Numbered(Record(d).text, Len(sent[d]))
          /\ Record(d).text[Len(Record(d).text)] <= Len(sent'[d])
      BY <1>5, <1>6, <2>2 DEF t
    <3>3. Record(d).seq < MaxSeq /\ wseq'[d] = Record(d).seq + 1 BY <1>1, <1>3
    <3> QED BY <1>1, <1>2, <1>3, <2>2, <2>4, <3>1, <3>2, <3>3, ChainAdded DEF Flow, Types
  <2>5. CASE result[d] # "none" BY <2>1, <2>5 DEF Chain
  <2> QED BY <2>3, <2>4, <2>5
<1> QED BY <1>7, <1>8, <1>9 DEF Flow

LEMMA FlowReadBuffered ==
    ASSUME Types, Agreement, Types', NEW d \in Directions, Flow(d), ReadBuffered(d)
    PROVE  Flow(d)'
<1>1. /\ UNCHANGED <<setupVars, sealed>> /\ Reading(d)
      /\ wire'[d] = wire[d] /\ carrier'[d] = carrier[d] /\ WriterIdle(d)
      /\ rseq'[d] = rseq[d] /\ result'[d] = result[d]
      /\ \E n \in 0..Len(rbuf[d]) :
           /\ got'[d] = got[d] \o SubSeq(rbuf[d], 1, n)
           /\ rbuf'[d] = SubSeq(rbuf[d], n + 1, Len(rbuf[d]))
  BY StepReadBuffered
<1>2. PICK n \in 0..Len(rbuf[d]) :
        /\ got'[d] = got[d] \o SubSeq(rbuf[d], 1, n)
        /\ rbuf'[d] = SubSeq(rbuf[d], n + 1, Len(rbuf[d]))
  BY <1>1
<1>3. hs[ReaderOf(d)] = "records" /\ hs' = hs /\ keys' = keys
  BY <1>1 DEF Reading, setupVars
<1>4. /\ got[d] \in Seq(1..Source[d]) /\ Len(got[d]) \in Nat
      /\ rbuf[d] \in Seq(1..Source[d]) /\ Len(rbuf[d]) \in Nat
  BY Lengths
<1> DEFINE s == SubSeq(rbuf[d], 1, n)
           r == SubSeq(rbuf[d], n + 1, Len(rbuf[d]))
<1>5. /\ s \in Seq(1..Source[d]) /\ Len(s) = n
      /\ Len(r) = Len(rbuf[d]) - n
  BY <1>4, FrontFacts, RestFacts
<1>6. Numbered(s, Len(got[d])) /\ Numbered(r, Len(got[d]) + n)
  <2>1. Numbered(rbuf[d], Len(got[d])) BY DEF Flow, Bytes
  <2> QED BY <1>4, <2>1, NumberedSplit
<1>7. got'[d] = got[d] \o s /\ rbuf'[d] = r BY <1>2
<1> HIDE DEF s, r
<1>8. Len(got'[d]) = Len(got[d]) + n BY <1>4, <1>5, <1>7, ConcatFacts
<1>9. Numbered(got'[d], 0)
  <2>1. Numbered(got[d], 0) /\ 0 + Len(got[d]) = Len(got[d]) BY <1>4 DEF Flow, Bytes
  <2> QED BY <1>4, <1>5, <1>6, <1>7, <2>1, NumberedConcat
<1>10. Numbered(rbuf'[d], Len(got'[d])) BY <1>6, <1>7, <1>8
<1>11. Len(got'[d]) + Len(rbuf'[d]) = Len(got[d]) + Len(rbuf[d])
  <2>1. \A a, b \in Nat : \A m \in 0..b : (a + m) + (b - m) = a + b OBVIOUS
  <2> QED BY <1>4, <1>5, <1>7, <1>8, <2>1
<1>12. Ready(d)' BY <1>1, <1>3 DEF Flow, Ready, WriterIdle
<1>13. Bytes(d)' BY <1>1, <1>9, <1>10, <1>11 DEF Flow, Bytes, Numbered, WriterIdle
<1>14. Chain(d)'
  <2>1. Same(d) BY <1>1 DEF Same
  <2>2. Len(sent[d]) \in Nat /\ Len(sent'[d]) \in Nat /\ Len(sent[d]) <= Len(sent'[d])
        /\ sent'[d] = sent[d] /\ wseq'[d] = wseq[d] /\ wclosed'[d] = wclosed[d]
    BY <1>1, Lengths DEF WriterIdle
  <2> QED BY <1>1, <1>3, <1>11, <2>1, <2>2, ChainKept DEF Flow, Types
<1> QED BY <1>12, <1>13, <1>14 DEF Flow

LEMMA FlowReadData ==
    ASSUME Types, Agreement, Types', NEW d \in Directions, Flow(d), ReadData(d)
    PROVE  Flow(d)'
<1>1. /\ UNCHANGED <<setupVars, sealed>> /\ Reading(d)
      /\ Popped(d) /\ carrier'[d] = carrier[d] /\ WriterIdle(d)
      /\ wire[d][1].type = "data" /\ Opens(d, wire[d][1])
      /\ rseq'[d] = rseq[d] + 1 /\ result'[d] = result[d] /\ got'[d] = got[d]
      /\ rbuf[d] = <<>> /\ rbuf'[d] = wire[d][1].text
  BY StepReadData
<1>2. hs[ReaderOf(d)] = "records" /\ result[d] = "none" /\ hs' = hs /\ keys' = keys
  BY <1>1 DEF Reading, setupVars
<1> DEFINE t == wire[d][1].text
<1>3. 1 \in 1..Len(wire[d]) /\ wire[d][1] \in FramesOf(d)
  <2>1. wire[d] \in Seq(FramesOf(d)) /\ Len(wire[d]) \in Nat /\ Len(wire[d]) > 0
    BY <1>1 DEF Types, Wires, Popped
  <2>2. 1 \in 1..Len(wire[d]) BY <2>1
  <2> QED BY <2>1, <2>2
<1>4. DataOK(d, 1) BY <1>2, <1>3 DEF Flow, Chain
<1>5. /\ wire[d][1].seq = rseq[d] /\ Len(t) > 0
      /\ Numbered(t, Len(got[d]) + Len(rbuf[d])) /\ t[Len(t)] <= Len(sent[d])
  BY <1>1, <1>4 DEF DataOK, SeqBefore, BytesBefore
<1>6. t \in Seq(1..Source[d]) BY <1>1, <1>3, FrameTypes
<1>7. rbuf'[d] = t BY <1>1
<1> HIDE DEF t
<1>8. Len(t) \in Nat /\ Len(t) \in 1..Len(t) BY <1>5, <1>6, LastFacts
<1>9. Len(got[d]) \in Nat /\ Len(got[d]) + Len(rbuf[d]) = Len(got[d])
  BY <1>1, Lengths, EmptyLength
<1>10. Numbered(t, Len(got[d])) /\ t[Len(t)] = Len(got[d]) + Len(t)
  BY <1>5, <1>8, <1>9 DEF Numbered
<1>11. Len(got'[d]) + Len(rbuf'[d]) = t[Len(t)] BY <1>1, <1>7, <1>10
<1>12. Ready(d)' BY <1>1, <1>2 DEF Flow, Ready, WriterIdle
<1>13. Bytes(d)' BY <1>1, <1>5, <1>7, <1>10, <1>11 DEF Flow, Bytes, Numbered, WriterIdle
<1>14. Chain(d)'
  <2>1. /\ rseq'[d] = wire[d][1].seq + 1
        /\ Len(got'[d]) + Len(rbuf'[d]) = wire[d][1].text[Len(wire[d][1].text)]
    BY <1>1, <1>5, <1>11 DEF t
  <2> QED BY <1>1, <1>2, <2>1, ChainPopped DEF Flow, Types
<1> QED BY <1>12, <1>13, <1>14 DEF Flow

LEMMA FlowReadEnds ==
    ASSUME Types, Agreement, Types', NEW d \in Directions, Flow(d), ReadEnds(d)
    PROVE  Flow(d)'
<1>1. /\ UNCHANGED <<setupVars, sealed>> /\ Reading(d) /\ WriterIdle(d)
      /\ rseq'[d] = rseq[d] /\ rbuf'[d] = rbuf[d] /\ got'[d] = got[d]
      /\ result'[d] # "none"
  BY StepReadEnds
<1>2. hs[ReaderOf(d)] = "records" /\ hs' = hs BY <1>1 DEF Reading, setupVars
<1>3. Ready(d)' BY <1>1, <1>2 DEF Flow, Ready, WriterIdle
<1>4. Bytes(d)' BY <1>1 DEF Flow, Bytes, Numbered, WriterIdle
<1>5. Chain(d)' BY <1>1 DEF Chain
<1> QED BY <1>3, <1>4, <1>5 DEF Flow

-----------------------------------------------------------------------------
(* Nonces. *)

\* The keys of the directions of a session are different.
LEMMA KeyOfDirection ==
    ASSUME Types, Agreement, NEW d \in Directions, hs[WriterOf(d)] = "records"
    PROVE  keys[WriterOf(d)][d].dir = d
<1>1. keys[WriterOf(d)] = SessionKeys BY Dirs DEF Agreement, Handshaken
<1> QED BY <1>1 DEF SessionKeys, DeriveTrafficKeys

\* A sealed record belongs to a direction.
LEMMA SealedTypes ==
    ASSUME Types
    PROVE  \A r \in sealed : r.dir \in Directions /\ r.seq \in Nat
<1>1. \A r \in sealed : r \in DataFrames("up") \/ r \in DataFrames("down")
  BY DEF Types, WriterTypes
<1> QED BY <1>1, Dirs DEF DataFrames

\* No record is sealed.
LEMMA NoncesKept ==
    ASSUME Types, Nonces, UNCHANGED sealed,
           \A s \in Sides : hs[s] = "records" => hs'[s] = "records" /\ keys'[s] = keys[s],
           \A d \in Directions :
               /\ wseq'[d] = wseq[d]
               /\ copier[d] # "copy" => copier'[d] # "copy"
    PROVE  Nonces'
<1>1. \A r \in sealed : r.dir \in Directions /\ WriterOf(r.dir) \in Sides
  BY SealedTypes, Dirs
<1>2. Sealed' BY <1>1 DEF Nonces, Sealed
<1>3. NonceUsedOnce' BY DEF Nonces, NonceUsedOnce
<1> QED BY <1>2, <1>3 DEF Nonces

\* The next record of a direction is sealed: its number is used up, or the
\* copier stops for good.
LEMMA NoncesRecord ==
    ASSUME Types, Agreement, Nonces, NEW d \in Directions, Copying(d), pend[d] # <<>>,
           sealed' = sealed \cup {Record(d)}, UNCHANGED setupVars,
           \A e \in Directions : e # d => Untouched(e),
           \/ wseq'[d] = wseq[d] + 1
           \/ wseq'[d] = wseq[d] /\ copier'[d] # "copy"
    PROVE  Nonces'
<1>1. /\ Record(d).seq = wseq[d] /\ Record(d).dir = d
      /\ Record(d).key = keys[WriterOf(d)][d]
  BY RecordFacts
<1>2. hs[WriterOf(d)] = "records" /\ copier[d] = "copy" /\ hs' = hs /\ keys' = keys
  BY DEF Copying, setupVars
<1>3. wseq[d] \in Nat BY Numbers DEF Types, WriterTypes
<1>4. \A r \in sealed : r.dir \in Directions /\ r.seq \in Nat BY SealedTypes
<1>5. \A r \in sealed : r.dir = d => r.seq < wseq[d]
  BY <1>2 DEF Nonces, Sealed
<1>6. \A r \in sealed : r.dir # d => wseq'[r.dir] = wseq[r.dir] /\ copier'[r.dir] = copier[r.dir]
  BY <1>4 DEF Untouched
<1>7. ASSUME NEW r \in sealed
      PROVE  /\ hs'[WriterOf(r.dir)] = "records" /\ r.key = keys'[WriterOf(r.dir)][r.dir]
             /\ r.seq < wseq'[r.dir] \/ (r.seq = wseq'[r.dir] /\ copier'[r.dir] # "copy")
  <2>1. CASE r.dir = d
    <3>1. r.seq < wseq'[d] BY <1>3, <1>4, <1>5, <2>1
    <3> QED BY <1>2, <2>1, <3>1 DEF Nonces, Sealed
  <2>2. CASE r.dir # d BY <1>2, <1>6, <2>2 DEF Nonces, Sealed
  <2> QED BY <2>1, <2>2
<1>8. /\ hs'[WriterOf(d)] = "records" /\ Record(d).key = keys'[WriterOf(d)][d]
      /\ Record(d).seq < wseq'[d] \/ (Record(d).seq = wseq'[d] /\ copier'[d] # "copy")
  BY <1>1, <1>2, <1>3
<1>9. Sealed' BY <1>1, <1>7, <1>8 DEF Sealed
<1>10. \A r \in sealed : ~(r.key = Record(d).key /\ r.seq = Record(d).seq)
  <2>1. SUFFICES ASSUME NEW r \in sealed, r.key = Record(d).key, r.seq = Record(d).seq
                 PROVE  FALSE
    OBVIOUS
  <2>2. r.dir \in Directions /\ hs[WriterOf(r.dir)] = "records"
        /\ r.key = keys[WriterOf(r.dir)][r.dir]
    BY <1>4 DEF Nonces, Sealed
  <2>3. r.key.dir = r.dir BY <2>2, KeyOfDirection
  <2>4. Record(d).key.dir = d BY <1>1, <1>2, KeyOfDirection
  <2>5. r.dir = d BY <2>1, <2>3, <2>4
  <2> QED BY <1>1, <1>3, <1>4, <1>5, <2>1, <2>5
<1>11. NonceUsedOnce' BY <1>10 DEF Nonces, NonceUsedOnce
<1> QED BY <1>9, <1>11 DEF Nonces

-----------------------------------------------------------------------------
(* The invariant is inductive. *)

LEMMA InitInv == Init => IInv
<1> SUFFICES ASSUME Init PROVE IInv OBVIOUS
<1> USE Dirs
<1>1. SetupTypes BY Numbers DEF Init, SetupTypes, Ephemerals
<1>2. CarrierType BY DEF Init, CarrierType
<1>3. Wires
  <2>1. \A d \in Directions : <<>> \in Seq(FramesOf(d)) OBVIOUS
  <2> QED BY <2>1 DEF Init, Wires, PerDirection
<1>4. WriterTypes /\ ReaderTypes
  <2>1. \A d \in Directions : <<>> \in Seq(1..Source[d]) OBVIOUS
  <2>2. 0 \in 0..MaxSeq BY Numbers
  <2>3. WriterTypes BY <2>1, <2>2 DEF Init, WriterTypes, PerDirection
  <2>4. ReaderTypes BY <2>1, <2>2 DEF Init, ReaderTypes, PerDirection
  <2> QED BY <2>3, <2>4
<1>5. Types BY <1>1, <1>2, <1>3, <1>4 DEF Types
<1>6. Handshaken BY DEF Init, Handshaken
<1>7. \A d \in Directions : wire[d] = <<>> /\ sent[d] = <<>> /\ pend[d] = <<>>
        /\ got[d] = <<>> /\ rbuf[d] = <<>> /\ rseq[d] = 0 /\ wseq[d] = 0
        /\ copier[d] = "copy" /\ wclosed[d] = FALSE /\ result[d] = "none"
  BY DEF Init
<1>8. \A d \in Directions : Len(wire[d]) = 0 /\ Len(sent[d]) = 0 /\ Len(pend[d]) = 0
        /\ Len(got[d]) = 0 /\ Len(rbuf[d]) = 0
  BY <1>7, EmptyLength
<1>9. \A i \in 1..0 : FALSE OBVIOUS
<1>10. HellosUp /\ HellosDown BY <1>8, <1>9 DEF HellosUp, HellosDown
<1>11. ASSUME NEW d \in Directions PROVE Flow(d)
  <2>1. Ready(d) BY <1>7 DEF Ready
  <2>0. Len(wire[d]) + 1 = 1 /\ Len(got[d]) + Len(rbuf[d]) = 0 /\ 0 <= Len(sent[d])
    <3>1. 0 + 1 = 1 /\ 0 + 0 = 0 /\ 0 <= 0 OBVIOUS
    <3> QED BY <1>8, <3>1
  <2>2. Bytes(d) BY <1>8, <1>9, <2>0 DEF Bytes, Numbered
  <2>3. SeqBefore(d, Len(wire[d]) + 1) = 0 /\ BytesBefore(d, Len(wire[d]) + 1) = 0
    BY <1>7, <2>0 DEF SeqBefore, BytesBefore
  <2>4. Chain(d) BY <1>7, <1>8, <1>9, <2>3 DEF Chain
  <2> QED BY <2>1, <2>2, <2>4 DEF Flow
<1>12. Nonces BY DEF Init, Nonces, Sealed, NonceUsedOnce
<1> QED BY <1>5, <1>6, <1>10, <1>11, <1>12 DEF IInv, Agreement

\* A step in one direction leaves the other as it is.
LEMMA OtherDirection ==
    ASSUME IInv, Types', NEW d \in Directions, Flow(d)', UNCHANGED setupVars,
           \A e \in Directions : e # d => Untouched(e)
    PROVE  \A e \in Directions : Flow(e)'
<1>1. ASSUME NEW e \in Directions, e # d PROVE Flow(e)'
  BY <1>1, FlowUntouched DEF IInv
<1> QED BY <1>1

LEMMA NextInv == IInv /\ [Next]_vars => IInv'
<1> SUFFICES ASSUME IInv, [Next]_vars PROVE IInv' OBVIOUS
<1>0. Types /\ Agreement /\ Nonces /\ \A d \in Directions : Flow(d) BY DEF IInv
<1>1. CASE Handshake
  <2>1. Types' /\ Agreement' BY <1>0, <1>1, AgreeHandshake
  <2>2. \A d \in Directions : Flow(d)' BY <1>0, <1>1, <2>1, FlowHandshake
  <2>3. /\ UNCHANGED sealed /\ \A d \in Directions : WriterIdle(d)
        /\ \A s \in Sides : hs[s] = "records" => hs'[s] = "records" /\ keys'[s] = keys[s]
    BY <1>0, <1>1, StepHandshake, Idle, Dirs
  <2>4. Nonces' BY <1>0, <2>3, NoncesKept DEF WriterIdle
  <2> QED BY <2>1, <2>2, <2>4 DEF IInv
<1>2. ASSUME NEW d \in Directions, CopyRead(d) PROVE IInv'
  <2>1. /\ Types' /\ Agreement' /\ UNCHANGED <<setupVars, sealed>>
        /\ \A e \in Directions : e # d => Untouched(e)
        /\ wseq'[d] = wseq[d] /\ copier'[d] = copier[d]
    BY <1>0, <1>2, StepCopyRead
  <2>2. Flow(d)' BY <1>0, <1>2, <2>1, FlowCopyRead
  <2>3. \A e \in Directions : Flow(e)' BY <2>1, <2>2, OtherDirection
  <2>4. Nonces' BY <1>0, <2>1, NoncesKept DEF Untouched, setupVars
  <2> QED BY <2>1, <2>3, <2>4 DEF IInv
<1>3. ASSUME NEW d \in Directions, WriteRecord(d) PROVE IInv'
  <2>1. /\ Types' /\ Agreement' /\ UNCHANGED setupVars
        /\ \A e \in Directions : e # d => Untouched(e)
        /\ Copying(d) /\ pend[d] # <<>> /\ sealed' = sealed \cup {Record(d)}
        /\ wseq'[d] = wseq[d] + 1
    BY <1>0, <1>3, StepWriteRecord
  <2>2. Flow(d)' BY <1>0, <1>3, <2>1, FlowWriteRecord
  <2>3. \A e \in Directions : Flow(e)' BY <2>1, <2>2, OtherDirection
  <2>4. Nonces' BY <1>0, <2>1, NoncesRecord
  <2> QED BY <2>1, <2>3, <2>4 DEF IInv
<1>4. ASSUME NEW d \in Directions, WriteFails(d) \/ WriteExhausted(d) \/ CopyEnds(d) PROVE IInv'
  <2>1. /\ Types' /\ Agreement' /\ UNCHANGED setupVars /\ Copying(d)
        /\ \/ sealed' = sealed
           \/ pend[d] # <<>> /\ sealed' = sealed \cup {Record(d)}
        /\ \A e \in Directions : e # d => Untouched(e)
        /\ copier'[d] = "close" /\ wseq'[d] = wseq[d]
    BY <1>0, <1>4, StepCopyStops
  <2>2. Flow(d)' BY <1>0, <1>4, <2>1, FlowCopyStops
  <2>3. \A e \in Directions : Flow(e)' BY <2>1, <2>2, OtherDirection
  <2>4. Nonces'
    <3>1. CASE sealed' = sealed BY <1>0, <2>1, <3>1, NoncesKept DEF Untouched, setupVars
    <3>2. CASE pend[d] # <<>> /\ sealed' = sealed \cup {Record(d)}
      BY <1>0, <2>1, <3>2, NoncesRecord
    <3> QED BY <2>1, <3>1, <3>2
  <2> QED BY <2>1, <2>3, <2>4 DEF IInv
<1>5. ASSUME NEW d \in Directions, CloseWrite(d) PROVE IInv'
  <2>0. hs[WriterOf(d)] = "records" BY <1>0, <1>5, ClosesLater DEF Flow
  <2>1. /\ Types' /\ Agreement' /\ UNCHANGED <<setupVars, sealed>>
        /\ \A e \in Directions : e # d => Untouched(e)
        /\ wseq'[d] = wseq[d] /\ copier'[d] = "done"
    BY <1>0, <1>5, <2>0, StepCloseWrite
  <2>2. Flow(d)' BY <1>0, <1>5, <2>1, FlowCloseWrite
  <2>3. \A e \in Directions : Flow(e)' BY <2>1, <2>2, OtherDirection
  <2>4. Nonces' BY <1>0, <2>1, NoncesKept DEF Untouched, setupVars
  <2> QED BY <2>1, <2>3, <2>4 DEF IInv
<1>6. ASSUME NEW d \in Directions, Read(d) PROVE IInv'
  <2>1. /\ Types' /\ Agreement' /\ UNCHANGED <<setupVars, sealed>>
        /\ \A e \in Directions : e # d => Untouched(e)
        /\ WriterIdle(d)
    BY <1>0, <1>6, StepReadBuffered, StepReadData, StepReadEnds DEF Read
  <2>2. Flow(d)' BY <1>0, <1>6, <2>1, FlowReadBuffered, FlowReadData, FlowReadEnds DEF Read
  <2>3. \A e \in Directions : Flow(e)' BY <2>1, <2>2, OtherDirection
  <2>4. Nonces' BY <1>0, <2>1, NoncesKept DEF Untouched, WriterIdle, setupVars
  <2> QED BY <2>1, <2>3, <2>4 DEF IInv
<1>7. ASSUME NEW d \in Directions, Cut(d) \/ Reset(d) PROVE IInv'
  <2>1. /\ Types' /\ Agreement' /\ UNCHANGED <<setupVars, sealed>>
        /\ \A e \in Directions : e # d => Untouched(e)
        /\ WriterIdle(d)
    BY <1>0, <1>7, StepBreak
  <2>2. Flow(d)' BY <1>0, <1>7, <2>1, FlowBreak
  <2>3. \A e \in Directions : Flow(e)' BY <2>1, <2>2, OtherDirection
  <2>4. Nonces' BY <1>0, <2>1, NoncesKept DEF Untouched, WriterIdle, setupVars
  <2> QED BY <2>1, <2>3, <2>4 DEF IInv
<1>8. CASE UNCHANGED vars
  <2>1. UNCHANGED <<setupVars, wire, carrier, writerVars, readerVars, sealed>>
    BY <1>8 DEF vars, setupVars, writerVars, readerVars
  <2>2. Wires' /\ \A e \in Directions : Same(e) BY <1>0, <2>1, NoEffect DEF Types
  <2>3. SetupTypes' /\ Agreement' BY <1>0, <2>1, <2>2, AgreeRecords DEF Fewer
  <2>4. Types' BY <1>0, <2>1, <2>2, <2>3, HandshakeFrame, CarrierFrame
  <2>5. \A e \in Directions : Untouched(e) BY <2>1, <2>2, Idle DEF Same
  <2>6. \A e \in Directions : Flow(e)' BY <1>0, <2>1, <2>4, <2>5, FlowUntouched
  <2>7. Nonces' BY <1>0, <2>1, <2>5, NoncesKept DEF Untouched, setupVars
  <2> QED BY <2>3, <2>4, <2>6, <2>7 DEF IInv
<1> QED
  BY <1>1, <1>2, <1>3, <1>4, <1>5, <1>6, <1>7, <1>8 DEF Next, Write, Terminated

LEMMA Invariant == Spec => []IInv
<1> QED BY InitInv, NextInv, PTL DEF Spec

-----------------------------------------------------------------------------
(* Each direction is a Pipe. *)

\* Extends, Next and vars of Pipe, read for direction d.
Continues(s, t) == Len(s) <= Len(t) /\ SubSeq(t, 1, Len(s)) = s

PipeWrite(d) ==
    /\ ~wclosed[d] /\ Continues(sent[d], sent'[d])
    /\ wclosed'[d] = wclosed[d] /\ got'[d] = got[d] /\ result'[d] = result[d]
    /\ Link(d)' = Link(d)
PipeClose(d) ==
    /\ wclosed'[d] = TRUE
    /\ sent'[d] = sent[d] /\ got'[d] = got[d] /\ result'[d] = result[d] /\ Link(d)' = Link(d)
PipeRead(d) ==
    /\ result[d] = "none" /\ Continues(got[d], got'[d]) /\ Continues(got'[d], sent[d])
    /\ sent'[d] = sent[d] /\ wclosed'[d] = wclosed[d] /\ result'[d] = result[d]
    /\ Link(d)' = Link(d)
PipeEOF(d) ==
    /\ result[d] = "none" /\ ((wclosed[d] /\ got[d] = sent[d]) \/ Link(d) = "cut")
    /\ result'[d] = "eof"
    /\ sent'[d] = sent[d] /\ wclosed'[d] = wclosed[d] /\ got'[d] = got[d] /\ Link(d)' = Link(d)
PipeFail(d) ==
    /\ result[d] = "none" /\ Link(d) # "whole" /\ result'[d] = "error"
    /\ sent'[d] = sent[d] /\ wclosed'[d] = wclosed[d] /\ got'[d] = got[d] /\ Link(d)' = Link(d)
PipeBreak(d) ==
    /\ Link(d)' \in {"cut", "lost"}
    /\ sent'[d] = sent[d] /\ wclosed'[d] = wclosed[d] /\ got'[d] = got[d]
    /\ result'[d] = result[d]
PipeStutter(d) ==
    /\ sent'[d] = sent[d] /\ wclosed'[d] = wclosed[d] /\ got'[d] = got[d]
    /\ result'[d] = result[d] /\ Link(d)' = Link(d)
PipeStep(d) ==
    \/ PipeWrite(d) \/ PipeClose(d) \/ PipeRead(d) \/ PipeEOF(d) \/ PipeFail(d)
    \/ PipeBreak(d) \/ PipeStutter(d)

\* Bytes that start at the first one and are no more than were sent are a
\* prefix of what was sent.
LEMMA NumberedPrefix ==
    ASSUME NEW S, NEW s \in Seq(S), NEW t \in Seq(S), Numbered(s, 0), Numbered(t, 0),
           Len(s) <= Len(t)
    PROVE  Continues(s, t) /\ (Len(s) = Len(t) => s = t)
<1>1. Len(s) \in Nat /\ Len(t) \in Nat OBVIOUS
<1>2. Len(s) \in 0..Len(t) BY <1>1
<1>3. /\ SubSeq(t, 1, Len(s)) \in Seq(S) /\ Len(SubSeq(t, 1, Len(s))) = Len(s)
      /\ \A i \in 1..Len(s) : SubSeq(t, 1, Len(s))[i] = t[i]
  BY <1>2, FrontFacts
<1>4. \A i \in 1..Len(s) : i \in 1..Len(t) BY <1>1
<1>5. \A i \in 1..Len(s) : s[i] = t[i] BY <1>4 DEF Numbered
<1>6. SubSeq(t, 1, Len(s)) = s BY <1>3, <1>5, SeqEqual
<1>7. Len(s) = Len(t) => s = t BY <1>5, SeqEqual
<1> QED BY <1>6, <1>7 DEF Continues

\* Reader and writer of a frame under way have the same keys.
LEMMA RecordsOpen ==
    ASSUME IInv, NEW d \in Directions, Reading(d), rbuf[d] = <<>>,
           Len(wire[d]) > 0, wire[d][1] \in FramesOf(d)
    PROVE  /\ wire[d][1].type # "hello"
           /\ wire[d][1].type = "data" => Opens(d, wire[d][1])
           /\ wire[d][1].type = "close" =>
                /\ wire[d][1].code = "ok" => wclosed[d] /\ got[d] = sent[d]
                /\ wire[d][1].code = "error" => carrier[d] # "open"
<1>1. hs[ReaderOf(d)] = "records" /\ result[d] = "none" BY DEF Reading
<1>2. Types /\ Agreement /\ Flow(d) BY DEF IInv
<1>3. 1 \in 1..Len(wire[d])
  <2>1. Len(wire[d]) \in Nat BY <1>2 DEF Types, Wires
  <2> QED BY <2>1
<1>4. DataOK(d, 1) /\ CloseOK(d, 1) BY <1>1, <1>2, <1>3 DEF Flow, Chain
<1>5. wire[d][1].type # "hello"
  BY <1>1, <1>2, <1>3, Dirs DEF Agreement, HellosUp, HellosDown
<1>6. ASSUME wire[d][1].type = "data" PROVE Opens(d, wire[d][1])
  <2>1. /\ wire[d][1].seq = rseq[d] /\ wire[d][1].seq < MaxSeq
        /\ wire[d][1].key = keys[WriterOf(d)][d] /\ Len(wire[d][1].text) > 0
        /\ wire[d][1].text[Len(wire[d][1].text)] <= Len(sent[d])
    BY <1>4, <1>6 DEF DataOK, SeqBefore
  <2>2. hs[WriterOf(d)] = "records"
    <3>1. wire[d][1].text \in Seq(1..Source[d]) BY <1>6, FrameTypes
    <3>2. wire[d][1].text[Len(wire[d][1].text)] \in 1..Source[d] BY <2>1, <3>1, LastFacts
    <3>3. Len(sent[d]) # 0 BY <2>1, <3>2, Numbers
    <3> QED BY <1>2, <3>3, EmptyLength DEF Flow, Ready
  <2>3. keys[WriterOf(d)] = keys[ReaderOf(d)]
    BY <1>1, <1>2, <2>2, Dirs DEF Agreement, Handshaken
  <2>4. rseq[d] # MaxSeq
    <3>1. rseq[d] \in Nat BY <1>2, Numbers DEF Types, ReaderTypes
    <3> QED BY <2>1, <3>1, Numbers
  <2> QED BY <2>1, <2>3, <2>4 DEF Opens
<1>7. ASSUME wire[d][1].type = "close", wire[d][1].code = "ok"
      PROVE  wclosed[d] /\ got[d] = sent[d]
  <2>1. wclosed[d] /\ Len(got[d]) + Len(rbuf[d]) = Len(sent[d])
    BY <1>4, <1>7 DEF CloseOK, BytesBefore
  <2>2. /\ got[d] \in Seq(1..Source[d]) /\ sent[d] \in Seq(1..Source[d])
        /\ Len(got[d]) \in Nat /\ Len(sent[d]) \in Nat
    BY <1>2, Lengths
  <2>3. Len(got[d]) = Len(sent[d]) /\ Len(got[d]) <= Len(sent[d])
    BY <2>1, <2>2, EmptyLength
  <2>4. Numbered(got[d], 0) /\ Numbered(sent[d], 0) BY <1>2 DEF Flow, Bytes
  <2> QED BY <2>1, <2>2, <2>3, <2>4, NumberedPrefix
<1>8. wire[d][1].type = "close" /\ wire[d][1].code = "error" => carrier[d] # "open"
  BY <1>4 DEF CloseOK
<1> QED BY <1>5, <1>6, <1>7, <1>8

\* The stream below, as Pipe sees it.
LEMMA Links ==
    ASSUME Types, Types', NEW d \in Directions
    PROVE  /\ Link(d) = "whole" <=> carrier[d] = "open"
           /\ Link(d) = "cut" <=> carrier[d] = "fin"
           /\ Link(d)' \in {"cut", "lost"} <=> carrier'[d] # "open"
           /\ carrier'[d] = carrier[d] => Link(d)' = Link(d)
<1>1. carrier[d] \in {"open", "fin", "torn", "reset"}
      /\ carrier'[d] \in {"open", "fin", "torn", "reset"}
  BY DEF Types, CarrierType
<1>2. Link(d) = CASE carrier[d] = "open" -> "whole" [] carrier[d] = "fin" -> "cut"
                  [] OTHER -> "lost"
  BY DEF Link
<1>3. Link(d)' = CASE carrier'[d] = "open" -> "whole" [] carrier'[d] = "fin" -> "cut"
                   [] OTHER -> "lost"
  BY DEF Link
<1> QED BY <1>1, <1>2, <1>3

\* A step of one direction is none of the other's pipe.
LEMMA UntouchedStutters ==
    ASSUME Types, Types', NEW d \in Directions, Untouched(d)
    PROVE  PipeStep(d)
  BY Links DEF Untouched, PipeStep, PipeStutter

LEMMA Sums == \A a, b, c \in Nat : a <= a + b /\ (a + b <= c => a <= c)
  OBVIOUS

\* Every step is a step of each direction's pipe.
LEMMA PipeSteps ==
    ASSUME IInv, IInv', [Next]_vars, NEW d \in Directions
    PROVE  PipeStep(d)
<1>0. Types /\ Agreement /\ Flow(d) /\ Types' BY DEF IInv
<1>l. /\ Link(d) = "whole" <=> carrier[d] = "open"
      /\ Link(d) = "cut" <=> carrier[d] = "fin"
      /\ Link(d)' \in {"cut", "lost"} <=> carrier'[d] # "open"
      /\ carrier'[d] = carrier[d] => Link(d)' = Link(d)
  BY <1>0, Links
<1>n. /\ sent[d] \in Seq(1..Source[d]) /\ Len(sent[d]) \in Nat /\ Numbered(sent[d], 0)
      /\ got[d] \in Seq(1..Source[d]) /\ Len(got[d]) \in Nat /\ Numbered(got[d], 0)
  BY <1>0, Lengths DEF Flow, Bytes
<1>p. /\ sent'[d] \in Seq(1..Source[d]) /\ Len(sent'[d]) \in Nat /\ Numbered(sent'[d], 0)
      /\ got'[d] \in Seq(1..Source[d]) /\ Len(got'[d]) \in Nat /\ Numbered(got'[d], 0)
      /\ Len(got'[d]) <= Len(sent'[d])
  <2>1. /\ sent'[d] \in Seq(1..Source[d]) /\ got'[d] \in Seq(1..Source[d])
        /\ rbuf'[d] \in Seq(1..Source[d])
    BY <1>0 DEF Types, WriterTypes, ReaderTypes
  <2>2. Len(sent'[d]) \in Nat /\ Len(got'[d]) \in Nat /\ Len(rbuf'[d]) \in Nat BY <2>1
  <2>3. Len(got'[d]) + Len(rbuf'[d]) <= Len(sent'[d]) BY DEF IInv, Flow, Bytes
  <2>4. Len(got'[d]) <= Len(sent'[d]) BY <2>2, <2>3, Sums
  <2>5. Numbered(sent'[d], 0) /\ Numbered(got'[d], 0) BY DEF IInv, Flow, Bytes, Numbered
  <2> QED BY <2>1, <2>2, <2>4, <2>5
<1>1. CASE Handshake
  <2>1. /\ WriterIdle(d) /\ ReaderIdle(d)
        /\ carrier'[d] = carrier[d] \/ carrier'[d] = "fin"
    BY <1>0, <1>1, StepHandshake, Idle
  <2> QED BY <1>l, <2>1 DEF WriterIdle, ReaderIdle, PipeStep, PipeStutter, PipeBreak
<1>2. CASE CopyRead(d)
  BY <1>0, <1>2, <1>l, StepCopyRead DEF PipeStep, PipeStutter, ReaderIdle
<1>3. CASE WriteRecord(d)
  <2>1. /\ sent'[d] = sent[d] \o Record(d).text /\ ReaderIdle(d) /\ Copying(d)
        /\ wclosed'[d] = wclosed[d] /\ carrier'[d] = carrier[d] /\ pend[d] # <<>>
    BY <1>0, <1>3, StepWriteRecord
  <2>2. Len(sent[d]) <= Len(sent'[d])
    <3>1. Record(d).text \in Seq(1..Source[d]) BY <1>0, <2>1, RecordFacts
    <3>2. Len(sent'[d]) = Len(sent[d]) + Len(Record(d).text) /\ Len(Record(d).text) \in Nat
      BY <1>n, <2>1, <3>1, ConcatFacts
    <3> QED BY <1>n, <3>2, Sums
  <2>3. Continues(sent[d], sent'[d]) BY <1>n, <1>p, <2>2, NumberedPrefix
  <2>4. ~wclosed[d] BY <1>0, <2>1 DEF Flow, Ready, Copying
  <2> QED BY <1>l, <2>1, <2>3, <2>4 DEF ReaderIdle, PipeStep, PipeWrite
<1>4. CASE WriteFails(d) \/ WriteExhausted(d) \/ CopyEnds(d)
  BY <1>0, <1>4, <1>l, StepCopyStops DEF PipeStep, PipeStutter, ReaderIdle
<1>5. CASE CloseWrite(d)
  <2>1. hs[WriterOf(d)] = "records" BY <1>0, <1>5, ClosesLater DEF Flow
  <2> QED BY <1>0, <1>5, <1>l, <2>1, StepCloseWrite DEF PipeStep, PipeClose, ReaderIdle
<1>6. CASE ReadBuffered(d)
  <2>1. /\ Reading(d) /\ carrier'[d] = carrier[d] /\ WriterIdle(d) /\ result'[d] = result[d]
        /\ \E n \in 0..Len(rbuf[d]) : got'[d] = got[d] \o SubSeq(rbuf[d], 1, n)
    BY <1>0, <1>6, StepReadBuffered
  <2>2. Len(got[d]) <= Len(got'[d])
    <3>1. PICK n \in 0..Len(rbuf[d]) : got'[d] = got[d] \o SubSeq(rbuf[d], 1, n) BY <2>1
    <3>2. SubSeq(rbuf[d], 1, n) \in Seq(1..Source[d]) BY <1>0, Lengths, FrontFacts
    <3>3. Len(got'[d]) = Len(got[d]) + Len(SubSeq(rbuf[d], 1, n))
          /\ Len(SubSeq(rbuf[d], 1, n)) \in Nat
      BY <1>n, <3>1, <3>2, ConcatFacts
    <3> QED BY <1>n, <3>3, Sums
  <2>3. sent'[d] = sent[d] /\ wclosed'[d] = wclosed[d] /\ result[d] = "none"
    BY <2>1 DEF WriterIdle, Reading
  <2>4. Continues(got[d], got'[d]) BY <1>n, <1>p, <2>2, NumberedPrefix
  <2>5. Continues(got'[d], sent[d]) BY <1>n, <1>p, <2>3, NumberedPrefix
  <2> QED BY <1>l, <2>1, <2>3, <2>4, <2>5 DEF PipeStep, PipeRead
<1>7. CASE ReadData(d)
  BY <1>0, <1>7, <1>l, StepReadData DEF PipeStep, PipeStutter, WriterIdle
<1>8. CASE ReadEnds(d)
  <2>1. /\ Reading(d) /\ carrier'[d] = carrier[d] /\ WriterIdle(d) /\ rbuf[d] = <<>>
        /\ got'[d] = got[d]
        /\ \/ /\ Popped(d) /\ wire[d][1] \in FramesOf(d)
              /\ ~(wire[d][1].type = "data" /\ Opens(d, wire[d][1]))
              /\ result'[d] = IF wire[d][1].type = "close" /\ wire[d][1].code = "ok"
                              THEN "eof" ELSE "error"
           \/ result'[d] = "eof" /\ carrier[d] = "fin"
           \/ result'[d] = "error" /\ carrier[d] \in {"torn", "reset"}
    BY <1>0, <1>8, StepReadEnds
  <2>2. sent'[d] = sent[d] /\ wclosed'[d] = wclosed[d] /\ result[d] = "none"
        /\ Link(d)' = Link(d)
    BY <1>l, <2>1 DEF WriterIdle, Reading
  <2>3. CASE /\ Popped(d) /\ wire[d][1] \in FramesOf(d)
             /\ ~(wire[d][1].type = "data" /\ Opens(d, wire[d][1]))
             /\ result'[d] = IF wire[d][1].type = "close" /\ wire[d][1].code = "ok"
                             THEN "eof" ELSE "error"
    <3>1. Len(wire[d]) > 0 BY <2>3 DEF Popped
    <3>2. /\ wire[d][1].type # "hello"
          /\ wire[d][1].type = "data" => Opens(d, wire[d][1])
          /\ wire[d][1].type = "close" =>
               /\ wire[d][1].code = "ok" => wclosed[d] /\ got[d] = sent[d]
               /\ wire[d][1].code = "error" => carrier[d] # "open"
      BY <2>1, <2>3, <3>1, RecordsOpen
    <3>3. wire[d][1].type = "close" /\ wire[d][1].code \in {"ok", "error"}
      BY <2>3, <3>2, FrameTypes
    <3>4. CASE wire[d][1].code = "ok"
      BY <2>1, <2>2, <2>3, <3>2, <3>3, <3>4 DEF PipeStep, PipeEOF
    <3>5. CASE wire[d][1].code = "error"
      BY <1>l, <2>1, <2>2, <2>3, <3>2, <3>3, <3>5 DEF PipeStep, PipeFail
    <3> QED BY <3>3, <3>4, <3>5
  <2>4. CASE result'[d] = "eof" /\ carrier[d] = "fin"
    BY <1>l, <2>1, <2>2, <2>4 DEF PipeStep, PipeEOF
  <2>5. CASE result'[d] = "error" /\ carrier[d] \in {"torn", "reset"}
    BY <1>l, <2>1, <2>2, <2>5 DEF PipeStep, PipeFail
  <2> QED BY <2>1, <2>3, <2>4, <2>5
<1>9. CASE Cut(d) \/ Reset(d)
  <2>1. WriterIdle(d) /\ ReaderIdle(d) /\ carrier'[d] # "open" BY <1>0, <1>9, StepBreak
  <2> QED BY <1>l, <2>1 DEF WriterIdle, ReaderIdle, PipeStep, PipeBreak
<1>10. CASE \E e \in Directions : e # d /\ (Write(e) \/ Read(e) \/ Cut(e) \/ Reset(e))
  <2>1. PICK e \in Directions : e # d /\ (Write(e) \/ Read(e) \/ Cut(e) \/ Reset(e))
    BY <1>10
  <2>2. Flow(e) BY DEF IInv
  <2>4. Untouched(d)
    <3>1. CASE CopyRead(e) BY <1>0, <2>1, <3>1, StepCopyRead
    <3>2. CASE WriteRecord(e) BY <1>0, <2>1, <3>2, StepWriteRecord
    <3>3. CASE WriteFails(e) \/ WriteExhausted(e) \/ CopyEnds(e)
      BY <1>0, <2>1, <3>3, StepCopyStops
    <3>4. CASE CloseWrite(e)
      <4>1. hs[WriterOf(e)] = "records" BY <2>2, <3>4, ClosesLater DEF Flow
      <4> QED BY <1>0, <2>1, <3>4, <4>1, StepCloseWrite
    <3>5. CASE ReadBuffered(e) BY <1>0, <2>1, <3>5, StepReadBuffered
    <3>6. CASE ReadData(e) BY <1>0, <2>1, <3>6, StepReadData
    <3>7. CASE ReadEnds(e) BY <1>0, <2>1, <3>7, StepReadEnds
    <3>8. CASE Cut(e) \/ Reset(e) BY <1>0, <2>1, <3>8, StepBreak
    <3> QED BY <2>1, <3>1, <3>2, <3>3, <3>4, <3>5, <3>6, <3>7, <3>8 DEF Write, Read
  <2> QED BY <1>0, <2>4, UntouchedStutters
<1>11. CASE UNCHANGED vars
  <2>1. Untouched(d) BY <1>11 DEF vars, Untouched
  <2> QED BY <1>0, <2>1, UntouchedStutters
<1> QED
  BY <1>1, <1>2, <1>3, <1>4, <1>5, <1>6, <1>7, <1>8, <1>9, <1>10, <1>11
  DEF Next, Write, Read, Terminated

LEMMA UpStep == IInv /\ IInv' /\ [Next]_vars => [Up!Next]_(Up!vars)
<1>1. IInv /\ IInv' /\ [Next]_vars => PipeStep("up") BY PipeSteps, Dirs
<1>2. PipeStep("up") => [Up!Next]_(Up!vars)
  BY DEF PipeStep, PipeWrite, PipeClose, PipeRead, PipeEOF, PipeFail, PipeBreak, PipeStutter,
         Continues, Up!Next, Up!Write, Up!Close, Up!Read, Up!EOF, Up!Fail, Up!Break,
         Up!Extends, Up!vars
<1> QED BY <1>1, <1>2

LEMMA DownStep == IInv /\ IInv' /\ [Next]_vars => [Down!Next]_(Down!vars)
<1>1. IInv /\ IInv' /\ [Next]_vars => PipeStep("down") BY PipeSteps, Dirs
<1>2. PipeStep("down") => [Down!Next]_(Down!vars)
  BY DEF PipeStep, PipeWrite, PipeClose, PipeRead, PipeEOF, PipeFail, PipeBreak, PipeStutter,
         Continues, Down!Next, Down!Write, Down!Close, Down!Read, Down!EOF, Down!Fail,
         Down!Break, Down!Extends, Down!vars
<1> QED BY <1>1, <1>2

LEMMA PipeInit == Init => Up!Init /\ Down!Init
  BY Dirs DEF Init, Up!Init, Down!Init, Link

-----------------------------------------------------------------------------
(* Theorems. *)

\* Every variable keeps its type: in particular sequence numbers stay within
\* their width and a side has keys just when its handshake is done.
THEOREM TypeCorrect == Spec => []TypeOK
<1>1. IInv => TypeOK BY TypesImply DEF IInv
<1> QED BY <1>1, Invariant, PTL

\* EncryptedWriter never uses a nonce for two plaintexts under one key.
THEOREM NonceOnce == Spec => []NonceUsedOnce
<1>1. IInv => NonceUsedOnce BY DEF IInv, Nonces
<1> QED BY <1>1, Invariant, PTL

\* A side that goes on to records and its peer agree on request and keys.
THEOREM Agreed == Spec => []SessionAgreed
<1>1. IInv => SessionAgreed
  <2> SUFFICES ASSUME IInv, NEW side \in Sides, hs[side] = "records"
               PROVE  /\ ctx["client"] = ctx["server"]
                      /\ cert[IF side = "client" THEN "server" ELSE "client"]
                      /\ keys["server"] \in {NoKey, keys["client"]}
    BY DEF SessionAgreed
  <2>1. hs["client"] = "records" BY Dirs DEF IInv, Agreement, Handshaken
  <2>2. keys["server"] # NoKey => hs["server"] = "records"
    BY Dirs DEF IInv, Types, SetupTypes
  <2> QED BY <2>1, <2>2, Dirs DEF IInv, Agreement, Handshaken
<1> QED BY <1>1, Invariant, PTL

\* Each direction implements Pipe: the reader gets a prefix of what the writer
\* wrote, in order and nothing twice; it is told EOF only behind the last byte of
\* a closed direction or where the stream below ended, and an error only if that
\* stream broke.
THEOREM Carries == Spec => CarriesPipes
<1>1. Spec => Up!Spec
  BY Invariant, PipeInit, UpStep, PTL DEF Spec, Up!Spec
<1>2. Spec => Down!Spec
  BY Invariant, PipeInit, DownStep, PTL DEF Spec, Down!Spec
<1> QED BY <1>1, <1>2 DEF CarriesPipes
=============================================================================
