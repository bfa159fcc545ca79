------------------------------- MODULE Frames -------------------------------
(***************************************************************************)
(* The wire format (protocol/protocol.go) with its true widths and limits. *)
(* A payload is a sequence of fields, each a number of some width or the   *)
(* bytes of a string; of a string only its identity and length count.      *)
(***************************************************************************)
EXTENDS Naturals, Sequences

CONSTANTS
    StrLen  \* the strings, by their lengths in bytes

ByteStrings == DOMAIN StrLen

ASSUME StrLenAssumption ==
    /\ StrLen \in [ByteStrings -> Nat] /\ "" \in ByteStrings
    /\ \A s \in ByteStrings : StrLen[s] = 0 <=> s = ""

MaxPayloadSize == 64 * 1024 - 1
MaxProtocolLength == 32
MaxTargetLength == 4096
MaxE2ECertChainCount == 8
MaxE2ECertLength == 16 * 1024
MaxE2EEphemeralKeyLength == 4096
MaxE2ESignatureLength == 8192
MaxE2ENonceSuffixLength == 24
MaxE2ECiphertextLength == MaxPayloadSize - 1 - MaxE2ENonceSuffixLength - 2
MaxE2ECloseMessageLength == MaxPayloadSize - 4
ConnectCodeOK == 0
ConnectCodeInternalError == 8
Valid(code) == code <= ConnectCodeInternalError

-----------------------------------------------------------------------------
(* Fields. *)

\* A number is stored in its width, whatever its value.
Num(width, n) == [kind |-> "num", width |-> width, val |-> n % 256^width]
Bytes(s) == [kind |-> "bytes", width |-> StrLen[s], val |-> s]

\* The sums of the widths between two places, by halves: routes have up to
\* 255 hops.
Sizes(p) ==
    LET size[r \in (1..Len(p)) \X (1..Len(p))] ==
            LET mid == (r[1] + r[2]) \div 2
            IN  IF r[1] = r[2] THEN p[r[1]].width
                ELSE size[<<r[1], mid>>] + size[<<mid + 1, r[2]>>]
    IN  size
PayloadSize(p) == IF p = <<>> THEN 0 ELSE Sizes(p)[<<1, Len(p)>>]

\* A length and what it counts.
Prefixed(width, s) == <<Num(width, StrLen[s]), Bytes(s)>>
PrefixedAll(strings) ==
    [i \in 1..(2 * Len(strings)) |-> Prefixed(2, strings[(i + 1) \div 2])[2 - (i % 2)]]

IsNum(p, i, width) == i <= Len(p) /\ p[i].kind = "num" /\ p[i].width = width

\* A length within its limits at place i of p, and that many bytes behind it.
HasString(p, i, width, min, max) ==
    /\ IsNum(p, i, width) /\ p[i].val \in min..max
    /\ i < Len(p) /\ p[i + 1].kind = "bytes" /\ p[i + 1].width = p[i].val

HasStrings(p, i, n, max) == \A k \in 1..n : HasString(p, i + 2 * (k - 1), 2, 1, max)
Strings(p, i, n) == [k \in 1..n |-> p[i + 2 * k - 1].val]

Within(s, min, max) == StrLen[s] \in min..max
AllWithin(strings, max) == \A i \in DOMAIN strings : Within(strings[i], 1, max)

Malformed == [type |-> "malformed"]

-----------------------------------------------------------------------------
(* ConnectRequest. *)

\* Broken variant of encodedRouteLengthOK: the count is not limited.
encodedRouteUncounted(route) == AllWithin(route, MaxTargetLength)

encodedRouteLengthOK(route) == Len(route) <= 255 /\ AllWithin(route, MaxTargetLength)

writeRoute(route) == <<Num(1, Len(route))>> \o PrefixedAll(route)

CanWriteRequest(m) ==
    /\ Within(m.id, 16, 16) /\ Within(m.protocol, 1, MaxProtocolLength)
    /\ Within(m.service, 1, MaxTargetLength) /\ Within(m.egress, 0, MaxTargetLength)
    /\ encodedRouteLengthOK(m.route) /\ encodedRouteLengthOK(m.e2eRoute)

\* The part a peer without E2E writes.
LegacyRequest(m) ==
    <<Bytes(m.id)>> \o Prefixed(1, m.protocol) \o Prefixed(2, m.service)
        \o Prefixed(2, m.egress) \o writeRoute(m.route)

EncodeRequest(m) ==
    LegacyRequest(m) \o <<Num(1, IF m.e2eRequired THEN 1 ELSE 0)>> \o writeRoute(m.e2eRoute)

\* The place behind the route, where the E2E fields begin, and the length of
\* the E2E route.
E2EPlace(p) == 9 + 2 * p[8].val
E2ECount(p) == IF E2EPlace(p) < Len(p) THEN p[E2EPlace(p) + 1].val ELSE 0

\* The E2E flag and route may be missing; nothing may follow them.
E2EFieldsOK(p) ==
    /\ E2EPlace(p) <= Len(p) => IsNum(p, E2EPlace(p), 1) /\ p[E2EPlace(p)].val \in {0, 1}
    /\ E2EPlace(p) < Len(p) =>
         /\ IsNum(p, E2EPlace(p) + 1, 1)
         /\ HasStrings(p, E2EPlace(p) + 2, E2ECount(p), MaxTargetLength)
    /\ Len(p) \in {E2EPlace(p) - 1, E2EPlace(p), E2EPlace(p) + 1 + 2 * E2ECount(p)}

ReadConnectRequest(p) ==
    IF /\ p # <<>> /\ p[1].width = 16
       /\ HasString(p, 2, 1, 1, MaxProtocolLength)
       /\ HasString(p, 4, 2, 1, MaxTargetLength)
       /\ HasString(p, 6, 2, 0, MaxTargetLength)
       /\ IsNum(p, 8, 1) /\ HasStrings(p, 9, p[8].val, MaxTargetLength)
       /\ E2EFieldsOK(p)
    THEN [type |-> "ConnectRequest", id |-> p[1].val, protocol |-> p[3].val,
          service |-> p[5].val, egress |-> p[7].val, route |-> Strings(p, 9, p[8].val),
          e2eRequired |-> E2EPlace(p) <= Len(p) /\ p[E2EPlace(p)].val = 1,
          e2eRoute |-> Strings(p, E2EPlace(p) + 2, E2ECount(p))]
    ELSE Malformed

-----------------------------------------------------------------------------
(* The other messages. *)

\* What WriteConnectResponse makes of status and code.
Normal(m) ==
    IF m.type # "ConnectResponse" THEN m
    ELSE [m EXCEPT !.code = CASE m.ok -> ConnectCodeOK
                              [] ~m.ok /\ m.code = ConnectCodeOK -> ConnectCodeInternalError
                              [] OTHER -> m.code]

\* Status or close code, connect code, message.
StatusPayload(status, code, message) ==
    <<Num(1, status), Num(1, code)>> \o Prefixed(2, message)
HasStatus(p) ==
    /\ IsNum(p, 1, 1) /\ IsNum(p, 2, 1) /\ Valid(p[2].val)
    /\ Len(p) = 4 /\ HasString(p, 3, 2, 0, MaxE2ECloseMessageLength)

EncodeResponse(m) == StatusPayload(IF m.ok THEN 0 ELSE 1, Normal(m).code, m.message)

ReadConnectResponse(p) ==
    IF HasStatus(p) /\ p[1].val \in {0, 1} /\ (p[1].val = 0 <=> p[2].val = ConnectCodeOK)
    THEN [type |-> "ConnectResponse", ok |-> p[1].val = 0, code |-> p[2].val,
          message |-> p[4].val]
    ELSE Malformed

DecodeE2EClosePayload(p) ==
    IF HasStatus(p)
    THEN [type |-> "E2EClose", code |-> p[1].val, connectCode |-> p[2].val,
          message |-> p[4].val]
    ELSE Malformed

CanWriteHello(m) ==
    /\ Len(m.chain) \in 1..MaxE2ECertChainCount /\ AllWithin(m.chain, MaxE2ECertLength)
    /\ Within(m.key, 1, MaxE2EEphemeralKeyLength)
    /\ Within(m.signature, 1, MaxE2ESignatureLength)

marshalE2EHello(m) ==
    <<Num(1, Len(m.chain))>> \o PrefixedAll(m.chain) \o Prefixed(2, m.key)
        \o Prefixed(2, m.signature)

unmarshalE2EHello(type, p) ==
    LET n == p[1].val
        key == 2 + 2 * n
    IN  IF /\ IsNum(p, 1, 1) /\ n \in 1..MaxE2ECertChainCount
           /\ HasStrings(p, 2, n, MaxE2ECertLength)
           /\ HasString(p, key, 2, 1, MaxE2EEphemeralKeyLength)
           /\ HasString(p, key + 2, 2, 1, MaxE2ESignatureLength)
           /\ Len(p) = key + 3
        THEN [type |-> type, chain |-> Strings(p, 2, n), key |-> p[key + 1].val,
              signature |-> p[key + 3].val]
        ELSE Malformed

CanWriteData(m) ==
    /\ Within(m.nonce, 1, MaxE2ENonceSuffixLength)
    /\ Within(m.ciphertext, 1, MaxE2ECiphertextLength)

DecodeE2EDataPayload(p) ==
    IF /\ Len(p) = 4 /\ HasString(p, 1, 1, 1, MaxE2ENonceSuffixLength)
       /\ HasString(p, 3, 2, 1, MaxE2ECiphertextLength)
    THEN [type |-> "E2EData", nonce |-> p[2].val, ciphertext |-> p[4].val]
    ELSE Malformed

ReadE2EClientFinished(p) ==
    IF Len(p) = 2 /\ HasString(p, 1, 2, 1, MaxE2ESignatureLength)
    THEN [type |-> "E2EClientFinished", signature |-> p[2].val]
    ELSE Malformed

-----------------------------------------------------------------------------
(* Messages. *)

ConnectRequests ==
    [type : {"ConnectRequest"}, id : ByteStrings, protocol : ByteStrings,
     service : ByteStrings, egress : ByteStrings, route : Seq(ByteStrings),
     e2eRequired : BOOLEAN, e2eRoute : Seq(ByteStrings)]
ConnectResponses ==
    [type : {"ConnectResponse"}, ok : BOOLEAN, code : ConnectCodeOK..ConnectCodeInternalError,
     message : ByteStrings]
E2EHellos ==
    [type : {"E2EClientHello", "E2EServerHello"}, chain : Seq(ByteStrings),
     key : ByteStrings, signature : ByteStrings]
E2EData == [type : {"E2EData"}, nonce : ByteStrings, ciphertext : ByteStrings]
E2ECloses ==
    [type : {"E2EClose"}, code : 0..255, connectCode : 0..255, message : ByteStrings]
E2EClientFinished == [type : {"E2EClientFinished"}, signature : ByteStrings]

MessageTypes ==
    ConnectRequests \cup ConnectResponses \cup E2EHellos \cup E2EData \cup E2ECloses
        \cup E2EClientFinished

-----------------------------------------------------------------------------
(* Frames. *)

\* The checks of each Write function on its fields.
CanWrite(m) ==
    CASE m.type = "ConnectRequest" -> CanWriteRequest(m)
      [] m.type = "ConnectResponse" -> Within(m.message, 0, MaxPayloadSize - 4)
      [] m.type \in {"E2EClientHello", "E2EServerHello"} -> CanWriteHello(m)
      [] m.type = "E2EData" -> CanWriteData(m)
      [] m.type = "E2EClose" ->
           Valid(m.connectCode) /\ Within(m.message, 0, MaxE2ECloseMessageLength)
      [] m.type = "E2EClientFinished" -> Within(m.signature, 1, MaxE2ESignatureLength)

Payload(m) ==
    CASE m.type = "ConnectRequest" -> EncodeRequest(m)
      [] m.type = "ConnectResponse" -> EncodeResponse(m)
      [] m.type \in {"E2EClientHello", "E2EServerHello"} -> marshalE2EHello(m)
      [] m.type = "E2EData" -> Prefixed(1, m.nonce) \o Prefixed(2, m.ciphertext)
      [] m.type = "E2EClose" -> StatusPayload(m.code, m.connectCode, m.message)
      [] m.type = "E2EClientFinished" -> Prefixed(2, m.signature)

Frame(type, p) == [type |-> type, length |-> Num(2, PayloadSize(p)), payload |-> p]

\* Whether the message is written: its fields and its frame are within limits.
WriteFrameOK(m) == CanWrite(m) /\ PayloadSize(Payload(m)) <= MaxPayloadSize

\* The header's length has to be that of the payload, or the next header is
\* read from the wrong place.
ReadFrame(f) ==
    IF f.length.val # PayloadSize(f.payload) THEN Malformed
    ELSE CASE f.type = "ConnectRequest" -> ReadConnectRequest(f.payload)
           [] f.type = "ConnectResponse" -> ReadConnectResponse(f.payload)
           [] f.type \in {"E2EClientHello", "E2EServerHello"} ->
                unmarshalE2EHello(f.type, f.payload)
           [] f.type = "E2EData" -> DecodeE2EDataPayload(f.payload)
           [] f.type = "E2EClose" -> DecodeE2EClosePayload(f.payload)
           [] f.type = "E2EClientFinished" -> ReadE2EClientFinished(f.payload)
=============================================================================
