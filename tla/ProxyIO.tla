------------------------------- MODULE ProxyIO -------------------------------
(***************************************************************************)
(* proxyio.Proxy: two goroutines copy between endpoints a and b, an error  *)
(* of either aborts both endpoints once, and Proxy closes both when both   *)
(* goroutines have reported. An endpoint is a TCP connection, a QUIC       *)
(* stream or a QUIC stream under the encrypted records of internal/e2e.    *)
(* The far end of an endpoint sends, ends, resets and stops reading as it  *)
(* likes; payload is counted in chunks.                                    *)
(***************************************************************************)
EXTENDS Naturals, Sequences

CONSTANTS
    Pairs,     \* kinds of (a, b): "tcp", "quic" or "e2e"
    MaxChunks  \* bound: chunks a far end sends

ASSUME ProxyAssumption ==
    /\ Pairs \subseteq {"tcp", "quic", "e2e"} \X {"tcp", "quic", "e2e"}
    /\ MaxChunks \in Nat

VARIABLES
    kind,       \* the kind of each endpoint
    sent, tail, \* far end: chunks sent, and how its sending ended
    stopped,    \* far ends that no longer read
    rd, wr,     \* near end: the receive half, and what the far end was told
    taken,      \* chunks io.Copy has read from an endpoint
    delivered,  \* of those, chunks written to the other endpoint
    pc, err,    \* proxyOneWay reading from an endpoint: its place, its error
    once,       \* abortOnce
    done,       \* the errors received on channel done
    main, ret   \* Proxy: its place, its result

farVars == <<kind, sent, tail, stopped>>
halfVars == <<rd, wr>>
copyVars == <<taken, delivered, pc, err>>
mainVars == <<main, ret>>
vars == <<kind, sent, tail, stopped, rd, wr, taken, delivered, pc, err, once,
          done, main, ret>>

Ends == {"a", "b"}
Other(x) == IF x = "a" THEN "b" ELSE "a"

Init ==
    /\ \E p \in Pairs : kind = [x \in Ends |-> IF x = "a" THEN p[1] ELSE p[2]]
    /\ sent = [x \in Ends |-> 0] /\ tail = [x \in Ends |-> "open"]
    /\ stopped = {}
    /\ rd = [x \in Ends |-> "open"] /\ wr = [x \in Ends |-> "open"]
    /\ taken = [x \in Ends |-> 0] /\ delivered = [x \in Ends |-> 0]
    /\ pc = [x \in Ends |-> "read"] /\ err = [x \in Ends |-> "nil"]
    /\ once = "none" /\ done = <<>>
    /\ main = "wait" /\ ret = "none"

-----------------------------------------------------------------------------
(* The operations of an Endpoint. *)

\* What ends the receive direction as io.EOF: FIN, and for the encrypted
\* reader an E2EClose with code OK too.
CleanTails(k) == IF k = "e2e" THEN {"fin", "close"} ELSE {"fin"}

\* The encrypted writer ends with an E2EClose frame and no FIN.
CloseWriteMark(k) == IF k = "e2e" THEN "close" ELSE "fin"

\* Closing a TCP connection with unread data resets it. Cancelling a QUIC
\* stream may overtake what was sent before.
AbortMarks(x) ==
    IF kind[x] = "tcp"
    THEN {IF wr[x] = "open" THEN "fin" ELSE wr[x]}
         \cup {m \in {"reset"} : taken[x] < sent[x]}
    ELSE {"reset"} \cup ({wr[x]} \ {"open"})

\* Broken variant of Abort: the receive half is not cancelled.
AbortWriteOnly(x) ==
    /\ \E m \in AbortMarks(x) : wr' = [wr EXCEPT ![x] = m]
    /\ UNCHANGED rd

Abort(x) ==
    /\ rd' = [rd EXCEPT ![x] = "off"]
    /\ \E m \in AbortMarks(x) : wr' = [wr EXCEPT ![x] = m]

\* conn.Close of TCP closes both halves, stream.Close only the send half.
Close(x) ==
    IF kind[x] = "tcp"
    THEN Abort(x)
    ELSE wr' = [wr EXCEPT ![x] = IF @ = "open" THEN "fin" ELSE @] /\ UNCHANGED rd

-----------------------------------------------------------------------------
(* proxyOneWay with src = x and dst = Other(x). *)

\* Broken variant of ReadChunk: one chunk too many.
ReadPastEnd(x) ==
    /\ pc[x] = "read" /\ rd[x] = "open" /\ taken[x] <= sent[x]
    /\ taken' = [taken EXCEPT ![x] = @ + 1]
    /\ pc' = [pc EXCEPT ![x] = "write"]
    /\ UNCHANGED <<farVars, halfVars, delivered, err, once, done, mainVars>>

ReadChunk(x) ==
    /\ pc[x] = "read" /\ rd[x] = "open" /\ taken[x] < sent[x]
    /\ taken' = [taken EXCEPT ![x] = @ + 1]
    /\ pc' = [pc EXCEPT ![x] = "write"]
    /\ UNCHANGED <<farVars, halfVars, delivered, err, once, done, mainVars>>

\* The encrypted reader returns at the E2EClose and leaves the FIN behind it
\* unread.
ReadEOF(x) ==
    /\ pc[x] = "read" /\ rd[x] = "open"
    /\ taken[x] = sent[x] /\ tail[x] \in CleanTails(kind[x])
    /\ rd' = [rd EXCEPT ![x] = IF tail[x] = "fin" THEN "eof" ELSE "open"]
    /\ pc' = [pc EXCEPT ![x] = "closeWrite"]
    /\ UNCHANGED <<farVars, wr, taken, delivered, err, once, done, mainVars>>

\* A reset, an aborted endpoint, or an E2EClose with an error code.
ReadErr(x) ==
    /\ pc[x] = "read"
    /\ \/ rd[x] = "off" /\ UNCHANGED rd
       \/ rd[x] = "open" /\ tail[x] = "reset" /\ rd' = [rd EXCEPT ![x] = "eof"]
       \/ /\ rd[x] = "open" /\ tail[x] = "closeErr" /\ taken[x] = sent[x]
          /\ UNCHANGED rd
    /\ err' = [err EXCEPT ![x] = "copy"]
    /\ pc' = [pc EXCEPT ![x] = "closeWrite"]
    /\ UNCHANGED <<farVars, wr, taken, delivered, once, done, mainVars>>

Writable(x) == wr[x] = "open" /\ x \notin stopped

WriteOK(x) ==
    /\ pc[x] = "write" /\ Writable(Other(x))
    /\ delivered' = [delivered EXCEPT ![x] = @ + 1]
    /\ pc' = [pc EXCEPT ![x] = "read"]
    /\ UNCHANGED <<farVars, halfVars, taken, err, once, done, mainVars>>

WriteErr(x) ==
    /\ pc[x] = "write" /\ ~Writable(Other(x))
    /\ err' = [err EXCEPT ![x] = "copy"]
    /\ pc' = [pc EXCEPT ![x] = "closeWrite"]
    /\ UNCHANGED <<farVars, halfVars, taken, delivered, once, done, mainVars>>

\* Broken variants of CloseWriteOK: the whole endpoint is closed; a failed copy
\* is not followed by an abort.
CloseWriteBoth(x) ==
    /\ pc[x] = "closeWrite" /\ wr[Other(x)] = "open"
    /\ wr' = [wr EXCEPT ![Other(x)] = CloseWriteMark(kind[Other(x)])]
    /\ rd' = [rd EXCEPT ![Other(x)] = "off"]
    /\ pc' = [pc EXCEPT ![x] = IF err[x] = "nil" THEN "send" ELSE "abort"]
    /\ UNCHANGED <<farVars, taken, delivered, err, once, done, mainVars>>

CloseWriteNoAbort(x) ==
    /\ pc[x] = "closeWrite" /\ wr[Other(x)] = "open"
    /\ wr' = [wr EXCEPT ![Other(x)] = CloseWriteMark(kind[Other(x)])]
    /\ pc' = [pc EXCEPT ![x] = "send"]
    /\ UNCHANGED <<farVars, rd, taken, delivered, err, once, done, mainVars>>

\* dst.CloseWrite is called whether or not the copy failed. It succeeds on a
\* half that is still open; where the far end has stopped it may fail.
CloseWriteOK(x) ==
    /\ pc[x] = "closeWrite" /\ wr[Other(x)] = "open"
    /\ wr' = [wr EXCEPT ![Other(x)] = CloseWriteMark(kind[Other(x)])]
    /\ pc' = [pc EXCEPT ![x] = IF err[x] = "nil" THEN "send" ELSE "abort"]
    /\ UNCHANGED <<farVars, rd, taken, delivered, err, once, done, mainVars>>

CloseWriteErr(x) ==
    /\ pc[x] = "closeWrite" /\ ~Writable(Other(x))
    /\ err' = [err EXCEPT ![x] = IF @ = "nil" THEN "close" ELSE @]
    /\ pc' = [pc EXCEPT ![x] = "abort"]
    /\ UNCHANGED <<farVars, halfVars, taken, delivered, once, done, mainVars>>

\* abortOnce: the first caller aborts a, then b; another waits for it.
AbortA(x) ==
    /\ pc[x] = "abort" /\ once = "none"
    /\ once' = "running"
    /\ Abort("a")
    /\ pc' = [pc EXCEPT ![x] = "abortB"]
    /\ UNCHANGED <<farVars, taken, delivered, err, done, mainVars>>

AbortB(x) ==
    /\ pc[x] = "abortB"
    /\ once' = "done"
    /\ Abort("b")
    /\ pc' = [pc EXCEPT ![x] = "send"]
    /\ UNCHANGED <<farVars, taken, delivered, err, done, mainVars>>

AbortDone(x) ==
    /\ pc[x] = "abort" /\ once = "done"
    /\ pc' = [pc EXCEPT ![x] = "send"]
    /\ UNCHANGED <<farVars, halfVars, taken, delivered, err, once, done, mainVars>>

\* Broken variant of Send: only the error of CloseWrite is reported.
SendCloseErr(x) ==
    /\ pc[x] = "send"
    /\ done' = Append(done, IF err[x] = "copy" THEN "nil" ELSE err[x])
    /\ pc' = [pc EXCEPT ![x] = "end"]
    /\ UNCHANGED <<farVars, halfVars, taken, delivered, err, once, mainVars>>

\* Channel done has room for both errors.
Send(x) ==
    /\ pc[x] = "send"
    /\ done' = Append(done, err[x])
    /\ pc' = [pc EXCEPT ![x] = "end"]
    /\ UNCHANGED <<farVars, halfVars, taken, delivered, err, once, mainVars>>

proxyOneWay(x) ==
    \/ ReadChunk(x) \/ ReadEOF(x) \/ ReadErr(x) \/ WriteOK(x) \/ WriteErr(x)
    \/ CloseWriteOK(x) \/ CloseWriteErr(x)
    \/ AbortA(x) \/ AbortB(x) \/ AbortDone(x) \/ Send(x)

-----------------------------------------------------------------------------
(* Proxy. *)

CloseA ==
    /\ main = "wait" /\ Len(done) = 2
    /\ Close("a")
    /\ main' = "closeB"
    /\ UNCHANGED <<farVars, copyVars, once, done, ret>>

CloseB ==
    /\ main = "closeB"
    /\ Close("b")
    /\ main' = "returned"
    /\ ret' = IF done[1] # "nil" THEN done[1] ELSE done[2]
    /\ UNCHANGED <<farVars, copyVars, once, done>>

Proxy == CloseA \/ CloseB

-----------------------------------------------------------------------------
(* The far ends. *)

FarSend(x) ==
    /\ tail[x] = "open" /\ sent[x] < MaxChunks
    /\ sent' = [sent EXCEPT ![x] = @ + 1]
    /\ UNCHANGED <<kind, tail, stopped, halfVars, copyVars, once, done, mainVars>>

\* FIN, or the E2EClose of an encrypting peer. A relay between the two forwards
\* the end of a broken stream as a FIN without E2EClose.
FarEnd(x) ==
    /\ tail[x] = "open"
    /\ \E t \in CleanTails(kind[x])
                  \cup {t \in {"closeErr"} : kind[x] = "e2e"} :
         tail' = [tail EXCEPT ![x] = t]
    /\ UNCHANGED <<kind, sent, stopped, halfVars, copyVars, once, done, mainVars>>

\* A reset of the stream, or the loss of its connection.
FarReset(x) ==
    /\ tail[x] = "open"
    /\ tail' = [tail EXCEPT ![x] = "reset"]
    /\ \/ stopped' = stopped \cup {x}
       \/ kind[x] # "tcp" /\ UNCHANGED stopped
    /\ UNCHANGED <<kind, sent, halfVars, copyVars, once, done, mainVars>>

\* The far end stops reading: on TCP by closing, after its FIN.
FarStop(x) ==
    /\ x \notin stopped /\ (kind[x] = "tcp" => tail[x] # "open")
    /\ stopped' = stopped \cup {x}
    /\ UNCHANGED <<kind, sent, tail, halfVars, copyVars, once, done, mainVars>>

Terminated == main = "returned" /\ UNCHANGED vars

Next ==
    \/ \E x \in Ends : \/ proxyOneWay(x)
                       \/ FarSend(x) \/ FarEnd(x) \/ FarReset(x) \/ FarStop(x)
    \/ Proxy \/ Terminated

Spec == Init /\ [][Next]_vars

\* The goroutines run. A write may block for ever on a far end that does not
\* read, so only a failing one has to end; the same holds for CloseWrite of
\* the encrypted writer, which writes a frame.
CloseWriteBlocks(x) == kind[Other(x)] = "e2e" /\ Writable(Other(x))

FairSpec ==
    /\ Spec
    /\ \A x \in Ends :
         /\ WF_vars(ReadChunk(x) \/ ReadEOF(x) \/ ReadErr(x))
         /\ WF_vars(WriteErr(x))
         /\ WF_vars(~CloseWriteBlocks(x) /\ (CloseWriteOK(x) \/ CloseWriteErr(x)))
         /\ WF_vars(AbortA(x) \/ AbortB(x) \/ AbortDone(x) \/ Send(x))
    /\ WF_vars(Proxy)

-----------------------------------------------------------------------------
(* Properties. *)

PCs == {"read", "write", "closeWrite", "abort", "abortB", "send", "end"}

\* The type of every variable.
TypeOK ==
    /\ kind \in [Ends -> {"tcp", "quic", "e2e"}]
    /\ sent \in [Ends -> 0..MaxChunks]
    /\ tail \in [Ends -> {"open", "fin", "close", "closeErr", "reset"}]
    /\ stopped \in SUBSET Ends
    /\ rd \in [Ends -> {"open", "eof", "off"}]
    /\ wr \in [Ends -> {"open", "fin", "close", "reset"}]
    /\ taken \in [Ends -> 0..MaxChunks] /\ delivered \in [Ends -> 0..MaxChunks]
    /\ pc \in [Ends -> PCs] /\ err \in [Ends -> {"nil", "copy", "close"}]
    /\ once \in {"none", "running", "done"}
    /\ done \in Seq({"nil", "copy", "close"})
    /\ main \in {"wait", "closeB", "returned"}
    /\ ret \in {"none", "nil", "copy", "close"}

\* Proxy returns nil only if both directions were carried over completely and
\* ended by EOF, in whichever order the goroutines reported.
NilMeansComplete ==
    ret = "nil" => \A x \in Ends :
        tail[x] \in CleanTails(kind[x]) /\ delivered[x] = sent[x]

\* A normal EOF of one direction only half-closes: until some operation has
\* failed or Proxy closes up, nothing shuts a receive half, and a send half is
\* closed only for the direction that ended.
HalfCloseKeepsReverse ==
    main = "wait" /\ (\A x \in Ends : err[x] = "nil") =>
        \A x \in Ends :
            /\ rd[x] # "off"
            /\ wr[x] # "open" => pc[Other(x)] \in {"send", "end"}

\* The final Close leaves nothing open: when Proxy has returned, both halves
\* of both endpoints have ended, so their streams can be forgotten ("Close
\* performs final resource cleanup once both copy directions have stopped").
NothingLeftOpen ==
    main = "returned" => \A x \in Ends : rd[x] # "open" /\ wr[x] # "open"

\* "Unexpected copy or half-close errors abort both endpoints to unblock the
\* other direction": after an error Proxy returns, even if the far ends are
\* silent and read nothing.
ErrorUnblocks == \A x \in Ends : err[x] # "nil" ~> main = "returned"

\* Neither endpoint carries encrypted records.
Plain == \A x \in Ends : kind[x] # "e2e"

\* The final Close leaves nothing open where TCP and QUIC endpoints are proxied
\* as they are.
PlainNothingLeftOpen == Plain => NothingLeftOpen

\* Between such endpoints an error of either direction makes Proxy return,
\* even if the far ends are silent and read nothing.
PlainErrorUnblocks == Plain => ErrorUnblocks

\* The documented use of E2EClose, "OK for normal EOF": the encrypted stream
\* is closed with code OK only if the direction it carries ended by EOF.
CloseOKMeansEOF ==
    \A x \in Ends : wr[x] = "close" => tail[Other(x)] \in CleanTails(kind[Other(x)])
=============================================================================
