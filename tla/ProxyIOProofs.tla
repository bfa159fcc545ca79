---------------------------- MODULE ProxyIOProofs ----------------------------
(***************************************************************************)
(* Safety of ProxyIO for any number of chunks and every pair of endpoints. *)
(***************************************************************************)
EXTENDS ProxyIO, TLAPS, SequenceTheorems

\* What the place of a copy goroutine says of its direction: while it has no
\* error it has written what it read, and past io.Copy it has read all there is.
Copied(x) ==
    /\ pc[x] = "read" => err[x] = "nil" /\ taken[x] = delivered[x]
    /\ pc[x] = "write" => err[x] = "nil" /\ taken[x] = delivered[x] + 1
    /\ pc[x] \notin {"read", "write"} /\ err[x] = "nil" =>
         /\ tail[x] \in CleanTails(kind[x])
         /\ taken[x] = sent[x] /\ delivered[x] = sent[x]
    /\ taken[x] <= sent[x] /\ delivered[x] <= taken[x]
    /\ pc[x] \in {"abort", "abortB"} => err[x] # "nil"

\* Channel done holds the errors of the goroutines that have ended.
Reported ==
    /\ pc["a"] # "end" /\ pc["b"] # "end" => done = <<>>
    /\ pc["a"] = "end" /\ pc["b"] # "end" => done = <<err["a"]>>
    /\ pc["a"] # "end" /\ pc["b"] = "end" => done = <<err["b"]>>
    /\ pc["a"] = "end" /\ pc["b"] = "end" =>
         done = <<err["a"], err["b"]>> \/ done = <<err["b"], err["a"]>>

\* Proxy closes and returns only after both goroutines.
Returned ==
    /\ main # "wait" => \A x \in Ends : pc[x] = "end"
    /\ ret = "nil" => \A x \in Ends : pc[x] = "end" /\ err[x] = "nil"

\* What a goroutine has shut: at EOF the receive half it read (the encrypted
\* reader leaves it open), past CloseWrite the send half it wrote, and after an
\* error it does not report before the endpoints are aborted.
Shut(x) ==
    /\ pc[x] \notin {"read", "write"} /\ err[x] = "nil" /\ kind[x] # "e2e" =>
         rd[x] # "open"
    /\ pc[x] \in {"send", "end"} /\ err[x] = "nil" => wr[Other(x)] # "open"
    /\ pc[x] \in {"send", "end"} /\ err[x] # "nil" => once = "done"
    /\ pc[x] = "abortB" => once = "running" /\ pc[Other(x)] # "abortB"

\* What abortOnce and the final Close have shut.
Aborted ==
    /\ once # "none" => rd["a"] # "open" /\ wr["a"] # "open"
    /\ once = "done" => rd["b"] # "open" /\ wr["b"] # "open"
    /\ main # "wait" => wr["a"] # "open"
    /\ main = "returned" => wr["b"] # "open"

IInv ==
    /\ TypeOK /\ Reported /\ Returned /\ HalfCloseKeepsReverse
    /\ \A x \in Ends : Copied(x)
    /\ Aborted /\ \A x \in Ends : Shut(x)

\* The two ends are each other's other.
LEMMA EndsPair ==
    /\ "a" \in Ends /\ "b" \in Ends /\ Other("a") = "b" /\ Other("b") = "a"
    /\ \A x \in Ends : Other(x) \in Ends /\ Other(x) # x /\ Other(Other(x)) = x
    /\ \A x, y \in Ends : y = x \/ y = Other(x)
  BY DEF Ends, Other

\* Every pair of kinds gives a typed kind function.
LEMMA KindType ==
    \A p \in Pairs :
        [x \in Ends |-> IF x = "a" THEN p[1] ELSE p[2]] \in [Ends -> {"tcp", "quic", "e2e"}]
  BY ProxyAssumption

\* IInv holds when Proxy starts.
LEMMA IInvInit == Init => IInv
<1> SUFFICES ASSUME Init PROVE IInv OBVIOUS
<1>1. TypeOK
  <2>1. kind \in [Ends -> {"tcp", "quic", "e2e"}] BY KindType DEF Init
  <2>2. 0 \in 0..MaxChunks BY ProxyAssumption
  <2>3. done \in Seq({"nil", "copy", "close"}) BY DEF Init
  <2> QED BY <2>1, <2>2, <2>3 DEF Init, TypeOK, PCs
<1>2. Reported /\ Returned BY EndsPair DEF Init, Reported, Returned
<1>3. HalfCloseKeepsReverse BY DEF Init, HalfCloseKeepsReverse
<1>4. \A x \in Ends : Copied(x) BY DEF Init, Copied
<1>5. Aborted /\ \A x \in Ends : Shut(x) BY DEF Init, Aborted, Shut
<1> QED BY <1>1, <1>2, <1>3, <1>4, <1>5 DEF IInv

\* Aborting and closing an endpoint keep the types of its halves.
LEMMA AbortType ==
    ASSUME TypeOK, NEW x \in Ends, Abort(x) \/ Close(x)
    PROVE  /\ rd' \in [Ends -> {"open", "eof", "off"}]
           /\ wr' \in [Ends -> {"open", "fin", "close", "reset"}]
<1>1. CASE Abort(x)
  <2>1. AbortMarks(x) \subseteq {"open", "fin", "close", "reset"}
    BY DEF AbortMarks, TypeOK
  <2> QED BY <1>1, <2>1 DEF Abort, TypeOK
<1>2. CASE Close(x) /\ kind[x] # "tcp"
  <2>1. /\ UNCHANGED rd
        /\ wr' = [wr EXCEPT ![x] = IF wr[x] = "open" THEN "fin" ELSE wr[x]]
    BY <1>2 DEF Close
  <2>2. (IF wr[x] = "open" THEN "fin" ELSE wr[x]) \in {"open", "fin", "close", "reset"}
    BY DEF TypeOK
  <2> QED BY <2>1, <2>2 DEF TypeOK
<1>3. CASE Close(x) /\ kind[x] = "tcp" BY <1>1, <1>3 DEF Close
<1> QED BY <1>1, <1>2, <1>3

\* The types are kept by the copy goroutines,
LEMMA TypeCopy ==
    ASSUME TypeOK, \A y \in Ends : Copied(y), NEW x \in Ends, proxyOneWay(x)
    PROVE  TypeOK'
<1> USE EndsPair, ProxyAssumption
<1> USE DEF farVars, halfVars, mainVars, PCs
<1>1. CASE ReadChunk(x)
  <2>1. taken[x] + 1 \in 0..MaxChunks BY <1>1 DEF ReadChunk, TypeOK
  <2> QED BY <1>1, <2>1 DEF ReadChunk, TypeOK
<1>2. CASE ReadEOF(x) BY <1>2 DEF ReadEOF, TypeOK
<1>3. CASE ReadErr(x) BY <1>3 DEF ReadErr, TypeOK
<1>4. CASE WriteOK(x)
  <2>1. delivered[x] + 1 \in 0..MaxChunks
    BY <1>4 DEF WriteOK, Copied, TypeOK
  <2> QED BY <1>4, <2>1 DEF WriteOK, TypeOK
<1>5. CASE WriteErr(x) BY <1>5 DEF WriteErr, TypeOK
<1>6. CASE CloseWriteOK(x) BY <1>6 DEF CloseWriteOK, CloseWriteMark, TypeOK
<1>7. CASE CloseWriteErr(x) BY <1>7 DEF CloseWriteErr, TypeOK
<1>8. CASE AbortA(x) BY <1>8, AbortType DEF AbortA, TypeOK
<1>9. CASE AbortB(x) BY <1>9, AbortType DEF AbortB, TypeOK
<1>10. CASE AbortDone(x) BY <1>10 DEF AbortDone, TypeOK
<1>11. CASE Send(x)
  <2>1. done' \in Seq({"nil", "copy", "close"}) BY <1>11 DEF Send, TypeOK
  <2> QED BY <1>11, <2>1 DEF Send, TypeOK
<1> QED BY <1>1, <1>2, <1>3, <1>4, <1>5, <1>6, <1>7, <1>8, <1>9, <1>10, <1>11
  DEF proxyOneWay

\* by the far ends,
LEMMA TypeFar ==
    ASSUME TypeOK, NEW x \in Ends,
           FarSend(x) \/ FarEnd(x) \/ FarReset(x) \/ FarStop(x)
    PROVE  TypeOK'
<1> USE ProxyAssumption
<1> USE DEF halfVars, copyVars, mainVars
<1>1. CASE FarSend(x)
  <2>1. sent[x] + 1 \in 0..MaxChunks BY <1>1 DEF FarSend, TypeOK
  <2> QED BY <1>1, <2>1 DEF FarSend, TypeOK
<1>2. CASE FarEnd(x) BY <1>2 DEF FarEnd, CleanTails, TypeOK
<1>3. CASE FarReset(x) BY <1>3 DEF FarReset, TypeOK
<1>4. CASE FarStop(x) BY <1>4 DEF FarStop, TypeOK
<1> QED BY <1>1, <1>2, <1>3, <1>4

\* and by Proxy.
LEMMA TypeProxy == TypeOK /\ Reported /\ Returned /\ Proxy => TypeOK'
<1> SUFFICES ASSUME TypeOK, Reported, Returned, Proxy PROVE TypeOK' OBVIOUS
<1> USE EndsPair
<1> USE DEF farVars, copyVars
<1>1. CASE CloseA BY <1>1, AbortType DEF CloseA, TypeOK
<1>2. CASE CloseB
  <2>1. done[1] \in {"nil", "copy", "close"} /\ done[2] \in {"nil", "copy", "close"}
    BY <1>2 DEF CloseB, Reported, Returned, TypeOK
  <2> QED BY <1>2, <2>1, AbortType DEF CloseB, TypeOK
<1> QED BY <1>1, <1>2 DEF Proxy

\* No step loses track of what a direction has carried.
LEMMA CopiedStep ==
    ASSUME TypeOK, \A y \in Ends : Copied(y), Next, NEW y \in Ends
    PROVE  Copied(y)'
<1> USE EndsPair
<1> USE DEF Copied, TypeOK
<1>1. ASSUME NEW x \in Ends, proxyOneWay(x) PROVE Copied(y)'
  <2> USE DEF farVars
  <2>1. CASE ReadChunk(x) BY <2>1 DEF ReadChunk
  <2>2. CASE ReadEOF(x) BY <2>2 DEF ReadEOF
  <2>3. CASE ReadErr(x) BY <2>3 DEF ReadErr
  <2>4. CASE WriteOK(x) BY <2>4 DEF WriteOK
  <2>5. CASE WriteErr(x) BY <2>5 DEF WriteErr
  <2>6. CASE CloseWriteOK(x) BY <2>6 DEF CloseWriteOK
  <2>7. CASE CloseWriteErr(x) BY <2>7 DEF CloseWriteErr
  <2>8. CASE AbortA(x) BY <2>8 DEF AbortA
  <2>9. CASE AbortB(x) BY <2>9 DEF AbortB
  <2>10. CASE AbortDone(x) BY <2>10 DEF AbortDone
  <2>11. CASE Send(x) BY <2>11 DEF Send
  <2> QED BY <1>1, <2>1, <2>2, <2>3, <2>4, <2>5, <2>6, <2>7, <2>8, <2>9, <2>10,
             <2>11 DEF proxyOneWay
<1>2. ASSUME NEW x \in Ends, FarSend(x) \/ FarEnd(x) \/ FarReset(x) \/ FarStop(x)
      PROVE  Copied(y)'
  <2> USE DEF copyVars
  <2>0. CASE y # x BY <1>2, <2>0 DEF FarSend, FarEnd, FarReset, FarStop
  <2>1. CASE FarSend(x) /\ y = x
    <3>1. /\ sent' = [sent EXCEPT ![x] = sent[x] + 1] /\ tail[x] = "open"
          /\ UNCHANGED <<kind, tail, taken, delivered, pc, err>>
      BY <2>1 DEF FarSend
    <3>2. tail[x] \notin CleanTails(kind[x]) BY <3>1 DEF CleanTails
    <3>3. sent[x] \in Nat /\ taken[x] \in Nat /\ sent'[x] = sent[x] + 1
      BY <3>1, ProxyAssumption
    <3> QED BY <2>1, <3>1, <3>2, <3>3
  <2>2. CASE FarEnd(x) /\ y = x
    <3>1. tail[x] = "open" /\ UNCHANGED <<kind, sent, taken, delivered, pc, err>>
      BY <2>2 DEF FarEnd
    <3>2. tail[x] \notin CleanTails(kind[x]) BY <3>1 DEF CleanTails
    <3> QED BY <2>2, <3>1, <3>2
  <2>3. CASE FarReset(x) /\ y = x
    <3>1. tail[x] = "open" /\ UNCHANGED <<kind, sent, taken, delivered, pc, err>>
      BY <2>3 DEF FarReset
    <3>2. tail[x] \notin CleanTails(kind[x]) BY <3>1 DEF CleanTails
    <3> QED BY <2>3, <3>1, <3>2
  <2>4. CASE FarStop(x) /\ y = x
    <3>1. UNCHANGED <<kind, sent, tail, taken, delivered, pc, err>>
      BY <2>4 DEF FarStop
    <3> QED BY <2>4, <3>1
  <2> QED BY <1>2, <2>0, <2>1, <2>2, <2>3, <2>4
<1>3. CASE UNCHANGED <<kind, sent, tail, taken, delivered, pc, err>> BY <1>3
<1>4. CASE Proxy
  <2>1. UNCHANGED <<kind, sent, tail, taken, delivered, pc, err>>
    BY <1>4 DEF Proxy, CloseA, CloseB, farVars, copyVars
  <2> QED BY <1>3, <2>1
<1>5. CASE Terminated
  <2>1. UNCHANGED <<kind, sent, tail, taken, delivered, pc, err>>
    BY <1>5 DEF Terminated, vars
  <2> QED BY <1>3, <2>1
<1> QED BY <1>1, <1>2, <1>4, <1>5 DEF Next

\* The second report is appended to the first.
LEMMA AppendSecond ==
    \A u, e : Append(<<u>>, e) = <<u, e>>
<1> SUFFICES ASSUME NEW u, NEW e PROVE Append(<<u>>, e) = <<u, e>> OBVIOUS
<1> DEFINE S == {u, e}
<1>1. <<u>> \in Seq(S) /\ Len(<<u>>) = 1 OBVIOUS
<1>2. Append(<<u>>, e) \in Seq(S) /\ Len(Append(<<u>>, e)) = 2 BY <1>1
<1>3. Append(<<u>>, e)[1] = u /\ Append(<<u>>, e)[2] = e BY <1>1
<1>4. <<u, e>> \in Seq(S) /\ Len(<<u, e>>) = 2 OBVIOUS
<1>5. \A i \in 1..2 : Append(<<u>>, e)[i] = <<u, e>>[i] BY <1>3
<1> QED BY <1>2, <1>4, <1>5, SeqEqual

\* A goroutine reports once, and Proxy waits for both reports.
LEMMA ReportStep ==
    ASSUME TypeOK, Reported, Returned, Next
    PROVE  Reported' /\ Returned'
<1> USE EndsPair
<1>1. ASSUME NEW x \in Ends, proxyOneWay(x) PROVE Reported' /\ Returned'
  <2>1. CASE Send(x)
    <3>1. /\ pc[x] = "send" /\ pc' = [pc EXCEPT ![x] = "end"]
          /\ done' = Append(done, err[x]) /\ UNCHANGED <<err, main, ret>>
      BY <2>1 DEF Send, mainVars
    <3>2. Reported'
      <4>1. /\ pc'[x] = "end" /\ pc'[Other(x)] = pc[Other(x)] /\ err' = err
        BY <3>1 DEF TypeOK
      <4>2. ASSUME pc[Other(x)] # "end" PROVE done' = <<err[x]>>
        <5>1. done = <<>> BY <3>1, <4>2 DEF Reported, Ends, Other
        <5> QED BY <3>1, <5>1
      <4>3. ASSUME pc[Other(x)] = "end" PROVE done' = <<err[Other(x)], err[x]>>
        <5>1. done = <<err[Other(x)]>> BY <3>1, <4>3 DEF Reported, Ends, Other
        <5>2. done' = Append(<<err[Other(x)]>>, err[x]) BY <3>1, <5>1
        <5> QED BY <5>2, AppendSecond, Zenon
      <4> QED BY <4>1, <4>2, <4>3 DEF Reported, Ends, Other
    <3>3. Returned' BY <3>1 DEF Returned, TypeOK
    <3> QED BY <3>2, <3>3
  <2>2. CASE ~Send(x)
    <3>1. /\ UNCHANGED <<done, main, ret>>
          /\ pc[x] # "end" /\ pc'[x] # "end"
          /\ pc'[Other(x)] = pc[Other(x)] /\ err'[Other(x)] = err[Other(x)]
      BY <1>1, <2>2 DEF proxyOneWay, ReadChunk, ReadEOF, ReadErr, WriteOK, WriteErr,
            CloseWriteOK, CloseWriteErr, AbortA, AbortB, AbortDone, mainVars, TypeOK
    <3>2. Reported'
      <4>1. CASE x = "a" BY <3>1, <4>1 DEF Reported
      <4>2. CASE x = "b" BY <3>1, <4>2 DEF Reported
      <4> QED BY <4>1, <4>2 DEF Ends
    <3>3. Returned' BY <3>1 DEF Returned
    <3> QED BY <3>2, <3>3
  <2> QED BY <2>1, <2>2
<1>2. ASSUME UNCHANGED <<copyVars, done, mainVars>> PROVE Reported' /\ Returned'
  BY <1>2 DEF copyVars, mainVars, Reported, Returned
<1>3. ASSUME NEW x \in Ends, FarSend(x) \/ FarEnd(x) \/ FarReset(x) \/ FarStop(x)
      PROVE  Reported' /\ Returned'
  BY <1>2, <1>3 DEF FarSend, FarEnd, FarReset, FarStop
<1>4. CASE CloseA
  <2>1. \A x \in Ends : pc[x] = "end"
    BY <1>4 DEF CloseA, Reported, Ends
  <2> QED BY <1>4, <2>1 DEF CloseA, copyVars, Reported, Returned
<1>5. CASE CloseB
  <2>1. \A x \in Ends : pc[x] = "end" BY <1>5 DEF CloseB, Returned
  <2>2. /\ UNCHANGED <<pc, err, done>> /\ main' = "returned"
        /\ ret' = IF done[1] # "nil" THEN done[1] ELSE done[2]
    BY <1>5 DEF CloseB, copyVars
  <2>3. done = <<err["a"], err["b"]>> \/ done = <<err["b"], err["a"]>>
    BY <2>1 DEF Reported
  <2>4. ret' = "nil" => err["a"] = "nil" /\ err["b"] = "nil"
    BY <2>2, <2>3
  <2>5. Returned' BY <2>1, <2>2, <2>4 DEF Returned, Ends
  <2>6. Reported' BY <2>2 DEF Reported
  <2> QED BY <2>5, <2>6
<1>6. CASE Terminated BY <1>2, <1>6 DEF Terminated, vars, copyVars, mainVars
<1> QED BY <1>1, <1>3, <1>4, <1>5, <1>6 DEF Next, Proxy

\* Halves are shut early only on the way of an error.
LEMMA HalfCloseStep ==
    ASSUME TypeOK, \A y \in Ends : Copied(y), HalfCloseKeepsReverse, Next
    PROVE  HalfCloseKeepsReverse'
<1> USE EndsPair
<1> SUFFICES ASSUME main' = "wait", \A y \in Ends : err'[y] = "nil", NEW z \in Ends
             PROVE  rd'[z] # "off" /\ (wr'[z] # "open" => pc'[Other(z)] \in {"send", "end"})
  BY DEF HalfCloseKeepsReverse
<1>1. ASSUME NEW x \in Ends, proxyOneWay(x)
      PROVE  rd'[z] # "off" /\ (wr'[z] # "open" => pc'[Other(z)] \in {"send", "end"})
  <2>1. main = "wait" /\ \A y \in Ends : y # x => err[y] = "nil"
    BY <1>1 DEF proxyOneWay, ReadChunk, ReadEOF, ReadErr, WriteOK, WriteErr,
          CloseWriteOK, CloseWriteErr, AbortA, AbortB, AbortDone, Send, mainVars, TypeOK
  <2>2. err[x] = "nil"
    BY <1>1 DEF proxyOneWay, ReadChunk, ReadEOF, ReadErr, WriteOK, WriteErr,
          CloseWriteOK, CloseWriteErr, AbortA, AbortB, AbortDone, Send, TypeOK
  <2>3. /\ rd[z] # "off" /\ rd[x] # "off"
        /\ wr[z] # "open" => pc[Other(z)] \in {"send", "end"}
    BY <2>1, <2>2 DEF HalfCloseKeepsReverse
  <2>4. pc[x] \notin {"abort", "abortB"} BY <2>2 DEF Copied
  <2> USE DEF TypeOK
  <2>5. CASE ReadChunk(x) BY <2>3, <2>5 DEF ReadChunk, halfVars
  <2>6. CASE ReadEOF(x) BY <2>3, <2>6 DEF ReadEOF
  <2>7. CASE ReadErr(x) BY <2>3, <2>7 DEF ReadErr
  <2>8. CASE WriteOK(x) BY <2>3, <2>8 DEF WriteOK, halfVars
  <2>9. CASE WriteErr(x) BY <2>3, <2>9 DEF WriteErr, halfVars
  <2>10. CASE CloseWriteOK(x) BY <2>2, <2>3, <2>10 DEF CloseWriteOK
  <2>11. CASE CloseWriteErr(x) BY <2>3, <2>11 DEF CloseWriteErr, halfVars
  <2>12. CASE AbortA(x) \/ AbortB(x) \/ AbortDone(x)
    BY <2>4, <2>12 DEF AbortA, AbortB, AbortDone
  <2>13. CASE Send(x) BY <2>3, <2>13 DEF Send, halfVars
  <2> QED BY <1>1, <2>5, <2>6, <2>7, <2>8, <2>9, <2>10, <2>11, <2>12, <2>13
    DEF proxyOneWay
<1>2. ASSUME UNCHANGED <<halfVars, copyVars, mainVars>>
      PROVE  rd'[z] # "off" /\ (wr'[z] # "open" => pc'[Other(z)] \in {"send", "end"})
  BY <1>2 DEF halfVars, copyVars, mainVars, HalfCloseKeepsReverse
<1>3. ASSUME NEW x \in Ends, FarSend(x) \/ FarEnd(x) \/ FarReset(x) \/ FarStop(x)
      PROVE  rd'[z] # "off" /\ (wr'[z] # "open" => pc'[Other(z)] \in {"send", "end"})
  BY <1>2, <1>3 DEF FarSend, FarEnd, FarReset, FarStop
<1>4. ~Proxy BY DEF Proxy, CloseA, CloseB
<1>5. CASE Terminated
  BY <1>2, <1>5 DEF Terminated, vars, halfVars, copyVars, mainVars
<1> QED BY <1>1, <1>3, <1>4, <1>5 DEF Next

\* Aborting an endpoint shuts both its halves, closing it the send half, and
\* neither touches the other endpoint or opens anything.
LEMMA AbortShuts ==
    ASSUME TypeOK, NEW x \in Ends, Abort(x) \/ Close(x)
    PROVE  /\ wr'[x] # "open"
           /\ Abort(x) => rd'[x] # "open"
           /\ \A y \in Ends : rd[y] # "open" => rd'[y] # "open"
           /\ \A y \in Ends : wr[y] # "open" => wr'[y] # "open"
<1> USE DEF TypeOK
<1>1. CASE Abort(x)
  <2>1. "open" \notin AbortMarks(x) BY DEF AbortMarks
  <2> QED BY <1>1, <2>1 DEF Abort
<1>2. CASE Close(x) /\ kind[x] # "tcp"
  <2>1. UNCHANGED rd /\ wr' = [wr EXCEPT ![x] = IF wr[x] = "open" THEN "fin" ELSE wr[x]]
    BY <1>2 DEF Close
  <2>2. rd'[x] = "off" => rd[x] # "open" BY <2>1
  <2> QED BY <2>1, <2>2 DEF Abort
<1>3. CASE Close(x) /\ kind[x] = "tcp" BY <1>1, <1>3 DEF Close
<1> QED BY <1>1, <1>2, <1>3

\* A half that is shut stays shut.
LEMMA StaysShut ==
    ASSUME TypeOK, Next, NEW y \in Ends
    PROVE  /\ rd[y] # "open" => rd'[y] # "open"
           /\ wr[y] # "open" => wr'[y] # "open"
<1> USE EndsPair
<1>1. ASSUME NEW x \in Ends, proxyOneWay(x)
      PROVE  (rd[y] # "open" => rd'[y] # "open") /\ (wr[y] # "open" => wr'[y] # "open")
  <2>1. CASE UNCHANGED halfVars BY <2>1 DEF halfVars
  <2>2. CASE ReadEOF(x) BY <2>2 DEF ReadEOF, TypeOK
  <2>3. CASE ReadErr(x) BY <2>3 DEF ReadErr, TypeOK
  <2>4. CASE CloseWriteOK(x) BY <2>4 DEF CloseWriteOK, CloseWriteMark, TypeOK
  <2>5. CASE AbortA(x) BY <2>5, AbortShuts DEF AbortA
  <2>6. CASE AbortB(x) BY <2>6, AbortShuts DEF AbortB
  <2> QED BY <1>1, <2>1, <2>2, <2>3, <2>4, <2>5, <2>6
    DEF proxyOneWay, ReadChunk, WriteOK, WriteErr, CloseWriteErr, AbortDone, Send
<1>2. CASE UNCHANGED halfVars BY <1>2 DEF halfVars
<1>3. CASE Proxy BY <1>3, AbortShuts DEF Proxy, CloseA, CloseB
<1> QED BY <1>1, <1>2, <1>3 DEF Next, FarSend, FarEnd, FarReset, FarStop, Terminated,
     vars, halfVars

\* No step forgets to shut a half that its place in the code says is shut.
LEMMA ShutStep ==
    ASSUME TypeOK, \A y \in Ends : Copied(y), Aborted, \A y \in Ends : Shut(y), Next
    PROVE  Aborted' /\ \A y \in Ends : Shut(y)'
<1> USE EndsPair
<1> DEFINE Kept == \A y \in Ends : /\ rd[y] # "open" => rd'[y] # "open"
                                   /\ wr[y] # "open" => wr'[y] # "open"
<1>0. Kept BY StaysShut
<1>1. ASSUME NEW x \in Ends, proxyOneWay(x)
      PROVE  Aborted' /\ \A y \in Ends : Shut(y)'
  <2>1. UNCHANGED <<kind, main>> /\ \A y \in Ends \ {x} : pc'[y] = pc[y] /\ err'[y] = err[y]
    BY <1>1 DEF proxyOneWay, ReadChunk, ReadEOF, ReadErr, WriteOK, WriteErr,
          CloseWriteOK, CloseWriteErr, AbortA, AbortB, AbortDone, Send, mainVars,
          farVars, TypeOK
  <2>2. ASSUME UNCHANGED once, Shut(x)' PROVE Aborted' /\ \A y \in Ends : Shut(y)'
    <3>1. Aborted' BY <1>0, <2>1, <2>2 DEF Aborted
    <3>2. \A y \in Ends \ {x} : Shut(y)' BY <1>0, <2>1, <2>2 DEF Shut
    <3> QED BY <2>2, <3>1, <3>2
  <2> USE DEF TypeOK, farVars, halfVars
  <2>3. CASE ReadChunk(x)
    <3>1. Shut(x)' BY <2>3 DEF ReadChunk, Shut
    <3> QED BY <2>2, <2>3, <3>1 DEF ReadChunk
  <2>4. CASE ReadEOF(x)
    <3>1. kind[x] # "e2e" => rd'[x] # "open" BY <2>4 DEF ReadEOF, CleanTails
    <3>2. Shut(x)' BY <2>4, <3>1 DEF ReadEOF, Shut
    <3> QED BY <2>2, <2>4, <3>2 DEF ReadEOF
  <2>5. CASE ReadErr(x)
    <3>1. Shut(x)' BY <2>5 DEF ReadErr, Shut
    <3> QED BY <2>2, <2>5, <3>1 DEF ReadErr
  <2>6. CASE WriteOK(x)
    <3>1. Shut(x)' BY <2>6 DEF WriteOK, Shut
    <3> QED BY <2>2, <2>6, <3>1 DEF WriteOK
  <2>7. CASE WriteErr(x)
    <3>1. Shut(x)' BY <2>7 DEF WriteErr, Shut
    <3> QED BY <2>2, <2>7, <3>1 DEF WriteErr
  <2>8. CASE CloseWriteOK(x)
    <3>1. wr'[Other(x)] # "open" BY <2>8 DEF CloseWriteOK, CloseWriteMark
    <3>2. Shut(x)' BY <2>8, <3>1 DEF CloseWriteOK, Shut
    <3> QED BY <2>2, <2>8, <3>2 DEF CloseWriteOK
  <2>9. CASE CloseWriteErr(x)
    <3>1. err'[x] # "nil" BY <2>9 DEF CloseWriteErr
    <3>2. Shut(x)' BY <2>9, <3>1 DEF CloseWriteErr, Shut
    <3> QED BY <2>2, <2>9, <3>2 DEF CloseWriteErr
  <2>10. CASE AbortA(x)
    <3>1. rd'["a"] # "open" /\ wr'["a"] # "open" BY <2>10, AbortShuts DEF AbortA
    <3>2. Aborted' BY <1>0, <2>1, <2>10, <3>1 DEF AbortA, Aborted
    <3>3. \A y \in Ends \ {x} : Shut(y)' BY <1>0, <2>1, <2>10 DEF AbortA, Shut
    <3>4. Shut(x)' BY <2>10 DEF AbortA, Shut, Copied
    <3> QED BY <3>2, <3>3, <3>4
  <2>11. CASE AbortB(x)
    <3>1. rd'["b"] # "open" /\ wr'["b"] # "open" BY <2>11, AbortShuts DEF AbortB
    <3>2. once = "running" BY <2>11 DEF AbortB, Shut
    <3>3. Aborted' BY <1>0, <2>1, <2>11, <3>1, <3>2 DEF AbortB, Aborted
    <3>4. pc[Other(x)] # "abortB" BY <2>11 DEF AbortB, Shut
    <3>5. \A y \in Ends \ {x} : Shut(y)' BY <1>0, <2>1, <2>11, <3>4 DEF AbortB, Shut
    <3>6. Shut(x)' BY <2>11 DEF AbortB, Shut, Copied
    <3> QED BY <3>3, <3>5, <3>6
  <2>12. CASE AbortDone(x)
    <3>1. Shut(x)' BY <2>12 DEF AbortDone, Shut, Copied
    <3> QED BY <2>2, <2>12, <3>1 DEF AbortDone
  <2>13. CASE Send(x)
    <3>1. /\ pc[x] = "send" /\ pc' = [pc EXCEPT ![x] = "end"]
          /\ UNCHANGED <<kind, rd, wr, err, once>>
      BY <2>13 DEF Send
    <3>2. Shut(x)' BY <3>1 DEF Shut
    <3> QED BY <2>2, <3>1, <3>2
  <2> QED BY <1>1, <2>3, <2>4, <2>5, <2>6, <2>7, <2>8, <2>9, <2>10, <2>11, <2>12,
             <2>13 DEF proxyOneWay
<1>2. ASSUME UNCHANGED <<kind, copyVars, once>> PROVE \A y \in Ends : Shut(y)'
  BY <1>0, <1>2 DEF copyVars, Shut
<1>3. CASE UNCHANGED <<kind, halfVars, copyVars, once, mainVars>>
  <2>1. Aborted' BY <1>3 DEF halfVars, mainVars, Aborted
  <2> QED BY <1>2, <1>3, <2>1
<1>4. CASE CloseA
  <2>1. wr'["a"] # "open" BY <1>4, AbortShuts DEF CloseA
  <2>2. Aborted' BY <1>0, <1>4, <2>1 DEF CloseA, Aborted
  <2> QED BY <1>2, <1>4, <2>2 DEF CloseA, farVars
<1>5. CASE CloseB
  <2>1. wr'["b"] # "open" BY <1>5, AbortShuts DEF CloseB
  <2>2. Aborted' BY <1>0, <1>5, <2>1 DEF CloseB, Aborted
  <2> QED BY <1>2, <1>5, <2>2 DEF CloseB, farVars
<1>6. ASSUME NEW x \in Ends, FarSend(x) \/ FarEnd(x) \/ FarReset(x) \/ FarStop(x)
      PROVE  Aborted' /\ \A y \in Ends : Shut(y)'
  BY <1>3, <1>6 DEF FarSend, FarEnd, FarReset, FarStop
<1>7. CASE Terminated
  BY <1>3, <1>7 DEF Terminated, vars, halfVars, copyVars, mainVars
<1> QED BY <1>1, <1>4, <1>5, <1>6, <1>7 DEF Next, Proxy

\* IInv is inductive.
LEMMA IInvStep == IInv /\ [Next]_vars => IInv'
<1> SUFFICES ASSUME IInv, [Next]_vars PROVE IInv' OBVIOUS
<1>1. CASE Next
  <2>1. TypeOK'
    <3>1. CASE Terminated BY <3>1 DEF Terminated, vars, IInv, TypeOK
    <3> QED BY <1>1, <3>1, TypeCopy, TypeFar, TypeProxy DEF IInv, Next
  <2>2. \A y \in Ends : Copied(y)' BY <1>1, CopiedStep DEF IInv
  <2>3. Reported' /\ Returned' BY <1>1, ReportStep DEF IInv
  <2>4. HalfCloseKeepsReverse' BY <1>1, HalfCloseStep DEF IInv
  <2>5. (\A y \in Ends : Copied(y))' BY <2>2 DEF Ends
  <2>6. Aborted' /\ \A y \in Ends : Shut(y)' BY <1>1, ShutStep DEF IInv
  <2>7. (\A y \in Ends : Shut(y))' BY <2>6 DEF Ends
  <2> QED BY <2>1, <2>3, <2>4, <2>5, <2>6, <2>7 DEF IInv
<1>2. CASE UNCHANGED vars
  <2>1. UNCHANGED <<kind, sent, tail, taken, delivered, pc, err>> BY <1>2 DEF vars
  <2>2. \A y \in Ends : Copied(y)' BY <2>1 DEF IInv, Copied
  <2>3. TypeOK' /\ Reported' /\ Returned' /\ HalfCloseKeepsReverse'
    BY <1>2 DEF vars, IInv, TypeOK, Reported, Returned, HalfCloseKeepsReverse
  <2>4. (\A y \in Ends : Copied(y))' BY <2>2 DEF Ends
  <2>5. Aborted' /\ \A y \in Ends : Shut(y)' BY <1>2 DEF vars, IInv, Aborted, Shut
  <2>6. (\A y \in Ends : Shut(y))' BY <2>5 DEF Ends
  <2> QED BY <2>3, <2>4, <2>5, <2>6 DEF IInv
<1> QED BY <1>1, <1>2

\* In every reachable state the inductive invariant holds.
THEOREM Invariant == Spec => []IInv
  BY IInvInit, IInvStep, PTL DEF Spec

\* The proxy's state is well typed in every reachable state.
THEOREM TypeCorrect == Spec => []TypeOK
<1>1. IInv => TypeOK BY DEF IInv
<1> QED BY <1>1, Invariant, PTL

\* A nil result of Proxy means that both directions were carried completely.
THEOREM CompleteOnNil == Spec => []NilMeansComplete
<1>1. IInv => NilMeansComplete
  BY DEF IInv, Returned, Copied, NilMeansComplete
<1> QED BY <1>1, Invariant, PTL

\* A normal EOF leaves the other direction alone.
THEOREM HalfClose == Spec => []HalfCloseKeepsReverse
<1>1. IInv => HalfCloseKeepsReverse BY DEF IInv
<1> QED BY <1>1, Invariant, PTL
\* When Proxy has returned, no half of a TCP or QUIC endpoint is left open.
THEOREM Released == Spec => []PlainNothingLeftOpen
<1>1. IInv => PlainNothingLeftOpen
  <2> SUFFICES ASSUME IInv, Plain, main = "returned", NEW x \in Ends
               PROVE  rd[x] # "open" /\ wr[x] # "open"
    BY DEF PlainNothingLeftOpen, NothingLeftOpen
  <2>1. wr[x] # "open" BY DEF IInv, Aborted, Ends
  <2>2. pc[x] = "end" BY DEF IInv, Returned
  <2>3. CASE err[x] = "nil" BY <2>1, <2>2, <2>3 DEF IInv, Shut, Plain
  <2>4. CASE err[x] # "nil" BY <2>1, <2>2, <2>4 DEF IInv, Shut, Aborted, Ends
  <2> QED BY <2>3, <2>4
<1> QED BY <1>1, Invariant, PTL
=============================================================================
