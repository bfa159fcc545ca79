-------------------------------- MODULE Pipe --------------------------------
(***************************************************************************)
(* What one direction of a proxied stream promises, whatever carries it:   *)
(* the reader gets a prefix of what was written, in order and nothing      *)
(* twice; it is told the end only behind the last byte of a closed         *)
(* direction, or where the carrier itself ended the direction in an        *)
(* orderly way; and it is told an error only if the carrier broke.         *)
(***************************************************************************)
EXTENDS Naturals, Sequences

VARIABLES
    sent,    \* the bytes written so far
    closed,  \* the writer has closed its direction
    got,     \* the bytes read so far
    result,  \* what the reader was told: "none" yet, "eof" or "error"
    link     \* the carrier: "whole", "cut" by an orderly end, or "lost"

vars == <<sent, closed, got, result, link>>

\* t continues s.
Extends(s, t) == Len(s) <= Len(t) /\ SubSeq(t, 1, Len(s)) = s

Init ==
    /\ sent = <<>> /\ closed = FALSE /\ got = <<>> /\ result = "none"
    /\ link = "whole"

Write ==
    /\ ~closed /\ Extends(sent, sent')
    /\ UNCHANGED <<closed, got, result, link>>

Close ==
    /\ closed' = TRUE
    /\ UNCHANGED <<sent, got, result, link>>

Read ==
    /\ result = "none"
    /\ Extends(got, got') /\ Extends(got', sent)
    /\ UNCHANGED <<sent, closed, result, link>>

EOF ==
    /\ result = "none"
    /\ (closed /\ got = sent) \/ link = "cut"
    /\ result' = "eof"
    /\ UNCHANGED <<sent, closed, got, link>>

Fail ==
    /\ result = "none" /\ link # "whole"
    /\ result' = "error"
    /\ UNCHANGED <<sent, closed, got, link>>

Break ==
    /\ link' \in {"cut", "lost"}
    /\ UNCHANGED <<sent, closed, got, result>>

Next == Write \/ Close \/ Read \/ EOF \/ Fail \/ Break

Spec == Init /\ [][Next]_vars
=============================================================================
