--------------------------- MODULE MCPeerSessions ---------------------------
(* PeerSessions on small instances. *)
EXTENDS PeerSessions, TLC

\* Two delays: the second failure, and every later one, waits twice as long.
MCBackoff == <<1, 2>>
\* One delay, where only its being active matters.
MCBackoffOne == <<1>>

\* Handles of dialed connections are interchangeable.
ConnSymmetry == Permutations(Outbound)
=============================================================================
