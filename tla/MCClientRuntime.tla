--------------------------- MODULE MCClientRuntime ---------------------------
(* ClientRuntime on small instances. *)
EXTENDS ClientRuntime, TLC

CONSTANTS a, b, f1, f2

\* f1 fails over from a to b, with end-to-end encryption on the second route.
MCCandidates ==
    [f \in Forwards |->
       IF f = f1 THEN <<[server |-> a, e2e |-> FALSE], [server |-> b, e2e |-> TRUE]>>
                 ELSE <<[server |-> a, e2e |-> TRUE]>>]
\* Every forward has the one route over a.
MCOneRoute == [f \in Forwards |-> <<[server |-> a, e2e |-> TRUE]>>]

MCBackoff == <<1, 2>>
MCBackoffOne == <<1>>

Symmetry == Permutations(Handlers) \cup Permutations(Conn)
=============================================================================
