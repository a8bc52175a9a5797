----------------------------- MODULE MCExchange -----------------------------
(* Instances of Exchange for TLC: two tasks and one target.                 *)
EXTENDS Exchange, TLC

CONSTANTS c1, c2, k1

MCKeyOf == (c1 :> k1) @@ (c2 :> k1)

\* The tasks are interchangeable, and so are the connections.
MCSymmetry == Permutations(Calls) \cup Permutations(Conns)
=============================================================================
