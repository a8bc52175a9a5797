-------------------------- MODULE MCConnectionPool --------------------------
(* Instances of ConnectionPool for TLC.                                     *)
EXTENDS ConnectionPool, TLC

CONSTANTS c1, c2, c3, k1, k2, x1, x2, x3

\* Two tasks compete for the first target, a third talks to the second one.
MCKeyOf == (c1 :> k1) @@ (c2 :> k1) @@ (c3 :> k2)
\* Two tasks, one target.
MCOneKeyOf == (c1 :> k1) @@ (c2 :> k1)

\* Tasks of one target are interchangeable, and so are connections.
MCSymmetry == Permutations({c1, c2}) \cup Permutations(Conns)
=============================================================================
