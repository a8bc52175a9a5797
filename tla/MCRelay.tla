------------------------------ MODULE MCRelay ------------------------------
(* Instances of Relay for TLC.                                              *)
EXTENDS Relay

MCMaxPieces == [c2s |-> 5, s2c |-> 2]
=============================================================================
