--------------------------- MODULE MCPortRegistry ---------------------------
(* Instances of PortRegistry for TLC.                                       *)
EXTENDS PortRegistry

MCPorts == {1, 2}
=============================================================================
