----------------------------- MODULE MCAnalysis -----------------------------
EXTENDS Analysis

MCPorts     == <<9600, 502>>
MCProtocols == <<"modbus", "fins">>
MCPriors    == 502 :> "modbus" @@ 9600 :> "fins"
=============================================================================
