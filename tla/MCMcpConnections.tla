--------------------------- MODULE MCMcpConnections ---------------------------
(* Small instances of McpConnections. *)
EXTENDS McpConnections

Allow(asks, deaths) == [k \in Inputs |-> IF k = "asks" THEN asks ELSE deaths]
TwoAsks    == {Allow(2, 0), Allow(1, 1)}
OneAsk     == {Allow(1, 0)}
=============================================================================
