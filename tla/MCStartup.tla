------------------------------ MODULE MCStartup ------------------------------
(* Three executions on one port, two of them with UPnP. *)
EXTENDS Startup
CONSTANTS p1, p2, p3, port
MCPortOf == [p \in Processes |-> port]
=============================================================================
