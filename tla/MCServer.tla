------------------------------ MODULE MCServer ------------------------------
(***************************************************************************)
(* A small instance of Server: one tag, one port.                          *)
(***************************************************************************)
EXTENDS Server

MCPorts == {1}
MCTcpTables == {{}}
=============================================================================
