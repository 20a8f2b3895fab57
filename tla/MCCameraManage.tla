--------------------------- MODULE MCCameraManage ---------------------------
(***************************************************************************)
(* Small instances of CameraManage: two ports, of which another program    *)
(* may use the first.  The table of the machine may have too many rows, or *)
(* a row whose upper bytes were not set.                                   *)
(***************************************************************************)
EXTENDS CameraManage

MCPorts == {1, 2}
MCTcpTables == {{}, {256, 5 * 256}, {65536 + 256}, TooLong}
MCOnePort == {1}
MCEmptyTable == {{}}
=============================================================================
