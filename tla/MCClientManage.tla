--------------------------- MODULE MCClientManage ---------------------------
(***************************************************************************)
(* Small instances of ClientManage.                                        *)
(***************************************************************************)
EXTENDS ClientManage
=============================================================================
