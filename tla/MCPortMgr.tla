------------------------------ MODULE MCPortMgr ------------------------------
(* Model checking PortMgr: connections only, or with one active FTP listener. *)
EXTENDS PortMgr
=============================================================================
