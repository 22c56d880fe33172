------------------------------ MODULE MCDnsMgr ------------------------------
(* Model checking DnsMgr.                                                  *)
EXTENDS DnsMgr
=============================================================================
