---------------------------- MODULE MCCltConnMgr ----------------------------
(* Model checking CltConnMgr: an SSL address and a tunnel, or a plain one. *)
EXTENDS CltConnMgr

CONSTANTS plain, secure, tunnel

\* The tunnel may be substituted for the others.
TunnelSubst == [a \in Addrs |-> {tunnel} \ {a}]

NoSubst == [a \in Addrs |-> {}]
=============================================================================
