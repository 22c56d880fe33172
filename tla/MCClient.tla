----------------------------- MODULE MCClient -----------------------------
(* Model checking Client.                                                 *)
EXTENDS Client

(* A robot that everything happens to, one whose periods do last some time *)
(* and one that nothing bad happens to; and one whose connections may fail.*)
HardAndFavoured == {AllFaults, AllFaults \ {"instant"}, {"crowd", "lifetime", "instant"}}
ConnectFails == {{"connect"}}
=============================================================================
