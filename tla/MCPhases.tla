------------------------------ MODULE MCPhases ------------------------------
(* Model checking Phases.                                                  *)
EXTENDS Phases
=============================================================================
