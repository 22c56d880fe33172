---------------------------- MODULE PhaseBarrier ----------------------------
(***************************************************************************)
(* What phase synchronization promises: a process leaves a synchronized    *)
(* phase only when every process it knows of is ready to leave it, or      *)
(* gives up all phases at once.                                            *)
(***************************************************************************)
EXTENDS Integers

CONSTANTS Procs, N, Synced

VARIABLES
  phase,  \* process -> the phase it is in
  pos,    \* process -> the phase it is in, or the next one if ready for it
  knows   \* process -> the processes it knows of

bvars == <<phase, pos, knows>>

(* Nobody knows of anybody: phases may have been passed already.           *)
BarrierInit ==
  /\ phase \in [Procs -> -1..N]
  /\ pos = phase
  /\ knows = [p \in Procs |-> {}]

(* p may learn of others, become ready, and leave its phase, and others    *)
(* after it, for phase k.                                                  *)
Move(p) ==
  LET k == phase'[p] IN
  /\ knows[p] \subseteq knows'[p] /\ k >= phase[p] /\ pos'[p] >= pos[p]
  /\ pos'[p] \in {k, k + 1}
  /\ \A j \in phase[p]..(k - 1) :
       j \in Synced => \A q \in knows'[p] : pos[q] >= j + 1

GiveUp(p) == phase'[p] = N /\ pos'[p] = N /\ knows'[p] = knows[p]

BarrierNext ==
  \E p \in Procs :
    /\ \A q \in Procs \ {p} :
         phase'[q] = phase[q] /\ pos'[q] = pos[q] /\ knows'[q] = knows[q]
    /\ Move(p) \/ GiveUp(p)

BarrierSpec == BarrierInit /\ [][BarrierNext]_bvars
=============================================================================
