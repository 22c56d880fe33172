------------------------------- MODULE Phases -------------------------------
(***************************************************************************)
(* The phases of a test and their synchronization across processes         *)
(* (src/runtime/StatPhaseMgr.cc, StatPhase.cc, StatPhaseSync.cc and the    *)
(* transactions that carry positions).                                     *)
(*                                                                         *)
(* Every client and server process walks through the same phases.  A       *)
(* process that met the goal of a phase waits for the processes it knows   *)
(* of.  Clients put their position into requests; a server answers with    *)
(* the smallest position it knows of, its own included.  The network is    *)
(* external: a message that was ever sent may arrive, at any time and any  *)
(* number of times, or never.                                              *)
(*                                                                         *)
(* Working set freezing and warm-up plans lock the phase of a client.      *)
(***************************************************************************)
EXTENDS Integers, FiniteSets, FiniteSetsExt

CONSTANTS
  Clients, Servers,  \* processes, each a group of its own (TheGroupId)
  N,                 \* number of configured phases
  Synced,            \* phases with doSynchronize
  WaitWss,           \* phases with waitWssFreeze
  Instant,           \* phases with a zero goal: it is met when they start
  Freezers,          \* clients with a working set size goal (TheWssFreezer)
  Planners,          \* clients with a warm-up plan
  Quitters           \* processes whose negative goal may be reached

(* A definition marked "Variant" is a faulty form of the one below it.  No *)
(* specification uses a variant: each stands for a mistake that one of the *)
(* properties has to notice.                                               *)

Procs == Clients \cup Servers

ASSUME ProcsAssumption ==
  /\ IsFiniteSet(Procs)
  /\ Clients \cap Servers = {}
  /\ Freezers \subseteq Clients /\ Planners \subseteq Clients
  /\ Quitters \subseteq Procs

ASSUME PhasesAssumption ==
  /\ N \in Nat \ {0}
  /\ Synced \subseteq 0..(N - 1)
  /\ WaitWss \subseteq 0..(N - 1)
  /\ Instant \subseteq 0..(N - 1)

\* Who exchanges messages with whom.
Links == (Clients \X Servers) \cup (Servers \X Clients)

VARIABLES
  mgr,      \* process -> its phase manager and current phase
  index,    \* TheStatPhaseSync.theIndex: process -> group -> last known position
  posMin,   \* TheStatPhaseSync.thePhaseSyncPosMin of each process
  said,     \* link -> positions ever sent over it
  founders  \* history: the groups a process knew when it left phase 0

vars == <<mgr, index, posMin, said, founders>>

-----------------------------------------------------------------------------
Positions == 0..N

\* Phase indices: -1 is the phase of waiting for traffic, N is "cold".
MgrFields ==
  [idx      : -1..N,
   positive : BOOLEAN,  \* reachedPositive: the goal of the phase is met
   ready    : BOOLEAN,  \* readyToStop
   sync     : BOOLEAN,  \* ltPhaseSync is held
   wss      : BOOLEAN,  \* ltWssFreeze is held
   warmup   : BOOLEAN,  \* ltWarmup is held
   wssState : {"none", "wait", "frozen"},  \* TheWssState
   plan     : {"none", "running", "done"}, \* the warm-up plan
   negative : BOOLEAN,  \* reachedNegative_: a negative goal ended the test
   down     : BOOLEAN]  \* the process has shut down

(* StatPhaseMgr::phaseSyncPos.                                             *)
PhaseSyncPos(m) == m.idx + (IF m.ready THEN 1 ELSE 0)

Known(row) == {q \in Procs : row[q] >= 0}

(* The smallest position in the index (the loop of notePhaseSync).         *)
PosMin(row) == IF Known(row) = {} THEN -1 ELSE Min({row[q] : q \in Known(row)})

(* StatPhaseSync::waitGroupCount.                                          *)
WaitGroupCount(row, pos) == Cardinality({q \in Known(row) : row[q] < pos})

Locked(m) == m.sync \/ m.wss \/ m.warmup

(* StatPhase::start locks a phase until the working set is frozen.         *)
LocksForWss(k, m) == k \in WaitWss /\ m.wssState = "wait"

(* The checkpoint() of StatPhase::start: phase k ends as soon as it starts *)
(* if its goal is met (a zero goal), and nothing holds it.                 *)
EndsAtOnce(k, m, row) ==
  /\ k \in Instant /\ ~LocksForWss(k, m)
  /\ k \in Synced => WaitGroupCount(row, k + 1) = 0

(* StatPhaseMgr::nextPhase and StatPhase::start, for process p with index  *)
(* row: p goes to the next phase that does not end at once.  Every phase   *)
(* has locks of its own; one that met its goal and is not locked for the   *)
(* working set waits for the groups behind.  A client without --idle_tout  *)
(* shuts down after the last phase, a server stays to answer               *)
(* (PolyApp::noteMsgStrEvent).                                             *)
NextPhase(p, m, row) ==
  LET k     == Min({i \in (m.idx + 1)..N : ~EndsAtOnce(i, m, row)})
      waits == k \in Instant /\ ~LocksForWss(k, m)
  IN [m EXCEPT !.idx = k, !.positive = k \in Instant,
               !.ready = waits, !.sync = waits, !.warmup = FALSE,
               !.wss = LocksForWss(k, m),
               !.down = k = N /\ p \in Clients]

(* The phase of waiting for traffic.                                       *)
Waiting ==
  [idx |-> -1, positive |-> FALSE, ready |-> FALSE, sync |-> FALSE,
   wss |-> FALSE, warmup |-> FALSE, wssState |-> "none", plan |-> "none",
   negative |-> FALSE, down |-> FALSE]

(* PolyClt::startServices: a client does not wait for traffic.  It enters  *)
(* the first phase and only then starts the freezer, which asks to fill    *)
(* the working set (ieWssFill) and so locks the phase it is in by then.    *)
StartServices(p) ==
  LET m == NextPhase(p, Waiting, [q \in Procs |-> -1])
  IN IF p \in Freezers
     THEN [m EXCEPT !.wss = m.idx \in WaitWss, !.wssState = "wait"]
     ELSE m

Init ==
  /\ mgr = [p \in Procs |-> IF p \in Clients THEN StartServices(p) ELSE Waiting]
  /\ index = [p \in Procs |-> [q \in Procs |-> -1]]
  /\ posMin = [p \in Procs |-> -1]
  /\ said = [l \in Links |-> {}]
  /\ founders = [p \in Procs |-> {}]

-----------------------------------------------------------------------------
(* Variant: the phase looks for others before it says that it is ready.    *)
CheckpointEarly(p, m, row) ==
  IF Locked(m) \/ ~m.positive THEN m
  ELSE IF m.idx \in Synced /\ ~m.ready /\ WaitGroupCount(row, m.idx) > 0
       THEN [m EXCEPT !.ready = TRUE, !.sync = TRUE]
       ELSE NextPhase(p, m, row)

(* StatPhase::checkpoint without a negative goal, for process p with index *)
(* row: a phase that is not locked and met its goal waits for the groups   *)
(* that are behind or ends.                                                *)
Checkpoint(p, m, row) ==
  IF Locked(m) \/ ~m.positive THEN m
  ELSE IF m.idx \in Synced /\ ~m.ready /\ WaitGroupCount(row, m.idx + 1) > 0
       THEN [m EXCEPT !.ready = TRUE, !.sync = TRUE]
       ELSE NextPhase(p, m, row)

(* All variables but said after process p's step to manager m, row, min.   *)
Becomes(p, m, row, min) ==
  /\ mgr' = [mgr EXCEPT ![p] = m]
  /\ index' = [index EXCEPT ![p] = row]
  /\ posMin' = [posMin EXCEPT ![p] = min]
  /\ founders' = IF mgr[p].idx <= 0 /\ m.idx > 0
                 THEN [founders EXCEPT ![p] = Known(row)] ELSE founders

LocalStep(p, m) == Becomes(p, m, index[p], posMin[p]) /\ UNCHANGED said

Running(p) == ~mgr[p].down /\ mgr[p].idx >= 0

(* StatPhaseMgr::stopTrafficWaiting: traffic ends a server's wait.         *)
StopTrafficWaiting(p) ==
  /\ mgr[p].idx = -1
  /\ LocalStep(p, NextPhase(p, mgr[p], index[p]))

(* The goal of the phase is met: an alarm or an event calls checkpoint().  *)
(* If the phase is locked, the call that unlocks it finds the goal met.    *)
GoalReached(p) ==
  /\ Running(p) /\ mgr[p].idx < N /\ ~mgr[p].positive
  /\ LocalStep(p, Checkpoint(p, [mgr[p] EXCEPT !.positive = TRUE], index[p]))

(* Variant: nextPhase increments thePhaseIdx whatever the goal.            *)
NegativeGoalReachedPast(p) ==
  /\ p \in Quitters
  /\ Running(p) /\ mgr[p].idx < N
  /\ LocalStep(p, [mgr[p] EXCEPT !.idx = N + 1, !.positive = FALSE, !.ready = FALSE,
                                 !.sync = FALSE, !.wss = FALSE, !.warmup = FALSE,
                                 !.negative = TRUE, !.down = TRUE])

(* A negative goal ends all phases and the process at once, locked or not. *)
NegativeGoalReached(p) ==
  /\ p \in Quitters
  /\ Running(p) /\ mgr[p].idx < N
  /\ LocalStep(p, [mgr[p] EXCEPT !.idx = N, !.positive = FALSE, !.ready = FALSE,
                                 !.sync = FALSE, !.wss = FALSE, !.warmup = FALSE,
                                 !.negative = TRUE, !.down = TRUE])

(* WssFreezer::startFreeze and StatPhase::noteInfoEvent(ieWssFreeze):      *)
(* TheWssState changes only after unlock() returns, so a phase that starts *)
(* inside unlock() still sees wssWaitFreeze.                               *)
WssFreeze(p) ==
  /\ Running(p) /\ mgr[p].wssState = "wait"
  /\ LET m == IF mgr[p].wss
              THEN Checkpoint(p, [mgr[p] EXCEPT !.wss = FALSE], index[p])
              ELSE mgr[p]
     IN LocalStep(p, [m EXCEPT !.wssState = "frozen"])

(* CltCfg::startWarmup when the first robot of a kind starts, and          *)
(* CltCfg::stopWarmup.                                                     *)
StartWarmup(p) ==
  /\ p \in Planners /\ Running(p) /\ mgr[p].idx < N /\ mgr[p].plan = "none"
  /\ LocalStep(p, [mgr[p] EXCEPT !.plan = "running", !.warmup = TRUE])

StopWarmup(p) ==
  /\ Running(p) /\ mgr[p].plan = "running"
  /\ LocalStep(p, Checkpoint(p, [mgr[p] EXCEPT !.plan = "done", !.warmup = FALSE],
                             index[p]))

-----------------------------------------------------------------------------
(* Variant: a server tells its own position.                               *)
SyncPosToSendOwn(p) == PhaseSyncPos(mgr[p])

(* Variant: a server speaks for its clients only.                          *)
SyncPosToSendMin(p) == IF p \in Clients THEN PhaseSyncPos(mgr[p]) ELSE posMin[p]

(* The position that p puts into a message: a client its own, a server the *)
(* smallest it knows of (StatPhaseSync::phaseSyncPos).                     *)
SyncPosToSend(p) ==
  IF p \in Clients THEN PhaseSyncPos(mgr[p])
  ELSE Min({posMin[p], PhaseSyncPos(mgr[p])})

(* A client sends a request; a server answers a client it has heard of.    *)
(* Receivers ignore a negative position.  Sending a position again changes *)
(* nothing: what was sent may arrive more than once anyway.                *)
PutPhaseSyncPos(p, q) ==
  LET pos == SyncPosToSend(p) IN
  /\ Running(p) /\ pos >= 0 /\ pos \notin said[<<p, q>>]
  /\ p \in Servers => q \in Known(index[p])
  /\ said' = [said EXCEPT ![<<p, q>>] = @ \cup {pos}]
  /\ UNCHANGED <<mgr, index, posMin, founders>>

(* Variant: only a position above the minimum makes the phase move on.     *)
UnlockedAboveMin(p, m, row, min) ==
  IF m.ready /\ PhaseSyncPos(m) < min /\ m.sync
  THEN Checkpoint(p, [m EXCEPT !.sync = FALSE], row) ELSE m

(* The end of StatPhaseSync::notePhaseSync.  Unlocking an unlocked lock is *)
(* salvaged.                                                               *)
Unlocked(p, m, row, min) ==
  IF m.ready /\ PhaseSyncPos(m) <= min /\ m.sync
  THEN Checkpoint(p, [m EXCEPT !.sync = FALSE], row) ELSE m

(* HttpSrvXact::doPhaseSync: a server also ends a phase because all        *)
(* clients met their goals.                                                *)
ReachedByClients(p, m, row, min) ==
  IF p \in Servers /\ PhaseSyncPos(m) < min /\ ~m.positive
  THEN Checkpoint(p, [m EXCEPT !.positive = TRUE], row) ELSE m

(* Variant: the minimum is not computed anew for a group seen first.       *)
NewPosMinKept(p, q, pos, row) == IF posMin[p] < pos THEN PosMin(row) ELSE posMin[p]

(* thePhaseSyncPosMin is recomputed if the new position exceeds it, or if  *)
(* the group was not known.                                                *)
NewPosMin(p, q, pos, row) ==
  IF index[p][q] < 0 \/ posMin[p] < pos THEN PosMin(row) ELSE posMin[p]

(* Xaction::doPhaseSync and StatPhaseSync::notePhaseSync: p receives a     *)
(* position of q.  A position that is no news is ignored, but any request  *)
(* makes a server look whether all clients are ahead.                      *)
DoPhaseSync(p, q, pos) ==
  LET news == pos > index[p][q]
      row  == IF news THEN [index[p] EXCEPT ![q] = pos] ELSE index[p]
      min  == IF news THEN NewPosMin(p, q, pos, row) ELSE posMin[p]
      m    == IF news THEN Unlocked(p, mgr[p], row, min) ELSE mgr[p]
  IN /\ Running(p) /\ pos \in said[<<q, p>>]
     /\ news \/ p \in Servers
     /\ Becomes(p, ReachedByClients(p, m, row, min), row, min)
     /\ UNCHANGED said

Next ==
  \/ \E p \in Servers : StopTrafficWaiting(p)
  \/ \E p \in Procs : GoalReached(p)
  \/ \E p \in Procs : NegativeGoalReached(p)
  \/ \E p \in Procs : WssFreeze(p)
  \/ \E p \in Procs : StartWarmup(p)
  \/ \E p \in Procs : StopWarmup(p)
  \/ \E l \in Links : PutPhaseSyncPos(l[1], l[2])
  \/ \E l \in Links : \E pos \in said[l] : DoPhaseSync(l[2], l[1], pos)

Spec == Init /\ [][Next]_vars

(* Traffic starts, goals are met, the working set fills up, plans end.     *)
Progress(p) ==
  StopTrafficWaiting(p) \/ GoalReached(p) \/ WssFreeze(p) \/ StopWarmup(p)

(* p tells q its present position, and q receives it.                      *)
Tell(p, q) ==
  \/ PutPhaseSyncPos(p, q)
  \/ Running(p) /\ DoPhaseSync(q, p, SyncPosToSend(p))

(* Processes make progress, and while robots go on sending requests, the   *)
(* present position of a process gets through sooner or later.             *)
FairSpec ==
  /\ Spec
  /\ \A p \in Procs : WF_vars(Progress(p))
  /\ \A l \in Links : WF_vars(Tell(l[1], l[2]))

-----------------------------------------------------------------------------
TypeOK ==
  /\ mgr \in [Procs -> MgrFields]
  /\ index \in [Procs -> [Procs -> -1..N]]
  /\ posMin \in [Procs -> -1..N]
  /\ said \in [Links -> SUBSET Positions]
  /\ founders \in [Procs -> SUBSET Procs]

(* thePhaseSyncPosMin, which notePhaseSync updates only when it must, is   *)
(* always the smallest position in the index.                              *)
PosMinIsExact == \A p \in Procs : posMin[p] = PosMin(index[p])

(* What a process believes of another was true: positions never go back,   *)
(* so late and repeated messages cannot make anyone look ready who is not. *)
BeliefsAreTrue ==
  /\ \A p, q \in Procs : index[p][q] <= PhaseSyncPos(mgr[q])
  /\ \A l \in Links : \A pos \in said[l] : pos <= PhaseSyncPos(mgr[l[1]])

(* A phase is held for synchronization only while some known process is    *)
(* behind, and a phase that is ready to stop is held by some lock: no      *)
(* unlock is missed.                                                       *)
HeldForAReason ==
  \A p \in Procs :
    /\ mgr[p].sync => mgr[p].ready /\ posMin[p] < PhaseSyncPos(mgr[p])
    /\ mgr[p].ready => Locked(mgr[p])

(* A phase is locked for the working set only until the set is frozen.     *)
WssLockIsNeeded == \A p \in Procs : mgr[p].wss => mgr[p].wssState = "wait"

(* Clients stay in step through a server: if client c knew server s, and s *)
(* client d, when they left the first phase, c never leaves a later phase  *)
(* that is synchronized for one that d is not ready for.                   *)
ClientsInStep ==
  \A c, d \in Clients : \A s \in founders[c] :
    /\ d \in founders[s]
    /\ mgr[c].idx >= 2 /\ mgr[c].idx - 1 \in Synced /\ ~mgr[c].negative
    => PhaseSyncPos(mgr[d]) >= mgr[c].idx

(* Known processes leave a synchronized phase together: the refinement of  *)
(* PhaseBarrier.                                                           *)
Barrier == INSTANCE PhaseBarrier WITH
             phase <- [p \in Procs |-> mgr[p].idx],
             pos   <- [p \in Procs |-> PhaseSyncPos(mgr[p])],
             knows <- [p \in Procs |-> Known(index[p])]

ImplementsBarrier == Barrier!BarrierSpec

(* If all clients and servers know of each other in the first phase and    *)
(* nobody gives up, everyone finishes all phases.                          *)
Acquainted ==
  /\ \A p \in Procs : mgr[p].idx = 0
  /\ \A l \in Links : index[l[1]][l[2]] >= 0

PhasesEnd ==
  Acquainted ~> \A p \in Procs : \/ mgr[p].idx = N
                                \/ \E q \in Procs : mgr[q].negative
=============================================================================
