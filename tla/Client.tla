------------------------------- MODULE Client -------------------------------
(***************************************************************************)
(* Launch control of one robot: src/client/Client.cc with either           *)
(* src/client/SyncClt.cc, the best-effort robot that submits a request as  *)
(* soon as the previous one is done, or src/client/AsyncClt.cc, the        *)
(* constant-rate robot that submits by the clock; and                      *)
(* src/client/SessionMgr.cc, which alternates busy and idle periods.       *)
(*                                                                         *)
(* Transactions are counted, not named: they run (on a connection), wait   *)
(* in theLaunchDebts for a connection, or wait for an answer (ICP, DNS,    *)
(* Kerberos).  Connections are counted the same way; ConnSlots says what   *)
(* the connection manager makes of them.                                   *)
(*                                                                         *)
(* One action is one event of the main loop.  An event calls through many  *)
(* handlers that branch, so a handler is an operator from a robot to the   *)
(* set of robots it may leave behind, and an action picks one of them.     *)
(***************************************************************************)
EXTENDS Integers, Sequences, FiniteSets, SequencesExt

CONSTANTS
  Kinds,     \* kinds of robots: a subset of {"sync", "async"}
  Limit,     \* open_conn_lmt; negative: none
  WaitLimit, \* wait_xact_lmt, where it is set: how many transactions may wait
  Sessions,  \* what may end a busy period: a subset of SessionKinds
  XactGoal,  \* the transactions of a busy period that ends with a count
  FaultSets, \* what may go wrong for a robot: subsets of AllFaults
  MaxXacts,  \* bound on the transactions of the robot
  MaxExtra   \* bound on theExtraLaunchLvl

(* A definition marked "Variant" is a faulty form of the one below it.  No *)
(* specification uses a variant: each stands for a mistake that one of the *)
(* properties has to notice.                                               *)

(* A robot has no session manager, or a busy period of some duration, or   *)
(* one of some number of transactions.                                     *)
SessionKinds == {"none", "duration", "xacts"}

AllFaults ==
  {"connect",  \* a connection or a GSS context may not be had
   "resolve",  \* a DNS query may fail at once
   "answer",   \* an answer may be negative
   "hostless", \* a foreign URL may have no host
   "slow",     \* closing a connection may take a while
   "crowd",    \* wait_xact_lmt is set, and may be reached
   "unloaded", \* the load factor may be zero
   "lifetime", \* a waiting transaction may outlive xact_lifetime
   "instant",  \* a busy or an idle period may last no time
   "pipeline"} \* pipeline_depth lets a page share its connection

ASSUME LimitsAssumption ==
  /\ Limit \in Int \ {0} /\ WaitLimit \in Nat
  /\ XactGoal \in Nat \ {0}
  /\ MaxXacts \in Nat \ {0} /\ MaxExtra \in Nat

ASSUME SetsAssumption ==
  Kinds \subseteq {"sync", "async"} /\ Sessions \subseteq SessionKinds /\ FaultSets \subseteq SUBSET AllFaults

VARIABLE robot

vars == <<robot>>

-----------------------------------------------------------------------------
(* Alarms in the order they ring.  The "launch" alarm of a best-effort     *)
(* robot is due at once, that of a constant-rate robot at any later time.  *)
(* TheClock is updated more often than alarms are rung, so a "session"     *)
(* alarm that is still there may be due before or after the former.  One   *)
(* that is set later is due later, unless the period that begins lasts no  *)
(* time: alarms that are due at the same time ring in any order, as the    *)
(* heap of AlarmClock keeps none among equals.                             *)
Alarms == {"launch", "session"}

InitialRobot ==
  [kind      |-> "sync",
   state     |-> "off",   \* isRunning; "over" once all phases have ended
   session   |-> "none",
   faults    |-> {},      \* what may go wrong for this robot
   isIdle    |-> FALSE,
   sessIdle  |-> FALSE,   \* SessionMgr::isIdle
   xactCnt   |-> 0,       \* transactions of this busy period
   lvl       |-> 0,       \* theCcXactLvl: transactions that run
   debts     |-> 0,       \* theLaunchDebts.count()
   asked     |-> 0,       \* transactions that wait for an answer
   extra     |-> 0,       \* theExtraLaunchLvl
   used      |-> 0,       \* connections that transactions run on
   kept      |-> 0,       \* idle connections
   closing   |-> 0,       \* connections that take a while to close
   alarms    |-> << >>,
   failure   |-> "none"]  \* the Assert() that ended the process, if any

Init ==
  \E kind \in Kinds, session \in Sessions, faults \in FaultSets :
    robot = [InitialRobot EXCEPT !.kind = kind, !.session = session, !.faults = faults]

Xacts(r) == r.lvl + r.debts + r.asked

LaunchPending(r) == Contains(r.alarms, "launch")

SetLaunchAlarm(r) ==
  {[r EXCEPT !.alarms = InsertAt(@, i, "launch")] : i \in 1..(Len(r.alarms) + 1)}

SetSessionAlarm(r) ==
  {[r EXCEPT !.alarms = InsertAt(@, i, "session")] :
     i \in {k \in 1..(Len(r.alarms) + 1) :
             r.kind = "sync" /\ "instant" \notin r.faults =>
               \A j \in k..Len(r.alarms) : r.alarms[j] # "launch"}}

(* AlarmUser::cancelAlarms: what is left are the alarms of the other user. *)
CancelAlarms(q, user) ==
  LET left == {i \in DOMAIN q : q[i] # user}
      other == CHOOSE a \in Alarms : a # user IN
  [i \in 1..Cardinality(left) |-> other]

-----------------------------------------------------------------------------
(* Variant: transactions go on waiting while the robot is idle.            *)
BecomeIdleWaiting(r) ==
  {[r EXCEPT !.isIdle = TRUE, !.extra = 0, !.kept = 0]}

(* Variant: the next request stays scheduled.                              *)
UnscheduledNot(r) == r

(* AsyncClt::becomeIdle unschedules the next request first.                *)
Unscheduled(r) ==
  IF r.kind = "sync" THEN r
  ELSE [r EXCEPT !.alarms = CancelAlarms(@, "launch")]

(* Client::becomeIdle: waiting transactions are canceled, idle connections *)
(* are closed.                                                             *)
BecomeIdle(r) ==
  {[Unscheduled(r) EXCEPT !.isIdle = TRUE, !.debts = 0, !.extra = 0, !.kept = 0,
             !.closing = @ + slow] :
     slow \in IF "slow" \in r.faults THEN 0..r.kept ELSE {0}}

(* Client::stop and SessionMgr::stop, which ends a session in any case.    *)
Stopped(r) ==
  IF r.session # "none"
  THEN {[s EXCEPT !.sessIdle = TRUE,
                  !.alarms = CancelAlarms(@, "session")] :
          s \in BecomeIdle(r)}
  ELSE IF r.isIdle THEN {r} ELSE BecomeIdle(r)

(* Events of connections are broadcast; the last phase may end with one,   *)
(* and then the robot is stopped before the call returns.                  *)
MayEnd(r) ==
  {r} \cup (IF r.state = "on" THEN Stopped([r EXCEPT !.state = "over"]) ELSE {})

(* Client::launchCanceled, SyncClt::launchCanceled and the one of AsyncClt,*)
(* which only warns.                                                       *)
LaunchCanceled(r) ==
  IF r.kind = "sync" /\ ~r.isIdle /\ ~LaunchPending(r) /\ r.lvl = 0 THEN SetLaunchAlarm(r) ELSE {r}

(* CltConnMgr::atHardConnLimit.                                            *)
AtHardConnLimit(r) == Limit >= 0 /\ r.used + r.closing >= Limit

(* CltConnMgr::get reuses an idle connection or opens one; at the limit it *)
(* first closes an idle one, which does not take a while (or get()'s       *)
(* assertion ends the process, see CltConnMgr).                            *)
Get(r) ==
  (IF r.kept > 0 THEN {[r EXCEPT !.kept = @ - 1, !.used = @ + 1]} ELSE {})
  \cup {[r EXCEPT !.used = @ + 1,
                  !.kept = IF Limit >= 0 /\ r.used + @ + r.closing >= Limit
                           THEN @ - 1 ELSE @]}

(* Client::launch: the robots for which it returns true.                   *)
Launched(r) ==
  {[s EXCEPT !.lvl = @ + 1] : s \in UNION {MayEnd(g) : g \in Get(r)}}

Ask(r) == IF Xacts(r) < MaxXacts THEN {[r EXCEPT !.asked = @ + 1]} ELSE {}

(* Client::authAndLaunch, as far as it returns true, and as far as it      *)
(* returns false.                                                          *)
AuthAndLaunch(r) == Launched(r) \cup Ask(r)
AuthOrLaunchFails(r) == IF "connect" \in r.faults THEN LaunchCanceled(r) ELSE {}

(* The same for the end of Client::tryLaunch(x), once the address is known:*)
(* Client::suspendXact at the limit.                                       *)
MayWait(r) == "crowd" \notin r.faults \/ r.debts < WaitLimit

Admitted(r) ==
  IF ~AtHardConnLimit(r) THEN AuthAndLaunch(r)
  ELSE IF MayWait(r) THEN {[r EXCEPT !.debts = @ + 1]} ELSE {}

Refused(r) ==
  IF ~AtHardConnLimit(r) THEN AuthOrLaunchFails(r)
  ELSE IF MayWait(r) THEN {} ELSE LaunchCanceled(r)

(* Variant: tryLaunch(x) does not ask whether the robot is idle.           *)
TryLaunchTrueAlways(r) == Ask(r) \cup Admitted(r)

(* The same for all of Client::tryLaunch(x).  A transaction without a next *)
(* hop is neither launched nor canceled.                                   *)
TryLaunchTrue(r) == IF r.isIdle THEN {} ELSE Ask(r) \cup Admitted(r)

TryLaunchFalse(r) ==
  IF r.isIdle THEN LaunchCanceled(r)
  ELSE Refused(r)
       \cup (IF "resolve" \in r.faults THEN LaunchCanceled(r) ELSE {})
       \cup (IF "hostless" \in r.faults THEN {r} ELSE {})

TryLaunchXact(r) == TryLaunchTrue(r) \cup TryLaunchFalse(r)

(* Client::tryLaunch() makes up for launches that were not planned.        *)
TryLaunch(r) ==
  IF r.extra > 0 THEN {[r EXCEPT !.extra = @ - 1]} ELSE TryLaunchXact(r)

(* scheduleLaunch of SyncClt, which launches at once, and of AsyncClt.     *)
ScheduleLaunch(r) ==
  IF r.isIdle THEN {r}
  ELSE IF LaunchPending(r) THEN {[r EXCEPT !.failure = "pendAlarm"]}
  ELSE IF r.kind = "sync" THEN TryLaunchXact(r)
  ELSE SetLaunchAlarm(r) \cup (IF "unloaded" \in r.faults THEN {r} ELSE {})

(* Client::becomeBusy.                                                     *)
BecomeBusy(r) == ScheduleLaunch([r EXCEPT !.isIdle = FALSE])

(* Variant: becomeBusy() does not restart the statistics.                  *)
SessionBusyContinued(r) ==
  LET begun == BecomeBusy([r EXCEPT !.sessIdle = FALSE]) IN
  IF r.session = "duration" THEN UNION {SetSessionAlarm(s) : s \in begun}
  ELSE begun

(* Variant: becomeIdle() sets no alarm.                                    *)
SessionIdleForever(r) == {[s EXCEPT !.sessIdle = TRUE] : s \in BecomeIdle(r)}

(* SessionMgr::becomeBusy and SessionMgr::becomeIdle.                      *)
SessionBusy(r) ==
  LET begun == BecomeBusy([r EXCEPT !.sessIdle = FALSE, !.xactCnt = 0]) IN
  IF r.session = "duration" THEN UNION {SetSessionAlarm(s) : s \in begun}
  ELSE begun

SessionIdle(r) ==
  UNION {SetSessionAlarm([s EXCEPT !.sessIdle = TRUE]) :
           s \in UNION {MayEnd(b) : b \in BecomeIdle(r)}}

-----------------------------------------------------------------------------
(* SessionMgr::noteXactDone and SessionMgr::checkPoint.                    *)
SessionNoteXactDone(r) ==
  IF r.session # "xacts" \/ r.sessIdle THEN {r}
  ELSE IF r.xactCnt + 1 < XactGoal THEN {[r EXCEPT !.xactCnt = @ + 1]}
       ELSE SessionIdle([r EXCEPT !.xactCnt = @ + 1])

(* ConnMgr::put: the connection is kept, unless the robot is idle, or it   *)
(* is closed.                                                              *)
Put(r) ==
  LET last == [r EXCEPT !.used = @ - 1] IN
  {last}
  \cup (IF r.isIdle THEN {} ELSE {[last EXCEPT !.kept = @ + 1]})
  \cup (IF "slow" \in r.faults THEN {[last EXCEPT !.closing = @ + 1]} ELSE {})

(* Variant: a waiting transaction is not resumed.                          *)
PushForwardNoResume(r) ==
  IF r.lvl = 0 /\ r.kind = "sync" THEN TryLaunch([r EXCEPT !.extra = 0]) ELSE {r}

(* Variant: the lone transaction is not followed up.                       *)
PushForwardOnce(r) ==
  IF r.debts > 0 /\ ~AtHardConnLimit(r)
  THEN AuthAndLaunch([r EXCEPT !.debts = @ - 1])
  ELSE {r}

(* The end of Client::noteXactDone: Client::resumeXact or, for a           *)
(* best-effort robot, SyncClt::loneXactFollowup.                           *)
PushForward(r) ==
  IF r.debts > 0 /\ ~AtHardConnLimit(r)
  THEN LET first == [r EXCEPT !.debts = @ - 1] IN
       AuthAndLaunch(first) \cup AuthOrLaunchFails(first)
  ELSE IF r.lvl = 0 /\ r.kind = "sync" THEN TryLaunch([r EXCEPT !.extra = 0])
  ELSE {r}

(* Client::noteXactDone with a retry: it is launched, as an extra launch   *)
(* unless it continues a compound transaction, or given up.                *)
Retry(r) ==
  TryLaunchTrue(r)
  \cup {[s EXCEPT !.extra = @ + 1] : s \in {t \in TryLaunchTrue(r) : t.extra < MaxExtra}}
  \cup UNION {PushForward(s) : s \in TryLaunchFalse(r)}

(* Client::noteXactDone of a running transaction.                          *)
NoteXactDone(r) ==
  LET put == UNION {Put(s) : s \in SessionNoteXactDone(r)}
      left == {[s EXCEPT !.lvl = @ - 1] : s \in UNION {MayEnd(p) : p \in put}} IN
  UNION {IF s.isIdle THEN {s} ELSE Retry(s) \cup PushForward(s) : s \in left}

-----------------------------------------------------------------------------
(* PolyClt::startClients.  The main loop rings all alarms that are due     *)
(* before it starts a robot again.                                         *)
Start ==
  /\ robot.state = "off" /\ ~LaunchPending(robot)
  /\ LET r == [robot EXCEPT !.state = "on"] IN
     robot' \in IF r.session = "none" THEN BecomeBusy(r) ELSE SessionBusy(r)

(* PolyClt::stopClients.                                                   *)
Stop == robot.state = "on" /\ robot' \in Stopped([robot EXCEPT !.state = "off"])

(* The last phase ends, by time: Client::noteMsgStrEvent.                  *)
PhasesEnd == robot.state = "on" /\ robot' \in Stopped([robot EXCEPT !.state = "over"])

XactDone == robot.lvl > 0 /\ robot' \in NoteXactDone(robot)

(* Client::noteRedirect and Client::noteEmbedded, called by a running      *)
(* transaction.  Where the embedded object may be asked for on the         *)
(* connection of its page, HttpCltXact::pipeline ends the process: see     *)
(* Pipeline in CltConnMgr.                                                 *)
NoteChild ==
  /\ robot.lvl > 0
  /\ Xacts(robot) < MaxXacts /\ robot.extra < MaxExtra
  /\ \/ \E r \in TryLaunchTrue(robot) : robot' = [r EXCEPT !.extra = @ + 1]
     \/ robot' \in TryLaunchFalse(robot)

NotePipelined ==
  /\ "pipeline" \in robot.faults
  /\ robot.lvl > 0
  /\ robot' = [robot EXCEPT !.failure = "pipeline"]

(* Client::notePeerAsked, noteAddrLookup and noteGssContext.  All of them  *)
(* go through tryLaunch(x) again: after a peer's answer the address is     *)
(* still to be found, and looking it up may fail at once or lead to        *)
(* another question.  Which answer it is the count does not tell, so the   *)
(* other two are given the same choices.                                   *)
NoteAnswer ==
  /\ robot.asked > 0
  /\ LET r == [robot EXCEPT !.asked = @ - 1] IN
     \/ robot' \in TryLaunchXact(r)
     \/ "answer" \in robot.faults /\ robot' \in LaunchCanceled(r)

(* CltXact::wakeUp of a waiting transaction: Client::dequeSuspXact, and    *)
(* then Client::noteXactDone returns at once as there is no connection.    *)
WaitingExpires ==
  /\ "lifetime" \in robot.faults
  /\ robot.debts > 0
  /\ robot' = [robot EXCEPT !.debts = @ - 1]

(* SyncClt::wakeUp, and AsyncClt::wakeUp, which schedules the next launch  *)
(* before it tries this one.  At the bound MaxXacts the latter is skipped. *)
LaunchAlarm ==
  /\ robot.alarms # << >> /\ Head(robot.alarms) = "launch"
  /\ LET r == [robot EXCEPT !.alarms = Tail(@)] IN
     robot' \in IF r.kind = "sync" THEN TryLaunch(r)
                ELSE IF Xacts(r) < MaxXacts
                THEN UNION {TryLaunch(s) : s \in ScheduleLaunch(r)}
                ELSE ScheduleLaunch(r)

(* SessionMgr::wakeUp.                                                     *)
SessionAlarm ==
  /\ robot.alarms # << >> /\ Head(robot.alarms) = "session"
  /\ LET r == [robot EXCEPT !.alarms = Tail(@)] IN
     robot' \in IF r.sessIdle THEN SessionBusy(r) ELSE SessionIdle(r)

(* An idle connection is closed, or one has been closing for long enough.  *)
IdleCloses ==
  /\ robot.kept > 0
  /\ \/ \E r \in MayEnd([robot EXCEPT !.kept = @ - 1]) : robot' = r
     \/ "slow" \in robot.faults /\ robot' = [robot EXCEPT !.kept = @ - 1, !.closing = @ + 1]

CloseEnds ==
  /\ robot.closing > 0
  /\ robot' \in MayEnd([robot EXCEPT !.closing = @ - 1])

\* A failed Assert() ends the process.
Alive == robot.failure = "none"

Next ==
  \/ Alive /\ Start
  \/ Alive /\ Stop
  \/ Alive /\ PhasesEnd
  \/ Alive /\ XactDone
  \/ Alive /\ NoteChild
  \/ Alive /\ NotePipelined
  \/ Alive /\ NoteAnswer
  \/ Alive /\ WaitingExpires
  \/ Alive /\ LaunchAlarm
  \/ Alive /\ SessionAlarm
  \/ Alive /\ IdleCloses
  \/ Alive /\ CloseEnds

Spec == Init /\ [][Next]_vars

(* Transactions end (xact_lifetime), queries are answered or time out,     *)
(* closes end, alarms ring; and as time passes a session alarm is not      *)
(* forever due after launch alarms that are set anew.  A launch that fails *)
(* at once and leaves all as it was is a stuttering step: fairness says    *)
(* that launches do not fail forever.                                      *)
FairSpec ==
  /\ Spec
  /\ WF_vars(Alive /\ XactDone) /\ WF_vars(Alive /\ NoteAnswer)
  /\ WF_vars(Alive /\ CloseEnds)
  /\ WF_vars(Alive /\ LaunchAlarm) /\ SF_vars(Alive /\ SessionAlarm)
  /\ []<>(~Alive \/ ~Contains(robot.alarms, "session")
            \/ Head(robot.alarms) = "session")

-----------------------------------------------------------------------------
TypeOK ==
  /\ robot.kind \in Kinds
  /\ robot.state \in {"off", "on", "over"} /\ robot.session \in SessionKinds
  /\ robot.faults \in FaultSets
  /\ robot.isIdle \in BOOLEAN /\ robot.sessIdle \in BOOLEAN
  /\ robot.xactCnt \in 0..XactGoal
  /\ robot.lvl \in Nat /\ robot.debts \in Nat /\ robot.asked \in Nat
  /\ robot.extra \in 0..(MaxExtra + 1)
  /\ robot.used \in Nat /\ robot.kept \in Nat /\ robot.closing \in Nat
  /\ robot.alarms \in Seq(Alarms)
  /\ robot.failure \in {"none", "pendAlarm", "pipeline"}

(* theCcXactLvl counts the transactions that use connections, each its own.*)
LevelsAgree == robot.lvl = robot.used

(* open_conn_lmt also holds for the connections the robot has launched on. *)
WithinConnLimit == Limit >= 0 => robot.used + robot.kept <= Limit

(* An idle robot keeps no transaction waiting and no idle connection, also *)
(* when it became idle in the middle of a handler.                         *)
IdleKeepsNothing == robot.isIdle => robot.debts = 0 /\ robot.kept = 0

(* The robot is busy when its session manager is.                          *)
RobotFollowsSession == robot.session # "none" => robot.isIdle = robot.sessIdle

(* The robot's counters, its connection limit, its idleness and its        *)
(* session manager agree after every event, however many handlers the      *)
(* event went through and wherever in them the robot was stopped.          *)
RobotIsConsistent ==
  LevelsAgree /\ WithinConnLimit /\ IdleKeepsNothing /\ RobotFollowsSession

(* scheduleLaunch() finds no launch pending: Assert(!thePendAlarmCnt).  A  *)
(* period that lasts no time is the exception: its alarm may ring before   *)
(* the launch alarm that a best-effort robot took over from the last one.  *)
PendAlarmAssertHolds == robot.failure = "pendAlarm" => "instant" \in robot.faults

(* "No xaction should restart when we are idle": an idle robot only has    *)
(* fewer and fewer transactions, whatever still ends or is answered.       *)
IdleStartsNothing ==
  [][robot.isIdle /\ robot'.isIdle /\ robot'.state = robot.state =>
       robot'.lvl <= robot.lvl /\ Xacts(robot') <= Xacts(robot)]_vars

(* A robot whose launches do not come to nothing and whose connections     *)
(* close at once.  A DNS query that fails at once is enough to spoil it:   *)
(* after a peer's answer nobody else gets the slot that was handed over.   *)
Favourable == {"crowd", "lifetime", "instant", "pipeline"}
Favoured == robot.faults \subseteq Favourable

(* A busy robot always has something to wake it up: a transaction, an      *)
(* answer or an alarm.  "If no alarms are pending, we may get stuck and    *)
(* submit no more xactions."                                               *)
Stuck ==
  /\ robot.state = "on" /\ ~robot.isIdle
  /\ robot.lvl = 0 /\ robot.asked = 0 /\ robot.alarms = << >>

NeverStuck == ~Stuck

(* A transaction waits for a connection only while the limit is reached by *)
(* those that run or are about to: noteXactDone() hands each slot over.    *)
WaitingIsNeeded ==
  Favoured /\ robot.debts > 0 => robot.used + robot.asked >= Limit

(* A busy robot gets to run a transaction again and again, unless a failed *)
(* Assert() ends the process.                                              *)
BusyRuns ==
  Favoured /\ robot.state = "on" /\ ~robot.isIdle
    ~> (robot.lvl > 0 \/ robot.isIdle \/ ~Alive)

(* Sessions alternate: a busy period of some duration ends, an idle one    *)
(* too, even if the robot cannot do anything; unless the process ends.     *)
SessionsAlternate ==
  robot.session = "duration" =>
    /\ robot.state = "on" /\ ~robot.isIdle ~> (robot.isIdle \/ ~Alive)
    /\ robot.state = "on" /\ robot.isIdle
         ~> (~robot.isIdle \/ robot.state # "on" \/ ~Alive)
=============================================================================
