# Web Polygraph: a verification of its run-time core

Web Polygraph is a benchmark for web intermediaries. A client process runs many
*robots*, a server process many virtual servers; each process is one thread around
an event loop that serves thousands of sockets. The code is C++ under `src/src/`.
This directory holds TLA+ models of the parts of that loop in which many small
objects share state and call back into each other, TLC configurations that check
them on small instances, and proofs of what matters most.

Everything in a process happens in one thread, so there are no data races. What is
hard is *re-entrancy and order*: a handler broadcasts an event, the event ends a
phase, the phase stops all robots, and the robots close connections before the
handler returns; sockets are closed and their numbers reused while the events of
the old ones are still being delivered; something waits for a slot that nobody hands
over.

## 1. Inventory

| Component | State | Operations | Interacts with |
|---|---|---|---|
| Port managers (`runtime/PortMgr`, `ExpPortMgr`) | two rings of local ports (valid, last use failed), level of bound ports | bind, release | connections, active FTP listeners; the system may refuse any port |
| Client connection pool (`client/CltConnMgr`, `runtime/ConnMgr`, `client/ConnHash`) | open connections, idle queue, idle hash, level, use counts of each connection | get, put, closeIdle, closeAllIdle, asynchronous close, timeouts | robots, transactions, file scanner, broadcasts |
| File scanner (`xstd/FileScanner`, `Epoll`, `Poll`, `Select`) | registration of each descriptor (reservations, blocking direction, timer, priority), the kernel's interest list, events of this cycle | setFD, clearFD, setReadNeedsWrite, setWriteNeedsRead, setTimeout, setPriority, forceReady, scan | everyone who does I/O, through callbacks that call the scanner again |
| Robot (`client/Client`, `SyncClt`, `AsyncClt`) | busy or idle, running transactions, waiting transactions, extra launches, launch alarm | start, stop, tryLaunch, noteXactDone, noteRedirect, noteEmbedded, answers of ICP, DNS, Kerberos | pool, session manager, alarm clock, phases |
| Session manager (`client/SessionMgr`) | busy or idle period, its statistics and alarms | start, stop, noteXactDone, wakeUp | its robot |
| Population (`client/PolyClt`) | started and available robots | startClients, stopClients | robots |
| Phases (`runtime/StatPhase`, `StatPhaseMgr`, `StatPhaseSync`, `Goal`; `client/WarmupPlan`, `WssFreezer`) | current phase, its locks, its goal, the working set's state, last known positions of other processes | checkpoint, lock, unlock, nextPhase, notePhaseSync | everything, by broadcast; other processes, by positions in requests and responses |
| DNS client (`dns/DnsMgr`, `DnsXact`, `DnsCache`, `DnsMsg`) | lookups under way, last identifier, socket and reservation, cache with LRU queue | start, stop, lookup, instantLookup, replies, timeouts, retries | robots, servers by UDP, alarm clock |
| Pipelining (`client/PipelinedCxm`, `SingleCxm`) | who fills, writes and reads a connection | control, noteDone, noteAbort | transactions, connection |
| Alarm clock (`xstd/AlarmClock`) | heap of alarms | setAlarm, cancelAll, ring | all alarm users |
| Kerberos, ICP | outstanding queries, tickets | lookup, answers, timeouts | robots |
| Server side (`server/`) | listening sockets, idle connections, transactions | accept, noteDone, timeouts | scanner, pool base class |
| Cache model, working sets, workers, BEEP, parsers, PGL, csm, analysis tools | see `PROJECT.json` | | |

What is hard, and what makes each modelled part correct:

* **Ports.** A port has one owner; none is lost, even when the pool is exhausted and
  the system refuses ports; the level counts the ports taken.
* **Pool.** Queue, hash, counters and the connections' own fields tell the same
  story; nobody gets more than `open_conn_lmt` connections; a connection that started
  to close is not used again, and goes.
* **Scanner.** The kernel watches what users wait for; a user is told what it waits
  for and nothing else; an event never reaches the next owner of a descriptor.
* **Robot.** An idle robot lets go of everything and starts nothing; a busy robot
  goes on running transactions; a free connection slot goes to whoever waits for it;
  busy and idle periods alternate.
* **Phases.** A process leaves a synchronized phase only when all it knows of are
  ready to, although positions are late, repeated or lost; and all of them finish.
* **DNS.** Whoever asks is called back once, with an address of the name it asked
  for, although identifiers wrap around and replies are late, repeated or lost.

`PROJECT.json` lists the hazards at their lines.

## 2. Modules

| Module | Models |
|---|---|
| `PortMgr` | `ExpPortMgr` with the sockets that draw ports from it |
| `PortMgrProofs`, `CltConnMgrProofs`, `TheFileScannerProofs`, `ClientProofs`, `PhasesProofs`, `DnsMgrProofs` | the theorems about the module each is named after |
| `DistinctSeqs` | lemmas on sequences without duplicates, minima and maxima, shared by the proofs |
| `ConnSlots` | abstract: what a connection manager promises a robot |
| `CltConnMgr` | the pool; shown to implement `ConnSlots` |
| `FileScanner` | what all scanners share, the users' calls and the main loop's choice of cycles |
| `Epoll`, `Poll`, `Select` | the three scanners, on top of `FileScanner` |
| `TheFileScanner` | the scanner of a process: one of the three, chosen at the start |
| `Client` | launch control of a best-effort or constant-rate robot with its session manager |
| `PhaseBarrier` | abstract: what phase synchronization promises |
| `Phases` | the phases of all processes of a test; shown to implement `PhaseBarrier` |
| `DnsMgr` | the DNS lookups of the robots of a process and their cache |
| `MC...` | the instances for TLC |

### PortMgr

State: the two rings as sequences, the port of each socket (`Connection::theLocPort`,
or the socket of an FTP listener), `TheBoundLvl`. `Bind` is `PortMgr::bind` with
`ExpPortMgr::allocPort`; the set `refused` is what the system refuses during this one
call. Ports that are tried and refused move to the void ring, and an allocation that
fails leaves all ports there (`AllocFailed`). `Release` is `Connection::rawCloseNow`,
`StopDataListen` is `FtpCltXact::stopDataListen`, which closes the listening socket
without telling the port manager.

### CltConnMgr and ConnSlots

State: `TheConnIdx` (open connections), `theConnLvl`, the fields of each connection
that reuse decisions read, `theIdleQueue`, `theIdleHash`, and `failure`, the `Assert`
that ended the process. One action is one call into the manager. The broadcasts made
inside a call may stop the robot, which closes all idle connections before the
call returns: that is the set `ended` in each action. A close may linger when the
connection uses SSL (`MayLinger`). `ConnSlots` only knows which connections
are used, idle and closing; `ImplementsSlots` is the refinement, with
`InUse`, `Idle` and `Closing` as the mapping. It implies that a connection that is
closing only ever disappears and that used and idle connections keep to the limit.

`Pipeline` ends the process: `HttpCltXact::pipeline` (`HttpCltXact.cc:104`) calls
`theMgr->release()` for a transaction that gets its first manager only in `exec()`
(`CltXact.cc:28`, `HttpCltXact.cc:141`), so no second transaction ever joins a
connection and use levels stay at one.

### FileScanner, Epoll, Poll, Select and TheFileScanner

State: reservations and registration of each descriptor, `theMaxFD`, the program counter of the
scan cycle, the callback that is running, the sockets' readiness; for epoll the
kernel's interest list and the descriptors cleared in this cycle, for poll the directions
asked for. `hot` is the copy of the reported events that each scanner walks through.
A user acts inside its callback or between two cycles; it may open, close, reopen,
reserve, clear, block or set timers for any descriptor. `UsesOf` says what users do with
which scanner, so that each run concentrates on some of it. `TheFileScanner` takes all
three in one instance; the choice is made in `Init` and kept.

### Client

State: one record, `robot`. An event passes through many handlers that branch, call
each other and may be re-entered, so each handler is an operator from a robot to the
set of robots it may leave behind; an action picks one. Handlers that return a
truth value are two operators (`TryLaunchTrue`, `TryLaunchFalse`), because their
callers go on differently. Where `SyncClt` and `AsyncClt` override a handler the
operator looks at `robot.kind` (`Unscheduled`, `LaunchCanceled`, `ScheduleLaunch`,
`PushForward`, `LaunchAlarm`). Transactions and connections are counted. Alarms are
a sequence in the order they ring: the launch alarm of a best-effort robot is due at once, but
`TheClock` moves more often than alarms are rung, so an overdue session alarm may be
before it; that of a constant-rate robot is due at any time. A session alarm is due after the launch
alarms that are pending, unless the period may last no time (`SessionMgr.cc:109`, the fault
`"instant"`): equal times keep no order in the heap. An answer continues `tryLaunch()` where it
stopped, so a DNS query may follow the answer of a peer, and fail at once.
`MayEnd` is the end of the last phase inside a broadcast. `robot.faults`, fixed at the
start, is what may go wrong for this robot.

### Phases and PhaseBarrier

State: of each process its phase manager and current phase (`mgr`), the index and the minimum
of `StatPhaseSync`, and of each pair of a client and a server the positions ever sent.
Nothing is ever removed from `said`: a message may arrive at any later time, any number
of times, or never, which is what proxies and caches between the processes do to
it. `Checkpoint` is `StatPhase::checkpoint`; it is called from inside
the goal's alarm, `unlock()`, a position and a server's `doPhaseSync`, and may start the next phase
there and then. `NextPhase` is `nextPhase()` with `StatPhase::start`, whose own `checkpoint()` ends a phase
with a zero goal (`Instant`) as soon as it starts, unless the phase is locked for the working set or
has groups to wait for. The refinement maps a process to its phase, its position (the phase it
is ready for) and the processes it knows of. `founders` is a history variable: the
processes one knew of when it left the first phase, since a process that appears later
was not waited for and cannot be.

### DnsMgr

State: the running robots, of each its lookups (`theXacts`, in the order of the array),
socket and reservation, the queries under way, the name each transaction waits for,
the last answer given to a robot, and the cache as a sequence in LRU order, which
stands for both the map and the LRU queue. `Finish` is `DnsXact::finish`
with `DnsMgr::noteXactDone`, reached from a reply (`NoteReply`) or an alarm (`WakeUp`).
An address only matters by the name it is for. Identifiers are counted modulo
`IdModulus`, a small number in place of 2^16, so that they wrap around in a run.

### Variants

Definitions whose comment starts with "Variant" are faulty forms of the one below
them, used by no specification. `PROJECT.json` ("mutants") pairs each property of each run with one:
put in place of the original it makes TLC report that property.

## 3. Runs

| Run | Instance | What it shows |
|---|---|---|
| `ports` | 4 ports, 2 connections, 1 FTP listener | no port in two places; the level counts ports out of the rings; only the end of a listener loses a port, whatever the system refuses |
| `pool` | 3 connections, SSL and CONNECT-tunnel addresses, limit 2 | queue, hash, level and fields agree; only connections that are closing exceed the limit; closing ends; the pool implements `ConnSlots` |
| `pool_ssl_limit` | a plain and an SSL address, limit 2 | **violation**: a slow close of the victim makes `get()`'s assertion fail |
| `scan` | 2 descriptors, each scanner | reservations, `theMaxFD` and the interest list agree; no stale event |
| `scan_live` | 1 descriptor, each scanner; timeouts, priorities, blocking | readiness and timeouts are reported, to the right method |
| `scan_forced` | 1 descriptor, epoll, SSL buffers | **violation**: `forceReady` has no effect |
| `robot` | both kinds of robots, limit 2, sessions of all kinds; all faults, all but periods that last no time, or only those that no launch fails by | the robot's state is consistent, the alarm assertion holds if periods last some time, slots are handed over, idle robots start nothing, sessions alternate, busy robots whose launches do not come to nothing run transactions |
| `robot_stuck` | a best-effort robot whose connects may fail | **violation**: the wake-up alarm is spent on `theExtraLaunchLvl` |
| `phases` | 2 clients, 1 server, 3 synchronized phases of which the second has a zero goal, working set, warm-up plan, a server that may give up | minimum and beliefs are right, locks are held for a reason, clients stay in step through the server; implements `PhaseBarrier`; all finish |
| `phases_wss` | 1 client, 1 server, both phases wait for the working set | **violation**: the second phase waits for ever although the set is frozen |
| `dns` | 1 robot, 2 transactions, 2 names, 1 server, 3 identifiers, cache of 1 | asserts hold, everyone who waits is called back once and with the right address, the socket is open while needed, lookups end |
| `dns_retry` | the same with 2 servers | **violation**: the retry at the second server fails its own assertion |

The five violations are disagreements between the code and what its own assertions,
comments or headers say; `PROJECT.json` ("findings") quotes both.

More failures are in the models without a run of their own. Each can be seen by the change given:

* input for a failed SSL connection that is still shutting down meets the `Assert` of
  `CltConnMgr.cc:240`: `BadReadAssertHolds` in `MCCltConnMgrSslLimit.cfg`;
* an error event reaches a user blocked in the other direction (`FileScanner.cc:143`):
  `"error"` among the epoll uses of `LiveUses`;
* `Poll::clearFD` leaves the copy of a blocked direction's event (`Poll.cc:85`): `"block"`
  among the poll uses of `SafeUses`;
* `Select` passes no write set when all writers also read (`Select.cc:99`): `"duplex"`
  among the select uses of `LiveUses`;
* a robot gets stuck after slow closes (`CltConnMgr.cc:135`), a URL without a host
  (`Client.cc:443`) or, at constant rate, a load factor of zero (`AsyncClt.cc:46`): the
  fault sets `{"slow"}`, `{"hostless"}` and, with `Kinds = {"async"}`, `{"unloaded"}` in `MCClientStuck.cfg`;
* a busy or an idle period that lasts no time (`SessionMgr.cc:109`) has an alarm that is due
  together with the launch alarm of a best-effort robot (`SyncClt.cc:33`); if it rings first, the next
  busy period fails the `Assert` of `SyncClt.cc:22`: `robot.failure # "pendAlarm"` with
  `Kinds = {"sync"}`, `Sessions = {"duration"}` and the fault set `{"instant", "resolve"}`;
* a retry that has a slot asks a peer, and the DNS query after the answer fails at once (`Client.cc:457`):
  those that wait for a connection are not told: `WaitingIsNeeded` with `"resolve"` in `Favourable`
  and the fault set `{"resolve"}`; and the robot may get stuck: that fault set in `MCClientStuck.cfg`;
* pipelining ends the process (`HttpCltXact.cc:104`): `failure = "pipeline"` of `CltConnMgr` and `Client`;
* a warm-up plan that starts while the phase is ready to stop keeps it locked when
  the groups have been waited for; a group that appears then is not waited for
  (`StatPhase.cc:559`): `ImplementsBarrier` with one client, which has the plan, and two servers;
* a lookup whose socket cannot be opened stays in `theXacts` (`DnsMgr.cc:140`), so the
  socket is never closed: `StoppedClosesSocket` without `LeftBehind`;
* an answer that comes when the last robot has stopped is put into the cache that was
  just cleared (`DnsMgr.cc:200`).

And some hazards are outside of the models: an SSL session lost when its connection fails early (`CltConnMgr.cc:56`),
a retry that is never recycled when the robot becomes idle (`Client.cc:340`), the
alarms of a busy period with several goals (`SessionMgr.cc:92`), a second lifetime alarm
after a Kerberos answer (`Xaction.cc:373`), the 37 slots of the index of groups
(`StatPhaseSync.cc:32`), and an urgent scan taken for an idle one (`PolyApp.cc:142`).

**Bounds.** Four ports and three sockets let a port pass through both rings while
others are bound and refused. Three connections with a limit of two are one used, one
idle, one closing: all situations at once, with one more than the limit. Use
limits of one and of two transactions make both kinds of last use happen. Two descriptors are needed
for one user to close another's; liveness needs one, with urgent and full cycles
alternating (`PrioritySched` 2). Four transactions over two connections
allow two to run, one to wait and one to be looked up. `MaxXacts` and `MaxExtra` bound what a server
can make a robot do (redirects, embedded objects, retries) and which queries are
asked; they never cut a handler short. Two clients and a server are the least
for one client to depend on another through a server; three phases let a process be
ahead while positions of earlier phases are still under way, and the second, whose goal is met at once, is
passed without a stop by a process that knows of nobody behind and waits for the others otherwise. Two
lookups and three identifiers let an old reply carry the identifier of a newer query,
and a lookup fill the gap another one leaves; `MaxNet` bounds the queries under way.

**Symmetry** is not used. **Deadlock** is checked for ports, the scanners and DNS. The other runs have
states in which the process has ended (a failed `Assert`) or the test is over.

**Fairness.** `CltConnMgr`: the timeout of a closing connection is reported (the scanner
checks timeouts in every full cycle; this is what `scan_live` shows). `TheFileScanner`: the
loop goes on and callbacks return. `Client`: while the process lives, transactions end and queries are
answered, both by their timeouts; closes end; alarms ring; launches do not fail for ever; and, as time passes, a
session alarm does not stay behind launch alarms that are set again and again.
`Phases`: traffic starts, goals are met, working sets freeze and plans end; and since
robots go on sending requests, the present position of a running process gets through
at last, though any single message may be lost. `DnsMgr`: the alarm of each lookup rings; no
reply is ever promised. No fairness is assumed for starts, stops, redirects or the network.

`TypeOK` of the scanners holds in `scan` as well and can be added to `MCScan.cfg`.

## 4. Proofs

`PortMgrProofs` proves, for every port range, every number of connections and
listeners:

* `PortMgrTypeOK`: both rings hold ports of the range;
* `PortHasOneOwner`: a port is never queued twice, in both rings, queued and bound, or
  bound twice;
* `LevelCountsPortsOut`: `TheBoundLvl` is the number of ports that are in no ring;
* `PortsGoMissingByListeners`: no step loses a port except the end of an FTP listener,
  which loses the port of that listener;
* `ConnectionsLoseNoPort` and `BoundLevelIsExact`: without active FTP every port is
  queued or bound, and the level is the number of bound sockets.

The assumption is `PortsAssumption`: a finite, non-empty range of naturals and
connections that are not listeners. The inductive invariant is
`IInv == TypeOK /\ OnePlacePerPort`: one-owner is inductive once the rings are known
to be sequences over the range, since an allocation cuts a ring in three (tried
and refused, taken, not tried) and joins the first to the other ring. The lemmas
`CutRing`, `JoinRings` and `GrowRing` say that these operations keep rings free of
duplicates and what they contain; `Taken` says what an allocation does to the
rings, whichever ring the port came from, and everything else is proved from it. The level needs
cardinalities and rests on `IInv` (a released port was in no ring). `StepKeepsPort` says
action by action where a port that was somewhere is after the step;
`PortsGoMissingByListeners` follows from it with `IInv`, and with no listeners it gives
`ConnectionsLoseNoPort` by induction. The two theorems without FTP assume
`Listeners = {}` and are not checked by a run, whose instance has a listener.

`DistinctSeqs` holds the lemmas the proofs below share: what appending to, taking
from and filtering a sequence without duplicates leaves, its length as a cardinality,
and minima and maxima of finite sets of numbers.

**`CltConnMgrProofs`**: for any addresses, connections, use limits and connection limit,
`CltConnMgrTypeOK`, `EveryConnHasOneSituation`, `QueueAndHashAgree`, `IdleCanBeReused`,
`LevelIsExact`, `OnlyClosingExceedsLimit`, and `CltConnMgrImplementsSlots`: each step of
the pool is a step of `ConnSlots` or leaves its state alone. The inductive invariant says
that the connections are `Ordered` (queue, hash and fields agree, the idle are
reusable, the rest is used or closing), that the level is their number, and that those
used or idle keep to the limit: the limit alone is not inductive, since a connection that
starts to close leaves the limit and stays in the level. Every call rearranges idle connections, opens at most one, and closes a
set: `Settled` is the state before the closing, one lemma
closes, one lemma per call settles. `LimitHoldsWithoutSsl` assumes that no address uses
SSL or a tunnel, so that no close lingers; with SSL its property is false (run
`pool_ssl_limit`).

**`TheFileScannerProofs`**: for any descriptors, priority schedule and uses, and whichever
scanner the process has, `TheFileScannerTypeOK`, `RegistrationsAgree`,
`BlockedDescriptorsWait` and `KernelWatchesWhatIsAwaited`. The invariant adds to these
that the loop looks for output of the descriptor it is at (`CurIsKnown`) and that what epoll
reported is for the present user of its descriptor or known to be outdated
(`EpollHotIsCurrent`). A step of a scanner is first shown to be one of `FileScanner`, so
that the shared part is proved once. Two action properties need more:

* `StaleEventsAreDropped` (`NoStaleCall`) needs that the copies of poll and select hold
  events of present users only (`CopiesInv`), and assumes `OnlyEpollBlocks`: users of poll and select do not
  block one direction on the other. They can in the code, and then `Poll::clearFD` and
  `FD_Set::clearFD` leave a copy behind (section 3): the theorem says that
  nothing else does;
* `BlockedUsersWaitForTheOtherDirection` (`NoDirectIoWhileBlocked`) needs that a blocked
  descriptor has no event of the other direction left in this cycle (`HotFitsBlock`), and assumes in
  addition that no socket of an epoll user fails (`NoErrorsWithEpoll`): an error event is
  taken for both directions and reaches blocked users (section 3).

**`ClientProofs`**: for any limits, kinds, sessions and faults, `ClientTypeOK`,
`RobotStaysConsistent`, `NoLaunchIsPending`, `NobodyWaitsInVain` and
`IdleRobotsStartNothing`. An event is a composition of handlers, so there is one lemma per
handler: from a robot `InOrder(r, d, e)` every robot it may leave behind is in order.
`d` is the number of connections had but not yet counted by `theCcXactLvl` (-1 after a
connection was given back), `e` the slots owed to transactions that wait; both are
zero between events. `Goes` says what handlers may do to a robot wherever the last phase ends
in them: stop it, and start nothing while it is idle. `PendAlarmAssertHolds` needs to know which alarms may be there:
an idle constant-rate robot has no launch alarm, an idle best-effort robot may have one
left but then it rings before the alarm that ends the idle period, unless periods may last no time, and a busy period
that ends with a count has no alarm (`AlarmsFit`, `SessionFits`). A robot that was never started is the one exception
to `Fits`, and only `Start` can happen to it (`Fresh`).

**`PhasesProofs`**: for any clients, servers, phases and plans, `PhasesTypeOK`,
`MinimumIsExact`, `NobodyLooksReadyTooEarly`, `NoUnlockIsMissed` and `ClientsStayInStep`.
All steps but the sending of a message move one process on; `MovesOn` says what such
a move may do, one lemma per action shows that it does no more, and one lemma per part of the
invariant that it survives. `ClientsInStep` is about two processes that never talk to each other,
so the invariant has to follow what a server said on behalf of its founders
(`ServersSpeakForFounders`, `FoundersWereWaitedFor`). `PhasesImplementBarrier` assumes
`NoLateServer`, no warm-up plans or at most one server; otherwise it is false (section 3).
`WssLockEndsWithFreeze` assumes that between two phases that wait for the working set there is one
whose goal takes time to meet (`WaitsAreApart`): phases that end as soon as they start are passed
inside the `unlock()` that precedes the change of `TheWssState`. If the two phases are neighbours it is false (run `phases_wss`).
`NextPhaseStops` says where `nextPhase()` stops, and that nobody was behind in the phases it passed.

**`DnsMgrProofs`**: for any names, robots, transactions, servers, capacity and number of
identifiers, `DnsMgrTypeOK`, `AddressesAreRight`, `CacheKeepsToItsLimits`,
`WaitersAreCalledBack`, `SocketListens` and `OnlyTheOwnerIsMissed`, the last saying that no
assertion fails but the one of `DnsXact::retry`; `AssertsHoldWithOneServer` assumes one
server, since with more that one does fail (run `dns_retry`). The invariant says that lookups know
their places, that none is under way twice for one transaction, that
everyone who waits has one, and that the cache has one entry per name with an address of that name.

The assumptions on constants are those of the modules (`PortsAssumption`,
`LimitsAssumption`, `UsesAssumption`, `SetsAssumption`, `PhasesAssumption`, `DnsAssumption` and so on),
which TLC evaluates in every run. Each `IInv` was checked by TLC on the instance of its run
before it was proved.

Only model-checked is all liveness (`ClosingEnds`, `ReadyIsNotified`, `TimeoutIsReported`,
`SessionsAlternate`, `BusyRuns`, `PhasesEnd`, `LookupsEnd`, `StoppedClosesSocket`): liveness under fairness and
`ENABLED` are out of the prover's reach. `SelectSeq` is, too; where a proof needed it
the modules cancel, remove and find with the operators of `SequencesExt` or, in `CancelAlarms` of `Client`, by counting.

## 5. Not modelled

`PROJECT.json` gives every component and the reason. In short: bytes
(parsing, formatting, content), configuration, statistics, log analysis and
third-party code are left out; SSL, Kerberos, the kernel and the network appear
through what they may answer. `PipelinedCxm` is left out because this version of the
code cannot reach it. In `Client` the memory of transactions (causes and children, recycling)
and the lifetimes of transactions that wait for Kerberos are left out, and a busy
period has one goal. In `Phases` the load and population factors and the statistics are left
out. In `DnsMgr` the encoding of messages is left out.

## 6. Plan

1. Proofs: what the hypotheses of section 4 leave open, for instance `NoStaleCall` for
   users of poll that block as far as it still holds, and the barrier with plans and
   several servers in a weaker form.
2. `SrvConnMgr` and the accept scheduling of the servers, next to `CltConnMgr`.
3. `BcastChannel`: receivers that leave a channel while it is sending; `AlarmClock`: the
   heap against a sorted reference.
4. Busy periods with several goals; `PassClt`; `WorkersRunner`.
5. Pure algorithms: `LruQueue`, `RndPermut`, `Histogram`, the chunked parser.
