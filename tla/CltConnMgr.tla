----------------------------- MODULE CltConnMgr -----------------------------
(***************************************************************************)
(* The connection pool of one robot (src/client/CltConnMgr.cc, built on    *)
(* src/runtime/ConnMgr.cc, with src/client/ConnHash.cc and the use         *)
(* accounting of src/runtime/Connection.cc).                               *)
(*                                                                         *)
(* A connection is taken from TheConnFarm, opened, used by a transaction,  *)
(* kept idle for reuse, and closed.  Closing an SSL connection may take    *)
(* several I/O events: the connection is then neither idle nor in use but  *)
(* still counts as open.                                                   *)
(*                                                                         *)
(* One action is one call into the manager: from a transaction (Get, Put), *)
(* from the file scanner (NoteReadReady, NoteWriteReady, NoteTimeout) or   *)
(* from the robot (CloseAllIdle).  Most calls broadcast an event, which    *)
(* may end the phase, stop the robot and so close all idle connections     *)
(* before the call returns.                                                *)
(***************************************************************************)
EXTENDS Integers, Sequences, FiniteSets, Functions, SequencesExt

CONSTANTS
  Conns,       \* the Connection objects of TheConnFarm
  NoAddr,      \* the unset NetAddr
  Addrs,       \* what idle connections are looked up by: hop and tunnel end
  SslAddrs,    \* addresses whose connections use SSL from the start
  TunnelAddrs, \* addresses reached through a CONNECT tunnel; SSL comes after
  Substs,      \* address -> its substitutes (minimize_new_conn)
  Limit,       \* theConnLvlLmt (open_conn_lmt); negative: none
  UseLimits,   \* possible results of setUseLimit (pconn_use_lmt)
  PipeDepths,  \* possible pipeline depths; 1 without pipelining
  IdleTimeout  \* whether idle_pconn_tout is set

(* A definition marked "Variant" is a faulty form of the one below it.  No *)
(* specification uses a variant: each stands for a mistake that one of the *)
(* properties has to notice.                                               *)

ASSUME ConnsAssumption == IsFiniteSet(Conns)

ASSUME AddrsAssumption ==
  /\ NoAddr \notin Addrs
  /\ SslAddrs \subseteq Addrs
  /\ TunnelAddrs \subseteq Addrs \ SslAddrs
  /\ Substs \in [Addrs -> SUBSET Addrs]

ASSUME LimitsAssumption ==
  /\ Limit \in Int
  /\ UseLimits \subseteq Nat \ {0}
  /\ PipeDepths \subseteq Nat \ {0}
  /\ IdleTimeout \in BOOLEAN

VARIABLES
  TheConnIdx,   \* the connections that are open (fd -> connection map)
  theConnLvl,   \* all opened connections, as counted
  conn,         \* connection -> its fields
  theIdleQueue, \* idle connections, oldest first
  theIdleHash,  \* address -> idle connections, most recent last
  failure       \* what ended the process, if anything: a failed Assert()

vars == <<TheConnIdx, theConnLvl, conn, theIdleQueue, theIdleHash, failure>>

-----------------------------------------------------------------------------
ConnFields ==
  [addr      : Addrs \cup {NoAddr},
   useLvl    : Nat,      \* transactions that use the connection now
   useCnt    : Nat,      \* ... that ever used it
   useCntLmt : Int,
   useLvlLmt : Int,
   bad       : BOOLEAN,
   lastUse   : BOOLEAN,  \* isLastUse, or at EOF with nothing left to parse
   ssl       : BOOLEAN,  \* an SSL layer is active
   closing   : BOOLEAN,  \* theCloseKind is set
   wantsRead : BOOLEAN]  \* an asynchronous close waits for input

(* Connection::reset, as done by TheConnFarm.put.                          *)
Fresh ==
  [addr |-> NoAddr, useLvl |-> 0, useCnt |-> 0, useCntLmt |-> -1,
   useLvlLmt |-> -1, bad |-> FALSE, lastUse |-> FALSE, ssl |-> FALSE,
   closing |-> FALSE, wantsRead |-> FALSE]

(* Connection::reusable and Connection::pipelineable.                      *)
Reusable(f) ==
  /\ ~f.bad /\ ~f.lastUse
  /\ f.useCntLmt < 0 \/ f.useCnt < f.useCntLmt

Pipelineable(f) ==
  Reusable(f) /\ (f.useLvlLmt < 0 \/ f.useLvl < f.useLvlLmt)

(* Connection::startUse.                                                   *)
StartUse(f) == [f EXCEPT !.useCnt = @ + 1, !.useLvl = @ + 1]

Idle == Range(theIdleQueue)
InUse == {c \in TheConnIdx : conn[c].useLvl > 0}
Closing == {c \in TheConnIdx : conn[c].closing}

(* Queue::dequeue of a given item.                                         *)
Dequeue(q, c) == RemoveAt(q, CHOOSE i \in DOMAIN q : q[i] = c)

EmptyHash == [a \in Addrs |-> << >>]

Init ==
  /\ TheConnIdx = {}
  /\ theConnLvl = 0
  /\ conn = [c \in Conns |-> Fresh]
  /\ theIdleQueue = << >>
  /\ theIdleHash = EmptyHash
  /\ failure = "none"

-----------------------------------------------------------------------------
(* Steps shared by several calls.                                          *)

(* The idle structures become q and h, unless the call's broadcast ends    *)
(* the phase: then closeAllIdle empties them and must close their          *)
(* connections, ended.                                                     *)
SetIdle(q, h, ended) ==
  \/ /\ ended = {}
     /\ theIdleQueue' = q
     /\ theIdleHash' = h
  \/ /\ ended = Range(q)
     /\ theIdleQueue' = << >>
     /\ theIdleHash' = EmptyHash

(* closeCont: a connection without SSL closes at once.  SSL_shutdown may   *)
(* succeed or fail for good at once too, or want more I/O: such a          *)
(* connection is late, and waits for input (reading) or for output.        *)
MayLinger(fields, closed) == {c \in closed : fields[c].ssl}

(* Variant: an asynchronous close does not set theCloseKind.               *)
AfterCloseUnmarked(fields, closed, late, reading) ==
  [c \in Conns |->
     IF c \in late THEN [fields[c] EXCEPT !.wantsRead = c \in reading]
     ELSE IF c \in closed THEN Fresh ELSE fields[c]]

AfterClose(fields, closed, late, reading) ==
  [c \in Conns |->
     IF c \in late
     THEN [fields[c] EXCEPT !.closing = TRUE, !.wantsRead = c \in reading]
     ELSE IF c \in closed THEN Fresh ELSE fields[c]]

(* Variant: theConnLvl falls when the close begins, not when it ends.      *)
CloseCountsLate(fields, opened, closed) ==
  \E late \in SUBSET MayLinger(fields, closed) : \E reading \in SUBSET late :
    /\ conn' = AfterClose(fields, closed, late, reading)
    /\ TheConnIdx' = (TheConnIdx \cup opened) \ (closed \ late)
    /\ theConnLvl' = theConnLvl + Cardinality(opened) - Cardinality(closed)

(* Close `closed', given the fields of all connections before the close.   *)
(* closeEnd takes a connection out of TheConnIdx and lowers theConnLvl,    *)
(* opened() does the opposite; late connections stay counted.              *)
Close(fields, opened, closed) ==
  \E late \in SUBSET MayLinger(fields, closed) : \E reading \in SUBSET late :
    LET gone == closed \ late IN
    /\ conn' = AfterClose(fields, closed, late, reading)
    /\ TheConnIdx' = (TheConnIdx \cup opened) \ gone
    /\ theConnLvl' = theConnLvl + Cardinality(opened) - Cardinality(gone)

-----------------------------------------------------------------------------
(* CltConnMgr::atHardConnLimit.                                            *)
AtHardConnLimit == Limit >= 0 /\ theConnLvl - Len(theIdleQueue) >= Limit

(* CltConnMgr::findIdle: a connection to the address itself, or, when the  *)
(* dice say so, to a substitute.                                           *)
IdleAddrs(a) ==
  IF theIdleHash[a] # << >> THEN {a}
  ELSE {b \in Substs[a] : theIdleHash[b] # << >>}

(* The last lines of CltConnMgr::get.                                      *)
AssertConnLvl ==
  failure' = IF Limit >= 0 /\ theConnLvl' > Limit THEN "connLvl" ELSE "none"

(* CltConnMgr::get finds an idle connection and starts using it.           *)
Reuse(a) ==
  \E b \in IdleAddrs(a) :
    LET c == Last(theIdleHash[b]) IN
    \E ended \in SUBSET Idle :
      /\ SetIdle(Dequeue(theIdleQueue, c),
                 [theIdleHash EXCEPT ![b] = Front(@)], ended)
      /\ Close([conn EXCEPT ![c] = StartUse(@)], {}, ended)
      /\ AssertConnLvl

(* CltConnMgr::open and ConnMgr::opened: the fields of a new connection to *)
(* a, used by the transaction that asked for it.                           *)
Opened(a, useLmt, depth) ==
  StartUse([Fresh EXCEPT !.addr = a, !.useCntLmt = useLmt, !.useLvlLmt = depth,
                         !.ssl = a \in SslAddrs])

(* CltConnMgr::open to a while q and h are the idle connections and those  *)
(* of `closed' are being closed.  If connect() fails, the Connection goes  *)
(* back to the farm.                                                       *)
OpenWith(a, q, h, closed) ==
  \E ended \in SUBSET Idle :
    /\ SetIdle(q, h, ended)
    /\ \/ Close(conn, {}, closed \cup ended)
       \/ \E c \in Conns \ TheConnIdx, useLmt \in UseLimits, depth \in PipeDepths :
            Close([conn EXCEPT ![c] = Opened(a, useLmt, depth)],
                  {c}, closed \cup ended)

(* Variant: the limit is noticed one connection too late.                  *)
OpenTooMany(a) ==
  LET v == Head(theIdleQueue) IN
  /\ theIdleHash[a] = << >>
  /\ IF Limit >= 0 /\ theConnLvl > Limit
     THEN OpenWith(a, Tail(theIdleQueue),
                   [theIdleHash EXCEPT ![conn[v].addr] = Dequeue(@, v)], {v})
     ELSE OpenWith(a, theIdleQueue, theIdleHash, {})
  /\ AssertConnLvl

(* CltConnMgr::get opens a connection.  At the limit it first closes the   *)
(* oldest idle one, whose close may not finish at once.                    *)
Open(a) ==
  LET v == Head(theIdleQueue) IN
  /\ theIdleHash[a] = << >>
  /\ IF Limit >= 0 /\ theConnLvl >= Limit
     THEN OpenWith(a, Tail(theIdleQueue),
                   [theIdleHash EXCEPT ![conn[v].addr] = Dequeue(@, v)], {v})
     ELSE OpenWith(a, theIdleQueue, theIdleHash, {})
  /\ AssertConnLvl

(* CltConnMgr::get, called by Client::launch, which checks the limit.      *)
Get(a) == ~AtHardConnLimit /\ (Reuse(a) \/ Open(a))

(* Variant: finishUse() does not check that the connection is in use.      *)
PutUnused(c) ==
  LET left == [conn[c] EXCEPT !.useLvl = @ - 1] IN
  /\ c \in TheConnIdx
  /\ conn' = [conn EXCEPT ![c] = left]
  /\ UNCHANGED <<TheConnIdx, theConnLvl, theIdleQueue, theIdleHash, failure>>

(* Variant: put() keeps every connection that is not bad.                  *)
PutKeepsAll(c) ==
  LET left == [conn[c] EXCEPT !.useLvl = @ - 1]
      fields == [conn EXCEPT ![c] = left] IN
  /\ c \in InUse /\ left.useLvl = 0 /\ ~left.bad
  /\ SetIdle(Append(theIdleQueue, c),
             [theIdleHash EXCEPT ![left.addr] = Append(@, c)], {})
  /\ Close(fields, {}, {})
  /\ UNCHANGED failure

(* ConnMgr::put: a transaction gives up its use of c.  Nobody else uses c  *)
(* (see Pipeline).                                                         *)
Put(c) ==
  LET left == [conn[c] EXCEPT !.useLvl = @ - 1]
      fields == [conn EXCEPT ![c] = left] IN
  /\ c \in InUse
  /\ UNCHANGED failure
  /\ \/ /\ left.useLvl = 0 /\ Reusable(left)
        /\ \E ended \in SUBSET (Idle \cup {c}) :
             /\ SetIdle(Append(theIdleQueue, c),
                        [theIdleHash EXCEPT ![left.addr] = Append(@, c)], ended)
             /\ Close(fields, {}, ended)
     \/ /\ left.useLvl = 0 /\ ~Reusable(left)
        /\ \E ended \in SUBSET Idle :
             /\ SetIdle(theIdleQueue, theIdleHash, ended)
             /\ Close(fields, {}, ended \cup {c})

(* Variant: delIdle() forgets theIdleHash.                                 *)
CloseIdleHashed(c) ==
  \E ended \in SUBSET Idle :
    /\ SetIdle(Dequeue(theIdleQueue, c), theIdleHash, ended)
    /\ Close(conn, {}, ended \cup {c})

(* ConnMgr::closeIdle of one connection: the peer closed it or idle_pconn_ *)
(* tout has passed.                                                        *)
CloseIdle(c) ==
  \E ended \in SUBSET Idle :
    /\ SetIdle(Dequeue(theIdleQueue, c),
               [theIdleHash EXCEPT ![conn[c].addr] = Dequeue(@, c)], ended)
    /\ Close(conn, {}, ended \cup {c})

(* ConnMgr::closeCont of a connection that is being closed: it closes, or  *)
(* waits again, for input or for output.                                   *)
CloseCont(c) ==
  \E ended \in SUBSET Idle :
    /\ SetIdle(theIdleQueue, theIdleHash, ended)
    /\ Close(conn, {}, ended \cup {c})

(* CltConnMgr::noteReadReady asserts that the connection is not bad.       *)
NoteReadReady(c) ==
  \/ /\ c \in Idle
     /\ CloseIdle(c)
     /\ UNCHANGED failure
  \/ /\ c \in Closing /\ conn[c].wantsRead /\ ~conn[c].bad
     /\ CloseCont(c)
     /\ UNCHANGED failure
  \/ /\ c \in Closing /\ conn[c].wantsRead /\ conn[c].bad
     /\ failure' = "badRead"
     /\ UNCHANGED <<TheConnIdx, theConnLvl, conn, theIdleQueue, theIdleHash>>

NoteWriteReady(c) ==
  /\ c \in Closing /\ ~conn[c].wantsRead
  /\ CloseCont(c)
  /\ UNCHANGED failure

(* Variant: timeouts are noticed on idle connections only.                 *)
NoteTimeoutIdle(c) ==
  /\ IdleTimeout
  /\ c \in Idle
  /\ CloseIdle(c)
  /\ UNCHANGED failure

(* ConnMgr::noteTimeout.  A close that takes too long is cut off.          *)
NoteTimeout(c) ==
  /\ IdleTimeout
  /\ UNCHANGED failure
  /\ \/ c \in Idle /\ CloseIdle(c)
     \/ /\ c \in Closing
        /\ \E ended \in SUBSET Idle :
             /\ SetIdle(theIdleQueue, theIdleHash, ended)
             /\ Close([conn EXCEPT ![c] = [@ EXCEPT !.bad = TRUE, !.ssl = FALSE]],
                      {}, ended \cup {c})

(* CltConnMgr::closeAllIdle, when the robot becomes idle.                  *)
CloseAllIdle ==
  /\ theIdleQueue # << >>
  /\ theIdleQueue' = << >>
  /\ theIdleHash' = EmptyHash
  /\ Close(conn, {}, Idle)
  /\ UNCHANGED failure

-----------------------------------------------------------------------------
(* What transactions do to a connection they use.                          *)
SetConn(c, f) ==
  /\ c \in InUse
  /\ conn' = [conn EXCEPT ![c] = f]
  /\ UNCHANGED <<TheConnIdx, theConnLvl, theIdleQueue, theIdleHash, failure>>

(* HttpCltXact::getPipeline and HttpCltXact::pipeline: a new transaction   *)
(* is to join the one that uses c.  pipeline() first releases the manager  *)
(* of the newcomer, which has none before exec(): the process ends.        *)
Pipeline(c) ==
  /\ c \in InUse /\ Pipelineable(conn[c])
  /\ failure' = "pipeline"
  /\ UNCHANGED <<TheConnIdx, theConnLvl, conn, theIdleQueue, theIdleHash>>

(* Xaction::finish with an error, or Xaction::abortNow.                    *)
XactFails(c) == ~conn[c].bad /\ SetConn(c, [conn[c] EXCEPT !.bad = TRUE])

(* The reply was the last one: no persistent connection, end of file, or   *)
(* the robot has become idle (Client::noteXactDone).                       *)
LastUse(c) == ~conn[c].lastUse /\ SetConn(c, [conn[c] EXCEPT !.lastUse = TRUE])

(* HttpCltXact::finish of a successful CONNECT: SSL starts inside the      *)
(* tunnel and the CONNECT itself does not count against the use limit.     *)
TunnelEstablished(c) ==
  /\ conn[c].addr \in TunnelAddrs /\ ~conn[c].ssl /\ ~conn[c].bad
  /\ SetConn(c, [conn[c] EXCEPT !.ssl = TRUE, !.useCntLmt = @ + 1])

-----------------------------------------------------------------------------
\* A failed Assert() ends the process.
Alive == failure = "none"

Next ==
  \/ \E a \in Addrs : Alive /\ Get(a)
  \/ \E c \in Conns : Alive /\ Put(c)
  \/ \E c \in Conns : Alive /\ NoteReadReady(c)
  \/ \E c \in Conns : Alive /\ NoteWriteReady(c)
  \/ \E c \in Conns : Alive /\ NoteTimeout(c)
  \/ \E c \in Conns : Alive /\ Pipeline(c)
  \/ \E c \in Conns : Alive /\ XactFails(c)
  \/ \E c \in Conns : Alive /\ LastUse(c)
  \/ \E c \in Conns : Alive /\ TunnelEstablished(c)
  \/ Alive /\ CloseAllIdle

Spec == Init /\ [][Next]_vars

(* The file scanner reports the timeout of a connection that is closing.   *)
FairSpec ==
  Spec /\ \A c \in Conns : WF_vars(Alive /\ c \in Closing /\ NoteTimeout(c))

-----------------------------------------------------------------------------
TypeOK ==
  /\ TheConnIdx \subseteq Conns
  /\ theConnLvl \in Int
  /\ conn \in [Conns -> ConnFields]
  /\ theIdleQueue \in Seq(Conns)
  /\ theIdleHash \in [Addrs -> Seq(Conns)]
  /\ failure \in {"none", "connLvl", "badRead", "pipeline"}

(* Every open connection is in exactly one situation: used by someone,     *)
(* idle, or being closed; and the Connection objects in the farm are clean.*)
OneSituation ==
  /\ \A c \in TheConnIdx :
       \/ c \in InUse /\ c \notin Idle /\ c \notin Closing
       \/ c \notin InUse /\ c \in Idle /\ c \notin Closing
       \/ c \notin InUse /\ c \notin Idle /\ c \in Closing
  /\ \A c \in Conns \ TheConnIdx : c \notin Idle /\ conn[c] = Fresh

(* theIdleQueue and theIdleHash always list the same connections, once,    *)
(* and the hash lists each under its own address: ConnHash::del and        *)
(* Queue::dequeue find what they are asked to remove.                      *)
IdleStructuresAgree ==
  /\ IsInjective(theIdleQueue)
  /\ \A a \in Addrs :
       /\ IsInjective(theIdleHash[a])
       /\ Range(theIdleHash[a]) = {c \in Idle : conn[c].addr = a}
  /\ \A c \in Idle : conn[c].addr \in Addrs

(* An idle connection can be used again, so get()'s startUse never meets   *)
(* Assert(reusable()).                                                     *)
IdleIsReusable == \A c \in Idle : Reusable(conn[c])

(* theConnLvl is the number of connections in TheConnIdx.                  *)
LevelIsOpenConns == theConnLvl = Cardinality(TheConnIdx)

(* get() never opens more than open_conn_lmt connections:                  *)
(* Assert(theConnLvlLmt < 0 || theConnLvl <= theConnLvlLmt).               *)
ConnLvlAssertHolds == failure # "connLvl"

(* The limit is only ever exceeded by connections whose SSL shutdown goes  *)
(* on: each connection over open_conn_lmt, and so get()'s failed assertion,*)
(* has one that is still closing to account for it.                        *)
OverLimitOnlyByClosing ==
  /\ Limit >= 0 => theConnLvl <= Limit + Cardinality(Closing)
  /\ failure = "connLvl" => Closing # {}

(* noteReadReady() never sees a bad connection: Assert(!conn->bad()).      *)
BadReadAssertHolds == failure # "badRead"

(* A connection that is being closed is gone after a while.                *)
ClosingEnds == \A c \in Conns : c \in Closing ~> (c \notin Closing \/ failure # "none")

-----------------------------------------------------------------------------
(* The manager implements the promise of ConnSlots: whatever happens to    *)
(* queue, hash, level and SSL, a robot sees used, idle and closing         *)
(* connections within its limit.                                           *)
Slots == INSTANCE ConnSlots WITH used <- InUse, idle <- Idle, closing <- Closing

ImplementsSlots == Slots!SlotsSpec
=============================================================================
