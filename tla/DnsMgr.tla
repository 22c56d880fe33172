------------------------------- MODULE DnsMgr -------------------------------
(***************************************************************************)
(* DNS lookups of the robots of one process: src/dns/DnsMgr.cc, DnsXact.cc *)
(* and DnsCache.cc, with the query identifiers of DnsMsg.cc and the calls  *)
(* that src/client/Client.cc makes and gets.                               *)
(*                                                                         *)
(* A robot asks for the address of a name on behalf of a transaction that  *)
(* waits for it (its reason).  Queries and replies travel by UDP: they may *)
(* be lost, delayed, repeated and reordered.  Identifiers are drawn from   *)
(* one counter that wraps around, so an old reply may carry the identifier *)
(* of a new query.  The robots share one cache.                            *)
(*                                                                         *)
(* An address only matters by the name it was given for, and is that name. *)
(***************************************************************************)
EXTENDS Integers, Sequences, FiniteSets, SequencesExt, FiniteSetsExt

CONSTANTS
  Robots,     \* each has a DnsMgr
  Reasons,    \* client transactions
  Names,      \* domain names
  NoName,     \* no name, no address
  Servers,    \* theServers.count()
  Timeout,    \* whether the resolver has a timeout
  Capacity,   \* of the cache; 0: there is none
  IdModulus,  \* identifiers wrap around here: 2^16 in the code
  MaxXacts,   \* bound on the lookups of all robots
  MaxNet      \* bound on the queries under way

(* A definition marked "Variant" is a faulty form of the one below it.  No *)
(* specification uses a variant: each stands for a mistake that one of the *)
(* properties has to notice.                                               *)

ASSUME DnsAssumption ==
  /\ NoName \notin Names
  /\ Servers \in Nat \ {0} /\ Timeout \in BOOLEAN /\ Capacity \in Nat
  /\ IdModulus \in Nat \ {0, 1} /\ MaxXacts \in Nat /\ MaxNet \in Nat

VARIABLES
  running,   \* robots between Client::start and Client::stop; those use the cache
  TheLastId, \* the identifier of the last query
  theXacts,  \* robot -> its lookups, the DnsXacts
  theSock,   \* robots whose socket is open
  theReserv, \* robots whose socket is being watched for input
  net,       \* queries that servers may still answer
  waiting,   \* transaction -> the name it waits for
  told,      \* the name and the address of the last successful answer
  theCache,  \* <<name, address>> pairs, least recently used first
  failure    \* the Assert() that ended the process, if any

vars == <<running, TheLastId, theXacts, theSock, theReserv, net, waiting, told,
          theCache, failure>>

XactFields ==
  [reason : Reasons,
   query  : Names,
   id     : 0..(IdModulus - 1), \* 0: nothing was sent yet
   idx    : Nat,                \* its place in theXacts
   tries  : 0..Servers,
   retry  : BOOLEAN,            \* doRetry
   alarm  : BOOLEAN,            \* an alarm is pending
   owned  : BOOLEAN]            \* theOwner is set

Query == [robot : Robots, id : 1..(IdModulus - 1), query : Names]

Init ==
  /\ running = {} /\ theSock = {} /\ theReserv = {} /\ net = {}
  /\ TheLastId = 0
  /\ theXacts = [r \in Robots |-> << >>]
  /\ waiting = [q \in Reasons |-> NoName]
  /\ told = <<NoName, NoName>>
  /\ theCache = << >>
  /\ failure = "none"

-----------------------------------------------------------------------------
(* DnsCache: a map with an LRU queue of its keys.                          *)

IsCached(n) == \E i \in DOMAIN theCache : theCache[i][1] = n
PositionOf(n) == CHOOSE i \in DOMAIN theCache : theCache[i][1] = n

(* DnsCache::insert: the entry of n, or the least recently used one if     *)
(* there is no room, gives way to the new entry.                           *)
CacheInsert(n, ip) ==
  Append(IF IsCached(n) THEN RemoveAt(theCache, PositionOf(n))
         ELSE IF Len(theCache) < Capacity THEN theCache ELSE Tail(theCache),
         <<n, ip>>)

(* DnsMgr::instantLookup finds n in the cache, which touches the entry;    *)
(* Client::tryLaunch goes on with its address.                             *)
CacheHit(r, q, n) ==
  LET i == PositionOf(n) IN
  /\ r \in running /\ waiting[q] = NoName
  /\ IsCached(n)
  /\ theCache' = Append(RemoveAt(theCache, i), theCache[i])
  /\ told' = theCache[i]
  /\ UNCHANGED <<running, TheLastId, theXacts, theSock, theReserv, net, waiting, failure>>

-----------------------------------------------------------------------------
(* Variant: the identifier does not skip 0.                                *)
NextIdZero == (TheLastId + 1) % IdModulus

(* DnsMsg::NextId: an unsigned short that skips 0.                         *)
NextId == IF TheLastId + 1 = IdModulus THEN 1 ELSE TheLastId + 1

(* Variant: no alarm is set for a query that could not be sent.            *)
ExecutedSilently(x, sent) ==
  [x EXCEPT !.id = NextId, !.tries = @ + 1, !.retry = ~sent, !.alarm = sent /\ Timeout]

(* DnsXact::exec(ns) of x, a lookup of robot r: the lookup it becomes.  A  *)
(* query that cannot be sent is to be tried again at once.                 *)
Executed(x, sent) ==
  [x EXCEPT !.id = NextId, !.tries = @ + 1, !.retry = ~sent,
            !.alarm = ~sent \/ Timeout]

(* The rest of exec: a query that is sent may be lost at once.             *)
SendQuery(r, x, sent) ==
  /\ TheLastId' = NextId
  /\ \/ UNCHANGED net
     \/ /\ sent /\ Cardinality(net) < MaxNet
        /\ net' = net \cup {[robot |-> r, id |-> NextId, query |-> x.query]}

XactCount == MapThenSumSet(LAMBDA r : Len(theXacts[r]), Robots)

NewXact(r, q, n) ==
  [reason |-> q, query |-> n, id |-> 0, idx |-> Len(theXacts[r]) + 1, tries |-> 0,
   retry |-> FALSE, alarm |-> FALSE, owned |-> FALSE]

(* DnsMgr::lookup, called by Client::tryLaunch after a cache miss.         *)
Lookup(r, q, n) ==
  LET x == [NewXact(r, q, n) EXCEPT !.owned = TRUE] IN
  /\ r \in running /\ waiting[q] = NoName
  /\ ~IsCached(n)
  /\ XactCount < MaxXacts
  /\ waiting' = [waiting EXCEPT ![q] = n]
  /\ theSock' = theSock \cup {r}
  /\ theReserv' = theReserv \cup {r}
  /\ \E sent \in BOOLEAN :
       /\ theXacts' = [theXacts EXCEPT ![r] = Append(@, Executed(x, sent))]
       /\ SendQuery(r, x, sent)
  /\ UNCHANGED <<running, told, theCache, failure>>

(* DnsMgr::lookup when the socket cannot be opened: Client::launchFailed   *)
(* gives the transaction up, the lookup stays in theXacts.                 *)
LookupFails(r, q, n) ==
  /\ r \in running /\ waiting[q] = NoName
  /\ r \notin theSock
  /\ ~IsCached(n)
  /\ XactCount < MaxXacts
  /\ theXacts' = [theXacts EXCEPT ![r] = Append(@, NewXact(r, q, n))]
  /\ UNCHANGED <<running, TheLastId, theSock, theReserv, net, waiting, told, theCache,
                 failure>>

-----------------------------------------------------------------------------
(* Variant: the lookup that fills the gap keeps its old index.             *)
RemovedStaleIdx(xs, i) == Front([xs EXCEPT ![i] = Last(xs)])

(* Variant: the last lookup does not take the place of element i.          *)
RemovedLast(xs, i) == Front(xs)

(* theXacts without its element i, whose place the last one takes.         *)
Removed(xs, i) == Front([xs EXCEPT ![i] = [Last(xs) EXCEPT !.idx = i]])

(* Variant: the last lookup does not close the socket of a stopped robot.  *)
NoteLastXactKeepsOpen(r) ==
  /\ theReserv' = theReserv \ {r}
  /\ UNCHANGED theSock

(* No lookup of r is left; closeWithLast is set once the robot stopped.    *)
NoteLastXact(r) ==
  /\ theReserv' = theReserv \ {r}
  /\ theSock' = IF r \in running THEN theSock ELSE theSock \ {r}

(* What Assert() of noteXactDone and of the farm's reset() say of x.       *)
Complaint(r, x) ==
  IF x.idx \notin DOMAIN theXacts[r] \/ theXacts[r][x.idx].reason # x.reason THEN "idx"
  ELSE IF x.alarm THEN "alarm" ELSE "none"

(* DnsXact::retry: Assert(theOwner) and exec.                              *)
Retry(r, x) ==
  IF ~x.owned
  THEN /\ failure' = "owner"
       /\ UNCHANGED <<TheLastId, theXacts, net>>
  ELSE \E sent \in BOOLEAN :
         /\ theXacts' = [theXacts EXCEPT ![r][x.idx] = Executed(x, sent)]
         /\ SendQuery(r, x, sent)
         /\ UNCHANGED failure

(* Client::noteAddrLookup: the reason of x goes on with the address, if    *)
(* there is one, or is given up.                                           *)
NoteAddrLookup(x, ip) ==
  /\ waiting' = [waiting EXCEPT ![x.reason] = NoName]
  /\ told' = IF ip = NoName THEN told ELSE <<x.query, ip>>

(* The end of DnsMgr::noteXactDone: the lookup x of r goes, with address   *)
(* ip or none.                                                             *)
Conclude(r, x, ip) ==
  /\ failure' = Complaint(r, x)
  /\ IF failure' # "none"
     THEN UNCHANGED <<theXacts, theSock, theReserv, waiting, told, theCache>>
     ELSE /\ theXacts' = [theXacts EXCEPT ![r] = Removed(@, x.idx)]
          /\ IF theXacts'[r] = << >> THEN NoteLastXact(r)
             ELSE UNCHANGED <<theSock, theReserv>>
          /\ NoteAddrLookup(x, ip)
          /\ theCache' = IF Capacity > 0 /\ ip # NoName
                         THEN CacheInsert(x.query, ip) ELSE theCache
  /\ UNCHANGED <<TheLastId, net>>

(* DnsXact::finish, which gives up theOwner, and DnsMgr::noteXactDone.     *)
Finish(r, x, ip) ==
  LET done == [x EXCEPT !.owned = FALSE] IN
  IF done.retry /\ done.tries < Servers
  THEN /\ Retry(r, done)
       /\ UNCHANGED <<theSock, theReserv, waiting, told, theCache>>
  ELSE Conclude(r, done, ip)

(* DnsXact::wakeUp.                                                        *)
WakeUp(r, i) ==
  /\ i \in DOMAIN theXacts[r] /\ theXacts[r][i].alarm
  /\ Finish(r, [theXacts[r][i] EXCEPT !.alarm = FALSE, !.retry = TRUE], NoName)
  /\ UNCHANGED running

(* Variant: the reply is not compared with the question.                   *)
RepliedUnchecked(x, m) == [x EXCEPT !.alarm = FALSE]

(* DnsXact::noteReply: a reply for another name calls for a retry.         *)
Replied(x, m) == [x EXCEPT !.alarm = FALSE, !.retry = m.query # x.query]

(* DnsMgr::noteReadReady and DnsMgr::noteReply: a server's reply to m, an  *)
(* address or an error, goes to the first lookup with its identifier; a    *)
(* reply may come twice.                                                   *)
NoteReply(r, m) ==
  LET matches == {i \in DOMAIN theXacts[r] : theXacts[r][i].id = m.id} IN
  /\ r = m.robot /\ r \in theReserv
  /\ matches # {}
  /\ LET x == theXacts[r][Min(matches)] IN
     \/ LET y == Replied(x, m) IN Finish(r, y, IF y.retry THEN NoName ELSE m.query)
     \/ Finish(r, [x EXCEPT !.alarm = FALSE], NoName)
  /\ UNCHANGED running

(* A query or its reply is lost, or nobody asked for it any more.          *)
Vanish(m) ==
  /\ net' = net \ {m}
  /\ UNCHANGED <<running, TheLastId, theXacts, theSock, theReserv, waiting, told, theCache,
                 failure>>

(* DnsMgr::start and DnsCache::use.                                        *)
Start(r) ==
  /\ r \notin running
  /\ running' = running \cup {r}
  /\ UNCHANGED <<TheLastId, theXacts, theSock, theReserv, net, waiting, told, theCache,
                 failure>>

(* Variant: the socket is closed although lookups are pending.             *)
StopAtOnce(r) ==
  /\ r \in running
  /\ running' = running \ {r}
  /\ theCache' = IF running' = {} THEN << >> ELSE theCache
  /\ theSock' = theSock \ {r}
  /\ theReserv' = theReserv \ {r}
  /\ UNCHANGED <<TheLastId, theXacts, net, waiting, told, failure>>

(* DnsMgr::stop and DnsCache::abandon: the last user clears the cache.     *)
Stop(r) ==
  /\ r \in running
  /\ running' = running \ {r}
  /\ theCache' = IF running' = {} THEN << >> ELSE theCache
  /\ theSock' = IF theXacts[r] = << >> THEN theSock \ {r} ELSE theSock
  /\ UNCHANGED <<TheLastId, theXacts, theReserv, net, waiting, told, failure>>

\* A failed Assert() ends the process.
Alive == failure = "none"

Next ==
  \/ \E r \in Robots, q \in Reasons, n \in Names : Alive /\ CacheHit(r, q, n)
  \/ \E r \in Robots, q \in Reasons, n \in Names : Alive /\ Lookup(r, q, n)
  \/ \E r \in Robots, q \in Reasons, n \in Names : Alive /\ LookupFails(r, q, n)
  \/ \E r \in Robots : \E i \in DOMAIN theXacts[r] : Alive /\ WakeUp(r, i)
  \/ \E r \in Robots : \E m \in net : Alive /\ NoteReply(r, m)
  \/ \E m \in net : Alive /\ Vanish(m)
  \/ \E r \in Robots : Alive /\ Start(r)
  \/ \E r \in Robots : Alive /\ Stop(r)

Spec == Init /\ [][Next]_vars

(* Alarms ring in order of time, so each one rings some day.               *)
AlarmOf(q) ==
  \E r \in Robots : \E i \in DOMAIN theXacts[r] :
    theXacts[r][i].reason = q /\ Alive /\ WakeUp(r, i)

FairSpec == Spec /\ \A q \in Reasons : WF_vars(AlarmOf(q))

-----------------------------------------------------------------------------
TypeOK ==
  /\ running \subseteq Robots /\ theSock \subseteq Robots /\ theReserv \subseteq Robots
  /\ TheLastId \in 0..(IdModulus - 1)
  /\ theXacts \in [Robots -> Seq(XactFields)]
  /\ net \subseteq Query
  /\ waiting \in [Reasons -> Names \cup {NoName}]
  /\ told \in (Names \cup {NoName}) \X (Names \cup {NoName})
  /\ theCache \in Seq(Names \X Names)
  /\ failure \in {"none", "idx", "alarm", "owner"}

(* The lookups that were started; the others are left behind by a socket   *)
(* that could not be opened.                                               *)
Started(r) == {i \in DOMAIN theXacts[r] : theXacts[r][i].owned}
LeftBehind(r) == DOMAIN theXacts[r] \ Started(r)

(* No Assert() fails: a lookup knows its place in theXacts although others *)
(* come and go, has no alarm left when it goes back to the farm, and has   *)
(* an owner when it tries the next server ("keep in syn with partial reset *)
(* in DnsXact::retry()").                                                  *)
AssertsHold == failure = "none"

(* Every transaction that waits for an address has exactly one lookup that *)
(* will call it back, for the name it waits for; and no lookup calls back  *)
(* a transaction that does not wait.                                       *)
WaitersHaveLookups ==
  /\ \A r \in Robots : \A i \in Started(r) :
       waiting[theXacts[r][i].reason] = theXacts[r][i].query
  /\ \A q \in Reasons : waiting[q] # NoName =>
       Cardinality({ri \in UNION {{r} \X Started(r) : r \in Robots} :
                      theXacts[ri[1]][ri[2]].reason = q}) = 1

(* A transaction never gets, and the cache never holds, an address of      *)
(* another name: although identifiers wrap around and replies are late or  *)
(* come twice.                                                             *)
RightAddress ==
  /\ told[1] = told[2]
  /\ \A i \in DOMAIN theCache : theCache[i][1] = theCache[i][2]

(* While a lookup is under way its socket is open and watched, also when   *)
(* the robot has stopped: a reply can be received.                         *)
ListensWhileAsking ==
  /\ theReserv \subseteq theSock
  /\ \A r \in Robots : Started(r) # {} => r \in theReserv

(* Every lookup ends: with a reply, or with the timeout.                   *)
LookupsEnd ==
  \A q \in Reasons : waiting[q] # NoName ~> (waiting[q] = NoName \/ ~Alive)

(* A robot that stops gives its socket back after a while, once the        *)
(* lookups it had left have ended, unless some were left behind.           *)
StoppedClosesSocket ==
  \A r \in Robots :
    r \notin running /\ LeftBehind(r) = {}
      ~> (r \in running \/ r \notin theSock \/ ~Alive)
=============================================================================
