------------------------------- MODULE PortMgr -------------------------------
(***************************************************************************)
(* The explicit port pool of one local address (src/runtime/PortMgr.cc,    *)
(* ExpPortMgr.cc) and the sockets that draw ports from it:                 *)
(*                                                                         *)
(*  - client connections (Connection::connect ... rawCloseNow), which      *)
(*    remember their port in theLocPort and give it back when they close;  *)
(*  - the listening sockets of active-mode FTP transactions                *)
(*    (Agent::makeListenSocket ... FtpCltXact::stopDataListen).            *)
(*                                                                         *)
(* The operating system is external: any attempt to bind may be refused    *)
(* (TIME_WAIT, another process), so every allocation chooses the set of    *)
(* ports that are refused while it runs.                                   *)
(***************************************************************************)
EXTENDS Integers, Sequences, FiniteSets, Functions, SequencesExt

CONSTANTS
  Ports,      \* the --ports range
  Conns,      \* Connection objects
  Listeners   \* active FTP transactions, each with one listening socket

(* A definition marked "Variant" is a faulty form of the one below it.  No *)
(* specification uses a variant: each stands for a mistake that one of the *)
(* properties has to notice.                                               *)

ASSUME PortsAssumption ==
  /\ Ports # {}
  /\ Ports \subseteq Nat
  /\ IsFiniteSet(Ports)
  /\ Conns \cap Listeners = {}

Sockets == Conns \cup Listeners

\* Connection::theLocPort == -1: the socket has no port.
NoPort == -1

VARIABLES
  theValidPorts,  \* Ring: never- or successfully-used ports
  theVoidPorts,   \* Ring: last-use-failed ports
  boundPort,      \* socket -> the port it is bound to
  TheBoundLvl     \* LevelStat: bound ports level

vars == <<theValidPorts, theVoidPorts, boundPort, TheBoundLvl>>

-----------------------------------------------------------------------------
(* ExpPortMgr's constructor: CheckUsedPorts() splits the range into free   *)
(* and used ports and both rings are put in a random order.                *)
Init ==
  /\ \E used \in SUBSET Ports :
       /\ theValidPorts \in SetToSeqs(Ports \ used)
       /\ theVoidPorts \in SetToSeqs(used)
  /\ boundPort = [s \in Sockets |-> NoPort]
  /\ TheBoundLvl = 0

(* ExpPortMgr::findPort tries the ports of a ring in FIFO order.  Bindable *)
(* says at which positions it succeeds: the first one the system does not  *)
(* refuse.                                                                 *)
Bindable(ring, refused) ==
  {i \in DOMAIN ring : /\ ring[i] \notin refused
                       /\ \A j \in 1..(i - 1) : ring[j] \in refused}

(* Variant: a refused port is dropped instead of joining theVoidPorts.     *)
AllocValidDropsRefused(s, refused) ==
  \E i \in Bindable(theValidPorts, refused) :
    /\ boundPort' = [boundPort EXCEPT ![s] = theValidPorts[i]]
    /\ theValidPorts' = SubSeq(theValidPorts, i + 1, Len(theValidPorts))
    /\ UNCHANGED theVoidPorts

(* ExpPortMgr::allocPort for socket s, with its two calls of findPort.  A  *)
(* refused port is re-queued on theVoidPorts, so the second search starts  *)
(* with theVoidPorts followed by every port of theValidPorts.              *)
AllocValid(s, refused) ==
  \E i \in Bindable(theValidPorts, refused) :
    /\ boundPort' = [boundPort EXCEPT ![s] = theValidPorts[i]]
    /\ theValidPorts' = SubSeq(theValidPorts, i + 1, Len(theValidPorts))
    /\ theVoidPorts' = theVoidPorts \o SubSeq(theValidPorts, 1, i - 1)

AllocVoid(s, refused) ==
  LET ring == theVoidPorts \o theValidPorts IN
  /\ Bindable(theValidPorts, refused) = {}
  /\ \E i \in Bindable(ring, refused) :
       /\ boundPort' = [boundPort EXCEPT ![s] = ring[i]]
       /\ theVoidPorts' = SubSeq(ring, i + 1, Len(ring)) \o SubSeq(ring, 1, i - 1)
  /\ theValidPorts' = << >>

AllocFailed(refused) ==
  /\ \A p \in Range(theValidPorts) \cup Range(theVoidPorts) : p \in refused
  /\ theValidPorts' = << >>
  /\ theVoidPorts' = theVoidPorts \o theValidPorts
  /\ UNCHANGED boundPort

(* Variant: the level grows although no port was found.                    *)
BindCountsFailures(s) ==
  /\ boundPort[s] = NoPort
  /\ \E refused \in SUBSET Ports :
       AllocValid(s, refused) \/ AllocVoid(s, refused) \/ AllocFailed(refused)
  /\ TheBoundLvl' = TheBoundLvl + 1

(* PortMgr::bind: the level grows only when a port was allocated.          *)
Bind(s) ==
  /\ boundPort[s] = NoPort
  /\ \E refused \in SUBSET Ports :
       \/ /\ AllocValid(s, refused) \/ AllocVoid(s, refused)
          /\ TheBoundLvl' = TheBoundLvl + 1
       \/ /\ AllocFailed(refused)
          /\ UNCHANGED TheBoundLvl

(* Variant: theLocPort is reset before it is released.                     *)
ReleaseAfterReset(c) ==
  /\ boundPort[c] # NoPort
  /\ theValidPorts' = Append(theValidPorts, NoPort)
  /\ boundPort' = [boundPort EXCEPT ![c] = NoPort]
  /\ TheBoundLvl' = TheBoundLvl - 1
  /\ UNCHANGED theVoidPorts

(* Variant: theLocPort is not reset, so a second close releases it again.  *)
ReleaseWithoutReset(c) ==
  /\ boundPort[c] # NoPort
  /\ theValidPorts' = Append(theValidPorts, boundPort[c])
  /\ TheBoundLvl' = TheBoundLvl - 1
  /\ UNCHANGED <<theVoidPorts, boundPort>>

(* PortMgr::release, called by Connection::rawCloseNow with good == true:  *)
(* the port joins the tail of theValidPorts.                               *)
Release(c) ==
  /\ boundPort[c] # NoPort
  /\ theValidPorts' = Append(theValidPorts, boundPort[c])
  /\ boundPort' = [boundPort EXCEPT ![c] = NoPort]
  /\ TheBoundLvl' = TheBoundLvl - 1
  /\ UNCHANGED theVoidPorts

(* FtpCltXact::stopDataListen closes the listening socket and forgets its  *)
(* port; the port manager is not told.                                     *)
StopDataListen(l) ==
  /\ boundPort[l] # NoPort
  /\ boundPort' = [boundPort EXCEPT ![l] = NoPort]
  /\ UNCHANGED <<theValidPorts, theVoidPorts, TheBoundLvl>>

Next ==
  \/ \E s \in Sockets : Bind(s)
  \/ \E c \in Conns : Release(c)
  \/ \E l \in Listeners : StopDataListen(l)

Spec == Init /\ [][Next]_vars

-----------------------------------------------------------------------------
TypeOK ==
  /\ theValidPorts \in Seq(Ports)
  /\ theVoidPorts \in Seq(Ports)
  /\ boundPort \in [Sockets -> Ports \cup {NoPort}]
  /\ TheBoundLvl \in Int

BoundSockets == {s \in Sockets : boundPort[s] # NoPort}

(* A port has one owner: it is never queued twice, never in both rings,    *)
(* never queued while a socket is bound to it, and never bound twice.  Two *)
(* rings of capacity PortCount() that hold distinct ports also never meet  *)
(* Ring::enqueue's Must(!full()).                                          *)
OnePlacePerPort ==
  /\ IsInjective(theValidPorts)
  /\ IsInjective(theVoidPorts)
  /\ Range(theValidPorts) \cap Range(theVoidPorts) = {}
  /\ \A s \in BoundSockets :
       /\ boundPort[s] \notin Range(theValidPorts) \cup Range(theVoidPorts)
       /\ \A t \in BoundSockets : boundPort[s] = boundPort[t] => s = t

(* No port is lost: whatever is not bound can still be allocated.          *)
NoPortLost ==
  \A p \in Ports :
    \/ p \in Range(theValidPorts) \cup Range(theVoidPorts)
    \/ \E s \in Sockets : boundPort[s] = p

(* Where listening sockets lose ports, nothing else does: a port that is   *)
(* neither queued nor bound any more was that of a listener that stopped.  *)
LostPorts ==
  {p \in Ports : /\ p \notin Range(theValidPorts) \cup Range(theVoidPorts)
                 /\ \A s \in Sockets : boundPort[s] # p}

OnlyListenersLosePorts ==
  [][\A p \in Ports :
       p \in LostPorts' /\ p \notin LostPorts =>
         \E l \in Listeners : boundPort[l] = p /\ boundPort'[l] = NoPort]_vars

(* TheBoundLvl counts the ports that are out of the rings, whoever holds   *)
(* them or has forgotten them.                                             *)
LevelIsPortsOut ==
  TheBoundLvl
    = Cardinality(Ports \ (Range(theValidPorts) \cup Range(theVoidPorts)))

(* TheBoundLvl is the "bound ports level" of PortMgr.h: the number of      *)
(* sockets that hold a port right now.                                     *)
BoundLvlIsBoundPorts == TheBoundLvl = Cardinality(BoundSockets)
=============================================================================
