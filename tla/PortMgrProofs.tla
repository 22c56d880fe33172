---------------------------- MODULE PortMgrProofs ----------------------------
(***************************************************************************)
(* Proofs about the explicit port pool, for every range of ports and every *)
(* number of connections and listening sockets.                            *)
(***************************************************************************)
EXTENDS PortMgr, DistinctSeqs

-----------------------------------------------------------------------------
(* The inductive invariant: the rings and the bound sockets share out the  *)
(* ports.  OnePlacePerPort is inductive together with the types.           *)
IInv == TypeOK /\ OnePlacePerPort

(* What an allocation does to the rings, whichever ring the port came      *)
(* from: exactly port p leaves them and becomes the port of socket s.      *)
Taken(s, p) ==
  /\ theValidPorts' \in Seq(Ports) /\ IsInjective(theValidPorts')
  /\ theVoidPorts' \in Seq(Ports) /\ IsInjective(theVoidPorts')
  /\ Range(theValidPorts') \cap Range(theVoidPorts') = {}
  /\ p \in Range(theValidPorts) \cup Range(theVoidPorts)
  /\ Range(theValidPorts') \cup Range(theVoidPorts')
       = (Range(theValidPorts) \cup Range(theVoidPorts)) \ {p}
  /\ boundPort' = [boundPort EXCEPT ![s] = p]

LEMMA RingPortsAreInRange ==
  ASSUME NEW q \in Seq(Ports)
  PROVE  Range(q) \subseteq Ports
  BY LenProperties, ElementOfSeq DEF Range

(* NoPort is not a port.                                                   *)
LEMMA NoPortIsNoPort == NoPort \notin Ports
  BY PortsAssumption DEF NoPort

LEMMA AllocValidTakes ==
  ASSUME IInv, NEW s \in Sockets, NEW refused, AllocValid(s, refused)
  PROVE  \E p \in Ports : Taken(s, p)
<1> PICK i \in Bindable(theValidPorts, refused) :
      /\ boundPort' = [boundPort EXCEPT ![s] = theValidPorts[i]]
      /\ theValidPorts' = SubSeq(theValidPorts, i + 1, Len(theValidPorts))
      /\ theVoidPorts' = theVoidPorts \o SubSeq(theValidPorts, 1, i - 1)
  BY DEF AllocValid
<1> DEFINE a == SubSeq(theValidPorts, 1, i - 1)
           b == SubSeq(theValidPorts, i + 1, Len(theValidPorts))
           p == theValidPorts[i]
<1>1. i \in DOMAIN theValidPorts
  BY DEF Bindable
<1>2. /\ theValidPorts \in Seq(Ports) /\ IsInjective(theValidPorts)
      /\ theVoidPorts \in Seq(Ports) /\ IsInjective(theVoidPorts)
      /\ Range(theValidPorts) \cap Range(theVoidPorts) = {}
  BY DEF IInv, TypeOK, OnePlacePerPort
<1>3. /\ a \in Seq(Ports) /\ IsInjective(a)
      /\ b \in Seq(Ports) /\ IsInjective(b)
      /\ Range(a) \cap Range(b) = {}
      /\ p \in Ports
      /\ p \notin Range(a) \cup Range(b)
      /\ Range(theValidPorts) = Range(a) \cup Range(b) \cup {p}
  BY <1>1, <1>2, CutOut
<1> HIDE DEF a, b, p
<1>4. /\ theVoidPorts \o a \in Seq(Ports)
      /\ IsInjective(theVoidPorts \o a)
      /\ Range(theVoidPorts \o a) = Range(theVoidPorts) \cup Range(a)
  <2>1. Range(theVoidPorts) \cap Range(a) = {}
    BY <1>2, <1>3
  <2> QED BY <2>1, <1>2, <1>3, JoinDistinct
<1>5. theValidPorts' = b /\ theVoidPorts' = theVoidPorts \o a
  BY DEF a, b
<1>6. boundPort' = [boundPort EXCEPT ![s] = p]
  BY DEF p
<1>7. p \notin Range(theVoidPorts)
  BY <1>2, <1>3
<1>8. Taken(s, p)
  BY <1>2, <1>3, <1>4, <1>5, <1>6, <1>7 DEF Taken
<1> QED BY <1>3, <1>8

LEMMA AllocVoidTakes ==
  ASSUME IInv, NEW s \in Sockets, NEW refused, AllocVoid(s, refused)
  PROVE  \E p \in Ports : Taken(s, p)
<1> DEFINE ring == theVoidPorts \o theValidPorts
<1> PICK i \in Bindable(ring, refused) :
      /\ boundPort' = [boundPort EXCEPT ![s] = ring[i]]
      /\ theVoidPorts' = SubSeq(ring, i + 1, Len(ring)) \o SubSeq(ring, 1, i - 1)
  BY DEF AllocVoid
<1> DEFINE a == SubSeq(ring, 1, i - 1)
           b == SubSeq(ring, i + 1, Len(ring))
           p == ring[i]
<1>1. i \in DOMAIN ring
  BY DEF Bindable
<1>2. /\ ring \in Seq(Ports) /\ IsInjective(ring)
      /\ Range(ring) = Range(theVoidPorts) \cup Range(theValidPorts)
  <2>1. /\ theValidPorts \in Seq(Ports) /\ IsInjective(theValidPorts)
        /\ theVoidPorts \in Seq(Ports) /\ IsInjective(theVoidPorts)
        /\ Range(theVoidPorts) \cap Range(theValidPorts) = {}
    BY DEF IInv, TypeOK, OnePlacePerPort
  <2> QED BY <2>1, JoinDistinct
<1>3. /\ a \in Seq(Ports) /\ IsInjective(a)
      /\ b \in Seq(Ports) /\ IsInjective(b)
      /\ Range(a) \cap Range(b) = {}
      /\ p \in Ports
      /\ p \notin Range(a) \cup Range(b)
      /\ Range(ring) = Range(a) \cup Range(b) \cup {p}
  <2> HIDE DEF ring
  <2> QED BY <1>1, <1>2, CutOut
<1>5. /\ theVoidPorts' = b \o a
      /\ boundPort' = [boundPort EXCEPT ![s] = p]
  BY DEF a, b, p
<1> HIDE DEF a, b, p, ring
<1>4. /\ b \o a \in Seq(Ports)
      /\ IsInjective(b \o a)
      /\ Range(b \o a) = Range(b) \cup Range(a)
  <2>1. Range(b) \cap Range(a) = {}
    BY <1>3
  <2> QED BY <2>1, <1>3, JoinDistinct
<1>6. theValidPorts' = << >>
  BY DEF AllocVoid
<1>7. /\ theValidPorts' \in Seq(Ports)
      /\ IsInjective(theValidPorts')
      /\ Range(theValidPorts') = {}
  BY <1>6, EmptyIsDistinct
<1>8. Taken(s, p)
  BY <1>2, <1>3, <1>4, <1>5, <1>7 DEF Taken
<1> QED BY <1>3, <1>8

(* A failed allocation moves every port to theVoidPorts.                   *)
LEMMA AllocFailedMoves ==
  ASSUME IInv, NEW refused, AllocFailed(refused)
  PROVE  /\ theValidPorts' \in Seq(Ports) /\ IsInjective(theValidPorts')
         /\ theVoidPorts' \in Seq(Ports) /\ IsInjective(theVoidPorts')
         /\ Range(theValidPorts') = {}
         /\ Range(theVoidPorts') = Range(theValidPorts) \cup Range(theVoidPorts)
         /\ boundPort' = boundPort
<1>1. /\ theValidPorts' = << >>
      /\ theVoidPorts' = theVoidPorts \o theValidPorts
      /\ boundPort' = boundPort
  BY DEF AllocFailed
<1>2. /\ theValidPorts \in Seq(Ports) /\ IsInjective(theValidPorts)
      /\ theVoidPorts \in Seq(Ports) /\ IsInjective(theVoidPorts)
      /\ Range(theVoidPorts) \cap Range(theValidPorts) = {}
  BY DEF IInv, TypeOK, OnePlacePerPort
<1>3. /\ theVoidPorts' \in Seq(Ports) /\ IsInjective(theVoidPorts')
      /\ Range(theVoidPorts') = Range(theVoidPorts) \cup Range(theValidPorts)
  BY <1>1, <1>2, JoinDistinct
<1> QED BY <1>1, <1>3, EmptyIsDistinct

(* Release returns the port to theValidPorts.                              *)
LEMMA ReleaseReturns ==
  ASSUME IInv, NEW c \in Conns, Release(c)
  PROVE  /\ boundPort[c] \in Ports
         /\ theValidPorts' \in Seq(Ports) /\ IsInjective(theValidPorts')
         /\ Range(theValidPorts') = Range(theValidPorts) \cup {boundPort[c]}
<1>1. c \in BoundSockets /\ boundPort[c] \in Ports
  BY DEF Release, BoundSockets, Sockets, IInv, TypeOK
<1>2. /\ theValidPorts \in Seq(Ports) /\ IsInjective(theValidPorts)
      /\ boundPort[c] \notin Range(theValidPorts)
  BY <1>1 DEF IInv, TypeOK, OnePlacePerPort
<1>3. theValidPorts' = Append(theValidPorts, boundPort[c])
  BY DEF Release
<1> QED BY <1>1, <1>2, <1>3, AppendDistinct

-----------------------------------------------------------------------------
LEMMA InitIInv == Init => IInv
<1> SUFFICES ASSUME Init PROVE IInv
  OBVIOUS
<1> PICK used \in SUBSET Ports :
      /\ theValidPorts \in SetToSeqs(Ports \ used)
      /\ theVoidPorts \in SetToSeqs(used)
  BY DEF Init
<1>1. IsFiniteSet(used) /\ IsFiniteSet(Ports \ used)
  BY PortsAssumption, FS_Subset
<1>2. /\ theValidPorts \in Seq(Ports \ used) /\ IsInjective(theValidPorts)
      /\ Range(theValidPorts) = Ports \ used
  BY <1>1, ListingOfSet
<1>3. /\ theVoidPorts \in Seq(used) /\ IsInjective(theVoidPorts)
      /\ Range(theVoidPorts) = used
  BY <1>1, ListingOfSet
<1>4. theValidPorts \in Seq(Ports) /\ theVoidPorts \in Seq(Ports)
  BY <1>2, <1>3, SeqMonotonic
<1>5. boundPort = [s \in Sockets |-> NoPort] /\ TheBoundLvl = 0
  BY DEF Init
<1>6. TypeOK
  BY <1>4, <1>5 DEF TypeOK
<1>7. BoundSockets = {}
  BY <1>5 DEF BoundSockets
<1>8. OnePlacePerPort
  BY <1>2, <1>3, <1>7 DEF OnePlacePerPort
<1> QED BY <1>6, <1>8 DEF IInv

(* A port that left the rings has one new owner.                           *)
LEMMA TakenKeepsIInv ==
  ASSUME IInv, NEW s \in Sockets, boundPort[s] = NoPort,
         NEW p \in Ports, Taken(s, p), TheBoundLvl' \in Int
  PROVE  IInv'
<1>1. boundPort \in [Sockets -> Ports \cup {NoPort}]
  BY DEF IInv, TypeOK
<1>2. /\ boundPort' \in [Sockets -> Ports \cup {NoPort}]
      /\ boundPort'[s] = p
      /\ \A t \in Sockets \ {s} : boundPort'[t] = boundPort[t]
  BY <1>1 DEF Taken
<1>3. TypeOK'
  BY <1>2 DEF Taken, TypeOK
<1>4. \A t \in BoundSockets' : t # s => t \in BoundSockets /\ boundPort'[t] = boundPort[t]
  BY <1>2 DEF BoundSockets
<1>5. p \in Range(theValidPorts) \cup Range(theVoidPorts)
  BY DEF Taken
<1>6. \A t \in BoundSockets : boundPort[t] # p
  BY <1>5 DEF IInv, OnePlacePerPort
<1>7. \A t \in BoundSockets' :
        boundPort'[t] \notin Range(theValidPorts') \cup Range(theVoidPorts')
  <2>1. Range(theValidPorts') \cup Range(theVoidPorts')
          = (Range(theValidPorts) \cup Range(theVoidPorts)) \ {p}
    BY DEF Taken
  <2>2. \A t \in BoundSockets : 
          boundPort[t] \notin Range(theValidPorts) \cup Range(theVoidPorts)
    BY DEF IInv, OnePlacePerPort
  <2> QED BY <1>2, <1>4, <2>1, <2>2
<1>8. \A t, u \in BoundSockets' : boundPort'[t] = boundPort'[u] => t = u
  <2>1. \A t, u \in BoundSockets : boundPort[t] = boundPort[u] => t = u
    BY DEF IInv, OnePlacePerPort
  <2> QED BY <1>2, <1>4, <1>6, <2>1
<1>9. OnePlacePerPort'
  BY <1>7, <1>8 DEF Taken, OnePlacePerPort
<1> QED BY <1>3, <1>9 DEF IInv

LEMMA BindTakesOrFails ==
  ASSUME IInv, NEW s \in Sockets, Bind(s)
  PROVE  \/ /\ \E p \in Ports : Taken(s, p)
            /\ TheBoundLvl' = TheBoundLvl + 1
         \/ /\ \E refused : AllocFailed(refused)
            /\ TheBoundLvl' = TheBoundLvl
<1> PICK refused \in SUBSET Ports :
      \/ /\ AllocValid(s, refused) \/ AllocVoid(s, refused)
         /\ TheBoundLvl' = TheBoundLvl + 1
      \/ /\ AllocFailed(refused)
         /\ UNCHANGED TheBoundLvl
  BY DEF Bind
<1>1. CASE AllocValid(s, refused) /\ TheBoundLvl' = TheBoundLvl + 1
  BY <1>1, AllocValidTakes
<1>2. CASE AllocVoid(s, refused) /\ TheBoundLvl' = TheBoundLvl + 1
  BY <1>2, AllocVoidTakes
<1>3. CASE AllocFailed(refused) /\ UNCHANGED TheBoundLvl
  BY <1>3
<1> QED BY <1>1, <1>2, <1>3

LEMMA BindKeepsIInv ==
  ASSUME IInv, NEW s \in Sockets, Bind(s)
  PROVE  IInv'
<1>0. boundPort[s] = NoPort /\ TheBoundLvl \in Int
  BY DEF Bind, IInv, TypeOK
<1>1. CASE (\E p \in Ports : Taken(s, p)) /\ TheBoundLvl' = TheBoundLvl + 1
  BY <1>0, <1>1, TakenKeepsIInv
<1>2. CASE (\E refused : AllocFailed(refused)) /\ TheBoundLvl' = TheBoundLvl
  <2>1. /\ theValidPorts' \in Seq(Ports) /\ IsInjective(theValidPorts')
        /\ theVoidPorts' \in Seq(Ports) /\ IsInjective(theVoidPorts')
        /\ Range(theValidPorts') = {}
        /\ Range(theVoidPorts') = Range(theValidPorts) \cup Range(theVoidPorts)
        /\ boundPort' = boundPort
    BY <1>2, AllocFailedMoves
  <2>2. TypeOK'
    BY <1>0, <1>2, <2>1 DEF IInv, TypeOK
  <2>3. BoundSockets' = BoundSockets
    BY <2>1 DEF BoundSockets
  <2>4. OnePlacePerPort'
    BY <2>1, <2>3 DEF IInv, OnePlacePerPort
  <2> QED BY <2>2, <2>4 DEF IInv
<1> QED BY <1>1, <1>2, BindTakesOrFails

LEMMA ReleaseKeepsIInv ==
  ASSUME IInv, NEW c \in Conns, Release(c)
  PROVE  IInv'
<1>1. c \in Sockets /\ c \in BoundSockets
  BY DEF Sockets, Release, BoundSockets
<1>2. boundPort \in [Sockets -> Ports \cup {NoPort}] /\ TheBoundLvl \in Int
  BY DEF IInv, TypeOK
<1>3. /\ boundPort' = [boundPort EXCEPT ![c] = NoPort]
      /\ TheBoundLvl' = TheBoundLvl - 1
      /\ theVoidPorts' = theVoidPorts
  BY DEF Release
<1>4. /\ boundPort' \in [Sockets -> Ports \cup {NoPort}]
      /\ boundPort'[c] = NoPort
      /\ \A t \in Sockets \ {c} : boundPort'[t] = boundPort[t]
  BY <1>1, <1>2, <1>3
<1>5. /\ boundPort[c] \in Ports
      /\ theValidPorts' \in Seq(Ports) /\ IsInjective(theValidPorts')
      /\ Range(theValidPorts') = Range(theValidPorts) \cup {boundPort[c]}
  BY ReleaseReturns
<1>6. TypeOK'
  BY <1>2, <1>3, <1>4, <1>5 DEF IInv, TypeOK
<1>7. \A t \in BoundSockets' :
        t \in BoundSockets /\ t # c /\ boundPort'[t] = boundPort[t]
  BY <1>4 DEF BoundSockets
<1>8. boundPort[c] \notin Range(theVoidPorts)
  BY <1>1 DEF IInv, OnePlacePerPort
<1>9. OnePlacePerPort'
  <2>1. /\ \A t, u \in BoundSockets : boundPort[t] = boundPort[u] => t = u
        /\ \A t \in BoundSockets :
             boundPort[t] \notin Range(theValidPorts) \cup Range(theVoidPorts)
        /\ IsInjective(theVoidPorts)
        /\ Range(theValidPorts) \cap Range(theVoidPorts) = {}
    BY DEF IInv, OnePlacePerPort
  <2>2. \A t \in BoundSockets' :
          boundPort'[t] \notin Range(theValidPorts') \cup Range(theVoidPorts')
    BY <2>1, <1>1, <1>3, <1>5, <1>7
  <2>3. Range(theValidPorts') \cap Range(theVoidPorts') = {}
    BY <2>1, <1>3, <1>5, <1>8
  <2> QED BY <2>1, <2>2, <2>3, <1>3, <1>5, <1>7 DEF OnePlacePerPort
<1> QED BY <1>6, <1>9 DEF IInv

LEMMA StopDataListenKeepsIInv ==
  ASSUME IInv, NEW l \in Listeners, StopDataListen(l)
  PROVE  IInv'
<1>1. /\ boundPort' \in [Sockets -> Ports \cup {NoPort}]
      /\ boundPort'[l] = NoPort
      /\ \A t \in Sockets \ {l} : boundPort'[t] = boundPort[t]
  BY DEF StopDataListen, IInv, TypeOK, Sockets
<1>2. TypeOK'
  BY <1>1 DEF StopDataListen, IInv, TypeOK
<1>3. \A t \in BoundSockets' : t \in BoundSockets /\ boundPort'[t] = boundPort[t]
  BY <1>1 DEF BoundSockets
<1>4. OnePlacePerPort'
  BY <1>3 DEF StopDataListen, IInv, OnePlacePerPort
<1> QED BY <1>2, <1>4 DEF IInv

LEMMA NextIInv == IInv /\ [Next]_vars => IInv'
<1> SUFFICES ASSUME IInv, [Next]_vars PROVE IInv'
  OBVIOUS
<1>1. ASSUME NEW s \in Sockets, Bind(s) PROVE IInv'
  BY <1>1, BindKeepsIInv
<1>2. ASSUME NEW c \in Conns, Release(c) PROVE IInv'
  BY <1>2, ReleaseKeepsIInv
<1>3. ASSUME NEW l \in Listeners, StopDataListen(l) PROVE IInv'
  BY <1>3, StopDataListenKeepsIInv
<1>4. CASE UNCHANGED vars
  BY <1>4 DEF vars, IInv, TypeOK, OnePlacePerPort, BoundSockets
<1> QED BY <1>1, <1>2, <1>3, <1>4 DEF Next

(* The state of the port manager keeps its types: both rings hold ports of *)
(* the configured range only, so Must(Belongs(port)) never fails.          *)
THEOREM PortMgrTypeOK == Spec => []TypeOK
<1>1. IInv => TypeOK
  BY DEF IInv
<1> QED BY <1>1, InitIInv, NextIInv, PTL DEF Spec

(* Whatever the system refuses and in whatever order sockets come and go,  *)
(* the two rings and the bound sockets never share a port, so no port is   *)
(* given out twice and Ring::enqueue never overflows.                      *)
THEOREM PortHasOneOwner == Spec => []OnePlacePerPort
<1>1. IInv => OnePlacePerPort
  BY DEF IInv
<1> QED BY <1>1, InitIInv, NextIInv, PTL DEF Spec

-----------------------------------------------------------------------------
(* The level follows the rings: bind takes one port out of them and adds   *)
(* one, release puts one back and subtracts one.                           *)
Out == Ports \ (Range(theValidPorts) \cup Range(theVoidPorts))

LEMMA InitLevel == Init => LevelIsPortsOut
<1> SUFFICES ASSUME Init PROVE LevelIsPortsOut
  OBVIOUS
<1> PICK used \in SUBSET Ports :
      /\ theValidPorts \in SetToSeqs(Ports \ used)
      /\ theVoidPorts \in SetToSeqs(used)
  BY DEF Init
<1>1. IsFiniteSet(used) /\ IsFiniteSet(Ports \ used)
  BY PortsAssumption, FS_Subset
<1>2. Range(theValidPorts) = Ports \ used /\ Range(theVoidPorts) = used
  BY <1>1, ListingOfSet
<1>3. Out = {} /\ TheBoundLvl = 0
  BY <1>2 DEF Init, Out
<1> QED BY <1>3, FS_EmptySet DEF LevelIsPortsOut, Out

LEMMA NextLevel == IInv /\ LevelIsPortsOut /\ [Next]_vars => LevelIsPortsOut'
<1> SUFFICES ASSUME IInv, LevelIsPortsOut, [Next]_vars
             PROVE  TheBoundLvl' = Cardinality(Out')
  BY DEF LevelIsPortsOut, Out
<1>0. /\ TheBoundLvl = Cardinality(Out)
      /\ IsFiniteSet(Out) /\ Cardinality(Out) \in Nat
  <2>1. IsFiniteSet(Out)
    BY PortsAssumption, FS_Subset DEF Out
  <2> QED BY <2>1, FS_CardinalityType DEF LevelIsPortsOut, Out
<1>1. ASSUME NEW s \in Sockets, Bind(s) PROVE TheBoundLvl' = Cardinality(Out')
  <2>1. CASE (\E p \in Ports : Taken(s, p)) /\ TheBoundLvl' = TheBoundLvl + 1
    <3> PICK p \in Ports : Taken(s, p)
      BY <2>1
    <3>1. p \notin Out /\ Out' = Out \cup {p}
      BY DEF Taken, Out
    <3>2. Cardinality(Out') = Cardinality(Out) + 1
      BY <1>0, <3>1, FS_AddElement
    <3> QED BY <1>0, <2>1, <3>2
  <2>2. CASE (\E refused : AllocFailed(refused)) /\ TheBoundLvl' = TheBoundLvl
    <3>1. Out' = Out
      BY <2>2, AllocFailedMoves DEF Out
    <3> QED BY <1>0, <2>2, <3>1
  <2> QED BY <1>1, <2>1, <2>2, BindTakesOrFails
<1>2. ASSUME NEW c \in Conns, Release(c) PROVE TheBoundLvl' = Cardinality(Out')
  <2> DEFINE p == boundPort[c]
  <2>1. p \in Out
    <3>1. c \in BoundSockets
      BY <1>2 DEF Release, BoundSockets, Sockets
    <3>2. p \in Ports
      BY <1>2, ReleaseReturns
    <3> QED BY <3>1, <3>2 DEF IInv, OnePlacePerPort, Out
  <2>2. Out' = Out \ {p}
    <3>1. Range(theValidPorts') = Range(theValidPorts) \cup {p}
      BY <1>2, ReleaseReturns
    <3>2. theVoidPorts' = theVoidPorts
      BY <1>2 DEF Release
    <3> QED BY <3>1, <3>2 DEF Out
  <2>3. Cardinality(Out') = Cardinality(Out) - 1
    BY <1>0, <2>1, <2>2, FS_RemoveElement
  <2>4. TheBoundLvl' = TheBoundLvl - 1
    BY <1>2 DEF Release
  <2> QED BY <1>0, <2>3, <2>4
<1>3. ASSUME NEW l \in Listeners, StopDataListen(l)
      PROVE  TheBoundLvl' = Cardinality(Out')
  BY <1>0, <1>3 DEF StopDataListen, Out
<1>4. CASE UNCHANGED vars
  BY <1>0, <1>4 DEF vars, Out
<1> QED BY <1>1, <1>2, <1>3, <1>4 DEF Next

(* TheBoundLvl always is the number of ports that bind took out of the     *)
(* rings and release did not put back.                                     *)
THEOREM LevelCountsPortsOut == Spec => []LevelIsPortsOut
<1>1. Init => IInv /\ LevelIsPortsOut
  BY InitIInv, InitLevel
<1>2. IInv /\ LevelIsPortsOut /\ [Next]_vars => IInv' /\ LevelIsPortsOut'
  BY NextIInv, NextLevel
<1> QED BY <1>1, <1>2, PTL DEF Spec

-----------------------------------------------------------------------------
(* Without active FTP, whoever takes a port is a Connection and gives it   *)
(* back.                                                                   *)
LEMMA InitNoPortLost == Init => NoPortLost
<1> SUFFICES ASSUME Init PROVE NoPortLost
  OBVIOUS
<1> PICK used \in SUBSET Ports :
      /\ theValidPorts \in SetToSeqs(Ports \ used)
      /\ theVoidPorts \in SetToSeqs(used)
  BY DEF Init
<1>1. IsFiniteSet(used) /\ IsFiniteSet(Ports \ used)
  BY PortsAssumption, FS_Subset
<1>2. Range(theValidPorts) = Ports \ used /\ Range(theVoidPorts) = used
  BY <1>1, ListingOfSet
<1> QED BY <1>2 DEF NoPortLost

(* Where port q is after a step, if it was queued or bound before.         *)
LEMMA StepKeepsPort ==
  ASSUME IInv, [Next]_vars, NEW q \in Ports, q \notin LostPorts
  PROVE  \/ q \notin LostPorts'
         \/ \E l \in Listeners : boundPort[l] = q /\ boundPort'[l] = NoPort
<1>0. /\ boundPort \in [Sockets -> Ports \cup {NoPort}]
      /\ q # NoPort
      /\ \/ q \in Range(theValidPorts) \cup Range(theVoidPorts)
         \/ \E t \in Sockets : boundPort[t] = q
  BY NoPortIsNoPort DEF IInv, TypeOK, LostPorts
<1> DEFINE Kept == \/ q \in Range(theValidPorts') \cup Range(theVoidPorts')
                   \/ \E t \in Sockets : boundPort'[t] = q
           Freed == \E l \in Listeners : boundPort[l] = q /\ boundPort'[l] = NoPort
<1>1. ASSUME NEW s \in Sockets, Bind(s) PROVE Kept
  <2>1. CASE \E p \in Ports : Taken(s, p)
    <3> PICK p \in Ports : Taken(s, p)
      BY <2>1
    <3>1. boundPort[s] = NoPort
      BY <1>1 DEF Bind
    <3>2. /\ boundPort'[s] = p
          /\ \A t \in Sockets \ {s} : boundPort'[t] = boundPort[t]
      BY <1>0 DEF Taken
    <3> QED BY <1>0, <3>1, <3>2 DEF Taken
  <2>2. CASE \E refused : AllocFailed(refused)
    BY <1>0, <2>2, AllocFailedMoves
  <2> QED BY <1>1, <2>1, <2>2, BindTakesOrFails
<1>2. ASSUME NEW c \in Conns, Release(c) PROVE Kept
  <2>1. Range(theValidPorts') = Range(theValidPorts) \cup {boundPort[c]}
    BY <1>2, ReleaseReturns
  <2>2. /\ theVoidPorts' = theVoidPorts
        /\ \A t \in Sockets \ {c} : boundPort'[t] = boundPort[t]
    BY <1>0, <1>2 DEF Release
  <2> QED BY <1>0, <2>1, <2>2
<1>3. ASSUME NEW l \in Listeners, StopDataListen(l) PROVE Kept \/ Freed
  <2>1. /\ theValidPorts' = theValidPorts /\ theVoidPorts' = theVoidPorts
        /\ boundPort'[l] = NoPort
        /\ \A t \in Sockets \ {l} : boundPort'[t] = boundPort[t]
    BY <1>0, <1>3 DEF StopDataListen, Sockets
  <2> QED BY <1>0, <2>1
<1>4. ASSUME UNCHANGED vars PROVE Kept
  BY <1>0, <1>4 DEF vars
<1>5. Kept \/ Freed
  BY <1>1, <1>2, <1>3, <1>4 DEF Next
<1> QED BY <1>5 DEF LostPorts

LEMMA LostPortsAreTheComplement == NoPortLost <=> LostPorts = {}
  BY DEF NoPortLost, LostPorts

LEMMA NextNoPortLost ==
  ASSUME Listeners = {}
  PROVE  IInv /\ NoPortLost /\ [Next]_vars => NoPortLost'
<1> SUFFICES ASSUME IInv, NoPortLost, [Next]_vars PROVE NoPortLost'
  OBVIOUS
<1>1. \A q \in Ports : q \notin LostPorts'
  BY StepKeepsPort, LostPortsAreTheComplement
<1> QED BY <1>1 DEF NoPortLost, LostPorts

(* Whatever the range, the sockets and what the system refuses: a port     *)
(* goes missing only when a listening socket of active FTP stops.          *)
THEOREM PortsGoMissingByListeners == Spec => OnlyListenersLosePorts
<1> DEFINE Step == \A p \in Ports :
             p \in LostPorts' /\ p \notin LostPorts =>
               \E l \in Listeners : boundPort[l] = p /\ boundPort'[l] = NoPort
<1>1. IInv /\ [Next]_vars => [Step]_vars
  BY StepKeepsPort
<1> QED BY <1>1, InitIInv, NextIInv, PTL DEF Spec, OnlyListenersLosePorts

(* If no robot uses active FTP, every port of the range is queued or held  *)
(* by an open connection: the pool never runs dry while ports are free.    *)
THEOREM ConnectionsLoseNoPort ==
  ASSUME Listeners = {}
  PROVE  Spec => []NoPortLost
<1>1. Init => IInv /\ NoPortLost
  BY InitIInv, InitNoPortLost
<1>2. IInv /\ NoPortLost /\ [Next]_vars => IInv' /\ NoPortLost'
  BY NextIInv, NextNoPortLost
<1> QED BY <1>1, <1>2, PTL DEF Spec

LEMMA LevelFromParts ==
  IInv /\ LevelIsPortsOut /\ NoPortLost => BoundLvlIsBoundPorts
<1> SUFFICES ASSUME IInv, LevelIsPortsOut, NoPortLost
             PROVE  Cardinality(BoundSockets) = Cardinality(Out)
  BY DEF BoundLvlIsBoundPorts, LevelIsPortsOut, Out
<1> DEFINE f == [s \in BoundSockets |-> boundPort[s]]
<1>1. IsFiniteSet(Out)
  BY PortsAssumption, FS_Subset DEF Out
<1>2. f \in [BoundSockets -> Out]
  <2>1. \A s \in BoundSockets : boundPort[s] \in Ports
    BY DEF BoundSockets, IInv, TypeOK
  <2> QED BY <2>1 DEF IInv, OnePlacePerPort, Out
<1>3. IsInjective(f)
  BY DEF IsInjective, IInv, OnePlacePerPort
<1>4. \A p \in Out : \E s \in BoundSockets : f[s] = p
  BY NoPortIsNoPort DEF NoPortLost, Out, BoundSockets
<1>5. f \in Injection(BoundSockets, Out)
  BY <1>2, <1>3 DEF Injection
<1>6. f \in Surjection(BoundSockets, Out)
  BY <1>2, <1>4 DEF Surjection
<1> QED BY <1>1, <1>5, <1>6, FS_Injection

(* If no robot uses active FTP, TheBoundLvl is what PortMgr.h says it is:  *)
(* the number of sockets that hold a port.                                 *)
THEOREM BoundLevelIsExact ==
  ASSUME Listeners = {}
  PROVE  Spec => []BoundLvlIsBoundPorts
<1>1. Init => IInv /\ LevelIsPortsOut /\ NoPortLost
  BY InitIInv, InitLevel, InitNoPortLost
<1>2. IInv /\ LevelIsPortsOut /\ NoPortLost /\ [Next]_vars
        => IInv' /\ LevelIsPortsOut' /\ NoPortLost'
  BY NextIInv, NextLevel, NextNoPortLost
<1> QED BY <1>1, <1>2, LevelFromParts, PTL DEF Spec
=============================================================================
