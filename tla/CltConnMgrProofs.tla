-------------------------- MODULE CltConnMgrProofs --------------------------
(***************************************************************************)
(* Proofs about the connection pool, for any number of connections and     *)
(* addresses and any limits.                                               *)
(*                                                                         *)
(* Almost every call rearranges the idle connections, may open one         *)
(* connection and closes some, at once or slowly.  Settled says what must  *)
(* hold before the closing begins; one lemma shows that closing turns that *)
(* into the invariant, and one lemma per call that it is Settled.          *)
(***************************************************************************)
EXTENDS CltConnMgr, DistinctSeqs

(* With `open' open and idle connections q, indexed by h, all is in order  *)
(* but for those of `base', which nobody uses and which are to be closed.  *)
Settled(q, h, fields, open, base) ==
  /\ open \subseteq Conns /\ base \subseteq open
  /\ fields \in [Conns -> ConnFields]
  /\ \A c \in open : fields[c].addr \in Addrs
  /\ q \in Seq(Conns) /\ IsInjective(q) /\ Range(q) \subseteq open \ base
  /\ h \in [Addrs -> Seq(Conns)]
  /\ \A a \in Addrs : /\ IsInjective(h[a])
                      /\ Range(h[a]) = {c \in Range(q) : fields[c].addr = a}
  /\ \A c \in Range(q) : /\ Reusable(fields[c])
                         /\ fields[c].useLvl = 0 /\ ~fields[c].closing
  /\ \A c \in base : fields[c].useLvl = 0
  /\ \A c \in open \ (Range(q) \cup base) : fields[c].useLvl > 0 <=> ~fields[c].closing
  /\ \A c \in Conns \ open : fields[c] = Fresh

(* The connections are in order, and nothing is to be closed.              *)
Ordered == Settled(theIdleQueue, theIdleHash, conn, TheConnIdx, {})

(* Connections that are used or idle never exceed the limit.               *)
BusyWithinLimit == Limit >= 0 => Cardinality(InUse) + Cardinality(Idle) <= Limit

(* The inductive invariant.                                                *)
IInv ==
  /\ Ordered
  /\ LevelIsOpenConns
  /\ BusyWithinLimit
  /\ failure \in {"none", "connLvl", "badRead", "pipeline"}
  /\ failure = "connLvl" => Closing # {}

-----------------------------------------------------------------------------
(* Closing connections.                                                    *)

LEMMA FreshIsConn ==
  Fresh \in ConnFields /\ Fresh.useLvl = 0 /\ ~Fresh.closing
  BY DEF Fresh, ConnFields

(* The fields after a close: those of late connections say so, those that  *)
(* are gone are fresh, the others are as they were.                        *)
LEMMA AfterCloseFields ==
  ASSUME NEW fields \in [Conns -> ConnFields], NEW closed, NEW late, NEW reading
  PROVE  LET f == AfterClose(fields, closed, late, reading) IN
         /\ f \in [Conns -> ConnFields]
         /\ \A c \in Conns : c \in late =>
              /\ f[c].closing /\ f[c].useLvl = fields[c].useLvl
              /\ f[c].addr = fields[c].addr
         /\ \A c \in Conns : c \in closed \ late => f[c] = Fresh
         /\ \A c \in Conns : c \notin closed \cup late => f[c] = fields[c]
<1> DEFINE f == AfterClose(fields, closed, late, reading)
<1>1. ASSUME NEW c \in Conns, c \in late
      PROVE  /\ f[c] \in ConnFields /\ f[c].closing
             /\ f[c].useLvl = fields[c].useLvl /\ f[c].addr = fields[c].addr
  <2> DEFINE r == c \in reading
  <2>1. r \in BOOLEAN
    OBVIOUS
  <2> HIDE DEF r
  <2>2. f[c] = [fields[c] EXCEPT !.closing = TRUE, !.wantsRead = r]
    BY <1>1 DEF AfterClose, r
  <2>3. fields[c] \in ConnFields
    OBVIOUS
  <2> QED BY <2>1, <2>2, <2>3 DEF ConnFields
<1>2. ASSUME NEW c \in Conns, c \notin late
      PROVE  f[c] = IF c \in closed THEN Fresh ELSE fields[c]
  BY <1>2 DEF AfterClose
<1>3. f = [c \in Conns |-> f[c]]
  BY DEF AfterClose
<1>4. f \in [Conns -> ConnFields]
  BY <1>1, <1>2, <1>3, FreshIsConn
<1> QED BY <1>1, <1>2, <1>4

(* How many connections are open once `opened' came and `gone' went.       *)
LEMMA CountAfter ==
  ASSUME NEW S, IsFiniteSet(S), NEW opened, IsFiniteSet(opened), opened \cap S = {},
         NEW gone, gone \subseteq S \cup opened
  PROVE  Cardinality((S \cup opened) \ gone)
           = Cardinality(S) + Cardinality(opened) - Cardinality(gone)
<1> DEFINE all == S \cup opened
<1>1. /\ IsFiniteSet(S \cup opened)
      /\ Cardinality(S \cup opened)
           = Cardinality(S) + Cardinality(opened) - Cardinality(S \cap opened)
  BY FS_Union
<1>2. S \cap opened = {} /\ Cardinality({}) = 0
  BY FS_EmptySet
<1>3. Cardinality(S) \in Nat /\ Cardinality(opened) \in Nat
  BY FS_CardinalityType
<1>4. IsFiniteSet(all) /\ Cardinality(all) = Cardinality(S) + Cardinality(opened)
  <2>1. Cardinality(S \cap opened) = 0
    BY <1>2, Zenon
  <2> QED BY <1>1, <1>3, <2>1
<1> HIDE DEF all
<1>5. IsFiniteSet(gone) /\ all \cap gone = gone
  BY <1>4, FS_Subset DEF all
<1>6. Cardinality(all \ gone) = Cardinality(all) - Cardinality(all \cap gone)
  BY <1>4, FS_Difference
<1>7. Cardinality(all \cap gone) = Cardinality(gone)
  BY <1>5, Zenon
<1>8. Cardinality(all \ gone) = Cardinality(S) + Cardinality(opened) - Cardinality(gone)
  <2>1. Cardinality(all \ gone) = Cardinality(all) - Cardinality(gone)
    BY <1>6, <1>7, Zenon
  <2>2. Cardinality(all) \in Nat /\ Cardinality(gone) \in Nat
    BY <1>4, <1>5, FS_CardinalityType
  <2> QED BY <1>3, <1>4, <2>1, <2>2
<1> QED BY <1>8, Zenon DEF all

(* A call leaves the connections in order, `used', `idle' unless the phase *)
(* ended, and those of `still' and the ones that close slowly.             *)
Effect(used, idle, still, base) ==
  \E ended \in {{}, idle} : \E late \in SUBSET (ended \cup base) :
    /\ Ordered' /\ LevelIsOpenConns'
    /\ InUse' = used
    /\ Idle' = idle \ ended
    /\ Closing' = still \cup late

(* What a call that closes connections leaves behind.  theConnLvl is       *)
(* raised and lowered by as many connections as TheConnIdx gains and loses.*)
LEMMA CallEffect ==
  ASSUME LevelIsOpenConns,
         NEW q, NEW h, NEW fields, NEW open, NEW base, NEW opened, NEW ended, NEW closed,
         Settled(q, h, fields, open, base),
         SetIdle(q, h, ended),
         Close(fields, opened, closed),
         open = TheConnIdx \cup opened, opened \cap TheConnIdx = {},
         closed = ended \cup base,
         NEW used, NEW idle, NEW still,
         used = {c \in open : fields[c].useLvl > 0},
         idle = Range(q),
         still = {c \in open \ base : fields[c].closing}
  PROVE  Effect(used, idle, still, base)
<1>1. PICK late \in SUBSET MayLinger(fields, closed) :
        /\ \E reading \in SUBSET late :
             conn' = AfterClose(fields, closed, late, reading)
        /\ TheConnIdx' = open \ (closed \ late)
        /\ theConnLvl' = theConnLvl + Cardinality(opened) - Cardinality(closed \ late)
  BY DEF Close
<1>2. late \subseteq closed
  BY DEF MayLinger
<1>3. /\ open = TheConnIdx \cup opened /\ closed = ended \cup base
      /\ open \subseteq Conns /\ base \subseteq open
      /\ fields \in [Conns -> ConnFields]
      /\ \A c \in open : fields[c].addr \in Addrs
      /\ q \in Seq(Conns) /\ IsInjective(q) /\ Range(q) \subseteq open \ base
      /\ h \in [Addrs -> Seq(Conns)]
      /\ \A a \in Addrs : /\ IsInjective(h[a])
                          /\ Range(h[a]) = {c \in Range(q) : fields[c].addr = a}
      /\ \A c \in Range(q) : /\ Reusable(fields[c])
                             /\ fields[c].useLvl = 0 /\ ~fields[c].closing
      /\ \A c \in base : fields[c].useLvl = 0
      /\ \A c \in open \ (Range(q) \cup base) :
           fields[c].useLvl > 0 <=> ~fields[c].closing
      /\ \A c \in Conns \ open : fields[c] = Fresh
  BY DEF Settled
<1>4. /\ conn' \in [Conns -> ConnFields]
      /\ \A c \in Conns : c \in late => /\ conn'[c].closing
                                        /\ conn'[c].useLvl = fields[c].useLvl
                                        /\ conn'[c].addr = fields[c].addr
      /\ \A c \in Conns : c \in closed \ late => conn'[c] = Fresh
      /\ \A c \in Conns : c \notin closed => conn'[c] = fields[c]
  BY <1>1, <1>2, <1>3, AfterCloseFields
<1>5. << >> \in Seq(Conns) /\ IsInjective(<< >>) /\ Range(<< >>) = {}
  BY EmptyIsDistinct
<1>6. /\ ended \in {{}, idle} /\ ended \subseteq Range(q) /\ Idle' = Range(q) \ ended
      /\ theIdleQueue' \in Seq(Conns) /\ IsInjective(theIdleQueue')
  <2>1. CASE ended = {} /\ theIdleQueue' = q
    BY <1>3, <2>1 DEF Idle
  <2>2. CASE ended = Range(q) /\ theIdleQueue' = << >>
    BY <1>5, <2>2 DEF Idle
  <2> QED BY <2>1, <2>2 DEF SetIdle
<1>7. /\ theIdleHash' \in [Addrs -> Seq(Conns)]
      /\ \A a \in Addrs : /\ IsInjective(theIdleHash'[a])
                          /\ Range(theIdleHash'[a]) =
                               {c \in Range(q) \ ended : fields[c].addr = a}
  <2>1. CASE ended = {} /\ theIdleHash' = h
    BY <1>3, <2>1
  <2>2. CASE ended = Range(q) /\ theIdleHash' = EmptyHash
    BY <1>5, <2>2 DEF EmptyHash
  <2> QED BY <2>1, <2>2 DEF SetIdle
<1>8. \A c \in Range(q) \ ended : c \in Conns /\ c \notin closed /\ conn'[c] = fields[c]
  BY <1>3, <1>4
<1>9. \A c \in closed : c \in Conns /\ fields[c].useLvl = 0
  BY <1>3, <1>6
<1>10. TheConnIdx' \subseteq Conns /\ TheConnIdx' = (open \ closed) \cup late
  BY <1>1, <1>2, <1>3, <1>6
<1>11. \A c \in TheConnIdx' \ Idle' : conn'[c].useLvl > 0 <=> ~conn'[c].closing
  BY <1>2, <1>3, <1>4, <1>6, <1>9, <1>10
<1>12. \A c \in Conns \ TheConnIdx' : conn'[c] = Fresh
  BY <1>3, <1>4, <1>10
<1>13. Settled(theIdleQueue', theIdleHash', conn', TheConnIdx', {})
  <2>1. Range(theIdleQueue') = Range(q) \ ended
    BY <1>6 DEF Idle
  <2>2. Range(theIdleQueue') \subseteq TheConnIdx'
    BY <1>3, <1>10, <2>1
  <2>3. \A a \in Addrs : Range(theIdleHash'[a]) =
                           {c \in Range(theIdleQueue') : conn'[c].addr = a}
    BY <1>7, <1>8, <2>1
  <2>4. \A c \in Range(theIdleQueue') : /\ Reusable(conn'[c])
                                        /\ conn'[c].useLvl = 0 /\ ~conn'[c].closing
    BY <1>3, <1>8, <2>1
  <2>5. \A c \in TheConnIdx' \ Range(theIdleQueue') : conn'[c].useLvl > 0 <=> ~conn'[c].closing
    BY <1>11 DEF Idle
  <2>6. \A c \in TheConnIdx' : conn'[c].addr \in Addrs
    BY <1>2, <1>3, <1>4, <1>6, <1>10
  <2> QED BY <1>4, <1>6, <1>7, <1>10, <1>12, <2>2, <2>3, <2>4, <2>5, <2>6 DEF Settled
<1>14. InUse' = {c \in open : fields[c].useLvl > 0}
  BY <1>2, <1>3, <1>4, <1>9, <1>10 DEF InUse
<1>15. Closing' = {c \in open \ base : fields[c].closing} \cup late
  BY <1>2, <1>3, <1>4, <1>6, <1>10 DEF Closing
<1>16. closed \subseteq open
  BY <1>3, <1>6
<1> DEFINE gone == closed \ late
<1>17. IsFiniteSet(TheConnIdx) /\ IsFiniteSet(opened)
       /\ gone \subseteq TheConnIdx \cup opened
  BY <1>3, <1>16, ConnsAssumption, FS_Subset
<1>18. LevelIsOpenConns'
  <2>1. /\ theConnLvl = Cardinality(TheConnIdx)
        /\ theConnLvl' = theConnLvl + Cardinality(opened) - Cardinality(gone)
        /\ TheConnIdx' = open \ gone
    BY <1>1 DEF LevelIsOpenConns
  <2>2. opened \cap TheConnIdx = {}
    OBVIOUS
  <2> HIDE DEF gone
  <2>3. Cardinality((TheConnIdx \cup opened) \ gone)
          = Cardinality(TheConnIdx) + Cardinality(opened) - Cardinality(gone)
    BY <1>17, <2>2, CountAfter
  <2>4. Cardinality(open \ gone)
          = Cardinality(TheConnIdx) + Cardinality(opened) - Cardinality(gone)
    BY <1>3, <2>3, Zenon
  <2> QED BY <2>1, <2>4 DEF LevelIsOpenConns
<1>19. late \in SUBSET (ended \cup base) /\ Closing' = still \cup late
  BY <1>2, <1>15
<1> QED BY <1>6, <1>13, <1>14, <1>18, <1>19 DEF Effect, Ordered

-----------------------------------------------------------------------------
(* Taking a connection out of the idle ones.                               *)

TakenOut(c, q, h) ==
  /\ q \in Seq(Conns) /\ IsInjective(q) /\ Range(q) = Idle \ {c}
  /\ h \in [Addrs -> Seq(Conns)]
  /\ \A a \in Addrs : /\ IsInjective(h[a])
                      /\ Range(h[a]) = {d \in Idle \ {c} : conn[d].addr = a}

LEMMA DequeueDistinct ==
  ASSUME NEW q \in Seq(Conns), IsInjective(q), NEW c \in Range(q)
  PROVE  /\ Dequeue(q, c) \in Seq(Conns)
         /\ IsInjective(Dequeue(q, c))
         /\ Range(Dequeue(q, c)) = Range(q) \ {c}
<1> DEFINE i == CHOOSE k \in DOMAIN q : q[k] = c
<1>1. i \in DOMAIN q /\ q[i] = c
  BY DEF Range
<1>2. Dequeue(q, c) = RemoveAt(q, i)
  BY DEF Dequeue
<1> HIDE DEF i
<1> QED BY <1>1, <1>2, RemoveAtDistinct

(* If one chain of the hash loses c, and c belongs there, all is in order. *)
LEMMA HashTakenOut ==
  ASSUME Settled(theIdleQueue, theIdleHash, conn, TheConnIdx, {}),
         NEW c \in Idle, NEW b \in Addrs, conn[c].addr = b,
         NEW s \in Seq(Conns), IsInjective(s), Range(s) = Range(theIdleHash[b]) \ {c},
         NEW q \in Seq(Conns), IsInjective(q), Range(q) = Idle \ {c}
  PROVE  TakenOut(c, q, [theIdleHash EXCEPT ![b] = s])
<1> DEFINE h == [theIdleHash EXCEPT ![b] = s]
<1>1. /\ theIdleHash \in [Addrs -> Seq(Conns)]
      /\ \A a \in Addrs : /\ IsInjective(theIdleHash[a])
                          /\ Range(theIdleHash[a]) = {d \in Idle : conn[d].addr = a}
  BY DEF Settled, Idle
<1>2. h \in [Addrs -> Seq(Conns)] /\ h[b] = s /\ \A a \in Addrs \ {b} : h[a] = theIdleHash[a]
  BY <1>1
<1> HIDE DEF h
<1>3. ASSUME NEW a \in Addrs
      PROVE  IsInjective(h[a]) /\ Range(h[a]) = {d \in Idle \ {c} : conn[d].addr = a}
  <2>1. CASE a = b
    BY <1>1, <1>2, <2>1
  <2>2. CASE a # b
    BY <1>1, <1>2, <2>2
  <2> QED BY <2>1, <2>2
<1> QED BY <1>2, <1>3 DEF TakenOut, h

(* ConnMgr::delIdle of any idle connection.                                *)
LEMMA DelIdleTakesOut ==
  ASSUME Settled(theIdleQueue, theIdleHash, conn, TheConnIdx, {}), NEW c \in Idle
  PROVE  TakenOut(c, Dequeue(theIdleQueue, c),
                  [theIdleHash EXCEPT ![conn[c].addr] = Dequeue(@, c)])
<1> DEFINE b == conn[c].addr
<1>1. /\ theIdleQueue \in Seq(Conns) /\ IsInjective(theIdleQueue) /\ b \in Addrs
      /\ theIdleHash \in [Addrs -> Seq(Conns)]
      /\ IsInjective(theIdleHash[b]) /\ c \in Range(theIdleHash[b])
      /\ c \in Range(theIdleQueue)
  BY DEF Settled, Idle
<1>2. LET q == Dequeue(theIdleQueue, c)
      IN  q \in Seq(Conns) /\ IsInjective(q) /\ Range(q) = Idle \ {c}
  BY <1>1, DequeueDistinct DEF Idle
<1>3. LET s == Dequeue(theIdleHash[b], c)
      IN  s \in Seq(Conns) /\ IsInjective(s) /\ Range(s) = Range(theIdleHash[b]) \ {c}
  <2>1. theIdleHash[b] \in Seq(Conns)
    BY <1>1
  <2> QED BY <1>1, <2>1, DequeueDistinct
<1>4. [theIdleHash EXCEPT ![b] = Dequeue(@, c)]
        = [theIdleHash EXCEPT ![b] = Dequeue(theIdleHash[b], c)]
  BY <1>1
<1> QED BY <1>1, <1>2, <1>3, <1>4, HashTakenOut

(* The most recent one of an address (findIdle).                           *)
LEMMA ReuseTakesOut ==
  ASSUME Settled(theIdleQueue, theIdleHash, conn, TheConnIdx, {}),
         NEW b \in Addrs, theIdleHash[b] # << >>
  PROVE  LET c == Last(theIdleHash[b]) IN
         /\ c \in Idle
         /\ TakenOut(c, Dequeue(theIdleQueue, c), [theIdleHash EXCEPT ![b] = Front(@)])
<1> DEFINE c == Last(theIdleHash[b])
           s == Front(theIdleHash[b])
<1>1. /\ theIdleQueue \in Seq(Conns) /\ IsInjective(theIdleQueue)
      /\ theIdleHash \in [Addrs -> Seq(Conns)] /\ theIdleHash[b] \in Seq(Conns)
      /\ IsInjective(theIdleHash[b])
      /\ Range(theIdleHash[b]) = {d \in Idle : conn[d].addr = b}
  BY DEF Settled, Idle
<1>2. /\ c \in Range(theIdleHash[b]) /\ s \in Seq(Conns) /\ IsInjective(s)
      /\ Range(s) = Range(theIdleHash[b]) \ {c}
  BY <1>1, FrontDistinct
<1>3. [theIdleHash EXCEPT ![b] = Front(@)] = [theIdleHash EXCEPT ![b] = s]
  BY <1>1
<1> HIDE DEF c, s
<1>4. c \in Idle /\ conn[c].addr = b /\ c \in Range(theIdleQueue)
  BY <1>1, <1>2 DEF Idle
<1>5. LET q == Dequeue(theIdleQueue, c)
      IN  q \in Seq(Conns) /\ IsInjective(q) /\ Range(q) = Idle \ {c}
  BY <1>1, <1>4, DequeueDistinct DEF Idle
<1>6. TakenOut(c, Dequeue(theIdleQueue, c), [theIdleHash EXCEPT ![b] = s])
  BY <1>2, <1>4, <1>5, HashTakenOut
<1> QED BY <1>3, <1>4, <1>6 DEF c

(* The oldest one, when the limit is reached.                              *)
LEMMA OldestTakenOut ==
  ASSUME Settled(theIdleQueue, theIdleHash, conn, TheConnIdx, {}), theIdleQueue # << >>
  PROVE  LET v == Head(theIdleQueue) IN
         /\ v \in Idle
         /\ TakenOut(v, Tail(theIdleQueue),
                     [theIdleHash EXCEPT ![conn[v].addr] = Dequeue(@, v)])
<1> DEFINE v == Head(theIdleQueue)
           q == Tail(theIdleQueue)
<1>1. theIdleQueue \in Seq(Conns) /\ IsInjective(theIdleQueue)
  BY DEF Settled
<1>2. /\ v \in Idle /\ q \in Seq(Conns) /\ IsInjective(q) /\ Range(q) = Idle \ {v}
  BY <1>1, TailDistinct DEF Idle
<1> HIDE DEF v, q
<1>3. TakenOut(v, q, [theIdleHash EXCEPT ![conn[v].addr] = Dequeue(@, v)])
  BY <1>2, DelIdleTakesOut DEF TakenOut
<1> QED BY <1>2, <1>3 DEF v, q

-----------------------------------------------------------------------------
(* The calls, one by one.                                                  *)

(* Every open connection is used, idle or closing, and only one of these.  *)
LEMMA Partition ==
  ASSUME Ordered
  PROVE  /\ TheConnIdx = InUse \cup Idle \cup Closing
         /\ TheConnIdx \subseteq Conns /\ conn \in [Conns -> ConnFields]
         /\ \A c \in TheConnIdx : conn[c].addr \in Addrs
         /\ InUse \cap Idle = {} /\ InUse \cap Closing = {} /\ Idle \cap Closing = {}
  BY DEF Ordered, Settled, InUse, Idle, Closing

(* Connection::startUse changes the use counts and nothing else.           *)
LEMMA StartUseFields ==
  ASSUME NEW f \in ConnFields
  PROVE  /\ StartUse(f) \in ConnFields
         /\ StartUse(f).useLvl = f.useLvl + 1
         /\ StartUse(f).closing = f.closing
         /\ StartUse(f).addr = f.addr
<1>1. f.useLvl \in Nat /\ f.useCnt \in Nat
  BY DEF ConnFields
<1>2. f.useLvl + 1 \in Nat /\ f.useCnt + 1 \in Nat
  BY <1>1
<1>3. /\ StartUse(f).useLvl = f.useLvl + 1 /\ StartUse(f).useCnt = f.useCnt + 1
      /\ StartUse(f).closing = f.closing /\ StartUse(f).addr = f.addr
  BY DEF StartUse, ConnFields
<1>4. StartUse(f) \in ConnFields
  BY <1>2 DEF StartUse, ConnFields
<1> QED BY <1>3, <1>4

(* An idle connection was taken out, to be used or to be closed.           *)
LEMMA TakenOutSettles ==
  ASSUME Ordered, NEW c \in Idle, NEW q, NEW h, TakenOut(c, q, h)
  PROVE  /\ Settled(q, h, conn, TheConnIdx, {c})
         /\ Settled(q, h, [conn EXCEPT ![c] = StartUse(@)], TheConnIdx, {})
<1>1. c \in TheConnIdx /\ c \in Conns
  BY Partition
<1>2. Settled(q, h, conn, TheConnIdx, {c})
  BY <1>1, Partition DEF Ordered, Settled, TakenOut, Idle
<1> DEFINE f == [conn EXCEPT ![c] = StartUse(@)]
<1>3. conn[c] \in ConnFields /\ conn[c].useLvl = 0 /\ ~conn[c].closing
  BY <1>1, Partition DEF Ordered, Settled, Idle
<1>4. /\ StartUse(conn[c]) \in ConnFields /\ StartUse(conn[c]).useLvl = 1
      /\ ~StartUse(conn[c]).closing /\ StartUse(conn[c]).addr = conn[c].addr
  BY <1>3, StartUseFields
<1>5. f \in [Conns -> ConnFields] /\ f[c] = StartUse(conn[c])
      /\ \A d \in Conns \ {c} : f[d] = conn[d]
  BY <1>1, <1>4, Partition
<1> HIDE DEF f
<1>6. Settled(q, h, f, TheConnIdx, {})
  <2>1. Range(q) = Idle \ {c} /\ Range(q) \subseteq TheConnIdx
    BY Partition DEF TakenOut
  <2>2. \A a \in Addrs : Range(h[a]) = {d \in Range(q) : f[d].addr = a}
    BY <1>5, <2>1, Partition DEF TakenOut
  <2>3. \A d \in Range(q) : /\ Reusable(f[d])
                            /\ f[d].useLvl = 0 /\ ~f[d].closing
    BY <1>5, <2>1, Partition DEF Ordered, Settled, Idle
  <2>4. \A d \in TheConnIdx \ Range(q) : f[d].useLvl > 0 <=> ~f[d].closing
    BY <1>4, <1>5, <2>1, Partition DEF Ordered, Settled, Idle
  <2>5. \A d \in Conns \ TheConnIdx : f[d] = Fresh
    BY <1>1, <1>5 DEF Ordered, Settled
  <2>6. \A d \in TheConnIdx : f[d].addr \in Addrs
    BY <1>4, <1>5, Partition
  <2> QED BY <1>5, <2>1, <2>2, <2>3, <2>4, <2>5, <2>6, Partition DEF Settled, TakenOut
<1> QED BY <1>2, <1>6 DEF f

LEMMA ReuseEffect ==
  ASSUME Ordered, LevelIsOpenConns, NEW a \in Addrs, Reuse(a)
  PROVE  \E c \in Idle : Effect(InUse \cup {c}, Idle \ {c}, Closing, {})
<1>1a. PICK b \in IdleAddrs(a) :
        LET c == Last(theIdleHash[b]) IN
        \E ended :
          /\ SetIdle(Dequeue(theIdleQueue, c), [theIdleHash EXCEPT ![b] = Front(@)], ended)
          /\ Close([conn EXCEPT ![c] = StartUse(@)], {}, ended)
  BY DEF Reuse
<1>1. PICK ended :
        LET c == Last(theIdleHash[b]) IN
        /\ SetIdle(Dequeue(theIdleQueue, c), [theIdleHash EXCEPT ![b] = Front(@)], ended)
        /\ Close([conn EXCEPT ![c] = StartUse(@)], {}, ended)
  BY <1>1a
<1>2. b \in Addrs /\ theIdleHash[b] # << >>
  BY AddrsAssumption DEF IdleAddrs
<1> DEFINE c == Last(theIdleHash[b])
           q == Dequeue(theIdleQueue, c)
           h == [theIdleHash EXCEPT ![b] = Front(@)]
           f == [conn EXCEPT ![c] = StartUse(@)]
<1>3. c \in Idle /\ TakenOut(c, q, h)
  BY <1>2, ReuseTakesOut DEF Ordered
<1>4. SetIdle(q, h, ended) /\ Close(f, {}, ended)
  BY <1>1
<1> HIDE DEF c, q, h
<1>5. Settled(q, h, f, TheConnIdx, {})
  BY <1>3, TakenOutSettles
<1>6. InUse \cup {c} = {d \in TheConnIdx : f[d].useLvl > 0}
  BY <1>3, Partition, StartUseFields DEF InUse, Ordered, Settled, Idle
<1>7. Closing = {d \in TheConnIdx \ {} : f[d].closing}
  BY <1>3, Partition, StartUseFields DEF Closing
<1>8. Idle \ {c} = Range(q)
  BY <1>3 DEF TakenOut
<1> HIDE DEF f
<1>9. /\ TheConnIdx = TheConnIdx \cup {} /\ {} \cap TheConnIdx = {}
      /\ ended = ended \cup {}
  OBVIOUS
<1>10. Effect(InUse \cup {c}, Idle \ {c}, Closing, {})
  BY <1>4, <1>5, <1>6, <1>7, <1>8, <1>9, CallEffect, Zenon
<1> QED BY <1>3, <1>10

(* CltConnMgr::open: the fields of a new connection.                       *)
LEMMA OpenedFields ==
  ASSUME NEW a \in Addrs, NEW useLmt \in UseLimits, NEW depth \in PipeDepths
  PROVE  LET r == Opened(a, useLmt, depth)
         IN  r \in ConnFields /\ r.useLvl > 0 /\ ~r.closing /\ r.addr = a
<1> DEFINE s == a \in SslAddrs
           r0 == [Fresh EXCEPT !.addr = a, !.useCntLmt = useLmt, !.useLvlLmt = depth, !.ssl = s]
<1>1. s \in BOOLEAN /\ useLmt \in Int /\ depth \in Int
  BY LimitsAssumption
<1>2. Opened(a, useLmt, depth) = StartUse(r0)
  BY DEF Opened
<1> HIDE DEF s
<1>3. r0.useLvl = 0 /\ ~r0.closing /\ r0.addr = a
  BY DEF Fresh
<1>4. r0 \in ConnFields
  BY <1>1 DEF Fresh, ConnFields
<1> HIDE DEF r0
<1> QED BY <1>2, <1>3, <1>4, StartUseFields

(* connect() fails or yields a connection, after those of `base' were      *)
(* taken out to make room.                                                 *)
LEMMA OpenEffect ==
  ASSUME Ordered, LevelIsOpenConns, NEW a \in Addrs, NEW q, NEW h, NEW base,
         base \subseteq Idle, Settled(q, h, conn, TheConnIdx, base), Range(q) = Idle \ base,
         OpenWith(a, q, h, base)
  PROVE  \/ Effect(InUse, Idle \ base, Closing, base)
         \/ \E c \in Conns \ TheConnIdx : Effect(InUse \cup {c}, Idle \ base, Closing, base)
<1>1. PICK ended :
        /\ SetIdle(q, h, ended)
        /\ \/ Close(conn, {}, base \cup ended)
           \/ \E c \in Conns \ TheConnIdx, useLmt \in UseLimits, depth \in PipeDepths :
                Close([conn EXCEPT ![c] = Opened(a, useLmt, depth)], {c}, base \cup ended)
  BY DEF OpenWith
<1>2. base \cup ended = ended \cup base /\ Idle \ base = Range(q)
  OBVIOUS
<1>3. CASE Close(conn, {}, base \cup ended)
  <2>1. /\ TheConnIdx = TheConnIdx \cup {} /\ {} \cap TheConnIdx = {}
        /\ InUse = {d \in TheConnIdx : conn[d].useLvl > 0}
    BY DEF InUse
  <2>2. Closing = {d \in TheConnIdx \ base : conn[d].closing}
    BY Partition DEF Closing
  <2>3. Effect(InUse, Idle \ base, Closing, base)
    BY <1>1, <1>2, <1>3, <2>1, <2>2, CallEffect, Zenon
  <2> QED BY <2>3
<1>4. ASSUME NEW c \in Conns \ TheConnIdx, NEW useLmt \in UseLimits, NEW depth \in PipeDepths,
             Close([conn EXCEPT ![c] = Opened(a, useLmt, depth)], {c}, base \cup ended)
      PROVE  Effect(InUse \cup {c}, Idle \ base, Closing, base)
  <2> DEFINE r == Opened(a, useLmt, depth)
             f == [conn EXCEPT ![c] = r]
             open == TheConnIdx \cup {c}
  <2>1. r \in ConnFields /\ r.useLvl > 0 /\ ~r.closing /\ r.addr = a
    BY OpenedFields
  <2> HIDE DEF r
  <2>2. f \in [Conns -> ConnFields] /\ f[c] = r /\ \A d \in Conns \ {c} : f[d] = conn[d]
    BY <2>1, Partition
  <2>3. Close(f, {c}, base \cup ended)
    BY <1>4 DEF r
  <2> HIDE DEF f
  <2>4. Range(q) \subseteq TheConnIdx /\ base \subseteq TheConnIdx
    BY Partition
  <2>5. Settled(q, h, f, open, base)
    <3>1. \A x \in Addrs : {d \in Range(q) : f[d].addr = x} = {d \in Range(q) : conn[d].addr = x}
      BY <2>2, <2>4, Partition
    <3>2. \A d \in Range(q) : f[d] = conn[d]
      BY <2>2, <2>4, Partition
    <3>3. \A d \in base : f[d].useLvl = 0
      BY <2>2, <2>4, Partition DEF Settled
    <3>4. \A d \in open \ (Range(q) \cup base) : f[d].useLvl > 0 <=> ~f[d].closing
      BY <2>1, <2>2, <2>4, Partition DEF Settled
    <3>5. \A d \in Conns \ open : f[d] = Fresh
      BY <2>2 DEF Settled
    <3>6. open \subseteq Conns /\ base \subseteq open /\ Range(q) \subseteq open \ base
      BY <2>4, Partition
    <3>7. \A d \in open : f[d].addr \in Addrs
      BY <2>1, <2>2, Partition
    <3> HIDE DEF open
    <3> QED BY <2>2, <3>1, <3>2, <3>3, <3>4, <3>5, <3>6, <3>7 DEF Settled
  <2> DEFINE used == InUse \cup {c}
             idle == Idle \ base
             opened == {c}
             closed == base \cup ended
  <2>6. used = {d \in open : f[d].useLvl > 0}
    BY <2>1, <2>2, Partition DEF InUse
  <2>7. Closing = {d \in open \ base : f[d].closing}
    BY <2>1, <2>2, Partition DEF Closing
  <2>8. /\ open = TheConnIdx \cup opened /\ opened \cap TheConnIdx = {}
        /\ closed = ended \cup base /\ idle = Range(q)
    OBVIOUS
  <2>9. SetIdle(q, h, ended) /\ Close(f, opened, closed)
    BY <1>1, <2>3
  <2> HIDE DEF open, used, idle, opened, closed
  <2>10. Effect(used, idle, Closing, base)
    BY <2>5, <2>6, <2>7, <2>8, <2>9, CallEffect, Zenon
  <2> QED BY <2>10 DEF used, idle
<1> QED BY <1>1, <1>3, <1>4

(* A connection that is not idle changes its fields, to be closed or not.  *)
LEMMA UpdateSettles ==
  ASSUME Ordered, NEW c \in TheConnIdx \ Idle, NEW r \in ConnFields, r.addr = conn[c].addr
  PROVE  LET f == [conn EXCEPT ![c] = r] IN
         /\ f \in [Conns -> ConnFields] /\ f[c] = r
         /\ \A d \in Conns \ {c} : f[d] = conn[d]
         /\ r.useLvl = 0 => Settled(theIdleQueue, theIdleHash, f, TheConnIdx, {c})
         /\ (r.useLvl > 0 <=> ~r.closing)
              => Settled(theIdleQueue, theIdleHash, f, TheConnIdx, {})
<1> DEFINE f == [conn EXCEPT ![c] = r]
<1>1. f \in [Conns -> ConnFields] /\ f[c] = r /\ \A d \in Conns \ {c} : f[d] = conn[d]
  BY Partition
<1> HIDE DEF f
<1>2. /\ TheConnIdx \subseteq Conns /\ Range(theIdleQueue) \subseteq TheConnIdx \ {c}
      /\ theIdleQueue \in Seq(Conns) /\ IsInjective(theIdleQueue)
      /\ theIdleHash \in [Addrs -> Seq(Conns)]
      /\ \A a \in Addrs : /\ IsInjective(theIdleHash[a])
                          /\ Range(theIdleHash[a])
                               = {d \in Range(theIdleQueue) : conn[d].addr = a}
      /\ \A d \in Range(theIdleQueue) : /\ Reusable(conn[d])
                                        /\ conn[d].useLvl = 0 /\ ~conn[d].closing
      /\ \A d \in TheConnIdx \ Range(theIdleQueue) : conn[d].useLvl > 0 <=> ~conn[d].closing
      /\ \A d \in Conns \ TheConnIdx : conn[d] = Fresh
  BY DEF Ordered, Settled, Idle
<1>3. \A d \in Range(theIdleQueue) : f[d] = conn[d]
  BY <1>1, <1>2
<1>4. \A a \in Addrs : {d \in Range(theIdleQueue) : conn[d].addr = a}
                         = {d \in Range(theIdleQueue) : f[d].addr = a}
  BY <1>3
<1>5. \A d \in Conns \ TheConnIdx : f[d] = Fresh
  BY <1>1, <1>2
<1>6. \A d \in TheConnIdx \ (Range(theIdleQueue) \cup {c}) : f[d].useLvl > 0 <=> ~f[d].closing
  BY <1>1, <1>2
<1>7. \A d \in TheConnIdx : f[d].addr \in Addrs
  BY <1>1, Partition
<1>8. ASSUME r.useLvl = 0
      PROVE  Settled(theIdleQueue, theIdleHash, f, TheConnIdx, {c})
  BY <1>1, <1>2, <1>3, <1>4, <1>5, <1>6, <1>7, <1>8 DEF Settled
<1>9. ASSUME r.useLvl > 0 <=> ~r.closing
      PROVE  Settled(theIdleQueue, theIdleHash, f, TheConnIdx, {})
  <2>1. \A d \in TheConnIdx \ Range(theIdleQueue) : f[d].useLvl > 0 <=> ~f[d].closing
    BY <1>1, <1>6, <1>9
  <2> QED BY <1>1, <1>2, <1>3, <1>4, <1>5, <1>7, <2>1 DEF Settled
<1> QED BY <1>1, <1>8, <1>9 DEF f

LEMMA CloseIdleEffect ==
  ASSUME Ordered, LevelIsOpenConns, NEW c \in Idle, CloseIdle(c)
  PROVE  Effect(InUse, Idle \ {c}, Closing, {c})
<1> DEFINE q == Dequeue(theIdleQueue, c)
           h == [theIdleHash EXCEPT ![conn[c].addr] = Dequeue(@, c)]
<1>1. PICK ended : SetIdle(q, h, ended) /\ Close(conn, {}, ended \cup {c})
  BY DEF CloseIdle
<1>2. TakenOut(c, q, h)
  BY DelIdleTakesOut DEF Ordered
<1> HIDE DEF q, h
<1>3. Settled(q, h, conn, TheConnIdx, {c}) /\ Idle \ {c} = Range(q)
  BY <1>2, TakenOutSettles DEF TakenOut
<1>4. /\ TheConnIdx = TheConnIdx \cup {} /\ {} \cap TheConnIdx = {}
      /\ InUse = {d \in TheConnIdx : conn[d].useLvl > 0}
  BY DEF InUse
<1>5. Closing = {d \in TheConnIdx \ {c} : conn[d].closing}
  BY Partition DEF Closing
<1> QED BY <1>1, <1>3, <1>4, <1>5, CallEffect, Zenon

(* A connection that is being closed goes on closing, perhaps marked bad.  *)
LEMMA ClosingEffect ==
  ASSUME Ordered, LevelIsOpenConns, NEW c \in Closing, NEW r \in ConnFields,
         r.useLvl = conn[c].useLvl, r.addr = conn[c].addr, NEW ended,
         SetIdle(theIdleQueue, theIdleHash, ended),
         Close([conn EXCEPT ![c] = r], {}, ended \cup {c})
  PROVE  Effect(InUse, Idle, Closing \ {c}, {c})
<1> DEFINE f == [conn EXCEPT ![c] = r]
<1>1. c \in TheConnIdx \ Idle /\ c \notin InUse
  BY Partition
<1>2. conn[c] \in ConnFields /\ r.useLvl = 0
  BY <1>1, Partition DEF InUse, ConnFields
<1>3. f \in [Conns -> ConnFields] /\ f[c] = r /\ \A d \in Conns \ {c} : f[d] = conn[d]
  BY <1>1, UpdateSettles
<1>4. Settled(theIdleQueue, theIdleHash, f, TheConnIdx, {c}) /\ Close(f, {}, ended \cup {c})
  BY <1>1, <1>2, UpdateSettles
<1> HIDE DEF f
<1>5. /\ TheConnIdx = TheConnIdx \cup {} /\ {} \cap TheConnIdx = {}
      /\ Idle = Range(theIdleQueue)
  BY DEF Idle
<1>6. InUse = {d \in TheConnIdx : f[d].useLvl > 0}
  BY <1>1, <1>2, <1>3, Partition DEF InUse
<1>7. Closing \ {c} = {d \in TheConnIdx \ {c} : f[d].closing}
  BY <1>3, Partition DEF Closing
<1> QED BY <1>4, <1>5, <1>6, <1>7, CallEffect, Zenon

LEMMA CloseContEffect ==
  ASSUME Ordered, LevelIsOpenConns, NEW c \in Closing, CloseCont(c)
  PROVE  Effect(InUse, Idle, Closing \ {c}, {c})
<1>1. PICK ended : /\ SetIdle(theIdleQueue, theIdleHash, ended)
                   /\ Close(conn, {}, ended \cup {c})
  BY DEF CloseCont
<1>2. conn[c] \in ConnFields /\ [conn EXCEPT ![c] = conn[c]] = conn
  BY Partition
<1>3. Close([conn EXCEPT ![c] = conn[c]], {}, ended \cup {c})
  BY <1>1, <1>2, Zenon
<1> QED BY <1>1, <1>2, <1>3, ClosingEffect

(* ConnMgr::noteTimeout of a connection that is being closed.              *)
LEMMA CutOffEffect ==
  ASSUME Ordered, LevelIsOpenConns, NEW c \in Closing, NEW ended,
         SetIdle(theIdleQueue, theIdleHash, ended),
         Close([conn EXCEPT ![c] = [@ EXCEPT !.bad = TRUE, !.ssl = FALSE]], {}, ended \cup {c})
  PROVE  Effect(InUse, Idle, Closing \ {c}, {c})
<1> DEFINE r == [conn[c] EXCEPT !.bad = TRUE, !.ssl = FALSE]
<1>1. c \in Conns /\ conn \in [Conns -> ConnFields] /\ conn[c] \in ConnFields
  BY Partition
<1>2. r \in ConnFields
  BY <1>1 DEF ConnFields
<1>3. r.useLvl = conn[c].useLvl /\ r.addr = conn[c].addr
  BY <1>1 DEF ConnFields
<1>4. Close([conn EXCEPT ![c] = r], {}, ended \cup {c})
  <2>1. [conn EXCEPT ![c] = [@ EXCEPT !.bad = TRUE, !.ssl = FALSE]] = [conn EXCEPT ![c] = r]
    BY <1>1
  <2> QED BY <2>1, Zenon
<1> HIDE DEF r
<1> QED BY <1>2, <1>3, <1>4, ClosingEffect

LEMMA CloseAllIdleEffect ==
  ASSUME Ordered, LevelIsOpenConns, CloseAllIdle
  PROVE  Effect(InUse, Idle, Closing, {})
<1>1. SetIdle(theIdleQueue, theIdleHash, Idle) /\ Close(conn, {}, Idle)
  BY DEF CloseAllIdle, SetIdle, Idle
<1>2. /\ TheConnIdx = TheConnIdx \cup {} /\ {} \cap TheConnIdx = {}
      /\ Idle = Idle \cup {} /\ Idle = Range(theIdleQueue)
      /\ InUse = {d \in TheConnIdx : conn[d].useLvl > 0}
      /\ Closing = {d \in TheConnIdx \ {} : conn[d].closing}
  BY DEF InUse, Idle, Closing
<1>3. Settled(theIdleQueue, theIdleHash, conn, TheConnIdx, {})
  BY DEF Ordered
<1> QED BY <1>1, <1>2, <1>3, CallEffect, Zenon

(* Connection::finishUse by the only user, and what put makes of it.       *)
LEMMA PutEffect ==
  ASSUME Ordered, LevelIsOpenConns, NEW c \in Conns, Put(c)
  PROVE  /\ c \in InUse
         /\ \/ Effect(InUse \ {c}, Idle \cup {c}, Closing, {})
            \/ Effect(InUse \ {c}, Idle, Closing, {c})
<1> DEFINE r == [conn[c] EXCEPT !.useLvl = @ - 1]
           f == [conn EXCEPT ![c] = r]
<1>1. /\ c \in InUse /\ r.useLvl = 0
      /\ \/ /\ Reusable(r)
            /\ \E ended : /\ SetIdle(Append(theIdleQueue, c),
                                     [theIdleHash EXCEPT ![r.addr] = Append(@, c)], ended)
                          /\ Close(f, {}, ended)
         \/ \E ended : SetIdle(theIdleQueue, theIdleHash, ended) /\ Close(f, {}, ended \cup {c})
  BY DEF Put
<1>2. c \in TheConnIdx \ Idle /\ c \notin Closing /\ conn[c] \in ConnFields
  BY <1>1, Partition
<1>3. r \in ConnFields /\ r.addr = conn[c].addr /\ r.closing = conn[c].closing
  <2>1. conn[c].useLvl - 1 \in Nat
    BY <1>1, <1>2 DEF InUse, ConnFields
  <2>2. r \in ConnFields
    BY <1>2, <2>1 DEF ConnFields
  <2> QED BY <1>2, <2>2 DEF ConnFields
<1> HIDE DEF r
<1>4. f \in [Conns -> ConnFields] /\ f[c] = r /\ \A d \in Conns \ {c} : f[d] = conn[d]
  BY <1>2, <1>3, UpdateSettles
<1>5. Settled(theIdleQueue, theIdleHash, f, TheConnIdx, {c})
  BY <1>1, <1>2, <1>3, UpdateSettles
<1> HIDE DEF f
<1>6. InUse \ {c} = {d \in TheConnIdx : f[d].useLvl > 0}
  BY <1>1, <1>2, <1>4, Partition DEF InUse
<1>7. /\ Closing = {d \in TheConnIdx \ {c} : f[d].closing}
      /\ Closing = {d \in TheConnIdx \ {} : f[d].closing}
  BY <1>2, <1>3, <1>4, Partition DEF Closing
<1>8. /\ TheConnIdx = TheConnIdx \cup {} /\ {} \cap TheConnIdx = {}
      /\ Idle = Range(theIdleQueue)
  BY DEF Idle
<1>9. ASSUME NEW ended, SetIdle(theIdleQueue, theIdleHash, ended),
             Close(f, {}, ended \cup {c})
      PROVE  Effect(InUse \ {c}, Idle, Closing, {c})
  BY <1>5, <1>6, <1>7, <1>8, <1>9, CallEffect, Zenon
<1> DEFINE b == conn[c].addr
           q == Append(theIdleQueue, c)
           h == [theIdleHash EXCEPT ![b] = Append(@, c)]
<1>10. ASSUME Reusable(r)
       PROVE  Settled(q, h, f, TheConnIdx, {}) /\ Idle \cup {c} = Range(q)
  <2>1. /\ theIdleQueue \in Seq(Conns) /\ IsInjective(theIdleQueue) /\ b \in Addrs
        /\ theIdleHash \in [Addrs -> Seq(Conns)]
        /\ \A a \in Addrs : /\ theIdleHash[a] \in Seq(Conns) /\ IsInjective(theIdleHash[a])
                            /\ Range(theIdleHash[a]) = {d \in Idle : conn[d].addr = a}
        /\ c \notin Range(theIdleQueue) /\ c \notin Range(theIdleHash[b]) /\ c \in Conns
    BY <1>2, Partition DEF Ordered, Settled, Idle
  <2>2. q \in Seq(Conns) /\ IsInjective(q) /\ Range(q) = Idle \cup {c}
    BY <2>1, AppendDistinct DEF Idle
  <2> DEFINE s == Append(theIdleHash[b], c)
  <2>3. s \in Seq(Conns) /\ IsInjective(s) /\ Range(s) = Range(theIdleHash[b]) \cup {c}
    <3>1. theIdleHash[b] \in Seq(Conns) /\ IsInjective(theIdleHash[b])
      BY <2>1
    <3> QED BY <2>1, <3>1, AppendDistinct
  <2> HIDE DEF s, b
  <2>4. h \in [Addrs -> Seq(Conns)] /\ h[b] = s /\ \A a \in Addrs \ {b} : h[a] = theIdleHash[a]
    BY <2>1, <2>3 DEF s
  <2> HIDE DEF q, h
  <2>5. Idle \subseteq TheConnIdx \ {c} /\ \A d \in Idle : f[d] = conn[d]
    BY <1>2, <1>4, Partition
  <2>6. f[c].addr = b
    BY <1>3, <1>4 DEF b
  <2>7. ASSUME NEW a \in Addrs
        PROVE  IsInjective(h[a]) /\ Range(h[a]) = {d \in Range(q) : f[d].addr = a}
    <3>1. CASE a = b
      BY <2>1, <2>2, <2>3, <2>4, <2>5, <2>6, <3>1
    <3>2. CASE a # b
      <4>1. h[a] = theIdleHash[a] /\ IsInjective(theIdleHash[a])
        BY <2>1, <2>4, <3>2
      <4>2. Range(theIdleHash[a]) = {d \in Idle : conn[d].addr = a}
        BY <2>1
      <4>3. {d \in Idle : conn[d].addr = a} = {d \in Range(q) : f[d].addr = a}
        BY <2>2, <2>5, <2>6, <3>2
      <4> QED BY <4>1, <4>2, <4>3
    <3> QED BY <3>1, <3>2
  <2>8. ~r.closing /\ r.useLvl = 0
    BY <1>1, <1>2, <1>3 DEF Closing
  <2>9. \A d \in Range(q) : Reusable(f[d]) /\ f[d].useLvl = 0 /\ ~f[d].closing
    BY <1>4, <1>10, <2>2, <2>5, <2>8 DEF Ordered, Settled, Idle
  <2>10. \A d \in TheConnIdx \ Range(q) : f[d].useLvl > 0 <=> ~f[d].closing
    BY <1>5, <2>2 DEF Settled, Idle
  <2>11. /\ \A d \in TheConnIdx : f[d].addr \in Addrs
         /\ \A d \in Conns \ TheConnIdx : f[d] = Fresh
         /\ TheConnIdx \subseteq Conns
    BY <1>5 DEF Settled
  <2> QED BY <1>2, <1>4, <2>2, <2>4, <2>5, <2>7, <2>9, <2>10, <2>11 DEF Settled
<1>11. ASSUME Reusable(r), NEW ended, SetIdle(q, h, ended), Close(f, {}, ended)
       PROVE  Effect(InUse \ {c}, Idle \cup {c}, Closing, {})
  <2>1. ended = ended \cup {} /\ Settled(q, h, f, TheConnIdx, {}) /\ Idle \cup {c} = Range(q)
    BY <1>10, <1>11
  <2> DEFINE used == InUse \ {c}
             idle == Idle \cup {c}
             none == {}
  <2>2. /\ Closing = {d \in TheConnIdx \ none : f[d].closing}
        /\ TheConnIdx = TheConnIdx \cup none /\ none \cap TheConnIdx = {}
        /\ ended = ended \cup none
    BY <1>7
  <2>3. used = {d \in TheConnIdx : f[d].useLvl > 0}
    BY <1>6
  <2>4. Settled(q, h, f, TheConnIdx, none) /\ idle = Range(q)
    BY <2>1
  <2>5. SetIdle(q, h, ended) /\ Close(f, none, ended)
    BY <1>11
  <2> HIDE DEF q, h, used, idle, none
  <2>6. Effect(used, idle, Closing, none)
    BY <2>2, <2>3, <2>4, <2>5, CallEffect, Zenon
  <2> QED BY <2>6 DEF used, idle, none
<1>12. \/ \E ended : Reusable(r) /\ SetIdle(q, h, ended) /\ Close(f, {}, ended)
       \/ \E ended : SetIdle(theIdleQueue, theIdleHash, ended) /\ Close(f, {}, ended \cup {c})
  BY <1>1, <1>3, Zenon
<1> HIDE DEF q, h
<1> QED BY <1>1, <1>9, <1>11, <1>12

-----------------------------------------------------------------------------
(* What a step of the manager can be, as a robot sees it.                  *)

Starts(c) ==
  \E base \in SUBSET Idle :
    /\ c \in Conns \ TheConnIdx
    /\ Limit >= 0 => Cardinality(InUse) + Cardinality(Idle \ base) < Limit
    /\ Effect(InUse \cup {c}, Idle \ base, Closing, base)

Restarts(c) == c \in Idle /\ Effect(InUse \cup {c}, Idle \ {c}, Closing, {})

Keeps(c) == c \in InUse /\ Effect(InUse \ {c}, Idle \cup {c}, Closing, {})

Discards(c) == c \in InUse /\ Effect(InUse \ {c}, Idle, Closing, {c})

Retires ==
  \E base \in SUBSET Idle, over \in SUBSET Closing :
    Effect(InUse, Idle \ base, Closing \ over, base \cup over)

StepKinds ==
  \/ \E c \in Conns : Starts(c) \/ Restarts(c) \/ Keeps(c) \/ Discards(c)
  \/ Retires

(* theConnLvl counts used, idle and closing connections.                   *)
LEMMA SumOfThree ==
  ASSUME NEW A, NEW B, NEW C, IsFiniteSet(A \cup B \cup C),
         A \cap B = {}, A \cap C = {}, B \cap C = {}
  PROVE  /\ IsFiniteSet(A) /\ IsFiniteSet(B) /\ IsFiniteSet(C)
         /\ Cardinality(A) \in Nat /\ Cardinality(B) \in Nat /\ Cardinality(C) \in Nat
         /\ Cardinality(A \cup B \cup C) = Cardinality(A) + Cardinality(B) + Cardinality(C)
<1>1. IsFiniteSet(A) /\ IsFiniteSet(B) /\ IsFiniteSet(C)
  BY FS_Subset
<1>2. Cardinality(A) \in Nat /\ Cardinality(B) \in Nat /\ Cardinality(C) \in Nat
  BY <1>1, FS_CardinalityType
<1>3. Cardinality({}) = 0
  BY FS_EmptySet
<1> DEFINE D == A \cup B
<1>4. IsFiniteSet(D) /\ Cardinality(D) = Cardinality(A) + Cardinality(B)
  <2>1. /\ IsFiniteSet(A \cup B)
        /\ Cardinality(A \cup B) = Cardinality(A) + Cardinality(B) - Cardinality(A \cap B)
    BY <1>1, FS_Union
  <2>2. Cardinality(A \cap B) = 0
    BY <1>3, Zenon
  <2> QED BY <1>2, <2>1, <2>2
<1>5. D \cap C = {}
  OBVIOUS
<1> HIDE DEF D
<1>6. Cardinality(D \cup C) = Cardinality(D) + Cardinality(C)
  <2>1. Cardinality(D \cup C) = Cardinality(D) + Cardinality(C) - Cardinality(D \cap C)
    BY <1>1, <1>4, FS_Union
  <2>2. Cardinality(D \cap C) = 0
    BY <1>3, <1>5, Zenon
  <2>3. Cardinality(D) \in Nat
    BY <1>4, FS_CardinalityType
  <2> QED BY <1>2, <2>1, <2>2, <2>3
<1>7. Cardinality(A \cup B \cup C) = Cardinality(D) + Cardinality(C)
  BY <1>6, Zenon DEF D
<1> QED BY <1>1, <1>2, <1>4, <1>7

LEMMA LevelIsSum ==
  ASSUME Ordered, LevelIsOpenConns
  PROVE  /\ IsFiniteSet(InUse) /\ IsFiniteSet(Idle) /\ IsFiniteSet(Closing)
         /\ Cardinality(InUse) \in Nat /\ Cardinality(Idle) \in Nat
         /\ Cardinality(Closing) \in Nat
         /\ theConnLvl = Cardinality(InUse) + Cardinality(Idle) + Cardinality(Closing)
<1>1. /\ TheConnIdx = InUse \cup Idle \cup Closing /\ TheConnIdx \subseteq Conns
      /\ InUse \cap Idle = {} /\ InUse \cap Closing = {} /\ Idle \cap Closing = {}
  BY Partition
<1>2. IsFiniteSet(TheConnIdx)
  BY <1>1, ConnsAssumption, FS_Subset
<1>3. IsFiniteSet(InUse \cup Idle \cup Closing)
  BY <1>1, <1>2, Zenon
<1>4. theConnLvl = Cardinality(InUse \cup Idle \cup Closing)
  BY <1>1, Zenon DEF LevelIsOpenConns
<1> HIDE DEF InUse, Idle, Closing
<1> QED BY <1>1, <1>3, <1>4, SumOfThree

LEMMA LevelIsSumAfter ==
  ASSUME Ordered', LevelIsOpenConns'
  PROVE  /\ IsFiniteSet(InUse') /\ IsFiniteSet(Idle') /\ IsFiniteSet(Closing')
         /\ Cardinality(InUse') \in Nat /\ Cardinality(Idle') \in Nat
         /\ Cardinality(Closing') \in Nat
         /\ theConnLvl' = Cardinality(InUse') + Cardinality(Idle') + Cardinality(Closing')
<1>1. /\ TheConnIdx' = InUse' \cup Idle' \cup Closing' /\ TheConnIdx' \subseteq Conns
      /\ InUse' \cap Idle' = {} /\ InUse' \cap Closing' = {} /\ Idle' \cap Closing' = {}
  BY DEF Ordered, Settled, InUse, Idle, Closing
<1>2. IsFiniteSet(TheConnIdx')
  BY <1>1, ConnsAssumption, FS_Subset
<1>3. IsFiniteSet(InUse' \cup Idle' \cup Closing')
  BY <1>1, <1>2, Zenon
<1>4. theConnLvl' = Cardinality(InUse' \cup Idle' \cup Closing')
  BY <1>1, Zenon DEF LevelIsOpenConns
<1> QED BY <1>1, <1>3, <1>4, SumOfThree

(* An idle connection makes room for a new one when the limit is reached,  *)
(* and there is one, or Client::launch would not have called get.          *)
LEMMA OpenIsStep ==
  ASSUME IInv, NEW a \in Addrs, ~AtHardConnLimit, Open(a)
  PROVE  StepKinds
<1> USE DEF IInv
<1>1. /\ Limit \in Int /\ Len(theIdleQueue) = Cardinality(Idle)
      /\ theIdleQueue \in Seq(Conns)
  BY LimitsAssumption, LengthOfDistinct DEF Ordered, Settled, Idle
<1>2. /\ Cardinality(InUse) \in Nat /\ Cardinality(Idle) \in Nat
      /\ Cardinality(Closing) \in Nat /\ IsFiniteSet(Idle)
      /\ theConnLvl = Cardinality(InUse) + Cardinality(Idle) + Cardinality(Closing)
  BY LevelIsSum
<1>3. ASSUME NEW q, NEW h, NEW base, base \subseteq Idle,
             Settled(q, h, conn, TheConnIdx, base), Range(q) = Idle \ base,
             OpenWith(a, q, h, base),
             Limit >= 0 => Cardinality(InUse) + Cardinality(Idle \ base) < Limit
      PROVE  StepKinds
  <2>1. \/ Effect(InUse, Idle \ base, Closing, base)
        \/ \E c \in Conns \ TheConnIdx : Effect(InUse \cup {c}, Idle \ base, Closing, base)
    BY <1>3, OpenEffect
  <2>2. CASE Effect(InUse, Idle \ base, Closing, base)
    <3>1. Effect(InUse, Idle \ base, Closing \ {}, base \cup {})
      <4>1. Closing = Closing \ {} /\ base = base \cup {}
        OBVIOUS
      <4> QED BY <2>2, <4>1, Zenon
    <3>2. base \in SUBSET Idle /\ {} \in SUBSET Closing
      BY <1>3
    <3> QED BY <3>1, <3>2, Zenon DEF StepKinds, Retires
  <2>3. ASSUME NEW c \in Conns \ TheConnIdx,
               Effect(InUse \cup {c}, Idle \ base, Closing, base)
        PROVE  StepKinds
    <3>1. base \in SUBSET Idle /\ c \in Conns
      BY <1>3
    <3>2. Starts(c)
      BY <1>3, <2>3, <3>1, Zenon DEF Starts
    <3> QED BY <3>1, <3>2, Zenon DEF StepKinds
  <2> QED BY <2>1, <2>2, <2>3
<1>4. CASE Limit >= 0 /\ theConnLvl >= Limit
  <2> DEFINE v == Head(theIdleQueue)
             q == Tail(theIdleQueue)
             h == [theIdleHash EXCEPT ![conn[v].addr] = Dequeue(@, v)]
             base == {v}
  <2>1. theIdleQueue # << >>
    <3>1. Cardinality(Idle) # 0
      BY <1>1, <1>2, <1>4 DEF AtHardConnLimit
    <3> QED BY <1>1, <3>1
  <2>2. OpenWith(a, q, h, base)
    BY <1>4 DEF Open
  <2>3. v \in Idle /\ TakenOut(v, q, h)
    BY <2>1, OldestTakenOut DEF Ordered
  <2> HIDE DEF v, q, h
  <2>4. Settled(q, h, conn, TheConnIdx, base) /\ Range(q) = Idle \ base /\ base \subseteq Idle
    BY <2>3, TakenOutSettles DEF TakenOut
  <2>5. Cardinality(Idle \ {v}) = Cardinality(Idle) - 1
    BY <1>2, <2>3, FS_RemoveElement
  <2>6. Cardinality(InUse) + Cardinality(Idle \ base) < Limit
    BY <1>1, <1>2, <1>4, <2>5 DEF BusyWithinLimit
  <2> HIDE DEF base
  <2> QED BY <1>3, <2>2, <2>4, <2>6, Zenon
<1>5. CASE ~(Limit >= 0 /\ theConnLvl >= Limit)
  <2> DEFINE base == {}
  <2>1. OpenWith(a, theIdleQueue, theIdleHash, base)
    BY <1>5 DEF Open
  <2>2. /\ Settled(theIdleQueue, theIdleHash, conn, TheConnIdx, base)
        /\ Range(theIdleQueue) = Idle \ base /\ base \subseteq Idle
    BY DEF Ordered, Idle
  <2>3. Limit >= 0 => Cardinality(InUse) + Cardinality(Idle \ base) < Limit
    <3>1. Idle \ base = Idle
      OBVIOUS
    <3>2. Cardinality(Idle \ base) = Cardinality(Idle)
      BY <3>1, Zenon
    <3> QED BY <1>1, <1>2, <1>5, <3>2
  <2> HIDE DEF base
  <2> QED BY <1>3, <2>1, <2>2, <2>3, Zenon
<1> QED BY <1>4, <1>5

(* Every step is of one of the kinds.                                      *)
LEMMA StepIsKind ==
  ASSUME IInv, Next
  PROVE  StepKinds
<1> USE DEF IInv
<1>0. ASSUME Effect(InUse, Idle, Closing, {}) PROVE StepKinds
  <2>1. Idle = Idle \ {} /\ Closing = Closing \ {} /\ {} = {} \cup {}
    OBVIOUS
  <2>2. Effect(InUse, Idle \ {}, Closing \ {}, {} \cup {})
    BY <1>0, <2>1, Zenon
  <2>3. {} \in SUBSET Idle /\ {} \in SUBSET Closing
    OBVIOUS
  <2> QED BY <2>2, <2>3, Zenon DEF StepKinds, Retires
<1>1. ASSUME NEW c \in Idle, CloseIdle(c) PROVE StepKinds
  <2>1. Closing = Closing \ {} /\ {c} = {c} \cup {}
    OBVIOUS
  <2>2. Effect(InUse, Idle \ {c}, Closing \ {}, {c} \cup {})
    BY <1>1, <2>1, CloseIdleEffect, Zenon
  <2>3. {c} \in SUBSET Idle /\ {} \in SUBSET Closing
    OBVIOUS
  <2> QED BY <2>2, <2>3, Zenon DEF StepKinds, Retires
<1>2. ASSUME NEW c \in Closing, Effect(InUse, Idle, Closing \ {c}, {c}) PROVE StepKinds
  <2>1. Idle = Idle \ {} /\ {c} = {} \cup {c}
    OBVIOUS
  <2>2. Effect(InUse, Idle \ {}, Closing \ {c}, {} \cup {c})
    BY <1>2, <2>1, Zenon
  <2>3. {} \in SUBSET Idle /\ {c} \in SUBSET Closing
    OBVIOUS
  <2> QED BY <2>2, <2>3, Zenon DEF StepKinds, Retires
<1>3. ASSUME Ordered', LevelIsOpenConns', InUse' = InUse, Idle' = Idle, Closing' = Closing
      PROVE  Effect(InUse, Idle, Closing, {})
  <2>1. Idle' = Idle \ {} /\ Closing' = Closing \cup {} /\ {} \in SUBSET ({} \cup {})
        /\ {} \in {{}, Idle}
    BY <1>3
  <2> QED BY <1>3, <2>1, Zenon DEF Effect
<1>4. ASSUME NEW a \in Addrs, Get(a) PROVE StepKinds
  <2>1. CASE Reuse(a)
    <3>1. PICK c \in Idle : Effect(InUse \cup {c}, Idle \ {c}, Closing, {})
      BY <2>1, ReuseEffect
    <3>2. c \in Conns
      BY Partition
    <3> QED BY <3>1, <3>2, Zenon DEF StepKinds, Restarts
  <2>2. CASE Open(a)
    BY <1>4, <2>2, OpenIsStep DEF Get
  <2> QED BY <1>4, <2>1, <2>2 DEF Get
<1>5. ASSUME NEW c \in Conns, Put(c) PROVE StepKinds
  <2>1. /\ c \in InUse
        /\ \/ Effect(InUse \ {c}, Idle \cup {c}, Closing, {})
           \/ Effect(InUse \ {c}, Idle, Closing, {c})
    BY <1>5, PutEffect
  <2> QED BY <2>1, Zenon DEF StepKinds, Keeps, Discards
<1>6. ASSUME NEW c \in Conns, NoteReadReady(c) PROVE StepKinds
  <2>1. CASE c \in Idle /\ CloseIdle(c)
    BY <1>1, <2>1
  <2>2. CASE c \in Closing /\ CloseCont(c)
    BY <1>2, <2>2, CloseContEffect
  <2>3. CASE UNCHANGED <<TheConnIdx, theConnLvl, conn, theIdleQueue, theIdleHash>>
    <3>1. Ordered' /\ LevelIsOpenConns'
      BY <2>3 DEF Ordered, LevelIsOpenConns
    <3>2. InUse' = InUse /\ Idle' = Idle /\ Closing' = Closing
      BY <2>3 DEF InUse, Idle, Closing
    <3> QED BY <1>0, <1>3, <3>1, <3>2
  <2> QED BY <1>6, <2>1, <2>2, <2>3 DEF NoteReadReady
<1>7. ASSUME NEW c \in Conns, NoteWriteReady(c) PROVE StepKinds
  BY <1>2, <1>7, CloseContEffect DEF NoteWriteReady
<1>8. ASSUME NEW c \in Conns, NoteTimeout(c) PROVE StepKinds
  <2>1. CASE c \in Idle /\ CloseIdle(c)
    BY <1>1, <2>1
  <2>2. ASSUME c \in Closing, NEW ended,
               SetIdle(theIdleQueue, theIdleHash, ended),
               Close([conn EXCEPT ![c] = [@ EXCEPT !.bad = TRUE, !.ssl = FALSE]],
                     {}, ended \cup {c})
        PROVE  StepKinds
    BY <1>2, <2>2, CutOffEffect
  <2> QED BY <1>8, <2>1, <2>2, Zenon DEF NoteTimeout
<1>9. CASE CloseAllIdle
  BY <1>0, <1>9, CloseAllIdleEffect
<1>10. ASSUME NEW c \in Conns, Pipeline(c) PROVE StepKinds
  <2>1. UNCHANGED <<TheConnIdx, theConnLvl, conn, theIdleQueue, theIdleHash>>
    BY <1>10 DEF Pipeline
  <2>2. Ordered' /\ LevelIsOpenConns'
    BY <2>1 DEF Ordered, LevelIsOpenConns
  <2>3. InUse' = InUse /\ Idle' = Idle /\ Closing' = Closing
    BY <2>1 DEF InUse, Idle, Closing
  <2> QED BY <1>0, <1>3, <2>2, <2>3
<1>11. ASSUME NEW c \in Conns, NEW r \in ConnFields, SetConn(c, r), r.addr = conn[c].addr,
              r.useLvl = conn[c].useLvl, r.closing = conn[c].closing
       PROVE  StepKinds
  <2> DEFINE f == [conn EXCEPT ![c] = r]
  <2>1. /\ c \in InUse /\ c \in TheConnIdx \ Idle /\ c \notin Closing
        /\ UNCHANGED <<TheConnIdx, theConnLvl, theIdleQueue, theIdleHash>> /\ conn' = f
    BY <1>11, Partition DEF SetConn
  <2>2. r.useLvl > 0 <=> ~r.closing
    BY <1>11, <2>1 DEF InUse, Closing
  <2>3. /\ Settled(theIdleQueue, theIdleHash, f, TheConnIdx, {})
        /\ f[c] = r /\ \A d \in Conns \ {c} : f[d] = conn[d]
    BY <1>11, <2>1, <2>2, UpdateSettles
  <2> HIDE DEF f
  <2>4. Ordered' /\ LevelIsOpenConns'
    BY <2>1, <2>3 DEF Ordered, LevelIsOpenConns
  <2>5. InUse' = InUse /\ Idle' = Idle /\ Closing' = Closing
    BY <1>11, <2>1, <2>3, Partition DEF InUse, Idle, Closing
  <2> QED BY <1>0, <1>3, <2>4, <2>5
<1>12. ASSUME NEW c \in Conns, XactFails(c) \/ LastUse(c) \/ TunnelEstablished(c)
       PROVE  StepKinds
  <2>1. conn[c] \in ConnFields
    BY Partition
  <2>2. CASE XactFails(c)
    <3>1. [conn[c] EXCEPT !.bad = TRUE] \in ConnFields
      BY <2>1 DEF ConnFields
    <3> QED BY <1>11, <2>1, <2>2, <3>1 DEF XactFails, ConnFields
  <2>3. CASE LastUse(c)
    <3>1. [conn[c] EXCEPT !.lastUse = TRUE] \in ConnFields
      BY <2>1 DEF ConnFields
    <3> QED BY <1>11, <2>1, <2>3, <3>1 DEF LastUse, ConnFields
  <2>4. CASE TunnelEstablished(c)
    <3>1. conn[c].useCntLmt + 1 \in Int
      BY <2>1 DEF ConnFields
    <3>2. [conn[c] EXCEPT !.ssl = TRUE, !.useCntLmt = @ + 1] \in ConnFields
      BY <2>1, <3>1 DEF ConnFields
    <3> QED BY <1>11, <2>1, <2>4, <3>2 DEF TunnelEstablished, ConnFields
  <2> QED BY <1>12, <2>2, <2>3, <2>4
<1> QED BY <1>4, <1>5, <1>6, <1>7, <1>8, <1>9, <1>10, <1>12 DEF Next

-----------------------------------------------------------------------------
(* The inductive invariant is one.                                         *)

LEMMA InitIsInv == Init => IInv
<1> SUFFICES ASSUME Init PROVE IInv
  OBVIOUS
<1>1. << >> \in Seq(Conns) /\ IsInjective(<< >>) /\ Range(<< >>) = {}
  BY EmptyIsDistinct
<1>2. Ordered
  BY <1>1, FreshIsConn DEF Init, Ordered, Settled, EmptyHash
<1>3. InUse = {} /\ Idle = {} /\ Cardinality({}) = 0
  BY <1>1, FS_EmptySet DEF Init, InUse, Idle
<1>4. BusyWithinLimit
  <2>1. Cardinality(InUse) = 0 /\ Cardinality(Idle) = 0
    BY <1>3, Zenon
  <2> QED BY <2>1, LimitsAssumption DEF BusyWithinLimit
<1>5. LevelIsOpenConns
  BY <1>3 DEF Init, LevelIsOpenConns
<1> QED BY <1>2, <1>4, <1>5 DEF Init, IInv

(* Adding one or leaving out some, and how many there are then.            *)
LEMMA OneMore ==
  ASSUME NEW S, IsFiniteSet(S), NEW c
  PROVE  Cardinality(S \cup {c}) <= Cardinality(S) + 1
<1>1. Cardinality(S) \in Nat
  BY FS_CardinalityType
<1> QED BY <1>1, FS_AddElement

LEMMA Fewer ==
  ASSUME NEW S, IsFiniteSet(S), NEW R, R \subseteq S
  PROVE  IsFiniteSet(R) /\ Cardinality(R) \in Nat /\ Cardinality(R) <= Cardinality(S)
  BY FS_Subset, FS_CardinalityType

LEMMA OneLess ==
  ASSUME NEW S, IsFiniteSet(S), NEW c \in S
  PROVE  IsFiniteSet(S \ {c}) /\ Cardinality(S \ {c}) = Cardinality(S) - 1
  BY FS_RemoveElement

(* No kind of step makes the used and the idle connections too many.       *)
LEMMA BusyStaysWithinLimit ==
  ASSUME IInv, StepKinds
  PROVE  Ordered' /\ LevelIsOpenConns' /\ BusyWithinLimit'
<1> USE DEF IInv
<1>1. /\ IsFiniteSet(InUse) /\ IsFiniteSet(Idle)
      /\ Cardinality(InUse) \in Nat /\ Cardinality(Idle) \in Nat /\ Limit \in Int
  BY LevelIsSum, LimitsAssumption
<1>2. ASSUME NEW used, NEW idle, NEW still, NEW base, Effect(used, idle, still, base),
             IsFiniteSet(idle),
             Limit >= 0 => Cardinality(used) + Cardinality(idle) <= Limit
      PROVE  Ordered' /\ LevelIsOpenConns' /\ BusyWithinLimit'
  <2>1. Ordered' /\ LevelIsOpenConns' /\ InUse' = used /\ Idle' \subseteq idle
    BY <1>2 DEF Effect
  <2>2. Cardinality(Idle') \in Nat /\ Cardinality(Idle') <= Cardinality(idle)
    BY <1>2, <2>1, Fewer
  <2>3. Cardinality(InUse') \in Nat /\ Cardinality(InUse') = Cardinality(used)
    BY <2>1, LevelIsSumAfter
  <2>4. Cardinality(idle) \in Nat
    BY <1>2, FS_CardinalityType
  <2> QED BY <1>1, <1>2, <2>1, <2>2, <2>3, <2>4 DEF BusyWithinLimit
<1>3. ASSUME NEW c \in Conns, Starts(c)
      PROVE  Ordered' /\ LevelIsOpenConns' /\ BusyWithinLimit'
  <2>1. PICK base \in SUBSET Idle :
          /\ Limit >= 0 => Cardinality(InUse) + Cardinality(Idle \ base) < Limit
          /\ Effect(InUse \cup {c}, Idle \ base, Closing, base)
    BY <1>3 DEF Starts
  <2>2. IsFiniteSet(Idle \ base) /\ Cardinality(Idle \ base) \in Nat
    BY <1>1, Fewer
  <2>3. Cardinality(InUse \cup {c}) \in Nat /\ Cardinality(InUse \cup {c}) <= Cardinality(InUse) + 1
    BY <1>1, OneMore, FS_AddElement, FS_CardinalityType
  <2>4. Limit >= 0 => Cardinality(InUse \cup {c}) + Cardinality(Idle \ base) <= Limit
    BY <1>1, <2>1, <2>2, <2>3
  <2> QED BY <1>2, <2>1, <2>2, <2>4, Zenon
<1>4. ASSUME NEW c \in Conns, Restarts(c)
      PROVE  Ordered' /\ LevelIsOpenConns' /\ BusyWithinLimit'
  <2>1. c \in Idle /\ Effect(InUse \cup {c}, Idle \ {c}, Closing, {})
    BY <1>4 DEF Restarts
  <2>2. IsFiniteSet(Idle \ {c}) /\ Cardinality(Idle \ {c}) = Cardinality(Idle) - 1
    BY <1>1, <2>1, OneLess
  <2>3. Cardinality(InUse \cup {c}) \in Nat /\ Cardinality(InUse \cup {c}) <= Cardinality(InUse) + 1
    BY <1>1, OneMore, FS_AddElement, FS_CardinalityType
  <2>4. Limit >= 0 => Cardinality(InUse \cup {c}) + Cardinality(Idle \ {c}) <= Limit
    BY <1>1, <2>2, <2>3 DEF BusyWithinLimit
  <2> QED BY <1>2, <2>1, <2>2, <2>4, Zenon
<1>5. ASSUME NEW c \in Conns, Keeps(c)
      PROVE  Ordered' /\ LevelIsOpenConns' /\ BusyWithinLimit'
  <2>1. c \in InUse /\ Effect(InUse \ {c}, Idle \cup {c}, Closing, {})
    BY <1>5 DEF Keeps
  <2>2. Cardinality(InUse \ {c}) = Cardinality(InUse) - 1
    BY <1>1, <2>1, OneLess
  <2>3. /\ IsFiniteSet(Idle \cup {c}) /\ Cardinality(Idle \cup {c}) \in Nat
        /\ Cardinality(Idle \cup {c}) <= Cardinality(Idle) + 1
    BY <1>1, OneMore, FS_AddElement, FS_CardinalityType
  <2>4. Limit >= 0 => Cardinality(InUse \ {c}) + Cardinality(Idle \cup {c}) <= Limit
    BY <1>1, <2>2, <2>3 DEF BusyWithinLimit
  <2> QED BY <1>2, <2>1, <2>3, <2>4, Zenon
<1>6. ASSUME NEW c \in Conns, Discards(c)
      PROVE  Ordered' /\ LevelIsOpenConns' /\ BusyWithinLimit'
  <2>1. c \in InUse /\ Effect(InUse \ {c}, Idle, Closing, {c})
    BY <1>6 DEF Discards
  <2>2. Cardinality(InUse \ {c}) = Cardinality(InUse) - 1
    BY <1>1, <2>1, OneLess
  <2>3. Limit >= 0 => Cardinality(InUse \ {c}) + Cardinality(Idle) <= Limit
    BY <1>1, <2>2 DEF BusyWithinLimit
  <2> QED BY <1>1, <1>2, <2>1, <2>3, Zenon
<1>7. CASE Retires
  <2>1. PICK base \in SUBSET Idle, over \in SUBSET Closing :
          Effect(InUse, Idle \ base, Closing \ over, base \cup over)
    BY <1>7 DEF Retires
  <2>2. /\ IsFiniteSet(Idle \ base) /\ Cardinality(Idle \ base) \in Nat
        /\ Cardinality(Idle \ base) <= Cardinality(Idle)
    BY <1>1, Fewer
  <2>3. Limit >= 0 => Cardinality(InUse) + Cardinality(Idle \ base) <= Limit
    BY <1>1, <2>2 DEF BusyWithinLimit
  <2> QED BY <1>2, <2>1, <2>2, <2>3, Zenon
<1> QED BY <1>3, <1>4, <1>5, <1>6, <1>7 DEF StepKinds

(* How a step can end the process.                                         *)
LEMMA FailureStep ==
  ASSUME Next
  PROVE  \/ failure' \in {"none", "badRead", "pipeline"}
         \/ failure' = "connLvl" /\ Limit >= 0 /\ theConnLvl' > Limit
<1>1. ASSUME NEW a \in Addrs, Get(a)
      PROVE  \/ failure' = "none"
             \/ failure' = "connLvl" /\ Limit >= 0 /\ theConnLvl' > Limit
  <2>1. AssertConnLvl
    <3>1. CASE Reuse(a)
      BY <3>1 DEF Reuse
    <3>2. CASE Open(a)
      BY <3>2, Zenon DEF Open
    <3> QED BY <1>1, <3>1, <3>2 DEF Get
  <2> QED BY <2>1 DEF AssertConnLvl
<1>2. ASSUME Alive, failure' = failure PROVE failure' = "none"
  BY <1>2 DEF Alive
<1>3. ASSUME NEW c \in Conns, Put(c) \/ NoteWriteReady(c) \/ NoteTimeout(c)
      PROVE  failure' = failure
  BY <1>3, Zenon DEF Put, NoteWriteReady, NoteTimeout
<1>4. ASSUME NEW c \in Conns, NoteReadReady(c) \/ Pipeline(c)
      PROVE  failure' = failure \/ failure' = "badRead" \/ failure' = "pipeline"
  BY <1>4, Zenon DEF NoteReadReady, Pipeline
<1>5. ASSUME NEW c \in Conns, XactFails(c) \/ LastUse(c) \/ TunnelEstablished(c)
      PROVE  failure' = failure
  BY <1>5 DEF XactFails, LastUse, TunnelEstablished, SetConn
<1>6. CloseAllIdle => failure' = failure
  BY Zenon DEF CloseAllIdle
<1> QED BY <1>1, <1>2, <1>3, <1>4, <1>5, <1>6 DEF Next, Alive

LEMMA NextKeepsInv == IInv /\ [Next]_vars => IInv'
<1> SUFFICES ASSUME IInv, [Next]_vars PROVE IInv'
  OBVIOUS
<1>1. CASE UNCHANGED vars
  BY <1>1 DEF vars, IInv, Ordered, LevelIsOpenConns, BusyWithinLimit, InUse, Idle, Closing
<1>2. CASE Next
  <2>1. Ordered' /\ LevelIsOpenConns' /\ BusyWithinLimit'
    BY <1>2, StepIsKind, BusyStaysWithinLimit
  <2>2. ASSUME failure' = "connLvl", Closing' = {}
        PROVE  FALSE
    <3>1. Limit >= 0 /\ theConnLvl' > Limit
      BY <1>2, <2>2, FailureStep
    <3>2. /\ Cardinality(InUse') \in Nat /\ Cardinality(Idle') \in Nat
          /\ theConnLvl' = Cardinality(InUse') + Cardinality(Idle') + Cardinality(Closing')
      BY <2>1, LevelIsSumAfter
    <3>3. Cardinality(Closing') = 0
      BY <2>2, FS_EmptySet, Zenon
    <3> QED BY <2>1, <3>1, <3>2, <3>3, LimitsAssumption DEF BusyWithinLimit
  <2>3. failure' \in {"none", "connLvl", "badRead", "pipeline"}
    BY <1>2, FailureStep
  <2> QED BY <2>1, <2>2, <2>3 DEF IInv
<1> QED BY <1>1, <1>2

LEMMA InvHolds == Spec => []IInv
  BY InitIsInv, NextKeepsInv, PTL DEF Spec

-----------------------------------------------------------------------------
(* The fields of connections, the level and the idle structures keep their *)
(* types: addresses are known ones, counts never drop below zero.          *)
THEOREM CltConnMgrTypeOK == Spec => []TypeOK
<1>1. IInv => TypeOK
  <2> SUFFICES ASSUME IInv PROVE TypeOK
    OBVIOUS
  <2>1. theConnLvl \in Int
    BY LevelIsSum DEF IInv
  <2> QED BY <2>1 DEF IInv, Ordered, Settled, TypeOK
<1> QED BY <1>1, InvHolds, PTL

(* At any time, whatever calls and phase ends came before, an open         *)
(* connection is used, idle or closing and only one of these, and those    *)
(* of the farm are as Connection::reset left them.                         *)
THEOREM EveryConnHasOneSituation == Spec => []OneSituation
<1>1. IInv => OneSituation
  <2> SUFFICES ASSUME IInv PROVE OneSituation
    OBVIOUS
  <2>1. \A c \in Conns \ TheConnIdx : c \notin Idle /\ conn[c] = Fresh
    BY DEF IInv, Ordered, Settled, Idle
  <2> QED BY <2>1, Partition DEF IInv, OneSituation
<1> QED BY <1>1, InvHolds, PTL

(* theIdleQueue and theIdleHash list the same connections, each once and   *)
(* under its address, for any number of connections and addresses.         *)
THEOREM QueueAndHashAgree == Spec => []IdleStructuresAgree
<1>1. IInv => IdleStructuresAgree
  BY DEF IInv, Ordered, Settled, IdleStructuresAgree, Idle
<1> QED BY <1>1, InvHolds, PTL

(* get() never hands out a connection whose startUse would fail.           *)
THEOREM IdleCanBeReused == Spec => []IdleIsReusable
<1>1. IInv => IdleIsReusable
  BY DEF IInv, Ordered, Settled, IdleIsReusable, Idle
<1> QED BY <1>1, InvHolds, PTL

(* theConnLvl is exact, however slow closes and phase ends interleave.     *)
THEOREM LevelIsExact == Spec => []LevelIsOpenConns
<1>1. IInv => LevelIsOpenConns
  BY DEF IInv
<1> QED BY <1>1, InvHolds, PTL

(* open_conn_lmt is exceeded by at most the connections whose SSL shutdown *)
(* is not over: for every limit, and with none (negative).                 *)
THEOREM OnlyClosingExceedsLimit == Spec => []OverLimitOnlyByClosing
<1>1. IInv => OverLimitOnlyByClosing
  <2> SUFFICES ASSUME IInv PROVE OverLimitOnlyByClosing
    OBVIOUS
  <2>1. Limit >= 0 => theConnLvl <= Limit + Cardinality(Closing)
    BY LevelIsSum, LimitsAssumption DEF IInv, BusyWithinLimit
  <2> QED BY <2>1 DEF IInv, OverLimitOnlyByClosing
<1> QED BY <1>1, InvHolds, PTL

(* Without SSL no close lingers.                                           *)
LEMMA NoSslCloseIsImmediate ==
  ASSUME NEW fields, NEW opened, NEW closed, Close(fields, opened, closed),
         \A c \in Conns : ~fields[c].ssl /\ ~fields[c].closing, closed \subseteq Conns
  PROVE  \A c \in Conns : ~conn'[c].ssl /\ ~conn'[c].closing
<1>1. PICK late \in SUBSET MayLinger(fields, closed) :
        \E reading : conn' = AfterClose(fields, closed, late, reading)
  BY DEF Close
<1>2. late = {}
  BY DEF MayLinger
<1>3. \A c \in Conns : conn'[c] = IF c \in closed THEN Fresh ELSE fields[c]
  BY <1>1, <1>2 DEF AfterClose
<1>4. ~Fresh.ssl /\ ~Fresh.closing
  BY DEF Fresh
<1> QED BY <1>3, <1>4

NoSsl == \A c \in Conns : ~conn[c].ssl /\ ~conn[c].closing

LEMMA NextKeepsNoSsl ==
  ASSUME SslAddrs = {}, TunnelAddrs = {}, IInv, NoSsl, Next
  PROVE  NoSsl'
<1>1. /\ Idle \subseteq Conns /\ InUse \subseteq Conns /\ Closing = {}
      /\ conn \in [Conns -> ConnFields]
  BY Partition DEF IInv, NoSsl, Closing
<1>2. ASSUME NEW opened, NEW closed, closed \subseteq Conns, Close(conn, opened, closed)
      PROVE  NoSsl'
  BY <1>2, NoSslCloseIsImmediate DEF NoSsl
<1>3. ASSUME NEW c \in Conns, NEW r, ~r.ssl, ~r.closing, NEW opened, NEW closed,
             closed \subseteq Conns, Close([conn EXCEPT ![c] = r], opened, closed)
      PROVE  NoSsl'
  <2> DEFINE f == [conn EXCEPT ![c] = r]
  <2>1. \A d \in Conns : ~f[d].ssl /\ ~f[d].closing
    BY <1>1, <1>3 DEF NoSsl
  <2> HIDE DEF f
  <2>2. Close(f, opened, closed)
    BY <1>3 DEF f
  <2> QED BY <1>3, <2>1, <2>2, NoSslCloseIsImmediate DEF NoSsl
<1>4. ASSUME NEW a \in Addrs, Reuse(a) PROVE NoSsl'
  <2>1. PICK b \in IdleAddrs(a), ended \in SUBSET Idle :
          Close([conn EXCEPT ![Last(theIdleHash[b])] = StartUse(@)], {}, ended)
    BY <1>4 DEF Reuse
  <2> DEFINE c == Last(theIdleHash[b])
             r == StartUse(conn[c])
  <2>2. c \in Conns
    <3>1. b \in Addrs /\ theIdleHash[b] # << >>
      BY AddrsAssumption DEF IdleAddrs
    <3> QED BY <1>1, <3>1, ReuseTakesOut DEF IInv, Ordered
  <2>3. Close([conn EXCEPT ![c] = r], {}, ended)
    BY <2>1
  <2> HIDE DEF c
  <2>4. ~r.ssl /\ ~r.closing
    BY <1>1, <2>2 DEF NoSsl, StartUse, ConnFields
  <2> HIDE DEF r
  <2> QED BY <1>1, <1>3, <2>2, <2>3, <2>4
<1>5. ASSUME NEW a \in Addrs, NEW q, NEW h, NEW base, base \subseteq Conns,
             OpenWith(a, q, h, base)
      PROVE  NoSsl'
  <2>1. PICK ended \in SUBSET Idle :
          \/ Close(conn, {}, base \cup ended)
          \/ \E c \in Conns \ TheConnIdx, useLmt \in UseLimits, depth \in PipeDepths :
               Close([conn EXCEPT ![c] = Opened(a, useLmt, depth)], {c}, base \cup ended)
    BY <1>5 DEF OpenWith
  <2>2. base \cup ended \subseteq Conns
    BY <1>1, <1>5
  <2>3. \A useLmt, depth : LET r == Opened(a, useLmt, depth) IN ~r.ssl /\ ~r.closing
    BY DEF Opened, StartUse, Fresh
  <2>4. ASSUME NEW c \in Conns, NEW useLmt \in UseLimits, NEW depth \in PipeDepths,
               Close([conn EXCEPT ![c] = Opened(a, useLmt, depth)], {c}, base \cup ended)
        PROVE  NoSsl'
    <3> DEFINE r == Opened(a, useLmt, depth)
    <3>1. ~r.ssl /\ ~r.closing
      BY <2>3
    <3> HIDE DEF r
    <3>2. Close([conn EXCEPT ![c] = r], {c}, base \cup ended)
      BY <2>4 DEF r
    <3> QED BY <1>3, <2>2, <3>1, <3>2
  <2> QED BY <1>2, <2>1, <2>2, <2>4
<1>6. ASSUME NEW a \in Addrs, ~AtHardConnLimit, Open(a) PROVE NoSsl'
  <2>1. CASE Limit >= 0 /\ theConnLvl >= Limit
    <3>1. theIdleQueue # << >>
      <4>1. Len(theIdleQueue) # 0
        BY <1>6, <2>1, LimitsAssumption, LevelIsSum DEF AtHardConnLimit, IInv
      <4> QED BY <4>1
    <3>2. {Head(theIdleQueue)} \subseteq Conns
      BY <1>1, <3>1, OldestTakenOut DEF IInv, Ordered
    <3> QED BY <1>5, <1>6, <2>1, <3>2 DEF Open
  <2>2. CASE ~(Limit >= 0 /\ theConnLvl >= Limit)
    BY <1>5, <1>6, <2>2 DEF Open
  <2> QED BY <2>1, <2>2
<1>7. ASSUME NEW c \in Conns, Put(c) PROVE NoSsl'
  <2> DEFINE r == [conn[c] EXCEPT !.useLvl = @ - 1]
  <2>1. PICK closed \in SUBSET Conns : Close([conn EXCEPT ![c] = r], {}, closed)
    <3>1. Idle \cup {c} \subseteq Conns
      BY <1>1
    <3>2. CASE \E ended \in SUBSET (Idle \cup {c}) : Close([conn EXCEPT ![c] = r], {}, ended)
      BY <3>1, <3>2
    <3>3. CASE \E ended \in SUBSET Idle : Close([conn EXCEPT ![c] = r], {}, ended \cup {c})
      BY <3>1, <3>3
    <3> QED BY <1>7, <3>2, <3>3, Zenon DEF Put
  <2>2. ~r.ssl /\ ~r.closing
    BY <1>1 DEF NoSsl, ConnFields
  <2> HIDE DEF r
  <2> QED BY <1>3, <2>1, <2>2
<1>8. ASSUME NEW c \in Conns, c \in Idle, CloseIdle(c) PROVE NoSsl'
  <2>1. PICK ended \in SUBSET Idle : Close(conn, {}, ended \cup {c})
    BY <1>8 DEF CloseIdle
  <2> QED BY <1>1, <1>2, <2>1
<1>9. CASE CloseAllIdle
  BY <1>1, <1>2, <1>9 DEF CloseAllIdle
<1>10. ASSUME NEW c \in Conns, XactFails(c) \/ LastUse(c) \/ TunnelEstablished(c)
       PROVE  NoSsl'
  <2>1. CASE XactFails(c)
    BY <1>1, <2>1 DEF XactFails, SetConn, NoSsl, ConnFields
  <2>2. CASE LastUse(c)
    BY <1>1, <2>2 DEF LastUse, SetConn, NoSsl, ConnFields
  <2> QED BY <1>10, <2>1, <2>2 DEF TunnelEstablished
<1>11. ASSUME conn' = conn PROVE NoSsl'
  BY <1>11 DEF NoSsl
<1> QED BY <1>1, <1>4, <1>6, <1>7, <1>8, <1>9, <1>10, <1>11
     DEF Next, Get, NoteReadReady, NoteWriteReady, NoteTimeout, Pipeline

(* Without SSL no close lingers, so get() never fails its assertion that   *)
(* open_conn_lmt is respected.  The run pool_ssl_limit shows that it can   *)
(* fail once SSL connections are closed slowly.                            *)
THEOREM LimitHoldsWithoutSsl ==
  ASSUME SslAddrs = {}, TunnelAddrs = {}
  PROVE  Spec => []ConnLvlAssertHolds
<1>1. Init => NoSsl
  BY DEF Init, NoSsl, Fresh
<1>2. IInv /\ NoSsl /\ [Next]_vars => NoSsl'
  <2>1. UNCHANGED vars /\ NoSsl => NoSsl'
    BY DEF vars, NoSsl
  <2> QED BY <2>1, NextKeepsNoSsl
<1>3. IInv /\ NoSsl => ConnLvlAssertHolds
  BY DEF IInv, NoSsl, Closing, ConnLvlAssertHolds, Ordered, Settled
<1> QED BY <1>1, <1>2, <1>3, InvHolds, PTL DEF Spec

-----------------------------------------------------------------------------
(* The manager implements ConnSlots.  Each kind of step is the action of   *)
(* ConnSlots with the same name: the connections given up are those closed *)
(* to make room and those the end of the phase closed.                     *)
LEMMA KindsImplementSlots ==
  ASSUME IInv, StepKinds
  PROVE  Slots!SlotsNext
<1> USE DEF IInv
<1>1. /\ IsFiniteSet(InUse) /\ IsFiniteSet(Idle) /\ Limit \in Int
      /\ Cardinality(InUse) \in Nat
  BY LevelIsSum, LimitsAssumption
<1>2. ASSUME NEW c \in Conns, Starts(c) PROVE Slots!Start(c)
  <2>1. PICK base \in SUBSET Idle :
          /\ c \in Conns \ TheConnIdx
          /\ Limit >= 0 => Cardinality(InUse) + Cardinality(Idle \ base) < Limit
          /\ Effect(InUse \cup {c}, Idle \ base, Closing, base)
    BY <1>2 DEF Starts
  <2>2. PICK ended \in {{}, Idle \ base} : \E late \in SUBSET (ended \cup base) :
          InUse' = InUse \cup {c} /\ Idle' = (Idle \ base) \ ended /\ Closing' = Closing \cup late
    BY <2>1 DEF Effect
  <2> DEFINE given == base \cup ended
  <2>3. given \in SUBSET Idle /\ Idle' = Idle \ given
    BY <2>2
  <2>4. PICK slow \in SUBSET given : Closing' = Closing \cup slow
    BY <2>2
  <2>5. c \in Slots!Free
    BY <2>1, Partition DEF Slots!Free
  <2>6. Slots!Room(Idle \ given)
    <3>1. Idle \ given \subseteq Idle \ base
      OBVIOUS
    <3> HIDE DEF given
    <3>2. IsFiniteSet(Idle \ base) /\ Cardinality(Idle \ base) \in Nat
      BY <1>1, Fewer
    <3>3. Cardinality(Idle \ given) \in Nat /\ Cardinality(Idle \ given) <= Cardinality(Idle \ base)
      BY <3>1, <3>2, Fewer
    <3>4. Limit >= 0 => Cardinality(InUse) + Cardinality(Idle \ given) < Limit
      BY <1>1, <2>1, <3>2, <3>3
    <3> QED BY <3>4, Zenon DEF Slots!Room, Slots!Cardinality, Cardinality
  <2>7. InUse' = InUse \cup {c}
    BY <2>2
  <2> HIDE DEF given
  <2> QED BY <2>3, <2>4, <2>5, <2>6, <2>7, Zenon DEF Slots!Start
<1>3. ASSUME NEW c \in Conns, Restarts(c) PROVE Slots!Restart(c)
  <2>1. PICK given \in {{}, Idle \ {c}} : \E late \in SUBSET (given \cup {}) :
          /\ c \in Idle
          /\ InUse' = InUse \cup {c} /\ Idle' = (Idle \ {c}) \ given
          /\ Closing' = Closing \cup late
    BY <1>3 DEF Restarts, Effect
  <2>2. /\ given \in SUBSET (Idle \ {c}) /\ Idle' = Idle \ (given \cup {c})
        /\ c \in Idle /\ InUse' = InUse \cup {c}
    BY <2>1
  <2>3. PICK slow \in SUBSET given : Closing' = Closing \cup slow
    BY <2>1
  <2> QED BY <2>2, <2>3, Zenon DEF Slots!Restart
<1>4. ASSUME NEW c \in Conns, Keeps(c) PROVE Slots!Keep(c) \/ Slots!Discard(c)
  <2>1. PICK ended \in {{}, Idle \cup {c}} : \E late \in SUBSET (ended \cup {}) :
          /\ c \in InUse
          /\ InUse' = InUse \ {c} /\ Idle' = (Idle \cup {c}) \ ended
          /\ Closing' = Closing \cup late
    BY <1>4 DEF Keeps, Effect
  <2>2. CASE ended = {}
    BY <2>1, <2>2 DEF Slots!Keep
  <2>3. CASE ended = Idle \cup {c}
    <3>1. /\ ended \in SUBSET (Idle \cup {c}) /\ c \in InUse /\ c \in ended
          /\ InUse' = InUse \ {c} /\ Idle' = Idle \ ended
      BY <2>1, <2>3
    <3>2. PICK slow \in SUBSET ended : Closing' = Closing \cup slow
      BY <2>1
    <3> QED BY <3>1, <3>2, Zenon DEF Slots!Discard
  <2> QED BY <2>2, <2>3
<1>5. ASSUME NEW c \in Conns, Discards(c) PROVE Slots!Discard(c)
  <2>1. PICK ended \in {{}, Idle} : \E late \in SUBSET (ended \cup {c}) :
          /\ c \in InUse
          /\ InUse' = InUse \ {c} /\ Idle' = Idle \ ended
          /\ Closing' = Closing \cup late
    BY <1>5 DEF Discards, Effect
  <2> DEFINE given == ended \cup {c}
  <2>2. /\ given \in SUBSET (Idle \cup {c}) /\ c \in InUse /\ c \in given
        /\ InUse' = InUse \ {c} /\ Idle' = Idle \ given
    BY <2>1, Partition
  <2>3. PICK slow \in SUBSET given : Closing' = Closing \cup slow
    BY <2>1
  <2> HIDE DEF given
  <2> QED BY <2>2, <2>3, Zenon DEF Slots!Discard
<1>6. CASE Retires
  <2>1. PICK base \in SUBSET Idle, over \in SUBSET Closing :
          Effect(InUse, Idle \ base, Closing \ over, base \cup over)
    BY <1>6 DEF Retires
  <2>2. PICK stop \in {{}, Idle \ base} : \E late \in SUBSET (stop \cup (base \cup over)) :
          /\ InUse' = InUse /\ Idle' = (Idle \ base) \ stop
          /\ Closing' = (Closing \ over) \cup late
    BY <2>1 DEF Effect
  <2>3. PICK late \in SUBSET (stop \cup (base \cup over)) : Closing' = (Closing \ over) \cup late
    BY <2>2
  <2> DEFINE given == base \cup stop
             ended == over \ late
             slow == late \ over
  <2>4. /\ given \in SUBSET Idle /\ ended \in SUBSET Closing /\ slow \in SUBSET given
        /\ Idle' = Idle \ given /\ InUse' = InUse
    BY <2>2, <2>3
  <2>5. Closing' = (Closing \ ended) \cup slow
    BY <2>3
  <2> HIDE DEF given, ended, slow
  <2>6. Slots!Retire
    BY <2>4, <2>5, Zenon DEF Slots!Retire
  <2> QED BY <2>6 DEF Slots!SlotsNext
<1> QED BY <1>2, <1>3, <1>4, <1>5, <1>6 DEF StepKinds, Slots!SlotsNext

(* Whatever happens to queue, hash, level and SSL, every call does to the  *)
(* used, idle and closing connections what ConnSlots allows: nobody starts *)
(* a connection without room, and one that closes only ever disappears.    *)
THEOREM CltConnMgrImplementsSlots == Spec => ImplementsSlots
<1>1. Init => Slots!SlotsInit
  BY EmptyIsDistinct DEF Init, Slots!SlotsInit, InUse, Idle, Closing
<1>2. IInv /\ [Next]_vars => [Slots!SlotsNext]_(Slots!slots)
  <2>1. UNCHANGED vars => UNCHANGED Slots!slots
    BY DEF vars, Slots!slots, InUse, Idle, Closing
  <2> QED BY <2>1, StepIsKind, KindsImplementSlots
<1> QED BY <1>1, <1>2, InvHolds, PTL DEF Spec, ImplementsSlots, Slots!SlotsSpec
=============================================================================
