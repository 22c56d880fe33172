---------------------------- MODULE PhasesProofs ----------------------------
(***************************************************************************)
(* Proofs about Phases, for any number of clients, servers and phases.     *)
(*                                                                         *)
(* Every step but the sending of a message moves one process on.  MovesOn  *)
(* says what such a move may do; one lemma per action shows that it is     *)
(* such a move, and one lemma per part of the invariant that such a move   *)
(* preserves it.                                                           *)
(***************************************************************************)
EXTENDS Phases, DistinctSeqs

(* The locks and flags of a phase fit together: only a phase whose goal is *)
(* met is ready, only a synchronized one waits, and the working set is not *)
(* what holds a phase that is ready.                                       *)
FlagsAgree(p, m) ==
  /\ m.positive => m.idx \in 0..(N - 1)
  /\ m.ready => m.positive /\ m.idx \in Synced /\ ~m.wss
  /\ m.sync => m.ready
  /\ m.warmup => p \in Planners
  /\ m.negative => m.down /\ m.idx = N

AllFlagsAgree == \A p \in Procs : FlagsAgree(p, mgr[p])

(* What a process knows was said to it.                                    *)
KnownWasSaid ==
  \A p, q \in Procs :
    index[p][q] >= 0 => <<q, p>> \in Links /\ index[p][q] \in said[<<q, p>>]

(* Somebody is known to a process that is ready: it waited for somebody.   *)
ReadyKnowsSomebody == \A p \in Procs : mgr[p].ready => Known(index[p]) # {}

FoundersAreKnown ==
  \A p \in Procs : /\ founders[p] \subseteq Known(index[p])
                   /\ mgr[p].idx <= 0 => founders[p] = {}

(* A server that says a position beyond the second phase speaks for all    *)
(* its founders.                                                           *)
ServersSpeakForFounders ==
  \A l \in Links : l[1] \in Servers =>
    \A pos \in said[l] : pos >= 2 =>
      \A d \in founders[l[1]] : pos <= PhaseSyncPos(mgr[d])

(* A process waited for its founders before it left a synchronized phase,  *)
(* and before it went on to be held by a warm-up plan only.                *)
FoundersWereWaitedFor ==
  \A p \in Procs : \A q \in founders[p] :
    /\ mgr[p].ready /\ ~mgr[p].sync /\ mgr[p].idx >= 1
         => index[p][q] >= mgr[p].idx + 1
    /\ mgr[p].idx >= 2 /\ mgr[p].idx - 1 \in Synced /\ ~mgr[p].negative
         => index[p][q] >= mgr[p].idx

(* The inductive invariant.                                                *)
IInv ==
  /\ TypeOK
  /\ PosMinIsExact
  /\ BeliefsAreTrue
  /\ HeldForAReason
  /\ AllFlagsAgree
  /\ KnownWasSaid
  /\ ReadyKnowsSomebody
  /\ FoundersAreKnown
  /\ ServersSpeakForFounders
  /\ FoundersWereWaitedFor

-----------------------------------------------------------------------------
(* The helpers: smallest positions and groups to wait for.                 *)

(* PosMin is the smallest position in the index, if there is one.          *)
LEMMA PosMinIsSmallest ==
  ASSUME NEW row \in [Procs -> -1..N]
  PROVE  /\ PosMin(row) \in -1..N
         /\ \A q \in Known(row) : PosMin(row) <= row[q]
         /\ Known(row) = {} => PosMin(row) = -1
         /\ Known(row) # {} => \E q \in Known(row) : PosMin(row) = row[q]
<1> DEFINE S == {row[q] : q \in Known(row)}
<1>1. CASE Known(row) = {}
  BY <1>1, PhasesAssumption DEF PosMin
<1>2. CASE Known(row) # {}
  <2>1. S \in SUBSET Nat /\ S # {}
    BY <1>2, PhasesAssumption DEF Known
  <2>2. Min(S) \in S /\ \A x \in S : Min(S) <= x
    BY <2>1, MinOfNaturals
  <2>3. PosMin(row) = Min(S)
    BY <1>2 DEF PosMin
  <2> QED BY <1>2, <2>2, <2>3, PhasesAssumption DEF Known
<1> QED BY <1>1, <1>2

(* waitGroupCount is positive if and only if somebody known is behind.     *)
LEMMA WaitGroupCountIsPositive ==
  ASSUME NEW row \in [Procs -> -1..N], NEW pos \in Int
  PROVE  /\ WaitGroupCount(row, pos) \in Nat
         /\ WaitGroupCount(row, pos) > 0 <=> \E q \in Known(row) : row[q] < pos
<1> DEFINE S == {q \in Known(row) : row[q] < pos}
<1>1. IsFiniteSet(S)
  BY ProcsAssumption, FS_Subset DEF Known
<1>2. Cardinality(S) \in Nat /\ (Cardinality(S) = 0 <=> S = {})
  BY <1>1, FS_CardinalityType, FS_EmptySet
<1> QED BY <1>2 DEF WaitGroupCount

-----------------------------------------------------------------------------
(* One process moves on.                                                   *)

(* Process p may become m, row, min: positions grow, what it learnt was    *)
(* said to it, and it leaves a synchronized phase, or stops waiting for    *)
(* others in one, only if all it knows of are ready, or if it had stopped  *)
(* waiting already.                                                        *)
Waited(p, j, row) ==
  \/ \A q \in Known(row) : row[q] >= j + 1
  \/ j = mgr[p].idx /\ mgr[p].ready /\ ~mgr[p].sync

MovesSafely(p, m, row, min) ==
  /\ m \in MgrFields /\ FlagsAgree(p, m)
  /\ row \in [Procs -> -1..N]
  /\ \A q \in Procs : /\ index[p][q] <= row[q]
                      /\ row[q] >= 0 => <<q, p>> \in Links /\ row[q] \in said[<<q, p>>]
  /\ min = PosMin(row)
  /\ mgr[p].idx <= m.idx /\ PhaseSyncPos(mgr[p]) <= PhaseSyncPos(m)
  /\ m.ready => Known(row) # {}
  /\ ~mgr[p].negative /\ (m.negative => row = index[p])
  /\ m.ready /\ ~m.sync => Waited(p, m.idx, row)
  /\ \A j \in mgr[p].idx..(m.idx - 1) :
       j \in Synced /\ ~m.negative => Waited(p, j, row)

(* ... and no unlock is missed.                                            *)
MovesOn(p, m, row, min) ==
  /\ MovesSafely(p, m, row, min)
  /\ m.sync => min < PhaseSyncPos(m)
  /\ m.ready => Locked(m)

(* Phase j was not held for synchronization if nobody known is behind.     *)
NobodyBehind(j, row) == j \in Synced => \A q \in Known(row) : row[q] >= j + 1

(* nextPhase() goes past the phases that end at once.  Where it stops, the *)
(* phase has a goal to meet, or a lock.                                    *)
LEMMA NextPhaseStops ==
  ASSUME NEW p \in Procs, NEW m \in MgrFields, m.idx \in -1..(N - 1), ~m.negative,
         NEW row \in [Procs -> -1..N]
  PROVE  LET n == NextPhase(p, m, row) IN
         /\ n \in MgrFields /\ FlagsAgree(p, n)
         /\ n.idx \in (m.idx + 1)..N
         /\ n.wssState = m.wssState /\ n.wss = LocksForWss(n.idx, m)
         /\ ~n.negative
         /\ n.ready => n.sync /\ \E q \in Known(row) : row[q] < n.idx + 1
         /\ \A j \in (m.idx + 1)..(n.idx - 1) : j \in Instant /\ NobodyBehind(j, row)
<1> DEFINE n == NextPhase(p, m, row)
           S == {i \in (m.idx + 1)..N : ~EndsAtOnce(i, m, row)}
           k == Min(S)
           Waits == k \in Instant /\ ~LocksForWss(k, m)
           Down == k = N /\ p \in Clients
<1>1. /\ m.idx \in Int /\ N \in Int
      /\ (m.idx + 1)..N \subseteq Nat /\ (m.idx + 1)..N \subseteq -1..N
  BY PhasesAssumption
<1>2. N \in S
  BY <1>1, PhasesAssumption DEF EndsAtOnce
<1>3. k \in S /\ \A i \in S : k <= i
  BY <1>1, <1>2, MinOfNaturals
<1>4. k \in (m.idx + 1)..N /\ k \in -1..N /\ k \in Int /\ ~EndsAtOnce(k, m, row)
  BY <1>1, <1>3
<1>5. \A j \in (m.idx + 1)..(k - 1) : EndsAtOnce(j, m, row)
  BY <1>1, <1>3, <1>4
<1>6. n = [m EXCEPT !.idx = k, !.positive = k \in Instant, !.ready = Waits,
                    !.sync = Waits, !.warmup = FALSE, !.wss = LocksForWss(k, m),
                    !.down = Down]
  BY DEF NextPhase
<1>7. Waits => k \in Synced /\ \E q \in Known(row) : row[q] < k + 1
  <2>1. Waits => k \in Synced /\ WaitGroupCount(row, k + 1) # 0
    BY <1>4 DEF EndsAtOnce
  <2>2. k + 1 \in Int
    BY <1>4
  <2> HIDE DEF k
  <2>3. /\ WaitGroupCount(row, k + 1) \in Nat
        /\ WaitGroupCount(row, k + 1) > 0 => \E q \in Known(row) : row[q] < k + 1
    BY <2>2, WaitGroupCountIsPositive
  <2> QED BY <2>1, <2>3
<1>8. ASSUME NEW j \in (m.idx + 1)..(k - 1)
      PROVE  j \in Instant /\ NobodyBehind(j, row)
  <2>1. EndsAtOnce(j, m, row) /\ j \in Int /\ j + 1 \in Int
    BY <1>1, <1>4, <1>5
  <2>2. j \in Synced => ~\E q \in Known(row) : row[q] < j + 1
    BY <2>1, WaitGroupCountIsPositive DEF EndsAtOnce
  <2>3. \A q \in Known(row) : row[q] \in Int
    BY PhasesAssumption DEF Known
  <2> QED BY <2>1, <2>2, <2>3 DEF EndsAtOnce, NobodyBehind
<1>9. (k \in Instant) \in BOOLEAN /\ Waits \in BOOLEAN /\ Down \in BOOLEAN
      /\ LocksForWss(k, m) \in BOOLEAN /\ (Waits => ~LocksForWss(k, m) /\ k \in Instant)
  BY DEF LocksForWss
<1> DEFINE Positive == k \in Instant
           Wss == LocksForWss(k, m)
<1> HIDE DEF S, k, Waits, Down, Positive, Wss
<1>10. /\ n.idx = k /\ n.positive = Positive /\ n.ready = Waits /\ n.sync = Waits
       /\ ~n.warmup /\ n.wss = Wss /\ n.down = Down
       /\ n.wssState = m.wssState /\ n.negative = m.negative
  BY <1>6 DEF MgrFields, Positive, Wss
<1>11. n \in MgrFields
  <2>1. n = [m EXCEPT !.idx = k, !.positive = Positive, !.ready = Waits,
                      !.sync = Waits, !.warmup = FALSE, !.wss = Wss, !.down = Down]
    BY <1>6 DEF Positive, Wss
  <2>2. Positive \in BOOLEAN /\ Wss \in BOOLEAN
    BY <1>9 DEF Positive, Wss
  <2> QED BY <1>4, <1>9, <2>1, <2>2 DEF MgrFields
<1>12. FlagsAgree(p, n)
  <2>1. Positive => k \in 0..(N - 1)
    BY PhasesAssumption DEF Positive
  <2>2. Waits => Positive /\ ~Wss
    BY <1>9 DEF Positive, Wss
  <2> QED BY <1>7, <1>10, <2>1, <2>2 DEF FlagsAgree
<1> QED BY <1>4, <1>7, <1>8, <1>10, <1>11, <1>12 DEF Wss

(* checkpoint() changes nothing, makes the phase wait for those that are   *)
(* behind, or ends a phase that waited or found nobody behind.             *)
LEMMA CheckpointMoves ==
  ASSUME NEW p \in Procs, NEW m \in MgrFields, FlagsAgree(p, m),
         NEW row \in [Procs -> -1..N]
  PROVE  LET n == Checkpoint(p, m, row) IN
         /\ n \in MgrFields /\ FlagsAgree(p, n)
         /\ n.ready => Locked(n)
         /\ n.negative = m.negative
         /\ \/ n = m
            \/ /\ ~Locked(m) /\ n.idx = m.idx /\ n.ready /\ n.sync /\ ~m.ready
               /\ \E q \in Known(row) : row[q] < m.idx + 1
            \/ /\ ~Locked(m) /\ n.idx > m.idx
               /\ m.ready \/ NobodyBehind(m.idx, row)
               /\ \A j \in (m.idx + 1)..(n.idx - 1) : NobodyBehind(j, row)
               /\ n.ready => n.sync /\ \E q \in Known(row) : row[q] < n.idx + 1
<1> DEFINE n == Checkpoint(p, m, row)
<1>0. /\ m.idx \in Int /\ m.idx + 1 \in Int
      /\ m.positive => m.idx \in 0..(N - 1)
      /\ m.positive => ~m.negative
  BY PhasesAssumption DEF FlagsAgree, MgrFields
<1>1. CASE Locked(m) \/ ~m.positive
  <2>1. n = m
    BY <1>1 DEF Checkpoint
  <2> QED BY <1>1, <2>1 DEF FlagsAgree, Locked
<1>2. CASE ~(Locked(m) \/ ~m.positive) /\ m.idx \in Synced /\ ~m.ready
           /\ WaitGroupCount(row, m.idx + 1) > 0
  <2>1. n = [m EXCEPT !.ready = TRUE, !.sync = TRUE]
    BY <1>2 DEF Checkpoint
  <2>2. n \in MgrFields
    BY <2>1 DEF MgrFields
  <2>3. FlagsAgree(p, n) /\ Locked(n) /\ n.negative = m.negative
    BY <1>2, <2>1 DEF MgrFields, FlagsAgree, Locked
  <2>4. \E q \in Known(row) : row[q] < m.idx + 1
    BY <1>0, <1>2, WaitGroupCountIsPositive
  <2> QED BY <1>2, <2>1, <2>2, <2>3, <2>4 DEF MgrFields
<1>3. CASE ~(Locked(m) \/ ~m.positive)
           /\ ~(m.idx \in Synced /\ ~m.ready /\ WaitGroupCount(row, m.idx + 1) > 0)
  <2>1. n = NextPhase(p, m, row)
    BY <1>3 DEF Checkpoint
  <2>2. m.idx \in -1..(N - 1) /\ ~m.negative
    BY <1>0, <1>3, PhasesAssumption
  <2>3. /\ n \in MgrFields /\ FlagsAgree(p, n) /\ ~n.negative
        /\ n.idx \in (m.idx + 1)..N
        /\ n.ready => n.sync /\ \E q \in Known(row) : row[q] < n.idx + 1
        /\ \A j \in (m.idx + 1)..(n.idx - 1) : NobodyBehind(j, row)
    BY <2>1, <2>2, NextPhaseStops
  <2>4. n.idx > m.idx /\ (n.ready => Locked(n))
    BY <1>0, <2>3, PhasesAssumption DEF Locked
  <2>5. m.ready \/ NobodyBehind(m.idx, row)
    <3>1. m.idx \in Synced /\ ~m.ready => ~\E q \in Known(row) : row[q] < m.idx + 1
      BY <1>0, <1>3, WaitGroupCountIsPositive
    <3>2. \A q \in Known(row) : row[q] \in Int
      BY PhasesAssumption DEF Known
    <3> QED BY <1>0, <3>1, <3>2 DEF NobodyBehind, MgrFields
  <2>6. n.negative = m.negative
    BY <2>2, <2>3 DEF MgrFields
  <2> QED BY <1>3, <2>3, <2>4, <2>5, <2>6
<1> QED BY <1>1, <1>2, <1>3

(* checkpoint() after a move is a move.                                    *)
LEMMA CheckpointMovesOn ==
  ASSUME NEW p \in Procs, NEW m, NEW row, NEW min,
         MovesSafely(p, m, row, min), ~m.negative,
         m.sync => min < PhaseSyncPos(m),
         mgr \in [Procs -> MgrFields]
  PROVE  MovesOn(p, Checkpoint(p, m, row), row, min)
<1> DEFINE n == Checkpoint(p, m, row)
<1>0. m \in MgrFields /\ FlagsAgree(p, m) /\ row \in [Procs -> -1..N]
  BY DEF MovesSafely
<1>1. /\ n \in MgrFields /\ FlagsAgree(p, n)
      /\ n.ready => Locked(n)
      /\ n.negative = m.negative
  BY <1>0, CheckpointMoves
<1>2. CASE n = m
  BY <1>1, <1>2 DEF MovesOn
<1>3. CASE /\ ~Locked(m) /\ n.idx = m.idx /\ n.ready /\ n.sync /\ ~m.ready
           /\ \E q \in Known(row) : row[q] < m.idx + 1
  <2>1. min < PhaseSyncPos(n) /\ PhaseSyncPos(n) = m.idx + 1
    <3>1. PosMin(row) \in -1..N /\ \A q \in Known(row) : PosMin(row) <= row[q]
      BY <1>0, PosMinIsSmallest
    <3>2. m.idx \in -1..N /\ \A q \in Known(row) : row[q] \in -1..N
      BY <1>0 DEF MgrFields, Known
    <3> QED BY <1>3, <3>1, <3>2, PhasesAssumption DEF MovesSafely, PhaseSyncPos
  <2>2. PhaseSyncPos(m) <= PhaseSyncPos(n) /\ PhaseSyncPos(m) \in Int
    BY <1>0, <1>3, PhasesAssumption DEF PhaseSyncPos, MgrFields
  <2>3. mgr[p].idx <= n.idx /\ PhaseSyncPos(mgr[p]) <= PhaseSyncPos(n)
    BY <1>0, <1>3, <2>1, <2>2, PhasesAssumption DEF MovesSafely, PhaseSyncPos, MgrFields
  <2>4. Known(row) # {}
    BY <1>3
  <2> QED BY <1>1, <1>3, <2>1, <2>3, <2>4 DEF MovesSafely, MovesOn
<1>4. CASE /\ ~Locked(m) /\ n.idx > m.idx
           /\ m.ready \/ NobodyBehind(m.idx, row)
           /\ \A j \in (m.idx + 1)..(n.idx - 1) : NobodyBehind(j, row)
           /\ n.ready => n.sync /\ \E q \in Known(row) : row[q] < n.idx + 1
  <2>0. m.idx \in Int /\ mgr[p].idx \in Int /\ n.idx \in Int
    BY <1>0, <1>1, PhasesAssumption DEF MgrFields
  <2>1. mgr[p].idx <= n.idx /\ PhaseSyncPos(mgr[p]) <= PhaseSyncPos(n)
    BY <1>4, <2>0 DEF MovesSafely, PhaseSyncPos
  <2>2. m.idx \in Synced => Waited(p, m.idx, row)
    BY <1>4 DEF MovesSafely, Waited, Locked, NobodyBehind
  <2>3. ASSUME NEW j \in mgr[p].idx..(n.idx - 1), j \in Synced
        PROVE  Waited(p, j, row)
    <3>1. CASE j = m.idx
      BY <2>2, <2>3, <3>1
    <3>2. CASE j \in mgr[p].idx..(m.idx - 1)
      BY <2>3, <3>2 DEF MovesSafely
    <3>3. CASE j \in (m.idx + 1)..(n.idx - 1)
      BY <1>4, <2>3, <3>3 DEF Waited, NobodyBehind
    <3> QED BY <2>0, <3>1, <3>2, <3>3
  <2>4. n.sync => min < PhaseSyncPos(n)
    <3>1. n.sync => n.ready
      BY <1>1 DEF FlagsAgree
    <3>2. PosMin(row) \in -1..N /\ \A q \in Known(row) : PosMin(row) <= row[q]
      BY <1>0, PosMinIsSmallest
    <3>3. \A q \in Known(row) : row[q] \in -1..N
      BY <1>0 DEF Known
    <3> QED BY <1>4, <2>0, <3>1, <3>2, <3>3, PhasesAssumption DEF MovesSafely, PhaseSyncPos
  <2>5. n.ready => n.sync /\ Known(row) # {}
    BY <1>4
  <2> QED BY <1>1, <2>1, <2>3, <2>4, <2>5 DEF MovesSafely, MovesOn
<1> QED BY <1>0, <1>2, <1>3, <1>4, CheckpointMoves

(* A process that has not given up may stay as it is.                      *)
LEMMA StayingIsSafe ==
  ASSUME IInv, NEW p \in Procs, ~mgr[p].negative
  PROVE  MovesOn(p, mgr[p], index[p], posMin[p])
<1>1. mgr[p] \in MgrFields /\ index[p] \in [Procs -> -1..N] /\ mgr[p].idx \in Int
  BY PhasesAssumption DEF IInv, TypeOK, MgrFields
<1>2. FlagsAgree(p, mgr[p]) /\ posMin[p] = PosMin(index[p])
  BY DEF IInv, AllFlagsAgree, PosMinIsExact
<1>3. \A q \in Procs :
        /\ index[p][q] <= index[p][q]
        /\ index[p][q] >= 0 => <<q, p>> \in Links /\ index[p][q] \in said[<<q, p>>]
  BY <1>1, PhasesAssumption DEF IInv, KnownWasSaid
<1>4. /\ mgr[p].ready => Known(index[p]) # {} /\ Locked(mgr[p])
      /\ mgr[p].sync => posMin[p] < PhaseSyncPos(mgr[p])
  BY DEF IInv, ReadyKnowsSomebody, HeldForAReason
<1>5. mgr[p].idx..(mgr[p].idx - 1) = {} /\ PhaseSyncPos(mgr[p]) \in Int
  BY <1>1 DEF PhaseSyncPos
<1> QED BY <1>1, <1>2, <1>3, <1>4, <1>5 DEF MovesOn, MovesSafely, Waited

(* What a process does by itself: the fields of its phase that decide      *)
(* about synchronization are as before, except that the goal may be met.   *)
LEMMA LocalCheckpointMovesOn ==
  ASSUME IInv, NEW p \in Procs, ~mgr[p].negative,
         NEW m \in MgrFields, FlagsAgree(p, m),
         m.idx = mgr[p].idx, m.ready = mgr[p].ready, m.sync = mgr[p].sync,
         m.negative = mgr[p].negative
  PROVE  /\ MovesOn(p, Checkpoint(p, m, index[p]), index[p], posMin[p])
         /\ (m.ready => Locked(m)) => MovesOn(p, m, index[p], posMin[p])
<1>1. MovesOn(p, mgr[p], index[p], posMin[p])
  BY StayingIsSafe
<1>2. PhaseSyncPos(m) = PhaseSyncPos(mgr[p])
  BY DEF PhaseSyncPos
<1>3. MovesSafely(p, m, index[p], posMin[p])
  BY <1>1, <1>2 DEF MovesOn, MovesSafely
<1>4. m.sync => posMin[p] < PhaseSyncPos(m)
  BY <1>1, <1>2 DEF MovesOn
<1>5. mgr \in [Procs -> MgrFields] /\ ~m.negative
  BY DEF IInv, TypeOK
<1>6. MovesOn(p, Checkpoint(p, m, index[p]), index[p], posMin[p])
  BY <1>3, <1>4, <1>5, CheckpointMovesOn
<1> QED BY <1>3, <1>4, <1>6 DEF MovesOn

LEMMA StopTrafficWaitingMovesOn ==
  ASSUME IInv, NEW p \in Servers, StopTrafficWaiting(p)
  PROVE  \E m : /\ MovesOn(p, m, index[p], posMin[p])
                /\ Becomes(p, m, index[p], posMin[p]) /\ UNCHANGED said
<1> DEFINE row == index[p]
           m == NextPhase(p, mgr[p], row)
<1>0. /\ p \in Procs /\ mgr[p] \in MgrFields /\ FlagsAgree(p, mgr[p]) /\ mgr[p].idx = -1
      /\ row \in [Procs -> -1..N]
  BY DEF IInv, TypeOK, AllFlagsAgree, Procs, StopTrafficWaiting
<1>1. ~mgr[p].ready /\ ~mgr[p].negative /\ mgr[p].idx \in -1..(N - 1)
  BY <1>0, PhasesAssumption DEF FlagsAgree
<1>2. /\ m \in MgrFields /\ FlagsAgree(p, m) /\ m.idx \in 0..N /\ ~m.negative
      /\ m.ready => m.sync /\ \E q \in Known(row) : row[q] < m.idx + 1
      /\ \A j \in 0..(m.idx - 1) : NobodyBehind(j, row)
  BY <1>0, <1>1, NextPhaseStops
<1>3. MovesOn(p, mgr[p], row, posMin[p])
  BY <1>0, <1>1, StayingIsSafe
<1> HIDE DEF m
<1>4. /\ m.idx \in Int /\ mgr[p].idx <= m.idx
      /\ PhaseSyncPos(mgr[p]) <= PhaseSyncPos(m)
  BY <1>0, <1>1, <1>2, PhasesAssumption DEF PhaseSyncPos
<1>5. ASSUME NEW j \in mgr[p].idx..(m.idx - 1), j \in Synced
      PROVE  Waited(p, j, row)
  <2>1. j \in 0..(m.idx - 1)
    BY <1>0, <1>4, <1>5, PhasesAssumption
  <2> QED BY <1>2, <1>5, <2>1 DEF NobodyBehind, Waited
<1>6. m.sync => posMin[p] < PhaseSyncPos(m)
  <2>1. m.sync => m.ready
    BY <1>2 DEF FlagsAgree
  <2>2. PosMin(row) \in -1..N /\ \A q \in Known(row) : PosMin(row) <= row[q]
    BY <1>0, PosMinIsSmallest
  <2>3. \A q \in Known(row) : row[q] \in -1..N
    BY <1>0 DEF Known
  <2>4. posMin[p] = PosMin(row)
    BY <1>3 DEF MovesOn, MovesSafely
  <2> QED BY <1>2, <1>4, <2>1, <2>2, <2>3, <2>4, PhasesAssumption DEF PhaseSyncPos
<1>7. m.ready => m.sync /\ Known(row) # {} /\ Locked(m)
  BY <1>2 DEF Locked
<1>8. MovesOn(p, m, row, posMin[p])
  BY <1>1, <1>2, <1>3, <1>4, <1>5, <1>6, <1>7 DEF MovesOn, MovesSafely
<1>9. Becomes(p, m, row, posMin[p]) /\ UNCHANGED said
  BY DEF StopTrafficWaiting, LocalStep, m
<1> QED BY <1>8, <1>9

LEMMA GoalReachedMovesOn ==
  ASSUME IInv, NEW p \in Procs, GoalReached(p)
  PROVE  \E m : /\ MovesOn(p, m, index[p], posMin[p])
                /\ Becomes(p, m, index[p], posMin[p]) /\ UNCHANGED said
<1> DEFINE m == [mgr[p] EXCEPT !.positive = TRUE]
<1>0. /\ mgr[p] \in MgrFields /\ FlagsAgree(p, mgr[p])
      /\ mgr[p].idx \in 0..(N - 1) /\ ~mgr[p].down
  BY PhasesAssumption
  DEF IInv, TypeOK, AllFlagsAgree, GoalReached, Running, MgrFields
<1>1. /\ m \in MgrFields /\ m.idx = mgr[p].idx /\ m.ready = mgr[p].ready
      /\ m.sync = mgr[p].sync /\ m.negative = mgr[p].negative
      /\ m.wss = mgr[p].wss /\ m.warmup = mgr[p].warmup /\ m.down = mgr[p].down
  BY <1>0 DEF MgrFields
<1>2. FlagsAgree(p, m) /\ ~mgr[p].negative
  BY <1>0, <1>1 DEF FlagsAgree, MgrFields
<1>3. MovesOn(p, Checkpoint(p, m, index[p]), index[p], posMin[p])
  BY <1>1, <1>2, LocalCheckpointMovesOn
<1> QED BY <1>3 DEF GoalReached, LocalStep

LEMMA NegativeGoalReachedMovesOn ==
  ASSUME IInv, NEW p \in Procs, NegativeGoalReached(p)
  PROVE  \E m : /\ MovesOn(p, m, index[p], posMin[p])
                /\ Becomes(p, m, index[p], posMin[p]) /\ UNCHANGED said
<1> DEFINE m == [mgr[p] EXCEPT !.idx = N, !.positive = FALSE, !.ready = FALSE,
                               !.sync = FALSE, !.wss = FALSE, !.warmup = FALSE,
                               !.negative = TRUE, !.down = TRUE]
<1>0. /\ mgr[p] \in MgrFields /\ FlagsAgree(p, mgr[p])
      /\ mgr[p].idx \in 0..(N - 1) /\ ~mgr[p].down
  BY PhasesAssumption
  DEF IInv, TypeOK, AllFlagsAgree, NegativeGoalReached, Running, MgrFields
<1>1. /\ m \in MgrFields /\ m.idx = N /\ ~m.ready /\ ~m.positive /\ ~m.sync
      /\ ~m.warmup /\ m.negative /\ m.down
  <2>1. N \in -1..N
    BY PhasesAssumption
  <2>2. m \in MgrFields
    BY <1>0, <2>1 DEF MgrFields
  <2> QED BY <1>0, <2>2 DEF MgrFields
<1>2. FlagsAgree(p, m) /\ ~mgr[p].negative
  BY <1>0, <1>1 DEF FlagsAgree
<1>3. MovesOn(p, mgr[p], index[p], posMin[p])
  BY <1>2, StayingIsSafe
<1>4. PhaseSyncPos(mgr[p]) <= PhaseSyncPos(m) /\ mgr[p].idx <= m.idx
  BY <1>0, <1>1, PhasesAssumption DEF PhaseSyncPos
<1>5. MovesOn(p, m, index[p], posMin[p])
  BY <1>1, <1>2, <1>3, <1>4 DEF MovesOn, MovesSafely
<1> QED BY <1>5 DEF NegativeGoalReached, LocalStep

LEMMA WssFreezeMovesOn ==
  ASSUME IInv, NEW p \in Procs, WssFreeze(p)
  PROVE  \E m : /\ MovesOn(p, m, index[p], posMin[p])
                /\ Becomes(p, m, index[p], posMin[p]) /\ UNCHANGED said
<1> DEFINE m0 == [mgr[p] EXCEPT !.wss = FALSE]
           m1 == IF mgr[p].wss THEN Checkpoint(p, m0, index[p]) ELSE mgr[p]
           m2 == [m1 EXCEPT !.wssState = "frozen"]
<1>0. mgr[p] \in MgrFields /\ FlagsAgree(p, mgr[p]) /\ ~mgr[p].down
  BY DEF IInv, TypeOK, AllFlagsAgree, WssFreeze, Running
<1>1. /\ m0 \in MgrFields /\ m0.idx = mgr[p].idx /\ m0.ready = mgr[p].ready
      /\ m0.sync = mgr[p].sync /\ m0.negative = mgr[p].negative
      /\ m0.positive = mgr[p].positive /\ m0.warmup = mgr[p].warmup
      /\ m0.down = mgr[p].down /\ ~m0.wss
  BY <1>0 DEF MgrFields
<1>2. FlagsAgree(p, m0) /\ ~mgr[p].negative
  BY <1>0, <1>1 DEF FlagsAgree
<1>3. MovesOn(p, m1, index[p], posMin[p])
  BY <1>1, <1>2, LocalCheckpointMovesOn, StayingIsSafe
<1>4. m1 \in MgrFields
  BY <1>3 DEF MovesOn, MovesSafely
<1> HIDE DEF m1
<1>5. /\ m2 \in MgrFields /\ m2.idx = m1.idx /\ m2.ready = m1.ready
      /\ m2.sync = m1.sync /\ m2.negative = m1.negative
      /\ m2.positive = m1.positive /\ m2.warmup = m1.warmup
      /\ m2.down = m1.down /\ m2.wss = m1.wss
  BY <1>4 DEF MgrFields
<1> HIDE DEF m2
<1>6. FlagsAgree(p, m2)
  BY <1>3, <1>5 DEF MovesOn, MovesSafely, FlagsAgree
<1>7. PhaseSyncPos(m2) = PhaseSyncPos(m1) /\ Locked(m2) = Locked(m1)
  BY <1>5 DEF PhaseSyncPos, Locked
<1>8. MovesOn(p, m2, index[p], posMin[p])
  BY <1>3, <1>5, <1>6, <1>7 DEF MovesOn, MovesSafely
<1>9. Becomes(p, m2, index[p], posMin[p]) /\ UNCHANGED said
  BY DEF WssFreeze, LocalStep, m1, m2
<1> QED BY <1>8, <1>9

LEMMA StartWarmupMovesOn ==
  ASSUME IInv, NEW p \in Procs, StartWarmup(p)
  PROVE  \E m : /\ MovesOn(p, m, index[p], posMin[p])
                /\ Becomes(p, m, index[p], posMin[p]) /\ UNCHANGED said
<1> DEFINE m == [mgr[p] EXCEPT !.plan = "running", !.warmup = TRUE]
<1>0. /\ mgr[p] \in MgrFields /\ FlagsAgree(p, mgr[p]) /\ ~mgr[p].down
      /\ p \in Planners
  BY DEF IInv, TypeOK, AllFlagsAgree, StartWarmup, Running
<1>1. /\ m \in MgrFields /\ m.idx = mgr[p].idx /\ m.ready = mgr[p].ready
      /\ m.sync = mgr[p].sync /\ m.negative = mgr[p].negative
      /\ m.positive = mgr[p].positive /\ m.down = mgr[p].down
      /\ m.wss = mgr[p].wss /\ m.warmup
  BY <1>0 DEF MgrFields
<1>2. FlagsAgree(p, m) /\ ~mgr[p].negative /\ Locked(m)
  BY <1>0, <1>1 DEF FlagsAgree, Locked
<1>3. MovesOn(p, m, index[p], posMin[p])
  BY <1>1, <1>2, LocalCheckpointMovesOn
<1> QED BY <1>3 DEF StartWarmup, LocalStep

LEMMA StopWarmupMovesOn ==
  ASSUME IInv, NEW p \in Procs, StopWarmup(p)
  PROVE  \E m : /\ MovesOn(p, m, index[p], posMin[p])
                /\ Becomes(p, m, index[p], posMin[p]) /\ UNCHANGED said
<1> DEFINE m == [mgr[p] EXCEPT !.plan = "done", !.warmup = FALSE]
<1>0. mgr[p] \in MgrFields /\ FlagsAgree(p, mgr[p]) /\ ~mgr[p].down
  BY DEF IInv, TypeOK, AllFlagsAgree, StopWarmup, Running
<1>1. /\ m \in MgrFields /\ m.idx = mgr[p].idx /\ m.ready = mgr[p].ready
      /\ m.sync = mgr[p].sync /\ m.negative = mgr[p].negative
      /\ m.positive = mgr[p].positive /\ m.down = mgr[p].down
      /\ m.wss = mgr[p].wss /\ ~m.warmup
  BY <1>0 DEF MgrFields
<1>2. FlagsAgree(p, m) /\ ~mgr[p].negative
  BY <1>0, <1>1 DEF FlagsAgree
<1>3. MovesOn(p, Checkpoint(p, m, index[p]), index[p], posMin[p])
  BY <1>1, <1>2, LocalCheckpointMovesOn
<1> QED BY <1>3 DEF StopWarmup, LocalStep

(* A position that is news: the minimum is computed anew if and only if it *)
(* could have changed.                                                     *)
LEMMA NewPosMinIsExact ==
  ASSUME IInv, NEW p \in Procs, NEW q \in Procs, NEW pos \in 0..N,
         pos > index[p][q]
  PROVE  LET row == [index[p] EXCEPT ![q] = pos] IN
         NewPosMin(p, q, pos, row) = PosMin(row)
<1>1. index[p] \in [Procs -> -1..N] /\ posMin[p] = PosMin(index[p])
  BY DEF IInv, TypeOK, PosMinIsExact
<1>2. ASSUME index[p][q] >= 0 PROVE posMin[p] < pos
  <2>1. PosMin(index[p]) \in -1..N /\ PosMin(index[p]) <= index[p][q]
    BY <1>1, <1>2, PosMinIsSmallest DEF Known
  <2> QED BY <1>1, <2>1, PhasesAssumption
<1>3. index[p][q] \in Int
  BY <1>1, PhasesAssumption
<1> QED BY <1>2, <1>3 DEF NewPosMin

LEMMA DoPhaseSyncMovesOn ==
  ASSUME IInv, NEW l \in Links, NEW pos \in said[l], DoPhaseSync(l[2], l[1], pos)
  PROVE  \E m, row, min : /\ MovesOn(l[2], m, row, min)
                          /\ Becomes(l[2], m, row, min) /\ UNCHANGED said
<1> DEFINE p == l[2]
           q == l[1]
           news == pos > index[p][q]
           row  == IF news THEN [index[p] EXCEPT ![q] = pos] ELSE index[p]
           min  == IF news THEN NewPosMin(p, q, pos, row) ELSE posMin[p]
           m    == IF news THEN Unlocked(p, mgr[p], row, min) ELSE mgr[p]
           n    == ReachedByClients(p, m, row, min)
<1>0. p \in Procs /\ q \in Procs /\ <<q, p>> = l
  BY DEF Links, Procs
<1>1. /\ mgr \in [Procs -> MgrFields] /\ mgr[p] \in MgrFields
      /\ index[p] \in [Procs -> -1..N] /\ pos \in 0..N
  BY <1>0 DEF IInv, TypeOK, Positions
<1>2. ~mgr[p].down /\ mgr[p].idx >= 0 /\ FlagsAgree(p, mgr[p])
  BY <1>0 DEF DoPhaseSync, Running, IInv, AllFlagsAgree
<1>3. ~mgr[p].negative
  BY <1>2 DEF FlagsAgree
<1>4. MovesOn(p, mgr[p], index[p], posMin[p])
  BY <1>0, <1>3, StayingIsSafe
<1>5. Becomes(p, n, row, min) /\ UNCHANGED said
  BY DEF DoPhaseSync
<1>6. MovesOn(p, m, row, min) /\ ~m.negative
  <2>1. CASE ~news
    BY <1>3, <1>4, <2>1
  <2>2. CASE news
    <3>1. row = [index[p] EXCEPT ![q] = pos] /\ min = PosMin(row)
      BY <1>0, <1>1, <2>2, NewPosMinIsExact
    <3>2. /\ row \in [Procs -> -1..N]
          /\ \A x \in Procs :
               /\ index[p][x] <= row[x]
               /\ row[x] >= 0 => <<x, p>> \in Links /\ row[x] \in said[<<x, p>>]
      <4>1. row \in [Procs -> -1..N]
        BY <1>0, <1>1, <3>1, PhasesAssumption
      <4>2. row[q] = pos /\ \A x \in Procs \ {q} : row[x] = index[p][x]
        BY <1>0, <1>1, <3>1
      <4>3. \A x \in Procs : index[p][x] <= row[x]
        BY <1>1, <2>2, <4>2, PhasesAssumption
      <4>4. \A x \in Procs : row[x] >= 0 =>
                <<x, p>> \in Links /\ row[x] \in said[<<x, p>>]
        BY <1>0, <4>2 DEF IInv, KnownWasSaid
      <4> QED BY <4>1, <4>3, <4>4
    <3> HIDE DEF row, min
    <3>3. Known(index[p]) \subseteq Known(row) /\ q \in Known(row)
      BY <1>0, <1>1, <3>1, <3>2, PhasesAssumption DEF Known
    <3>4. mgr[p].idx \in Int /\ min \in Int /\ \A x \in Known(row) : min <= row[x] /\ row[x] \in Int
      <4>1. PosMin(row) \in -1..N /\ \A x \in Known(row) : PosMin(row) <= row[x]
        BY <3>2, PosMinIsSmallest
      <4> QED BY <1>1, <3>1, <3>2, <4>1, PhasesAssumption DEF MgrFields, Known
    <3>5. CASE ~(mgr[p].ready /\ PhaseSyncPos(mgr[p]) <= min /\ mgr[p].sync)
      <4>1. m = mgr[p]
        BY <2>2, <3>5 DEF Unlocked
      <4>2. mgr[p].sync => min < PhaseSyncPos(mgr[p])
        BY <1>2, <3>4, <3>5 DEF FlagsAgree, PhaseSyncPos
      <4>3. MovesSafely(p, mgr[p], row, min)
        <5>1. mgr[p].idx..(mgr[p].idx - 1) = {} /\ Known(row) # {}
          BY <3>3, <3>4
        <5>2. mgr[p].ready /\ ~mgr[p].sync => Waited(p, mgr[p].idx, row)
          BY DEF Waited
        <5> QED BY <1>3, <1>4, <3>1, <3>2, <3>3, <3>4, <5>1, <5>2 DEF MovesOn, MovesSafely
      <4> QED BY <1>3, <1>4, <4>1, <4>2, <4>3 DEF MovesOn
    <3>6. CASE mgr[p].ready /\ PhaseSyncPos(mgr[p]) <= min /\ mgr[p].sync
      <4> DEFINE u == [mgr[p] EXCEPT !.sync = FALSE]
      <4>1. m = Checkpoint(p, u, row)
        BY <2>2, <3>6 DEF Unlocked
      <4>2. /\ u \in MgrFields /\ u.idx = mgr[p].idx /\ u.ready = mgr[p].ready
            /\ ~u.sync /\ u.negative = mgr[p].negative
            /\ u.positive = mgr[p].positive /\ u.warmup = mgr[p].warmup
            /\ u.down = mgr[p].down /\ u.wss = mgr[p].wss
        BY <1>1 DEF MgrFields
      <4> HIDE DEF u
      <4>3. FlagsAgree(p, u) /\ PhaseSyncPos(u) = PhaseSyncPos(mgr[p])
        BY <1>2, <4>2 DEF FlagsAgree, PhaseSyncPos
      <4>4. Waited(p, u.idx, row)
        BY <3>4, <3>6, <4>2 DEF Waited, PhaseSyncPos
      <4>5. mgr[p].idx..(u.idx - 1) = {} /\ mgr[p].idx <= u.idx
            /\ PhaseSyncPos(mgr[p]) <= PhaseSyncPos(u)
        BY <3>4, <4>2, <4>3 DEF PhaseSyncPos
      <4>6. MovesSafely(p, u, row, min)
        BY <1>3, <3>1, <3>2, <3>3, <4>2, <4>3, <4>4, <4>5 DEF MovesSafely
      <4>7. MovesOn(p, m, row, min)
        BY <1>0, <1>1, <1>3, <4>1, <4>2, <4>6, CheckpointMovesOn
      <4>8. m.negative = u.negative
        BY <1>0, <3>2, <4>1, <4>2, <4>3, CheckpointMoves
      <4> QED BY <1>3, <4>2, <4>7, <4>8
    <3> QED BY <3>5, <3>6
  <2> QED BY <2>1, <2>2
<1> HIDE DEF m, row, min
<1>7. MovesOn(p, n, row, min)
  <2>1. CASE ~(p \in Servers /\ PhaseSyncPos(m) < min /\ ~m.positive)
    BY <1>6, <2>1 DEF ReachedByClients
  <2>2. CASE p \in Servers /\ PhaseSyncPos(m) < min /\ ~m.positive
    <3> DEFINE r == [m EXCEPT !.positive = TRUE]
    <3>1. n = Checkpoint(p, r, row)
      BY <2>2 DEF ReachedByClients
    <3>2. /\ m \in MgrFields /\ FlagsAgree(p, m) /\ row \in [Procs -> -1..N]
          /\ min = PosMin(row) /\ mgr[p].idx <= m.idx
      BY <1>6 DEF MovesOn, MovesSafely
    <3>3. /\ r \in MgrFields /\ r.idx = m.idx /\ r.ready = m.ready
          /\ r.sync = m.sync /\ r.negative = m.negative /\ r.positive
          /\ r.warmup = m.warmup /\ r.down = m.down /\ r.wss = m.wss
      BY <3>2 DEF MgrFields
    <3>4. m.idx \in 0..(N - 1)
      <4>1. min \in -1..N
        BY <3>2, PosMinIsSmallest
      <4>2. m.idx \in Int /\ mgr[p].idx \in Int
        BY <1>1, <3>2, PhasesAssumption DEF MgrFields
      <4> QED BY <1>2, <2>2, <3>2, <4>1, <4>2, PhasesAssumption DEF PhaseSyncPos
    <3> HIDE DEF r
    <3>5. FlagsAgree(p, r) /\ PhaseSyncPos(r) = PhaseSyncPos(m)
      BY <3>2, <3>3, <3>4 DEF FlagsAgree, PhaseSyncPos
    <3>6. MovesSafely(p, r, row, min) /\ (r.sync => min < PhaseSyncPos(r))
      BY <1>6, <3>3, <3>5 DEF MovesOn, MovesSafely
    <3> QED BY <1>0, <1>1, <1>6, <3>1, <3>3, <3>6, CheckpointMovesOn
  <2> QED BY <2>1, <2>2
<1> QED BY <1>5, <1>7

-----------------------------------------------------------------------------
(* A move preserves every part of the invariant.                           *)

LEMMA MovePrimes ==
  ASSUME TypeOK, NEW p \in Procs, NEW m, NEW row, NEW min,
         Becomes(p, m, row, min)
  PROVE  /\ mgr'[p] = m /\ index'[p] = row /\ posMin'[p] = min
         /\ \A q \in Procs \ {p} : /\ mgr'[q] = mgr[q] /\ index'[q] = index[q]
                                   /\ posMin'[q] = posMin[q]
                                   /\ founders'[q] = founders[q]
         /\ founders'[p] = IF mgr[p].idx <= 0 /\ m.idx > 0 THEN Known(row) ELSE founders[p]
  BY DEF TypeOK, Becomes

LEMMA MoveKeepsTypes ==
  ASSUME IInv, NEW p \in Procs, NEW m, NEW row, NEW min,
         MovesOn(p, m, row, min), Becomes(p, m, row, min), UNCHANGED said
  PROVE  TypeOK'
<1>1. m \in MgrFields /\ row \in [Procs -> -1..N] /\ min = PosMin(row)
  BY DEF MovesOn, MovesSafely
<1>2. min \in -1..N
  BY <1>1, PosMinIsSmallest
<1>3. mgr' \in [Procs -> MgrFields] /\ index' \in [Procs -> [Procs -> -1..N]]
  BY <1>1 DEF IInv, TypeOK, Becomes
<1>4. posMin' \in [Procs -> -1..N]
  BY <1>2 DEF IInv, TypeOK, Becomes
<1>5. founders' \in [Procs -> SUBSET Procs]
  <2>1. Known(row) \in SUBSET Procs
    BY DEF Known
  <2> QED BY <2>1 DEF IInv, TypeOK, Becomes
<1> QED BY <1>3, <1>4, <1>5 DEF TypeOK, IInv

(* Positions never go back.                                                *)
LEMMA MoveKeepsPositions ==
  ASSUME IInv, NEW p \in Procs, NEW m, NEW row, NEW min,
         MovesOn(p, m, row, min), Becomes(p, m, row, min), UNCHANGED said
  PROVE  \A q \in Procs : /\ PhaseSyncPos(mgr[q]) <= PhaseSyncPos(mgr'[q])
                          /\ PhaseSyncPos(mgr[q]) \in Int
                          /\ PhaseSyncPos(mgr'[q]) \in Int
                          /\ \A x \in Procs : /\ index[q][x] <= index'[q][x]
                                              /\ index[q][x] \in Int
                                              /\ index'[q][x] \in Int
<1>1. /\ mgr'[p] = m /\ index'[p] = row
      /\ \A q \in Procs \ {p} : mgr'[q] = mgr[q] /\ index'[q] = index[q]
  BY MovePrimes DEF IInv
<1>2. \A q \in Procs : /\ mgr[q] \in MgrFields /\ mgr'[q] \in MgrFields
                       /\ index[q] \in [Procs -> -1..N] /\ index'[q] \in [Procs -> -1..N]
  BY MoveKeepsTypes DEF IInv, TypeOK
<1>3. \A q \in Procs : mgr[q].idx \in Int /\ mgr'[q].idx \in Int
  BY <1>2, PhasesAssumption DEF MgrFields
<1>4. \A q \in Procs : PhaseSyncPos(mgr[q]) \in Int /\ PhaseSyncPos(mgr'[q]) \in Int
  BY <1>3 DEF PhaseSyncPos
<1>5. \A q, x \in Procs : index[q][x] \in Int /\ index'[q][x] \in Int
  BY <1>2, PhasesAssumption
<1>6. PhaseSyncPos(mgr[p]) <= PhaseSyncPos(m) /\ \A x \in Procs : index[p][x] <= row[x]
  BY DEF MovesOn, MovesSafely
<1> QED BY <1>1, <1>4, <1>5, <1>6

LEMMA MoveKeepsLocalParts ==
  ASSUME IInv, NEW p \in Procs, NEW m, NEW row, NEW min,
         MovesOn(p, m, row, min), Becomes(p, m, row, min), UNCHANGED said
  PROVE  PosMinIsExact' /\ HeldForAReason' /\ AllFlagsAgree' /\ ReadyKnowsSomebody'
<1>1. /\ mgr'[p] = m /\ index'[p] = row /\ posMin'[p] = min
      /\ \A q \in Procs \ {p} : /\ mgr'[q] = mgr[q] /\ index'[q] = index[q]
                                /\ posMin'[q] = posMin[q]
  BY MovePrimes DEF IInv
<1>2. FlagsAgree(p, m) /\ min = PosMin(row)
      /\ (m.ready => Locked(m) /\ Known(row) # {})
      /\ (m.sync => min < PhaseSyncPos(m))
  BY DEF MovesOn, MovesSafely
<1>3. PosMinIsExact'
  BY <1>1, <1>2 DEF IInv, PosMinIsExact
<1>4. HeldForAReason'
  BY <1>1, <1>2 DEF IInv, HeldForAReason, FlagsAgree
<1>5. AllFlagsAgree'
  BY <1>1, <1>2 DEF IInv, AllFlagsAgree
<1>6. ReadyKnowsSomebody'
  BY <1>1, <1>2 DEF IInv, ReadyKnowsSomebody
<1> QED BY <1>3, <1>4, <1>5, <1>6

LEMMA MoveKeepsBeliefs ==
  ASSUME IInv, NEW p \in Procs, NEW m, NEW row, NEW min,
         MovesOn(p, m, row, min), Becomes(p, m, row, min), UNCHANGED said
  PROVE  BeliefsAreTrue' /\ KnownWasSaid'
<1>1. /\ index'[p] = row /\ said' = said
      /\ \A q \in Procs \ {p} : index'[q] = index[q]
  BY MovePrimes DEF IInv
<1>2. \A q \in Procs : row[q] >= 0 => <<q, p>> \in Links /\ row[q] \in said[<<q, p>>]
  BY DEF MovesOn, MovesSafely
<1>3. KnownWasSaid'
  BY <1>1, <1>2 DEF IInv, KnownWasSaid
<1>4. \A l \in Links : l[1] \in Procs /\ said[l] \subseteq 0..N
  BY DEF Links, Procs, IInv, TypeOK, Positions
<1>5. \A l \in Links : \A pos \in said'[l] : pos <= PhaseSyncPos(mgr'[l[1]])
  <2> SUFFICES ASSUME NEW l \in Links, NEW pos \in said[l]
               PROVE  pos <= PhaseSyncPos(mgr'[l[1]])
    BY <1>1
  <2>1. /\ pos <= PhaseSyncPos(mgr[l[1]]) /\ pos \in Int
        /\ PhaseSyncPos(mgr[l[1]]) <= PhaseSyncPos(mgr'[l[1]])
        /\ PhaseSyncPos(mgr[l[1]]) \in Int /\ PhaseSyncPos(mgr'[l[1]]) \in Int
    BY <1>4, MoveKeepsPositions, PhasesAssumption DEF IInv, BeliefsAreTrue
  <2> QED BY <2>1
<1>6. ASSUME NEW x \in Procs, NEW q \in Procs
      PROVE  index'[x][q] <= PhaseSyncPos(mgr'[q])
  <2>1. CASE index'[x][q] >= 0
    <3>1. <<q, x>> \in Links /\ index'[x][q] \in said'[<<q, x>>]
      BY <1>3, <2>1 DEF KnownWasSaid
    <3>2. <<q, x>>[1] = q
      OBVIOUS
    <3> QED BY <1>5, <3>1, <3>2
  <2>2. CASE ~(index'[x][q] >= 0)
    <3>1. mgr'[q] \in MgrFields /\ index'[x][q] \in -1..N
      BY MoveKeepsTypes DEF TypeOK
    <3>2. PhaseSyncPos(mgr'[q]) \in Int /\ PhaseSyncPos(mgr'[q]) >= -1
      BY <3>1, PhasesAssumption DEF PhaseSyncPos, MgrFields
    <3> QED BY <2>2, <3>1, <3>2, PhasesAssumption
  <2> QED BY <2>1, <2>2
<1> QED BY <1>3, <1>5, <1>6 DEF BeliefsAreTrue

LEMMA MoveKeepsFounders ==
  ASSUME IInv, NEW p \in Procs, NEW m, NEW row, NEW min,
         MovesOn(p, m, row, min), Becomes(p, m, row, min), UNCHANGED said
  PROVE  FoundersAreKnown' /\ ServersSpeakForFounders' /\ FoundersWereWaitedFor'
<1>1. /\ mgr'[p] = m /\ index'[p] = row /\ said' = said
      /\ \A q \in Procs \ {p} : /\ mgr'[q] = mgr[q] /\ index'[q] = index[q]
                                /\ founders'[q] = founders[q]
      /\ founders'[p] = IF mgr[p].idx <= 0 /\ m.idx > 0 THEN Known(row) ELSE founders[p]
  BY MovePrimes DEF IInv
<1>2. /\ mgr[p].idx \in Int /\ m.idx \in Int /\ mgr[p].idx <= m.idx
      /\ index[p] \in [Procs -> Int] /\ row \in [Procs -> Int]
      /\ \A q \in Procs : index[p][q] <= row[q]
  <2>1. /\ mgr[p] \in MgrFields /\ m \in MgrFields /\ mgr[p].idx <= m.idx
        /\ index[p] \in [Procs -> -1..N] /\ row \in [Procs -> -1..N]
        /\ \A q \in Procs : index[p][q] <= row[q]
    BY DEF IInv, TypeOK, MovesOn, MovesSafely
  <2>2. mgr[p].idx \in Int /\ m.idx \in Int
    BY <2>1, PhasesAssumption DEF MgrFields
  <2>3. index[p] \in [Procs -> Int] /\ row \in [Procs -> Int]
    BY <2>1, PhasesAssumption
  <2> QED BY <2>1, <2>2, <2>3
<1>3. Known(index[p]) \subseteq Known(row)
  BY <1>2 DEF Known
<1>4. /\ founders'[p] \subseteq Known(row)
      /\ m.idx <= 0 => founders'[p] = {}
      /\ mgr[p].idx >= 1 => founders'[p] = founders[p]
      /\ founders[p] \subseteq Known(index[p])
      /\ mgr[p].idx <= 0 => founders[p] = {}
  BY <1>1, <1>2, <1>3 DEF IInv, FoundersAreKnown
<1>5. FoundersAreKnown'
  BY <1>1, <1>4 DEF IInv, FoundersAreKnown
<1>6. ServersSpeakForFounders'
  <2> SUFFICES ASSUME NEW l \in Links, l[1] \in Servers,
                      NEW pos \in said[l], pos >= 2,
                      NEW d \in founders'[l[1]]
               PROVE  pos <= PhaseSyncPos(mgr'[d])
    BY <1>1 DEF ServersSpeakForFounders
  <2>1. l[1] \in Procs /\ pos \in Int
    BY PhasesAssumption DEF Procs, IInv, TypeOK, Positions
  <2>2. pos <= PhaseSyncPos(mgr[l[1]]) /\ mgr[l[1]].idx \in Int
    BY <2>1, PhasesAssumption DEF IInv, BeliefsAreTrue, TypeOK, MgrFields
  <2>3. mgr[l[1]].idx >= 1
    BY <2>1, <2>2 DEF PhaseSyncPos
  <2>4. d \in founders[l[1]] /\ d \in Procs
    BY <1>1, <1>4, <2>1, <2>3 DEF IInv, TypeOK
  <2>5. pos <= PhaseSyncPos(mgr[d])
    BY <2>4 DEF IInv, ServersSpeakForFounders
  <2> QED BY <2>1, <2>4, <2>5, MoveKeepsPositions
<1>7. ASSUME NEW q \in founders'[p], mgr'[p].ready, ~mgr'[p].sync, mgr'[p].idx >= 1
      PROVE  index'[p][q] >= mgr'[p].idx + 1
  <2>1. Waited(p, m.idx, row) /\ q \in Known(row) /\ q \in Procs
    BY <1>1, <1>4, <1>7 DEF MovesOn, MovesSafely, Known
  <2>2. CASE \A x \in Known(row) : row[x] >= m.idx + 1
    BY <1>1, <2>1, <2>2
  <2>3. CASE m.idx = mgr[p].idx /\ mgr[p].ready /\ ~mgr[p].sync
    <3>1. q \in founders[p] /\ mgr[p].idx >= 1
      BY <1>1, <1>4, <1>7, <2>3
    <3>2. index[p][q] >= mgr[p].idx + 1
      BY <2>3, <3>1 DEF IInv, FoundersWereWaitedFor
    <3> QED BY <1>1, <1>2, <2>1, <2>3, <3>2
  <2> QED BY <2>1, <2>2, <2>3 DEF Waited
<1>8. ASSUME NEW q \in founders'[p], mgr'[p].idx >= 2, mgr'[p].idx - 1 \in Synced,
             ~mgr'[p].negative
      PROVE  index'[p][q] >= mgr'[p].idx
  <2>0. q \in Known(row) /\ q \in Procs
    BY <1>4 DEF Known
  <2>1. CASE m.idx = mgr[p].idx
    <3>1. ~mgr[p].negative /\ q \in founders[p]
      BY <1>1, <1>4, <1>8, <2>1 DEF MovesOn, MovesSafely
    <3>2. index[p][q] >= mgr[p].idx
      BY <1>1, <1>8, <2>1, <3>1 DEF IInv, FoundersWereWaitedFor
    <3> QED BY <1>1, <1>2, <2>0, <2>1, <3>2
  <2>2. CASE m.idx # mgr[p].idx
    <3>1. m.idx - 1 \in mgr[p].idx..(m.idx - 1)
      BY <1>2, <2>2
    <3>2. Waited(p, m.idx - 1, row)
      BY <1>1, <1>8, <3>1 DEF MovesOn, MovesSafely
    <3>3. CASE \A x \in Known(row) : row[x] >= m.idx - 1 + 1
      BY <1>1, <1>2, <2>0, <3>3
    <3>4. CASE m.idx - 1 = mgr[p].idx /\ mgr[p].ready /\ ~mgr[p].sync
      <4>1. mgr[p].idx >= 1 /\ q \in founders[p]
        BY <1>1, <1>2, <1>4, <1>8, <3>4
      <4>2. index[p][q] >= mgr[p].idx + 1
        BY <3>4, <4>1 DEF IInv, FoundersWereWaitedFor
      <4> QED BY <1>1, <1>2, <2>0, <3>4, <4>2
    <3> QED BY <3>2, <3>3, <3>4 DEF Waited
  <2> QED BY <2>1, <2>2
<1>9. FoundersWereWaitedFor'
  BY <1>1, <1>7, <1>8 DEF IInv, FoundersWereWaitedFor
<1> QED BY <1>5, <1>6, <1>9

LEMMA MoveKeepsIInv ==
  ASSUME IInv, NEW p \in Procs, NEW m, NEW row, NEW min,
         MovesOn(p, m, row, min), Becomes(p, m, row, min), UNCHANGED said
  PROVE  IInv'
  BY MoveKeepsTypes, MoveKeepsLocalParts, MoveKeepsBeliefs, MoveKeepsFounders DEF IInv

-----------------------------------------------------------------------------
(* A message preserves the invariant.                                      *)

(* No process says a position it has not reached, and a server none that   *)
(* some group it knows of has not told it.                                 *)
LEMMA SaysWhatIsTrue ==
  ASSUME IInv, NEW p \in Procs
  PROVE  /\ SyncPosToSend(p) \in -1..N
         /\ SyncPosToSend(p) <= PhaseSyncPos(mgr[p])
         /\ p \in Servers => \A d \in Known(index[p]) : SyncPosToSend(p) <= index[p][d]
<1>1. /\ mgr[p] \in MgrFields /\ FlagsAgree(p, mgr[p]) /\ index[p] \in [Procs -> -1..N]
      /\ posMin[p] = PosMin(index[p])
  BY DEF IInv, TypeOK, AllFlagsAgree, PosMinIsExact
<1>2. PhaseSyncPos(mgr[p]) \in -1..N
  BY <1>1, PhasesAssumption DEF PhaseSyncPos, MgrFields, FlagsAgree
<1>3. posMin[p] \in -1..N /\ \A d \in Known(index[p]) : posMin[p] <= index[p][d]
  BY <1>1, PosMinIsSmallest
<1>4. CASE p \in Clients
  BY <1>2, <1>4, ProcsAssumption, PhasesAssumption DEF SyncPosToSend
<1>5. CASE p \notin Clients
  <2> DEFINE S == {posMin[p], PhaseSyncPos(mgr[p])}
  <2>1. \E x \in S : \A y \in S : x <= y
    BY <1>2, <1>3, PhasesAssumption
  <2>2. Min(S) \in S /\ \A y \in S : Min(S) <= y
    BY <2>1 DEF Min
  <2>3. SyncPosToSend(p) = Min(S)
    BY <1>5 DEF SyncPosToSend
  <2>4. SyncPosToSend(p) \in -1..N /\ SyncPosToSend(p) <= PhaseSyncPos(mgr[p])
        /\ SyncPosToSend(p) <= posMin[p]
    BY <1>2, <1>3, <2>2, <2>3
  <2>5. \A d \in Known(index[p]) : index[p][d] \in -1..N
    BY <1>1 DEF Known
  <2> QED BY <1>3, <2>4, <2>5, PhasesAssumption
<1> QED BY <1>4, <1>5

LEMMA PutPhaseSyncPosKeepsIInv ==
  ASSUME IInv, NEW l \in Links, PutPhaseSyncPos(l[1], l[2])
  PROVE  IInv'
<1> DEFINE p == l[1]
           pos == SyncPosToSend(p)
<1>0. p \in Procs /\ <<l[1], l[2]>> = l /\ said \in [Links -> SUBSET (0..N)]
  BY DEF Links, Procs, IInv, TypeOK, Positions
<1>1. /\ said' = [said EXCEPT ![l] = @ \cup {pos}] /\ pos >= 0
      /\ mgr' = mgr /\ index' = index /\ posMin' = posMin /\ founders' = founders
  BY <1>0 DEF PutPhaseSyncPos
<1>2. /\ pos \in -1..N /\ pos <= PhaseSyncPos(mgr[p])
      /\ p \in Servers => \A d \in Known(index[p]) : pos <= index[p][d]
  BY <1>0, SaysWhatIsTrue
<1> HIDE DEF pos
<1>3. pos \in 0..N
  BY <1>1, <1>2, PhasesAssumption
<1>4. /\ said'[l] = said[l] \cup {pos}
      /\ \A k \in Links \ {l} : said'[k] = said[k]
  BY <1>0, <1>1
<1>5. said' \in [Links -> SUBSET (0..N)]
  BY <1>0, <1>1, <1>3
<1>6. TypeOK'
  BY <1>1, <1>5 DEF IInv, TypeOK, Positions
<1>7. BeliefsAreTrue'
  BY <1>1, <1>2, <1>4 DEF IInv, BeliefsAreTrue
<1>8. KnownWasSaid'
  BY <1>1, <1>4 DEF IInv, KnownWasSaid
<1>9. ServersSpeakForFounders'
  <2> SUFFICES ASSUME NEW k \in Links, k[1] \in Servers,
                      NEW x \in said'[k], x >= 2,
                      NEW d \in founders[k[1]]
               PROVE  x <= PhaseSyncPos(mgr[d])
    BY <1>1 DEF ServersSpeakForFounders
  <2>1. CASE x \in said[k]
    BY <2>1 DEF IInv, ServersSpeakForFounders
  <2>2. CASE k = l /\ x = pos
    <3>1. d \in Known(index[p]) /\ d \in Procs
      BY <1>0, <2>2 DEF IInv, FoundersAreKnown, Known
    <3>2. pos <= index[p][d] /\ index[p][d] <= PhaseSyncPos(mgr[d])
      BY <1>0, <1>2, <2>2, <3>1 DEF IInv, BeliefsAreTrue
    <3>3. index[p][d] \in Int /\ mgr[d].idx \in Int
      BY <1>0, <3>1, PhasesAssumption DEF IInv, TypeOK, MgrFields
    <3> QED BY <1>3, <2>2, <3>2, <3>3, PhasesAssumption DEF PhaseSyncPos
  <2> QED BY <1>4, <2>1, <2>2
<1>10. PosMinIsExact' /\ HeldForAReason' /\ AllFlagsAgree' /\ ReadyKnowsSomebody'
       /\ FoundersAreKnown' /\ FoundersWereWaitedFor'
  BY <1>1 DEF IInv, PosMinIsExact, HeldForAReason, AllFlagsAgree, ReadyKnowsSomebody,
              FoundersAreKnown, FoundersWereWaitedFor
<1> QED BY <1>6, <1>7, <1>8, <1>9, <1>10 DEF IInv

-----------------------------------------------------------------------------
(* The invariant holds.                                                    *)

(* How processes start: a client may have passed phases already, but it is *)
(* not ready to leave the one it is in, because it knows of nobody.        *)
LEMMA StartingPoints ==
  ASSUME NEW p \in Procs
  PROVE  LET m == IF p \in Clients THEN StartServices(p) ELSE Waiting IN
         /\ m \in MgrFields /\ FlagsAgree(p, m)
         /\ ~m.ready /\ ~m.sync
         /\ m.wss => m.idx \in WaitWss /\ m.wssState = "wait"
<1>1. /\ Waiting \in MgrFields /\ FlagsAgree(p, Waiting)
      /\ Waiting.idx = -1 /\ Waiting.wssState = "none"
      /\ ~Waiting.ready /\ ~Waiting.sync /\ ~Waiting.wss /\ ~Waiting.negative
  BY PhasesAssumption DEF Waiting, MgrFields, FlagsAgree
<1> DEFINE row == [q \in Procs |-> -1]
           n == NextPhase(p, Waiting, row)
<1>2. row \in [Procs -> -1..N] /\ Known(row) = {} /\ Waiting.idx \in -1..(N - 1)
  BY <1>1, PhasesAssumption DEF Known
<1>3. /\ n \in MgrFields /\ FlagsAgree(p, n) /\ n.idx \in 0..N
      /\ n.wss = LocksForWss(n.idx, Waiting)
      /\ n.ready => \E q \in Known(row) : row[q] < n.idx + 1
  BY <1>1, <1>2, NextPhaseStops
<1> HIDE DEF n
<1>4. ~n.ready /\ ~n.sync /\ ~n.wss
  BY <1>1, <1>2, <1>3 DEF FlagsAgree, LocksForWss
<1>5. CASE p \in Clients /\ p \notin Freezers
  <2>1. StartServices(p) = n
    BY <1>5 DEF StartServices, n
  <2> QED BY <1>3, <1>4, <1>5, <2>1
<1>6. CASE p \in Clients /\ p \in Freezers
  <2> DEFINE Wss == n.idx \in WaitWss
             f == [n EXCEPT !.wss = Wss, !.wssState = "wait"]
  <2>1. StartServices(p) = f
    BY <1>6 DEF StartServices, n
  <2>2. Wss \in BOOLEAN
    OBVIOUS
  <2> HIDE DEF Wss
  <2>3. f \in MgrFields
    BY <1>3, <2>2 DEF MgrFields
  <2>4. /\ f.idx = n.idx /\ f.wss = Wss /\ f.wssState = "wait" /\ f.ready = n.ready
        /\ f.sync = n.sync /\ f.positive = n.positive /\ f.warmup = n.warmup
        /\ f.negative = n.negative /\ f.down = n.down
    BY <1>3 DEF MgrFields
  <2> HIDE DEF f
  <2>5. FlagsAgree(p, f)
    BY <1>3, <1>4, <2>4 DEF FlagsAgree
  <2> QED BY <1>4, <1>6, <2>1, <2>3, <2>4, <2>5 DEF Wss
<1>7. CASE p \notin Clients
  BY <1>1, <1>7
<1> QED BY <1>5, <1>6, <1>7

LEMMA InitIInv == Init => IInv
<1> SUFFICES ASSUME Init PROVE IInv
  OBVIOUS
<1>1. \A p \in Procs : /\ mgr[p] \in MgrFields /\ FlagsAgree(p, mgr[p])
                       /\ ~mgr[p].ready /\ ~mgr[p].sync
  BY StartingPoints DEF Init
<1>3. /\ mgr \in [Procs -> MgrFields]
      /\ index = [p \in Procs |-> [q \in Procs |-> -1]]
      /\ posMin = [p \in Procs |-> -1]
      /\ said = [l \in Links |-> {}] /\ founders = [p \in Procs |-> {}]
  <2>1. mgr = [p \in Procs |-> mgr[p]]
    BY DEF Init
  <2> QED BY <1>1, <2>1 DEF Init
<1>4. TypeOK
  BY <1>3, PhasesAssumption DEF TypeOK
<1>5. \A p \in Procs : Known(index[p]) = {}
  BY <1>3 DEF Known
<1>6. PosMinIsExact
  BY <1>3, <1>5 DEF PosMinIsExact, PosMin
<1>7. BeliefsAreTrue
  <2>1. \A p \in Procs : PhaseSyncPos(mgr[p]) \in Int /\ PhaseSyncPos(mgr[p]) >= -1
    BY <1>1, PhasesAssumption DEF PhaseSyncPos, MgrFields
  <2>2. \A p, q \in Procs : index[p][q] <= PhaseSyncPos(mgr[q])
    BY <1>3, <2>1
  <2> QED BY <1>3, <2>2 DEF BeliefsAreTrue
<1>8. HeldForAReason /\ AllFlagsAgree /\ ReadyKnowsSomebody
  BY <1>1 DEF HeldForAReason, AllFlagsAgree, ReadyKnowsSomebody
<1>9. KnownWasSaid
  BY <1>3 DEF KnownWasSaid
<1>10. FoundersAreKnown /\ FoundersWereWaitedFor /\ ServersSpeakForFounders
  BY <1>3 DEF FoundersAreKnown, FoundersWereWaitedFor, ServersSpeakForFounders
<1> QED BY <1>4, <1>6, <1>7, <1>8, <1>9, <1>10 DEF IInv

(* Every step moves one process on, sends a message or changes nothing.    *)
LEMMA StepsMoveOn ==
  ASSUME IInv, [Next]_vars
  PROVE  \/ \E p \in Procs : \E m, row, min :
              MovesOn(p, m, row, min) /\ Becomes(p, m, row, min) /\ UNCHANGED said
         \/ \E l \in Links : PutPhaseSyncPos(l[1], l[2])
         \/ UNCHANGED vars
<1>1. ASSUME NEW p \in Servers, StopTrafficWaiting(p)
      PROVE  \E m, row, min :
               MovesOn(p, m, row, min) /\ Becomes(p, m, row, min) /\ UNCHANGED said
  BY <1>1, StopTrafficWaitingMovesOn
<1>2. ASSUME NEW p \in Procs,
             \/ GoalReached(p) \/ NegativeGoalReached(p) \/ WssFreeze(p)
             \/ StartWarmup(p) \/ StopWarmup(p)
      PROVE  \E m, row, min :
               MovesOn(p, m, row, min) /\ Becomes(p, m, row, min) /\ UNCHANGED said
  BY <1>2, GoalReachedMovesOn, NegativeGoalReachedMovesOn, WssFreezeMovesOn,
     StartWarmupMovesOn, StopWarmupMovesOn
<1>3. ASSUME NEW l \in Links, NEW pos \in said[l], DoPhaseSync(l[2], l[1], pos)
      PROVE  \E p \in Procs : \E m, row, min :
               MovesOn(p, m, row, min) /\ Becomes(p, m, row, min) /\ UNCHANGED said
  <2>1. l[2] \in Procs
    BY DEF Links, Procs
  <2> QED BY <1>3, <2>1, DoPhaseSyncMovesOn
<1>4. Servers \subseteq Procs
  BY DEF Procs
<1> QED BY <1>1, <1>2, <1>3, <1>4 DEF Next

LEMMA NextIInv == IInv /\ [Next]_vars => IInv'
<1> SUFFICES ASSUME IInv, [Next]_vars PROVE IInv'
  OBVIOUS
<1>1. CASE UNCHANGED vars
  BY <1>1 DEF vars, IInv, TypeOK, PosMinIsExact, BeliefsAreTrue, HeldForAReason,
              AllFlagsAgree, KnownWasSaid, ReadyKnowsSomebody, FoundersAreKnown,
              ServersSpeakForFounders, FoundersWereWaitedFor
<1> QED BY <1>1, StepsMoveOn, MoveKeepsIInv, PutPhaseSyncPosKeepsIInv

LEMMA SpecIInv == Spec => []IInv
  BY InitIInv, NextIInv, PTL DEF Spec

(* The phase managers and the synchronization index keep their types: no   *)
(* process passes the last phase.                                          *)
THEOREM PhasesTypeOK == Spec => []TypeOK
<1>1. IInv => TypeOK
  BY DEF IInv
<1> QED BY <1>1, SpecIInv, PTL

(* The minimum that notePhaseSync updates only when it must is always the  *)
(* smallest position in the index, whatever the order of arrivals.         *)
THEOREM MinimumIsExact == Spec => []PosMinIsExact
<1>1. IInv => PosMinIsExact
  BY DEF IInv
<1> QED BY <1>1, SpecIInv, PTL

(* A position that was said or believed was reached, however late, often   *)
(* and out of order the network delivers it.                               *)
THEOREM NobodyLooksReadyTooEarly == Spec => []BeliefsAreTrue
<1>1. IInv => BeliefsAreTrue
  BY DEF IInv
<1> QED BY <1>1, SpecIInv, PTL

(* A phase that is held for synchronization waits for somebody who is      *)
(* behind, and no phase that is ready to stop is left without a lock.      *)
THEOREM NoUnlockIsMissed == Spec => []HeldForAReason
<1>1. IInv => HeldForAReason
  BY DEF IInv
<1> QED BY <1>1, SpecIInv, PTL

LEMMA FoundersKeepStep == IInv => ClientsInStep
<1> SUFFICES ASSUME IInv, NEW c \in Clients, NEW d \in Clients, NEW s \in founders[c],
                    d \in founders[s], mgr[c].idx >= 2, mgr[c].idx - 1 \in Synced,
                    ~mgr[c].negative
             PROVE  PhaseSyncPos(mgr[d]) >= mgr[c].idx
  BY DEF ClientsInStep
<1>1. c \in Procs /\ d \in Procs /\ s \in Procs
  BY DEF Procs, IInv, TypeOK
<1>2. index[c][s] >= mgr[c].idx
  BY <1>1 DEF IInv, FoundersWereWaitedFor
<1>3. index[c][s] \in Int /\ mgr[c].idx \in Int /\ mgr[d].idx \in Int
  BY <1>1, PhasesAssumption DEF IInv, TypeOK, MgrFields
<1>4. <<s, c>> \in Links /\ index[c][s] \in said[<<s, c>>]
  BY <1>1, <1>2, <1>3 DEF IInv, KnownWasSaid
<1>5. s \in Servers /\ <<s, c>>[1] = s
  BY <1>4, ProcsAssumption DEF Links
<1>6. index[c][s] <= PhaseSyncPos(mgr[d])
  BY <1>2, <1>3, <1>4, <1>5 DEF IInv, ServersSpeakForFounders
<1> QED BY <1>2, <1>3, <1>6 DEF PhaseSyncPos

(* Clients that never hear of each other stay in step through a server     *)
(* they knew early, although positions are only ever relayed.              *)
THEOREM ClientsStayInStep == Spec => []ClientsInStep
  BY SpecIInv, FoundersKeepStep, PTL

-----------------------------------------------------------------------------
(* Phases implements PhaseBarrier if a warm-up plan cannot outlast the     *)
(* synchronization of a phase while a server is heard of for the first     *)
(* time: if there are no plans, or if all clients use one server.  (A      *)
(* phase that is ready does not look for others again.)                    *)
NoLateServer == Planners = {} \/ \A s, t \in Servers : s = t

AllWereWaitedFor ==
  \A p \in Procs : mgr[p].ready /\ ~mgr[p].sync =>
    \A q \in Known(index[p]) : index[p][q] >= mgr[p].idx + 1

LEMMA WaitedIsForAll ==
  ASSUME NoLateServer, IInv, AllWereWaitedFor, NEW p \in Procs,
         NEW m, NEW row, NEW min, MovesOn(p, m, row, min), NEW j, Waited(p, j, row)
  PROVE  \A q \in Known(row) : row[q] >= j + 1
<1>1. CASE \A q \in Known(row) : row[q] >= j + 1
  BY <1>1
<1>2. CASE j = mgr[p].idx /\ mgr[p].ready /\ ~mgr[p].sync
  <2>1. Known(index[p]) # {} /\ Locked(mgr[p]) /\ FlagsAgree(p, mgr[p])
    BY <1>2 DEF IInv, ReadyKnowsSomebody, HeldForAReason, AllFlagsAgree
  <2>2. p \in Planners
    BY <1>2, <2>1 DEF Locked, FlagsAgree
  <2>3. p \in Clients /\ p \notin Servers /\ \A s, t \in Servers : s = t
    BY <2>2, ProcsAssumption DEF NoLateServer
  <2>4. \A q \in Procs : <<q, p>> \in Links => q \in Servers
    BY <2>3 DEF Links
  <2>5. /\ row \in [Procs -> -1..N] /\ index[p] \in [Procs -> -1..N]
        /\ \A q \in Procs : /\ index[p][q] <= row[q]
                            /\ row[q] >= 0 => <<q, p>> \in Links
                            /\ index[p][q] >= 0 => <<q, p>> \in Links
    BY DEF MovesOn, MovesSafely, IInv, TypeOK, KnownWasSaid
  <2>6. Known(row) \subseteq Known(index[p])
    BY <2>1, <2>3, <2>4, <2>5 DEF Known
  <2>7. \A q \in Known(row) : index[p][q] >= j + 1
    BY <1>2, <2>6 DEF AllWereWaitedFor
  <2>8. mgr[p].idx \in Int
    BY PhasesAssumption DEF IInv, TypeOK, MgrFields
  <2>9. ASSUME NEW q \in Known(row)
        PROVE  index[p][q] \in Int /\ row[q] \in Int /\ index[p][q] <= row[q]
    <3>1. q \in Procs
      BY DEF Known
    <3>2. index[p][q] \in -1..N /\ row[q] \in -1..N
      BY <2>5, <3>1
    <3>3. index[p][q] <= row[q]
      BY <2>5, <3>1
    <3> QED BY <3>2, <3>3, PhasesAssumption
  <2> QED BY <1>2, <2>7, <2>8, <2>9
<1> QED BY <1>1, <1>2 DEF Waited

LEMMA NextAllWereWaitedFor ==
  ASSUME NoLateServer
  PROVE  IInv /\ AllWereWaitedFor /\ [Next]_vars => AllWereWaitedFor'
<1> SUFFICES ASSUME IInv, AllWereWaitedFor, [Next]_vars PROVE AllWereWaitedFor'
  OBVIOUS
<1>1. ASSUME NEW p \in Procs, NEW m, NEW row, NEW min,
             MovesOn(p, m, row, min), Becomes(p, m, row, min)
      PROVE  AllWereWaitedFor'
  <2>1. /\ mgr'[p] = m /\ index'[p] = row
        /\ \A q \in Procs \ {p} : mgr'[q] = mgr[q] /\ index'[q] = index[q]
    BY <1>1, MovePrimes DEF IInv
  <2>2. m.ready /\ ~m.sync => \A q \in Known(row) : row[q] >= m.idx + 1
    <3>1. m.ready /\ ~m.sync => Waited(p, m.idx, row)
      BY <1>1 DEF MovesOn, MovesSafely
    <3> QED BY <1>1, <3>1, WaitedIsForAll
  <2> QED BY <2>1, <2>2 DEF AllWereWaitedFor
<1>2. ASSUME NEW l \in Links, PutPhaseSyncPos(l[1], l[2]) PROVE AllWereWaitedFor'
  BY <1>2 DEF AllWereWaitedFor, PutPhaseSyncPos
<1>3. CASE UNCHANGED vars
  BY <1>3 DEF AllWereWaitedFor, vars
<1> QED BY <1>1, <1>2, <1>3, StepsMoveOn

(* A move leaves synchronized phases together with everybody known, or     *)
(* gives up.                                                               *)
LEMMA MoveIsBarrierMove ==
  ASSUME NoLateServer, IInv, AllWereWaitedFor, NEW p \in Procs,
         NEW m, NEW row, NEW min,
         MovesOn(p, m, row, min), Becomes(p, m, row, min), UNCHANGED said
  PROVE  Barrier!BarrierNext
<1>1. /\ mgr'[p] = m /\ index'[p] = row /\ said' = said
      /\ \A q \in Procs \ {p} : mgr'[q] = mgr[q] /\ index'[q] = index[q]
  BY MovePrimes DEF IInv
<1>2. /\ mgr[p] \in MgrFields /\ m \in MgrFields /\ FlagsAgree(p, m)
      /\ mgr[p].idx <= m.idx /\ PhaseSyncPos(mgr[p]) <= PhaseSyncPos(m)
      /\ row \in [Procs -> -1..N] /\ index[p] \in [Procs -> -1..N]
      /\ \A q \in Procs : index[p][q] <= row[q]
      /\ m.negative => row = index[p]
  BY DEF IInv, TypeOK, MovesOn, MovesSafely
<1>3. m.idx \in Int /\ mgr[p].idx \in Int /\ PhaseSyncPos(m) \in {m.idx, m.idx + 1}
  BY <1>2, PhasesAssumption DEF MgrFields, PhaseSyncPos
<1>4. Known(index[p]) \subseteq Known(row)
  BY <1>2, PhasesAssumption DEF Known
<1>5. ASSUME ~m.negative, NEW j \in mgr[p].idx..(m.idx - 1), j \in Synced,
             NEW q \in Known(row)
      PROVE  PhaseSyncPos(mgr[q]) >= j + 1
  <2>1. Waited(p, j, row)
    BY <1>5 DEF MovesOn, MovesSafely
  <2>2. row[q] >= j + 1 /\ row[q] \in Int /\ j \in Int
    BY <1>2, <1>3, <2>1, WaitedIsForAll, PhasesAssumption DEF Known
  <2>3. q \in Procs /\ <<q, p>> \in Links /\ row[q] \in said[<<q, p>>]
    BY DEF Known, MovesOn, MovesSafely
  <2>4. <<q, p>>[1] = q
    OBVIOUS
  <2>5. row[q] <= PhaseSyncPos(mgr[q])
    BY <2>3, <2>4 DEF IInv, BeliefsAreTrue
  <2>6. PhaseSyncPos(mgr[q]) \in Int
    <3>1. mgr[q].idx \in Int
      BY <2>3, PhasesAssumption DEF IInv, TypeOK, MgrFields
    <3> QED BY <3>1 DEF PhaseSyncPos
  <2> QED BY <2>2, <2>5, <2>6
<1> DEFINE Phase == [x \in Procs |-> mgr[x].idx]
           Pos   == [x \in Procs |-> PhaseSyncPos(mgr[x])]
           Knows == [x \in Procs |-> Known(index[x])]
<1>8. /\ Phase[p] = mgr[p].idx /\ Phase'[p] = m.idx
      /\ Knows[p] = Known(index[p]) /\ Knows'[p] = Known(row)
      /\ Pos'[p] = PhaseSyncPos(m)
  BY <1>1
<1>9. /\ \A q \in Procs : Pos[q] = PhaseSyncPos(mgr[q])
      /\ Known(row) \subseteq Procs
  BY DEF Known
<1>6. CASE ~m.negative
  <2>1. Knows[p] \subseteq Knows'[p] /\ Phase'[p] >= Phase[p] /\ Pos'[p] >= Pos[p]
    BY <1>2, <1>3, <1>4, <1>8, <1>9
  <2>2. Pos'[p] \in {Phase'[p], Phase'[p] + 1}
    BY <1>3, <1>8
  <2>3. \A j \in Phase[p]..(Phase'[p] - 1) :
          j \in Synced => \A q \in Knows'[p] : Pos[q] >= j + 1
    BY <1>5, <1>6, <1>8, <1>9
  <2>4. Barrier!Move(p)
    BY <2>1, <2>2, <2>3, Zenon DEF Barrier!Move
  <2> QED BY <1>1, <2>4 DEF Barrier!BarrierNext
<1>7. CASE m.negative
  <2>1. m.idx = N /\ PhaseSyncPos(m) = N
    BY <1>2, <1>7, PhasesAssumption DEF FlagsAgree, PhaseSyncPos
  <2>2. Barrier!GiveUp(p)
    BY <1>2, <1>7, <1>8, <2>1 DEF Barrier!GiveUp
  <2> QED BY <1>1, <2>2 DEF Barrier!BarrierNext
<1> QED BY <1>6, <1>7

(* If no warm-up plan can outlast a synchronization during which a new     *)
(* server appears, known processes leave every synchronized phase together *)
(* or give up: the code implements the barrier.                            *)
THEOREM PhasesImplementBarrier ==
  ASSUME NoLateServer
  PROVE  Spec => ImplementsBarrier
<1>1. Init => AllWereWaitedFor
  BY StartingPoints DEF Init, AllWereWaitedFor
<1>2. Init => Barrier!BarrierInit
  <2> SUFFICES ASSUME Init PROVE Barrier!BarrierInit
    OBVIOUS
  <2>0. \A p \in Procs : mgr[p] \in MgrFields /\ ~mgr[p].ready
    BY StartingPoints DEF Init
  <2>1. \A p \in Procs : mgr[p].idx \in -1..N /\ PhaseSyncPos(mgr[p]) = mgr[p].idx
    BY <2>0, PhasesAssumption DEF PhaseSyncPos, MgrFields
  <2>2. \A p \in Procs : Known(index[p]) = {}
    BY DEF Init, Known
  <2> QED BY <2>1, <2>2 DEF Barrier!BarrierInit
<1>3. IInv /\ AllWereWaitedFor /\ [Next]_vars => [Barrier!BarrierNext]_(Barrier!bvars)
  <2> SUFFICES ASSUME IInv, AllWereWaitedFor, [Next]_vars
               PROVE  [Barrier!BarrierNext]_(Barrier!bvars)
    OBVIOUS
  <2>1. ASSUME NEW p \in Procs, NEW m, NEW row, NEW min,
               MovesOn(p, m, row, min), Becomes(p, m, row, min), UNCHANGED said
        PROVE  Barrier!BarrierNext
    BY <2>1, MoveIsBarrierMove
  <2>2. ASSUME UNCHANGED <<mgr, index>> PROVE UNCHANGED Barrier!bvars
    BY <2>2 DEF Barrier!bvars
  <2>3. ASSUME NEW l \in Links, PutPhaseSyncPos(l[1], l[2])
        PROVE  UNCHANGED <<mgr, index>>
    BY <2>3 DEF PutPhaseSyncPos
  <2>4. UNCHANGED vars => UNCHANGED <<mgr, index>>
    BY DEF vars
  <2> QED BY <2>1, <2>2, <2>3, <2>4, StepsMoveOn
<1>4. IInv /\ AllWereWaitedFor /\ [Next]_vars => AllWereWaitedFor'
  BY NextAllWereWaitedFor
<1> QED BY <1>1, <1>2, <1>3, <1>4, InitIInv, NextIInv, PTL
    DEF Spec, ImplementsBarrier, Barrier!BarrierSpec

-----------------------------------------------------------------------------
(* The working set lock.  StatPhase::noteInfoEvent unlocks a phase before  *)
(* it notes that the set is frozen; that can only hurt if a phase that     *)
(* starts by then waits for the working set as well: the next one, or one  *)
(* after phases that end as soon as they start.                            *)
WaitsAreApart ==
  \A k, j \in WaitWss : k < j => \E i \in (k + 1)..(j - 1) : i \notin Instant

WssFits(m) == m.wss => m.idx \in WaitWss /\ m.wssState = "wait"

AllWssFit == \A p \in Procs : WssFits(mgr[p])

LEMMA NextPhaseKeepsWss ==
  ASSUME NEW p \in Procs, NEW m \in MgrFields, m.idx \in -1..(N - 1), ~m.negative,
         NEW row \in [Procs -> -1..N]
  PROVE  LET n == NextPhase(p, m, row) IN
         /\ WssFits(n)
         /\ n.idx > m.idx /\ \A j \in (m.idx + 1)..(n.idx - 1) : j \in Instant
<1> DEFINE n == NextPhase(p, m, row)
<1>1. /\ n.idx \in (m.idx + 1)..N /\ n.wssState = m.wssState
      /\ n.wss = LocksForWss(n.idx, m)
      /\ \A j \in (m.idx + 1)..(n.idx - 1) : j \in Instant
  BY NextPhaseStops
<1> HIDE DEF n
<1>2. n.idx > m.idx
  BY <1>1, PhasesAssumption
<1>3. WssFits(n)
  BY <1>1 DEF WssFits, LocksForWss
<1> QED BY <1>1, <1>2, <1>3 DEF n

LEMMA CheckpointKeepsWss ==
  ASSUME NEW p \in Procs, NEW m \in MgrFields, FlagsAgree(p, m), WssFits(m),
         NEW row \in [Procs -> -1..N]
  PROVE  LET n == Checkpoint(p, m, row) IN
         /\ WssFits(n)
         /\ n.wss => \/ m.wss
                     \/ /\ n.idx > m.idx
                        /\ \A j \in (m.idx + 1)..(n.idx - 1) : j \in Instant
<1>1. CASE Checkpoint(p, m, row) = m
  BY <1>1
<1>2. CASE Checkpoint(p, m, row) = [m EXCEPT !.ready = TRUE, !.sync = TRUE]
  BY <1>2 DEF WssFits, MgrFields
<1>3. CASE Checkpoint(p, m, row) = NextPhase(p, m, row) /\ m.positive
  <2>1. m.idx \in -1..(N - 1) /\ ~m.negative
    BY <1>3, PhasesAssumption DEF FlagsAgree
  <2> QED BY <1>3, <2>1, NextPhaseKeepsWss
<1> QED BY <1>1, <1>2, <1>3 DEF Checkpoint

(* A step that leaves the working set alone keeps WssFits.                 *)
LEMMA BecomesKeepsWss ==
  ASSUME TypeOK, AllWssFit, NEW p \in Procs, NEW m, NEW row, NEW min,
         WssFits(m), Becomes(p, m, row, min)
  PROVE  AllWssFit'
  BY MovePrimes DEF AllWssFit

LEMMA NextAllWssFit ==
  ASSUME WaitsAreApart
  PROVE  IInv /\ AllWssFit /\ [Next]_vars => AllWssFit'
<1> SUFFICES ASSUME IInv, AllWssFit, [Next]_vars PROVE AllWssFit'
  OBVIOUS
<1>0. /\ TypeOK
      /\ \A p \in Procs : /\ mgr[p] \in MgrFields /\ WssFits(mgr[p])
                          /\ FlagsAgree(p, mgr[p]) /\ index[p] \in [Procs -> -1..N]
  BY DEF IInv, TypeOK, AllWssFit, AllFlagsAgree
<1>1. ASSUME NEW p \in Servers, StopTrafficWaiting(p) PROVE AllWssFit'
  <2>1. p \in Procs /\ mgr[p].idx = -1
    BY <1>1 DEF Procs, StopTrafficWaiting
  <2>2. mgr[p].idx \in -1..(N - 1) /\ ~mgr[p].negative
    BY <1>0, <2>1, PhasesAssumption DEF FlagsAgree
  <2>3. WssFits(NextPhase(p, mgr[p], index[p]))
    BY <1>0, <2>1, <2>2, NextPhaseKeepsWss
  <2> QED BY <1>0, <1>1, <2>1, <2>3, BecomesKeepsWss DEF StopTrafficWaiting, LocalStep
<1>2. ASSUME NEW p \in Procs, GoalReached(p) PROVE AllWssFit'
  <2> DEFINE m == [mgr[p] EXCEPT !.positive = TRUE]
  <2>0. mgr[p].idx \in 0..(N - 1)
    BY <1>0, <1>2, PhasesAssumption DEF GoalReached, Running, MgrFields
  <2>1. m \in MgrFields /\ WssFits(m) /\ FlagsAgree(p, m)
    BY <1>0, <2>0 DEF WssFits, MgrFields, FlagsAgree
  <2>2. WssFits(Checkpoint(p, m, index[p]))
    BY <1>0, <2>1, CheckpointKeepsWss
  <2> QED BY <1>0, <1>2, <2>2, BecomesKeepsWss DEF GoalReached, LocalStep
<1>3. ASSUME NEW p \in Procs, NegativeGoalReached(p) PROVE AllWssFit'
  <2> DEFINE m == [mgr[p] EXCEPT !.idx = N, !.positive = FALSE, !.ready = FALSE,
                                 !.sync = FALSE, !.wss = FALSE, !.warmup = FALSE,
                                 !.negative = TRUE, !.down = TRUE]
  <2>1. ~m.wss
    BY <1>0 DEF MgrFields
  <2>2. WssFits(m)
    BY <2>1 DEF WssFits
  <2> QED BY <1>0, <1>3, <2>2, BecomesKeepsWss DEF NegativeGoalReached, LocalStep
<1>4. ASSUME NEW p \in Procs, WssFreeze(p) PROVE AllWssFit'
  <2> DEFINE m0 == [mgr[p] EXCEPT !.wss = FALSE]
             m1 == IF mgr[p].wss THEN Checkpoint(p, m0, index[p]) ELSE mgr[p]
             m2 == [m1 EXCEPT !.wssState = "frozen"]
  <2>1. m0 \in MgrFields /\ ~m0.wss /\ m0.idx = mgr[p].idx
    BY <1>0 DEF MgrFields
  <2>2. FlagsAgree(p, mgr[p]) /\ index[p] \in [Procs -> -1..N]
    BY DEF IInv, AllFlagsAgree, TypeOK
  <2>3. FlagsAgree(p, m0)
    BY <1>0, <2>2 DEF FlagsAgree, MgrFields
  <2>4. m1 \in MgrFields
    BY <1>0, <2>1, <2>2, <2>3, CheckpointMoves
  <2>5. ~m1.wss
    <3>1. CASE mgr[p].wss
      <4>1. mgr[p].idx \in WaitWss
        BY <1>0, <3>1 DEF WssFits
      <4>2. /\ WssFits(m1)
            /\ m1.wss => /\ m1.idx > mgr[p].idx
                         /\ \A j \in (mgr[p].idx + 1)..(m1.idx - 1) : j \in Instant
        BY <2>1, <2>2, <2>3, <3>1, CheckpointKeepsWss DEF WssFits
      <4>3. mgr[p].idx \in Int /\ m1.idx \in Int
        BY <1>0, <2>4, PhasesAssumption DEF MgrFields
      <4> QED BY <4>1, <4>2, <4>3 DEF WssFits, WaitsAreApart
    <3> QED BY <3>1
  <2> HIDE DEF m1
  <2>6. ~m2.wss
    BY <2>4, <2>5 DEF MgrFields
  <2>7. WssFits(m2)
    BY <2>6 DEF WssFits
  <2>8. Becomes(p, m2, index[p], posMin[p])
    BY <1>4 DEF WssFreeze, LocalStep, m1
  <2> QED BY <1>0, <2>7, <2>8, BecomesKeepsWss
<1>5. ASSUME NEW p \in Procs, StartWarmup(p) PROVE AllWssFit'
  <2>1. WssFits([mgr[p] EXCEPT !.plan = "running", !.warmup = TRUE])
    BY <1>0 DEF WssFits, MgrFields
  <2> QED BY <1>0, <1>5, <2>1, BecomesKeepsWss DEF StartWarmup, LocalStep
<1>6. ASSUME NEW p \in Procs, StopWarmup(p) PROVE AllWssFit'
  <2> DEFINE m == [mgr[p] EXCEPT !.plan = "done", !.warmup = FALSE]
  <2>1. m \in MgrFields /\ WssFits(m) /\ FlagsAgree(p, m)
    BY <1>0 DEF WssFits, MgrFields, FlagsAgree
  <2>2. WssFits(Checkpoint(p, m, index[p]))
    BY <1>0, <2>1, CheckpointKeepsWss
  <2> QED BY <1>0, <1>6, <2>2, BecomesKeepsWss DEF StopWarmup, LocalStep

<1>7. ASSUME NEW l \in Links, NEW pos \in said[l], DoPhaseSync(l[2], l[1], pos)
      PROVE  AllWssFit'
  <2> DEFINE p == l[2]
             q == l[1]
             news == pos > index[p][q]
             row  == IF news THEN [index[p] EXCEPT ![q] = pos] ELSE index[p]
             min  == IF news THEN NewPosMin(p, q, pos, row) ELSE posMin[p]
             m    == IF news THEN Unlocked(p, mgr[p], row, min) ELSE mgr[p]
             n    == ReachedByClients(p, m, row, min)
             u    == [mgr[p] EXCEPT !.sync = FALSE]
             r    == [m EXCEPT !.positive = TRUE]
  <2>1. p \in Procs
    BY DEF Links, Procs
  <2>2. Becomes(p, n, row, min)
    BY <1>7 DEF DoPhaseSync
  <2> HIDE DEF row, min
  <2>3. u \in MgrFields /\ WssFits(u) /\ FlagsAgree(p, u)
    <3>1. FlagsAgree(p, mgr[p])
      BY <2>1 DEF IInv, AllFlagsAgree
    <3>2. u \in MgrFields /\ WssFits(u)
      BY <1>0, <2>1 DEF WssFits, MgrFields
    <3> QED BY <1>0, <2>1, <3>1, <3>2 DEF FlagsAgree, MgrFields
  <2>4. row \in [Procs -> -1..N]
    <3>1. index[p] \in [Procs -> -1..N] /\ pos \in -1..N
      BY <2>1, PhasesAssumption DEF IInv, TypeOK, Positions
    <3> QED BY <3>1 DEF row
  <2>5. m \in MgrFields /\ WssFits(m) /\ FlagsAgree(p, m)
    BY <1>0, <2>1, <2>3, <2>4, CheckpointMoves, CheckpointKeepsWss DEF Unlocked
  <2>6. m.idx >= 0 /\ m.idx \in Int
    <3>1. mgr[p].idx >= 0 /\ mgr[p].idx \in Int
      BY <1>0, <1>7, <2>1, PhasesAssumption DEF DoPhaseSync, Running, MgrFields
    <3>2. m.idx \in Int /\ u.idx = mgr[p].idx
      BY <1>0, <2>1, <2>5, PhasesAssumption DEF MgrFields
    <3>3. m = mgr[p] \/ m = Checkpoint(p, u, row)
      BY DEF Unlocked
    <3>4. Checkpoint(p, u, row).idx = u.idx \/ Checkpoint(p, u, row).idx > u.idx
      BY <2>1, <2>3, <2>4, CheckpointMoves
    <3> HIDE DEF m, u
    <3> QED BY <3>1, <3>2, <3>3, <3>4
  <2> HIDE DEF m
  <2>7. ASSUME PhaseSyncPos(m) < min PROVE r \in MgrFields /\ WssFits(r) /\ FlagsAgree(p, r)
    <3>1. min \in -1..N
      <4>1. posMin[p] \in -1..N
        BY <2>1 DEF IInv, TypeOK
      <4>2. PosMin(row) \in -1..N
        BY <2>4, PosMinIsSmallest
      <4> QED BY <4>1, <4>2 DEF min, NewPosMin
    <3>2. m.idx \in 0..(N - 1)
      BY <2>6, <2>7, <3>1, PhasesAssumption DEF PhaseSyncPos
    <3> QED BY <2>5, <3>2 DEF WssFits, MgrFields, FlagsAgree
  <2>8. WssFits(n)
    BY <2>1, <2>4, <2>5, <2>7, CheckpointKeepsWss DEF ReachedByClients
  <2> QED BY <1>0, <2>1, <2>2, <2>8, BecomesKeepsWss
<1>8. ASSUME UNCHANGED mgr PROVE AllWssFit'
  BY <1>8 DEF AllWssFit
<1>9. ASSUME NEW l \in Links, PutPhaseSyncPos(l[1], l[2]) PROVE UNCHANGED mgr
  BY <1>9 DEF PutPhaseSyncPos
<1> QED BY <1>1, <1>2, <1>3, <1>4, <1>5, <1>6, <1>7, <1>8, <1>9 DEF Next, vars

(* A phase is locked for the working set only while the set is not frozen, *)
(* provided that between two phases that wait for it there is one whose    *)
(* goal takes time to meet.                                                *)
THEOREM WssLockEndsWithFreeze ==
  ASSUME WaitsAreApart
  PROVE  Spec => []WssLockIsNeeded
<1>1. Init => AllWssFit
  BY StartingPoints DEF Init, AllWssFit, WssFits
<1>2. AllWssFit => WssLockIsNeeded
  BY DEF AllWssFit, WssFits, WssLockIsNeeded
<1>3. IInv /\ AllWssFit /\ [Next]_vars => AllWssFit'
  BY NextAllWssFit
<1> QED BY <1>1, <1>2, <1>3, InitIInv, NextIInv, PTL DEF Spec
=============================================================================
