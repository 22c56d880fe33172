------------------------ MODULE TheFileScannerProofs ------------------------
(***************************************************************************)
(* Proofs about the scanners, for any set of descriptors, any choice of    *)
(* the scanner and any priority schedule: registrations and reservations   *)
(* agree, blocking marks do not outlive what they were made for, the       *)
(* kernel watches what users wait for, and no event reaches a later user   *)
(* of its descriptor.                                                      *)
(***************************************************************************)
EXTENDS TheFileScanner, DistinctSeqs

-----------------------------------------------------------------------------
(* What users do with one scanner they may do in this process, so an       *)
(* action of a scanner is also one of FileScanner itself.                  *)

LEMMA EpollUses ==
  ASSUME fileScan = "epoll", fileScan \in DOMAIN UsesOf
  PROVE  /\ \A fd, dir, socks :
              E!BaseConnect(fd, dir, socks) => BaseConnect(fd, dir, socks)
         /\ \A fd, dir : E!BaseSetFD(fd, dir) => BaseSetFD(fd, dir)
         /\ \A fd, dir : E!BaseClearFD(fd, dir) => BaseClearFD(fd, dir)
         /\ \A fd : E!BaseClose(fd) => BaseClose(fd)
         /\ \A fd : E!BaseBlockedOn(fd) => BaseBlockedOn(fd)
         /\ \A found : E!BaseSweep(found) => BaseSweep(found)
         /\ \A fd, r : E!LoopRead(fd, r) => LoopRead(fd, r)
         /\ \A r : E!LoopWrite(r) => LoopWrite(r)
         /\ E!BaseStep => BaseStep
<1>0. UsesOf["epoll"] \subseteq Uses
  BY UsesAssumption
<1> USE DEF E!UserRuns, UserRuns, E!NoCall, NoCall, E!cycle, cycle
<1>1. \A fd, reg, dirs : E!Register(fd, reg, dirs) => Register(fd, reg, dirs)
  BY
  DEF E!Register, Register, E!MaxFdAfter, MaxFdAfter, E!Used, Used, E!Max, Max
<1>2. ASSUME NEW fd, NEW dir, NEW socks, E!BaseConnect(fd, dir, socks)
      PROVE  BaseConnect(fd, dir, socks)
  BY <1>0, <1>1, <1>2
  DEF E!BaseConnect, BaseConnect, E!RegBlockedOn, RegBlockedOn, E!RegSet,
      RegSet, E!Rearmed, Rearmed, E!Other, Other
<1>3. ASSUME NEW fd, NEW dir, E!BaseSetFD(fd, dir)
      PROVE  BaseSetFD(fd, dir)
  BY <1>0, <1>1, <1>3
  DEF E!BaseSetFD, BaseSetFD, E!RegSet, RegSet, E!Rearmed, Rearmed
<1>4. ASSUME NEW fd, NEW dir, E!BaseClearFD(fd, dir)
      PROVE  BaseClearFD(fd, dir)
  BY <1>1, <1>4
  DEF E!BaseClearFD, BaseClearFD, E!RegClear, RegClear, E!ResetReg, ResetReg,
      E!Rearmed, Rearmed, E!Other, Other
<1>5. ASSUME NEW fd, E!BaseClose(fd)
      PROVE  BaseClose(fd)
  BY <1>1, <1>5
  DEF E!BaseClose, BaseClose, E!RegClearAll, RegClearAll, E!ResetReg, ResetReg
<1>6. ASSUME NEW fd, E!BaseBlockedOn(fd)
      PROVE  BaseBlockedOn(fd)
  BY <1>0, <1>6
  DEF E!BaseBlockedOn, BaseBlockedOn, E!RegBlockedOn, RegBlockedOn, E!Other,
      Other
<1>7. ASSUME NEW found, E!BaseSweep(found)
      PROVE  BaseSweep(found)
  BY <1>7
  DEF E!BaseSweep, BaseSweep, E!NextScanCount, NextScanCount, E!Used, Used
<1>8. \A fd, dir, r : E!Notify(fd, dir, r) => Notify(fd, dir, r)
  BY
  DEF E!Notify, Notify, E!RegNotified, RegNotified, E!MethodFor, MethodFor,
      E!Rearmed, Rearmed, E!Other, Other
<1>9. ASSUME NEW fd, NEW r, E!LoopRead(fd, r)
      PROVE  LoopRead(fd, r)
  BY <1>8, <1>9 DEF E!LoopRead, LoopRead, E!Used, Used
<1>10. ASSUME NEW r, E!LoopWrite(r)
       PROVE  LoopWrite(r)
  BY <1>8, <1>10 DEF E!LoopWrite, LoopWrite
<1>11. ASSUME E!BaseStep
       PROVE  BaseStep
  <2>1. \A fd, reg : E!SetReg(fd, reg) => SetReg(fd, reg)
    BY DEF E!SetReg, SetReg
  <2>2. \A fd : E!SetPriority(fd) => SetPriority(fd)
    BY <1>0, <2>1 DEF E!SetPriority, SetPriority
  <2>3. \A fd : /\ E!SetTimeout(fd) => SetTimeout(fd)
                /\ E!ClearTimeout(fd) => ClearTimeout(fd)
    BY <1>0, <2>1 DEF E!SetTimeout, SetTimeout, E!ClearTimeout, ClearTimeout
  <2>4. \A fd : E!ForceReady(fd) => ForceReady(fd)
    BY <1>0, <2>1 DEF E!ForceReady, ForceReady
  <2>5. \A fd : /\ E!SocketChanges(fd) => SocketChanges(fd)
                /\ E!TimePasses(fd) => TimePasses(fd)
    BY <1>0
    DEF E!SocketChanges, SocketChanges, E!TimePasses, TimePasses,
        E!Conditions, Conditions, E!Dirs, Dirs
  <2>6. /\ E!Return => Return
        /\ E!LoopEnds => LoopEnds
    BY
    DEF E!Return, Return, E!LoopEnds,
        LoopEnds, E!Used, Used
  <2>7. E!CheckTimeouts => CheckTimeouts
    BY
    DEF E!CheckTimeouts, CheckTimeouts, E!Late, Late, E!Timedout, Timedout,
        E!NeedsCheck, NeedsCheck, E!Min, Min
  <2> QED BY <1>11, <2>2, <2>3, <2>4, <2>5, <2>6, <2>7 DEF E!BaseStep, BaseStep
<1> QED
  BY <1>2, <1>3, <1>4, <1>5, <1>6, <1>7, <1>9, <1>10, <1>11

LEMMA PollUses ==
  ASSUME fileScan = "poll", fileScan \in DOMAIN UsesOf
  PROVE  /\ \A fd, dir, socks :
              P!BaseConnect(fd, dir, socks) => BaseConnect(fd, dir, socks)
         /\ \A fd, dir : P!BaseSetFD(fd, dir) => BaseSetFD(fd, dir)
         /\ \A fd, dir : P!BaseClearFD(fd, dir) => BaseClearFD(fd, dir)
         /\ \A fd : P!BaseClose(fd) => BaseClose(fd)
         /\ \A fd : P!BaseBlockedOn(fd) => BaseBlockedOn(fd)
         /\ \A found : P!BaseSweep(found) => BaseSweep(found)
         /\ \A fd, r : P!LoopRead(fd, r) => LoopRead(fd, r)
         /\ \A r : P!LoopWrite(r) => LoopWrite(r)
         /\ P!BaseStep => BaseStep
<1>0. UsesOf["poll"] \subseteq Uses
  BY UsesAssumption
<1> USE DEF P!UserRuns, UserRuns, P!NoCall, NoCall, P!cycle, cycle
<1>1. \A fd, reg, dirs : P!Register(fd, reg, dirs) => Register(fd, reg, dirs)
  BY
  DEF P!Register, Register, P!MaxFdAfter, MaxFdAfter, P!Used, Used, P!Max, Max
<1>2. ASSUME NEW fd, NEW dir, NEW socks, P!BaseConnect(fd, dir, socks)
      PROVE  BaseConnect(fd, dir, socks)
  BY <1>0, <1>1, <1>2
  DEF P!BaseConnect, BaseConnect, P!RegBlockedOn, RegBlockedOn, P!RegSet,
      RegSet, P!Rearmed, Rearmed, P!Other, Other
<1>3. ASSUME NEW fd, NEW dir, P!BaseSetFD(fd, dir)
      PROVE  BaseSetFD(fd, dir)
  BY <1>0, <1>1, <1>3
  DEF P!BaseSetFD, BaseSetFD, P!RegSet, RegSet, P!Rearmed, Rearmed
<1>4. ASSUME NEW fd, NEW dir, P!BaseClearFD(fd, dir)
      PROVE  BaseClearFD(fd, dir)
  BY <1>1, <1>4
  DEF P!BaseClearFD, BaseClearFD, P!RegClear, RegClear, P!ResetReg, ResetReg,
      P!Rearmed, Rearmed, P!Other, Other
<1>5. ASSUME NEW fd, P!BaseClose(fd)
      PROVE  BaseClose(fd)
  BY <1>1, <1>5
  DEF P!BaseClose, BaseClose, P!RegClearAll, RegClearAll, P!ResetReg, ResetReg
<1>6. ASSUME NEW fd, P!BaseBlockedOn(fd)
      PROVE  BaseBlockedOn(fd)
  BY <1>0, <1>6
  DEF P!BaseBlockedOn, BaseBlockedOn, P!RegBlockedOn, RegBlockedOn, P!Other,
      Other
<1>7. ASSUME NEW found, P!BaseSweep(found)
      PROVE  BaseSweep(found)
  BY <1>7
  DEF P!BaseSweep, BaseSweep, P!NextScanCount, NextScanCount, P!Used, Used
<1>8. \A fd, dir, r : P!Notify(fd, dir, r) => Notify(fd, dir, r)
  BY
  DEF P!Notify, Notify, P!RegNotified, RegNotified, P!MethodFor, MethodFor,
      P!Rearmed, Rearmed, P!Other, Other
<1>9. ASSUME NEW fd, NEW r, P!LoopRead(fd, r)
      PROVE  LoopRead(fd, r)
  BY <1>8, <1>9 DEF P!LoopRead, LoopRead, P!Used, Used
<1>10. ASSUME NEW r, P!LoopWrite(r)
       PROVE  LoopWrite(r)
  BY <1>8, <1>10 DEF P!LoopWrite, LoopWrite
<1>11. ASSUME P!BaseStep
       PROVE  BaseStep
  <2>1. \A fd, reg : P!SetReg(fd, reg) => SetReg(fd, reg)
    BY DEF P!SetReg, SetReg
  <2>2. \A fd : P!SetPriority(fd) => SetPriority(fd)
    BY <1>0, <2>1 DEF P!SetPriority, SetPriority
  <2>3. \A fd : /\ P!SetTimeout(fd) => SetTimeout(fd)
                /\ P!ClearTimeout(fd) => ClearTimeout(fd)
    BY <1>0, <2>1 DEF P!SetTimeout, SetTimeout, P!ClearTimeout, ClearTimeout
  <2>4. \A fd : P!ForceReady(fd) => ForceReady(fd)
    BY <1>0, <2>1 DEF P!ForceReady, ForceReady
  <2>5. \A fd : /\ P!SocketChanges(fd) => SocketChanges(fd)
                /\ P!TimePasses(fd) => TimePasses(fd)
    BY <1>0
    DEF P!SocketChanges, SocketChanges, P!TimePasses, TimePasses,
        P!Conditions, Conditions, P!Dirs, Dirs
  <2>6. /\ P!Return => Return
        /\ P!LoopEnds => LoopEnds
    BY
    DEF P!Return, Return, P!LoopEnds,
        LoopEnds, P!Used, Used
  <2>7. P!CheckTimeouts => CheckTimeouts
    BY
    DEF P!CheckTimeouts, CheckTimeouts, P!Late, Late, P!Timedout, Timedout,
        P!NeedsCheck, NeedsCheck, P!Min, Min
  <2> QED BY <1>11, <2>2, <2>3, <2>4, <2>5, <2>6, <2>7 DEF P!BaseStep, BaseStep
<1> QED
  BY <1>2, <1>3, <1>4, <1>5, <1>6, <1>7, <1>9, <1>10, <1>11

LEMMA SelectUses ==
  ASSUME fileScan = "select", fileScan \in DOMAIN UsesOf
  PROVE  /\ \A fd, dir, socks :
              S!BaseConnect(fd, dir, socks) => BaseConnect(fd, dir, socks)
         /\ \A fd, dir : S!BaseSetFD(fd, dir) => BaseSetFD(fd, dir)
         /\ \A fd, dir : S!BaseClearFD(fd, dir) => BaseClearFD(fd, dir)
         /\ \A fd : S!BaseClose(fd) => BaseClose(fd)
         /\ \A fd : S!BaseBlockedOn(fd) => BaseBlockedOn(fd)
         /\ \A found : S!BaseSweep(found) => BaseSweep(found)
         /\ \A fd, r : S!LoopRead(fd, r) => LoopRead(fd, r)
         /\ \A r : S!LoopWrite(r) => LoopWrite(r)
         /\ S!BaseStep => BaseStep
<1>0. UsesOf["select"] \subseteq Uses
  BY UsesAssumption
<1> USE DEF S!UserRuns, UserRuns, S!NoCall, NoCall, S!cycle, cycle
<1>1. \A fd, reg, dirs : S!Register(fd, reg, dirs) => Register(fd, reg, dirs)
  BY
  DEF S!Register, Register, S!MaxFdAfter, MaxFdAfter, S!Used, Used, S!Max, Max
<1>2. ASSUME NEW fd, NEW dir, NEW socks, S!BaseConnect(fd, dir, socks)
      PROVE  BaseConnect(fd, dir, socks)
  BY <1>0, <1>1, <1>2
  DEF S!BaseConnect, BaseConnect, S!RegBlockedOn, RegBlockedOn, S!RegSet,
      RegSet, S!Rearmed, Rearmed, S!Other, Other
<1>3. ASSUME NEW fd, NEW dir, S!BaseSetFD(fd, dir)
      PROVE  BaseSetFD(fd, dir)
  BY <1>0, <1>1, <1>3
  DEF S!BaseSetFD, BaseSetFD, S!RegSet, RegSet, S!Rearmed, Rearmed
<1>4. ASSUME NEW fd, NEW dir, S!BaseClearFD(fd, dir)
      PROVE  BaseClearFD(fd, dir)
  BY <1>1, <1>4
  DEF S!BaseClearFD, BaseClearFD, S!RegClear, RegClear, S!ResetReg, ResetReg,
      S!Rearmed, Rearmed, S!Other, Other
<1>5. ASSUME NEW fd, S!BaseClose(fd)
      PROVE  BaseClose(fd)
  BY <1>1, <1>5
  DEF S!BaseClose, BaseClose, S!RegClearAll, RegClearAll, S!ResetReg, ResetReg
<1>6. ASSUME NEW fd, S!BaseBlockedOn(fd)
      PROVE  BaseBlockedOn(fd)
  BY <1>0, <1>6
  DEF S!BaseBlockedOn, BaseBlockedOn, S!RegBlockedOn, RegBlockedOn, S!Other,
      Other
<1>7. ASSUME NEW found, S!BaseSweep(found)
      PROVE  BaseSweep(found)
  BY <1>7
  DEF S!BaseSweep, BaseSweep, S!NextScanCount, NextScanCount, S!Used, Used
<1>8. \A fd, dir, r : S!Notify(fd, dir, r) => Notify(fd, dir, r)
  BY
  DEF S!Notify, Notify, S!RegNotified, RegNotified, S!MethodFor, MethodFor,
      S!Rearmed, Rearmed, S!Other, Other
<1>9. ASSUME NEW fd, NEW r, S!LoopRead(fd, r)
      PROVE  LoopRead(fd, r)
  BY <1>8, <1>9 DEF S!LoopRead, LoopRead, S!Used, Used
<1>10. ASSUME NEW r, S!LoopWrite(r)
       PROVE  LoopWrite(r)
  BY <1>8, <1>10 DEF S!LoopWrite, LoopWrite
<1>11. ASSUME S!BaseStep
       PROVE  BaseStep
  <2>1. \A fd, reg : S!SetReg(fd, reg) => SetReg(fd, reg)
    BY DEF S!SetReg, SetReg
  <2>2. \A fd : S!SetPriority(fd) => SetPriority(fd)
    BY <1>0, <2>1 DEF S!SetPriority, SetPriority
  <2>3. \A fd : /\ S!SetTimeout(fd) => SetTimeout(fd)
                /\ S!ClearTimeout(fd) => ClearTimeout(fd)
    BY <1>0, <2>1 DEF S!SetTimeout, SetTimeout, S!ClearTimeout, ClearTimeout
  <2>4. \A fd : S!ForceReady(fd) => ForceReady(fd)
    BY <1>0, <2>1 DEF S!ForceReady, ForceReady
  <2>5. \A fd : /\ S!SocketChanges(fd) => SocketChanges(fd)
                /\ S!TimePasses(fd) => TimePasses(fd)
    BY <1>0
    DEF S!SocketChanges, SocketChanges, S!TimePasses, TimePasses,
        S!Conditions, Conditions, S!Dirs, Dirs
  <2>6. /\ S!Return => Return
        /\ S!LoopEnds => LoopEnds
    BY
    DEF S!Return, Return, S!LoopEnds,
        LoopEnds, S!Used, Used
  <2>7. S!CheckTimeouts => CheckTimeouts
    BY
    DEF S!CheckTimeouts, CheckTimeouts, S!Late, Late, S!Timedout, Timedout,
        S!NeedsCheck, NeedsCheck, S!Min, Min
  <2> QED BY <1>11, <2>2, <2>3, <2>4, <2>5, <2>6, <2>7 DEF S!BaseStep, BaseStep
<1> QED
  BY <1>2, <1>3, <1>4, <1>5, <1>6, <1>7, <1>9, <1>10, <1>11

-----------------------------------------------------------------------------
(* The steps of a process, whichever scanner it has.                       *)

UserAction ==
  \E fd \in FDs :
    \/ \E dir \in Dirs : \/ \E socks \in BOOLEAN : BaseConnect(fd, dir, socks)
                         \/ BaseSetFD(fd, dir)
                         \/ BaseClearFD(fd, dir)
    \/ BaseClose(fd)
    \/ BaseBlockedOn(fd)

LoopAction ==
  \/ \E found : BaseSweep(found)
  \/ \E fd \in FDs : \E isReady : LoopRead(fd, isReady)
  \/ \E isReady : LoopWrite(isReady)

AnyStep == UserAction \/ LoopAction \/ BaseStep

(* The loop looks for output of the descriptor it has just looked at.      *)
CurIsKnown == pc = "write" => cur \in FDs

LEMMA BaseStepKeepsHot ==
  ASSUME BaseStep
  PROVE  urgent' = urgent /\ hot' = hot
BY DEF BaseStep, SetPriority, SetTimeout, ClearTimeout, ForceReady, SetReg,
       SocketChanges, TimePasses, Return, LoopEnds,
       CheckTimeouts, cycle

LEMMA EpollIsAnyStep ==
  ASSUME TypeOK, ByEpoll, E!Next
  PROVE  /\ AnyStep
         /\ urgent' \in BOOLEAN
         /\ hot' \in [FDs -> SUBSET Conditions]
<1>0. fileScan = "epoll" /\ fileScan \in DOMAIN UsesOf
  BY DEF TypeOK, ByEpoll
<1>1. urgent \in BOOLEAN /\ hot \in [FDs -> SUBSET Conditions]
      /\ ready \in [FDs -> SUBSET Conditions]
  BY DEF TypeOK, BaseTypeOK
<1>2. CASE E!UserStep
  <2>1. UserAction
    BY <1>0, <1>2, EpollUses
    DEF E!UserStep, UserAction, E!Connect, E!SetFD, E!ClearFD, E!Close,
        E!BlockedOn, E!Dirs, Dirs
  <2>2. urgent' = urgent /\ hot' = hot
    BY <1>2
    DEF E!UserStep, E!Connect, E!SetFD, E!ClearFD, E!Close, E!BlockedOn,
        E!BaseConnect, E!BaseSetFD, E!BaseClearFD, E!BaseClose,
        E!BaseBlockedOn, E!Unwatch, E!cycle
  <2> QED BY <1>1, <2>1, <2>2 DEF AnyStep
<1>3. CASE E!Sweep
  BY <1>0, <1>1, <1>3, EpollUses
  DEF E!Sweep, E!BaseSweep, AnyStep, LoopAction, Conditions, Dirs
<1>4. CASE E!ReadEvent
  BY <1>0, <1>1, <1>4, EpollUses
  DEF E!ReadEvent, E!LoopRead, AnyStep, LoopAction
<1>5. CASE E!WriteEvent
  BY <1>0, <1>1, <1>5, EpollUses
  DEF E!WriteEvent, E!LoopWrite, AnyStep, LoopAction
<1>6. CASE E!BaseStep
  BY <1>0, <1>1, <1>6, EpollUses, BaseStepKeepsHot DEF AnyStep
<1> QED BY <1>2, <1>3, <1>4, <1>5, <1>6 DEF E!Next

LEMMA PollIsAnyStep ==
  ASSUME TypeOK, ByPoll, P!Next
  PROVE  /\ AnyStep
         /\ urgent' \in BOOLEAN
         /\ hot' \in [FDs -> SUBSET Conditions]
<1>0. fileScan = "poll" /\ fileScan \in DOMAIN UsesOf
  BY DEF TypeOK, ByPoll
<1>1. urgent \in BOOLEAN /\ hot \in [FDs -> SUBSET Conditions]
      /\ ready \in [FDs -> SUBSET Conditions]
  BY DEF TypeOK, BaseTypeOK
<1>2. CASE P!UserStep
  <2>1. UserAction
    BY <1>0, <1>2, PollUses
    DEF P!UserStep, UserAction, P!Connect, P!SetFD, P!ClearFD, P!Close,
        P!BlockedOn, P!Dirs, Dirs
  <2>2. urgent' = urgent /\ hot' \in [FDs -> SUBSET Conditions]
    BY <1>1, <1>2
    DEF P!UserStep, P!Connect, P!SetFD, P!ClearFD, P!Close, P!BlockedOn,
        P!BaseConnect, P!BaseSetFD, P!BaseClearFD, P!BaseClose,
        P!BaseBlockedOn, P!Erase, P!cycle
  <2> QED BY <1>1, <2>1, <2>2 DEF AnyStep
<1>3. CASE P!Sweep
  BY <1>0, <1>1, <1>3, PollUses
  DEF P!Sweep, P!BaseSweep, AnyStep, LoopAction, Conditions, Dirs
<1>4. CASE P!ReadEvent
  BY <1>0, <1>1, <1>4, PollUses
  DEF P!ReadEvent, P!LoopRead, P!Used, AnyStep, LoopAction
<1>5. CASE P!WriteEvent
  BY <1>0, <1>1, <1>5, PollUses
  DEF P!WriteEvent, P!LoopWrite, AnyStep, LoopAction
<1>6. CASE P!BaseStep
  BY <1>0, <1>1, <1>6, PollUses, BaseStepKeepsHot DEF AnyStep
<1> QED BY <1>2, <1>3, <1>4, <1>5, <1>6 DEF P!Next

LEMMA SelectIsAnyStep ==
  ASSUME TypeOK, BySelect, S!Next
  PROVE  /\ AnyStep
         /\ urgent' \in BOOLEAN
         /\ hot' \in [FDs -> SUBSET Conditions]
<1>0. fileScan = "select" /\ fileScan \in DOMAIN UsesOf
  BY DEF TypeOK, BySelect
<1>1. urgent \in BOOLEAN /\ hot \in [FDs -> SUBSET Conditions]
      /\ interests \in [FDs -> SUBSET Dirs]
  BY DEF TypeOK, BaseTypeOK
<1>2. CASE S!UserStep
  <2>1. UserAction
    BY <1>0, <1>2, SelectUses
    DEF S!UserStep, UserAction, S!Connect, S!SetFD, S!ClearFD, S!Close,
        S!BlockedOn, S!Dirs, Dirs
  <2>2. urgent' = urgent /\ hot' \in [FDs -> SUBSET Conditions]
    BY <1>1, <1>2
    DEF S!UserStep, S!Connect, S!SetFD, S!ClearFD, S!Close, S!BlockedOn,
        S!BaseConnect, S!BaseSetFD, S!BaseClearFD, S!BaseClose,
        S!BaseBlockedOn, S!cycle
  <2> QED BY <1>1, <2>1, <2>2 DEF AnyStep
<1>3. CASE S!Sweep
  <2>1. \A fd \in FDs : S!Prepared(fd) \in SUBSET Conditions
    BY <1>1 DEF S!Prepared, Conditions, Dirs
  <2> QED BY <1>0, <1>1, <1>3, <2>1, SelectUses
          DEF S!Sweep, S!BaseSweep, AnyStep, LoopAction
<1>4. CASE S!ReadEvent
  BY <1>0, <1>1, <1>4, SelectUses
  DEF S!ReadEvent, S!LoopRead, S!Used, AnyStep, LoopAction
<1>5. CASE S!WriteEvent
  BY <1>0, <1>1, <1>5, SelectUses
  DEF S!WriteEvent, S!LoopWrite, AnyStep, LoopAction
<1>6. CASE S!BaseStep
  BY <1>0, <1>1, <1>6, SelectUses, BaseStepKeepsHot DEF AnyStep
<1> QED BY <1>2, <1>3, <1>4, <1>5, <1>6 DEF S!Next

-----------------------------------------------------------------------------
(* Registrations and reservations.                                         *)

BlockFits(reg, dirs) ==
  reg.theBlockingDir # "none" => Other(reg.theBlockingDir) \in dirs

RegFits(reg, dirs) ==
  /\ reg \in Regs
  /\ reg.theResCount = Cardinality(dirs)
  /\ BlockFits(reg, dirs)

LEMMA SizesOfDirs ==
  /\ Cardinality({}) = 0
  /\ \A dir \in Dirs : Cardinality({dir}) = 1
  /\ Cardinality(Dirs) = 2
<1>1. Cardinality({}) = 0
  BY FS_EmptySet
<1>2. \A x : IsFiniteSet({x}) /\ Cardinality({x}) = 1
  BY FS_Singleton
<1>3. Dirs = {"read"} \cup {"write"} /\ "write" \notin {"read"}
  BY DEF Dirs
<1> DEFINE one == {"read"}
<1>4. IsFiniteSet(one) /\ Cardinality(one) = 1 /\ "write" \notin one
  BY <1>2, <1>3
<1> HIDE DEF one
<1>5. Cardinality(one \cup {"write"}) = Cardinality(one) + 1
  BY <1>4, FS_AddElement
<1>6. Cardinality(Dirs) = 2
  BY <1>3, <1>4, <1>5 DEF one
<1> QED BY <1>1, <1>2, <1>6

LEMMA SubsetsOfDirs ==
  ASSUME NEW dirs \in SUBSET Dirs
  PROVE  /\ dirs = {} \/ (\E dir \in Dirs : dirs = {dir}) \/ dirs = Dirs
         /\ Cardinality(dirs) \in 0 .. 2
         /\ Cardinality(dirs) = 0 <=> dirs = {}
         /\ \A dir \in Dirs \ dirs :
              Cardinality(dirs \cup {dir}) = Cardinality(dirs) + 1
         /\ \A dir \in dirs :
              /\ Cardinality(dirs \ {dir}) = Cardinality(dirs) - 1
              /\ Cardinality(dirs) = 1 => dirs = {dir}
<1>1. dirs = {} \/ (\E dir \in Dirs : dirs = {dir}) \/ dirs = Dirs
  BY DEF Dirs
<1>2. /\ Cardinality({}) = 0 /\ Cardinality(Dirs) = 2
      /\ \A dir \in Dirs : Cardinality({dir}) = 1
  BY SizesOfDirs
<1>3. CASE dirs = {}
  BY <1>2, <1>3
<1>4. CASE dirs = Dirs
  <2>1. \A dir \in Dirs : \E o \in Dirs : Dirs \ {dir} = {o}
    BY DEF Dirs
  <2> QED BY <1>2, <1>4, <2>1
<1>5. ASSUME NEW d \in Dirs, dirs = {d}
      PROVE  /\ Cardinality(dirs) = 1
             /\ \A dir \in Dirs \ dirs : dirs \cup {dir} = Dirs
             /\ \A dir \in dirs : dirs \ {dir} = {}
  BY <1>2, <1>5 DEF Dirs
<1> QED BY <1>1, <1>2, <1>3, <1>4, <1>5

LEMMA ResetFits == RegFits(ResetReg, {})
BY SizesOfDirs DEF RegFits, BlockFits, ResetReg, Regs

(* setFD of a direction that is not reserved yet.                          *)
LEMMA SetFits ==
  ASSUME NEW reg, NEW dirs \in SUBSET Dirs, RegFits(reg, dirs),
         NEW dir \in Dirs \ dirs
  PROVE  RegFits(RegSet(reg, dir), dirs \cup {dir})
<1>1. /\ Cardinality(dirs) \in 0 .. 2
      /\ Cardinality(dirs \cup {dir}) = Cardinality(dirs) + 1
      /\ Cardinality(dirs \cup {dir}) \in 0 .. 2
  BY SubsetsOfDirs
<1>2. RegSet(reg, dir) \in Regs
  BY <1>1 DEF RegSet, RegFits, Regs, Rearmed
<1>3. RegSet(reg, dir).theResCount = Cardinality(dirs) + 1
  BY DEF RegSet, RegFits, Regs
<1>4. RegSet(reg, dir).theBlockingDir \in {"none", reg.theBlockingDir}
  BY DEF RegSet, RegFits, Regs
<1>5. BlockFits(RegSet(reg, dir), dirs \cup {dir})
  BY <1>4 DEF BlockFits, RegFits
<1> QED BY <1>1, <1>2, <1>3, <1>5 DEF RegFits

(* socksStart() and setFD of a descriptor nobody has reservations for.     *)
LEMMA SocksFits ==
  ASSUME NEW reg, RegFits(reg, {}), NEW dir \in Dirs
  PROVE  RegFits(RegSet(RegBlockedOn(reg, "write"), dir), {dir})
<1>1. reg \in Regs /\ reg.theResCount = 0 /\ reg.theBlockingDir = "none"
  BY SizesOfDirs DEF RegFits, BlockFits
<1> DEFINE r == RegBlockedOn(reg, "write")
<1>2. r \in Regs /\ r.theResCount = 0 /\ r.theBlockingDir = "write"
  BY <1>1 DEF RegBlockedOn, Regs, Dirs, Other
<1> HIDE DEF r
<1>3. /\ RegSet(r, dir) \in Regs
      /\ RegSet(r, dir).theResCount = 1
      /\ RegSet(r, dir).theBlockingDir = IF dir = "write" THEN "none" ELSE "write"
  <2>1. Rearmed(r.timer) \in {"off", "armed", "expired"}
    BY <1>2 DEF Regs, Rearmed
  <2>2. RegSet(r, dir).theResCount = 1
    BY <1>2 DEF RegSet, Regs
  <2>3. RegSet(r, dir).theBlockingDir = IF dir = "write" THEN "none" ELSE "write"
    BY <1>2 DEF RegSet, Regs
  <2>4. RegSet(r, dir) \in Regs
    <3>1. r.theResCount + 1 \in 0 .. 2
      BY <1>2
    <3>2. (IF r.theResCount = 0 /\ r.theBlockingDir = dir
           THEN "none" ELSE r.theBlockingDir) \in Dirs \cup {"none"}
      BY <1>2 DEF Dirs
    <3> QED BY <1>2, <2>1, <3>1, <3>2 DEF RegSet, Regs
  <2> QED BY <2>2, <2>3, <2>4
<1>4. BlockFits(RegSet(r, dir), {dir})
  BY <1>3 DEF BlockFits, Other, Dirs
<1>5. RegFits(RegSet(r, dir), {dir})
  BY <1>3, <1>4, SizesOfDirs DEF RegFits
<1> QED BY <1>5 DEF r

(* clearFD of a reserved direction.                                        *)
LEMMA ClearFits ==
  ASSUME NEW reg, NEW dirs \in SUBSET Dirs, RegFits(reg, dirs),
         NEW dir \in dirs
  PROVE  RegFits(RegClear(reg, dir), dirs \ {dir})
<1>1. /\ Cardinality(dirs) \in 0 .. 2
      /\ Cardinality(dirs \ {dir}) = Cardinality(dirs) - 1
      /\ Cardinality(dirs) # 0
      /\ Cardinality(dirs) = 1 => dirs \ {dir} = {}
  BY SubsetsOfDirs
<1>2. CASE reg.theResCount = 1
  BY <1>1, <1>2, ResetFits DEF RegClear, RegFits
<1>3. CASE reg.theResCount # 1
  <2>1. RegClear(reg, dir) \in Regs
    <3>1. /\ reg \in Regs /\ reg.theResCount \in 1 .. 2
          /\ reg.theResCount - 1 \in 0 .. 2
      BY <1>1, <1>3 DEF RegFits
    <3>2. reg.timer \in {"off", "armed", "expired"}
      BY <3>1 DEF Regs
    <3>3. Rearmed(reg.timer) \in {"off", "armed", "expired"}
      BY <3>2 DEF Rearmed
    <3>4. (reg.isForcedReady /\ dir # "read") \in BOOLEAN
      OBVIOUS
    <3> QED BY <1>3, <3>1, <3>3, <3>4 DEF RegClear, Regs
  <2>2. RegClear(reg, dir).theResCount = Cardinality(dirs) - 1
    BY <1>3 DEF RegClear, RegFits, Regs
  <2>3. RegClear(reg, dir).theBlockingDir
          = IF dir = Other(reg.theBlockingDir) THEN "none" ELSE reg.theBlockingDir
    BY <1>3 DEF RegClear, RegFits, Regs
  <2>4. BlockFits(RegClear(reg, dir), dirs \ {dir})
    BY <2>3 DEF BlockFits, RegFits
  <2> QED BY <1>1, <2>1, <2>2, <2>4 DEF RegFits
<1> QED BY <1>2, <1>3

(* Both directions are given up.                                           *)
LEMMA ClearAllFits ==
  ASSUME NEW reg, NEW dirs \in SUBSET Dirs, RegFits(reg, dirs)
  PROVE  RegFits(RegClearAll(reg), {})
<1>1. Cardinality(dirs) = 0 <=> dirs = {}
  BY SubsetsOfDirs
<1> QED BY <1>1, ResetFits DEF RegClearAll, RegFits

(* The I/O of a reserved direction needs the other one.                    *)
LEMMA BlockedFits ==
  ASSUME NEW reg, NEW dirs \in SUBSET Dirs, RegFits(reg, dirs),
         NEW dir \in dirs
  PROVE  RegFits(RegBlockedOn(reg, Other(dir)), dirs)
<1>1. /\ RegBlockedOn(reg, Other(dir)) \in Regs
      /\ RegBlockedOn(reg, Other(dir)).theResCount = reg.theResCount
      /\ RegBlockedOn(reg, Other(dir)).theBlockingDir \in {reg.theBlockingDir, Other(dir)}
  BY DEF RegBlockedOn, RegFits, Regs, Other, Dirs
<1>2. Other(Other(dir)) = dir
  BY DEF Other, Dirs
<1> QED BY <1>1, <1>2 DEF RegFits, BlockFits

(* A user is called.                                                       *)
LEMMA NotifiedFits ==
  ASSUME NEW reg, NEW dirs \in SUBSET Dirs, RegFits(reg, dirs),
         NEW dir \in Dirs
  PROVE  RegFits(RegNotified(reg, dir), dirs) /\ MethodFor(reg, dir) \in Dirs
<1>1. /\ RegNotified(reg, dir) \in Regs
      /\ RegNotified(reg, dir).theResCount = reg.theResCount
      /\ RegNotified(reg, dir).theBlockingDir \in {reg.theBlockingDir, "none"}
  BY DEF RegNotified, RegFits, Regs, Rearmed
<1>2. MethodFor(reg, dir) \in Dirs
  BY DEF MethodFor, Other, Dirs
<1> QED BY <1>1, <1>2 DEF RegFits, BlockFits

(* theMaxFD reaches all descriptors that are used.                         *)
LEMMA MaxFdReaches ==
  ASSUME theMaxFD \in FDs \cup {-1}, NEW dirs
  PROVE  /\ MaxFdAfter(dirs) \in FDs \cup {-1}
         /\ \A fd \in Used(dirs) : fd <= MaxFdAfter(dirs)
<1> DEFINE above == {fd \in Used(dirs) : fd > theMaxFD}
           below == {fd \in Used(dirs) : fd <= theMaxFD}
<1>1. FDs \subseteq Nat /\ IsFiniteSet(FDs)
  BY FDsAssumption
<1>2. Used(dirs) \subseteq FDs
  BY DEF Used
<1>3. /\ above \in SUBSET Nat /\ IsFiniteSet(above)
      /\ below \in SUBSET Nat /\ IsFiniteSet(below)
  BY <1>1, <1>2, FS_Subset
<1>4. /\ above # {} => Max(above) \in above /\ \A x \in above : x <= Max(above)
      /\ below # {} => Max(below) \in below /\ \A x \in below : x <= Max(below)
  BY <1>3, MaxOfNaturals
<1>5. MaxFdAfter(dirs) =
        IF above # {} THEN Max(above)
        ELSE IF theMaxFD \in FDs /\ dirs[theMaxFD] = {} /\ interests[theMaxFD] # {}
             THEN IF below = {} THEN -1 ELSE Max(below)
             ELSE theMaxFD
  BY DEF MaxFdAfter
<1>6. theMaxFD \in Int /\ \A fd \in Used(dirs) : fd \in Int
  <2>1. theMaxFD \in Nat \/ theMaxFD = -1
    BY <1>1
  <2>2. \A fd \in Used(dirs) : fd \in Nat
    BY <1>1, <1>2
  <2> QED BY <2>1, <2>2
<1> QED BY <1>1, <1>2, <1>4, <1>5, <1>6

(* What a scanner knows of its users is right.                             *)
RegPart ==
  /\ theRegs \in [FDs -> Regs]
  /\ interests \in [FDs -> SUBSET Dirs]
  /\ theMaxFD \in FDs \cup {-1}
  /\ RegsAgree
  /\ BlockedIsWaiting

LEMMA RegPartFits ==
  ASSUME RegPart, NEW fd \in FDs
  PROVE  /\ RegFits(theRegs[fd], interests[fd])
         /\ interests[fd] \in SUBSET Dirs
BY DEF RegPart, RegsAgree, BlockedIsWaiting, RegFits, BlockFits

(* The users of a descriptor change.                                       *)
LEMMA RegisterKeeps ==
  ASSUME RegPart,
         NEW fd \in FDs, NEW reg, NEW dirs \in SUBSET Dirs,
         RegFits(reg, dirs), Register(fd, reg, dirs),
         dirs # {} => fd \in open',
         open \ {fd} \subseteq open'
  PROVE  RegPart'
<1>1. /\ theRegs' = [theRegs EXCEPT ![fd] = reg]
      /\ interests' = [interests EXCEPT ![fd] = dirs]
      /\ theMaxFD' = MaxFdAfter(interests')
  BY DEF Register
<1>2. /\ theRegs' \in [FDs -> Regs] /\ interests' \in [FDs -> SUBSET Dirs]
  BY <1>1 DEF RegPart, RegFits
<1>3. /\ theMaxFD' \in FDs \cup {-1}
      /\ \A f \in Used(interests') : f <= theMaxFD'
  BY <1>1, MaxFdReaches DEF RegPart
<1>4. ASSUME NEW f \in FDs
      PROVE  RegFits(theRegs'[f], interests'[f])
  BY <1>1, RegPartFits DEF RegPart
<1>5. ASSUME NEW f \in FDs, interests'[f] # {}
      PROVE  f \in open' /\ f <= theMaxFD'
  <2>1. f \in open'
    BY <1>1, <1>5 DEF RegPart, RegsAgree
  <2> QED BY <1>3, <1>5, <2>1 DEF Used
<1>6. RegsAgree'
  BY <1>4, <1>5 DEF RegsAgree, RegFits
<1>7. BlockedIsWaiting'
  BY <1>4 DEF BlockedIsWaiting, RegFits, BlockFits
<1> QED BY <1>2, <1>3, <1>6, <1>7 DEF RegPart

(* A registration changes, and its users stay.                             *)
LEMMA RegChangeKeeps ==
  ASSUME RegPart,
         NEW fd \in FDs, NEW reg, RegFits(reg, interests[fd]),
         theRegs' = [theRegs EXCEPT ![fd] = reg],
         interests' = interests, theMaxFD' = theMaxFD, open' = open
  PROVE  RegPart'
<1>1. theRegs' \in [FDs -> Regs]
  BY DEF RegPart, RegFits
<1>2. ASSUME NEW f \in FDs
      PROVE  RegFits(theRegs'[f], interests'[f])
  BY RegPartFits DEF RegPart
<1>3. RegsAgree'
  BY <1>2 DEF RegsAgree, RegFits, RegPart
<1>4. BlockedIsWaiting'
  BY <1>2 DEF BlockedIsWaiting, RegFits, BlockFits
<1> QED BY <1>1, <1>3, <1>4 DEF RegPart

LEMMA UserKeepsRegs ==
  ASSUME RegPart, UserAction
  PROVE  RegPart'
<1>1. ASSUME NEW fd \in FDs, NEW dir \in Dirs, NEW socks \in BOOLEAN,
             BaseConnect(fd, dir, socks)
      PROVE  RegPart'
  <2>1. fd \notin open /\ open' = open \cup {fd}
    BY <1>1 DEF BaseConnect
  <2>2. interests[fd] = {}
    BY <2>1 DEF RegPart, RegsAgree
  <2>3. RegFits(theRegs[fd], {})
    BY <2>2, RegPartFits
  <2> DEFINE reg == IF socks THEN RegBlockedOn(theRegs[fd], "write") ELSE theRegs[fd]
  <2>4. Register(fd, RegSet(reg, dir), {dir})
    BY <1>1 DEF BaseConnect
  <2>5. RegFits(RegSet(reg, dir), {dir})
    <3>1. RegFits(RegSet(theRegs[fd], dir), {} \cup {dir})
      BY <2>3, SetFits
    <3>2. RegFits(RegSet(theRegs[fd], dir), {dir})
      BY <3>1
    <3> QED BY <2>3, <3>2, SocksFits
  <2> HIDE DEF reg
  <2> DEFINE new == RegSet(reg, dir)  now == {dir}
  <2>6. /\ RegFits(new, now) /\ Register(fd, new, now) /\ now \in SUBSET Dirs
        /\ now # {} => fd \in open'
        /\ open \ {fd} \subseteq open'
    BY <2>1, <2>4, <2>5
  <2> HIDE DEF new, now
  <2> QED BY <2>6, RegisterKeeps
<1>2. ASSUME NEW fd \in FDs, NEW dir \in Dirs, BaseSetFD(fd, dir)
      PROVE  RegPart'
  <2> DEFINE new == RegSet(theRegs[fd], dir)  now == interests[fd] \cup {dir}
  <2>1. RegFits(new, now) /\ now \in SUBSET Dirs
    BY <1>2, RegPartFits, SetFits DEF BaseSetFD
  <2>2. /\ Register(fd, new, now)
        /\ now # {} => fd \in open'
        /\ open \ {fd} \subseteq open'
    BY <1>2 DEF BaseSetFD
  <2> HIDE DEF new, now
  <2> QED BY <2>1, <2>2, RegisterKeeps
<1>3. ASSUME NEW fd \in FDs, NEW dir \in Dirs, BaseClearFD(fd, dir)
      PROVE  RegPart'
  <2> DEFINE new == RegClear(theRegs[fd], dir)  now == interests[fd] \ {dir}
  <2>1. RegFits(new, now) /\ now \in SUBSET Dirs
    BY <1>3, RegPartFits, ClearFits DEF BaseClearFD
  <2>2. /\ Register(fd, new, now)
        /\ now # {} => fd \in open'
        /\ open \ {fd} \subseteq open'
    BY <1>3 DEF BaseClearFD
  <2> HIDE DEF new, now
  <2> QED BY <2>1, <2>2, RegisterKeeps
<1>4. ASSUME NEW fd \in FDs, BaseClose(fd)
      PROVE  RegPart'
  <2> DEFINE new == RegClearAll(theRegs[fd])  now == {}
  <2>1. RegFits(new, now) /\ now \in SUBSET Dirs
    BY RegPartFits, ClearAllFits
  <2>2. /\ Register(fd, new, now)
        /\ now # {} => fd \in open'
        /\ open \ {fd} \subseteq open'
    BY <1>4 DEF BaseClose
  <2> HIDE DEF new, now
  <2> QED BY <2>1, <2>2, RegisterKeeps
<1>5. ASSUME NEW fd \in FDs, BaseBlockedOn(fd)
      PROVE  RegPart'
  <2> DEFINE new == RegBlockedOn(theRegs[fd], Other(call.method))
  <2>1. /\ call.method \in interests[fd]
        /\ theRegs' = [theRegs EXCEPT ![fd] = new]
        /\ interests' = interests /\ theMaxFD' = theMaxFD /\ open' = open
    BY <1>5 DEF BaseBlockedOn
  <2>2. RegFits(new, interests[fd])
    BY <2>1, RegPartFits, BlockedFits
  <2> HIDE DEF new
  <2> QED BY <2>1, <2>2, RegChangeKeeps
<1> QED BY <1>1, <1>2, <1>3, <1>4, <1>5 DEF UserAction

(* A field that neither counts reservations nor marks blocking changes.    *)
LEMMA OtherFieldFits ==
  ASSUME NEW reg, NEW dirs, RegFits(reg, dirs)
  PROVE  /\ RegFits([reg EXCEPT !.thePriority = "bestEffort"], dirs)
         /\ \A t \in {"off", "armed", "expired"} :
              RegFits([reg EXCEPT !.timer = t], dirs)
         /\ RegFits([reg EXCEPT !.isForcedReady = TRUE], dirs)
BY DEF RegFits, BlockFits, Regs

LEMMA LoopKeepsRegs ==
  ASSUME RegPart, CurIsKnown, LoopAction
  PROVE  RegPart'
<1>1. ASSUME NEW fd \in FDs, NEW dir \in Dirs, NEW r, Notify(fd, dir, r),
             interests' = interests, theMaxFD' = theMaxFD, open' = open
      PROVE  RegPart'
  <2>1. CASE r
    <3> DEFINE new == RegNotified(theRegs[fd], dir)
    <3>1. theRegs' = [theRegs EXCEPT ![fd] = new]
      BY <1>1, <2>1 DEF Notify
    <3>2. RegFits(new, interests[fd])
      BY RegPartFits, NotifiedFits
    <3> HIDE DEF new
    <3> QED BY <1>1, <3>1, <3>2, RegChangeKeeps
  <2>2. CASE ~r
    <3>1. theRegs' = theRegs
      BY <1>1, <2>2 DEF Notify
    <3> QED BY <1>1, <3>1 DEF RegPart, RegsAgree, BlockedIsWaiting
  <2> QED BY <2>1, <2>2
<1>2. ASSUME NEW found, BaseSweep(found)
      PROVE  RegPart'
  BY <1>2 DEF BaseSweep, RegPart, RegsAgree, BlockedIsWaiting
<1>3. ASSUME NEW fd \in FDs, NEW r, LoopRead(fd, r)
      PROVE  RegPart'
  BY <1>1, <1>3 DEF LoopRead, Dirs
<1>4. ASSUME NEW r, LoopWrite(r)
      PROVE  RegPart'
  BY <1>1, <1>4 DEF LoopWrite, Dirs, CurIsKnown
<1> QED BY <1>2, <1>3, <1>4 DEF LoopAction

LEMMA BaseStepKeepsRegs ==
  ASSUME RegPart, BaseStep
  PROVE  RegPart'
<1>1. ASSUME NEW fd \in FDs, NEW reg, RegFits(reg, interests[fd]), SetReg(fd, reg)
      PROVE  RegPart'
  BY <1>1, RegChangeKeeps DEF SetReg
<1>2. ASSUME NEW fd \in FDs,
             SetPriority(fd) \/ SetTimeout(fd) \/ ClearTimeout(fd) \/ ForceReady(fd)
      PROVE  RegPart'
  <2>1. RegFits(theRegs[fd], interests[fd])
    BY RegPartFits
  <2> QED BY <1>1, <1>2, <2>1, OtherFieldFits
          DEF SetPriority, SetTimeout, ClearTimeout, ForceReady
<1>3. ASSUME NEW fd \in FDs, TimePasses(fd)
      PROVE  RegPart'
  <2> DEFINE new == [theRegs[fd] EXCEPT !.timer = "expired"]
  <2>1. RegFits(new, interests[fd])
    BY RegPartFits, OtherFieldFits
  <2>2. theRegs' = [theRegs EXCEPT ![fd] = new]
    BY <1>3 DEF TimePasses, RegPart
  <2> HIDE DEF new
  <2> QED BY <1>3, <2>1, <2>2, RegChangeKeeps DEF TimePasses
<1>4. ASSUME UNCHANGED <<theRegs, interests, theMaxFD, open>>
      PROVE  RegPart'
  BY <1>4 DEF RegPart, RegsAgree, BlockedIsWaiting
<1> QED BY <1>2, <1>3, <1>4
        DEF BaseStep, SocketChanges, Return, LoopEnds,
            CheckTimeouts

(* The rest of the types: the cycle, the callback and the sockets.         *)
CyclePart ==
  /\ urgent \in BOOLEAN
  /\ scanCount \in 0 .. PrioritySched - 1
  /\ pc \in {"idle", "loop", "write", "timeouts"}
  /\ cur \in FDs \cup {-1}
  /\ hot \in [FDs -> SUBSET Conditions]
  /\ call \in [fd : FDs, method : Dirs \cup {"timeout"}] \cup {NoCall}
  /\ open \subseteq FDs
  /\ ready \in [FDs -> SUBSET Conditions]
  /\ reopenable \subseteq FDs
  /\ CurIsKnown

LEMMA SchedFacts ==
  /\ 0 \in 0 .. PrioritySched - 1
  /\ \A n \in Nat : (n + 1) % PrioritySched \in 0 .. PrioritySched - 1
BY OptsAssumption

LEMMA UserKeepsCycle ==
  ASSUME CyclePart, RegPart, UserAction, hot' \in [FDs -> SUBSET Conditions]
  PROVE  CyclePart'
<1>1. ASSUME NEW fd \in FDs, NEW dir \in Dirs, NEW socks \in BOOLEAN,
             BaseConnect(fd, dir, socks)
      PROVE  CyclePart'
  BY <1>1 DEF BaseConnect, cycle, CyclePart, CurIsKnown
<1>2. ASSUME NEW fd \in FDs, NEW dir \in Dirs, BaseSetFD(fd, dir)
      PROVE  CyclePart'
  BY <1>2 DEF BaseSetFD, cycle, CyclePart, CurIsKnown
<1>3. ASSUME NEW fd \in FDs, NEW dir \in Dirs, BaseClearFD(fd, dir)
      PROVE  CyclePart'
  BY <1>3 DEF BaseClearFD, CyclePart, CurIsKnown
<1>4. ASSUME NEW fd \in FDs, BaseClose(fd)
      PROVE  CyclePart'
  BY <1>4 DEF BaseClose, CyclePart, CurIsKnown
<1>5. ASSUME NEW fd \in FDs, BaseBlockedOn(fd)
      PROVE  CyclePart'
  BY <1>5 DEF BaseBlockedOn, cycle, CyclePart, CurIsKnown
<1> QED BY <1>1, <1>2, <1>3, <1>4, <1>5 DEF UserAction

LEMMA LoopKeepsCycle ==
  ASSUME CyclePart, RegPart, LoopAction,
         urgent' \in BOOLEAN, hot' \in [FDs -> SUBSET Conditions]
  PROVE  CyclePart'
<1>1. ASSUME NEW found, BaseSweep(found)
      PROVE  CyclePart'
  <2>1. scanCount' \in 0 .. PrioritySched - 1
    BY <1>1, SchedFacts DEF BaseSweep, NextScanCount, CyclePart
  <2> QED BY <1>1, <2>1 DEF BaseSweep, CyclePart, CurIsKnown
<1>2. ASSUME NEW fd \in FDs, NEW dir \in Dirs, NEW r, Notify(fd, dir, r)
      PROVE  call' \in [fd : FDs, method : Dirs \cup {"timeout"}] \cup {NoCall}
  <2>1. MethodFor(theRegs[fd], dir) \in Dirs
    BY DEF MethodFor, Other, Dirs
  <2> QED BY <1>2, <2>1 DEF Notify, CyclePart
<1>3. ASSUME NEW fd \in FDs, NEW r, LoopRead(fd, r)
      PROVE  CyclePart'
  <2>1. call' \in [fd : FDs, method : Dirs \cup {"timeout"}] \cup {NoCall}
    BY <1>2, <1>3 DEF LoopRead, Dirs
  <2> QED BY <1>3, <2>1 DEF LoopRead, CyclePart, CurIsKnown
<1>4. ASSUME NEW r, LoopWrite(r)
      PROVE  CyclePart'
  <2>1. call' \in [fd : FDs, method : Dirs \cup {"timeout"}] \cup {NoCall}
    BY <1>2, <1>4 DEF LoopWrite, Dirs, CyclePart, CurIsKnown
  <2> QED BY <1>4, <2>1 DEF LoopWrite, CyclePart, CurIsKnown
<1> QED BY <1>1, <1>3, <1>4 DEF LoopAction

LEMMA BaseStepKeepsCycle ==
  ASSUME CyclePart, RegPart, BaseStep
  PROVE  CyclePart'
<1>1. ASSUME NEW fd \in FDs,
             SetPriority(fd) \/ SetTimeout(fd) \/ ClearTimeout(fd) \/ ForceReady(fd)
      PROVE  CyclePart'
  BY <1>1 DEF SetPriority, SetTimeout, ClearTimeout, ForceReady, SetReg, cycle,
              CyclePart, CurIsKnown
<1>2. ASSUME NEW fd \in FDs, TimePasses(fd)
      PROVE  CyclePart'
  BY <1>2 DEF TimePasses, cycle, CyclePart, CurIsKnown
<1>3. ASSUME NEW fd \in FDs, SocketChanges(fd)
      PROVE  CyclePart'
  BY <1>3 DEF SocketChanges, cycle, CyclePart, CurIsKnown
<1>4. CASE Return \/ LoopEnds
  BY <1>4, SchedFacts
  DEF Return, LoopEnds, cycle, CyclePart, CurIsKnown
<1>5. CASE CheckTimeouts
  <2>1. Late \in SUBSET Nat /\ Late \subseteq FDs
    BY FDsAssumption DEF Late
  <2>2. Late # {} => Min(Late) \in FDs
    BY <2>1, MinOfNaturals
  <2>3. CASE Late # {}
    BY <1>5, <2>2, <2>3 DEF CheckTimeouts, CyclePart, CurIsKnown
  <2>4. CASE Late = {}
    BY <1>5, <2>4 DEF CheckTimeouts, CyclePart, CurIsKnown
  <2> QED BY <2>3, <2>4
<1> QED BY <1>1, <1>2, <1>3, <1>4, <1>5 DEF BaseStep

(* The inductive invariant of all scanners.                                *)
BaseInv == BaseTypeOK /\ CurIsKnown /\ RegsAgree /\ BlockedIsWaiting

LEMMA BaseInvParts == BaseInv <=> RegPart /\ CyclePart
BY DEF BaseInv, BaseTypeOK, RegPart, CyclePart

LEMMA AnyStepKeepsBase ==
  ASSUME BaseInv, AnyStep,
         urgent' \in BOOLEAN, hot' \in [FDs -> SUBSET Conditions]
  PROVE  BaseInv'
<1>1. RegPart /\ CyclePart /\ CurIsKnown
  BY BaseInvParts DEF BaseInv
<1>2. RegPart'
  BY <1>1, UserKeepsRegs, LoopKeepsRegs, BaseStepKeepsRegs DEF AnyStep
<1>3. CyclePart'
  BY <1>1, UserKeepsCycle, LoopKeepsCycle, BaseStepKeepsCycle DEF AnyStep
<1> QED BY <1>2, <1>3 DEF BaseInv, BaseTypeOK, RegPart, CyclePart
-----------------------------------------------------------------------------
(* Epoll.                                                                  *)

(* What the kernel is asked to watch for a user.                           *)
WatchedFor(reg, dirs) ==
  IF dirs = {} THEN {}
  ELSE IF reg.theBlockingDir # "none" THEN {reg.theBlockingDir}
  ELSE dirs

(* What the sweep reported is for the present user of the descriptor, or   *)
(* is known to be outdated.                                                *)
EpollHotIsCurrent ==
  \A fd \in FDs :
    hot[fd] # {} => fd \in cleared \/ (interests[fd] # {} /\ fd \notin reopenable)

EpollPart ==
  /\ watched \in [FDs -> SUBSET Dirs]
  /\ cleared \subseteq FDs
  /\ \A fd \in FDs : watched[fd] = WatchedFor(theRegs[fd], interests[fd])
  /\ EpollHotIsCurrent

LEMMA KernelInLineMeans ==
  E!KernelInLine <=> \A fd \in FDs : watched[fd] = WatchedFor(theRegs[fd], interests[fd])
BY DEF E!KernelInLine, E!Blocked, WatchedFor

(* One descriptor and its user change.                                     *)
LEMMA OneWatchChanges ==
  ASSUME EpollPart, RegPart, RegPart',
         NEW fd \in FDs, NEW dirs,
         \A f \in FDs \ {fd} : theRegs'[f] = theRegs[f] /\ interests'[f] = interests[f],
         watched' = [watched EXCEPT ![fd] = dirs],
         dirs = WatchedFor(theRegs'[fd], interests'[fd])
  PROVE  /\ watched' \in [FDs -> SUBSET Dirs]
         /\ \A f \in FDs : watched'[f] = WatchedFor(theRegs'[f], interests'[f])
<1>1. theRegs'[fd] \in Regs /\ interests'[fd] \in SUBSET Dirs
  BY DEF RegPart
<1>2. dirs \in SUBSET Dirs
  BY <1>1 DEF WatchedFor, Regs
<1> QED BY <1>2 DEF EpollPart

LEMMA EpollConnectKeeps ==
  ASSUME EpollPart, RegPart, RegPart',
         NEW fd \in FDs, NEW dir \in Dirs, NEW socks \in BOOLEAN,
         BaseConnect(fd, dir, socks), E!Connect(fd, dir, socks)
  PROVE  EpollPart'
<1> DEFINE reg == IF socks THEN RegBlockedOn(theRegs[fd], "write") ELSE theRegs[fd]
<1>1. /\ fd \notin open
      /\ theRegs' = [theRegs EXCEPT ![fd] = RegSet(reg, dir)]
      /\ interests' = [interests EXCEPT ![fd] = {dir}]
      /\ reopenable' = reopenable /\ hot' = hot
  BY DEF BaseConnect, Register, cycle
<1>2. interests[fd] = {} /\ interests'[fd] = {dir}
  BY <1>1 DEF RegPart, RegsAgree
<1>3. RegFits(theRegs[fd], {})
  BY <1>2, RegPartFits
<1>4. /\ theRegs[fd] \in Regs /\ theRegs[fd].theResCount = 0
      /\ theRegs[fd].theBlockingDir = "none"
  BY <1>3, SizesOfDirs DEF RegFits, BlockFits
<1>5. theRegs'[fd].theBlockingDir = IF socks /\ dir = "read" THEN "write" ELSE "none"
  <2>1. /\ reg \in Regs /\ reg.theResCount = 0
        /\ reg.theBlockingDir = IF socks THEN "write" ELSE "none"
    BY <1>4 DEF RegBlockedOn, Regs, Dirs, Other
  <2>2. theRegs'[fd] = RegSet(reg, dir)
    BY <1>1 DEF RegPart
  <2> HIDE DEF reg
  <2> QED BY <2>1, <2>2 DEF RegSet, Regs, Dirs
<1>6. /\ watched' = [watched EXCEPT ![fd] = IF socks THEN {"write"} ELSE {dir}]
      /\ cleared' = cleared
  BY <1>2 DEF E!Connect, E!Watch
<1>7. (IF socks THEN {"write"} ELSE {dir}) = WatchedFor(theRegs'[fd], interests'[fd])
  BY <1>2, <1>5 DEF WatchedFor, Dirs
<1>8. \A f \in FDs \ {fd} : theRegs'[f] = theRegs[f] /\ interests'[f] = interests[f]
  BY <1>1 DEF RegPart
<1> HIDE DEF reg
<1>9. /\ watched' \in [FDs -> SUBSET Dirs]
      /\ \A f \in FDs : watched'[f] = WatchedFor(theRegs'[f], interests'[f])
  BY <1>6, <1>7, <1>8, OneWatchChanges
<1>10. EpollHotIsCurrent'
  BY <1>1, <1>2, <1>6, <1>8 DEF EpollHotIsCurrent, EpollPart
<1> QED BY <1>6, <1>9, <1>10 DEF EpollPart

LEMMA EpollSetFDKeeps ==
  ASSUME EpollPart, RegPart, RegPart',
         NEW fd \in FDs, NEW dir \in Dirs,
         BaseSetFD(fd, dir), E!SetFD(fd, dir)
  PROVE  EpollPart'
<1>1. /\ theRegs' = [theRegs EXCEPT ![fd] = RegSet(theRegs[fd], dir)]
      /\ interests' = [interests EXCEPT ![fd] = interests[fd] \cup {dir}]
      /\ reopenable' = reopenable /\ hot' = hot
  BY DEF BaseSetFD, Register, cycle
<1>2. /\ RegFits(theRegs[fd], interests[fd])
      /\ interests[fd] \in SUBSET Dirs
      /\ Cardinality(interests[fd]) = 0 <=> interests[fd] = {}
  BY RegPartFits, SubsetsOfDirs
<1> DEFINE block == theRegs[fd].theBlockingDir
<1>3. block # "none" => interests[fd] # {} /\ theRegs[fd].theResCount # 0
  BY <1>2 DEF RegFits, BlockFits
<1>4. theRegs'[fd].theBlockingDir = block
  <2>1. theRegs[fd] \in Regs /\ theRegs'[fd] = RegSet(theRegs[fd], dir)
    BY <1>1 DEF RegPart
  <2>2. theRegs'[fd].theBlockingDir
          = IF theRegs[fd].theResCount = 0 /\ block = dir THEN "none" ELSE block
    BY <2>1 DEF RegSet, Regs
  <2> QED BY <1>3, <2>2 DEF Dirs
<1>5. interests'[fd] = interests[fd] \cup {dir}
  BY <1>1 DEF RegPart
<1>6. watched[fd] = WatchedFor(theRegs[fd], interests[fd])
  BY DEF EpollPart
<1> DEFINE new == IF block = "none" THEN interests'[fd]
                  ELSE IF interests[fd] = {} THEN {block} ELSE watched[fd]
<1>7. watched' = [watched EXCEPT ![fd] = new] /\ cleared' = cleared
  BY DEF E!SetFD, E!Watch
<1>8. new = WatchedFor(theRegs'[fd], interests'[fd])
  BY <1>3, <1>4, <1>5, <1>6 DEF WatchedFor
<1>9. \A f \in FDs \ {fd} : theRegs'[f] = theRegs[f] /\ interests'[f] = interests[f]
  BY <1>1 DEF RegPart
<1> HIDE DEF new
<1>10. /\ watched' \in [FDs -> SUBSET Dirs]
       /\ \A f \in FDs : watched'[f] = WatchedFor(theRegs'[f], interests'[f])
  BY <1>7, <1>8, <1>9, OneWatchChanges
<1>11. EpollHotIsCurrent'
  BY <1>1, <1>5, <1>7, <1>9 DEF EpollHotIsCurrent, EpollPart
<1> QED BY <1>7, <1>10, <1>11 DEF EpollPart

(* Reservations of fd are given up: all of them, or one of two.            *)
LEMMA UnwatchKeeps ==
  ASSUME EpollPart, RegPart, RegPart',
         NEW fd \in FDs, NEW dirs \in SUBSET interests[fd], NEW reg,
         theRegs' = [theRegs EXCEPT ![fd] = reg],
         interests' = [interests EXCEPT ![fd] = interests[fd] \ dirs],
         interests[fd] \ dirs # {} =>
           \E dir \in interests[fd] :
             /\ dirs = {dir}
             /\ reg.theBlockingDir = IF dir = Other(theRegs[fd].theBlockingDir)
                                     THEN "none" ELSE theRegs[fd].theBlockingDir,
         reopenable' \subseteq reopenable \cup {fd},
         interests[fd] \ dirs # {} => reopenable' = reopenable,
         E!Unwatch(fd)
  PROVE  EpollPart'
<1>1. /\ theRegs'[fd] = reg
      /\ interests'[fd] = interests[fd] \ dirs
      /\ \A f \in FDs \ {fd} : theRegs'[f] = theRegs[f] /\ interests'[f] = interests[f]
  BY DEF RegPart
<1>2. /\ RegFits(theRegs[fd], interests[fd])
      /\ interests[fd] \in SUBSET Dirs
      /\ watched[fd] = WatchedFor(theRegs[fd], interests[fd])
  BY RegPartFits DEF EpollPart
<1> DEFINE block == theRegs[fd].theBlockingDir
           new == IF interests'[fd] = {} THEN {}
                  ELSE IF block # "none" THEN watched[fd] ELSE interests'[fd]
<1>3. /\ watched' = [watched EXCEPT ![fd] = new]
      /\ cleared' = IF interests[fd] # {} /\ interests'[fd] = {}
                    THEN cleared \cup {fd} ELSE cleared
      /\ hot' = hot
  BY DEF E!Unwatch, E!Blocked
<1>4. new = WatchedFor(reg, interests'[fd])
  <2>1. CASE interests'[fd] = {}
    BY <2>1 DEF WatchedFor
  <2>2. CASE interests'[fd] # {} /\ block = "none"
    BY <1>1, <2>2 DEF WatchedFor, Other
  <2>3. CASE interests'[fd] # {} /\ block # "none"
    <3>1. PICK dir \in interests[fd] :
             /\ dirs = {dir}
             /\ reg.theBlockingDir = IF dir = Other(block) THEN "none" ELSE block
      BY <1>1, <2>3
    <3>2. Other(block) \in interests[fd] /\ block \in Dirs
      BY <1>2, <2>3 DEF RegFits, BlockFits, Regs
    <3>3. new = {block}
      BY <1>1, <1>2, <2>3 DEF WatchedFor
    <3>4. CASE dir = Other(block)
      <4>1. interests'[fd] = {block}
        BY <1>1, <1>2, <2>3, <3>1, <3>2, <3>4 DEF Other, Dirs
      <4> QED BY <3>1, <3>3, <3>4, <4>1 DEF WatchedFor
    <3>5. CASE dir # Other(block)
      BY <2>3, <3>1, <3>3, <3>5 DEF WatchedFor
    <3> QED BY <3>4, <3>5
  <2> QED BY <2>1, <2>2, <2>3
<1> HIDE DEF new
<1>5. /\ watched' \in [FDs -> SUBSET Dirs]
      /\ \A f \in FDs : watched'[f] = WatchedFor(theRegs'[f], interests'[f])
  BY <1>1, <1>3, <1>4, OneWatchChanges
<1>6. EpollHotIsCurrent'
  <2> SUFFICES ASSUME NEW f \in FDs, hot'[f] # {}
               PROVE  f \in cleared' \/ (interests'[f] # {} /\ f \notin reopenable')
    BY DEF EpollHotIsCurrent
  <2>1. f \in cleared \/ (interests[f] # {} /\ f \notin reopenable)
    BY <1>3 DEF EpollHotIsCurrent, EpollPart
  <2> QED BY <1>1, <1>3, <2>1
<1> QED BY <1>3, <1>5, <1>6 DEF EpollPart

LEMMA EpollClearFDKeeps ==
  ASSUME EpollPart, RegPart, RegPart',
         NEW fd \in FDs, NEW dir \in Dirs,
         BaseClearFD(fd, dir), E!ClearFD(fd, dir)
  PROVE  EpollPart'
<1> DEFINE reg == RegClear(theRegs[fd], dir)
           dirs == {dir}
<1>1. /\ dir \in interests[fd]
      /\ theRegs' = [theRegs EXCEPT ![fd] = reg]
      /\ interests' = [interests EXCEPT ![fd] = interests[fd] \ dirs]
      /\ reopenable' = reopenable
      /\ E!Unwatch(fd)
  BY DEF BaseClearFD, Register, E!ClearFD
<1>2. interests[fd] \ dirs # {} =>
        reg.theBlockingDir = IF dir = Other(theRegs[fd].theBlockingDir)
                             THEN "none" ELSE theRegs[fd].theBlockingDir
  <2>1. /\ RegFits(theRegs[fd], interests[fd])
        /\ Cardinality(interests[fd]) = 1 => interests[fd] = {dir}
    BY <1>1, RegPartFits, SubsetsOfDirs
  <2>2. interests[fd] \ dirs # {} => theRegs[fd].theResCount # 1
    BY <2>1 DEF RegFits
  <2> QED BY <2>1, <2>2 DEF RegClear, RegFits, Regs
<1>3. dirs \in SUBSET interests[fd]
  BY <1>1
<1>4. interests[fd] \ dirs # {} =>
        \E d \in interests[fd] :
          /\ dirs = {d}
          /\ reg.theBlockingDir = IF d = Other(theRegs[fd].theBlockingDir)
                                  THEN "none" ELSE theRegs[fd].theBlockingDir
  BY <1>1, <1>2
<1> HIDE DEF reg, dirs
<1> QED BY <1>1, <1>3, <1>4, UnwatchKeeps

LEMMA EpollCloseKeeps ==
  ASSUME EpollPart, RegPart, RegPart',
         NEW fd \in FDs, BaseClose(fd), E!Close(fd)
  PROVE  EpollPart'
<1> DEFINE reg == RegClearAll(theRegs[fd])
           dirs == interests[fd]
<1>1. /\ dirs \in SUBSET interests[fd] /\ interests[fd] \ dirs = {}
      /\ theRegs' = [theRegs EXCEPT ![fd] = reg]
      /\ interests' = [interests EXCEPT ![fd] = interests[fd] \ dirs]
      /\ reopenable' \subseteq reopenable \cup {fd}
      /\ E!Unwatch(fd)
  BY DEF BaseClose, Register, E!Close
<1> HIDE DEF reg, dirs
<1> QED BY <1>1, UnwatchKeeps

LEMMA EpollBlockedOnKeeps ==
  ASSUME EpollPart, RegPart, RegPart',
         NEW fd \in FDs, BaseBlockedOn(fd), E!BlockedOn(fd)
  PROVE  EpollPart'
<1> DEFINE new == {theRegs'[fd].theBlockingDir}
<1>1. /\ call.method \in interests[fd]
      /\ theRegs' = [theRegs EXCEPT ![fd] = RegBlockedOn(@, Other(call.method))]
      /\ interests' = interests /\ hot' = hot /\ reopenable' = reopenable
      /\ watched' = [watched EXCEPT ![fd] = new]
      /\ cleared' = cleared
  BY DEF BaseBlockedOn, E!BlockedOn, cycle
<1>2. /\ theRegs'[fd].theBlockingDir # "none"
      /\ \A f \in FDs \ {fd} : theRegs'[f] = theRegs[f] /\ interests'[f] = interests[f]
  BY <1>1 DEF RegPart, RegBlockedOn, Regs, Other, Dirs
<1>3. new = WatchedFor(theRegs'[fd], interests'[fd])
  BY <1>1, <1>2 DEF WatchedFor
<1> HIDE DEF new
<1>4. /\ watched' \in [FDs -> SUBSET Dirs]
      /\ \A f \in FDs : watched'[f] = WatchedFor(theRegs'[f], interests'[f])
  BY <1>1, <1>2, <1>3, OneWatchChanges
<1>5. EpollHotIsCurrent'
  BY <1>1 DEF EpollHotIsCurrent, EpollPart
<1> QED BY <1>1, <1>4, <1>5 DEF EpollPart

(* A user is called, and the kernel watches all its directions again.      *)
LEMMA EpollEventKeeps ==
  ASSUME EpollPart, RegPart, RegPart',
         NEW fd \in FDs, NEW dir \in Dirs,
         Notify(fd, dir, E!ReadyUser(fd, dir)), E!Rewatch(fd, dir),
         interests' = interests, reopenable' = reopenable,
         \A f \in FDs : hot'[f] # {} => hot[f] # {}
  PROVE  EpollPart'
<1>1. cleared' = cleared /\ EpollHotIsCurrent'
  BY DEF E!Rewatch, EpollHotIsCurrent, EpollPart
<1>2. /\ watched' \in [FDs -> SUBSET Dirs]
      /\ \A f \in FDs : watched'[f] = WatchedFor(theRegs'[f], interests'[f])
  <2>1. CASE ~E!ReadyUser(fd, dir)
    BY <2>1 DEF Notify, E!Rewatch, EpollPart
  <2>2. CASE E!ReadyUser(fd, dir)
    <3>1. theRegs' = [theRegs EXCEPT ![fd] = RegNotified(@, dir)]
      BY <2>2 DEF Notify
    <3>2. /\ theRegs[fd] \in Regs
          /\ theRegs'[fd] = RegNotified(theRegs[fd], dir)
          /\ \A f \in FDs \ {fd} : theRegs'[f] = theRegs[f]
      BY <3>1 DEF RegPart
    <3>3. theRegs'[fd].theBlockingDir
            = IF theRegs[fd].theBlockingDir = dir
              THEN "none" ELSE theRegs[fd].theBlockingDir
      BY <3>2 DEF RegNotified, Regs
    <3>4. watched[fd] = WatchedFor(theRegs[fd], interests[fd])
      BY DEF EpollPart
    <3>5. CASE theRegs[fd].theBlockingDir = dir
      <4>1. watched' = [watched EXCEPT ![fd] = interests[fd]]
        BY <2>2, <3>5 DEF E!Rewatch
      <4>2. interests[fd] = WatchedFor(theRegs'[fd], interests'[fd])
        BY <3>3, <3>5 DEF WatchedFor
      <4> QED BY <3>2, <4>1, <4>2, OneWatchChanges
    <3>6. CASE theRegs[fd].theBlockingDir # dir
      <4>1. watched' = watched
        BY <3>6 DEF E!Rewatch
      <4>2. watched[fd] = WatchedFor(theRegs'[fd], interests'[fd])
        BY <3>3, <3>4, <3>6 DEF WatchedFor
      <4> QED BY <3>2, <4>1, <4>2 DEF EpollPart
    <3> QED BY <3>5, <3>6
  <2> QED BY <2>1, <2>2
<1> QED BY <1>1, <1>2 DEF EpollPart

(* The other steps leave alone what scanners look at.                      *)
LEMMA BaseStepKeepsMarks ==
  ASSUME RegPart, BaseStep
  PROVE  /\ interests' = interests /\ reopenable' = reopenable /\ hot' = hot
         /\ \A fd \in FDs : theRegs'[fd].theBlockingDir = theRegs[fd].theBlockingDir
<1>1. interests' = interests /\ reopenable' = reopenable
  BY DEF BaseStep, SetPriority, SetTimeout, ClearTimeout, ForceReady, SetReg,
         SocketChanges, TimePasses, Return, LoopEnds,
         CheckTimeouts
<1>2. ASSUME NEW f \in FDs,
             SetPriority(f) \/ SetTimeout(f) \/ ClearTimeout(f) \/ ForceReady(f)
               \/ TimePasses(f)
      PROVE  \A fd \in FDs : theRegs'[fd].theBlockingDir = theRegs[fd].theBlockingDir
  BY <1>2
  DEF SetPriority, SetTimeout, ClearTimeout, ForceReady, SetReg, TimePasses,
      RegPart, Regs
<1>3. \A fd \in FDs : theRegs'[fd].theBlockingDir = theRegs[fd].theBlockingDir
  BY <1>2
  DEF BaseStep, SocketChanges, Return, LoopEnds, CheckTimeouts
<1> QED BY <1>1, <1>3, BaseStepKeepsHot

LEMMA EpollKeeps ==
  ASSUME EpollPart, BaseInv, BaseInv', TypeOK, ByEpoll, E!Next
  PROVE  EpollPart'
<1>0. fileScan = "epoll" /\ fileScan \in DOMAIN UsesOf
  BY DEF TypeOK, ByEpoll
<1>1. RegPart /\ RegPart' /\ CyclePart
  BY DEF BaseInv, BaseTypeOK, RegPart, CyclePart
<1>2. CASE E!UserStep
  <2>1. ASSUME NEW fd \in FDs, NEW dir \in Dirs, NEW socks \in BOOLEAN,
               E!Connect(fd, dir, socks)
        PROVE  EpollPart'
    BY <1>0, <1>1, <2>1, EpollUses, EpollConnectKeeps DEF E!Connect
  <2>2. ASSUME NEW fd \in FDs, NEW dir \in Dirs, E!SetFD(fd, dir)
        PROVE  EpollPart'
    BY <1>0, <1>1, <2>2, EpollUses, EpollSetFDKeeps DEF E!SetFD
  <2>3. ASSUME NEW fd \in FDs, NEW dir \in Dirs, E!ClearFD(fd, dir)
        PROVE  EpollPart'
    BY <1>0, <1>1, <2>3, EpollUses, EpollClearFDKeeps DEF E!ClearFD
  <2>4. ASSUME NEW fd \in FDs, E!Close(fd)
        PROVE  EpollPart'
    BY <1>0, <1>1, <2>4, EpollUses, EpollCloseKeeps DEF E!Close
  <2>5. ASSUME NEW fd \in FDs, E!BlockedOn(fd)
        PROVE  EpollPart'
    BY <1>0, <1>1, <2>5, EpollUses, EpollBlockedOnKeeps DEF E!BlockedOn
  <2> QED BY <1>2, <2>1, <2>2, <2>3, <2>4, <2>5 DEF E!UserStep, E!Dirs, Dirs
<1>3. CASE E!Sweep
  <2>1. /\ theRegs' = theRegs /\ interests' = interests /\ watched' = watched
        /\ cleared' = {} /\ reopenable' = {}
        /\ \A fd \in FDs : hot'[fd] # {} => watched[fd] # {}
    BY <1>3 DEF E!Sweep, E!BaseSweep
  <2>2. EpollHotIsCurrent'
    BY <2>1 DEF EpollHotIsCurrent, EpollPart, WatchedFor
  <2> QED BY <2>1, <2>2 DEF EpollPart
<1>4. CASE E!ReadEvent
  <2>1. PICK fd \in FDs : /\ E!LoopRead(fd, E!ReadyUser(fd, "read"))
                          /\ E!Rewatch(fd, "read")
    BY <1>4 DEF E!ReadEvent
  <2>2. LoopRead(fd, E!ReadyUser(fd, "read"))
    BY <1>0, <2>1, EpollUses
  <2>3. /\ Notify(fd, "read", E!ReadyUser(fd, "read"))
        /\ interests' = interests /\ reopenable' = reopenable /\ hot' = hot
    BY <2>2 DEF LoopRead
  <2>4. "read" \in Dirs
    BY DEF Dirs
  <2> QED BY <1>1, <2>1, <2>3, <2>4, EpollEventKeeps
<1>5. CASE E!WriteEvent
  <2>1. LoopWrite(E!ReadyUser(cur, "write")) /\ E!Rewatch(cur, "write")
    BY <1>0, <1>5, EpollUses DEF E!WriteEvent
  <2>2. /\ cur \in FDs
        /\ Notify(cur, "write", E!ReadyUser(cur, "write"))
        /\ interests' = interests /\ reopenable' = reopenable
        /\ \A f \in FDs : hot'[f] # {} => hot[f] # {}
    BY <1>1, <2>1 DEF LoopWrite, CyclePart, CurIsKnown
  <2>3. "write" \in Dirs
    BY DEF Dirs
  <2> QED BY <1>1, <2>1, <2>2, <2>3, EpollEventKeeps
<1>6. CASE E!BaseStep /\ UNCHANGED <<watched, cleared>>
  <2>1. BaseStep
    BY <1>0, <1>6, EpollUses
  <2>2. /\ interests' = interests /\ reopenable' = reopenable /\ hot' = hot
        /\ \A fd \in FDs : theRegs'[fd].theBlockingDir = theRegs[fd].theBlockingDir
    BY <1>1, <2>1, BaseStepKeepsMarks
  <2> QED BY <1>6, <2>2 DEF EpollPart, EpollHotIsCurrent, WatchedFor
<1> QED BY <1>2, <1>3, <1>4, <1>5, <1>6 DEF E!Next

-----------------------------------------------------------------------------
(* The inductive invariant, whichever scanner the process has.             *)
IInv ==
  /\ TypeOK
  /\ CurIsKnown
  /\ RegsAgree
  /\ BlockedIsWaiting
  /\ WatchedIsAwaited
  /\ fileScan = "epoll" => EpollHotIsCurrent

LEMMA InitIInv == ASSUME Init PROVE IInv
<1>1. ResetReg \in Regs /\ ResetReg.theResCount = 0 /\ ResetReg.theBlockingDir = "none"
  BY DEF ResetReg, Regs
<1>2. BaseTypeOK
  BY <1>1, SchedFacts DEF Init, BaseInit, BaseTypeOK
<1>3. RegsAgree /\ BlockedIsWaiting /\ CurIsKnown
  BY <1>1, SizesOfDirs
  DEF Init, BaseInit, RegsAgree, BlockedIsWaiting, CurIsKnown
<1>4. TypeOK
  BY <1>2 DEF Init, TypeOK
<1>5. WatchedIsAwaited /\ EpollHotIsCurrent
  BY KernelInLineMeans
  DEF Init, BaseInit, WatchedIsAwaited, WatchedFor, EpollHotIsCurrent
<1> QED BY <1>3, <1>4, <1>5 DEF IInv

LEMMA PollCopyType ==
  ASSUME TypeOK, P!Next
  PROVE  asked' \in [FDs -> SUBSET Dirs]
<1>1. /\ asked \in [FDs -> SUBSET Dirs]
      /\ interests \in [FDs -> SUBSET Dirs]
      /\ theRegs \in [FDs -> Regs]
  BY DEF TypeOK, BaseTypeOK
<1>2. CASE P!UserStep
  BY <1>1, <1>2
  DEF P!UserStep, P!Connect, P!SetFD, P!ClearFD, P!Close, P!BlockedOn, P!Erase
<1>3. CASE P!Sweep
  <2>1. \A fd \in FDs : theRegs[fd].theBlockingDir \in Dirs \cup {"none"}
    BY <1>1 DEF Regs
  <2> QED BY <1>1, <1>3, <2>1 DEF P!Sweep
<1>4. CASE asked' = asked
  BY <1>1, <1>4
<1> QED BY <1>2, <1>3, <1>4 DEF P!Next, P!ReadEvent, P!WriteEvent

LEMMA NextIInv == ASSUME IInv, Next PROVE IInv'
<1>1. BaseInv /\ TypeOK
  BY DEF IInv, BaseInv, TypeOK
<1>2. CASE ByEpoll /\ E!Next
  <2>1. fileScan = "epoll" /\ fileScan' = fileScan /\ asked' = asked
    BY <1>2 DEF ByEpoll
  <2>2. BaseInv'
    BY <1>1, <1>2, EpollIsAnyStep, AnyStepKeepsBase
  <2>3. EpollPart
    BY <1>1, <2>1, KernelInLineMeans
    DEF IInv, EpollPart, TypeOK, WatchedIsAwaited
  <2>4. EpollPart'
    BY <1>1, <1>2, <2>2, <2>3, EpollKeeps
  <2>5. E!KernelInLine'
    BY <2>4 DEF EpollPart, E!KernelInLine, E!Blocked, WatchedFor
  <2>6. TypeOK'
    BY <1>1, <2>1, <2>2, <2>4 DEF TypeOK, BaseInv, EpollPart
  <2> QED BY <2>2, <2>4, <2>5, <2>6
    DEF IInv, BaseInv, EpollPart, WatchedIsAwaited
<1>3. CASE ByPoll /\ P!Next
  <2>1. /\ fileScan' = "poll" /\ fileScan' = fileScan
        /\ watched' = watched /\ cleared' = cleared
    BY <1>3 DEF ByPoll
  <2>2. BaseInv'
    BY <1>1, <1>3, PollIsAnyStep, AnyStepKeepsBase
  <2>3. TypeOK'
    BY <1>1, <1>3, <2>1, <2>2, PollCopyType DEF TypeOK, BaseInv
  <2> QED BY <2>1, <2>2, <2>3 DEF IInv, BaseInv, WatchedIsAwaited
<1>4. CASE BySelect /\ S!Next
  <2>1. /\ fileScan' = "select" /\ fileScan' = fileScan
        /\ watched' = watched /\ cleared' = cleared /\ asked' = asked
    BY <1>4 DEF BySelect
  <2>2. BaseInv'
    BY <1>1, <1>4, SelectIsAnyStep, AnyStepKeepsBase
  <2>3. TypeOK'
    BY <1>1, <2>1, <2>2 DEF TypeOK, BaseInv
  <2> QED BY <2>1, <2>2, <2>3 DEF IInv, BaseInv, WatchedIsAwaited
<1> QED BY <1>2, <1>3, <1>4 DEF Next

LEMMA StutterIInv == ASSUME IInv, UNCHANGED vars PROVE IInv'
<1>1. WatchedIsAwaited'
  BY DEF IInv, vars, WatchedIsAwaited, E!KernelInLine, E!Blocked
<1>2. TypeOK'
  BY DEF IInv, vars, TypeOK, BaseTypeOK
<1> QED BY <1>1, <1>2
        DEF IInv, vars, CurIsKnown, RegsAgree, BlockedIsWaiting,
            EpollHotIsCurrent

LEMMA AlwaysIInv == Spec => []IInv
<1>1. Init => IInv
  BY InitIInv
<1>2. IInv /\ [Next]_vars => IInv'
  BY NextIInv, StutterIInv
<1> QED BY <1>1, <1>2, PTL DEF Spec

(* The types of all scanners' state are kept.                              *)
THEOREM TheFileScannerTypeOK == Spec => []TypeOK
<1>1. IInv => TypeOK
  BY DEF IInv
<1> QED BY <1>1, AlwaysIInv, PTL

(* Each registration counts the directions reserved, and theMaxFD reaches  *)
(* all of them: setTimeout()'s Assert holds and checkTimeouts() passes     *)
(* over nobody.                                                            *)
THEOREM RegistrationsAgree == Spec => []RegsAgree
<1>1. IInv => RegsAgree
  BY DEF IInv
<1> QED BY <1>1, AlwaysIInv, PTL

(* No blocking mark outlives the reservation it was made for, in whatever  *)
(* order users block, clear, close and reopen.                             *)
THEOREM BlockedDescriptorsWait == Spec => []BlockedIsWaiting
<1>1. IInv => BlockedIsWaiting
  BY DEF IInv
<1> QED BY <1>1, AlwaysIInv, PTL

(* With epoll the kernel's interest list is always what the users wait     *)
(* for: every epoll_ctl(2) is valid and no wake-up is lost.                *)
THEOREM KernelWatchesWhatIsAwaited == Spec => []WatchedIsAwaited
<1>1. IInv => WatchedIsAwaited
  BY DEF IInv
<1> QED BY <1>1, AlwaysIInv, PTL

-----------------------------------------------------------------------------
(* Poll and select keep copies, and clear in them the direction a user     *)
(* gives up.  That is enough as long as nobody waits for the other one.    *)

(* Users of poll and of select do not block.                               *)
OnlyEpollBlocks ==
  \A scanner \in DOMAIN UsesOf \ {"epoll"} : "block" \notin UsesOf[scanner]

Unblocked == \A fd \in FDs : theRegs[fd].theBlockingDir = "none"

UnblockedAction ==
  \E fd \in FDs :
    \/ \E dir \in Dirs : \/ BaseConnect(fd, dir, FALSE)
                         \/ BaseSetFD(fd, dir)
                         \/ BaseClearFD(fd, dir)
    \/ BaseClose(fd)

LEMMA UserKeepsUnblocked ==
  ASSUME RegPart, Unblocked, UnblockedAction
  PROVE  Unblocked'
<1>1. ASSUME NEW fd \in FDs, NEW reg, NEW dirs, Register(fd, reg, dirs),
             reg.theBlockingDir = "none"
      PROVE  Unblocked'
  BY <1>1 DEF Register, RegPart, Unblocked
<1>2. ASSUME NEW fd \in FDs, NEW dir \in Dirs
      PROVE  /\ RegSet(theRegs[fd], dir).theBlockingDir = "none"
             /\ RegClear(theRegs[fd], dir).theBlockingDir = "none"
             /\ RegClearAll(theRegs[fd]).theBlockingDir = "none"
  <2>1. theRegs[fd] \in Regs /\ theRegs[fd].theBlockingDir = "none"
    BY DEF RegPart, Unblocked
  <2>2. RegSet(theRegs[fd], dir).theBlockingDir = "none"
    BY <2>1 DEF RegSet, Regs
  <2>3. RegClear(theRegs[fd], dir).theBlockingDir = "none"
    BY <2>1 DEF RegClear, ResetReg, Regs
  <2>4. RegClearAll(theRegs[fd]).theBlockingDir = "none"
    BY <2>1 DEF RegClearAll, ResetReg
  <2> QED BY <2>2, <2>3, <2>4
<1>3. ASSUME NEW fd \in FDs, NEW dir \in Dirs, BaseConnect(fd, dir, FALSE)
      PROVE  Unblocked'
  BY <1>1, <1>2, <1>3 DEF BaseConnect
<1>4. ASSUME NEW fd \in FDs, NEW dir \in Dirs, BaseSetFD(fd, dir)
      PROVE  Unblocked'
  BY <1>1, <1>2, <1>4 DEF BaseSetFD
<1>5. ASSUME NEW fd \in FDs, NEW dir \in Dirs, BaseClearFD(fd, dir)
      PROVE  Unblocked'
  BY <1>1, <1>2, <1>5 DEF BaseClearFD
<1>6. ASSUME NEW fd \in FDs, BaseClose(fd)
      PROVE  Unblocked'
  <2>1. "read" \in Dirs
    BY DEF Dirs
  <2> QED BY <1>1, <1>2, <1>6, <2>1 DEF BaseClose
<1> QED BY <1>3, <1>4, <1>5, <1>6 DEF UnblockedAction

LEMMA LoopKeepsUnblocked ==
  ASSUME RegPart, CurIsKnown, Unblocked, LoopAction
  PROVE  Unblocked'
<1>1. ASSUME NEW fd \in FDs, NEW dir, NEW r, Notify(fd, dir, r)
      PROVE  Unblocked'
  <2>1. theRegs[fd] \in Regs /\ theRegs[fd].theBlockingDir = "none"
    BY DEF RegPart, Unblocked
  <2>2. RegNotified(theRegs[fd], dir).theBlockingDir = "none"
    BY <2>1 DEF RegNotified, Regs
  <2> QED BY <1>1, <2>2 DEF Notify, Unblocked, RegPart
<1> QED BY <1>1
  DEF LoopAction, LoopRead, LoopWrite, BaseSweep, CurIsKnown, Unblocked

(* What poll(2) is asked for is reserved, and what it reported is for the  *)
(* present user.                                                           *)
PollCopy ==
  \A fd \in FDs :
    /\ asked[fd] \subseteq interests[fd]
    /\ hot[fd] # {} => asked[fd] # {} /\ fd \notin reopenable

SelectCopy ==
  \A fd \in FDs :
    /\ hot[fd] \subseteq interests[fd]
    /\ hot[fd] # {} => fd \notin reopenable

LEMMA PollKeeps ==
  ASSUME OnlyEpollBlocks, IInv, Unblocked, PollCopy, ByPoll, P!Next
  PROVE  Unblocked' /\ PollCopy'
<1>0. fileScan = "poll" /\ fileScan \in DOMAIN UsesOf /\ "block" \notin UsesOf["poll"]
  BY DEF IInv, TypeOK, ByPoll, OnlyEpollBlocks
<1>1. /\ RegPart /\ CurIsKnown
      /\ hot \in [FDs -> SUBSET Conditions]
      /\ asked \in [FDs -> SUBSET Dirs]
  BY DEF IInv, TypeOK, BaseTypeOK, RegPart
<1>2. CASE P!UserStep
  <2>1. PICK fd \in FDs :
          \/ \E dir \in Dirs : \/ P!Connect(fd, dir, FALSE)
                               \/ P!SetFD(fd, dir)
                               \/ P!ClearFD(fd, dir)
          \/ P!Close(fd)
    BY <1>0, <1>2
    DEF P!UserStep, P!Connect, P!BaseConnect, P!BlockedOn, P!BaseBlockedOn,
        P!Dirs, Dirs
  <2>2. Unblocked'
    BY <1>0, <1>1, <2>1, PollUses, UserKeepsUnblocked
    DEF P!Connect, P!SetFD, P!ClearFD, P!Close, UnblockedAction
  <2>3. ASSUME NEW dir \in Dirs, P!Connect(fd, dir, FALSE)
        PROVE  PollCopy'
    <3>1. BaseConnect(fd, dir, FALSE) /\ asked' = asked
      BY <1>0, <2>3, PollUses DEF P!Connect
    <3>2. interests[fd] = {}
      BY <1>1, <3>1 DEF BaseConnect, RegPart, RegsAgree
    <3> QED BY <1>1, <3>1, <3>2
            DEF BaseConnect, Register, cycle, PollCopy, RegPart
  <2>4. ASSUME NEW dir \in Dirs, P!SetFD(fd, dir)
        PROVE  PollCopy'
    BY <1>0, <1>1, <2>4, PollUses
    DEF P!SetFD, BaseSetFD, Register, cycle, PollCopy, RegPart
  <2>5. ASSUME NEW dirs \in SUBSET interests[fd],
               P!Erase(fd, dirs),
               interests' = [interests EXCEPT ![fd] = interests[fd] \ dirs],
               reopenable' \subseteq reopenable \cup {fd},
               interests[fd] \ dirs # {} => reopenable' = reopenable
        PROVE  PollCopy'
    <3>1. /\ asked' = [asked EXCEPT ![fd] = asked[fd] \ dirs]
          /\ asked'[fd] = asked[fd] \ dirs
          /\ hot' = [hot EXCEPT ![fd] =
                       IF asked'[fd] = {} THEN {} ELSE hot[fd] \ dirs]
      BY <1>1, <2>5 DEF P!Erase
    <3>2. ASSUME NEW f \in FDs, f # fd
          PROVE  /\ asked'[f] \subseteq interests'[f]
                 /\ hot'[f] # {} => asked'[f] # {} /\ f \notin reopenable'
      BY <1>1, <2>5, <3>1, <3>2 DEF PollCopy, RegPart
    <3>3. asked'[fd] \subseteq interests'[fd]
      BY <1>1, <2>5, <3>1 DEF PollCopy, RegPart
    <3>4. hot'[fd] # {} => asked'[fd] # {} /\ fd \notin reopenable'
      <4>1. hot'[fd] = IF asked'[fd] = {} THEN {} ELSE hot[fd] \ dirs
        BY <1>1, <3>1
      <4>2. interests'[fd] = interests[fd] \ dirs
        BY <1>1, <2>5 DEF RegPart
      <4> QED BY <2>5, <3>3, <4>1, <4>2 DEF PollCopy
    <3> QED BY <3>2, <3>3, <3>4 DEF PollCopy
  <2>6. ASSUME NEW dir \in Dirs, P!ClearFD(fd, dir)
        PROVE  PollCopy'
    <3>1. BaseClearFD(fd, dir) /\ P!Erase(fd, {dir})
      BY <1>0, <2>6, PollUses DEF P!ClearFD
    <3> DEFINE dirs == {dir}
    <3>2. /\ dirs \in SUBSET interests[fd] /\ P!Erase(fd, dirs)
          /\ interests' = [interests EXCEPT ![fd] = interests[fd] \ dirs]
          /\ reopenable' = reopenable
      BY <3>1 DEF BaseClearFD, Register
    <3> HIDE DEF dirs
    <3> QED BY <2>5, <3>2
  <2>7. ASSUME P!Close(fd)
        PROVE  PollCopy'
    <3>1. BaseClose(fd) /\ P!Erase(fd, interests[fd])
      BY <1>0, <2>7, PollUses DEF P!Close
    <3> DEFINE dirs == interests[fd]
    <3>2. /\ dirs \in SUBSET interests[fd] /\ P!Erase(fd, dirs)
          /\ interests[fd] \ dirs = {}
          /\ interests' = [interests EXCEPT ![fd] = interests[fd] \ dirs]
          /\ reopenable' \subseteq reopenable \cup {fd}
      BY <3>1 DEF BaseClose, Register
    <3> HIDE DEF dirs
    <3> QED BY <2>5, <3>2
  <2> QED BY <2>1, <2>2, <2>3, <2>4, <2>6, <2>7
<1>3. CASE P!Sweep
  <2>1. \E found : BaseSweep(found)
    BY <1>0, <1>3, PollUses DEF P!Sweep
  <2>2. Unblocked'
    BY <1>1, <2>1, LoopKeepsUnblocked DEF LoopAction
  <2>3. interests' = interests /\ reopenable' = {}
    BY <2>1 DEF BaseSweep
  <2>4. /\ \A fd \in FDs : asked'[fd] \subseteq interests[fd]
        /\ \A fd \in FDs : hot'[fd] # {} => asked'[fd] # {}
    BY <1>3 DEF P!Sweep, P!BaseSweep, Unblocked
  <2> QED BY <2>2, <2>3, <2>4 DEF PollCopy
<1>4. CASE P!ReadEvent \/ P!WriteEvent
  <2>1. LoopAction /\ asked' = asked
    BY <1>0, <1>4, PollUses
    DEF P!ReadEvent, P!WriteEvent, LoopAction, P!LoopRead, P!Used
  <2>2. Unblocked'
    BY <1>1, <2>1, LoopKeepsUnblocked
  <2>3. /\ interests' = interests /\ reopenable' = reopenable
        /\ \A fd \in FDs : hot'[fd] # {} => hot[fd] # {}
    BY <1>1, <1>4
    DEF P!ReadEvent, P!WriteEvent, P!LoopRead, P!LoopWrite, CurIsKnown
  <2> QED BY <2>1, <2>2, <2>3 DEF PollCopy
<1>5. CASE P!BaseStep /\ UNCHANGED asked
  <2>1. BaseStep
    BY <1>0, <1>5, PollUses
  <2> QED BY <1>1, <1>5, <2>1, BaseStepKeepsMarks DEF Unblocked, PollCopy
<1> QED BY <1>2, <1>3, <1>4, <1>5 DEF P!Next

LEMMA SelectKeeps ==
  ASSUME OnlyEpollBlocks, IInv, Unblocked, SelectCopy, BySelect, S!Next
  PROVE  Unblocked' /\ SelectCopy'
<1>0. /\ fileScan = "select" /\ fileScan \in DOMAIN UsesOf
      /\ "block" \notin UsesOf["select"]
  BY DEF IInv, TypeOK, BySelect, OnlyEpollBlocks
<1>1. /\ RegPart /\ CurIsKnown
      /\ hot \in [FDs -> SUBSET Conditions]
  BY DEF IInv, TypeOK, BaseTypeOK, RegPart
<1>2. CASE S!UserStep
  <2>1. PICK fd \in FDs :
          \/ \E dir \in Dirs : \/ S!Connect(fd, dir, FALSE)
                               \/ S!SetFD(fd, dir)
                               \/ S!ClearFD(fd, dir)
          \/ S!Close(fd)
    BY <1>0, <1>2
    DEF S!UserStep, S!Connect, S!BaseConnect, S!BlockedOn, S!BaseBlockedOn,
        S!Dirs, Dirs
  <2>2. Unblocked'
    BY <1>0, <1>1, <2>1, SelectUses, UserKeepsUnblocked
    DEF S!Connect, S!SetFD, S!ClearFD, S!Close, UnblockedAction
  <2>3. ASSUME NEW dir \in Dirs, S!Connect(fd, dir, FALSE)
        PROVE  SelectCopy'
    <3>1. BaseConnect(fd, dir, FALSE)
      BY <1>0, <2>3, SelectUses DEF S!Connect
    <3>2. interests[fd] = {}
      BY <1>1, <3>1 DEF BaseConnect, RegPart, RegsAgree
    <3> QED BY <1>1, <3>1, <3>2
            DEF BaseConnect, Register, cycle, SelectCopy, RegPart
  <2>4. ASSUME NEW dir \in Dirs, S!SetFD(fd, dir)
        PROVE  SelectCopy'
    BY <1>0, <1>1, <2>4, SelectUses
    DEF S!SetFD, BaseSetFD, Register, cycle, SelectCopy, RegPart
  <2>5. ASSUME NEW dir \in Dirs, S!ClearFD(fd, dir)
        PROVE  SelectCopy'
    BY <1>0, <1>1, <2>5, SelectUses
    DEF S!ClearFD, BaseClearFD, Register, SelectCopy, RegPart
  <2>6. ASSUME S!Close(fd)
        PROVE  SelectCopy'
    <3>1. /\ interests' = [interests EXCEPT ![fd] = {}]
          /\ hot' = [hot EXCEPT ![fd] = @ \ interests[fd]]
          /\ reopenable' \subseteq reopenable \cup {fd}
      BY <1>0, <2>6, SelectUses DEF S!Close, BaseClose, Register
    <3>2. hot'[fd] = {} /\ \A f \in FDs \ {fd} : hot'[f] = hot[f] /\ interests'[f] = interests[f]
      BY <1>1, <3>1 DEF SelectCopy, RegPart
    <3> QED BY <3>1, <3>2 DEF SelectCopy
  <2> QED BY <2>1, <2>2, <2>3, <2>4, <2>5, <2>6
<1>3. CASE S!Sweep
  <2>1. \E found : BaseSweep(found)
    BY <1>0, <1>3, SelectUses DEF S!Sweep
  <2>2. Unblocked'
    BY <1>1, <2>1, LoopKeepsUnblocked DEF LoopAction
  <2>3. interests' = interests /\ reopenable' = {}
    BY <2>1 DEF BaseSweep
  <2>4. \A fd \in FDs : S!Prepared(fd) = interests[fd]
    BY DEF S!Prepared, Unblocked
  <2>5. \A fd \in FDs : hot'[fd] \subseteq interests[fd]
    BY <1>3, <2>4 DEF S!Sweep, S!BaseSweep
  <2> QED BY <2>2, <2>3, <2>5 DEF SelectCopy
<1>4. CASE S!ReadEvent \/ S!WriteEvent
  <2>1. LoopAction
    BY <1>0, <1>4, SelectUses
    DEF S!ReadEvent, S!WriteEvent, LoopAction, S!LoopRead, S!Used
  <2>2. Unblocked'
    BY <1>1, <2>1, LoopKeepsUnblocked
  <2>3. /\ interests' = interests /\ reopenable' = reopenable
        /\ \A fd \in FDs : hot'[fd] \subseteq hot[fd]
    BY <1>1, <1>4
    DEF S!ReadEvent, S!WriteEvent, S!LoopRead, S!LoopWrite, CurIsKnown
  <2> QED BY <2>2, <2>3 DEF SelectCopy
<1>5. CASE S!BaseStep
  <2>1. BaseStep
    BY <1>0, <1>5, SelectUses
  <2> QED BY <1>1, <1>5, <2>1, BaseStepKeepsMarks DEF Unblocked, SelectCopy
<1> QED BY <1>2, <1>3, <1>4, <1>5 DEF S!Next

CopiesInv ==
  /\ fileScan \in {"poll", "select"} => Unblocked
  /\ fileScan = "poll" => PollCopy
  /\ fileScan = "select" => SelectCopy

LEMMA AlwaysCopies ==
  ASSUME OnlyEpollBlocks
  PROVE  Spec => []CopiesInv
<1>1. Init => CopiesInv
  <2> SUFFICES ASSUME Init PROVE CopiesInv
    OBVIOUS
  <2>1. ResetReg.theBlockingDir = "none"
    BY DEF ResetReg
  <2> QED BY <2>1
    DEF Init, BaseInit, CopiesInv, Unblocked, PollCopy, SelectCopy
<1>2. CopiesInv /\ IInv /\ [Next]_vars => CopiesInv'
  <2> SUFFICES ASSUME CopiesInv, IInv, [Next]_vars PROVE CopiesInv'
    OBVIOUS
  <2>1. CASE ByEpoll
    BY <2>1 DEF ByEpoll, CopiesInv
  <2>2. CASE ByPoll /\ P!Next
    BY <2>2, PollKeeps DEF ByPoll, CopiesInv
  <2>3. CASE BySelect /\ S!Next
    BY <2>3, SelectKeeps DEF BySelect, CopiesInv
  <2>4. CASE UNCHANGED vars
    BY <2>4 DEF vars, CopiesInv, Unblocked, PollCopy, SelectCopy
  <2> QED BY <2>1, <2>2, <2>3, <2>4 DEF Next
<1> QED BY <1>1, <1>2, AlwaysIInv, PTL DEF Spec

(* It is the turn of direction dir of descriptor fd, whose user is called. *)
InTurn(fd, dir) ==
  /\ fd \in FDs
  /\ IF dir = "read" THEN pc = "loop" ELSE pc = "write" /\ cur = fd
  /\ theRegs' = [theRegs EXCEPT ![fd] = RegNotified(@, dir)]

LEMMA BaseStepCallsNobody ==
  ASSUME BaseStep, call' # call
  PROVE  call'.method \notin Dirs
<1>1. CASE Return \/ CheckTimeouts
  BY <1>1 DEF Return, CheckTimeouts, NoCall, Dirs
<1> QED BY <1>1
    DEF BaseStep, SetPriority, SetTimeout, ClearTimeout, ForceReady, SetReg,
        SocketChanges, TimePasses, LoopEnds

(* A user is only called if it is ready, in its turn.                      *)
LEMMA EpollCalls ==
  ASSUME IInv, ByEpoll, E!Next, call' # call, call'.method \in Dirs
  PROVE  \E dir \in Dirs :
           /\ E!ReadyUser(call'.fd, dir)
           /\ InTurn(call'.fd, dir)
<1>1. TypeOK /\ CurIsKnown
  BY DEF IInv
<1>2. CASE E!UserStep
  BY <1>2 DEF E!UserStep, E!Connect, E!SetFD, E!ClearFD, E!Close, E!BlockedOn,
    E!BaseConnect, E!BaseSetFD, E!BaseClearFD, E!BaseClose, E!BaseBlockedOn
<1>3. CASE E!Sweep
  BY <1>3 DEF E!Sweep, E!BaseSweep
<1>4. CASE E!BaseStep
  BY <1>1, <1>4, EpollUses, BaseStepCallsNobody DEF ByEpoll, TypeOK
<1>5. CASE E!ReadEvent
  <2>1. PICK fd \in FDs : E!LoopRead(fd, E!ReadyUser(fd, "read"))
    BY <1>5 DEF E!ReadEvent, E!LoopRead, E!Used
  <2>2. LoopRead(fd, E!ReadyUser(fd, "read"))
    BY <1>1, <2>1, EpollUses DEF ByEpoll, TypeOK
  <2>3. E!ReadyUser(fd, "read") /\ call'.fd = fd
    BY <2>2 DEF LoopRead, Notify
  <2> QED BY <2>2, <2>3 DEF LoopRead, InTurn, Notify, Dirs
<1>6. CASE E!WriteEvent
  <2>1. LoopWrite(E!ReadyUser(cur, "write"))
    BY <1>1, <1>6, EpollUses DEF E!WriteEvent, ByEpoll, TypeOK
  <2>2. E!ReadyUser(cur, "write") /\ call'.fd = cur
    BY <2>1 DEF LoopWrite, Notify
  <2> QED BY <1>1, <2>1, <2>2 DEF LoopWrite, InTurn, Notify, Dirs, CurIsKnown
<1> QED BY <1>2, <1>3, <1>4, <1>5, <1>6 DEF E!Next

LEMMA PollCalls ==
  ASSUME IInv, ByPoll, P!Next, call' # call, call'.method \in Dirs
  PROVE  \E dir \in Dirs :
           /\ P!ReadyUser(call'.fd, dir)
           /\ InTurn(call'.fd, dir)
<1>1. TypeOK /\ CurIsKnown
  BY DEF IInv
<1>2. CASE P!UserStep
  BY <1>2 DEF P!UserStep, P!Connect, P!SetFD, P!ClearFD, P!Close, P!BlockedOn,
    P!BaseConnect, P!BaseSetFD, P!BaseClearFD, P!BaseClose, P!BaseBlockedOn
<1>3. CASE P!Sweep
  BY <1>3 DEF P!Sweep, P!BaseSweep
<1>4. CASE P!BaseStep
  BY <1>1, <1>4, PollUses, BaseStepCallsNobody DEF ByPoll, TypeOK
<1>5. CASE P!ReadEvent
  <2>1. PICK fd \in FDs : P!LoopRead(fd, P!ReadyUser(fd, "read"))
    BY <1>5 DEF P!ReadEvent, P!LoopRead, P!Used
  <2>2. LoopRead(fd, P!ReadyUser(fd, "read"))
    BY <1>1, <2>1, PollUses DEF ByPoll, TypeOK
  <2>3. P!ReadyUser(fd, "read") /\ call'.fd = fd
    BY <2>2 DEF LoopRead, Notify
  <2> QED BY <2>2, <2>3 DEF LoopRead, InTurn, Notify, Dirs
<1>6. CASE P!WriteEvent
  <2>1. LoopWrite(P!ReadyUser(cur, "write"))
    BY <1>1, <1>6, PollUses DEF P!WriteEvent, ByPoll, TypeOK
  <2>2. P!ReadyUser(cur, "write") /\ call'.fd = cur
    BY <2>1 DEF LoopWrite, Notify
  <2> QED BY <1>1, <2>1, <2>2 DEF LoopWrite, InTurn, Notify, Dirs, CurIsKnown
<1> QED BY <1>2, <1>3, <1>4, <1>5, <1>6 DEF P!Next

LEMMA SelectCalls ==
  ASSUME IInv, BySelect, S!Next, call' # call, call'.method \in Dirs
  PROVE  \E dir \in Dirs :
           /\ S!ReadyUser(call'.fd, dir)
           /\ InTurn(call'.fd, dir)
<1>1. TypeOK /\ CurIsKnown
  BY DEF IInv
<1>2. CASE S!UserStep
  BY <1>2 DEF S!UserStep, S!Connect, S!SetFD, S!ClearFD, S!Close, S!BlockedOn,
    S!BaseConnect, S!BaseSetFD, S!BaseClearFD, S!BaseClose, S!BaseBlockedOn
<1>3. CASE S!Sweep
  BY <1>3 DEF S!Sweep, S!BaseSweep
<1>4. CASE S!BaseStep
  BY <1>1, <1>4, SelectUses, BaseStepCallsNobody DEF BySelect, TypeOK
<1>5. CASE S!ReadEvent
  <2>1. PICK fd \in FDs : S!LoopRead(fd, S!ReadyUser(fd, "read"))
    BY <1>5 DEF S!ReadEvent, S!LoopRead, S!Used
  <2>2. LoopRead(fd, S!ReadyUser(fd, "read"))
    BY <1>1, <2>1, SelectUses DEF BySelect, TypeOK
  <2>3. S!ReadyUser(fd, "read") /\ call'.fd = fd
    BY <2>2 DEF LoopRead, Notify
  <2> QED BY <2>2, <2>3 DEF LoopRead, InTurn, Notify, Dirs
<1>6. CASE S!WriteEvent
  <2>1. LoopWrite(S!ReadyUser(cur, "write"))
    BY <1>1, <1>6, SelectUses DEF S!WriteEvent, BySelect, TypeOK
  <2>2. S!ReadyUser(cur, "write") /\ call'.fd = cur
    BY <2>1 DEF LoopWrite, Notify
  <2> QED BY <1>1, <2>1, <2>2 DEF LoopWrite, InTurn, Notify, Dirs, CurIsKnown
<1> QED BY <1>2, <1>3, <1>4, <1>5, <1>6 DEF S!Next

(* No event that was reported before its descriptor was closed reaches     *)
(* whoever opened the descriptor next, whichever scanner the process has   *)
(* (as long as users of poll and select do not block: Poll::clearFD and    *)
(* FD_Set::clearFD leave the copy of the other direction).                 *)
THEOREM StaleEventsAreDropped ==
  ASSUME OnlyEpollBlocks
  PROVE  Spec => NoStaleCall
<1> DEFINE Fresh == call' # call /\ call'.method \in Dirs => call'.fd \notin reopenable
<1>1. IInv /\ CopiesInv /\ [Next]_vars => [Fresh]_base
  <2> SUFFICES ASSUME IInv, CopiesInv, Next, call' # call, call'.method \in Dirs
               PROVE  call'.fd \notin reopenable
    BY DEF vars, base
  <2>1. CASE ByEpoll /\ E!Next
    <3>1. PICK dir \in Dirs : E!ReadyUser(call'.fd, dir) /\ InTurn(call'.fd, dir)
      BY <2>1, EpollCalls
    <3> QED BY <2>1, <3>1
            DEF ByEpoll, E!ReadyUser, InTurn, IInv, EpollHotIsCurrent
  <2>2. CASE ByPoll /\ P!Next
    <3>1. PICK dir \in Dirs : P!ReadyUser(call'.fd, dir) /\ InTurn(call'.fd, dir)
      BY <2>2, PollCalls
    <3> QED BY <2>2, <3>1 DEF ByPoll, P!ReadyUser, InTurn, CopiesInv, PollCopy
  <2>3. CASE BySelect /\ S!Next
    <3>1. PICK dir \in Dirs : S!ReadyUser(call'.fd, dir) /\ InTurn(call'.fd, dir)
      BY <2>3, SelectCalls
    <3> QED BY <2>3, <3>1
      DEF BySelect, S!ReadyUser, InTurn, CopiesInv, SelectCopy
  <2> QED BY <2>1, <2>2, <2>3 DEF Next
<1> QED BY <1>1, AlwaysIInv, AlwaysCopies, PTL DEF Spec, NoStaleCall

-----------------------------------------------------------------------------
(* Users who block are called for the direction that unblocks them alone.  *)

(* No socket of an epoll user fails: readyUser() takes an error for both   *)
(* directions.                                                             *)
NoErrorsWithEpoll == "epoll" \in DOMAIN UsesOf => "error" \notin UsesOf["epoll"]

NoErrors == \A fd \in FDs : "error" \notin ready[fd] /\ "error" \notin hot[fd]

(* A descriptor that is blocked on one direction has no event of the other *)
(* one left, unless the user was called for it in this turn.               *)
HotFitsBlock ==
  \A fd \in FDs :
    LET block == theRegs[fd].theBlockingDir IN
    block # "none" /\ fd \notin cleared =>
      \/ Other(block) \notin hot[fd]
      \/ block = "write" /\ pc = "write" /\ cur = fd

(* The callback that runs belongs to the turn of its descriptor.           *)
CallInTurn ==
  call # NoCall =>
    /\ pc = "write" =>
         /\ call.fd = cur
         /\ call.method = "write" => "write" \notin hot[cur] \/ cur \in cleared
    /\ pc = "loop" => hot[call.fd] = {}
    /\ call.method \in Dirs => pc \in {"loop", "write"}

TurnPart == NoErrors /\ HotFitsBlock /\ CallInTurn

LEMMA EpollUserKeepsTurn ==
  ASSUME IInv, TurnPart, ByEpoll, E!UserStep
  PROVE  TurnPart'
<1>0. fileScan = "epoll" /\ fileScan \in DOMAIN UsesOf
  BY DEF IInv, TypeOK, ByEpoll
<1>1. RegPart /\ CyclePart /\ EpollHotIsCurrent
  BY <1>0 DEF IInv, TypeOK, BaseTypeOK, RegPart, CyclePart
<1>2. /\ hot' = hot /\ pc' = pc /\ cur' = cur /\ call' = call
      /\ cleared \subseteq cleared'
      /\ \A fd \in FDs : ready'[fd] \subseteq ready[fd]
  <2> DEFINE Kept == /\ hot' = hot /\ pc' = pc /\ cur' = cur /\ call' = call
                     /\ cleared \subseteq cleared'
                     /\ \A fd \in FDs : ready'[fd] \subseteq ready[fd]
  <2>0. ready \in [FDs -> SUBSET Conditions]
    BY <1>1 DEF CyclePart
  <2>1. ASSUME NEW fd \in FDs, NEW dir, NEW socks, E!Connect(fd, dir, socks)
        PROVE  Kept
    BY <2>0, <2>1 DEF E!Connect, E!BaseConnect, E!cycle
  <2>2. ASSUME NEW fd \in FDs, NEW dir, E!SetFD(fd, dir)
        PROVE  Kept
    BY <2>2 DEF E!SetFD, E!BaseSetFD, E!cycle
  <2>3. ASSUME NEW fd \in FDs, NEW dir, E!ClearFD(fd, dir)
        PROVE  Kept
    BY <2>3 DEF E!ClearFD, E!BaseClearFD, E!Unwatch
  <2>4. ASSUME NEW fd \in FDs, E!Close(fd)
        PROVE  Kept
    BY <2>0, <2>4 DEF E!Close, E!BaseClose, E!Unwatch
  <2>5. ASSUME NEW fd \in FDs, E!BlockedOn(fd)
        PROVE  Kept
    BY <2>5 DEF E!BlockedOn, E!BaseBlockedOn, E!cycle
  <2> HIDE DEF Kept
  <2>6. Kept
    BY <2>1, <2>2, <2>3, <2>4, <2>5 DEF E!UserStep
  <2> QED BY <2>6 DEF Kept
<1>3. NoErrors' /\ CallInTurn'
  BY <1>2 DEF TurnPart, NoErrors, CallInTurn
<1>4. ASSUME NEW fd \in FDs, NEW reg,
             theRegs' = [theRegs EXCEPT ![fd] = reg],
             \/ reg.theBlockingDir \in {"none", theRegs[fd].theBlockingDir}
             \/ hot[fd] = {} \/ fd \in cleared'
             \/ Other(reg.theBlockingDir) \notin hot[fd]
             \/ reg.theBlockingDir = "write" /\ pc = "write" /\ cur = fd
      PROVE  HotFitsBlock'
  BY <1>1, <1>2, <1>4 DEF TurnPart, HotFitsBlock, RegPart
<1>5. ASSUME NEW fd \in FDs, NEW dir \in Dirs, NEW socks \in BOOLEAN,
             E!Connect(fd, dir, socks)
      PROVE  HotFitsBlock'
  <2>1. BaseConnect(fd, dir, socks) /\ cleared' = cleared
    BY <1>0, <1>5, EpollUses DEF E!Connect
  <2>2. hot[fd] = {} \/ fd \in cleared'
    BY <1>1, <2>1 DEF BaseConnect, RegPart, RegsAgree, EpollHotIsCurrent
  <2>3. \E reg : theRegs' = [theRegs EXCEPT ![fd] = reg]
    BY <2>1 DEF BaseConnect, Register
  <2> QED BY <1>4, <2>2, <2>3
<1>6. ASSUME NEW fd \in FDs, NEW dir \in Dirs, E!SetFD(fd, dir)
      PROVE  HotFitsBlock'
  <2>1. theRegs' = [theRegs EXCEPT ![fd] = RegSet(theRegs[fd], dir)]
    BY <1>0, <1>6, EpollUses DEF E!SetFD, BaseSetFD, Register
  <2>2. RegSet(theRegs[fd], dir).theBlockingDir \in {"none", theRegs[fd].theBlockingDir}
    BY <1>1 DEF RegSet, RegPart, Regs
  <2> QED BY <1>4, <2>1, <2>2
<1>7. ASSUME NEW fd \in FDs, NEW dir \in Dirs, E!ClearFD(fd, dir)
      PROVE  HotFitsBlock'
  <2>1. theRegs' = [theRegs EXCEPT ![fd] = RegClear(theRegs[fd], dir)]
    BY <1>0, <1>7, EpollUses DEF E!ClearFD, BaseClearFD, Register
  <2>2. RegClear(theRegs[fd], dir).theBlockingDir \in {"none", theRegs[fd].theBlockingDir}
    BY <1>1 DEF RegClear, ResetReg, RegPart, Regs
  <2> QED BY <1>4, <2>1, <2>2
<1>8. ASSUME NEW fd \in FDs, E!Close(fd)
      PROVE  HotFitsBlock'
  <2>1. theRegs' = [theRegs EXCEPT ![fd] = RegClearAll(theRegs[fd])]
    BY <1>0, <1>8, EpollUses DEF E!Close, BaseClose, Register
  <2>2. RegClearAll(theRegs[fd]).theBlockingDir \in {"none", theRegs[fd].theBlockingDir}
    BY DEF RegClearAll, ResetReg
  <2> QED BY <1>4, <2>1, <2>2
<1>9. ASSUME NEW fd \in FDs, E!BlockedOn(fd)
      PROVE  HotFitsBlock'
  <2> DEFINE reg == RegBlockedOn(theRegs[fd], Other(call.method))
  <2>1. /\ call.fd = fd /\ call.method \in interests[fd]
        /\ theRegs' = [theRegs EXCEPT ![fd] = reg]
        /\ cleared' = cleared
    BY <1>0, <1>9, EpollUses DEF E!BlockedOn, BaseBlockedOn
  <2>2. call.method \in Dirs /\ call # NoCall
    BY <1>1, <2>1 DEF RegPart, NoCall, Dirs
  <2>3. reg.theBlockingDir \in {theRegs[fd].theBlockingDir, Other(call.method)}
    BY <1>1 DEF RegBlockedOn, RegPart, Regs
  <2>4. CASE reg.theBlockingDir = Other(call.method)
    <3>1. pc \in {"loop", "write"}
      BY <2>2 DEF TurnPart, CallInTurn
    <3>2. CASE pc = "loop"
      BY <1>4, <2>1, <2>2, <3>2 DEF TurnPart, CallInTurn
    <3>3. CASE pc = "write" /\ call.method = "read"
      BY <1>4, <2>1, <2>2, <2>4, <3>3 DEF TurnPart, CallInTurn, Other
    <3>4. CASE pc = "write" /\ call.method = "write"
      <4>1. Other(reg.theBlockingDir) = "write"
        BY <2>4, <3>4 DEF Other
      <4> QED BY <1>4, <2>1, <2>2, <3>4, <4>1 DEF TurnPart, CallInTurn
    <3> QED BY <2>2, <3>1, <3>2, <3>3, <3>4 DEF Dirs
  <2> QED BY <1>4, <2>1, <2>3, <2>4
<1> QED BY <1>3, <1>5, <1>6, <1>7, <1>8, <1>9
  DEF TurnPart, E!UserStep, E!Dirs, Dirs

LEMMA EpollLoopKeepsTurn ==
  ASSUME IInv, TurnPart, ByEpoll, E!Sweep \/ E!ReadEvent \/ E!WriteEvent
  PROVE  TurnPart'
<1>0. fileScan = "epoll" /\ fileScan \in DOMAIN UsesOf
  BY DEF IInv, TypeOK, ByEpoll
<1>1. RegPart /\ CyclePart /\ CurIsKnown /\ watched \in [FDs -> SUBSET Dirs]
  BY DEF IInv, TypeOK, BaseTypeOK, RegPart, CyclePart
<1>2. \A fd \in FDs : watched[fd] = WatchedFor(theRegs[fd], interests[fd])
  BY <1>0, KernelInLineMeans DEF IInv, WatchedIsAwaited
<1>3. CASE E!Sweep
  <2>1. /\ theRegs' = theRegs /\ call = NoCall /\ call' = call /\ ready' = ready
        /\ \A fd \in FDs : hot'[fd] = IF watched[fd] = {} THEN {}
                             ELSE ready[fd] \cap (watched[fd] \cup {"error"})
    BY <1>3 DEF E!Sweep, E!BaseSweep, E!NoCall, NoCall
  <2>2. \A fd \in FDs : hot'[fd] \subseteq watched[fd]
    BY <2>1 DEF TurnPart, NoErrors
  <2>3. NoErrors'
    BY <2>1 DEF TurnPart, NoErrors
  <2>4. ASSUME NEW fd \in FDs, theRegs[fd].theBlockingDir # "none"
        PROVE  Other(theRegs[fd].theBlockingDir) \notin hot'[fd]
    <3>1. theRegs[fd].theBlockingDir \in Dirs
      BY <1>1, <2>4 DEF RegPart, Regs
    <3>2. watched[fd] \subseteq {theRegs[fd].theBlockingDir}
      BY <1>2, <2>4 DEF WatchedFor
    <3> QED BY <2>2, <3>1, <3>2 DEF Other, Dirs
  <2>5. HotFitsBlock'
    BY <2>1, <2>4 DEF HotFitsBlock
  <2>6. CallInTurn'
    BY <2>1 DEF CallInTurn
  <2> QED BY <2>3, <2>5, <2>6 DEF TurnPart
<1>4. ASSUME NEW fd \in FDs, NEW dir \in Dirs, NEW r, Notify(fd, dir, r)
      PROVE  \A f \in FDs : theRegs'[f].theBlockingDir \in
                              {"none", theRegs[f].theBlockingDir}
  <2>1. theRegs \in [FDs -> Regs]
    BY <1>1 DEF RegPart
  <2>2. RegNotified(theRegs[fd], dir).theBlockingDir \in
          {"none", theRegs[fd].theBlockingDir}
    BY <2>1 DEF RegNotified, Regs
  <2>3. \/ theRegs' = theRegs
        \/ theRegs' = [theRegs EXCEPT ![fd] = RegNotified(theRegs[fd], dir)]
    BY <1>4 DEF Notify
  <2> QED BY <2>1, <2>2, <2>3
<1>5. CASE E!ReadEvent
  <2>1. PICK fd \in FDs : E!LoopRead(fd, E!ReadyUser(fd, "read")) /\ E!Rewatch(fd, "read")
    BY <1>5 DEF E!ReadEvent
  <2>2. LoopRead(fd, E!ReadyUser(fd, "read")) /\ cleared' = cleared
    BY <1>0, <2>1, EpollUses DEF E!Rewatch
  <2>3. /\ pc = "loop" /\ call = NoCall /\ pc' = "write" /\ cur' = fd
        /\ Notify(fd, "read", E!ReadyUser(fd, "read"))
        /\ hot' = hot /\ ready' = ready
    BY <2>2 DEF LoopRead
  <2>4. NoErrors'
    BY <2>3 DEF TurnPart, NoErrors
  <2>5. HotFitsBlock'
    <3>1. \A f \in FDs : theRegs'[f].theBlockingDir \in
                           {"none", theRegs[f].theBlockingDir}
      BY <1>4, <2>3 DEF Dirs
    <3> QED BY <2>2, <2>3, <3>1 DEF TurnPart, HotFitsBlock
  <2>6. CallInTurn'
    <3>1. CASE ~E!ReadyUser(fd, "read")
      BY <2>3, <3>1 DEF Notify, CallInTurn
    <3>2. CASE E!ReadyUser(fd, "read")
      <4>1. call' = [fd |-> fd, method |-> MethodFor(theRegs[fd], "read")]
        BY <2>3, <3>2 DEF Notify
      <4>2. MethodFor(theRegs[fd], "read") = "write"
              => "write" \notin hot[fd] \/ fd \in cleared
        BY <2>3 DEF MethodFor, Other, TurnPart, HotFitsBlock
      <4> QED BY <2>2, <2>3, <4>1, <4>2 DEF CallInTurn
    <3> QED BY <3>1, <3>2
  <2> QED BY <2>4, <2>5, <2>6 DEF TurnPart
<1>6. CASE E!WriteEvent
  <2>1. LoopWrite(E!ReadyUser(cur, "write")) /\ cleared' = cleared
    BY <1>0, <1>6, EpollUses DEF E!WriteEvent, E!Rewatch
  <2>2. /\ pc = "write" /\ call = NoCall /\ pc' = "loop" /\ cur \in FDs
        /\ Notify(cur, "write", E!ReadyUser(cur, "write"))
        /\ hot' = [hot EXCEPT ![cur] = {}] /\ ready' = ready
    BY <1>1, <2>1 DEF LoopWrite, CurIsKnown
  <2>3. hot'[cur] = {} /\ \A f \in FDs \ {cur} : hot'[f] = hot[f]
    BY <1>1, <2>2 DEF CyclePart
  <2>4. NoErrors'
    BY <2>2, <2>3 DEF TurnPart, NoErrors
  <2>5. HotFitsBlock'
    <3>1. \A f \in FDs : theRegs'[f].theBlockingDir \in
                           {"none", theRegs[f].theBlockingDir}
      BY <1>4, <2>2 DEF Dirs
    <3> QED BY <2>1, <2>2, <2>3, <3>1 DEF TurnPart, HotFitsBlock
  <2>6. CallInTurn'
    BY <2>2, <2>3 DEF Notify, CallInTurn
  <2> QED BY <2>4, <2>5, <2>6 DEF TurnPart
<1> QED BY <1>3, <1>5, <1>6

LEMMA EpollBaseKeepsTurn ==
  ASSUME NoErrorsWithEpoll, IInv, TurnPart, ByEpoll,
         E!BaseStep, UNCHANGED <<watched, cleared>>
  PROVE  TurnPart'
<1>0. /\ fileScan = "epoll" /\ fileScan \in DOMAIN UsesOf
      /\ "error" \notin UsesOf["epoll"]
  BY DEF IInv, TypeOK, ByEpoll, NoErrorsWithEpoll
<1>1. RegPart /\ CyclePart
  BY DEF IInv, TypeOK, BaseTypeOK, RegPart, CyclePart
<1>2. BaseStep
  BY <1>0, EpollUses
<1>3. /\ hot' = hot
      /\ \A fd \in FDs : theRegs'[fd].theBlockingDir = theRegs[fd].theBlockingDir
  BY <1>1, <1>2, BaseStepKeepsMarks
<1>4. \A fd \in FDs : "error" \notin ready'[fd]
  <2>1. ASSUME NEW f \in FDs, E!SocketChanges(f)
        PROVE  \A fd \in FDs : "error" \notin ready'[fd]
    BY <1>0, <1>1, <2>1 DEF E!SocketChanges, CyclePart, TurnPart, NoErrors
  <2>2. CASE ready' = ready
    BY <2>2 DEF TurnPart, NoErrors
  <2> QED BY <2>1, <2>2
      DEF E!BaseStep, E!SetPriority, E!SetTimeout, E!ClearTimeout,
          E!ForceReady, E!SetReg, E!TimePasses, E!Return,
          E!LoopEnds, E!CheckTimeouts
<1>5. NoErrors'
  BY <1>3, <1>4 DEF TurnPart, NoErrors
<1>6. CASE UNCHANGED <<pc, cur, call>>
  BY <1>3, <1>5, <1>6 DEF TurnPart, HotFitsBlock, CallInTurn
<1>7. CASE Return \/ LoopEnds \/ CheckTimeouts
  <2>1. pc = "write" => pc' = "write" /\ cur' = cur
    BY <1>7 DEF Return, LoopEnds, CheckTimeouts, cycle
  <2>2. HotFitsBlock'
    BY <1>3, <2>1 DEF TurnPart, HotFitsBlock
  <2>3. CallInTurn'
    BY <1>7 DEF CallInTurn, Return, LoopEnds, CheckTimeouts, Dirs
  <2> QED BY <1>5, <2>2, <2>3 DEF TurnPart
<1> QED BY <1>2, <1>6, <1>7
    DEF BaseStep, SetPriority, SetTimeout, ClearTimeout, ForceReady, SetReg,
        SocketChanges, TimePasses, cycle

LEMMA AlwaysTurn ==
  ASSUME NoErrorsWithEpoll
  PROVE  Spec => [](fileScan = "epoll" => TurnPart)
<1> DEFINE Inv == fileScan = "epoll" => TurnPart
<1>1. Init => Inv
  BY DEF Init, BaseInit, TurnPart, NoErrors, HotFitsBlock, CallInTurn
<1>2. Inv /\ IInv /\ [Next]_vars => Inv'
  <2> SUFFICES ASSUME Inv, IInv, [Next]_vars PROVE Inv'
    OBVIOUS
  <2>1. CASE ByEpoll /\ E!Next
    <3>1. TurnPart
      BY <2>1 DEF ByEpoll
    <3>2. TurnPart'
      BY <2>1, <3>1, EpollUserKeepsTurn, EpollLoopKeepsTurn, EpollBaseKeepsTurn
      DEF E!Next
    <3> QED BY <3>2
  <2>2. CASE ByPoll \/ BySelect
    BY <2>2 DEF ByPoll, BySelect
  <2>3. CASE UNCHANGED vars
    BY <2>3 DEF vars, TurnPart, NoErrors, HotFitsBlock, CallInTurn
  <2> QED BY <2>1, <2>2, <2>3 DEF Next
<1>3. Spec => []Inv
  BY <1>1, <1>2, AlwaysIInv, PTL DEF Spec
<1> QED BY <1>3

(* A user whose reading waits for output, or writing for input, is called  *)
(* for what it waits for and never for that direction itself, so that the  *)
(* Should() of notifyReadReady and notifyWriteReady holds: with epoll as   *)
(* long as no socket fails, with poll and select as long as nobody blocks. *)
THEOREM BlockedUsersWaitForTheOtherDirection ==
  ASSUME NoErrorsWithEpoll, OnlyEpollBlocks
  PROVE  Spec => NoDirectIoWhileBlocked
<1> DEFINE Direct == call' # call /\ call'.method \in Dirs
                       => theRegs'[call'.fd].theBlockingDir = "none"
<1>1. IInv /\ CopiesInv /\ (fileScan = "epoll" => TurnPart) /\ [Next]_vars
        => [Direct]_base
  <2> SUFFICES ASSUME IInv, CopiesInv, fileScan = "epoll" => TurnPart, Next,
                      call' # call, call'.method \in Dirs
               PROVE  theRegs'[call'.fd].theBlockingDir = "none"
    BY DEF vars, base
  <2>0. RegPart
    BY DEF IInv, TypeOK, BaseTypeOK, RegPart
  <2>1. ASSUME NEW dir \in Dirs, InTurn(call'.fd, dir),
               theRegs[call'.fd].theBlockingDir \in {dir, "none"}
        PROVE  theRegs'[call'.fd].theBlockingDir = "none"
    <3>1. /\ theRegs[call'.fd] \in Regs
          /\ theRegs'[call'.fd] = RegNotified(theRegs[call'.fd], dir)
      BY <2>0, <2>1 DEF InTurn, RegPart
    <3> QED BY <2>1, <3>1 DEF RegNotified, Regs
  <2>2. CASE ByEpoll /\ E!Next
    <3>1. PICK dir \in Dirs : E!ReadyUser(call'.fd, dir) /\ InTurn(call'.fd, dir)
      BY <2>2, EpollCalls
    <3> DEFINE fd == call'.fd
               block == theRegs[fd].theBlockingDir
    <3>2. TurnPart /\ fd \in FDs
      BY <2>2, <3>1 DEF ByEpoll, InTurn
    <3>3. dir \in hot[fd] /\ fd \notin cleared
      BY <3>1, <3>2 DEF E!ReadyUser, TurnPart, NoErrors
    <3>4. block \in Dirs \cup {"none"}
      BY <2>0, <3>2 DEF RegPart, Regs
    <3>5. block \in {dir, "none"}
      BY <3>1, <3>2, <3>3, <3>4 DEF TurnPart, HotFitsBlock, InTurn, Other, Dirs
    <3> QED BY <2>1, <3>1, <3>5
  <2>3. CASE ByPoll /\ P!Next
    <3>1. PICK dir \in Dirs : InTurn(call'.fd, dir)
      BY <2>3, PollCalls
    <3> QED BY <2>1, <2>3, <3>1 DEF ByPoll, CopiesInv, Unblocked, InTurn
  <2>4. CASE BySelect /\ S!Next
    <3>1. PICK dir \in Dirs : InTurn(call'.fd, dir)
      BY <2>4, SelectCalls
    <3> QED BY <2>1, <2>4, <3>1 DEF BySelect, CopiesInv, Unblocked, InTurn
  <2> QED BY <2>2, <2>3, <2>4 DEF Next
<1> QED BY <1>1, AlwaysIInv, AlwaysCopies, AlwaysTurn, PTL
        DEF Spec, NoDirectIoWhileBlocked
=============================================================================
