---------------------------- MODULE FileScanner ----------------------------
(***************************************************************************)
(* What the file scanners share (src/xstd/FileScanner.cc): the record of   *)
(* every registered descriptor, the order of a scan cycle, the calls users *)
(* may make from a callback or between two cycles, and the main loop that  *)
(* decides how urgent a cycle is (PolyApp::scan).                          *)
(*                                                                         *)
(* A scanner such as Epoll extends this module with what it keeps about    *)
(* descriptors and the system call it sweeps with.  Who the user of a      *)
(* descriptor is does not matter here, so changeUser() is not modelled: a  *)
(* registration has a user exactly while it has reservations.              *)
(***************************************************************************)
EXTENDS Integers, FiniteSets, FiniteSetsExt

CONSTANTS
  FDs,           \* the file descriptors the system hands out
  PrioritySched, \* every PrioritySched-th cycle looks at all descriptors
  Uses           \* what happens in this instance, of AllUses

ASSUME FDsAssumption == FDs \subseteq Nat /\ IsFiniteSet(FDs) /\ FDs # {}

(* "block": SSL or SOCKS needs input to write, or the other way round;     *)
(* "buffer": SSL buffers input; "error": sockets fail; "timeout": users    *)
(* set timeouts; "priority": users lower their priority; "duplex": users   *)
(* read and write at the same time.                                        *)
AllUses == {"block", "buffer", "error", "timeout", "priority", "duplex"}

ASSUME OptsAssumption == PrioritySched \in Nat \ {0} /\ Uses \subseteq AllUses

(* A definition marked "Variant" is a faulty form of the one below it.  No *)
(* specification uses a variant: each stands for a mistake that one of the *)
(* properties has to notice.                                               *)

VARIABLES
  theRegs,    \* fd -> its FileScanUserReg
  interests,  \* fd -> the directions users hold reservations for
  theMaxFD,   \* no descriptor above it is looked at
  urgent,     \* TheMinPriority is fsupAsap: best-effort users can wait
  scanCount,  \* PolyApp's cycle counter, modulo PrioritySched
  pc,         \* where the cycle is: idle, loop, write or timeouts
  cur,        \* the descriptor whose turn it is
  hot,        \* fd -> what the sweep reported and the loop has not handled
  call,       \* the callback being executed
  open,       \* descriptors that are open
  ready,      \* fd -> the condition of its socket
  reopenable  \* descriptors closed since the sweep (a history variable)

cycle == <<urgent, scanCount, pc, cur, hot>>
base == <<theRegs, interests, theMaxFD, urgent, scanCount, pc, cur, hot, call,
          open, ready, reopenable>>

Dirs == {"read", "write"}
Other(dir) == IF dir = "read" THEN "write" ELSE "read"
Conditions == Dirs \cup {"error"}

NoCall == [fd |-> -1, method |-> "none"]

Regs ==
  [theResCount    : 0 .. 2,
   thePriority    : {"bestEffort", "default"},
   theBlockingDir : Dirs \cup {"none"},
   isForcedReady  : BOOLEAN,
   timer          : {"off", "armed", "expired"}]  \* theTimeout against theStart

-----------------------------------------------------------------------------
(* FileScanUserReg: what one call does to a registration.                  *)

ResetReg ==
  [theResCount |-> 0, thePriority |-> "default", theBlockingDir |-> "none",
   isForcedReady |-> FALSE, timer |-> "off"]

Rearmed(timer) == IF timer = "expired" THEN "armed" ELSE timer

RegSet(reg, dir) ==
  [reg EXCEPT
     !.theResCount = @ + 1,
     !.thePriority = "default",
     !.theBlockingDir = IF reg.theResCount = 0 /\ @ = dir THEN "none" ELSE @,
     !.timer = Rearmed(@)]

(* Variant: clearing the blocked direction leaves the other one blocked.   *)
RegClearKeepsBlock(reg, dir) ==
  IF reg.theResCount = 1 THEN ResetReg
  ELSE [reg EXCEPT !.theResCount = @ - 1, !.timer = Rearmed(@),
                   !.isForcedReady = @ /\ dir # "read"]

RegClear(reg, dir) ==
  IF reg.theResCount = 1 THEN ResetReg
  ELSE [reg EXCEPT
          !.theResCount = @ - 1,
          !.isForcedReady = @ /\ dir # "read",
          !.theBlockingDir = IF dir = Other(@) THEN "none" ELSE @,
          !.timer = Rearmed(@)]

(* notifyReadReady (dir = "read") and notifyWriteReady.                    *)
RegNotified(reg, dir) ==
  [reg EXCEPT
     !.thePriority = "default",
     !.timer = Rearmed(@),
     !.isForcedReady = @ /\ dir # "read",
     !.theBlockingDir = IF @ = dir THEN "none" ELSE @]

(* ... and the method of the user they call: the blocked one, if any.      *)
MethodFor(reg, dir) == IF reg.theBlockingDir = dir THEN Other(dir) ELSE dir

RegBlockedOn(reg, dir) ==
  [reg EXCEPT !.theBlockingDir = IF @ = Other(dir) THEN @ ELSE dir]

(* Variant: the comparison with TheMinPriority is off by one.              *)
NeedsCheckOffByOne(reg, inUrgentCycle) ==
  reg.theResCount > 0 /\ reg.thePriority # "bestEffort"

(* FileScanUserReg::needsCheck and timedout under TheMinPriority.          *)
NeedsCheck(reg, inUrgentCycle) ==
  reg.theResCount > 0 /\ (inUrgentCycle => reg.thePriority # "bestEffort")

Timedout(reg) == NeedsCheck(reg, urgent) /\ reg.timer = "expired"

(* All reservations of a descriptor are given up, one after the other.     *)
RegClearAll(reg) == IF reg.theResCount = 0 THEN reg ELSE ResetReg

-----------------------------------------------------------------------------
BaseInit ==
  /\ theRegs = [fd \in FDs |-> ResetReg]
  /\ interests = [fd \in FDs |-> {}]
  /\ theMaxFD = -1
  /\ urgent = FALSE
  /\ scanCount = 0
  /\ pc = "idle"
  /\ cur = -1
  /\ hot = [fd \in FDs |-> {}]
  /\ call = NoCall
  /\ open = {}
  /\ ready = [fd \in FDs |-> {}]
  /\ reopenable = {}

(* Users act from a callback of the scanner, or between cycles when an     *)
(* alarm rings.                                                            *)
UserRuns == call # NoCall \/ pc = "idle"

Used(dirs) == {fd \in FDs : dirs[fd] # {}}

(* Variant: clearing the highest descriptor does not search for the next.  *)
MaxFdAfterReset(dirs) ==
  LET above == {fd \in Used(dirs) : fd > theMaxFD} IN
  IF above # {} THEN Max(above)
  ELSE IF theMaxFD \in FDs /\ dirs[theMaxFD] = {} THEN -1 ELSE theMaxFD

(* theMaxFD after a change of the reservations: setFD raises it, clearFD   *)
(* of the highest descriptor lowers it to the next one in use.             *)
MaxFdAfter(dirs) ==
  LET above == {fd \in Used(dirs) : fd > theMaxFD}
      below == {fd \in Used(dirs) : fd <= theMaxFD} IN
  IF above # {} THEN Max(above)
  ELSE IF theMaxFD \in FDs /\ dirs[theMaxFD] = {} /\ interests[theMaxFD] # {}
       THEN IF below = {} THEN -1 ELSE Max(below)
       ELSE theMaxFD

(* The registration and the reservations of fd change; nothing else does.  *)
Register(fd, reg, dirs) ==
  /\ theRegs' = [theRegs EXCEPT ![fd] = reg]
  /\ interests' = [interests EXCEPT ![fd] = dirs]
  /\ theMaxFD' = MaxFdAfter(interests')

(* FileScanner::setFD for a descriptor just opened; socksStart() asks for  *)
(* output first, before there is any reservation.                          *)
BaseConnect(fd, dir, socks) ==
  /\ UserRuns
  /\ fd \notin open
  /\ socks => "block" \in Uses
  /\ LET reg == IF socks THEN RegBlockedOn(theRegs[fd], "write") ELSE theRegs[fd]
     IN  Register(fd, RegSet(reg, dir), {dir})
  /\ open' = open \cup {fd}
  /\ ready' = [ready EXCEPT ![fd] = {}]
  /\ UNCHANGED <<cycle, call, reopenable>>

BaseSetFD(fd, dir) ==
  /\ UserRuns
  /\ fd \in open /\ dir \notin interests[fd]
  /\ interests[fd] = {} \/ "duplex" \in Uses
  /\ Register(fd, RegSet(theRegs[fd], dir), interests[fd] \cup {dir})
  /\ UNCHANGED <<cycle, call, open, ready, reopenable>>

BaseClearFD(fd, dir) ==
  /\ UserRuns
  /\ fd \in open /\ dir \in interests[fd]
  /\ Register(fd, RegClear(theRegs[fd], dir), interests[fd] \ {dir})
  /\ UNCHANGED <<urgent, scanCount, pc, cur, call, open, ready, reopenable>>

(* Connection::rawCloseNow: both directions are cleared, then the socket   *)
(* is closed.                                                              *)
BaseClose(fd) ==
  /\ UserRuns
  /\ fd \in open
  /\ Register(fd, RegClearAll(theRegs[fd]), {})
  /\ open' = open \ {fd}
  /\ ready' = [ready EXCEPT ![fd] = {}]
  /\ reopenable' = IF pc = "idle" THEN {} ELSE reopenable \cup {fd}
  /\ UNCHANGED <<urgent, scanCount, pc, cur, call>>

(* The I/O a user tries from its callback needs the other direction.       *)
BaseBlockedOn(fd) ==
  /\ "block" \in Uses
  /\ call.fd = fd /\ call.method \in interests[fd]
  /\ theRegs' = [theRegs EXCEPT ![fd] = RegBlockedOn(@, Other(call.method))]
  /\ UNCHANGED <<interests, theMaxFD, cycle, call, open, ready, reopenable>>

SetReg(fd, reg) ==
  /\ UserRuns
  /\ interests[fd] # {} /\ theRegs[fd] # reg
  /\ theRegs' = [theRegs EXCEPT ![fd] = reg]
  /\ UNCHANGED <<interests, theMaxFD, cycle, call, open, ready, reopenable>>

SetPriority(fd) ==
  /\ "priority" \in Uses
  /\ SetReg(fd, [theRegs[fd] EXCEPT !.thePriority = "bestEffort"])

SetTimeout(fd) ==
  "timeout" \in Uses /\ SetReg(fd, [theRegs[fd] EXCEPT !.timer = "armed"])

ClearTimeout(fd) ==
  "timeout" \in Uses /\ SetReg(fd, [theRegs[fd] EXCEPT !.timer = "off"])

(* Connection::sslRead left decrypted data behind.  Nothing ever appends   *)
(* the descriptor to theForcedReady, so scanForced() serves nobody.        *)
ForceReady(fd) ==
  /\ "buffer" \in Uses
  /\ call.fd = fd /\ call.method = "read"
  /\ SetReg(fd, [theRegs[fd] EXCEPT !.isForcedReady = TRUE])

(* The callback returns to the scanner.                                    *)
Return ==
  /\ call # NoCall
  /\ call' = NoCall
  /\ UNCHANGED <<theRegs, interests, theMaxFD, cycle, open, ready, reopenable>>

-----------------------------------------------------------------------------
(* The cycle.                                                              *)

(* PolyApp::scan: every PrioritySched-th cycle looks at everybody, and so  *)
(* does the one after a cycle without hot descriptors.  A full cycle that  *)
(* an overdue alarm leaves no time for counts as one of those, and changes *)
(* nothing: the next cycle is a full one again.                            *)
NextScanCount(found) ==
  IF Used(found) = {} THEN 0 ELSE (scanCount + 1) % PrioritySched

(* FileScanner::scan up to its loop: the sweep found `found'.              *)
BaseSweep(found) ==
  /\ pc = "idle" /\ call = NoCall
  /\ pc' = "loop"
  /\ hot' = found
  /\ scanCount' = NextScanCount(found)
  /\ reopenable' = {}
  /\ UNCHANGED <<theRegs, interests, theMaxFD, cur, call, open, ready>>

(* One direction of the loop's body: tell the user of fd, if there is one. *)
Notify(fd, dir, isReady) ==
  IF isReady
  THEN /\ theRegs' = [theRegs EXCEPT ![fd] = RegNotified(@, dir)]
       /\ call' = [fd |-> fd, method |-> MethodFor(theRegs[fd], dir)]
  ELSE UNCHANGED <<theRegs, call>>

(* The loop turns to descriptor fd, which has something to read or not.    *)
LoopRead(fd, isReady) ==
  /\ pc = "loop" /\ call = NoCall
  /\ fd \in Used(hot)
  /\ pc' = "write" /\ cur' = fd
  /\ Notify(fd, "read", isReady)
  /\ UNCHANGED <<interests, theMaxFD, urgent, scanCount, hot, open, ready, reopenable>>

LoopWrite(isReady) ==
  /\ pc = "write" /\ call = NoCall
  /\ pc' = "loop" /\ cur' = -1
  /\ hot' = [hot EXCEPT ![cur] = {}]
  /\ Notify(cur, "write", isReady)
  /\ UNCHANGED <<interests, theMaxFD, urgent, scanCount, open, ready, reopenable>>

LoopEnds ==
  /\ pc = "loop" /\ call = NoCall
  /\ Used(hot) = {}
  /\ pc' = "timeouts"
  /\ UNCHANGED <<theRegs, interests, theMaxFD, urgent, scanCount, cur, hot, call,
                 open, ready, reopenable>>

(* FileScanner::checkTimeouts passes over the descriptors once, upwards.   *)
Late == {fd \in FDs : fd > cur /\ fd <= theMaxFD /\ Timedout(theRegs[fd])}

CheckTimeouts ==
  /\ pc = "timeouts" /\ call = NoCall
  /\ IF Late # {}
     THEN /\ cur' = Min(Late)
          /\ call' = [fd |-> Min(Late), method |-> "timeout"]
          /\ pc' = pc
     ELSE /\ cur' = -1
          /\ pc' = "idle"
          /\ call' = call
  /\ UNCHANGED <<theRegs, interests, theMaxFD, urgent, scanCount, hot, open,
                 ready, reopenable>>

-----------------------------------------------------------------------------
(* The world outside, between cycles.                                      *)

SocketChanges(fd) ==
  /\ pc = "idle" /\ call = NoCall
  /\ fd \in open
  /\ \E cond \in SUBSET Conditions :
       /\ "error" \in cond => "error" \in Uses
       /\ cond # ready[fd]
       /\ ready' = [ready EXCEPT ![fd] = cond]
  /\ UNCHANGED <<theRegs, interests, theMaxFD, cycle, call, open, reopenable>>

TimePasses(fd) ==
  /\ call = NoCall
  /\ theRegs[fd].timer = "armed"
  /\ theRegs' = [theRegs EXCEPT ![fd].timer = "expired"]
  /\ UNCHANGED <<interests, theMaxFD, cycle, call, open, ready, reopenable>>

(* The steps that leave the scanner's own structures alone.                *)
BaseStep ==
  \/ \E fd \in FDs : \/ SetPriority(fd) \/ SetTimeout(fd) \/ ClearTimeout(fd)
                     \/ ForceReady(fd) \/ SocketChanges(fd) \/ TimePasses(fd)
  \/ Return \/ LoopEnds \/ CheckTimeouts

-----------------------------------------------------------------------------
BaseTypeOK ==
  /\ theRegs \in [FDs -> Regs]
  /\ interests \in [FDs -> SUBSET Dirs]
  /\ theMaxFD \in FDs \cup {-1}
  /\ urgent \in BOOLEAN
  /\ scanCount \in 0 .. PrioritySched - 1
  /\ pc \in {"idle", "loop", "write", "timeouts"}
  /\ cur \in FDs \cup {-1}
  /\ hot \in [FDs -> SUBSET Conditions]
  /\ call \in [fd : FDs, method : Dirs \cup {"timeout"}] \cup {NoCall}
  /\ open \subseteq FDs
  /\ ready \in [FDs -> SUBSET Conditions]
  /\ reopenable \subseteq FDs

(* The registrations count the reservations users hold, and the scanner    *)
(* looks far enough to see all of them: setTimeout()'s Assert holds and no *)
(* timeout is missed.                                                      *)
RegsAgree ==
  \A fd \in FDs :
    /\ theRegs[fd].theResCount = Cardinality(interests[fd])
    /\ interests[fd] # {} => fd \in open /\ fd <= theMaxFD

(* A descriptor blocked on one direction is waiting for the other one: a   *)
(* blocking mark never outlives the reservation it was made for, so it     *)
(* never redirects the events of a later user.                             *)
BlockedIsWaiting ==
  \A fd \in FDs :
    LET dir == theRegs[fd].theBlockingDir IN
    dir # "none" => Other(dir) \in interests[fd]

(* An event that was reported before its descriptor was closed does not    *)
(* reach whoever opened the descriptor next (readyUser: "this is a         *)
(* different user and event must be ignored").                             *)
NoStaleCall ==
  [][call' # call /\ call'.method \in Dirs => call'.fd \notin reopenable]_base

(* A user whose reading waits for output, or writing for input, is not     *)
(* called for that direction itself: notifyReadReady and notifyWriteReady  *)
(* say Should(theBlockingDir == dirNone).                                  *)
NoDirectIoWhileBlocked ==
  [][call' # call /\ call'.method \in Dirs
       => theRegs'[call'.fd].theBlockingDir = "none"]_base

(* What a user waits for: the reserved direction itself or, while blocked, *)
(* the other one.                                                          *)
Awaited(fd, dir) ==
  /\ dir \in interests[fd]
  /\ \/ theRegs[fd].theBlockingDir = "none" /\ dir \in ready[fd]
     \/ theRegs[fd].theBlockingDir = Other(dir) /\ Other(dir) \in ready[fd]

(* A user who keeps waiting for what its socket is ready to do is called.  *)
ReadyIsNotified ==
  \A fd \in FDs, dir \in Dirs :
    []<>(~Awaited(fd, dir) \/ call = [fd |-> fd, method |-> dir])

(* A timeout that has passed is reported, best-effort users included,      *)
(* although most cycles of a busy process do not look at those.            *)
TimeoutIsReported ==
  \A fd \in FDs :
    []<>(\/ theRegs[fd].timer # "expired" \/ interests[fd] = {}
         \/ call = [fd |-> fd, method |-> "timeout"])

(* A user with buffered input is called to continue reading without the    *)
(* help of the network: "call noteReadReady w/o checking fd is ready".     *)
ForcedReadContinues ==
  \A fd \in FDs : []<>(~theRegs[fd].isForcedReady)
=============================================================================
