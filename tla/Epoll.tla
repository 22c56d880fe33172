------------------------------- MODULE Epoll -------------------------------
(***************************************************************************)
(* The scanner based on epoll(7) (src/xstd/Epoll.cc).  The kernel keeps    *)
(* the set of directions to watch for every descriptor, and the scanner    *)
(* must keep it in line with the reservations of users (theInterests) and  *)
(* with the direction a blocked user waits for.                            *)
(***************************************************************************)
EXTENDS FileScanner

VARIABLES
  watched, \* the kernel's interest list: fd -> directions; {}: not in it
  cleared  \* descriptors whose theClearedSweepId is theLastSweepId

vars == <<theRegs, interests, theMaxFD, urgent, scanCount, pc, cur, hot, call,
          open, ready, reopenable, watched, cleared>>

Init ==
  /\ BaseInit
  /\ watched = [fd \in FDs |-> {}]
  /\ cleared = {}

Blocked(reg) == reg.theBlockingDir # "none"

(* Epoll::setFD: a blocked descriptor is added for the direction that will *)
(* unblock it, and is not changed before that.                             *)
Watch(fd, blockedOn) ==
  watched' = [watched EXCEPT ![fd] =
    IF blockedOn = "none" THEN interests'[fd]
    ELSE IF interests[fd] = {} THEN {blockedOn} ELSE @]

Connect(fd, dir, socks) ==
  /\ BaseConnect(fd, dir, socks)
  /\ Watch(fd, IF socks THEN "write" ELSE "none")
  /\ UNCHANGED cleared

(* Variant: the kernel is told of the new direction although the           *)
(* descriptor is blocked.                                                  *)
SetFDUnblocks(fd, dir) ==
  /\ BaseSetFD(fd, dir)
  /\ watched' = [watched EXCEPT ![fd] = interests'[fd]]
  /\ UNCHANGED cleared

SetFD(fd, dir) ==
  /\ BaseSetFD(fd, dir)
  /\ Watch(fd, theRegs[fd].theBlockingDir)
  /\ UNCHANGED cleared

(* Epoll::clearFD: the kernel forgets a descriptor without reservations;   *)
(* a blocked one is left alone.                                            *)
Unwatch(fd) ==
  /\ watched' = [watched EXCEPT ![fd] =
       IF interests'[fd] = {} THEN {}
       ELSE IF Blocked(theRegs[fd]) THEN @ ELSE interests'[fd]]
  /\ cleared' = IF interests[fd] # {} /\ interests'[fd] = {}
                THEN cleared \cup {fd} ELSE cleared
  /\ UNCHANGED hot

ClearFD(fd, dir) == BaseClearFD(fd, dir) /\ Unwatch(fd)

Close(fd) == BaseClose(fd) /\ Unwatch(fd)

(* Epoll::setReadNeedsWrite, setWriteNeedsRead and setBlocked.             *)
BlockedOn(fd) ==
  /\ BaseBlockedOn(fd)
  /\ watched' = [watched EXCEPT ![fd] = {theRegs'[fd].theBlockingDir}]
  /\ UNCHANGED cleared

(* Epoll::sweep: all watched descriptors in the conditions asked for;      *)
(* errors are reported unasked.                                            *)
Sweep ==
  /\ BaseSweep([fd \in FDs |->
       IF watched[fd] = {} THEN {} ELSE ready[fd] \cap (watched[fd] \cup {"error"})])
  /\ urgent' = (scanCount # 0)
  /\ cleared' = {}
  /\ UNCHANGED watched

(* The user waits for dir, or for the direction dir unblocks.              *)
Interested(fd, dir) == dir \in interests[fd] \/ theRegs[fd].theBlockingDir = dir

(* Epoll::readyUser.                                                       *)
ReadyUser(fd, dir) ==
  /\ fd <= theMaxFD
  /\ fd \notin cleared
  /\ hot[fd] \cap {dir, "error"} # {}
  /\ Interested(fd, dir)

(* Variant: readyUser does not restore the kernel's interests.             *)
RewatchLater(fd, dir) == UNCHANGED <<watched, cleared>>

(* ... which has the kernel watch all directions once it is unblocked.     *)
Rewatch(fd, dir) ==
  /\ watched' = IF ReadyUser(fd, dir) /\ theRegs[fd].theBlockingDir = dir
                THEN [watched EXCEPT ![fd] = interests[fd]] ELSE watched
  /\ UNCHANGED cleared

ReadEvent ==
  \E fd \in FDs : LoopRead(fd, ReadyUser(fd, "read")) /\ Rewatch(fd, "read")

WriteEvent == LoopWrite(ReadyUser(cur, "write")) /\ Rewatch(cur, "write")

UserStep ==
  \E fd \in FDs :
    \/ \E dir \in Dirs : \/ \E socks \in BOOLEAN : Connect(fd, dir, socks)
                         \/ SetFD(fd, dir)
                         \/ ClearFD(fd, dir)
    \/ Close(fd)
    \/ BlockedOn(fd)

Next ==
  \/ UserStep \/ Sweep \/ ReadEvent \/ WriteEvent
  \/ BaseStep /\ UNCHANGED <<watched, cleared>>

-----------------------------------------------------------------------------
(* The interest list follows the reservations and the blocking marks.      *)
KernelInLine ==
  \A fd \in FDs :
    watched[fd] = IF interests[fd] = {} THEN {}
                  ELSE IF Blocked(theRegs[fd]) THEN {theRegs[fd].theBlockingDir}
                  ELSE interests[fd]
=============================================================================
