-------------------------------- MODULE Poll --------------------------------
(***************************************************************************)
(* The scanner based on poll(2) (src/xstd/Poll.cc).  Before every sweep    *)
(* it copies the descriptors worth checking to an array for the system     *)
(* call; the loop reads its results from the copy, and clearFD() has to    *)
(* erase from the copy what a user no longer wants to hear of.             *)
(***************************************************************************)
EXTENDS FileScanner

VARIABLE asked  \* theHotFDs: fd -> the events in the copy; hot: the revents

vars == <<theRegs, interests, theMaxFD, urgent, scanCount, pc, cur, hot, call,
          open, ready, reopenable, asked>>

Init == BaseInit /\ asked = [fd \in FDs |-> {}]

Connect(fd, dir, socks) == BaseConnect(fd, dir, socks) /\ UNCHANGED asked

SetFD(fd, dir) == BaseSetFD(fd, dir) /\ UNCHANGED asked

(* Variant: clearFD() forgets the copy.                                    *)
EraseNothing(fd, dirs) == UNCHANGED <<asked, hot>>

(* Poll::clearFD: PollFD::clear of the directions given up, in the copy.   *)
Erase(fd, dirs) ==
  /\ asked' = [asked EXCEPT ![fd] = @ \ dirs]
  /\ hot' = [hot EXCEPT ![fd] = IF asked'[fd] = {} THEN {} ELSE @ \ dirs]

ClearFD(fd, dir) == BaseClearFD(fd, dir) /\ Erase(fd, {dir})

Close(fd) == BaseClose(fd) /\ Erase(fd, interests[fd])

BlockedOn(fd) == BaseBlockedOn(fd) /\ UNCHANGED asked

(* Variant: a blocked descriptor is polled for its own direction.          *)
SweepUnblocked ==
  LET copy == [fd \in FDs |->
        IF NeedsCheck(theRegs[fd], scanCount # 0) THEN interests[fd] ELSE {}]
  IN  /\ urgent' = (scanCount # 0)
      /\ asked' = copy
      /\ BaseSweep([fd \in FDs |->
           IF copy[fd] = {} THEN {} ELSE ready[fd] \cap (copy[fd] \cup {"error"})])

(* Poll::sweep: the copy holds the descriptors that need a check at this   *)
(* priority, a blocked one with the direction that unblocks it alone.      *)
Sweep ==
  LET reg(fd) == theRegs[fd]
      copy == [fd \in FDs |->
        IF ~NeedsCheck(reg(fd), scanCount # 0) THEN {}
        ELSE IF reg(fd).theBlockingDir # "none" THEN {reg(fd).theBlockingDir}
        ELSE interests[fd]]
  IN  /\ urgent' = (scanCount # 0)
      /\ asked' = copy
      /\ BaseSweep([fd \in FDs |->
           IF copy[fd] = {} THEN {} ELSE ready[fd] \cap (copy[fd] \cup {"error"})])

(* Poll::readyUser.                                                        *)
ReadyUser(fd, dir) ==
  /\ fd <= theMaxFD
  /\ hot[fd] \cap {dir, "error"} # {}
  /\ dir \in interests[fd] \/ theRegs[fd].theBlockingDir = dir

ReadEvent ==
  /\ Used(hot) # {}
  /\ LET fd == Min(Used(hot)) IN LoopRead(fd, ReadyUser(fd, "read"))
  /\ UNCHANGED asked

WriteEvent == LoopWrite(ReadyUser(cur, "write")) /\ UNCHANGED asked

UserStep ==
  \E fd \in FDs :
    \/ \E dir \in Dirs : \/ \E socks \in BOOLEAN : Connect(fd, dir, socks)
                         \/ SetFD(fd, dir)
                         \/ ClearFD(fd, dir)
    \/ Close(fd)
    \/ BlockedOn(fd)

Next ==
  \/ UserStep \/ Sweep \/ ReadEvent \/ WriteEvent
  \/ BaseStep /\ UNCHANGED asked
=============================================================================
