------------------------------- MODULE Select -------------------------------
(***************************************************************************)
(* The scanner based on select(2) (src/xstd/Select.cc): two fd_sets, one   *)
(* per direction, each with a copy that the system call reduces to the     *)
(* descriptors that are ready.  hot is the two copies.  Priorities do not  *)
(* reduce the sets, and errors make a socket readable and writable.        *)
(***************************************************************************)
EXTENDS FileScanner

vars == base

Init == BaseInit

Connect(fd, dir, socks) == BaseConnect(fd, dir, socks)

SetFD(fd, dir) == BaseSetFD(fd, dir)

(* FD_Set::clearFD of the directions given up.                             *)
ClearFD(fd, dir) ==
  BaseClearFD(fd, dir) /\ hot' = [hot EXCEPT ![fd] = @ \ {dir}]

Close(fd) == BaseClose(fd) /\ hot' = [hot EXCEPT ![fd] = @ \ interests[fd]]

BlockedOn(fd) == BaseBlockedOn(fd)

(* Select::prepReadySets: the directions of a descriptor to ask for ...    *)
Prepared(fd) ==
  LET dir == theRegs[fd].theBlockingDir IN
  IF dir = "write" /\ "read" \in interests[fd]
  THEN (interests[fd] \ {"read"}) \cup {"write"}
  ELSE IF dir = "read" /\ interests[fd] = {"write"} THEN {"read"}
  ELSE interests[fd]

(* ... and the sets that are passed to select(2): writers who also read do *)
(* not activate the set of writers.                                        *)
Passed ==
  {"read" : fd \in {f \in FDs : "read" \in Prepared(f)}}
    \cup {"write" : fd \in {f \in FDs : /\ "write" \in Prepared(f)
                                        /\ "read" \notin Prepared(f)}}

(* Select::sweep.  A set that is not passed keeps all its members.         *)
Sweep ==
  LET can(fd) == Prepared(fd) \cap
                   (IF "error" \in ready[fd] THEN Dirs ELSE ready[fd])
      some == \E fd \in FDs : can(fd) \cap Passed # {}
  IN  /\ urgent' = (scanCount # 0)
      /\ BaseSweep([fd \in FDs |->
           IF some THEN (can(fd) \cap Passed) \cup (Prepared(fd) \ Passed) ELSE {}])

(* Select::readyUser.                                                      *)
ReadyUser(fd, dir) == dir \in hot[fd] /\ interests[fd] # {}

ReadEvent ==
  /\ Used(hot) # {}
  /\ LET fd == Min(Used(hot)) IN LoopRead(fd, ReadyUser(fd, "read"))

WriteEvent == LoopWrite(ReadyUser(cur, "write"))

UserStep ==
  \E fd \in FDs :
    \/ \E dir \in Dirs : \/ \E socks \in BOOLEAN : Connect(fd, dir, socks)
                         \/ SetFD(fd, dir)
                         \/ ClearFD(fd, dir)
    \/ Close(fd)
    \/ BlockedOn(fd)

Next == UserStep \/ Sweep \/ ReadEvent \/ WriteEvent \/ BaseStep
=============================================================================
