--------------------------- MODULE TheFileScanner ---------------------------
(***************************************************************************)
(* The scanner of a process (TheFileScanner): one of the three, chosen by  *)
(* the option file_scan when the process starts and never changed.         *)
(*                                                                         *)
(* UsesOf says what users do with which scanner, so that one instance      *)
(* looks at all scanners, each with the uses it is able to serve.          *)
(***************************************************************************)
EXTENDS FileScanner

CONSTANT UsesOf  \* the scanners of this instance, each with its Uses

VARIABLES
  fileScan, \* the option file_scan
  watched,  \* Epoll: the kernel's interest list
  cleared,  \* Epoll: descriptors cleared since the sweep
  asked     \* Poll: theHotFDs

vars == <<theRegs, interests, theMaxFD, urgent, scanCount, pc, cur, hot, call,
          open, ready, reopenable, fileScan, watched, cleared, asked>>

ASSUME UsesAssumption ==
  /\ DOMAIN UsesOf \subseteq {"epoll", "poll", "select"}
  /\ \A scanner \in DOMAIN UsesOf : UsesOf[scanner] \subseteq Uses

E == INSTANCE Epoll WITH Uses <- UsesOf["epoll"]
P == INSTANCE Poll WITH Uses <- UsesOf["poll"]
S == INSTANCE Select WITH Uses <- UsesOf["select"]

Init ==
  /\ fileScan \in DOMAIN UsesOf
  /\ BaseInit
  /\ watched = [fd \in FDs |-> {}]
  /\ cleared = {}
  /\ asked = [fd \in FDs |-> {}]

ByEpoll == fileScan = "epoll" /\ UNCHANGED <<fileScan, asked>>
ByPoll == fileScan = "poll" /\ UNCHANGED <<fileScan, watched, cleared>>
BySelect == fileScan = "select" /\ UNCHANGED <<fileScan, watched, cleared, asked>>

Next == \/ ByEpoll /\ E!Next
        \/ ByPoll /\ P!Next
        \/ BySelect /\ S!Next

Spec == Init /\ [][Next]_vars

Sweep == \/ ByEpoll /\ E!Sweep
         \/ ByPoll /\ P!Sweep
         \/ BySelect /\ S!Sweep

LoopGoesOn ==
  \/ ByEpoll /\ (E!ReadEvent \/ E!WriteEvent)
  \/ ByPoll /\ (P!ReadEvent \/ P!WriteEvent)
  \/ BySelect /\ (S!ReadEvent \/ S!WriteEvent)
  \/ LoopEnds /\ UNCHANGED <<fileScan, watched, cleared, asked>>

CallsEnd ==
  (Return \/ CheckTimeouts) /\ UNCHANGED <<fileScan, watched, cleared, asked>>

(* The main loop never stops: callbacks return, and a cycle that can go on *)
(* does so.                                                                *)
FairSpec ==
  Spec /\ WF_vars(Sweep) /\ WF_vars(LoopGoesOn) /\ WF_vars(CallsEnd)

-----------------------------------------------------------------------------
TypeOK ==
  /\ BaseTypeOK
  /\ fileScan \in DOMAIN UsesOf
  /\ watched \in [FDs -> SUBSET Dirs] /\ cleared \subseteq FDs
  /\ asked \in [FDs -> SUBSET Dirs]

(* With epoll the kernel watches exactly what the users wait for: all      *)
(* reserved directions or, while one is blocked, the direction that        *)
(* unblocks it.  So every epoll_ctl(2) call is a valid one (the code says  *)
(* Must) and no wake-up is lost.                                           *)
WatchedIsAwaited == fileScan = "epoll" => E!KernelInLine
=============================================================================
