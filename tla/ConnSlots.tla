------------------------------ MODULE ConnSlots ------------------------------
(***************************************************************************)
(* What a robot's connection manager promises to the robot, whatever queue,*)
(* hash or counter it uses: connections are used, idle or closing; at most *)
(* Limit are used or idle; a step lets one transaction start or stop using *)
(* one connection; idle connections may be given up at any step; and a     *)
(* connection that started to close only ever disappears.                  *)
(***************************************************************************)
EXTENDS Integers, FiniteSets

CONSTANTS Conns, Limit

VARIABLES used, idle, closing

slots == <<used, idle, closing>>

Free == Conns \ (used \cup idle \cup closing)

SlotsInit == used = {} /\ idle = {} /\ closing = {}

(* Room for one more used connection once the idle ones are reduced to i.  *)
Room(i) == Limit >= 0 => Cardinality(used) + Cardinality(i) < Limit

(* Idle connections of `given' are given up; some of those close slowly.   *)
\* A transaction starts using a new connection.
Start(c) ==
  \E given \in SUBSET idle : \E slow \in SUBSET given :
    /\ c \in Free
    /\ Room(idle \ given)
    /\ used' = used \cup {c}
    /\ idle' = idle \ given
    /\ closing' = closing \cup slow

\* A transaction starts using an idle connection.
Restart(c) ==
  \E given \in SUBSET (idle \ {c}) : \E slow \in SUBSET given :
    /\ c \in idle
    /\ used' = used \cup {c}
    /\ idle' = idle \ (given \cup {c})
    /\ closing' = closing \cup slow

\* The last user of a connection leaves: it is kept, or closed with others.
Keep(c) ==
  /\ c \in used
  /\ used' = used \ {c}
  /\ idle' = idle \cup {c}
  /\ UNCHANGED closing

Discard(c) ==
  \E given \in SUBSET (idle \cup {c}) : \E slow \in SUBSET given :
    /\ c \in used /\ c \in given
    /\ used' = used \ {c}
    /\ idle' = idle \ given
    /\ closing' = closing \cup slow

\* Connections stop closing or are given up without anyone starting to use one.
Retire ==
  \E given \in SUBSET idle, ended \in SUBSET closing : \E slow \in SUBSET given :
    /\ idle' = idle \ given
    /\ closing' = (closing \ ended) \cup slow
    /\ UNCHANGED used

SlotsNext ==
  \/ \E c \in Conns : Start(c) \/ Restart(c) \/ Keep(c) \/ Discard(c)
  \/ Retire

SlotsSpec == SlotsInit /\ [][SlotsNext]_slots
=============================================================================
