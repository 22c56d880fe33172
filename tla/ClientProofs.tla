---------------------------- MODULE ClientProofs ----------------------------
(***************************************************************************)
(* Proofs of what Client says of a robot, for every kind of robot, limit,  *)
(* session and set of faults.                                              *)
(*                                                                         *)
(* An event goes through many handlers, and each handler gets a lemma:     *)
(* from a robot that is in order (up to the connection that is being had   *)
(* or given back) every robot it may leave behind is in order.  Alarms are *)
(* few: the lemmas of the first part say what happens to them, and only    *)
(* whether an alarm is pending matters afterwards.                         *)
(***************************************************************************)
EXTENDS Client, FiniteSetTheorems, SequenceTheorems, TLAPS

(* The alarms a robot may have, those with a launch pending, and those     *)
(* with a session alarm.                                                   *)
AlarmSeqs ==
  {<< >>, <<"launch">>, <<"session">>, <<"launch", "session">>, <<"session", "launch">>}
Launching == {q \in AlarmSeqs : q # << >> /\ q # <<"session">>}
Timed == {q \in AlarmSeqs : q # << >> /\ q # <<"launch">>}

RobotRecs ==
  [kind : Kinds, state : {"off", "on", "over"}, session : Sessions,
   faults : FaultSets, isIdle : BOOLEAN, sessIdle : BOOLEAN,
   xactCnt : 0..XactGoal, lvl : Nat, debts : Nat, asked : Nat,
   extra : 0..MaxExtra, used : Nat, kept : Nat, closing : Nat,
   alarms : AlarmSeqs, failure : {"none", "pendAlarm", "pipeline"}]

(* The counters agree.  A handler may have d connections more than running *)
(* transactions, and may owe the waiting transactions e slots.             *)
Counts(r, d, e) ==
  /\ r.used = r.lvl + d
  /\ Limit >= 0 => r.used + r.kept <= Limit
  /\ r.isIdle => r.debts = 0 /\ r.kept = 0
  /\ "slow" \notin r.faults => r.closing = 0
  /\ r.faults \subseteq Favourable /\ r.debts > 0 => r.used + r.asked + e >= Limit

(* The alarms fit the state of the robot and of its session manager.  An   *)
(* idle best-effort robot may have a launch alarm left, but then the one   *)
(* that ends the idle period is due later, unless it lasts no time.        *)
AlarmsFit(r) ==
  /\ r.session = "none" \/ r.state = "off" => r.alarms \notin Timed
  /\ r.isIdle /\ r.kind = "async" => r.alarms \notin Launching
  /\ r.isIdle /\ r.kind = "sync" /\ "instant" \notin r.faults =>
       r.alarms # <<"session", "launch">>

(* A busy period that ends with a count has no alarm and has not ended.    *)
SessionFits(r) ==
  /\ r.session # "none" => r.isIdle = r.sessIdle
  /\ r.session = "xacts" /\ ~r.isIdle => r.alarms \notin Timed /\ r.xactCnt < XactGoal
  /\ r.state = "off" => r.isIdle

(* PendAlarmAssertHolds of a robot in the middle of a handler.             *)
Excused(r) == r.failure = "pendAlarm" => "instant" \in r.faults

Fits(r) == AlarmsFit(r) /\ SessionFits(r) /\ Excused(r)

(* A robot that was never started: nothing can happen to it but Start.     *)
Fresh(r) ==
  /\ r.state = "off" /\ ~r.isIdle /\ ~r.sessIdle /\ r.failure = "none"
  /\ r.xactCnt = 0 /\ r.lvl = 0 /\ r.debts = 0 /\ r.asked = 0
  /\ r.used = 0 /\ r.kept = 0 /\ r.closing = 0 /\ r.alarms = << >>

IInv ==
  robot \in RobotRecs /\ Counts(robot, 0, 0) /\ (Fits(robot) \/ Fresh(robot))

(* What a handler may do to the robot it is called for: end with the last  *)
(* phase, and start nothing while the robot is idle.                       *)
Goes(r, s) ==
  /\ s.kind = r.kind /\ s.session = r.session /\ s.faults = r.faults
  /\ s.state = r.state \/ (r.state = "on" /\ s.state = "over" /\ s.isIdle)
  /\ r.isIdle => s.isIdle /\ s.lvl <= r.lvl /\ Xacts(s) <= Xacts(r)
  /\ s.isIdle => r.isIdle \/ (r.state = "on" /\ s.state = "over")
  /\ s.alarms \in Timed => r.alarms \in Timed
  /\ s.extra <= r.extra

-----------------------------------------------------------------------------
(* Alarms.                                                                 *)

(* Launching says when a launch is pending.                                *)
LEMMA LaunchingIsPending ==
  ASSUME NEW q \in AlarmSeqs
  PROVE  Contains(q, "launch") <=> q \in Launching
<1>1. CASE q = << >> \/ q = <<"session">>
  BY <1>1 DEF Contains, Launching
<1>2. CASE q = <<"launch">> \/ q = <<"launch", "session">>
  <2>1. Len(q) \in {1, 2} /\ q[1] = "launch" /\ q # << >> /\ q # <<"session">>
    BY <1>2
  <2> QED BY <2>1 DEF Contains, Launching
<1>3. CASE q = <<"session", "launch">>
  <2>1. Len(q) = 2 /\ q[2] = "launch" /\ q # << >> /\ q # <<"session">>
    BY <1>3
  <2> QED BY <2>1 DEF Contains, Launching
<1> QED BY <1>1, <1>2, <1>3 DEF AlarmSeqs

(* There are two users of alarms.                                          *)
LEMMA OthersOfOne ==
  /\ (CHOOSE a \in Alarms : a # "launch") = "session"
  /\ (CHOOSE a \in Alarms : a # "session") = "launch"
  BY DEF Alarms

(* What an alarm queue holds after an alarm was put into it.               *)
LEMMA InsertAtIs ==
  ASSUME NEW q \in Seq(Alarms), NEW i \in 1..(Len(q) + 1), NEW a \in Alarms
  PROVE  /\ InsertAt(q, i, a) \in Seq(Alarms)
         /\ Len(InsertAt(q, i, a)) = Len(q) + 1
         /\ \A j \in 1..(Len(q) + 1) :
              InsertAt(q, i, a)[j] = IF j < i THEN q[j] ELSE IF j = i THEN a ELSE q[j - 1]
<1> DEFINE front == SubSeq(q, 1, i - 1)
           back == SubSeq(q, i, Len(q))
<1>1. /\ front \in Seq(Alarms) /\ Len(front) = i - 1
      /\ \A j \in 1..(i - 1) : front[j] = q[j]
  OBVIOUS
<1>2. /\ back \in Seq(Alarms) /\ Len(back) = Len(q) - i + 1
      /\ \A j \in 1..(Len(q) - i + 1) : back[j] = q[i + j - 1]
  OBVIOUS
<1>3. <<a>> \in Seq(Alarms) /\ Len(<<a>>) = 1 /\ <<a>>[1] = a
  OBVIOUS
<1>4. InsertAt(q, i, a) = front \o <<a>> \o back
  BY DEF InsertAt
<1> HIDE DEF front, back
<1>5. /\ front \o <<a>> \in Seq(Alarms) /\ Len(front \o <<a>>) = i
      /\ \A j \in 1..i : (front \o <<a>>)[j] = IF j < i THEN q[j] ELSE a
  BY <1>1, <1>3, ConcatProperties
<1> DEFINE head == front \o <<a>>
<1> HIDE DEF head
<1>6. /\ head \in Seq(Alarms) /\ Len(head) = i
      /\ \A j \in 1..i : head[j] = IF j < i THEN q[j] ELSE a
  BY <1>5 DEF head
<1>7. /\ head \o back \in Seq(Alarms) /\ Len(head \o back) = i + (Len(q) - i + 1)
      /\ \A j \in 1..(i + (Len(q) - i + 1)) :
           (head \o back)[j] = IF j <= i THEN head[j] ELSE back[j - i]
  <2>1. /\ head \o back \in Seq(Alarms)
        /\ Len(head \o back) = Len(head) + Len(back)
        /\ \A j \in 1..(Len(head) + Len(back)) :
             (head \o back)[j] = IF j <= Len(head) THEN head[j] ELSE back[j - Len(head)]
    BY <1>2, <1>6, ConcatProperties, Zenon
  <2> QED BY <1>2, <1>6, <2>1
<1>8. Len(q) \in Nat /\ i + (Len(q) - i + 1) = Len(q) + 1
  OBVIOUS
<1>9. \A j \in 1..(Len(q) + 1) : j > i => back[j - i] = q[j - 1]
  <2> SUFFICES ASSUME NEW j \in 1..(Len(q) + 1), j > i PROVE back[j - i] = q[j - 1]
    OBVIOUS
  <2>1. j - i \in 1..(Len(q) - i + 1) /\ i + (j - i) - 1 = j - 1
    BY <1>8
  <2> QED BY <1>2, <2>1
<1>10. InsertAt(q, i, a) = head \o back
  BY <1>4 DEF head
<1>11. \A j \in 1..(Len(q) + 1) :
         (head \o back)[j] = IF j < i THEN q[j] ELSE IF j = i THEN a ELSE q[j - 1]
  BY <1>6, <1>7, <1>8, <1>9
<1> QED BY <1>7, <1>8, <1>10, <1>11

(* A short sequence is the tuple of its elements.                          *)
LEMMA SeqsOfTwo ==
  ASSUME NEW q \in Seq(Alarms)
  PROVE  /\ Len(q) = 0 => q = << >>
         /\ Len(q) = 1 => q = <<q[1]>>
         /\ Len(q) = 2 => q = <<q[1], q[2]>>
  OBVIOUS

(* The alarms a robot may have are sequences of alarms.                    *)
LEMMA AlarmSeqsAreSeqs == AlarmSeqs \subseteq Seq(Alarms)
  BY DEF AlarmSeqs, Alarms

(* A launch is set where none is pending.                                  *)
LEMMA InsertLaunch ==
  ASSUME NEW q \in AlarmSeqs, q \notin Launching, NEW i \in 1..(Len(q) + 1)
  PROVE  LET p == InsertAt(q, i, "launch") IN
         p \in Launching /\ (p \in Timed <=> q \in Timed)
<1> DEFINE p == InsertAt(q, i, "launch")
<1>1. q = << >> \/ q = <<"session">>
  BY DEF AlarmSeqs, Launching
<1>2. q \in Seq(Alarms) /\ "launch" \in Alarms
  BY AlarmSeqsAreSeqs DEF Alarms
<1>3. /\ p \in Seq(Alarms) /\ Len(p) = Len(q) + 1
      /\ \A j \in 1..(Len(q) + 1) :
           p[j] = IF j < i THEN q[j] ELSE IF j = i THEN "launch" ELSE q[j - 1]
  BY <1>2, InsertAtIs
<1> HIDE DEF p
<1>4. CASE q = << >>
  <2>1. Len(q) = 0 /\ i = 1
    BY <1>4
  <2>2. Len(p) = 1 /\ p[1] = "launch"
    BY <1>3, <2>1
  <2>3. p = <<"launch">>
    BY <1>3, <2>2, SeqsOfTwo
  <2> QED BY <1>4, <2>3 DEF p, AlarmSeqs, Launching, Timed
<1>5. CASE q = <<"session">>
  <2>1. Len(q) = 1 /\ i \in {1, 2} /\ q[1] = "session"
    BY <1>5
  <2>2. Len(p) = 2 /\ p[1] = (IF i = 1 THEN "launch" ELSE "session")
                   /\ p[2] = (IF i = 1 THEN "session" ELSE "launch")
    BY <1>3, <2>1
  <2>3. p = <<"launch", "session">> \/ p = <<"session", "launch">>
    BY <1>3, <2>2, SeqsOfTwo
  <2> QED BY <1>5, <2>3 DEF p, AlarmSeqs, Launching, Timed
<1> QED BY <1>1, <1>4, <1>5

(* A session alarm is set where none is; after a launch alarm, if asked.   *)
LEMMA InsertSession ==
  ASSUME NEW q \in AlarmSeqs, q \notin Timed, NEW i \in 1..(Len(q) + 1)
  PROVE  LET p == InsertAt(q, i, "session") IN
         /\ p \in Timed /\ (p \in Launching <=> q \in Launching)
         /\ (\A j \in i..Len(q) : q[j] # "launch") => p # <<"session", "launch">>
<1> DEFINE p == InsertAt(q, i, "session")
<1>1. q = << >> \/ q = <<"launch">>
  BY DEF AlarmSeqs, Timed
<1>2. q \in Seq(Alarms) /\ "session" \in Alarms
  BY AlarmSeqsAreSeqs DEF Alarms
<1>3. /\ p \in Seq(Alarms) /\ Len(p) = Len(q) + 1
      /\ \A j \in 1..(Len(q) + 1) :
           p[j] = IF j < i THEN q[j] ELSE IF j = i THEN "session" ELSE q[j - 1]
  BY <1>2, InsertAtIs
<1> HIDE DEF p
<1>4. CASE q = << >>
  <2>1. Len(q) = 0 /\ i = 1
    BY <1>4
  <2>2. Len(p) = 1 /\ p[1] = "session"
    BY <1>3, <2>1
  <2>3. p = <<"session">>
    BY <1>3, <2>2, SeqsOfTwo
  <2> QED BY <1>4, <2>3 DEF p, AlarmSeqs, Launching, Timed
<1>5. CASE q = <<"launch">>
  <2>1. Len(q) = 1 /\ i \in {1, 2} /\ q[1] = "launch"
    BY <1>5
  <2>2. Len(p) = 2 /\ p[1] = (IF i = 1 THEN "session" ELSE "launch")
                   /\ p[2] = (IF i = 1 THEN "launch" ELSE "session")
    BY <1>3, <2>1
  <2>3. /\ p = <<"launch", "session">> \/ p = <<"session", "launch">>
        /\ i = 2 => p = <<"launch", "session">>
    BY <1>3, <2>2, SeqsOfTwo
  <2>4. (\A j \in i..Len(q) : q[j] # "launch") => i = 2
    BY <2>1
  <2>5. p \in Timed /\ (p \in Launching <=> q \in Launching)
    BY <1>5, <2>3 DEF AlarmSeqs, Launching, Timed
  <2>6. <<"launch", "session">> # <<"session", "launch">>
    OBVIOUS
  <2> QED BY <2>3, <2>4, <2>5, <2>6 DEF p
<1> QED BY <1>1, <1>4, <1>5

(* What an alarm that rings leaves behind.                                 *)
LEMMA TailOfAlarms ==
  ASSUME NEW q \in AlarmSeqs, q # << >>
  PROVE  /\ Tail(q) \in AlarmSeqs
         /\ Head(q) = "launch" => Tail(q) \notin Launching /\ q \in Launching
                                  /\ (Tail(q) \in Timed <=> q \in Timed)
         /\ Head(q) = "session" => Tail(q) \notin Timed /\ q \in Timed
                                   /\ (Tail(q) \in Launching <=> q \in Launching)
                                   /\ (Tail(q) # << >> => q = <<"session", "launch">>)
<1>1. CASE q = <<"launch">>
  <2>1. Head(q) = "launch" /\ Tail(q) = << >>
    BY <1>1
  <2> QED BY <1>1, <2>1 DEF AlarmSeqs, Launching, Timed
<1>2. CASE q = <<"session">>
  <2>1. Head(q) = "session" /\ Tail(q) = << >>
    BY <1>2
  <2> QED BY <1>2, <2>1 DEF AlarmSeqs, Launching, Timed
<1>3. CASE q = <<"launch", "session">>
  <2>1. Head(q) = "launch" /\ Tail(q) = <<"session">>
    BY <1>3
  <2> QED BY <1>3, <2>1 DEF AlarmSeqs, Launching, Timed
<1>4. CASE q = <<"session", "launch">>
  <2>1. Head(q) = "session" /\ Tail(q) = <<"launch">>
    BY <1>4
  <2> QED BY <1>4, <2>1 DEF AlarmSeqs, Launching, Timed
<1> QED BY <1>1, <1>2, <1>3, <1>4 DEF AlarmSeqs

(* cancelAlarms() leaves at most one alarm, that of the other user.        *)
LEMMA CancelLeaves ==
  ASSUME NEW q \in AlarmSeqs, NEW a \in Alarms, NEW b \in Alarms, a # b
  PROVE  /\ (\E i \in 1..Len(q) : q[i] = b) => CancelAlarms(q, a) = <<b>>
         /\ ~(\E i \in 1..Len(q) : q[i] = b) => CancelAlarms(q, a) = << >>
<1> DEFINE left == {i \in DOMAIN q : q[i] # a}
<1>1. (CHOOSE x \in Alarms : x # a) = b
  BY OthersOfOne DEF Alarms
<1>2. CancelAlarms(q, a) = [i \in 1..Cardinality(left) |-> b]
  BY <1>1 DEF CancelAlarms
<1>3. /\ q \in Seq(Alarms) /\ DOMAIN q = 1..Len(q) /\ Len(q) \in 0..2
      /\ \A i, j \in 1..Len(q) : q[i] = q[j] => i = j
  <2>1. q \in Seq(Alarms)
    BY AlarmSeqsAreSeqs
  <2>2. CASE q = << >>
    BY <2>2
  <2>3. CASE q = <<"launch">>
    BY <2>1, <2>3
  <2>4. CASE q = <<"session">>
    BY <2>1, <2>4
  <2>5. CASE q = <<"launch", "session">>
    BY <2>1, <2>5
  <2>6. CASE q = <<"session", "launch">>
    BY <2>1, <2>6
  <2> QED BY <2>2, <2>3, <2>4, <2>5, <2>6 DEF AlarmSeqs
<1>4. left = {i \in 1..Len(q) : q[i] = b}
  BY <1>3 DEF Alarms
<1>5. CASE \E i \in 1..Len(q) : q[i] = b
  <2>1. PICK i \in 1..Len(q) : q[i] = b
    BY <1>5
  <2>2. left = {i}
    BY <1>3, <1>4, <2>1
  <2>3. Cardinality(left) = 1
    BY <2>2, FS_Singleton
  <2>4. CancelAlarms(q, a) = [j \in 1..1 |-> b]
    BY <1>2, <2>3
  <2>5. CancelAlarms(q, a) \in Seq(Alarms) /\ Len(CancelAlarms(q, a)) = 1
        /\ CancelAlarms(q, a)[1] = b
    BY <2>4
  <2> QED BY <1>5, <2>5, SeqsOfTwo
<1>6. CASE ~(\E i \in 1..Len(q) : q[i] = b)
  <2>1. left = {}
    BY <1>4, <1>6
  <2>2. Cardinality(left) = 0
    BY <2>1, FS_EmptySet
  <2>3. CancelAlarms(q, a) = [j \in 1..0 |-> b]
    BY <1>2, <2>2
  <2>4. CancelAlarms(q, a) \in Seq(Alarms) /\ Len(CancelAlarms(q, a)) = 0
    BY <2>3
  <2> QED BY <1>6, <2>4, SeqsOfTwo
<1> QED BY <1>5, <1>6

(* Canceling the launch keeps the session alarm.                           *)
LEMMA CancelLaunch ==
  ASSUME NEW q \in AlarmSeqs
  PROVE  LET p == CancelAlarms(q, "launch") IN
         /\ p \in AlarmSeqs /\ p \notin Launching
         /\ p # <<"session", "launch">> /\ (p \in Timed <=> q \in Timed)
<1>1. "launch" \in Alarms /\ "session" \in Alarms
  BY DEF Alarms
<1>2. (\E i \in 1..Len(q) : q[i] = "session") <=> q \in Timed
  <2>1. CASE q = << >> \/ q = <<"launch">>
    BY <2>1 DEF Timed
  <2>2. CASE q = <<"session">> \/ q = <<"session", "launch">>
    <3>1. Len(q) \in {1, 2} /\ q[1] = "session" /\ q # << >> /\ q # <<"launch">>
      BY <2>2
    <3> QED BY <3>1 DEF Timed
  <2>3. CASE q = <<"launch", "session">>
    <3>1. Len(q) = 2 /\ q[2] = "session" /\ q # << >> /\ q # <<"launch">>
      BY <2>3
    <3> QED BY <3>1 DEF Timed
  <2> QED BY <2>1, <2>2, <2>3 DEF AlarmSeqs
<1>3. \/ q \in Timed /\ CancelAlarms(q, "launch") = <<"session">>
      \/ q \notin Timed /\ CancelAlarms(q, "launch") = << >>
  BY <1>1, <1>2, CancelLeaves
<1>4. <<"session">> # <<"session", "launch">> /\ << >> # <<"session", "launch">>
  OBVIOUS
<1>5. /\ <<"session">> \in AlarmSeqs /\ << >> \in AlarmSeqs /\ << >> \notin Timed
      /\ <<"session">> \notin Launching /\ << >> \notin Launching /\ <<"session">> \in Timed
  BY DEF AlarmSeqs, Launching, Timed
<1> QED BY <1>3, <1>4, <1>5

(* Canceling the session alarm keeps the launch.                           *)
LEMMA CancelSession ==
  ASSUME NEW q \in AlarmSeqs
  PROVE  LET p == CancelAlarms(q, "session") IN
         /\ p \in AlarmSeqs /\ p \notin Timed
         /\ p # <<"session", "launch">> /\ (p \in Launching <=> q \in Launching)
<1>1. "launch" \in Alarms /\ "session" \in Alarms
  BY DEF Alarms
<1>2. (\E i \in 1..Len(q) : q[i] = "launch") <=> q \in Launching
  BY LaunchingIsPending DEF Contains
<1>3. \/ q \in Launching /\ CancelAlarms(q, "session") = <<"launch">>
      \/ q \notin Launching /\ CancelAlarms(q, "session") = << >>
  BY <1>1, <1>2, CancelLeaves
<1>4. <<"launch">> # <<"session", "launch">> /\ << >> # <<"session", "launch">>
  OBVIOUS
<1>5. /\ <<"launch">> \in AlarmSeqs /\ << >> \in AlarmSeqs /\ << >> \notin Timed
      /\ <<"launch">> \notin Timed /\ << >> \notin Launching /\ <<"launch">> \in Launching
  BY DEF AlarmSeqs, Launching, Timed
<1> QED BY <1>3, <1>4, <1>5

(* No alarm is pending.                                                    *)
LEMMA NoAlarms == << >> \in AlarmSeqs /\ << >> \notin Timed /\ << >> \notin Launching
  BY DEF AlarmSeqs, Launching, Timed

(* Neither alarm is there: none is.                                        *)
LEMMA NeitherIsNone ==
  ASSUME NEW q \in AlarmSeqs, q \notin Timed, q \notin Launching
  PROVE  q = << >>
  BY DEF AlarmSeqs, Launching, Timed

(* Without a session alarm none is due before a launch.                    *)
LEMMA SessionFirstIsTimed ==
  ASSUME NEW q \in AlarmSeqs, q \notin Timed
  PROVE  q # <<"session", "launch">>
<1>1. <<"session", "launch">> # << >> /\ <<"session", "launch">> # <<"launch">>
  OBVIOUS
<1> QED BY <1>1 DEF AlarmSeqs, Timed

-----------------------------------------------------------------------------
(* Handlers.  InOrder says of a robot in the middle of a handler what IInv *)
(* says between events.                                                    *)
InOrder(r, d, e) == r \in RobotRecs /\ Counts(r, d, e) /\ Fits(r)

(* The fields no handler of a running robot touches, and those that stay   *)
(* when a robot becomes idle.                                              *)
SameSetup(r, s) ==
  s.kind = r.kind /\ s.session = r.session /\ s.faults = r.faults /\ s.failure = r.failure

SameLoad(r, s) == s.lvl = r.lvl /\ s.asked = r.asked /\ s.used = r.used

(* A constant-rate robot loses its launch alarm, and nothing else.         *)
LEMMA UnscheduledLeaves ==
  ASSUME NEW r \in RobotRecs
  PROVE  LET q == Unscheduled(r).alarms IN
         /\ Unscheduled(r) = [r EXCEPT !.alarms = q]
         /\ q \in AlarmSeqs /\ (q \in Timed <=> r.alarms \in Timed)
         /\ r.kind = "sync" => q = r.alarms
         /\ r.kind # "sync" => q \notin Launching
<1>1. r.alarms \in AlarmSeqs
  BY DEF RobotRecs
<1>2. CASE r.kind = "sync"
  BY <1>1, <1>2 DEF Unscheduled, RobotRecs
<1>3. CASE r.kind # "sync"
  <2> DEFINE p == CancelAlarms(r.alarms, "launch")
  <2>1. p \in AlarmSeqs /\ p \notin Launching /\ (p \in Timed <=> r.alarms \in Timed)
    BY <1>1, CancelLaunch
  <2>2. Unscheduled(r) = [r EXCEPT !.alarms = p]
    BY <1>3 DEF Unscheduled
  <2> HIDE DEF p
  <2>3. Unscheduled(r).alarms = p
    BY <2>2 DEF RobotRecs
  <2> QED BY <1>3, <2>1, <2>2, <2>3
<1> QED BY <1>2, <1>3

(* Client::becomeIdle keeps what runs and ends what waits.                 *)
LEMMA BecomeIdleLeaves ==
  ASSUME NEW r \in RobotRecs, NEW d \in Int, NEW e \in Int, Counts(r, d, e),
         NEW s \in BecomeIdle(r)
  PROVE  /\ s \in RobotRecs /\ Counts(s, d, 0) /\ SameSetup(r, s) /\ SameLoad(r, s)
         /\ s.state = r.state /\ s.sessIdle = r.sessIdle /\ s.xactCnt = r.xactCnt
         /\ s.isIdle /\ s.debts = 0 /\ s.extra = 0
         /\ s.alarms \in Timed <=> r.alarms \in Timed
         /\ r.kind = "sync" => s.alarms = r.alarms
         /\ r.kind # "sync" => s.alarms \notin Launching
<1> DEFINE q == Unscheduled(r).alarms
<1>1. /\ Unscheduled(r) = [r EXCEPT !.alarms = q]
      /\ q \in AlarmSeqs /\ (q \in Timed <=> r.alarms \in Timed)
      /\ r.kind = "sync" => q = r.alarms
      /\ r.kind # "sync" => q \notin Launching
  BY UnscheduledLeaves
<1> HIDE DEF q
<1>2. PICK slow \in (IF "slow" \in r.faults THEN 0..r.kept ELSE {0}) :
        s = [[r EXCEPT !.alarms = q] EXCEPT !.isIdle = TRUE, !.debts = 0, !.extra = 0,
                                            !.kept = 0, !.closing = @ + slow]
  BY <1>1 DEF BecomeIdle
<1>3. slow \in Nat /\ r.closing \in Nat /\ r.lvl \in Nat /\ r.used \in Nat /\ r.kept \in Nat
      /\ r.asked \in Nat
  BY <1>2 DEF RobotRecs
<1>4. /\ s.kind = r.kind /\ s.state = r.state /\ s.session = r.session
      /\ s.faults = r.faults /\ s.isIdle = TRUE /\ s.sessIdle = r.sessIdle
      /\ s.xactCnt = r.xactCnt /\ s.lvl = r.lvl /\ s.debts = 0 /\ s.asked = r.asked
      /\ s.extra = 0 /\ s.used = r.used /\ s.kept = 0 /\ s.closing = r.closing + slow
      /\ s.alarms = q /\ s.failure = r.failure
  BY <1>2 DEF RobotRecs
<1>5. s \in RobotRecs
  <2> DEFINE t == [r EXCEPT !.alarms = q]
  <2>1. t \in RobotRecs /\ t.closing = r.closing
    BY <1>1 DEF RobotRecs
  <2>2. 0 \in 0..MaxExtra /\ t.closing + slow \in Nat
    BY <1>3, <2>1, LimitsAssumption
  <2> HIDE DEF t
  <2>3. s = [t EXCEPT !.isIdle = TRUE, !.debts = 0, !.extra = 0, !.kept = 0,
                      !.closing = @ + slow]
    BY <1>2 DEF t
  <2> QED BY <2>1, <2>2, <2>3 DEF RobotRecs
<1>6. Counts(s, d, 0)
  BY <1>2, <1>3, <1>4, LimitsAssumption DEF Counts
<1> QED BY <1>1, <1>4, <1>5, <1>6 DEF SameSetup, SameLoad

(* Client::stop leaves an idle robot whose session has ended.              *)
LEMMA StoppedLeaves ==
  ASSUME NEW r \in RobotRecs, NEW d \in Int, NEW e \in Int, Counts(r, d, e),
         Excused(r), r.session = "none" => r.alarms \notin Timed,
         r.isIdle /\ r.kind = "async" => r.alarms \notin Launching,
         NEW s \in Stopped(r)
  PROVE  /\ InOrder(s, d, 0) /\ SameSetup(r, s) /\ SameLoad(r, s)
         /\ s.state = r.state /\ s.isIdle /\ s.debts = 0 /\ s.debts <= r.debts
         /\ s.alarms \notin Timed /\ s.extra <= r.extra
<1>0. r.debts \in Nat /\ r.extra \in Nat /\ r.isIdle \in BOOLEAN /\ r.alarms \in AlarmSeqs
  BY LimitsAssumption DEF RobotRecs
<1>1. CASE r.session # "none"
  <2>1. PICK b \in BecomeIdle(r) :
          s = [b EXCEPT !.sessIdle = TRUE, !.alarms = CancelAlarms(@, "session")]
    BY <1>1 DEF Stopped
  <2>2. /\ b \in RobotRecs /\ Counts(b, d, 0) /\ SameSetup(r, b) /\ SameLoad(r, b)
        /\ b.state = r.state /\ b.isIdle /\ b.debts = 0 /\ b.extra = 0
        /\ r.kind # "sync" => b.alarms \notin Launching
    BY BecomeIdleLeaves
  <2> DEFINE p == CancelAlarms(b.alarms, "session")
  <2>3. b.alarms \in AlarmSeqs
    BY <2>2 DEF RobotRecs
  <2>4. /\ p \in AlarmSeqs /\ p \notin Timed /\ p # <<"session", "launch">>
        /\ p \in Launching <=> b.alarms \in Launching
    BY <2>3, CancelSession
  <2> HIDE DEF p
  <2>5. s = [b EXCEPT !.sessIdle = TRUE, !.alarms = p]
    BY <2>1 DEF p
  <2>6. s \in RobotRecs
    BY <2>2, <2>4, <2>5 DEF RobotRecs
  <2>7. /\ s.kind = b.kind /\ s.state = b.state /\ s.session = b.session
        /\ s.faults = b.faults /\ s.isIdle = b.isIdle /\ s.sessIdle = TRUE
        /\ s.xactCnt = b.xactCnt /\ s.lvl = b.lvl /\ s.debts = b.debts /\ s.asked = b.asked
        /\ s.extra = b.extra /\ s.used = b.used /\ s.kept = b.kept /\ s.closing = b.closing
        /\ s.alarms = p /\ s.failure = b.failure
    BY <2>2, <2>5 DEF RobotRecs
  <2>8. Counts(s, d, 0)
    BY <2>2, <2>7 DEF Counts
  <2>9. AlarmsFit(s)
    BY <2>2, <2>4, <2>7 DEF AlarmsFit, SameSetup
  <2>10. SessionFits(s)
    BY <2>2, <2>7 DEF SessionFits
  <2> QED BY <1>0, <2>2, <2>4, <2>6, <2>7, <2>8, <2>9, <2>10
          DEF InOrder, Fits, Excused, SameSetup, SameLoad
<1>2. CASE r.session = "none" /\ r.isIdle
  <2>1. s = r
    BY <1>2 DEF Stopped
  <2>2. r.debts = 0 /\ Counts(r, d, 0)
    BY <1>2 DEF Counts
  <2>3. AlarmsFit(r) /\ SessionFits(r)
    BY <1>0, <1>2, SessionFirstIsTimed DEF AlarmsFit, SessionFits
  <2> QED BY <1>0, <1>2, <2>1, <2>2, <2>3 DEF InOrder, Fits, SameSetup, SameLoad
<1>3. CASE r.session = "none" /\ ~r.isIdle
  <2>1. s \in BecomeIdle(r)
    BY <1>3 DEF Stopped
  <2>2. /\ s \in RobotRecs /\ Counts(s, d, 0) /\ SameSetup(r, s) /\ SameLoad(r, s)
        /\ s.state = r.state /\ s.isIdle /\ s.debts = 0 /\ s.extra = 0
        /\ s.alarms \in Timed <=> r.alarms \in Timed
        /\ r.kind # "sync" => s.alarms \notin Launching
    BY <2>1, BecomeIdleLeaves
  <2>3. s.alarms \in AlarmSeqs
    BY <2>2 DEF RobotRecs
  <2>4. AlarmsFit(s) /\ SessionFits(s)
    BY <1>3, <2>2, <2>3, SessionFirstIsTimed DEF AlarmsFit, SessionFits, SameSetup
  <2> QED BY <1>0, <1>3, <2>2, <2>4 DEF InOrder, Fits, Excused, SameSetup
<1> QED BY <1>0, <1>1, <1>2, <1>3

(* The last phase may end anywhere in a handler.                           *)
LEMMA MayEndLeaves ==
  ASSUME NEW r, NEW d \in Int, NEW e \in Nat, InOrder(r, d, e), NEW s \in MayEnd(r)
  PROVE  /\ InOrder(s, d, e) /\ Goes(r, s) /\ SameSetup(r, s) /\ SameLoad(r, s)
         /\ s.debts <= r.debts
<1>0. /\ r \in RobotRecs /\ r.debts \in Nat /\ r.lvl \in Nat /\ r.asked \in Nat
      /\ r.extra \in Nat /\ r.isIdle \in BOOLEAN /\ r.used \in Nat
  BY LimitsAssumption DEF InOrder, RobotRecs
<1>1. CASE s = r
  BY <1>0, <1>1 DEF Goes, SameSetup, SameLoad, Xacts
<1>2. CASE r.state = "on" /\ s \in Stopped([r EXCEPT !.state = "over"])
  <2> DEFINE t == [r EXCEPT !.state = "over"]
  <2>1. t \in RobotRecs
    BY <1>0 DEF RobotRecs
  <2>2. /\ t.kind = r.kind /\ t.state = "over" /\ t.session = r.session
        /\ t.faults = r.faults /\ t.isIdle = r.isIdle
        /\ t.lvl = r.lvl /\ t.debts = r.debts /\ t.asked = r.asked
        /\ t.extra = r.extra /\ t.used = r.used /\ t.kept = r.kept /\ t.closing = r.closing
        /\ t.alarms = r.alarms /\ t.failure = r.failure
    BY <1>0 DEF RobotRecs
  <2>3. s \in Stopped(t)
    BY <1>2
  <2> HIDE DEF t
  <2>4. Counts(t, d, e)
    BY <2>2 DEF Counts, InOrder
  <2>5. /\ Excused(t) /\ (t.session = "none" => t.alarms \notin Timed)
        /\ t.isIdle /\ t.kind = "async" => t.alarms \notin Launching
    BY <2>2 DEF InOrder, Fits, Excused, AlarmsFit
  <2>6. /\ InOrder(s, d, 0) /\ SameSetup(t, s) /\ SameLoad(t, s)
        /\ s.state = t.state /\ s.isIdle /\ s.debts = 0 /\ s.debts <= t.debts
        /\ s.alarms \notin Timed /\ s.extra <= t.extra
    BY <2>1, <2>3, <2>4, <2>5, StoppedLeaves
  <2>7. InOrder(s, d, e)
    BY <2>6 DEF InOrder, Counts
  <2>8. Xacts(s) <= Xacts(r)
    BY <1>0, <2>2, <2>6 DEF SameLoad, Xacts
  <2>9. Goes(r, s)
    BY <1>0, <1>2, <2>2, <2>6, <2>8 DEF Goes, SameSetup, SameLoad
  <2> QED BY <2>2, <2>6, <2>7, <2>9 DEF SameSetup, SameLoad
<1> QED BY <1>1, <1>2 DEF MayEnd

(* A handler may leave the robot alone.                                    *)
LEMMA GoesNowhere ==
  ASSUME NEW r \in RobotRecs
  PROVE  Goes(r, r)
<1>1. r.debts \in Nat /\ r.lvl \in Nat /\ r.asked \in Nat /\ r.extra \in Nat
  BY LimitsAssumption DEF RobotRecs
<1> QED BY <1>1 DEF Goes, Xacts

(* Handlers follow one another.                                            *)
LEMMA GoesOn ==
  ASSUME NEW r \in RobotRecs, NEW s \in RobotRecs, NEW t \in RobotRecs,
         Goes(r, s), Goes(s, t)
  PROVE  Goes(r, t)
<1>1. /\ r.lvl \in Nat /\ s.lvl \in Nat /\ t.lvl \in Nat
      /\ r.extra \in Nat /\ s.extra \in Nat /\ t.extra \in Nat
      /\ Xacts(r) \in Nat /\ Xacts(s) \in Nat /\ Xacts(t) \in Nat
  BY LimitsAssumption DEF RobotRecs, Xacts
<1> QED BY <1>1 DEF Goes

(* A busy robot without one gets a launch alarm.                           *)
LEMMA SetLaunchAlarmLeaves ==
  ASSUME NEW r, NEW d \in Int, NEW e \in Int, InOrder(r, d, e),
         r.alarms \notin Launching, ~r.isIdle,
         NEW s \in SetLaunchAlarm(r)
  PROVE  /\ InOrder(s, d, e) /\ Goes(r, s) /\ SameSetup(r, s) /\ SameLoad(r, s)
         /\ s.debts = r.debts /\ s.closing = r.closing /\ ~s.isIdle
<1>0. r \in RobotRecs /\ r.alarms \in AlarmSeqs
  BY DEF InOrder, RobotRecs
<1>1. PICK i \in 1..(Len(r.alarms) + 1) : s = [r EXCEPT !.alarms = InsertAt(@, i, "launch")]
  BY DEF SetLaunchAlarm
<1> DEFINE p == InsertAt(r.alarms, i, "launch")
<1>2. p \in Launching /\ (p \in Timed <=> r.alarms \in Timed)
  BY <1>0, InsertLaunch
<1>3. p \in AlarmSeqs
  BY <1>2 DEF Launching
<1>4. s = [r EXCEPT !.alarms = p]
  BY <1>1
<1> HIDE DEF p
<1>5. s \in RobotRecs
  BY <1>0, <1>3, <1>4 DEF RobotRecs
<1>6. /\ s.kind = r.kind /\ s.state = r.state /\ s.session = r.session
      /\ s.faults = r.faults /\ s.isIdle = r.isIdle /\ s.sessIdle = r.sessIdle
      /\ s.xactCnt = r.xactCnt /\ s.lvl = r.lvl /\ s.debts = r.debts /\ s.asked = r.asked
      /\ s.extra = r.extra /\ s.used = r.used /\ s.kept = r.kept /\ s.closing = r.closing
      /\ s.alarms = p /\ s.failure = r.failure
  BY <1>0, <1>4 DEF RobotRecs
<1>7. Counts(s, d, e)
  BY <1>6 DEF Counts, InOrder
<1>8. AlarmsFit(s) /\ SessionFits(s)
  BY <1>2, <1>6 DEF InOrder, Fits, AlarmsFit, SessionFits
<1>9. Goes(r, s)
  <2>1. r.extra \in Nat /\ r.lvl \in Nat
    BY <1>0, LimitsAssumption DEF RobotRecs
  <2> QED BY <1>2, <1>6, <2>1 DEF Goes
<1> QED BY <1>5, <1>6, <1>7, <1>8, <1>9 DEF InOrder, Fits, Excused, SameSetup, SameLoad

(* A canceled launch changes no counter.                                   *)
LEMMA LaunchCanceledLeaves ==
  ASSUME NEW r, NEW d \in Int, NEW e \in Int, InOrder(r, d, e), NEW s \in LaunchCanceled(r)
  PROVE  /\ InOrder(s, d, e) /\ Goes(r, s) /\ SameSetup(r, s) /\ SameLoad(r, s)
         /\ s.debts = r.debts /\ s.closing = r.closing /\ s.isIdle = r.isIdle
<1>0. r \in RobotRecs /\ r.alarms \in AlarmSeqs /\ r.isIdle \in BOOLEAN
  BY DEF InOrder, RobotRecs
<1>1. CASE s = r
  BY <1>0, <1>1, GoesNowhere DEF SameSetup, SameLoad
<1>2. CASE s \in SetLaunchAlarm(r) /\ ~r.isIdle /\ ~LaunchPending(r)
  <2>1. r.alarms \notin Launching
    BY <1>0, <1>2, LaunchingIsPending DEF LaunchPending
  <2>2. ~s.isIdle /\ s \in RobotRecs
    BY <1>2, <2>1, SetLaunchAlarmLeaves DEF InOrder
  <2>3. s.isIdle = r.isIdle
    BY <1>0, <1>2, <2>2 DEF RobotRecs
  <2> QED BY <1>2, <2>1, <2>3, SetLaunchAlarmLeaves
<1> QED BY <1>1, <1>2 DEF LaunchCanceled

(* Below the limit a connection can be had: it is one too many for now.    *)
LEMMA GetLeaves ==
  ASSUME NEW r, NEW e \in {0, 1}, InOrder(r, 0, e), ~r.isIdle, ~AtHardConnLimit(r),
         NEW g \in Get(r)
  PROVE  InOrder(g, 1, 0) /\ Goes(r, g) /\ SameSetup(r, g) /\ ~g.isIdle
<1>0. /\ r \in RobotRecs /\ r.used \in Nat /\ r.kept \in Nat /\ r.closing \in Nat
      /\ r.lvl \in Nat /\ r.asked \in Nat /\ r.debts \in Nat /\ r.extra \in Nat /\ Limit \in Int
  BY LimitsAssumption DEF InOrder, RobotRecs
<1>1. PICK k :
        /\ g = [r EXCEPT !.used = @ + 1, !.kept = k]
        /\ \/ k = r.kept - 1 /\ r.kept > 0
           \/ k = r.kept - 1 /\ Limit >= 0 /\ r.used + r.kept + r.closing >= Limit
           \/ k = r.kept /\ ~(Limit >= 0 /\ r.used + r.kept + r.closing >= Limit)
  <2>1. CASE r.kept > 0 /\ g = [r EXCEPT !.kept = @ - 1, !.used = @ + 1]
    <3>1. g = [r EXCEPT !.used = @ + 1, !.kept = r.kept - 1]
      BY <1>0, <2>1 DEF RobotRecs
    <3> QED BY <2>1, <3>1
  <2>2. CASE g = [r EXCEPT !.used = @ + 1,
                  !.kept = IF Limit >= 0 /\ r.used + @ + r.closing >= Limit
                           THEN @ - 1 ELSE @]
    <3> DEFINE k == IF Limit >= 0 /\ r.used + r.kept + r.closing >= Limit
                    THEN r.kept - 1 ELSE r.kept
    <3>1. g = [r EXCEPT !.used = @ + 1, !.kept = k]
      BY <1>0, <2>2 DEF RobotRecs
    <3> QED BY <3>1
  <2> QED BY <2>1, <2>2 DEF Get
<1>2. Limit >= 0 => r.used + r.closing < Limit
  BY <1>0 DEF AtHardConnLimit
<1>3. k \in Nat /\ (Limit >= 0 => r.used + 1 + k <= Limit)
  BY <1>0, <1>1, <1>2 DEF InOrder, Counts
<1>4. g \in RobotRecs
  <2> DEFINE u == r.used + 1
  <2>1. u \in Nat /\ g = [r EXCEPT !.used = u, !.kept = k]
    BY <1>0, <1>1
  <2> HIDE DEF u
  <2> QED BY <1>0, <1>3, <2>1 DEF RobotRecs
<1>5. /\ g.kind = r.kind /\ g.state = r.state /\ g.session = r.session
      /\ g.faults = r.faults /\ g.isIdle = r.isIdle /\ g.sessIdle = r.sessIdle
      /\ g.xactCnt = r.xactCnt /\ g.lvl = r.lvl /\ g.debts = r.debts /\ g.asked = r.asked
      /\ g.extra = r.extra /\ g.used = r.used + 1 /\ g.kept = k /\ g.closing = r.closing
      /\ g.alarms = r.alarms /\ g.failure = r.failure
  BY <1>0, <1>1 DEF RobotRecs
<1>6. Counts(g, 1, 0)
  BY <1>0, <1>3, <1>5 DEF InOrder, Counts
<1>7. AlarmsFit(g) /\ SessionFits(g)
  BY <1>5 DEF InOrder, Fits, AlarmsFit, SessionFits
<1>8. Goes(r, g)
  BY <1>0, <1>5 DEF Goes
<1> QED BY <1>4, <1>5, <1>6, <1>7, <1>8 DEF InOrder, Fits, Excused, SameSetup

(* A robot that differs in its numbers only.                               *)
SameShape(r, s) ==
  /\ s.kind = r.kind /\ s.state = r.state /\ s.session = r.session /\ s.faults = r.faults
  /\ s.isIdle = r.isIdle /\ s.sessIdle = r.sessIdle /\ s.xactCnt = r.xactCnt
  /\ s.used = r.used /\ s.kept = r.kept /\ s.closing = r.closing
  /\ s.alarms = r.alarms /\ s.failure = r.failure

(* Alarms and session do not depend on the counters.                       *)
LEMMA SameShapeFits ==
  ASSUME NEW r, NEW s, SameShape(r, s), Fits(r)
  PROVE  Fits(s) /\ SameSetup(r, s)
<1>1. AlarmsFit(s)
  BY DEF Fits, AlarmsFit, SameShape
<1>2. SessionFits(s)
  BY DEF Fits, SessionFits, SameShape
<1> QED BY <1>1, <1>2 DEF Fits, Excused, SameShape, SameSetup

(* Another level.                                                          *)
LEMMA NewLvl ==
  ASSUME NEW r \in RobotRecs, NEW n \in Nat
  PROVE  LET s == [r EXCEPT !.lvl = n] IN
         /\ s \in RobotRecs /\ SameShape(r, s)
         /\ s.lvl = n /\ s.debts = r.debts /\ s.asked = r.asked /\ s.extra = r.extra
  BY DEF RobotRecs, SameShape

(* Another number of waiting transactions.                                 *)
LEMMA NewDebts ==
  ASSUME NEW r \in RobotRecs, NEW n \in Nat
  PROVE  LET s == [r EXCEPT !.debts = n] IN
         /\ s \in RobotRecs /\ SameShape(r, s)
         /\ s.lvl = r.lvl /\ s.debts = n /\ s.asked = r.asked /\ s.extra = r.extra
  BY DEF RobotRecs, SameShape

(* Another number of unanswered questions.                                 *)
LEMMA NewAsked ==
  ASSUME NEW r \in RobotRecs, NEW n \in Nat
  PROVE  LET s == [r EXCEPT !.asked = n] IN
         /\ s \in RobotRecs /\ SameShape(r, s)
         /\ s.lvl = r.lvl /\ s.debts = r.debts /\ s.asked = n /\ s.extra = r.extra
  BY DEF RobotRecs, SameShape

(* Another number of extra launches.                                       *)
LEMMA NewExtra ==
  ASSUME NEW r \in RobotRecs, NEW n \in 0..MaxExtra
  PROVE  LET s == [r EXCEPT !.extra = n] IN
         /\ s \in RobotRecs /\ SameShape(r, s)
         /\ s.lvl = r.lvl /\ s.debts = r.debts /\ s.asked = r.asked /\ s.extra = n
  BY DEF RobotRecs, SameShape

(* The types of what the arguments below count with.                       *)
LEMMA Numbers ==
  ASSUME NEW r \in RobotRecs
  PROVE  /\ r.used \in Nat /\ r.kept \in Nat /\ r.closing \in Nat
         /\ r.lvl \in Nat /\ r.asked \in Nat /\ r.debts \in Nat
         /\ r.extra \in 0..MaxExtra /\ r.extra \in Nat
         /\ Limit \in Int /\ r.isIdle \in BOOLEAN /\ r.alarms \in AlarmSeqs
  BY LimitsAssumption DEF RobotRecs

(* Client::launch: the transaction runs on the connection.                 *)
LEMMA LaunchedLeaves ==
  ASSUME NEW r, NEW e \in {0, 1}, InOrder(r, 0, e), ~r.isIdle, ~AtHardConnLimit(r),
         NEW s \in Launched(r)
  PROVE  InOrder(s, 0, 0) /\ Goes(r, s)
<1>0. PICK g \in Get(r) : \E m \in MayEnd(g) : s = [m EXCEPT !.lvl = @ + 1]
  BY DEF Launched
<1>1. PICK m \in MayEnd(g) : s = [m EXCEPT !.lvl = m.lvl + 1]
  BY <1>0
<1>2. InOrder(g, 1, 0) /\ Goes(r, g) /\ SameSetup(r, g) /\ ~g.isIdle
  BY GetLeaves
<1>3. InOrder(m, 1, 0) /\ Goes(g, m)
  BY <1>2, MayEndLeaves
<1>4. r \in RobotRecs /\ g \in RobotRecs /\ m \in RobotRecs
  BY <1>2, <1>3 DEF InOrder
<1>5. Goes(r, m)
  BY <1>2, <1>3, <1>4, GoesOn
<1>6. m.lvl \in Nat /\ m.lvl + 1 \in Nat
  BY <1>4, Numbers
<1>7. /\ s \in RobotRecs /\ SameShape(m, s)
      /\ s.lvl = m.lvl + 1 /\ s.debts = m.debts /\ s.asked = m.asked /\ s.extra = m.extra
  BY <1>1, <1>4, <1>6, NewLvl
<1>8. Counts(s, 0, 0)
  BY <1>3, <1>6, <1>7 DEF InOrder, Counts, SameShape
<1>9. Fits(s)
  BY <1>3, <1>7, SameShapeFits DEF InOrder
<1>10. Goes(r, s)
  BY <1>5, <1>7 DEF Goes, SameShape
<1> QED BY <1>7, <1>8, <1>9, <1>10 DEF InOrder

(* A transaction that asks first will need a slot, too.                    *)
LEMMA AskLeaves ==
  ASSUME NEW r, NEW e \in {0, 1}, InOrder(r, 0, e), ~r.isIdle, NEW s \in Ask(r)
  PROVE  InOrder(s, 0, 0) /\ Goes(r, s)
<1>1. r \in RobotRecs
  BY DEF InOrder
<1>2. s = [r EXCEPT !.asked = r.asked + 1] /\ r.asked + 1 \in Nat
  BY <1>1, Numbers DEF Ask
<1>3. /\ s \in RobotRecs /\ SameShape(r, s)
      /\ s.lvl = r.lvl /\ s.debts = r.debts /\ s.asked = r.asked + 1 /\ s.extra = r.extra
  BY <1>1, <1>2, NewAsked
<1>4. Counts(s, 0, 0)
  BY <1>1, <1>3, Numbers DEF InOrder, Counts, SameShape
<1>5. Fits(s)
  BY <1>3, SameShapeFits DEF InOrder
<1>6. Goes(r, s)
  BY <1>1, <1>3, Numbers DEF Goes, SameShape
<1> QED BY <1>3, <1>4, <1>5, <1>6 DEF InOrder

(* Client::authAndLaunch, where it succeeds.                               *)
LEMMA AuthAndLaunchLeaves ==
  ASSUME NEW r, NEW e \in {0, 1}, InOrder(r, 0, e), ~r.isIdle, ~AtHardConnLimit(r),
         NEW s \in AuthAndLaunch(r)
  PROVE  InOrder(s, 0, 0) /\ Goes(r, s)
  BY LaunchedLeaves, AskLeaves DEF AuthAndLaunch

(* A robot that may fail to connect owes nothing to those that wait.       *)
LEMMA AuthOrLaunchFailsLeaves ==
  ASSUME NEW r, NEW e \in {0, 1}, InOrder(r, 0, e), NEW s \in AuthOrLaunchFails(r)
  PROVE  InOrder(s, 0, 0) /\ Goes(r, s)
<1>1. "connect" \in r.faults /\ s \in LaunchCanceled(r)
  BY DEF AuthOrLaunchFails
<1>2. InOrder(s, 0, e) /\ Goes(r, s)
  BY <1>1, LaunchCanceledLeaves
<1>3. "connect" \in s.faults
  BY <1>1, <1>2 DEF Goes
<1>4. Counts(s, 0, 0)
  BY <1>2, <1>3 DEF InOrder, Counts, Favourable
<1> QED BY <1>2, <1>4 DEF InOrder

(* At the limit nobody waits in vain: all slots are taken.                 *)
LEMMA FullMeansNoDebt ==
  ASSUME NEW r, NEW e \in {0, 1}, InOrder(r, 0, e), AtHardConnLimit(r)
  PROVE  InOrder(r, 0, 0)
         /\ (r.faults \subseteq Favourable => r.used + r.asked >= Limit)
<1>1. r \in RobotRecs
  BY DEF InOrder
<1>2. r.used + r.closing >= Limit
  BY DEF AtHardConnLimit
<1>3. r.faults \subseteq Favourable => r.used + r.asked >= Limit
  BY <1>1, <1>2, Numbers DEF InOrder, Counts, Favourable
<1>4. Counts(r, 0, 0)
  BY <1>1, <1>3, Numbers DEF InOrder, Counts
<1> QED BY <1>3, <1>4 DEF InOrder

(* Client::tryLaunch with a known address, where it succeeds.              *)
LEMMA AdmittedLeaves ==
  ASSUME NEW r, NEW e \in {0, 1}, InOrder(r, 0, e), ~r.isIdle, NEW s \in Admitted(r)
  PROVE  InOrder(s, 0, 0) /\ Goes(r, s)
<1>1. CASE ~AtHardConnLimit(r)
  BY <1>1, AuthAndLaunchLeaves DEF Admitted
<1>2. CASE AtHardConnLimit(r)
  <2>1. r \in RobotRecs
    BY DEF InOrder
  <2>2. s = [r EXCEPT !.debts = r.debts + 1] /\ r.debts + 1 \in Nat
    BY <1>2, <2>1, Numbers DEF Admitted
  <2>3. /\ s \in RobotRecs /\ SameShape(r, s)
        /\ s.lvl = r.lvl /\ s.debts = r.debts + 1 /\ s.asked = r.asked /\ s.extra = r.extra
    BY <2>1, <2>2, NewDebts
  <2>4. InOrder(r, 0, 0) /\ (r.faults \subseteq Favourable => r.used + r.asked >= Limit)
    BY <1>2, FullMeansNoDebt
  <2>5. Counts(s, 0, 0)
    BY <2>1, <2>3, <2>4, Numbers DEF InOrder, Counts, SameShape
  <2>6. Fits(s)
    BY <2>3, SameShapeFits DEF InOrder
  <2>7. Goes(r, s)
    BY <2>1, <2>3, Numbers DEF Goes, SameShape
  <2> QED BY <2>3, <2>5, <2>6, <2>7 DEF InOrder
<1> QED BY <1>1, <1>2

(* Client::tryLaunch with a known address, where it fails.                 *)
LEMMA RefusedLeaves ==
  ASSUME NEW r, NEW e \in {0, 1}, InOrder(r, 0, e), NEW s \in Refused(r)
  PROVE  InOrder(s, 0, 0) /\ Goes(r, s)
<1>1. CASE ~AtHardConnLimit(r)
  BY <1>1, AuthOrLaunchFailsLeaves DEF Refused
<1>2. CASE AtHardConnLimit(r)
  <2>1. InOrder(r, 0, 0) /\ s \in LaunchCanceled(r)
    BY <1>2, FullMeansNoDebt DEF Refused
  <2> QED BY <2>1, LaunchCanceledLeaves
<1> QED BY <1>1, <1>2

(* Only a busy robot launches.                                             *)
LEMMA TryLaunchTrueLeaves ==
  ASSUME NEW r, NEW e \in {0, 1}, InOrder(r, 0, e), NEW s \in TryLaunchTrue(r)
  PROVE  InOrder(s, 0, 0) /\ Goes(r, s) /\ ~r.isIdle
<1>1. ~r.isIdle /\ (s \in Ask(r) \/ s \in Admitted(r))
  BY DEF TryLaunchTrue
<1> QED BY <1>1, AskLeaves, AdmittedLeaves

(* A launch that fails changes no counter, so a slot may still be owed.    *)
LEMMA TryLaunchFalseLeaves ==
  ASSUME NEW r, NEW e \in {0, 1}, InOrder(r, 0, e), NEW s \in TryLaunchFalse(r)
  PROVE  InOrder(s, 0, e) /\ Goes(r, s) /\ s.isIdle = r.isIdle
<1>1. CASE s \in LaunchCanceled(r)
  BY <1>1, LaunchCanceledLeaves
<1>2. CASE s = r
  BY <1>2, GoesNowhere DEF InOrder
<1>3. s \in LaunchCanceled(r) \/ s = r
  BY DEF TryLaunchFalse, Refused, AuthOrLaunchFails
<1> QED BY <1>1, <1>2, <1>3

(* Client::tryLaunch(x).                                                   *)
LEMMA TryLaunchXactLeaves ==
  ASSUME NEW r, InOrder(r, 0, 0), NEW s \in TryLaunchXact(r)
  PROVE  InOrder(s, 0, 0) /\ Goes(r, s)
  BY TryLaunchTrueLeaves, TryLaunchFalseLeaves DEF TryLaunchXact

(* Client::tryLaunch().                                                    *)
LEMMA TryLaunchLeaves ==
  ASSUME NEW r, InOrder(r, 0, 0), NEW s \in TryLaunch(r)
  PROVE  InOrder(s, 0, 0) /\ Goes(r, s)
<1>1. CASE s \in TryLaunchXact(r)
  BY <1>1, TryLaunchXactLeaves
<1>2. CASE r.extra > 0 /\ s = [r EXCEPT !.extra = @ - 1]
  <2>1. r \in RobotRecs
    BY DEF InOrder
  <2>2. s = [r EXCEPT !.extra = r.extra - 1] /\ r.extra - 1 \in 0..MaxExtra /\ r.extra \in Nat
    BY <1>2, <2>1, Numbers, LimitsAssumption
  <2>3. /\ s \in RobotRecs /\ SameShape(r, s)
        /\ s.lvl = r.lvl /\ s.debts = r.debts /\ s.asked = r.asked /\ s.extra = r.extra - 1
    BY <2>1, <2>2, NewExtra
  <2>4. Counts(s, 0, 0)
    BY <2>3 DEF InOrder, Counts, SameShape
  <2>5. Fits(s)
    BY <2>3, SameShapeFits DEF InOrder
  <2>6. Goes(r, s)
    BY <2>1, <2>2, <2>3, Numbers DEF Goes, SameShape, Xacts
  <2> QED BY <2>3, <2>4, <2>5, <2>6 DEF InOrder
<1> QED BY <1>1, <1>2 DEF TryLaunch

(* scheduleLaunch() finds a launch pending only after a period of no time. *)
LEMMA ScheduleLaunchLeaves ==
  ASSUME NEW r, InOrder(r, 0, 0), "instant" \notin r.faults => r.alarms \notin Launching,
         NEW s \in ScheduleLaunch(r)
  PROVE  InOrder(s, 0, 0) /\ Goes(r, s)
<1>0. r \in RobotRecs
  BY DEF InOrder
<1>1. LaunchPending(r) <=> r.alarms \in Launching
  BY <1>0, Numbers, LaunchingIsPending DEF LaunchPending
<1>2. CASE s = r
  BY <1>0, <1>2, GoesNowhere
<1>3. CASE s \in TryLaunchXact(r)
  BY <1>3, TryLaunchXactLeaves
<1>4. CASE s \in SetLaunchAlarm(r) /\ ~r.isIdle /\ ~LaunchPending(r)
  BY <1>1, <1>4, SetLaunchAlarmLeaves
<1>5. CASE LaunchPending(r) /\ s = [r EXCEPT !.failure = "pendAlarm"]
  <2>1. "instant" \in r.faults
    BY <1>1, <1>5
  <2>2. s \in RobotRecs
    BY <1>0, <1>5 DEF RobotRecs
  <2>3. /\ s.kind = r.kind /\ s.state = r.state /\ s.session = r.session
        /\ s.faults = r.faults /\ s.isIdle = r.isIdle /\ s.sessIdle = r.sessIdle
        /\ s.xactCnt = r.xactCnt /\ s.lvl = r.lvl /\ s.debts = r.debts /\ s.asked = r.asked
        /\ s.extra = r.extra /\ s.used = r.used /\ s.kept = r.kept /\ s.closing = r.closing
        /\ s.alarms = r.alarms
    BY <1>0, <1>5 DEF RobotRecs
  <2>4. Counts(s, 0, 0)
    BY <2>3 DEF Counts, InOrder
  <2>5. AlarmsFit(s) /\ SessionFits(s) /\ Excused(s)
    BY <2>1, <2>3 DEF InOrder, Fits, Excused, AlarmsFit, SessionFits
  <2>6. Goes(r, s)
    BY <1>0, <2>3, Numbers DEF Goes, Xacts
  <2> QED BY <2>2, <2>4, <2>5, <2>6 DEF InOrder, Fits
<1> QED BY <1>2, <1>3, <1>4, <1>5 DEF ScheduleLaunch

(* A session alarm is set where there is none.                             *)
LEMMA SetSessionAlarmLeaves ==
  ASSUME NEW r, InOrder(r, 0, 0), r.alarms \notin Timed, r.session # "none",
         r.state # "off", r.session = "xacts" => r.isIdle,
         NEW s \in SetSessionAlarm(r)
  PROVE  InOrder(s, 0, 0) /\ SameLoad(r, s) /\ s.debts = r.debts
         /\ s.state = r.state /\ s.isIdle = r.isIdle
<1>0. r \in RobotRecs /\ r.alarms \in AlarmSeqs
  BY DEF InOrder, RobotRecs
<1>1. PICK i \in 1..(Len(r.alarms) + 1) :
        /\ s = [r EXCEPT !.alarms = InsertAt(@, i, "session")]
        /\ r.kind = "sync" /\ "instant" \notin r.faults =>
             \A j \in i..Len(r.alarms) : r.alarms[j] # "launch"
  BY DEF SetSessionAlarm
<1> DEFINE p == InsertAt(r.alarms, i, "session")
<1>2. /\ p \in Timed /\ (p \in Launching <=> r.alarms \in Launching)
      /\ r.kind = "sync" /\ "instant" \notin r.faults => p # <<"session", "launch">>
  BY <1>0, <1>1, InsertSession
<1>3. p \in AlarmSeqs
  BY <1>2 DEF Timed
<1>4. s = [r EXCEPT !.alarms = p]
  BY <1>1
<1> HIDE DEF p
<1>5. s \in RobotRecs
  BY <1>0, <1>3, <1>4 DEF RobotRecs
<1>6. /\ s.kind = r.kind /\ s.state = r.state /\ s.session = r.session
      /\ s.faults = r.faults /\ s.isIdle = r.isIdle /\ s.sessIdle = r.sessIdle
      /\ s.xactCnt = r.xactCnt /\ s.lvl = r.lvl /\ s.debts = r.debts /\ s.asked = r.asked
      /\ s.extra = r.extra /\ s.used = r.used /\ s.kept = r.kept /\ s.closing = r.closing
      /\ s.alarms = p /\ s.failure = r.failure
  BY <1>0, <1>4 DEF RobotRecs
<1>7. Counts(s, 0, 0)
  BY <1>6 DEF Counts, InOrder
<1>8. AlarmsFit(s) /\ SessionFits(s)
  BY <1>2, <1>6 DEF InOrder, Fits, AlarmsFit, SessionFits
<1> QED BY <1>5, <1>6, <1>7, <1>8 DEF InOrder, Fits, Excused, SameLoad

(* A robot that starts a busy period has no alarm, or the last period took *)
(* no time.  It is idle afterwards only if the last phase ended meanwhile. *)
LEMMA BecomeBusyLeaves ==
  ASSUME NEW r \in RobotRecs, Counts(r, 0, 0), r.alarms \notin Timed,
         "instant" \notin r.faults => r.alarms \notin Launching, r.state # "off",
         Excused(r), r.session # "none" => ~r.sessIdle /\ r.xactCnt = 0,
         NEW s \in BecomeBusy(r)
  PROVE  /\ InOrder(s, 0, 0) /\ s.alarms \notin Timed /\ s.session = r.session
         /\ s.state # "off" /\ (s.isIdle => r.state = "on" /\ s.state = "over")
<1> DEFINE t == [r EXCEPT !.isIdle = FALSE]
<1>1. t \in RobotRecs
  BY DEF RobotRecs
<1>2. /\ t.kind = r.kind /\ t.state = r.state /\ t.session = r.session
      /\ t.faults = r.faults /\ t.isIdle = FALSE /\ t.sessIdle = r.sessIdle
      /\ t.xactCnt = r.xactCnt /\ t.lvl = r.lvl /\ t.debts = r.debts /\ t.asked = r.asked
      /\ t.extra = r.extra /\ t.used = r.used /\ t.kept = r.kept /\ t.closing = r.closing
      /\ t.alarms = r.alarms /\ t.failure = r.failure
  BY DEF RobotRecs
<1>3. s \in ScheduleLaunch(t)
  BY DEF BecomeBusy
<1> HIDE DEF t
<1>4. Counts(t, 0, 0)
  BY <1>2 DEF Counts
<1>5. AlarmsFit(t)
  BY <1>2 DEF AlarmsFit
<1>6. SessionFits(t)
  <2>1. r.sessIdle \in BOOLEAN /\ 0 < XactGoal
    BY LimitsAssumption DEF RobotRecs
  <2> QED BY <1>2, <2>1 DEF SessionFits
<1>7. /\ InOrder(t, 0, 0) /\ t.alarms \notin Timed
      /\ "instant" \notin t.faults => t.alarms \notin Launching
  BY <1>1, <1>2, <1>4, <1>5, <1>6 DEF InOrder, Fits, Excused
<1>8. InOrder(s, 0, 0) /\ Goes(t, s)
  BY <1>3, <1>7, ScheduleLaunchLeaves
<1> QED BY <1>2, <1>7, <1>8 DEF Goes

(* SessionMgr::becomeBusy.                                                 *)
LEMMA SessionBusyLeaves ==
  ASSUME NEW r \in RobotRecs, Counts(r, 0, 0), r.alarms \notin Timed,
         "instant" \notin r.faults => r.alarms \notin Launching, r.state # "off",
         Excused(r), r.session # "none",
         NEW s \in SessionBusy(r)
  PROVE  InOrder(s, 0, 0) /\ s.state # "off" /\ (s.isIdle => r.state = "on" /\ s.state = "over")
<1> DEFINE t == [r EXCEPT !.sessIdle = FALSE, !.xactCnt = 0]
<1>1. t \in RobotRecs
  <2>1. 0 \in 0..XactGoal
    BY LimitsAssumption
  <2> QED BY <2>1 DEF RobotRecs
<1>2. /\ t.kind = r.kind /\ t.state = r.state /\ t.session = r.session
      /\ t.faults = r.faults /\ t.isIdle = r.isIdle /\ t.sessIdle = FALSE
      /\ t.xactCnt = 0 /\ t.lvl = r.lvl /\ t.debts = r.debts /\ t.asked = r.asked
      /\ t.extra = r.extra /\ t.used = r.used /\ t.kept = r.kept /\ t.closing = r.closing
      /\ t.alarms = r.alarms /\ t.failure = r.failure
  BY DEF RobotRecs
<1>3. \/ r.session # "duration" /\ s \in BecomeBusy(t)
      \/ r.session = "duration" /\ \E b \in BecomeBusy(t) : s \in SetSessionAlarm(b)
  BY DEF SessionBusy
<1> HIDE DEF t
<1>4. Counts(t, 0, 0)
  BY <1>2 DEF Counts
<1>5. \A b \in BecomeBusy(t) :
        /\ InOrder(b, 0, 0) /\ b.alarms \notin Timed /\ b.session = r.session
        /\ b.state # "off" /\ (b.isIdle => r.state = "on" /\ b.state = "over")
  BY <1>1, <1>2, <1>4, BecomeBusyLeaves DEF Excused
<1>6. CASE r.session # "duration"
  BY <1>3, <1>5, <1>6
<1>7. CASE r.session = "duration"
  <2>1. PICK b \in BecomeBusy(t) : s \in SetSessionAlarm(b)
    BY <1>3, <1>7
  <2>2. /\ InOrder(b, 0, 0) /\ b.alarms \notin Timed /\ b.session = "duration"
        /\ b.state # "off" /\ (b.isIdle => r.state = "on" /\ b.state = "over")
    BY <1>5, <1>7, <2>1
  <2>3. InOrder(s, 0, 0) /\ s.state = b.state /\ s.isIdle = b.isIdle
    BY <2>1, <2>2, SetSessionAlarmLeaves
  <2> QED BY <2>2, <2>3
<1> QED BY <1>6, <1>7

(* SessionMgr::becomeIdle.                                                 *)
LEMMA SessionIdleLeaves ==
  ASSUME NEW r \in RobotRecs, Counts(r, 0, 0), r.alarms \notin Timed, r.state # "off",
         Excused(r), r.session # "none",
         NEW s \in SessionIdle(r)
  PROVE  InOrder(s, 0, 0) /\ SameLoad(r, s) /\ s.isIdle /\ s.state # "off"
<1>0. PICK b \in BecomeIdle(r) : \E m \in MayEnd(b) :
        s \in SetSessionAlarm([m EXCEPT !.sessIdle = TRUE])
  BY DEF SessionIdle
<1>1. PICK m \in MayEnd(b) : s \in SetSessionAlarm([m EXCEPT !.sessIdle = TRUE])
  BY <1>0
<1>2. /\ b \in RobotRecs /\ Counts(b, 0, 0) /\ SameSetup(r, b) /\ SameLoad(r, b)
      /\ b.state = r.state /\ b.isIdle
      /\ b.alarms \notin Timed /\ b.alarms \in AlarmSeqs
      /\ r.kind # "sync" => b.alarms \notin Launching
  BY BecomeIdleLeaves, Numbers
<1>3. /\ m \in RobotRecs /\ Counts(m, 0, 0) /\ SameSetup(r, m) /\ SameLoad(r, m)
      /\ m.state # "off" /\ m.isIdle /\ m.alarms \notin Timed
      /\ r.kind # "sync" => m.alarms \notin Launching
  <2>1. CASE m = b
    BY <1>2, <2>1
  <2>2. CASE b.state = "on" /\ m \in Stopped([b EXCEPT !.state = "over"])
    <3> DEFINE t == [b EXCEPT !.state = "over"]
    <3>1. t \in RobotRecs
      BY <1>2 DEF RobotRecs
    <3>2. /\ t.kind = b.kind /\ t.state = "over" /\ t.session = b.session
          /\ t.faults = b.faults /\ t.isIdle = b.isIdle
          /\ t.lvl = b.lvl /\ t.debts = b.debts /\ t.asked = b.asked
          /\ t.used = b.used /\ t.kept = b.kept /\ t.closing = b.closing
          /\ t.alarms = b.alarms /\ t.failure = b.failure
      BY <1>2 DEF RobotRecs
    <3>3. m \in Stopped(t)
      BY <2>2
    <3> HIDE DEF t
    <3>4. Counts(t, 0, 0)
      BY <1>2, <3>2 DEF Counts
    <3>5. /\ Excused(t) /\ t.alarms \notin Timed
          /\ t.isIdle /\ t.kind = "async" => t.alarms \notin Launching
      BY <1>2, <3>2 DEF SameSetup, Excused
    <3>6. /\ InOrder(m, 0, 0) /\ SameSetup(t, m) /\ SameLoad(t, m)
          /\ m.state = t.state /\ m.isIdle /\ m.alarms \notin Timed
      BY <3>1, <3>3, <3>4, <3>5, StoppedLeaves
    <3>7. m.kind \in {"sync", "async"}
      BY <3>6, SetsAssumption DEF InOrder, RobotRecs
    <3> QED BY <1>2, <3>2, <3>6, <3>7 DEF InOrder, SameSetup, SameLoad, Fits, AlarmsFit
  <2> QED BY <2>1, <2>2 DEF MayEnd
<1> DEFINE t == [m EXCEPT !.sessIdle = TRUE]
<1>4. t \in RobotRecs
  BY <1>3 DEF RobotRecs
<1>5. /\ t.kind = m.kind /\ t.state = m.state /\ t.session = m.session
      /\ t.faults = m.faults /\ t.isIdle = m.isIdle /\ t.sessIdle = TRUE
      /\ t.xactCnt = m.xactCnt /\ t.lvl = m.lvl /\ t.debts = m.debts /\ t.asked = m.asked
      /\ t.extra = m.extra /\ t.used = m.used /\ t.kept = m.kept /\ t.closing = m.closing
      /\ t.alarms = m.alarms /\ t.failure = m.failure
  BY <1>3 DEF RobotRecs
<1>6. s \in SetSessionAlarm(t)
  BY <1>1
<1> HIDE DEF t
<1>7. Counts(t, 0, 0)
  BY <1>3, <1>5 DEF Counts
<1>8. m.alarms \in AlarmSeqs /\ m.isIdle = TRUE
  BY <1>3 DEF RobotRecs
<1>9. AlarmsFit(t) /\ SessionFits(t)
  BY <1>3, <1>5, <1>8, SessionFirstIsTimed DEF AlarmsFit, SessionFits, SameSetup
<1>10. InOrder(t, 0, 0)
  BY <1>3, <1>4, <1>5, <1>7, <1>9 DEF InOrder, Fits, Excused, SameSetup
<1>11. InOrder(s, 0, 0) /\ SameLoad(t, s) /\ s.state = t.state /\ s.isIdle = t.isIdle
  BY <1>3, <1>5, <1>6, <1>10, SetSessionAlarmLeaves DEF SameSetup
<1> QED BY <1>3, <1>5, <1>11 DEF SameLoad

(* SessionMgr::noteXactDone may end the busy period.                       *)
LEMMA SessionNoteXactDoneLeaves ==
  ASSUME NEW r, InOrder(r, 0, 0), NEW s \in SessionNoteXactDone(r)
  PROVE  InOrder(s, 0, 0) /\ SameLoad(r, s) /\ (r.isIdle => s = r)
<1>0. r \in RobotRecs /\ Counts(r, 0, 0) /\ Fits(r)
  BY DEF InOrder
<1>1. CASE s = r
  BY <1>1 DEF SameLoad
<1>2. CASE ~(r.session # "xacts" \/ r.sessIdle)
  <2>1. /\ r.session = "xacts" /\ ~r.isIdle /\ r.state # "off" /\ r.alarms \notin Timed
        /\ r.xactCnt < XactGoal /\ Excused(r)
    BY <1>0, <1>2 DEF Fits, SessionFits
  <2> DEFINE n == r.xactCnt + 1
             t == [r EXCEPT !.xactCnt = n]
  <2>2. n \in 0..XactGoal
    BY <1>0, <2>1, LimitsAssumption DEF RobotRecs
  <2>3. (n < XactGoal /\ s = t) \/ s \in SessionIdle(t)
    BY <1>0, <1>2 DEF SessionNoteXactDone, RobotRecs
  <2> HIDE DEF n
  <2>4. t \in RobotRecs
    BY <1>0, <2>2 DEF RobotRecs
  <2>5. /\ t.kind = r.kind /\ t.state = r.state /\ t.session = r.session
        /\ t.faults = r.faults /\ t.isIdle = r.isIdle /\ t.sessIdle = r.sessIdle
        /\ t.xactCnt = n /\ t.lvl = r.lvl /\ t.debts = r.debts /\ t.asked = r.asked
        /\ t.extra = r.extra /\ t.used = r.used /\ t.kept = r.kept /\ t.closing = r.closing
        /\ t.alarms = r.alarms /\ t.failure = r.failure
    BY <1>0 DEF RobotRecs
  <2> HIDE DEF t
  <2>6. Counts(t, 0, 0)
    BY <1>0, <2>5 DEF Counts
  <2>7. CASE s \in SessionIdle(t)
    <3>1. InOrder(s, 0, 0) /\ SameLoad(t, s)
      BY <2>1, <2>4, <2>5, <2>6, <2>7, SessionIdleLeaves DEF Excused
    <3> QED BY <2>1, <2>5, <3>1 DEF SameLoad
  <2>8. CASE n < XactGoal /\ s = t
    <3>1. AlarmsFit(t) /\ SessionFits(t)
      BY <1>0, <2>5, <2>8 DEF Fits, AlarmsFit, SessionFits
    <3> QED BY <2>1, <2>4, <2>5, <2>6, <2>8, <3>1 DEF InOrder, Fits, Excused, SameLoad
  <2> QED BY <2>3, <2>7, <2>8
<1> QED BY <1>1, <1>2 DEF SessionNoteXactDone

(* The slot that is given back is owed to those that wait.                 *)
LEMMA PutLeaves ==
  ASSUME NEW r, InOrder(r, 0, 0), r.lvl > 0, NEW s \in Put(r)
  PROVE  /\ InOrder(s, -1, 1) /\ s.isIdle = r.isIdle /\ s.state = r.state
         /\ s.lvl = r.lvl /\ s.debts = r.debts /\ s.asked = r.asked
<1>0. /\ r \in RobotRecs /\ Counts(r, 0, 0) /\ Fits(r)
      /\ r.used \in Nat /\ r.kept \in Nat /\ r.closing \in Nat
      /\ r.lvl \in Nat /\ r.asked \in Nat /\ r.debts \in Nat /\ Limit \in Int
  BY Numbers DEF InOrder
<1>1. r.used > 0
  BY <1>0 DEF Counts
<1> DEFINE u == r.used - 1
<1>2. PICK k, c :
        /\ s = [r EXCEPT !.used = u, !.kept = k, !.closing = c]
        /\ \/ k = r.kept /\ c = r.closing
           \/ k = r.kept + 1 /\ c = r.closing /\ ~r.isIdle
           \/ k = r.kept /\ c = r.closing + 1 /\ "slow" \in r.faults
  <2> DEFINE last == [r EXCEPT !.used = u]
  <2>0. /\ s \in {last} \cup (IF r.isIdle THEN {} ELSE {[last EXCEPT !.kept = @ + 1]})
               \cup (IF "slow" \in r.faults THEN {[last EXCEPT !.closing = @ + 1]} ELSE {})
    BY DEF Put
  <2>1. CASE s = last
    <3>1. s = [r EXCEPT !.used = u, !.kept = r.kept, !.closing = r.closing]
      BY <1>0, <2>1 DEF RobotRecs
    <3> QED BY <3>1
  <2>2. CASE ~r.isIdle /\ s = [last EXCEPT !.kept = @ + 1]
    <3>1. s = [r EXCEPT !.used = u, !.kept = r.kept + 1, !.closing = r.closing]
      BY <1>0, <2>2 DEF RobotRecs
    <3> QED BY <2>2, <3>1
  <2>3. CASE "slow" \in r.faults /\ s = [last EXCEPT !.closing = @ + 1]
    <3>1. s = [r EXCEPT !.used = u, !.kept = r.kept, !.closing = r.closing + 1]
      BY <1>0, <2>3 DEF RobotRecs
    <3> QED BY <2>3, <3>1
  <2> HIDE DEF last
  <2> QED BY <2>0, <2>1, <2>2, <2>3
<1>3. u \in Nat /\ k \in Nat /\ c \in Nat /\ u = r.used - 1
  BY <1>0, <1>1, <1>2
<1> HIDE DEF u
<1>4. s \in RobotRecs
  BY <1>0, <1>2, <1>3 DEF RobotRecs
<1>5. /\ s.kind = r.kind /\ s.state = r.state /\ s.session = r.session
      /\ s.faults = r.faults /\ s.isIdle = r.isIdle /\ s.sessIdle = r.sessIdle
      /\ s.xactCnt = r.xactCnt /\ s.lvl = r.lvl /\ s.debts = r.debts /\ s.asked = r.asked
      /\ s.extra = r.extra /\ s.used = u /\ s.kept = k /\ s.closing = c
      /\ s.alarms = r.alarms /\ s.failure = r.failure
  BY <1>0, <1>2 DEF RobotRecs
<1>6. Counts(s, -1, 1)
  BY <1>0, <1>2, <1>3, <1>5 DEF Counts
<1>7. AlarmsFit(s) /\ SessionFits(s)
  BY <1>0, <1>5 DEF Fits, AlarmsFit, SessionFits
<1> QED BY <1>0, <1>4, <1>5, <1>6, <1>7 DEF InOrder, Fits, Excused

(* A transaction that waits gets the slot, or nobody waits.                *)
LEMMA PushForwardLeaves ==
  ASSUME NEW r, InOrder(r, 0, 1), ~r.isIdle, NEW s \in PushForward(r)
  PROVE  InOrder(s, 0, 0)
<1>0. r \in RobotRecs /\ Counts(r, 0, 1) /\ Fits(r) /\ r.debts \in Nat /\ r.extra \in Nat
  BY Numbers DEF InOrder
<1>1. CASE r.debts > 0 /\ ~AtHardConnLimit(r)
  <2> DEFINE first == [r EXCEPT !.debts = r.debts - 1]
  <2>1. r.debts - 1 \in Nat
    BY <1>0, <1>1
  <2>2. /\ first \in RobotRecs /\ SameShape(r, first)
        /\ first.lvl = r.lvl /\ first.debts = r.debts - 1 /\ first.asked = r.asked
    BY <1>0, <2>1, NewDebts
  <2>3. s \in AuthAndLaunch(first) \/ s \in AuthOrLaunchFails(first)
    BY <1>1 DEF PushForward
  <2> HIDE DEF first
  <2>4. Counts(first, 0, 1)
    BY <1>0, <1>1, <2>2 DEF Counts, SameShape
  <2>5. InOrder(first, 0, 1) /\ ~first.isIdle /\ ~AtHardConnLimit(first)
    BY <1>0, <1>1, <2>2, <2>4, SameShapeFits DEF InOrder, SameShape, AtHardConnLimit
  <2> QED BY <2>3, <2>5, AuthAndLaunchLeaves, AuthOrLaunchFailsLeaves
<1>2. CASE ~(r.debts > 0 /\ ~AtHardConnLimit(r))
  <2>1. InOrder(r, 0, 0)
    <3>1. CASE AtHardConnLimit(r)
      BY <3>1, FullMeansNoDebt
    <3>2. CASE ~(r.debts > 0)
      BY <1>0, <3>2 DEF InOrder, Counts
    <3> QED BY <1>2, <3>1, <3>2
  <2>2. CASE s = r
    BY <2>1, <2>2
  <2>3. CASE s \in TryLaunch([r EXCEPT !.extra = 0])
    <3> DEFINE t == [r EXCEPT !.extra = 0]
    <3>1. 0 \in 0..MaxExtra
      BY LimitsAssumption
    <3>2. /\ t \in RobotRecs /\ SameShape(r, t)
          /\ t.lvl = r.lvl /\ t.debts = r.debts /\ t.asked = r.asked
      BY <1>0, <3>1, NewExtra
    <3>3. s \in TryLaunch(t)
      BY <2>3
    <3> HIDE DEF t
    <3>4. Counts(t, 0, 0)
      BY <2>1, <3>2 DEF InOrder, Counts, SameShape
    <3>5. InOrder(t, 0, 0)
      BY <1>0, <3>2, <3>4, SameShapeFits DEF InOrder
    <3> QED BY <3>3, <3>5, TryLaunchLeaves
  <2> QED BY <1>2, <2>2, <2>3 DEF PushForward
<1> QED BY <1>1, <1>2

(* Client::noteXactDone with a retry.                                      *)
LEMMA RetryLeaves ==
  ASSUME NEW r, InOrder(r, 0, 1), ~r.isIdle, NEW s \in Retry(r)
  PROVE  InOrder(s, 0, 0)
<1>1. CASE s \in TryLaunchTrue(r)
  BY <1>1, TryLaunchTrueLeaves
<1>2. CASE \E t \in TryLaunchTrue(r) : t.extra < MaxExtra /\ s = [t EXCEPT !.extra = @ + 1]
  <2>1. PICK t \in TryLaunchTrue(r) : t.extra < MaxExtra /\ s = [t EXCEPT !.extra = t.extra + 1]
    BY <1>2
  <2>2. InOrder(t, 0, 0) /\ t \in RobotRecs
    BY TryLaunchTrueLeaves DEF InOrder
  <2>3. t.extra + 1 \in 0..MaxExtra
    BY <2>1, <2>2, Numbers, LimitsAssumption
  <2>4. /\ s \in RobotRecs /\ SameShape(t, s)
        /\ s.lvl = t.lvl /\ s.debts = t.debts /\ s.asked = t.asked
    BY <2>1, <2>2, <2>3, NewExtra
  <2>5. Counts(s, 0, 0)
    BY <2>2, <2>4 DEF InOrder, Counts, SameShape
  <2> QED BY <2>2, <2>4, <2>5, SameShapeFits DEF InOrder
<1>3. CASE \E t \in TryLaunchFalse(r) : s \in PushForward(t)
  <2>1. PICK t \in TryLaunchFalse(r) : s \in PushForward(t)
    BY <1>3
  <2>2. InOrder(t, 0, 1) /\ ~t.isIdle
    BY <2>1, TryLaunchFalseLeaves
  <2> QED BY <2>1, <2>2, PushForwardLeaves
<1> QED BY <1>1, <1>2, <1>3 DEF Retry

(* Client::noteXactDone: the slot was handed over, if it is needed.        *)
LEMMA NoteXactDoneLeaves ==
  ASSUME NEW r, InOrder(r, 0, 0), r.lvl > 0, NEW s \in NoteXactDone(r)
  PROVE  /\ InOrder(s, 0, 0)
         /\ r.isIdle => s.lvl <= r.lvl /\ Xacts(s) <= Xacts(r)
<1> DEFINE put == UNION {Put(y) : y \in SessionNoteXactDone(r)}
           left == {[y EXCEPT !.lvl = @ - 1] : y \in UNION {MayEnd(p) : p \in put}}
           End(y) == IF y.isIdle THEN {y} ELSE Retry(y) \cup PushForward(y)
<1>0. s \in UNION {End(y) : y \in left}
  BY DEF NoteXactDone
<1> HIDE DEF End
<1>1. PICK x \in left : s \in End(x)
  BY <1>0
<1> HIDE DEF put
<1>2. PICK p \in put : \E m \in MayEnd(p) : x = [m EXCEPT !.lvl = m.lvl - 1]
  OBVIOUS
<1>3. PICK m \in MayEnd(p) : x = [m EXCEPT !.lvl = m.lvl - 1]
  BY <1>2
<1>3a. PICK t \in SessionNoteXactDone(r) : p \in Put(t)
  BY DEF put
<1>4. InOrder(t, 0, 0) /\ SameLoad(r, t) /\ (r.isIdle => t = r)
  BY SessionNoteXactDoneLeaves
<1>5. t.lvl > 0
  BY <1>4 DEF SameLoad
<1>6. /\ InOrder(p, -1, 1) /\ p.isIdle = t.isIdle
      /\ p.lvl = t.lvl /\ p.debts = t.debts /\ p.asked = t.asked
  BY <1>3a, <1>4, <1>5, PutLeaves
<1>7. InOrder(m, -1, 1) /\ Goes(p, m) /\ SameLoad(p, m) /\ m.debts <= p.debts
  BY <1>6, MayEndLeaves
<1>8. /\ r \in RobotRecs /\ m \in RobotRecs /\ m.lvl = r.lvl /\ r.lvl \in Nat
      /\ m.lvl - 1 \in Nat
  BY <1>4, <1>6, <1>7, Numbers DEF InOrder, SameLoad
<1>9. /\ x \in RobotRecs /\ SameShape(m, x)
      /\ x.lvl = m.lvl - 1 /\ x.debts = m.debts /\ x.asked = m.asked
  BY <1>3, <1>8, NewLvl
<1>10. s \in IF x.isIdle THEN {x} ELSE Retry(x) \cup PushForward(x)
  BY <1>1 DEF End
<1>11. Counts(x, 0, 1)
  BY <1>7, <1>8, <1>9 DEF InOrder, Counts, SameShape
<1>12. InOrder(x, 0, 1)
  BY <1>7, <1>9, <1>11, SameShapeFits DEF InOrder
<1>13. CASE x.isIdle
  <2>1. s = x /\ x.debts = 0
    BY <1>10, <1>11, <1>13 DEF Counts
  <2>2. InOrder(x, 0, 0)
    BY <1>12, <2>1 DEF InOrder, Counts
  <2>3. r.isIdle => x.lvl <= r.lvl /\ Xacts(x) <= Xacts(r)
    BY <1>4, <1>6, <1>7, <1>8, <1>9, Numbers DEF SameLoad, Xacts
  <2> QED BY <2>1, <2>2, <2>3
<1>14. CASE ~x.isIdle
  <2>1. InOrder(s, 0, 0)
    BY <1>10, <1>12, <1>14, RetryLeaves, PushForwardLeaves
  <2>2. r.isIdle => x.isIdle
    BY <1>4, <1>6, <1>7, <1>9 DEF Goes, SameShape
  <2> QED BY <1>14, <2>1, <2>2
<1> QED BY <1>13, <1>14

-----------------------------------------------------------------------------
(* Events.                                                                 *)

(* IdleStartsNothing, of one step.                                         *)
Quiet(r, s) ==
  r.isIdle /\ s.isIdle /\ s.state = r.state => s.lvl <= r.lvl /\ Xacts(s) <= Xacts(r)

(* Handlers start nothing while the robot is idle.                         *)
LEMMA GoesQuietly ==
  ASSUME NEW r, NEW s, Goes(r, s)
  PROVE  Quiet(r, s)
  BY DEF Goes, Quiet

(* Start finds no alarm.                                                   *)
LEMMA StartStep ==
  ASSUME IInv, Alive, Start
  PROVE  InOrder(robot', 0, 0) /\ Quiet(robot, robot')
<1>0. /\ robot \in RobotRecs /\ Counts(robot, 0, 0) /\ robot.alarms \in AlarmSeqs
      /\ robot.state = "off" /\ robot.failure = "none"
  BY DEF IInv, RobotRecs, Start, Alive
<1>1. robot.alarms = << >>
  <2>1. CASE Fresh(robot)
    BY <2>1 DEF Fresh
  <2>2. CASE Fits(robot)
    <3>1. robot.alarms \notin Timed
      BY <1>0, <2>2 DEF Fits, AlarmsFit
    <3>2. robot.alarms \notin Launching
      BY <1>0, LaunchingIsPending DEF Start, LaunchPending
    <3> QED BY <1>0, <3>1, <3>2, NeitherIsNone
  <2> QED BY <2>1, <2>2 DEF IInv
<1> DEFINE r == [robot EXCEPT !.state = "on"]
<1>2. r \in RobotRecs
  BY <1>0 DEF RobotRecs
<1>3. /\ r.kind = robot.kind /\ r.state = "on" /\ r.session = robot.session
      /\ r.faults = robot.faults /\ r.isIdle = robot.isIdle
      /\ r.lvl = robot.lvl /\ r.debts = robot.debts /\ r.asked = robot.asked
      /\ r.used = robot.used /\ r.kept = robot.kept /\ r.closing = robot.closing
      /\ r.alarms = robot.alarms /\ r.failure = robot.failure
  BY <1>0 DEF RobotRecs
<1>4. robot' \in IF r.session = "none" THEN BecomeBusy(r) ELSE SessionBusy(r)
  BY DEF Start
<1> HIDE DEF r
<1>5. Counts(r, 0, 0)
  BY <1>0, <1>3 DEF Counts
<1>6. InOrder(robot', 0, 0) /\ robot'.state # "off"
  <2>1. CASE r.session = "none"
    BY <1>0, <1>1, <1>2, <1>3, <1>4, <1>5, <2>1, NoAlarms, BecomeBusyLeaves DEF Excused
  <2>2. CASE r.session # "none"
    BY <1>0, <1>1, <1>2, <1>3, <1>4, <1>5, <2>2, NoAlarms, SessionBusyLeaves DEF Excused
  <2> QED BY <2>1, <2>2
<1> QED BY <1>0, <1>6 DEF Quiet

(* Stop and PhasesEnd.                                                     *)
LEMMA StopStep ==
  ASSUME InOrder(robot, 0, 0), robot.state = "on", NEW state \in {"off", "over"},
         robot' \in Stopped([robot EXCEPT !.state = state])
  PROVE  InOrder(robot', 0, 0) /\ Quiet(robot, robot')
<1>0. robot \in RobotRecs /\ Counts(robot, 0, 0) /\ Fits(robot)
  BY DEF InOrder
<1> DEFINE r == [robot EXCEPT !.state = state]
<1>1. r \in RobotRecs
  BY <1>0 DEF RobotRecs
<1>2. /\ r.kind = robot.kind /\ r.state = state /\ r.session = robot.session
      /\ r.faults = robot.faults /\ r.isIdle = robot.isIdle
      /\ r.lvl = robot.lvl /\ r.debts = robot.debts /\ r.asked = robot.asked
      /\ r.used = robot.used /\ r.kept = robot.kept /\ r.closing = robot.closing
      /\ r.alarms = robot.alarms /\ r.failure = robot.failure
  BY <1>0 DEF RobotRecs
<1>3. robot' \in Stopped(r)
  OBVIOUS
<1> HIDE DEF r
<1>4. Counts(r, 0, 0)
  BY <1>0, <1>2 DEF Counts
<1>5. /\ Excused(r) /\ (r.session = "none" => r.alarms \notin Timed)
      /\ r.isIdle /\ r.kind = "async" => r.alarms \notin Launching
  BY <1>0, <1>2 DEF Fits, Excused, AlarmsFit
<1>6. \A s \in Stopped(r) : InOrder(s, 0, 0) /\ s.state = r.state
  BY <1>1, <1>4, <1>5, StoppedLeaves
<1>7. InOrder(robot', 0, 0) /\ robot'.state = state
  BY <1>2, <1>3, <1>6
<1> QED BY <1>7 DEF Quiet

(* XactDone.                                                               *)
LEMMA XactDoneStep ==
  ASSUME InOrder(robot, 0, 0), XactDone
  PROVE  InOrder(robot', 0, 0) /\ Quiet(robot, robot')
  BY NoteXactDoneLeaves DEF XactDone, Quiet

(* NoteChild.                                                              *)
LEMMA NoteChildStep ==
  ASSUME InOrder(robot, 0, 0), NoteChild
  PROVE  InOrder(robot', 0, 0) /\ Quiet(robot, robot')
<1>0. robot \in RobotRecs
  BY DEF InOrder
<1>1. CASE robot' \in TryLaunchFalse(robot)
  BY <1>1, TryLaunchFalseLeaves, GoesQuietly
<1>2. CASE \E r \in TryLaunchTrue(robot) : robot' = [r EXCEPT !.extra = @ + 1]
  <2>1. PICK r \in TryLaunchTrue(robot) : robot' = [r EXCEPT !.extra = r.extra + 1]
    BY <1>2
  <2>2. InOrder(r, 0, 0) /\ Goes(robot, r) /\ ~robot.isIdle /\ r \in RobotRecs
    BY <2>1, TryLaunchTrueLeaves DEF InOrder
  <2>3. r.extra + 1 \in 0..MaxExtra
    <3>1. r.extra <= robot.extra /\ robot.extra < MaxExtra
      BY <2>2 DEF Goes, NoteChild
    <3> QED BY <1>0, <2>2, <3>1, Numbers, LimitsAssumption
  <2>4. /\ robot' \in RobotRecs /\ SameShape(r, robot')
        /\ robot'.lvl = r.lvl /\ robot'.debts = r.debts /\ robot'.asked = r.asked
    BY <2>1, <2>2, <2>3, NewExtra
  <2>5. Counts(robot', 0, 0)
    BY <2>2, <2>4 DEF InOrder, Counts, SameShape
  <2>6. Fits(robot')
    BY <2>2, <2>4, SameShapeFits DEF InOrder
  <2> QED BY <2>2, <2>4, <2>5, <2>6 DEF InOrder, Quiet
<1> QED BY <1>1, <1>2 DEF NoteChild

(* NotePipelined.                                                          *)
LEMMA NotePipelinedStep ==
  ASSUME InOrder(robot, 0, 0), NotePipelined
  PROVE  InOrder(robot', 0, 0) /\ Quiet(robot, robot')
<1> DEFINE s == [robot EXCEPT !.failure = "pipeline"]
<1>0. robot \in RobotRecs /\ Counts(robot, 0, 0) /\ Fits(robot)
  BY DEF InOrder
<1>1. robot' = s
  BY DEF NotePipelined
<1>2. s \in RobotRecs
  BY <1>0 DEF RobotRecs
<1>3. /\ s.kind = robot.kind /\ s.state = robot.state /\ s.session = robot.session
      /\ s.faults = robot.faults /\ s.isIdle = robot.isIdle /\ s.sessIdle = robot.sessIdle
      /\ s.xactCnt = robot.xactCnt /\ s.lvl = robot.lvl /\ s.debts = robot.debts
      /\ s.asked = robot.asked /\ s.used = robot.used /\ s.kept = robot.kept
      /\ s.closing = robot.closing /\ s.alarms = robot.alarms /\ s.failure = "pipeline"
  BY <1>0 DEF RobotRecs
<1> HIDE DEF s
<1>4. Counts(s, 0, 0)
  BY <1>0, <1>3 DEF Counts
<1>5. AlarmsFit(s) /\ SessionFits(s)
  BY <1>0, <1>3 DEF Fits, AlarmsFit, SessionFits
<1>6. Quiet(robot, s)
  BY <1>0, <1>3, Numbers DEF Quiet, Xacts
<1> QED BY <1>1, <1>2, <1>3, <1>4, <1>5, <1>6 DEF InOrder, Fits, Excused

(* NoteAnswer: the question no longer stands for a slot.                   *)
LEMMA NoteAnswerStep ==
  ASSUME InOrder(robot, 0, 0), NoteAnswer
  PROVE  InOrder(robot', 0, 0) /\ Quiet(robot, robot')
<1>0. /\ robot \in RobotRecs /\ Counts(robot, 0, 0) /\ Fits(robot) /\ robot.asked > 0
      /\ robot.asked \in Nat
  BY Numbers DEF InOrder, NoteAnswer
<1> DEFINE r == [robot EXCEPT !.asked = robot.asked - 1]
<1>1. /\ r \in RobotRecs /\ SameShape(robot, r) /\ r.lvl = robot.lvl
      /\ r.debts = robot.debts /\ r.asked = robot.asked - 1 /\ r.extra = robot.extra
  <2>1. robot.asked - 1 \in Nat
    BY <1>0
  <2> QED BY <1>0, <2>1, NewAsked
<1>2. \/ robot' \in TryLaunchTrue(r) \/ robot' \in TryLaunchFalse(r)
      \/ "answer" \in robot.faults /\ robot' \in LaunchCanceled(r)
  BY DEF NoteAnswer, TryLaunchXact
<1> HIDE DEF r
<1>3. InOrder(r, 0, 1)
  <2>1. Counts(r, 0, 1)
    BY <1>0, <1>1, Numbers DEF Counts, SameShape
  <2> QED BY <1>0, <1>1, <2>1, SameShapeFits DEF InOrder
<1>4. Goes(robot, r)
  BY <1>0, <1>1, Numbers DEF Goes, SameShape, Xacts
<1>5. InOrder(robot', 0, 0) /\ Goes(r, robot')
  <2>1. CASE robot' \in TryLaunchTrue(r)
    BY <1>3, <2>1, TryLaunchTrueLeaves
  <2>2. CASE robot' \in Refused(r)
    BY <1>3, <2>2, RefusedLeaves
  <2>3. CASE /\ r.isIdle \/ r.faults \cap {"answer", "resolve", "hostless"} # {}
             /\ robot' \in LaunchCanceled(r) \/ robot' = r
    <3>1. r.isIdle \/ ~(r.faults \subseteq Favourable)
      BY <2>3 DEF Favourable
    <3>2. Counts(r, 0, 0)
      BY <1>3, <3>1 DEF InOrder, Counts
    <3>3. InOrder(r, 0, 0) /\ Goes(r, r)
      BY <1>1, <1>3, <3>2, GoesNowhere DEF InOrder
    <3> QED BY <2>3, <3>3, LaunchCanceledLeaves
  <2>4. r.faults = robot.faults
    BY <1>1 DEF SameShape
  <2> QED BY <1>2, <2>1, <2>2, <2>3, <2>4 DEF TryLaunchFalse
<1>6. robot' \in RobotRecs
  BY <1>5 DEF InOrder
<1> QED BY <1>0, <1>1, <1>4, <1>5, <1>6, GoesOn, GoesQuietly

(* WaitingExpires.                                                         *)
LEMMA WaitingExpiresStep ==
  ASSUME InOrder(robot, 0, 0), WaitingExpires
  PROVE  InOrder(robot', 0, 0) /\ Quiet(robot, robot')
<1>0. /\ robot \in RobotRecs /\ Counts(robot, 0, 0) /\ Fits(robot) /\ robot.debts > 0
      /\ robot.debts \in Nat /\ robot.debts - 1 \in Nat
      /\ robot' = [robot EXCEPT !.debts = robot.debts - 1]
  BY Numbers DEF InOrder, WaitingExpires
<1>1. /\ robot' \in RobotRecs /\ SameShape(robot, robot') /\ robot'.lvl = robot.lvl
      /\ robot'.debts = robot.debts - 1 /\ robot'.asked = robot.asked
  BY <1>0, NewDebts
<1>2. Counts(robot', 0, 0)
  BY <1>0, <1>1, Numbers DEF Counts, SameShape
<1>3. Quiet(robot, robot')
  BY <1>0, <1>1, Numbers DEF Quiet, Xacts
<1> QED BY <1>0, <1>1, <1>2, <1>3, SameShapeFits DEF InOrder

(* The robot whose first alarm is taken out of the queue.                  *)
LEMMA AlarmTaken ==
  ASSUME InOrder(robot, 0, 0), robot.alarms # << >>
  PROVE  LET r == [robot EXCEPT !.alarms = Tail(@)] IN
         /\ r \in RobotRecs /\ Counts(r, 0, 0)
         /\ r.kind = robot.kind /\ r.state = robot.state /\ r.session = robot.session
         /\ r.faults = robot.faults /\ r.isIdle = robot.isIdle
         /\ r.sessIdle = robot.sessIdle /\ r.xactCnt = robot.xactCnt /\ r.extra = robot.extra
         /\ r.lvl = robot.lvl /\ r.debts = robot.debts /\ r.asked = robot.asked
         /\ r.alarms = Tail(robot.alarms) /\ r.failure = robot.failure
<1>0. robot \in RobotRecs /\ Counts(robot, 0, 0) /\ robot.alarms \in AlarmSeqs
  BY Numbers DEF InOrder
<1> DEFINE q == Tail(robot.alarms)
           r == [robot EXCEPT !.alarms = q]
<1>1. q \in AlarmSeqs
  BY <1>0, TailOfAlarms
<1>2. r = [robot EXCEPT !.alarms = Tail(@)]
  OBVIOUS
<1> HIDE DEF q
<1>3. r \in RobotRecs
  BY <1>0, <1>1 DEF RobotRecs
<1>4. /\ r.kind = robot.kind /\ r.state = robot.state /\ r.session = robot.session
      /\ r.faults = robot.faults /\ r.isIdle = robot.isIdle
      /\ r.sessIdle = robot.sessIdle /\ r.xactCnt = robot.xactCnt /\ r.extra = robot.extra
      /\ r.lvl = robot.lvl /\ r.debts = robot.debts /\ r.asked = robot.asked
      /\ r.used = robot.used /\ r.kept = robot.kept /\ r.closing = robot.closing
      /\ r.alarms = q /\ r.failure = robot.failure
  BY <1>0 DEF RobotRecs
<1> HIDE DEF r
<1>5. Counts(r, 0, 0)
  BY <1>0, <1>4 DEF Counts
<1> QED BY <1>2, <1>3, <1>4, <1>5 DEF q

(* LaunchAlarm.                                                            *)
LEMMA LaunchAlarmStep ==
  ASSUME InOrder(robot, 0, 0), LaunchAlarm
  PROVE  InOrder(robot', 0, 0) /\ Quiet(robot, robot')
<1>0. /\ robot \in RobotRecs /\ Fits(robot) /\ robot.alarms \in AlarmSeqs
      /\ robot.alarms # << >> /\ Head(robot.alarms) = "launch"
  BY Numbers DEF InOrder, LaunchAlarm
<1> DEFINE r == [robot EXCEPT !.alarms = Tail(@)]
<1>1. /\ r \in RobotRecs /\ Counts(r, 0, 0)
      /\ r.kind = robot.kind /\ r.state = robot.state /\ r.session = robot.session
      /\ r.faults = robot.faults /\ r.isIdle = robot.isIdle
      /\ r.sessIdle = robot.sessIdle /\ r.xactCnt = robot.xactCnt /\ r.extra = robot.extra
      /\ r.lvl = robot.lvl /\ r.debts = robot.debts /\ r.asked = robot.asked
      /\ r.alarms = Tail(robot.alarms) /\ r.failure = robot.failure
  BY <1>0, AlarmTaken
<1>2. robot' \in IF r.kind = "sync" THEN TryLaunch(r)
                 ELSE IF Xacts(r) < MaxXacts
                 THEN UNION {TryLaunch(s) : s \in ScheduleLaunch(r)}
                 ELSE ScheduleLaunch(r)
  BY DEF LaunchAlarm
<1> HIDE DEF r
<1>3. /\ r.alarms \in AlarmSeqs /\ r.alarms \notin Launching
      /\ r.alarms \in Timed <=> robot.alarms \in Timed
  BY <1>0, <1>1, TailOfAlarms
<1>4. r.alarms # <<"session", "launch">>
  <2>1. <<"session", "launch">> # << >> /\ <<"session", "launch">> # <<"session">>
    OBVIOUS
  <2> QED BY <1>3, <2>1 DEF Launching
<1>5. InOrder(r, 0, 0)
  <2>1. AlarmsFit(r)
    BY <1>0, <1>1, <1>3, <1>4 DEF Fits, AlarmsFit
  <2>2. SessionFits(r)
    BY <1>0, <1>1, <1>3 DEF Fits, SessionFits
  <2> QED BY <1>0, <1>1, <2>1, <2>2 DEF InOrder, Fits, Excused
<1>6. Goes(robot, r)
  BY <1>0, <1>1, <1>3, Numbers DEF Goes, Xacts
<1>7. InOrder(robot', 0, 0) /\ Goes(r, robot')
  <2>1. CASE robot' \in TryLaunch(r)
    BY <1>5, <2>1, TryLaunchLeaves
  <2>2. CASE robot' \in ScheduleLaunch(r)
    BY <1>3, <1>5, <2>2, ScheduleLaunchLeaves
  <2>3. CASE robot' \in UNION {TryLaunch(s) : s \in ScheduleLaunch(r)}
    <3>1. PICK s \in ScheduleLaunch(r) : robot' \in TryLaunch(s)
      BY <2>3
    <3>2. InOrder(s, 0, 0) /\ Goes(r, s)
      BY <1>3, <1>5, <3>1, ScheduleLaunchLeaves
    <3>3. InOrder(robot', 0, 0) /\ Goes(s, robot')
      BY <3>1, <3>2, TryLaunchLeaves
    <3>4. s \in RobotRecs /\ robot' \in RobotRecs
      BY <3>2, <3>3 DEF InOrder
    <3> QED BY <1>1, <3>2, <3>3, <3>4, GoesOn
  <2> QED BY <1>2, <2>1, <2>2, <2>3
<1>8. robot' \in RobotRecs
  BY <1>7 DEF InOrder
<1> QED BY <1>0, <1>1, <1>6, <1>7, <1>8, GoesOn, GoesQuietly

(* SessionAlarm: no launch is left when an idle period of some time ends.  *)
LEMMA SessionAlarmStep ==
  ASSUME InOrder(robot, 0, 0), SessionAlarm
  PROVE  InOrder(robot', 0, 0) /\ Quiet(robot, robot')
<1>0. /\ robot \in RobotRecs /\ Fits(robot) /\ robot.alarms \in AlarmSeqs
      /\ robot.alarms # << >> /\ Head(robot.alarms) = "session"
  BY Numbers DEF InOrder, SessionAlarm
<1> DEFINE r == [robot EXCEPT !.alarms = Tail(@)]
<1>1. /\ r \in RobotRecs /\ Counts(r, 0, 0)
      /\ r.kind = robot.kind /\ r.state = robot.state /\ r.session = robot.session
      /\ r.faults = robot.faults /\ r.isIdle = robot.isIdle
      /\ r.sessIdle = robot.sessIdle /\ r.xactCnt = robot.xactCnt /\ r.extra = robot.extra
      /\ r.lvl = robot.lvl /\ r.debts = robot.debts /\ r.asked = robot.asked
      /\ r.alarms = Tail(robot.alarms) /\ r.failure = robot.failure
  BY <1>0, AlarmTaken
<1>2. robot' \in IF r.sessIdle THEN SessionBusy(r) ELSE SessionIdle(r)
  BY DEF SessionAlarm
<1> HIDE DEF r
<1>3. /\ r.alarms \in AlarmSeqs /\ r.alarms \notin Timed /\ robot.alarms \in Timed
      /\ r.alarms \in Launching <=> robot.alarms \in Launching
      /\ r.alarms # << >> => robot.alarms = <<"session", "launch">>
  BY <1>0, <1>1, TailOfAlarms
<1>4. /\ robot.session # "none" /\ robot.state # "off" /\ Excused(robot)
      /\ robot.isIdle = robot.sessIdle
  BY <1>0, <1>3 DEF Fits, AlarmsFit, SessionFits
<1>5. CASE r.sessIdle
  <2>1. "instant" \notin r.faults => r.alarms \notin Launching
    <3> SUFFICES ASSUME "instant" \notin r.faults PROVE r.alarms \notin Launching
      OBVIOUS
    <3>1. robot.kind \in {"sync", "async"}
      BY <1>0, SetsAssumption DEF RobotRecs
    <3>2. CASE robot.kind = "sync"
      <4>1. robot.alarms # <<"session", "launch">>
        BY <1>0, <1>1, <1>4, <1>5, <3>2 DEF Fits, AlarmsFit
      <4> QED BY <1>3, <4>1, NoAlarms
    <3>3. CASE robot.kind = "async"
      <4>1. robot.alarms \notin Launching
        BY <1>0, <1>1, <1>4, <1>5, <3>3 DEF Fits, AlarmsFit
      <4> QED BY <1>3, <4>1
    <3> QED BY <3>1, <3>2, <3>3
  <2>2. /\ InOrder(robot', 0, 0)
        /\ robot'.isIdle => r.state = "on" /\ robot'.state = "over"
    BY <1>1, <1>2, <1>3, <1>4, <1>5, <2>1, SessionBusyLeaves DEF Excused
  <2> QED BY <1>1, <2>2 DEF Quiet
<1>6. CASE ~r.sessIdle
  <2>1. InOrder(robot', 0, 0)
    BY <1>1, <1>2, <1>3, <1>4, <1>6, SessionIdleLeaves DEF Excused
  <2>2. ~robot.isIdle
    BY <1>1, <1>4, <1>6
  <2> QED BY <2>1, <2>2 DEF Quiet
<1> QED BY <1>5, <1>6

(* The robot with one idle connection less, and maybe one more or one less *)
(* that is closing.                                                        *)
LEMMA ConnClosed ==
  ASSUME InOrder(robot, 0, 0), NEW k \in Nat, NEW c \in Nat, k <= robot.kept,
         c <= robot.closing \/ "slow" \in robot.faults
  PROVE  LET r == [robot EXCEPT !.kept = k, !.closing = c] IN
         InOrder(r, 0, 0) /\ Goes(robot, r)
<1> DEFINE r == [robot EXCEPT !.kept = k, !.closing = c]
<1>0. robot \in RobotRecs /\ Counts(robot, 0, 0) /\ Fits(robot)
  BY DEF InOrder
<1>1. r \in RobotRecs
  BY <1>0 DEF RobotRecs
<1>2. /\ r.kind = robot.kind /\ r.state = robot.state /\ r.session = robot.session
      /\ r.faults = robot.faults /\ r.isIdle = robot.isIdle /\ r.sessIdle = robot.sessIdle
      /\ r.xactCnt = robot.xactCnt /\ r.lvl = robot.lvl /\ r.debts = robot.debts
      /\ r.asked = robot.asked /\ r.extra = robot.extra /\ r.used = robot.used
      /\ r.kept = k /\ r.closing = c /\ r.alarms = robot.alarms /\ r.failure = robot.failure
  BY <1>0 DEF RobotRecs
<1> HIDE DEF r
<1>3. Counts(r, 0, 0)
  BY <1>0, <1>2, Numbers DEF Counts
<1>4. AlarmsFit(r) /\ SessionFits(r)
  BY <1>0, <1>2 DEF Fits, AlarmsFit, SessionFits
<1>5. Goes(robot, r)
  BY <1>0, <1>2, Numbers DEF Goes, Xacts
<1> QED BY <1>0, <1>1, <1>2, <1>3, <1>4, <1>5 DEF r, InOrder, Fits, Excused

(* The last phase may end with an event of a connection.                   *)
LEMMA EndsQuietly ==
  ASSUME InOrder(robot, 0, 0), NEW r, InOrder(r, 0, 0), Goes(robot, r), NEW s \in MayEnd(r)
  PROVE  InOrder(s, 0, 0) /\ Quiet(robot, s)
<1>1. InOrder(s, 0, 0) /\ Goes(r, s)
  BY MayEndLeaves
<1>2. robot \in RobotRecs /\ r \in RobotRecs /\ s \in RobotRecs
  BY <1>1 DEF InOrder
<1> QED BY <1>1, <1>2, GoesOn, GoesQuietly

(* IdleCloses.                                                             *)
LEMMA IdleClosesStep ==
  ASSUME InOrder(robot, 0, 0), IdleCloses
  PROVE  InOrder(robot', 0, 0) /\ Quiet(robot, robot')
<1>0. /\ robot \in RobotRecs /\ robot.kept \in Nat /\ robot.closing \in Nat /\ robot.kept > 0
      /\ robot.kept - 1 \in Nat /\ robot.closing + 1 \in Nat
  BY Numbers DEF InOrder, IdleCloses
<1>1. CASE robot' \in MayEnd([robot EXCEPT !.kept = @ - 1])
  <2> DEFINE r == [robot EXCEPT !.kept = robot.kept - 1, !.closing = robot.closing]
  <2>1. r = [robot EXCEPT !.kept = @ - 1]
    BY <1>0 DEF RobotRecs
  <2>2. InOrder(r, 0, 0) /\ Goes(robot, r)
    <3> DEFINE k == robot.kept - 1
               c == robot.closing
    <3>1. k \in Nat /\ c \in Nat /\ k <= robot.kept /\ c <= robot.closing
      BY <1>0
    <3> HIDE DEF k, c
    <3>2. LET t == [robot EXCEPT !.kept = k, !.closing = c] IN
          InOrder(t, 0, 0) /\ Goes(robot, t)
      BY <3>1, ConnClosed
    <3> QED BY <3>2 DEF k, c
  <2> HIDE DEF r
  <2>3. robot' \in MayEnd(r)
    BY <1>1, <2>1
  <2> QED BY <2>2, <2>3, EndsQuietly
<1>2. CASE "slow" \in robot.faults /\ robot' = [robot EXCEPT !.kept = @ - 1, !.closing = @ + 1]
  <2>1. robot' = [robot EXCEPT !.kept = robot.kept - 1, !.closing = robot.closing + 1]
    BY <1>2
  <2>2. InOrder(robot', 0, 0) /\ Goes(robot, robot')
    <3> DEFINE k == robot.kept - 1
               c == robot.closing + 1
    <3>1. k \in Nat /\ c \in Nat /\ k <= robot.kept
      BY <1>0
    <3> HIDE DEF k, c
    <3>2. LET t == [robot EXCEPT !.kept = k, !.closing = c] IN
          InOrder(t, 0, 0) /\ Goes(robot, t)
      BY <1>2, <3>1, ConnClosed
    <3> QED BY <2>1, <3>2 DEF k, c
  <2> QED BY <2>2, GoesQuietly
<1> QED BY <1>1, <1>2 DEF IdleCloses

(* CloseEnds.                                                              *)
LEMMA CloseEndsStep ==
  ASSUME InOrder(robot, 0, 0), CloseEnds
  PROVE  InOrder(robot', 0, 0) /\ Quiet(robot, robot')
<1>0. /\ robot \in RobotRecs /\ robot.kept \in Nat /\ robot.closing \in Nat
      /\ robot.closing > 0 /\ robot.closing - 1 \in Nat
  BY Numbers DEF InOrder, CloseEnds
<1> DEFINE r == [robot EXCEPT !.kept = robot.kept, !.closing = robot.closing - 1]
<1>1. r = [robot EXCEPT !.closing = @ - 1]
  BY <1>0 DEF RobotRecs
<1>2. InOrder(r, 0, 0) /\ Goes(robot, r)
  <2> DEFINE k == robot.kept
             c == robot.closing - 1
  <2>1. k \in Nat /\ c \in Nat /\ k <= robot.kept /\ c <= robot.closing
    BY <1>0
  <2> HIDE DEF k, c
  <2>2. LET t == [robot EXCEPT !.kept = k, !.closing = c] IN
        InOrder(t, 0, 0) /\ Goes(robot, t)
    BY <2>1, ConnClosed
  <2> QED BY <2>2 DEF k, c
<1> HIDE DEF r
<1>3. robot' \in MayEnd(r)
  BY <1>1 DEF CloseEnds
<1> QED BY <1>2, <1>3, EndsQuietly

-----------------------------------------------------------------------------
(* Nothing but Start happens to a robot that was never started.            *)
LEMMA NextStep ==
  ASSUME IInv, Next
  PROVE  InOrder(robot', 0, 0) /\ Quiet(robot, robot')
<1>1. CASE Alive /\ Start
  BY <1>1, StartStep
<1>2. CASE Next /\ ~Start
  <2>1. robot \in RobotRecs /\ Counts(robot, 0, 0)
    BY DEF IInv
  <2>2. ~Fresh(robot)
    <3> SUFFICES ASSUME Fresh(robot) PROVE FALSE
      OBVIOUS
    <3>1. /\ robot.state = "off" /\ robot.lvl = 0 /\ robot.debts = 0 /\ robot.asked = 0
          /\ robot.kept = 0 /\ robot.closing = 0 /\ robot.alarms = << >>
      BY DEF Fresh
    <3> QED BY <1>2, <3>1 DEF Next, Stop, PhasesEnd, XactDone, NoteChild, NotePipelined,
                           NoteAnswer, WaitingExpires, LaunchAlarm, SessionAlarm, IdleCloses,
                           CloseEnds
  <2>3. InOrder(robot, 0, 0)
    BY <2>1, <2>2 DEF IInv, InOrder
  <2>4. CASE Stop
    BY <2>3, <2>4, StopStep DEF Stop
  <2>5. CASE PhasesEnd
    BY <2>3, <2>5, StopStep DEF PhasesEnd
  <2>6. CASE XactDone
    BY <2>3, <2>6, XactDoneStep
  <2>7. CASE NoteChild
    BY <2>3, <2>7, NoteChildStep
  <2>8. CASE NotePipelined
    BY <2>3, <2>8, NotePipelinedStep
  <2>9. CASE NoteAnswer
    BY <2>3, <2>9, NoteAnswerStep
  <2>10. CASE WaitingExpires
    BY <2>3, <2>10, WaitingExpiresStep
  <2>11. CASE LaunchAlarm
    BY <2>3, <2>11, LaunchAlarmStep
  <2>12. CASE SessionAlarm
    BY <2>3, <2>12, SessionAlarmStep
  <2>13. CASE IdleCloses
    BY <2>3, <2>13, IdleClosesStep
  <2>14. CASE CloseEnds
    BY <2>3, <2>14, CloseEndsStep
  <2> QED BY <1>2, <2>4, <2>5, <2>6, <2>7, <2>8, <2>9, <2>10, <2>11, <2>12, <2>13, <2>14
          DEF Next
<1> QED BY <1>1, <1>2 DEF Next

(* A robot that was not started yet is in order.                           *)
LEMMA InitIInv == Init => IInv
<1> SUFFICES ASSUME Init PROVE IInv
  OBVIOUS
<1>1. PICK kind \in Kinds, session \in Sessions, faults \in FaultSets :
        robot = [InitialRobot EXCEPT !.kind = kind, !.session = session, !.faults = faults]
  BY DEF Init
<1>2. robot = [kind |-> kind, state |-> "off", session |-> session, faults |-> faults,
               isIdle |-> FALSE, sessIdle |-> FALSE, xactCnt |-> 0, lvl |-> 0, debts |-> 0,
               asked |-> 0, extra |-> 0, used |-> 0, kept |-> 0, closing |-> 0,
               alarms |-> << >>, failure |-> "none"]
  BY <1>1 DEF InitialRobot
<1>3. 0 \in 0..XactGoal /\ 0 \in 0..MaxExtra /\ Limit \in Int
  BY LimitsAssumption
<1>4. robot \in RobotRecs
  BY <1>2, <1>3, NoAlarms DEF RobotRecs
<1>5. Counts(robot, 0, 0) /\ Fresh(robot)
  BY <1>2, <1>3 DEF Counts, Fresh
<1> QED BY <1>4, <1>5 DEF IInv

(* IInv is an invariant.                                                   *)
LEMMA AlwaysIInv == Spec => []IInv
<1>1. IInv /\ Next => IInv'
  BY NextStep DEF IInv, InOrder, Counts, Fits, AlarmsFit, SessionFits, Fresh
<1>2. IInv /\ UNCHANGED vars => IInv'
  BY DEF IInv, vars, Counts, Fits, AlarmsFit, SessionFits, Fresh
<1> QED BY <1>1, <1>2, InitIInv, PTL DEF Spec

(* The robot's fields keep their types: no counter drops below zero and a  *)
(* busy period counts no further than its goal.                            *)
THEOREM ClientTypeOK == Spec => []TypeOK
<1>1. IInv => TypeOK
  <2> SUFFICES ASSUME IInv PROVE TypeOK
    OBVIOUS
  <2>1. robot \in RobotRecs
    BY DEF IInv
  <2>2. robot.alarms \in Seq(Alarms)
    BY <2>1, Numbers, AlarmSeqsAreSeqs
  <2>3. robot.extra \in 0..(MaxExtra + 1)
    BY <2>1, Numbers, LimitsAssumption
  <2>4. robot.session \in SessionKinds
    BY <2>1, SetsAssumption DEF RobotRecs
  <2> QED BY <2>1, <2>2, <2>3, <2>4 DEF TypeOK, RobotRecs
<1> QED BY <1>1, AlwaysIInv, PTL

(* theCcXactLvl counts the connections in use, which keep to open_conn_lmt *)
(* together with the idle ones; an idle robot keeps nothing; the robot and *)
(* its session manager agree: after every event, wherever in the handlers  *)
(* of the event the last phase ended.                                      *)
THEOREM RobotStaysConsistent == Spec => []RobotIsConsistent
<1>1. IInv => RobotIsConsistent
  <2> SUFFICES ASSUME IInv PROVE RobotIsConsistent
    OBVIOUS
  <2>1. robot \in RobotRecs /\ Counts(robot, 0, 0)
    BY DEF IInv
  <2>2. LevelsAgree
    BY <2>1, Numbers DEF Counts, LevelsAgree
  <2>3. WithinConnLimit /\ IdleKeepsNothing
    BY <2>1 DEF Counts, WithinConnLimit, IdleKeepsNothing
  <2>4. RobotFollowsSession
    <3>1. CASE Fits(robot)
      BY <3>1 DEF Fits, SessionFits, RobotFollowsSession
    <3>2. CASE Fresh(robot)
      <4>1. robot.isIdle = FALSE /\ robot.sessIdle = FALSE
        BY <2>1, <3>2 DEF Fresh, RobotRecs
      <4> QED BY <4>1 DEF RobotFollowsSession
    <3> QED BY <3>1, <3>2 DEF IInv
  <2> QED BY <2>2, <2>3, <2>4 DEF RobotIsConsistent
<1> QED BY <1>1, AlwaysIInv, PTL

(* Assert(!thePendAlarmCnt) of scheduleLaunch() holds unless a period may  *)
(* last no time: a busy period never begins with a launch pending from the *)
(* one before, whatever was canceled, answered or stopped meanwhile.       *)
THEOREM NoLaunchIsPending == Spec => []PendAlarmAssertHolds
<1>1. IInv => PendAlarmAssertHolds
  BY DEF IInv, Fits, Excused, Fresh, PendAlarmAssertHolds
<1> QED BY <1>1, AlwaysIInv, PTL

(* noteXactDone() hands every slot over: a transaction of a robot whose    *)
(* launches do not come to nothing (no lookup, answer or connection fails) *)
(* and whose connections close at once waits only while the limit is       *)
(* reached.                                                                *)
THEOREM NobodyWaitsInVain == Spec => []WaitingIsNeeded
<1>1. IInv => WaitingIsNeeded
  <2> SUFFICES ASSUME IInv, Favoured, robot.debts > 0
               PROVE  robot.used + robot.asked >= Limit
    BY DEF WaitingIsNeeded
  <2>1. robot \in RobotRecs /\ robot.used + robot.asked + 0 >= Limit
    BY DEF IInv, Counts, Favoured
  <2> QED BY <2>1, Numbers
<1> QED BY <1>1, AlwaysIInv, PTL

(* No event starts a transaction of a robot that is and stays idle.        *)
THEOREM IdleRobotsStartNothing == Spec => IdleStartsNothing
<1>1. IInv /\ [Next]_vars =>
        [robot.isIdle /\ robot'.isIdle /\ robot'.state = robot.state =>
           robot'.lvl <= robot.lvl /\ Xacts(robot') <= Xacts(robot)]_vars
  BY NextStep DEF Quiet, vars
<1> QED BY <1>1, AlwaysIInv, PTL DEF Spec, IdleStartsNothing
=============================================================================
