--------------------------- MODULE MatchFlow_proofs ---------------------------
(* Proofs about MatchFlow for every plan, any number of users, speeches,      *)
(* operations, disruptions and queued timers.                                 *)
EXTENDS MatchFlow, FiniteSetTheorems, WellFoundedInduction, TLAPS

-----------------------------------------------------------------------------
(* The inductive invariant. What concerns the match alone is a predicate of a *)
(* record s, so that the operators the handlers are built from keep it.       *)

Turns == HumanTurn \cup AgentTurn
Running == {"HOST_ANNOUNCING", "PREPARING"} \cup Turns
Starting == {"START_PENDING_RUNTIME", "START_COUNTDOWN"}
Held == {"PAUSED", "SYSTEM_RECOVERY", "ERROR"}

\* Which action states go with which status; what a held match restores, and
\* that it has an action to restore it in.
ShapeOK(s) ==
    /\ s.status \in Starting =>
          /\ s.act = "NOT_STARTED" /\ s.idx = 1 /\ s.ckpt = 0 /\ s.speech = 0 /\ s.failed = 0
          /\ s.left = NoTime /\ s.clock = NoTime /\ s.used = 0
    /\ s.status = "RUNNING" => s.act \in Running /\ s.idx <= Len(Plan)
    /\ s.status = "PAUSED" => s.act \in {"RECOVERY_REQUIRED", "RESUME_COUNTDOWN"}
    /\ s.status \in {"SYSTEM_RECOVERY", "ERROR"} => s.act = "RECOVERY_REQUIRED"
    /\ s.status \in Terminal => s.act = "MATCH_FINISHED"
    /\ s.status \in Held =>
          /\ s.from \in Running \cup {"NOT_STARTED"}
          /\ s.from # "NOT_STARTED" => s.idx <= Len(Plan)
          /\ s.from = "NOT_STARTED" => s.speech = 0

\* What a turn that is being skipped resumes with.
Retaken == {"AGENT_PREPARING", "HUMAN_READY_TO_START"}

\* A pending operation holds the match where it was asked for; w is the worker, or 0.
PendingOK(s, w) ==
    s.op.status = "PENDING" =>
        /\ s.idx = s.op.idx /\ s.idx <= Len(Plan) /\ s.op.gen # 0
        /\ \/ /\ s.op.kind = "speech.skip" /\ w \in {0, s.op.gen}
              /\ s.status = "PAUSED" /\ s.act = "RECOVERY_REQUIRED" /\ s.speech = 0
              /\ s.from \in Retaken
           \/ s.op.kind = "asr.retry" /\ s.status = "ERROR" /\ s.failed # 0

FailedOK(s) ==
    s.failed # 0 => s.status \in {"ERROR", "PAUSED", "TERMINATED"} /\ s.act # "RESUME_COUNTDOWN"

\* The checkpoint is of the stage of the current action, or the stage is about
\* to be entered.
CkptOK(s) ==
    s.ckpt # 0 /\ s.idx <= Len(Plan) /\ s.status \notin Terminal =>
        \/ s.ckpt = Plan[s.idx].stage
        \/ s.status \in Held /\ s.from = "NOT_STARTED" /\ FirstOfStage(s.idx) = s.idx

\* What is spoken and what may still be spoken make no more than the budget. The
\* clock says what may be, and once it is stopped what is left does, but while a
\* speech is finalized; with nothing left a full budget will be granted.
SpokenOK(s) ==
    \/ s.cut
    \/ /\ s.used <= Duration
       /\ s.clock # NoTime => s.used + s.clock <= Duration
       /\ (/\ s.left # NoTime /\ s.act \notin Finalizing
           /\ s.status \in Held \/ (s.status = "RUNNING" /\ s.clock = NoTime))
             => s.used + s.left <= Duration
       /\ (/\ s.left = NoTime
           /\ \/ s.act \in {"HUMAN_READY_TO_START", "AGENT_PREPARING"}
              \/ s.status \in Held /\ s.from \in Turns)
             => s.used = 0

\* A pause that was acknowledged leaves nothing that would resume by itself.
HoldOK ==
    hold = "held" => /\ match.status \in Held \cup Terminal
                     /\ match.act # "RESUME_COUNTDOWN" /\ ~match.op.auto

\* Where something is left of the budget, and where the clock may run; a speech
\* carries the token of its start.
ClockOK(s) ==
    /\ s.status = "RUNNING" /\ s.act \in Speaking \cup {"PREPARING"} => s.left # NoTime
    /\ s.status \in Held /\ s.from = "PREPARING" => s.left # NoTime
    /\ s.status = "RUNNING" /\ s.clock # NoTime => s.act \in Speaking \cup {"PREPARING"}
    /\ s.act \in Speaking => s.start # 0

\* An armed timer has a command, and start tokens are of speeches that were started.
TimerOK(s) ==
    /\ s.start <= s.issued /\ s.timer.start <= s.issued
    /\ s.timer = NoTimer \/ s.timer.cmd \in TimerCommands

\* The queued deadline of the current speech finds its time up.
QueueOK(s, q) ==
    /\ Len(q) <= MaxFired
    /\ \A i \in 1..Len(q) :
          /\ q[i].cmd # "none" /\ q[i].start <= s.issued
          /\ q[i].cmd \notin TimerCommands => q[i].id = Fresh
          /\ q[i].cmd = "speech.deadline" /\ s.act \in Speaking /\ q[i].start = s.start
                => ViewLeft(s) = 0

IInv ==
    /\ TypeOK /\ ShapeOK(match) /\ PendingOK(match, worker) /\ FailedOK(match) /\ CkptOK(match)
    /\ SpokenOK(match) /\ ClockOK(match) /\ HoldOK /\ TimerOK(match) /\ QueueOK(match, fired)

-----------------------------------------------------------------------------
(* The operators keep the types *)

Ops == [kind : {"none", "stage.reset", "speech.skip", "speech.reset", "asr.retry"},
        status : {"NONE", "PENDING", "SUCCEEDED", "FAILED", "CANCELLED"},
        auto : BOOLEAN, gen : 0..MaxOps, idx : 0..(Len(Plan) + 1)]

Records == [of : Matches, status : Statuses, act : ActionStates, idx : 1..(Len(Plan) + 1),
            from : ActionStates \cup {"none"},
            speaker : Users \cup {Agent, NoOne}, seated : BOOLEAN,
            speech : 0..MaxStarts, start : 0..MaxStarts, issued : 0..MaxStarts,
            left : NoTime..Duration, clock : NoTime..Duration,
            due : {"none", "waiting", "passed"},
            ckpt : {Plan[i].stage : i \in 1..Len(Plan)} \cup {0},
            op : Ops,
            failed : 0..MaxStarts, offUser : Users \cup {NoOne}, since : SUBSET Users,
            timer : Entries, guard : 0..(MaxFired + 1), used : Nat, cut : BOOLEAN]

\* The bounds are numbers, and the plan is a sequence of compiled actions.
LEMMA Bounds ==
    ASSUME match.of \in Matches
    PROVE  /\ MaxFired \in Nat /\ Duration \in Nat /\ Duration > 0
           /\ MaxStarts \in Nat /\ MaxOps \in Nat /\ Len(Plan) \in Nat /\ Len(Plan) > 0
           /\ \A i \in 1..Len(Plan) :
                 Plan[i] \in [kind : Kinds, host : BOOLEAN, stage : Nat \ {0},
                              speaker : Users \cup {Agent, NoOne}]
<1>1. MaxFired \in Nat /\ Duration \in Nat /\ Duration > 0
  BY BoundAssumption
<1>2. MaxStarts \in Nat /\ MaxOps \in Nat
  BY MatchesAssumption DEF MaxStarts, MaxOps
<1>3. Plan \in Seq([kind : Kinds, host : BOOLEAN, stage : Nat \ {0},
                    speaker : Users \cup {Agent, NoOne}]) /\ Len(Plan) > 0
  BY MatchesAssumption DEF Plan
<1>4. Len(Plan) \in Nat
      /\ \A i \in 1..Len(Plan) : Plan[i] \in [kind : Kinds, host : BOOLEAN, stage : Nat \ {0},
                                              speaker : Users \cup {Agent, NoOne}]
  <2>. DEFINE T == [kind : Kinds, host : BOOLEAN, stage : Nat \ {0},
                    speaker : Users \cup {Agent, NoOne}]
  <2>. HIDE DEF T
  <2>1. Plan \in Seq(T)
    BY <1>3 DEF T
  <2>2. Len(Plan) \in Nat /\ \A i \in 1..Len(Plan) : Plan[i] \in T
    BY <2>1
  <2>. QED BY <2>2 DEF T
<1>. QED BY <1>1, <1>2, <1>3, <1>4

\* A guard that no queued entry carries exists: there are more than entries.
LEMMA NewGuardExists ==
    ASSUME fired \in Seq(Entries), Len(fired) <= MaxFired
    PROVE  NewGuard \in 1..(MaxFired + 1) /\ \A i \in DOMAIN fired : fired[i].guard # NewGuard
<1>. DEFINE G == 1..(MaxFired + 1)
            D == 1..Len(fired)
<1>1. MaxFired \in Nat /\ Len(fired) \in Nat /\ DOMAIN fired = D
  BY BoundAssumption
<1>2. IsFiniteSet(D) /\ Cardinality(D) = Len(fired)
  <2>. DEFINE n == Len(fired)
  <2>1. 1 \in Int /\ n \in Int /\ n \in Nat
    BY <1>1
  <2>. HIDE DEF n
  <2>2. IsFiniteSet(1..n) /\ Cardinality(1..n) = n
    BY <2>1, FS_Interval
  <2>. QED BY <2>2 DEF n
<1>3. IsFiniteSet(G) /\ Cardinality(G) = MaxFired + 1
  <2>1. 1 \in Int /\ MaxFired + 1 \in Int
    BY <1>1
  <2>. QED BY <2>1, <1>1, FS_Interval, SMTT(30)
<1>4. \E g \in G : \A i \in D : fired[i].guard # g
  <2>1. SUFFICES ASSUME \A g \in G : \E i \in D : fired[i].guard = g PROVE FALSE
    OBVIOUS
  <2>. DEFINE h == [g \in G |-> CHOOSE i \in D : fired[i].guard = g]
  <2>2. h \in [G -> D] /\ \A g \in G : fired[h[g]].guard = g
    BY <2>1
  <2>3. Cardinality(G) > Cardinality(D)
    BY <1>1, <1>2, <1>3
  <2>4. \E x, y \in G : x # y /\ h[x] = h[y]
    <3>. HIDE DEF G, D, h
    <3>. QED BY <1>2, <1>3, <2>2, <2>3, FS_PigeonHole
  <2>. QED BY <2>2, <2>4
<1>. QED BY <1>1, <1>4 DEF NewGuard

\* What the fields of a record are, in the terms the arithmetic needs.
LEMMA Fields ==
    ASSUME match.of \in Matches, NEW s \in Records
    PROVE  /\ s.idx \in Nat /\ 1 <= s.idx /\ s.idx <= Len(Plan) + 1
           /\ s.left \in Int /\ NoTime <= s.left /\ s.left <= Duration
           /\ s.clock \in Int /\ NoTime <= s.clock /\ s.clock <= Duration
           /\ s.speech \in Nat /\ s.start \in Nat /\ s.issued \in Nat /\ s.issued <= MaxStarts
           /\ s.used \in Nat /\ s.cut \in BOOLEAN
           /\ s.status \in Statuses /\ s.act \in ActionStates
           /\ s.timer \in Entries /\ s.timer.start \in Nat
<1>1. /\ s.idx \in 1..(Len(Plan) + 1) /\ s.left \in NoTime..Duration /\ s.clock \in NoTime..Duration
      /\ s.speech \in 0..MaxStarts /\ s.start \in 0..MaxStarts /\ s.issued \in 0..MaxStarts
      /\ s.used \in Nat /\ s.cut \in BOOLEAN /\ s.status \in Statuses /\ s.act \in ActionStates
      /\ s.timer \in Entries
  BY DEF Records
<1>2. s.timer.start \in 0..MaxStarts
  BY <1>1 DEF Entries
<1>3. /\ s.idx \in Nat /\ 1 <= s.idx /\ s.idx <= Len(Plan) + 1
      /\ s.left \in Int /\ NoTime <= s.left /\ s.left <= Duration
      /\ s.clock \in Int /\ NoTime <= s.clock /\ s.clock <= Duration
  <2>1. s.idx \in 1..(Len(Plan) + 1) /\ s.left \in NoTime..Duration /\ s.clock \in NoTime..Duration
    BY <1>1
  <2>. QED BY <2>1, Bounds DEF NoTime
<1>4. /\ s.speech \in Nat /\ s.start \in Nat /\ s.issued \in Nat /\ s.issued <= MaxStarts
      /\ s.timer.start \in Nat
  <2>1. /\ s.speech \in 0..MaxStarts /\ s.start \in 0..MaxStarts /\ s.issued \in 0..MaxStarts
        /\ s.timer.start \in 0..MaxStarts
    BY <1>1, <1>2
  <2>. QED BY <2>1, Bounds
<1>. QED BY <1>1, <1>3, <1>4

\* The match with another timer, the one that was armed being forgotten.
Retimed(s, t) ==
    \E g \in 0..(MaxFired + 1), e \in Entries :
        /\ t = [s EXCEPT !.guard = g, !.timer = e]
        /\ e.start \in {0, s.start} /\ (e = NoTimer \/ e.cmd \in TimerCommands)

\* _schedule_internal replaces the timer, with the token of the speech it is for.
LEMMA ArmRetimes ==
    ASSUME NEW s \in Records, NEW cmd \in TimerCommands, NEW id \in 0..Len(Plan),
           fired \in Seq(Entries), Len(fired) <= MaxFired, match.of \in Matches
    PROVE  Retimed(s, Arm(s, cmd, id))
<1>. DEFINE g == IF cmd = "host.elapsed" THEN NewGuard ELSE 0
            timed == cmd = "speech.deadline"
            e == [cmd |-> cmd, id |-> id, guard |-> g, user |-> NoOne,
                  speech |-> IF timed THEN s.speech ELSE 0,
                  start |-> IF timed THEN s.start ELSE 0]
<1>1. g \in 0..(MaxFired + 1)
  BY NewGuardExists, BoundAssumption
<1>2. s.speech \in 0..MaxStarts /\ s.start \in 0..MaxStarts /\ 0 \in 0..MaxStarts
  BY Bounds DEF Records
<1>3. e \in Entries
  <2>. HIDE DEF g
  <2>. QED BY <1>1, <1>2 DEF Entries
<1>4. Arm(s, cmd, id) = [s EXCEPT !.guard = g, !.timer = e]
  BY DEF Arm
<1>5. e.cmd = cmd /\ e.start \in {0, s.start}
  OBVIOUS
<1>. HIDE DEF g, e
<1>. QED BY <1>1, <1>3, <1>4, <1>5 DEF Retimed

\* That no timer is armed is an entry too, of no speech.
LEMMA NoTimerFacts ==
    ASSUME match.of \in Matches
    PROVE  NoTimer \in Entries /\ NoTimer.start = 0
<1>1. 0 \in 0..Len(Plan) /\ 0 \in 0..MaxStarts /\ 0 \in 0..(MaxFired + 1)
  BY Bounds
<1>. QED BY <1>1 DEF Entries, NoTimer, Fresh

\* _cancel_timer replaces the timer by none.
LEMMA CancelRetimes ==
    ASSUME NEW s \in Records, match.of \in Matches
    PROVE  Retimed(s, Cancel(s))
<1>1. 0 \in 0..(MaxFired + 1)
  BY Bounds
<1>2. Cancel(s) = [s EXCEPT !.guard = 0, !.timer = NoTimer]
  BY Zenon DEF Cancel, Records
<1>. QED BY <1>1, <1>2, NoTimerFacts DEF Retimed

\* A record with another timer is what it was, but for its timer and guard.
LEMMA RetimedFields ==
    ASSUME NEW s \in Records, NEW t, Retimed(s, t)
    PROVE  /\ t \in Records
           /\ t.of = s.of /\ t.status = s.status /\ t.act = s.act /\ t.idx = s.idx /\ t.from = s.from
           /\ t.speaker = s.speaker /\ t.seated = s.seated
           /\ t.speech = s.speech /\ t.start = s.start /\ t.issued = s.issued
           /\ t.left = s.left /\ t.clock = s.clock /\ t.due = s.due /\ t.ckpt = s.ckpt
           /\ t.op = s.op /\ t.failed = s.failed /\ t.offUser = s.offUser /\ t.since = s.since
           /\ t.used = s.used /\ t.cut = s.cut
           /\ t.timer.start \in {0, s.start} /\ (t.timer = NoTimer \/ t.timer.cmd \in TimerCommands)
<1>1. PICK g \in 0..(MaxFired + 1), e \in Entries :
          /\ t = [s EXCEPT !.guard = g, !.timer = e]
          /\ e.start \in {0, s.start} /\ (e = NoTimer \/ e.cmd \in TimerCommands)
  BY DEF Retimed
<1>2. t \in Records
  BY ZenonT(60), <1>1 DEF Records
<1>3. t.timer = e
  BY Zenon, <1>1 DEF Records
<1>. QED BY ZenonT(60), <1>1, <1>2, <1>3 DEF Records

Good(s) ==
    /\ s \in Records /\ ShapeOK(s) /\ FailedOK(s) /\ CkptOK(s) /\ SpokenOK(s) /\ ClockOK(s)
    /\ TimerOK(s)

\* No clause of the invariant tells one armed timer from another.
LEMMA RetimedGood ==
    ASSUME NEW s, Good(s), NEW t, Retimed(s, t), match.of \in Matches
    PROVE  Good(t)
<1>1. s \in Records /\ ShapeOK(s) /\ FailedOK(s) /\ CkptOK(s) /\ SpokenOK(s) /\ ClockOK(s) /\ TimerOK(s)
  BY DEF Good
<1>2. /\ t.status = s.status /\ t.act = s.act /\ t.idx = s.idx /\ t.from = s.from
      /\ t.speech = s.speech /\ t.start = s.start /\ t.issued = s.issued
      /\ t.left = s.left /\ t.clock = s.clock /\ t.ckpt = s.ckpt /\ t.failed = s.failed
      /\ t.used = s.used /\ t.cut = s.cut
  BY <1>1, RetimedFields
<1>3. ShapeOK(t) /\ FailedOK(t) /\ CkptOK(t)
  BY <1>1, <1>2 DEF ShapeOK, FailedOK, CkptOK
<1>4. SpokenOK(t) /\ ClockOK(t)
  BY <1>1, <1>2 DEF SpokenOK, ClockOK
<1>5. TimerOK(t)
  <2>1. t.timer.start \in {0, s.start} /\ (t.timer = NoTimer \/ t.timer.cmd \in TimerCommands)
    BY <1>1, RetimedFields
  <2>. QED BY <1>1, <1>2, <2>1, Fields DEF TimerOK
<1>6. t \in Records
  BY <1>1, RetimedFields
<1>. QED BY <1>1, <1>3, <1>4, <1>5, <1>6 DEF Good

\* The values the handlers write belong to the types of their fields.
LEMMA Literals ==
    ASSUME match.of \in Matches
    PROVE  /\ \A x \in Held \cup Terminal \cup Starting \cup {"RUNNING"} : x \in Statuses
           /\ \A x \in Running \cup {"NOT_STARTED", "ACTION_FINISHED", "RECOVERY_REQUIRED",
                                     "RESUME_COUNTDOWN", "MATCH_FINISHED"} :
                 x \in ActionStates /\ x \in ActionStates \cup {"none"}
           /\ NoTime \in NoTime..Duration /\ Duration \in NoTime..Duration
           /\ 0 \in 0..MaxStarts /\ 0 \in 0..Len(Plan) /\ 0 \in Nat
<1>1. \A x \in Held \cup Terminal \cup Starting \cup {"RUNNING"} : x \in Statuses
  BY DEF Held, Terminal, Starting, Statuses
<1>2. \A x \in Running \cup {"NOT_STARTED", "ACTION_FINISHED", "RECOVERY_REQUIRED",
                             "RESUME_COUNTDOWN", "MATCH_FINISHED"} : x \in ActionStates
  BY DEF Running, Turns, ActionStates
<1>. QED BY <1>1, <1>2, Bounds DEF NoTime

\* A record with another value of one field.
LEMMA Updated ==
    ASSUME NEW s \in Records
    PROVE  /\ \A v \in Statuses : [s EXCEPT !.status = v] \in Records
           /\ \A v \in ActionStates : [s EXCEPT !.act = v] \in Records
           /\ \A v \in 1..(Len(Plan) + 1) : [s EXCEPT !.idx = v] \in Records
           /\ \A v \in ActionStates \cup {"none"} : [s EXCEPT !.from = v] \in Records
           /\ \A v \in Users \cup {Agent, NoOne} : [s EXCEPT !.speaker = v] \in Records
           /\ \A v \in Users \cup {NoOne} : [s EXCEPT !.offUser = v] \in Records
           /\ \A v \in 0..MaxStarts :
             /\ [s EXCEPT !.speech = v] \in Records /\ [s EXCEPT !.start = v] \in Records
             /\ [s EXCEPT !.issued = v] \in Records /\ [s EXCEPT !.failed = v] \in Records
           /\ \A v \in NoTime..Duration :
             [s EXCEPT !.left = v] \in Records /\ [s EXCEPT !.clock = v] \in Records
           /\ \A v \in {"none", "waiting", "passed"} : [s EXCEPT !.due = v] \in Records
           /\ \A v \in {Plan[i].stage : i \in 1..Len(Plan)} \cup {0} : [s EXCEPT !.ckpt = v] \in Records
           /\ \A v \in Ops : [s EXCEPT !.op = v] \in Records
           /\ \A v \in SUBSET Users : [s EXCEPT !.since = v] \in Records
           /\ \A v \in Nat : [s EXCEPT !.used = v] \in Records
           /\ \A v \in BOOLEAN : [s EXCEPT !.cut = v] \in Records /\ [s EXCEPT !.seated = v] \in Records
<1>1. \A v \in Statuses : [s EXCEPT !.status = v] \in Records
  BY ZenonT(30) DEF Records
<1>2. \A v \in ActionStates : [s EXCEPT !.act = v] \in Records
  BY ZenonT(30) DEF Records
<1>3. \A v \in 1..(Len(Plan) + 1) : [s EXCEPT !.idx = v] \in Records
  BY ZenonT(30) DEF Records
<1>4. \A v \in ActionStates \cup {"none"} : [s EXCEPT !.from = v] \in Records
  BY ZenonT(30) DEF Records
<1>5. \A v \in Users \cup {Agent, NoOne} : [s EXCEPT !.speaker = v] \in Records
  BY ZenonT(30) DEF Records
<1>6. \A v \in Users \cup {NoOne} : [s EXCEPT !.offUser = v] \in Records
  BY ZenonT(30) DEF Records
<1>7. \A v \in 0..MaxStarts :
         /\ [s EXCEPT !.speech = v] \in Records /\ [s EXCEPT !.start = v] \in Records
         /\ [s EXCEPT !.issued = v] \in Records /\ [s EXCEPT !.failed = v] \in Records
  BY ZenonT(60) DEF Records
<1>8. \A v \in NoTime..Duration :
         [s EXCEPT !.left = v] \in Records /\ [s EXCEPT !.clock = v] \in Records
  BY ZenonT(60) DEF Records
<1>9. \A v \in {"none", "waiting", "passed"} : [s EXCEPT !.due = v] \in Records
  BY ZenonT(60) DEF Records
<1>10. \A v \in {Plan[i].stage : i \in 1..Len(Plan)} \cup {0} : [s EXCEPT !.ckpt = v] \in Records
  BY ZenonT(30) DEF Records
<1>11. \A v \in Ops : [s EXCEPT !.op = v] \in Records
  BY ZenonT(30) DEF Records
<1>12. \A v \in SUBSET Users : [s EXCEPT !.since = v] \in Records
  BY ZenonT(30) DEF Records
<1>13. \A v \in Nat : [s EXCEPT !.used = v] \in Records
  BY ZenonT(30) DEF Records
<1>14. \A v \in BOOLEAN : [s EXCEPT !.cut = v] \in Records /\ [s EXCEPT !.seated = v] \in Records
  BY ZenonT(60) DEF Records
<1>. QED BY <1>1, <1>2, <1>3, <1>4, <1>5, <1>6, <1>7, <1>8, <1>9, <1>10, <1>11, <1>12, <1>13, <1>14

\* A record the running match enters its next action from.
Entering(s) ==
    /\ s \in Records /\ s.status = "RUNNING" /\ s.failed = 0 /\ s.clock = NoTime
    /\ TimerOK(s) /\ (s.cut \/ s.used <= Duration)

Entered == {"HOST_ANNOUNCING", "PREPARING", "AGENT_PREPARING", "HUMAN_READY_TO_START"}

\* The action t begins, or the match has come to its end.
Begins(s, t) ==
    /\ Good(t) /\ t.of = s.of /\ t.op = s.op /\ t.issued = s.issued
    /\ \/ t.status = "RUNNING" /\ t.act \in Entered
       \/ t.status = "FINISHED" /\ t.act = "MATCH_FINISHED"
    /\ t.status = "RUNNING" /\ t.left # NoTime => t.used + t.left <= Duration

\* _activate_action grants the full budget, so the action it begins is a good one.
LEMMA ActivateBegins ==
    ASSUME match.of \in Matches, fired \in Seq(Entries), Len(fired) <= MaxFired,
           NEW s \in Records, s.status = "RUNNING", s.failed = 0, TimerOK(s),
           s.idx <= Len(Plan), Plan[s.idx].kind # "HOST_AUDIO",
           s.ckpt # 0 => s.ckpt = Plan[s.idx].stage
    PROVE  Begins(s, Activate(s))
<1>. DEFINE a == Plan[s.idx]
<1>1. s.idx \in 1..Len(Plan)
  BY Fields
<1>2. a.kind \in Kinds \ {"HOST_AUDIO"} /\ a.speaker \in Users \cup {Agent, NoOne}
  BY <1>1, Bounds
<1>. DEFINE p == [Grant(s) EXCEPT !.act = "PREPARING", !.due = "none", !.clock = Duration]
            g == [Grant(s) EXCEPT !.act = "AGENT_PREPARING", !.speaker = Agent, !.seated = TRUE,
                                  !.speech = 0, !.clock = NoTime, !.due = "none"]
            h == [[Grant(s) EXCEPT !.act = "HUMAN_READY_TO_START", !.speaker = a.speaker,
                                   !.seated = TRUE, !.speech = 0, !.clock = NoTime]
                  EXCEPT !.due = "waiting"]
<1>3. \A t \in {p, g, h} : t \in Records
  <2>1. "PREPARING" \in ActionStates /\ "AGENT_PREPARING" \in ActionStates
        /\ "HUMAN_READY_TO_START" \in ActionStates
    BY DEF ActionStates, HumanTurn, AgentTurn
  <2>2. /\ NoTime \in NoTime..Duration /\ Duration \in NoTime..Duration /\ 0 \in 0..MaxStarts
        /\ 0 \in Nat /\ Agent \in Users \cup {Agent, NoOne}
    BY Literals
  <2>3. Grant(s) \in Records
    BY <2>2, Updated DEF Grant
  <2>4. p \in Records
    BY <2>1, <2>2, <2>3, Updated
  <2>5. g \in Records
    BY ZenonT(60), <2>1, <2>2, <2>3, Updated
  <2>6. h \in Records
    <3>1. a.speaker \in Users \cup {Agent, NoOne}
      BY <1>2
    <3>2. [Grant(s) EXCEPT !.act = "HUMAN_READY_TO_START", !.speaker = a.speaker,
                           !.seated = TRUE, !.speech = 0, !.clock = NoTime] \in Records
      BY ZenonT(60), <2>1, <2>2, <2>3, <3>1, Updated
    <3>. QED BY <3>2, Updated
  <2>. QED BY <2>4, <2>5, <2>6
<1>4. \A t \in {p, g, h} :
         /\ t.of = s.of /\ t.op = s.op /\ t.issued = s.issued /\ t.status = s.status
         /\ t.ckpt = s.ckpt /\ t.idx = s.idx /\ t.failed = s.failed /\ t.from = s.from
         /\ t.start = s.start /\ t.timer = s.timer
         /\ t.left = Duration /\ t.used = 0 /\ t.cut = FALSE
  <2>1. LET t == p IN
        /\ t.of = s.of /\ t.op = s.op /\ t.issued = s.issued /\ t.status = s.status
        /\ t.ckpt = s.ckpt /\ t.idx = s.idx /\ t.failed = s.failed /\ t.from = s.from
        /\ t.start = s.start /\ t.timer = s.timer
        /\ t.left = Duration /\ t.used = 0 /\ t.cut = FALSE
    BY ZenonT(60) DEF Records, Grant
  <2>2. LET t == g IN
        /\ t.of = s.of /\ t.op = s.op /\ t.issued = s.issued /\ t.status = s.status
        /\ t.ckpt = s.ckpt /\ t.idx = s.idx /\ t.failed = s.failed /\ t.from = s.from
        /\ t.start = s.start /\ t.timer = s.timer
        /\ t.left = Duration /\ t.used = 0 /\ t.cut = FALSE
    BY ZenonT(60) DEF Records, Grant
  <2>3. LET t == h IN
        /\ t.of = s.of /\ t.op = s.op /\ t.issued = s.issued /\ t.status = s.status
        /\ t.ckpt = s.ckpt /\ t.idx = s.idx /\ t.failed = s.failed /\ t.from = s.from
        /\ t.start = s.start /\ t.timer = s.timer
        /\ t.left = Duration /\ t.used = 0 /\ t.cut = FALSE
    BY ZenonT(60) DEF Records, Grant
  <2>. HIDE DEF p, g, h
  <2>. QED BY <2>1, <2>2, <2>3
<1>5. /\ p.act = "PREPARING" /\ p.clock = Duration
      /\ g.act = "AGENT_PREPARING" /\ g.clock = NoTime
      /\ h.act = "HUMAN_READY_TO_START" /\ h.clock = NoTime
  BY ZenonT(60) DEF Records, Grant
<1>6. \A t \in {p, g, h} : Begins(s, t)
  <2>. SUFFICES ASSUME NEW t \in {p, g, h} PROVE Begins(s, t)
    OBVIOUS
  <2>1. /\ t \in Records
        /\ t.of = s.of /\ t.op = s.op /\ t.issued = s.issued /\ t.status = "RUNNING"
        /\ t.ckpt = s.ckpt /\ t.idx = s.idx /\ t.failed = 0 /\ t.from = s.from
        /\ t.start = s.start /\ t.timer = s.timer
        /\ t.left = Duration /\ t.used = 0
    BY ZenonT(60), <1>3, <1>4
  <2>2. \/ t.act = "PREPARING" /\ t.clock = Duration
        \/ t.act \in {"AGENT_PREPARING", "HUMAN_READY_TO_START"} /\ t.clock = NoTime
    BY ZenonT(60), <1>5
  <2>. HIDE DEF p, g, h
  <2>3. t.act \in Entered /\ t.act \in Running
    BY <2>2 DEF Running, Turns, HumanTurn, AgentTurn, Entered
  <2>4. ShapeOK(t) /\ FailedOK(t) /\ CkptOK(t) /\ TimerOK(t)
    BY <2>1, <2>3, <1>1 DEF ShapeOK, FailedOK, CkptOK, TimerOK, Starting, Held, Terminal
  <2>5. SpokenOK(t)
    BY <2>1, <2>2, Bounds DEF SpokenOK, NoTime
  <2>6. ClockOK(t)
    BY <2>1, <2>2, Bounds DEF ClockOK, NoTime, Speaking, Held
  <2>. QED BY <2>1, <2>3, <2>4, <2>5, <2>6, Bounds DEF Begins, Good
<1>7. \A t \in {p, g, h} : \A r : Retimed(t, r) => Begins(s, r)
  <2>. SUFFICES ASSUME NEW t \in {p, g, h}, NEW r, Retimed(t, r) PROVE Begins(s, r)
    OBVIOUS
  <2>. HIDE DEF p, g, h
  <2>1. t \in Records
    BY <1>3
  <2>2. /\ r.of = t.of /\ r.op = t.op /\ r.issued = t.issued /\ r.act = t.act
        /\ r.status = t.status /\ r.left = t.left /\ r.used = t.used
    BY <2>1, RetimedFields
  <2>. QED BY <1>6, <2>2, RetimedGood DEF Begins
<1>8. CASE a.kind = "PREPARATION"
  <2>1. Activate(s) = Arm(p, "preparation.elapsed", s.idx)
    BY <1>8 DEF Activate
  <2>2. Retimed(p, Arm(p, "preparation.elapsed", s.idx))
    BY <1>1, <1>3, ArmRetimes DEF TimerCommands
  <2>. QED BY <1>7, <2>1, <2>2
<1>9. CASE a.kind = "AGENT_SPEECH"
  BY <1>9, <1>6 DEF Activate
<1>10. CASE a.kind = "HUMAN_SPEECH"
  <2>1. Activate(s) = Arm(h, "human.start_timeout", Fresh)
    BY <1>10 DEF Activate, AwaitStart
  <2>2. Retimed(h, Arm(h, "human.start_timeout", Fresh))
    BY <1>3, Literals, ArmRetimes DEF TimerCommands, Fresh
  <2>. QED BY <1>7, <2>1, <2>2
<1>. QED BY <1>2, <1>8, <1>9, <1>10 DEF Kinds

\* The first action of a stage is the first of its stage, and the action after
\* one of another stage is the first of its own: stages come in order.
LEMMA NextStage ==
    ASSUME match.of \in Matches, NEW i \in 1..Len(Plan), i + 1 <= Len(Plan)
    PROVE  Plan[i + 1].stage = Plan[i].stage \/ FirstOfStage(i + 1) = i + 1
<1>1. \A j, k \in 1..Len(Plan) : j < k => Plan[j].stage <= Plan[k].stage
  BY MatchesAssumption DEF Plan
<1>2. \A j \in 1..Len(Plan) : Plan[j].stage \in Nat
  BY Bounds
<1>3. SUFFICES ASSUME Plan[i + 1].stage # Plan[i].stage PROVE FirstOfStage(i + 1) = i + 1
  OBVIOUS
<1>4. i \in Nat /\ 1 <= i /\ Len(Plan) \in Nat
  BY Bounds
<1>5. \A j \in 1..i : Plan[j].stage # Plan[i + 1].stage
  <2>1. SUFFICES ASSUME NEW j \in 1..i, Plan[j].stage = Plan[i + 1].stage PROVE FALSE
    OBVIOUS
  <2>2. Plan[i].stage <= Plan[i + 1].stage
    BY <1>1, <1>4
  <2>3. j = i \/ Plan[j].stage <= Plan[i].stage
    BY <1>1, <1>4
  <2>4. Plan[i].stage \in Nat /\ Plan[i + 1].stage \in Nat
    BY <1>2, <1>4
  <2>. QED BY <1>3, <2>1, <2>2, <2>3, <2>4
<1>6. \A j \in 1..(i + 1) : j # i + 1 => j \in 1..i
  BY <1>4
<1>7. i + 1 \in 1..(i + 1) /\ (i + 1) - 1 = i
  BY <1>4
<1>. QED BY <1>5, <1>6, <1>7 DEF FirstOfStage

\* The first action of a stage is one of the plan, at or before the action it is asked for.
LEMMA FirstFacts ==
    ASSUME match.of \in Matches, NEW i \in 1..Len(Plan)
    PROVE  FirstOfStage(i) \in 1..i /\ Plan[FirstOfStage(i)].stage = Plan[i].stage
<1>. DEFINE S == {j \in 1..i : Plan[j].stage = Plan[i].stage}
<1>1. i \in Nat /\ 1 <= i
  BY Bounds
<1>2. i \in S /\ S \in SUBSET Nat
  BY <1>1
<1>3. PICK j \in S : \A k \in S : <<k, j>> \notin OpToRel(<, Nat)
  BY <1>2, WFMin, NatLessThanWellFounded
<1>4. \A k \in S : ~(k < j)
  BY <1>2, <1>3 DEF OpToRel
<1>5. \A k \in 1..(j - 1) : Plan[k].stage # Plan[i].stage
  BY <1>1, <1>4
<1>. QED BY <1>5 DEF FirstOfStage

\* _enter_current_action: the checkpoint becomes the one of the action entered.
LEMMA EnterBegins ==
    ASSUME match.of \in Matches, fired \in Seq(Entries), Len(fired) <= MaxFired,
           NEW s, Entering(s),
           s.ckpt # 0 /\ s.idx <= Len(Plan) =>
               s.ckpt = Plan[s.idx].stage \/ FirstOfStage(s.idx) = s.idx
    PROVE  Begins(s, Enter(s))
<1>1. /\ s \in Records /\ s.status = "RUNNING" /\ s.failed = 0 /\ s.clock = NoTime
      /\ TimerOK(s) /\ (s.cut \/ s.used <= Duration)
  BY DEF Entering
<1>2. CASE s.idx > Len(Plan)
  <2>. DEFINE t == [s EXCEPT !.status = "FINISHED", !.act = "MATCH_FINISHED", !.speech = 0]
  <2>1. Enter(s) = t
    BY <1>2 DEF Enter
  <2>2. t \in Records
    <3>1. "FINISHED" \in Statuses /\ "MATCH_FINISHED" \in ActionStates /\ 0 \in 0..MaxStarts
      BY Literals DEF Terminal
    <3>. QED BY <1>1, <3>1, Updated
  <2>3. /\ t.of = s.of /\ t.op = s.op /\ t.issued = s.issued /\ t.status = "FINISHED"
        /\ t.act = "MATCH_FINISHED" /\ t.idx = s.idx /\ t.failed = s.failed /\ t.start = s.start
        /\ t.timer = s.timer /\ t.left = s.left /\ t.clock = s.clock /\ t.used = s.used
        /\ t.cut = s.cut
    BY ZenonT(60), <1>1 DEF Records
  <2>. HIDE DEF t
  <2>4. ShapeOK(t) /\ FailedOK(t) /\ CkptOK(t) /\ TimerOK(t)
    BY <1>1, <2>3 DEF ShapeOK, FailedOK, CkptOK, TimerOK, Starting, Held, Terminal
  <2>5. SpokenOK(t) /\ ClockOK(t)
    BY <1>1, <2>3 DEF SpokenOK, ClockOK, Held, Speaking
  <2>. QED BY <2>1, <2>2, <2>3, <2>4, <2>5 DEF Begins, Good
<1>3. CASE s.idx <= Len(Plan)
  <2>. DEFINE c == Checkpoint(s)
  <2>1. s.idx \in 1..Len(Plan)
    BY <1>1, <1>3, Fields
  <2>2. /\ c \in Records
        /\ c.of = s.of /\ c.op = s.op /\ c.issued = s.issued /\ c.status = "RUNNING"
        /\ c.idx = s.idx /\ c.failed = 0 /\ c.start = s.start /\ c.timer = s.timer
        /\ c.used = s.used /\ c.cut = s.cut
        /\ c.ckpt # 0 => c.ckpt = Plan[s.idx].stage
    <3>1. CASE FirstOfStage(s.idx) = s.idx
      <4>1. c = [s EXCEPT !.ckpt = Plan[s.idx].stage]
        BY <3>1 DEF Checkpoint
      <4>2. Plan[s.idx].stage \in {Plan[i].stage : i \in 1..Len(Plan)} \cup {0}
        BY <2>1
      <4>3. c \in Records
        BY ZenonT(60), <1>1, <4>1, <4>2, Updated
      <4>4. /\ c.of = s.of /\ c.op = s.op /\ c.issued = s.issued /\ c.status = s.status
            /\ c.idx = s.idx /\ c.failed = s.failed /\ c.start = s.start /\ c.timer = s.timer
            /\ c.used = s.used /\ c.cut = s.cut /\ c.ckpt = Plan[s.idx].stage
        BY ZenonT(60), <1>1, <4>1 DEF Records
      <4>. HIDE DEF c
      <4>. QED BY <1>1, <4>3, <4>4
    <3>2. CASE FirstOfStage(s.idx) # s.idx
      BY <1>1, <1>3, <3>2 DEF Checkpoint
    <3>. QED BY <3>1, <3>2
  <2>3. TimerOK(c)
    BY <1>1, <2>2 DEF TimerOK
  <2>4. CASE Plan[s.idx].host
    <3>. DEFINE h == [c EXCEPT !.act = "HOST_ANNOUNCING", !.speaker = NoOne,
                               !.seated = FALSE, !.speech = 0, !.clock = NoTime,
                               !.due = "none", !.left = NoTime]
                r == Arm(h, "host.elapsed", s.idx)
    <3>. HIDE DEF c
    <3>1. h \in Records
      <4>1. /\ "HOST_ANNOUNCING" \in ActionStates /\ 0 \in 0..MaxStarts
            /\ NoTime \in NoTime..Duration /\ NoOne \in Users \cup {Agent, NoOne}
        BY Literals DEF Running
      <4>. QED BY ZenonT(60), <2>2, <4>1, Updated
    <3>2. /\ h.of = c.of /\ h.op = c.op /\ h.issued = c.issued /\ h.status = c.status
          /\ h.act = "HOST_ANNOUNCING" /\ h.idx = c.idx /\ h.failed = c.failed
          /\ h.start = c.start /\ h.timer = c.timer /\ h.left = NoTime /\ h.clock = NoTime
          /\ h.used = c.used /\ h.cut = c.cut /\ h.ckpt = c.ckpt
      BY ZenonT(60), <2>2 DEF Records
    <3>3. Retimed(h, r)
      BY <2>1, <3>1, ArmRetimes DEF TimerCommands
    <3>4. Enter(s) = r
      BY <1>3, <2>1, <2>4, Fields, <1>1 DEF Enter, c
    <3>. HIDE DEF h
    <3>5. ShapeOK(h) /\ FailedOK(h) /\ CkptOK(h) /\ TimerOK(h)
      BY <1>3, <2>2, <2>3, <3>2
         DEF ShapeOK, FailedOK, CkptOK, TimerOK, Starting, Held, Terminal, Running
    <3>6. SpokenOK(h) /\ ClockOK(h)
      BY <1>1, <2>2, <3>2 DEF SpokenOK, ClockOK, Held, Speaking
    <3>7. Good(h)
      BY <3>1, <3>5, <3>6 DEF Good
    <3>8. Good(r)
      BY <3>3, <3>7, RetimedGood
    <3>9. /\ r.of = h.of /\ r.op = h.op /\ r.issued = h.issued /\ r.status = h.status
          /\ r.act = h.act /\ r.left = h.left
      BY <3>1, <3>3, RetimedFields
    <3>. QED BY <2>2, <3>2, <3>4, <3>8, <3>9 DEF Begins, Entered
  <2>5. CASE ~Plan[s.idx].host
    <3>1. Plan[s.idx].kind # "HOST_AUDIO"
      BY <2>1, <2>5, MatchesAssumption DEF Plan
    <3>2. Enter(s) = Activate(c)
      BY <1>3, <2>1, <2>5, <1>1, Fields DEF Enter
    <3>. HIDE DEF c
    <3>3. Begins(c, Activate(c))
      BY <1>3, <2>2, <2>3, <3>1, ActivateBegins
    <3>. QED BY <2>2, <3>2, <3>3 DEF Begins
  <2>. QED BY <2>4, <2>5
<1>. QED BY <1>1, <1>2, <1>3, Fields, Bounds

\* _advance_action, from the action a running match is in.
LEMMA AdvanceBegins ==
    ASSUME match.of \in Matches, fired \in Seq(Entries), Len(fired) <= MaxFired,
           NEW s \in Records, s.status = "RUNNING", s.failed = 0, TimerOK(s),
           s.cut \/ s.used <= Duration, s.idx <= Len(Plan),
           s.ckpt # 0 => s.ckpt = Plan[s.idx].stage
    PROVE  Begins(s, Advance(s))
<1>. DEFINE t == [s EXCEPT !.act = "ACTION_FINISHED", !.idx = @ + 1, !.speech = 0,
                           !.speaker = NoOne, !.clock = NoTime, !.due = "none", !.left = NoTime]
<1>1. t \in Records
  <2>1. /\ "ACTION_FINISHED" \in ActionStates /\ s.idx + 1 \in 1..(Len(Plan) + 1)
        /\ 0 \in 0..MaxStarts /\ NoOne \in Users \cup {Agent, NoOne} /\ NoTime \in NoTime..Duration
    BY SMTT(60), Literals, Fields, Bounds
  <2>. DEFINE n == s.idx + 1
  <2>2. t = [s EXCEPT !.act = "ACTION_FINISHED", !.idx = n, !.speech = 0,
                      !.speaker = NoOne, !.clock = NoTime, !.due = "none", !.left = NoTime]
    BY Zenon DEF Records
  <2>3. n \in 1..(Len(Plan) + 1)
    BY <2>1
  <2>. HIDE DEF n, t
  <2>. QED BY ZenonT(60), <2>1, <2>2, <2>3, Updated
<1>2. /\ t.of = s.of /\ t.op = s.op /\ t.issued = s.issued /\ t.status = s.status
      /\ t.idx = s.idx + 1 /\ t.failed = s.failed /\ t.start = s.start /\ t.timer = s.timer
      /\ t.clock = NoTime /\ t.used = s.used /\ t.cut = s.cut /\ t.ckpt = s.ckpt
  BY ZenonT(60) DEF Records
<1>3. Advance(s) = Enter(t)
  BY DEF Advance
<1>. HIDE DEF t
<1>4. Entering(t)
  BY <1>1, <1>2 DEF Entering, TimerOK
<1>5. s.idx \in 1..Len(Plan) /\ s.idx \in Nat
  BY Fields
<1>6. t.ckpt # 0 /\ t.idx <= Len(Plan) =>
          t.ckpt = Plan[t.idx].stage \/ FirstOfStage(t.idx) = t.idx
  BY <1>2, <1>5, NextStage
<1>7. Begins(t, Enter(t))
  BY <1>4, <1>6, EnterBegins
<1>. QED BY <1>2, <1>3, <1>7 DEF Begins

-----------------------------------------------------------------------------
(* One step: the plan of a match never changes, so what the handler makes of   *)
(* the match may be judged by the predicates of the match before.              *)

Holds == {"none", "automatic", "running", "countdown", "resuming", "held"}

\* The variables beside the match, f the queue, ca the cache and co the
\* operations that will resume the match.
QueueTypes(f, ca) == f \in Seq(Entries) /\ ca \in SUBSET (TimerCommands \X (1..Len(Plan)))
AbsenceTypes(off, gr, ov, aw, j) ==
    /\ off \in SUBSET Users /\ gr \in SUBSET off /\ ov \in SUBSET Users /\ aw \in SUBSET Users
    /\ j \in 0..MaxStarts
OperationTypes(w, co, d, h) ==
    w \in 0..MaxOps /\ co \in SUBSET (1..MaxOps) /\ d \in 0..MaxDisruptions /\ h \in Holds

HeldOK(s, h) ==
    h = "held" => /\ s.status \in Held \cup Terminal
                  /\ s.act # "RESUME_COUNTDOWN" /\ ~s.op.auto

\* The conjuncts of the invariant, in the terms the lemmas of the handlers use.
LEMMA Parts ==
    ASSUME IInv
    PROVE  /\ match.of \in Matches /\ match \in Records /\ Good(match)
           /\ QueueTypes(fired, cached) /\ AbsenceTypes(offline, grace, over, away, joining)
           /\ OperationTypes(worker, continuing, disruptions, hold)
           /\ PendingOK(match, worker) /\ HeldOK(match, hold) /\ QueueOK(match, fired)
           /\ fired \in Seq(Entries) /\ Len(fired) <= MaxFired
<1>1. TypeOK /\ ShapeOK(match) /\ PendingOK(match, worker) /\ FailedOK(match) /\ CkptOK(match)
      /\ SpokenOK(match) /\ ClockOK(match) /\ HoldOK /\ TimerOK(match) /\ QueueOK(match, fired)
  BY DEF IInv
<1>2. match \in Records
  BY Zenon, <1>1 DEF TypeOK, Records, Ops
<1>3. match.of \in Matches
  BY <1>2 DEF Records
<1>4. QueueTypes(fired, cached) /\ AbsenceTypes(offline, grace, over, away, joining)
      /\ OperationTypes(worker, continuing, disruptions, hold)
  BY <1>1 DEF TypeOK, QueueTypes, AbsenceTypes, OperationTypes, Holds
<1>5. HeldOK(match, hold)
  BY <1>1 DEF HoldOK, HeldOK
<1>6. fired \in Seq(Entries) /\ Len(fired) <= MaxFired
  BY <1>1, <1>4 DEF QueueTypes, QueueOK
<1>. QED BY <1>1, <1>2, <1>3, <1>4, <1>5, <1>6 DEF Good

\* The invariant of the next state, from what is known of its match. The plan and the
\* bounds are those of the same match, so that the predicates are not primed here.
LEMMA Lift ==
    ASSUME match'.of = match.of, Good(match'), PendingOK(match', worker'),
           HeldOK(match', hold'), QueueOK(match', fired'), QueueTypes(fired', cached'),
           AbsenceTypes(offline', grace', over', away', joining'),
           OperationTypes(worker', continuing', disruptions', hold')
    PROVE  IInv'
<1>1. Plan' = Plan /\ MaxStarts' = MaxStarts /\ MaxOps' = MaxOps
  BY DEF Plan, MaxStarts, MaxOps
<1>2. Entries' = Entries
  BY <1>1 DEF Entries
<1>3. match' \in Records /\ ShapeOK(match') /\ FailedOK(match') /\ CkptOK(match')
      /\ SpokenOK(match') /\ ClockOK(match') /\ TimerOK(match')
  BY DEF Good
<1>4. ShapeOK(match)' /\ FailedOK(match)' /\ CkptOK(match)'
  BY <1>1, <1>3 DEF ShapeOK, FailedOK, CkptOK, FirstOfStage
<1>5. SpokenOK(match)' /\ ClockOK(match)' /\ TimerOK(match)'
  BY <1>3 DEF SpokenOK, ClockOK, TimerOK
<1>6. PendingOK(match, worker)' /\ HoldOK' /\ QueueOK(match, fired)'
  BY <1>1 DEF PendingOK, HoldOK, HeldOK, QueueOK, ViewLeft
<1>7. TypeOK'
  <2>1. match' \in Records'
    <3>1. Ops' = Ops
      BY <1>1 DEF Ops
    <3>2. Records' = Records
      BY <1>1, <1>2, <3>1 DEF Records
    <3>. QED BY <1>3, <3>2
  <2>2. /\ fired' \in Seq(Entries') /\ cached' \in SUBSET (TimerCommands \X (1..Len(Plan')))
        /\ offline' \in SUBSET Users /\ grace' \in SUBSET offline' /\ over' \in SUBSET Users
        /\ away' \in SUBSET Users /\ joining' \in 0..MaxStarts' /\ worker' \in 0..MaxOps'
        /\ continuing' \in SUBSET (1..MaxOps') /\ disruptions' \in 0..MaxDisruptions
        /\ hold' \in {"none", "automatic", "running", "countdown", "resuming", "held"}
    BY <1>1, <1>2 DEF QueueTypes, AbsenceTypes, OperationTypes, Holds
  <2>. QED BY Zenon, <2>1, <2>2 DEF TypeOK, Records, Ops
<1>. QED BY <1>3, <1>4, <1>5, <1>6, <1>7 DEF IInv

\* The queued entries of a match that does not speak, or speaks as it did.
LEMMA QueueKept ==
    ASSUME match.of \in Matches, NEW s \in Records, NEW t \in Records, NEW q, q \in Seq(Entries),
           QueueOK(s, q), t.issued >= s.issued,
           t.act \in Speaking =>
               \/ t.start > s.issued
               \/ s.act \in Speaking /\ t.start = s.start /\ (ViewLeft(s) = 0 => ViewLeft(t) = 0)
    PROVE  QueueOK(t, q)
<1>1. \A i \in 1..Len(q) : q[i].start \in Nat
  <2>1. \A i \in 1..Len(q) : q[i] \in Entries
    OBVIOUS
  <2>2. \A e \in Entries : e.start \in 0..MaxStarts
    BY Zenon DEF Entries
  <2>3. \A n \in 0..MaxStarts : n \in Nat
    BY Bounds
  <2>. QED BY <2>1, <2>2, <2>3
<1>2. s.issued \in Nat /\ t.issued \in Nat /\ t.start \in Nat
  BY Fields
<1>. QED BY <1>1, <1>2 DEF QueueOK

\* A handler that only replaces the match.
LEMMA Replaced ==
    ASSUME IInv, match'.of = match.of, Good(match'), PendingOK(match', worker),
           HeldOK(match', hold), QueueOK(match', fired),
           UNCHANGED <<fired, cached, presence, operation, hold>>,
           disruptions' \in 0..MaxDisruptions
    PROVE  IInv'
<1>1. /\ fired' = fired /\ cached' = cached /\ offline' = offline /\ grace' = grace
      /\ over' = over /\ away' = away /\ joining' = joining /\ worker' = worker
      /\ continuing' = continuing /\ hold' = hold
  BY DEF presence, operation
<1>. QED BY <1>1, Parts, Lift DEF OperationTypes

\* The handlers of a running match that is not the target of an operation:
\* nothing holds it, and the operation it remembers is over.
LEMMA RunningStep ==
    ASSUME IInv, NEW t, match' = t, Good(t), t.of = match.of, t.op = match.op,
           match.op.status # "PENDING",
           match.status \in Starting \cup {"RUNNING"} \/ HeldOK(t, hold),
           QueueOK(t, fired),
           UNCHANGED <<fired, cached, presence, operation, hold>>,
           disruptions' \in 0..MaxDisruptions
    PROVE  IInv'
<1>1. PendingOK(t, worker)
  BY DEF PendingOK
<1>2. HeldOK(t, hold)
  BY Parts DEF HeldOK, Starting, Held, Terminal
<1>. QED BY <1>1, <1>2, Replaced

\* Disruptions are counted up to their bound.
LEMMA DisruptBounded ==
    ASSUME IInv, Disrupt
    PROVE  disruptions' \in 0..MaxDisruptions
<1>1. disruptions \in 0..MaxDisruptions
  BY Parts DEF OperationTypes
<1>. QED BY <1>1, BoundAssumption DEF Disrupt

-----------------------------------------------------------------------------
(* Holding the match *)

\* What makes a held match a good one.
LEMMA HeldGood ==
    ASSUME match.of \in Matches, NEW t \in Records, t.status \in Held,
           \/ t.act = "RECOVERY_REQUIRED"
           \/ t.status = "PAUSED" /\ t.act = "RESUME_COUNTDOWN" /\ t.failed = 0,
           t.from \in Running \cup {"NOT_STARTED"},
           t.from # "NOT_STARTED" => t.idx <= Len(Plan),
           t.from = "NOT_STARTED" => t.speech = 0,
           t.failed # 0 => t.status # "SYSTEM_RECOVERY",
           CkptOK(t), TimerOK(t),
           \/ t.cut
           \/ /\ t.used <= Duration
              /\ t.clock # NoTime => t.used + t.clock <= Duration
              /\ t.left # NoTime => t.used + t.left <= Duration
              /\ t.left = NoTime /\ t.from \in Turns => t.used = 0,
           t.from = "PREPARING" => t.left # NoTime
    PROVE  Good(t)
<1>1. ShapeOK(t) /\ FailedOK(t)
  BY DEF ShapeOK, FailedOK, Held, Starting, Terminal
<1>2. SpokenOK(t) /\ ClockOK(t)
  BY DEF SpokenOK, ClockOK, Held, Speaking
<1>. QED BY <1>1, <1>2 DEF Good

\* A match that runs, or is about to, is interrupted: its turn is to be
\* restored with what its clock shows.
LEMMA InterruptGood ==
    ASSUME match.of \in Matches, NEW s, Good(s), s.status \in Starting \cup {"RUNNING"},
           NEW u \in Records, u.status \in Held, u.act = "RECOVERY_REQUIRED",
           u.idx = s.idx, u.ckpt = s.ckpt, u.used = s.used, TimerOK(u),
           u.speech \in {0, s.speech}, u.failed # 0 => u.status # "SYSTEM_RECOVERY",
           u.from \in {s.act, "AGENT_PREPARING", "HUMAN_READY_TO_START"},
           s.act = "HOST_ANNOUNCING" => u.from = s.act,
           u.clock \in {NoTime, s.clock},
           IF s.act \in Finalizing THEN u.cut
             ELSE u.left = (IF s.clock # NoTime THEN s.clock ELSE s.left),
           s.cut => u.cut
    PROVE  Good(u)
<1>1. /\ s \in Records /\ ShapeOK(s) /\ CkptOK(s) /\ SpokenOK(s) /\ ClockOK(s)
  BY DEF Good
<1>2. \/ s.status \in Starting /\ s.act = "NOT_STARTED" /\ s.idx = 1 /\ s.ckpt = 0
         /\ s.speech = 0 /\ s.left = NoTime /\ s.clock = NoTime /\ s.used = 0
      \/ s.status = "RUNNING" /\ s.act \in Running /\ s.idx <= Len(Plan)
  BY <1>1 DEF ShapeOK
<1>3. u.from \in Running \cup {"NOT_STARTED"} /\ u.idx <= Len(Plan)
      /\ (u.from = "NOT_STARTED" => u.speech = 0)
  BY <1>2, Bounds DEF Running, Turns, HumanTurn, AgentTurn
<1>4. CkptOK(u)
  BY <1>1, <1>2 DEF CkptOK, Held, Terminal, Starting
<1>5. u.from = "PREPARING" => u.left # NoTime
  BY <1>1, <1>2 DEF ClockOK, Finalizing
<1>6. \/ u.cut
      \/ /\ u.used <= Duration
         /\ u.clock # NoTime => u.used + u.clock <= Duration
         /\ u.left # NoTime => u.used + u.left <= Duration
         /\ u.left = NoTime /\ u.from \in Turns => u.used = 0
  <2>1. SUFFICES ASSUME ~u.cut PROVE /\ u.used <= Duration
                                     /\ u.clock # NoTime => u.used + u.clock <= Duration
                                     /\ u.left # NoTime => u.used + u.left <= Duration
                                     /\ u.left = NoTime /\ u.from \in Turns => u.used = 0
    OBVIOUS
  <2>2. ~s.cut /\ s.act \notin Finalizing
        /\ u.left = (IF s.clock # NoTime THEN s.clock ELSE s.left)
    BY <2>1
  <2>3. CASE s.status \in Starting
    BY <1>2, <2>2, <2>3, Bounds DEF Starting
  <2>4. CASE s.status = "RUNNING"
    <3>1. s.act \in Running
      BY <1>2, <2>4 DEF Starting
    <3>2. /\ s.used <= Duration
          /\ s.clock # NoTime => s.used + s.clock <= Duration
          /\ s.clock = NoTime /\ s.left # NoTime => s.used + s.left <= Duration
          /\ s.left = NoTime /\ s.act \in {"HUMAN_READY_TO_START", "AGENT_PREPARING"} => s.used = 0
      BY <1>1, <2>2, <2>4 DEF SpokenOK
    <3>3. u.left = NoTime /\ u.from \in Turns => s.act \in {"HUMAN_READY_TO_START", "AGENT_PREPARING"}
          /\ s.left = NoTime
      BY <1>1, <2>2, <2>4, <3>1
         DEF ClockOK, Running, Turns, HumanTurn, AgentTurn, Speaking, Finalizing
    <3>. QED BY <2>2, <3>2, <3>3
  <2>. QED BY <2>3, <2>4
<1>. QED BY <1>3, <1>4, <1>5, <1>6, HeldGood

\* The match s is held as t.
Stops(s, t) ==
    /\ Good(t) /\ t.of = s.of /\ t.issued = s.issued /\ t.act = "RECOVERY_REQUIRED"
    /\ t.status \in Held

\* The timer is cancelled last.
LEMMA StopsRetimed ==
    ASSUME match.of \in Matches, NEW s, NEW u, Stops(s, u)
    PROVE  Stops(s, Cancel(u)) /\ Cancel(u).op = u.op /\ Cancel(u).status = u.status
<1>1. u \in Records /\ Good(u)
  BY DEF Stops, Good
<1>2. Retimed(u, Cancel(u))
  BY <1>1, CancelRetimes
<1>. QED BY <1>1, <1>2, RetimedGood, RetimedFields DEF Stops

\* _system_error
LEMMA SystemErrorStops ==
    ASSUME match.of \in Matches, NEW s, Good(s), s.status \in Starting \cup {"RUNNING"}
    PROVE  Stops(s, SystemError(s)) /\ SystemError(s).op = s.op
<1>. DEFINE f == Restart(s, s.speaker)
            l == ViewLeft(s)
            b == Cut(s)
            u == [s EXCEPT !.status = "ERROR", !.act = "RECOVERY_REQUIRED",
                     !.from = f, !.left = l, !.clock = NoTime, !.due = "none", !.cut = b]
<1>1. s \in Records /\ TimerOK(s)
  BY DEF Good
<1>2. f \in {s.act, "AGENT_PREPARING", "HUMAN_READY_TO_START"}
      /\ (s.act = "HOST_ANNOUNCING" => f = s.act)
  BY DEF Restart
<1>3. f \in ActionStates \cup {"none"}
  BY <1>1, <1>2, Fields, Literals DEF Running, Turns, HumanTurn, AgentTurn
<1>4. l \in NoTime..Duration
  BY <1>1, Literals DEF ViewLeft, Records
<1>5. b \in BOOLEAN /\ (s.act \in Finalizing => b) /\ (s.cut => b)
  BY <1>1, Fields DEF Cut
<1>6. s.act \notin Finalizing => l = (IF s.clock # NoTime THEN s.clock ELSE s.left)
  BY DEF ViewLeft
<1>7. SystemError(s) = Cancel(u)
  BY DEF SystemError
<1>. HIDE DEF f, l, b
<1>8. u \in Records
  <2>1. "ERROR" \in Statuses /\ "RECOVERY_REQUIRED" \in ActionStates /\ NoTime \in NoTime..Duration
    BY Literals DEF Held
  <2>. QED BY ZenonT(60), <1>1, <1>3, <1>4, <1>5, <2>1, Updated
<1>9. /\ u.of = s.of /\ u.op = s.op /\ u.issued = s.issued /\ u.status = "ERROR"
      /\ u.act = "RECOVERY_REQUIRED" /\ u.from = f /\ u.left = l /\ u.clock = NoTime
      /\ u.idx = s.idx /\ u.ckpt = s.ckpt /\ u.used = s.used /\ u.speech = s.speech
      /\ u.start = s.start /\ u.timer = s.timer /\ u.failed = s.failed
  BY Zenon, <1>1 DEF Records
<1>10. u.cut = b
  BY Zenon, <1>1 DEF Records
<1>. HIDE DEF u
<1>11. TimerOK(u)
  BY <1>1, <1>9 DEF TimerOK
<1>12. Good(u)
  BY <1>2, <1>5, <1>6, <1>8, <1>9, <1>10, <1>11, InterruptGood DEF Held
<1>13. Stops(s, u)
  BY <1>9, <1>12 DEF Stops, Held
<1>. QED BY <1>7, <1>9, <1>13, StopsRetimed

\* _asr_failed: the recording is kept, whether the match runs or is held.
LEMMA AsrFailStops ==
    ASSUME match.of \in Matches, NEW s, Good(s), s.status \in {"RUNNING", "PAUSED", "ERROR"}
    PROVE  /\ Stops(s, AsrFail(s)) /\ AsrFail(s).status = "ERROR"
           /\ AsrFail(s).op.auto = s.op.auto
           /\ s.op.status # "PENDING" => AsrFail(s).op = s.op
           /\ s.op.kind = "asr.retry" => AsrFail(s).op.status # "PENDING"
<1>. DEFINE retrying == s.op.kind = "asr.retry" /\ s.op.status = "PENDING"
            f == IF s.status = "RUNNING" THEN s.act ELSE s.from
            l == ViewLeft(s)
            b == Cut(s)
            o == [s.op EXCEPT !.status = IF retrying THEN "FAILED" ELSE @]
            u == [s EXCEPT !.status = "ERROR", !.act = "RECOVERY_REQUIRED", !.from = f,
                           !.failed = s.speech, !.left = l, !.cut = b, !.op = o,
                           !.clock = NoTime, !.due = "none"]
<1>1. s \in Records /\ ShapeOK(s) /\ CkptOK(s) /\ SpokenOK(s) /\ ClockOK(s) /\ TimerOK(s)
  BY DEF Good
<1>2. f \in ActionStates \cup {"none"} /\ s.speech \in 0..MaxStarts /\ s.op \in Ops
  BY <1>1 DEF Records
<1>3. l \in NoTime..Duration
  BY <1>1, Literals DEF ViewLeft, Records
<1>4. b \in BOOLEAN /\ (s.act \in Finalizing => b) /\ (s.cut => b)
  BY <1>1, Fields DEF Cut
<1>5. s.act \notin Finalizing => l = (IF s.clock # NoTime THEN s.clock ELSE s.left)
  BY DEF ViewLeft
<1>6. o \in Ops /\ o.auto = s.op.auto /\ (s.op.status # "PENDING" => o = s.op)
      /\ (s.op.kind = "asr.retry" => o.status # "PENDING")
  <2>1. CASE retrying
    <3>1. o = [s.op EXCEPT !.status = "FAILED"]
      BY <2>1
    <3>. QED BY Zenon, <1>2, <2>1, <3>1 DEF Ops
  <2>2. CASE ~retrying
    <3>1. o = s.op
      BY Zenon, <1>2, <2>2 DEF Ops
    <3>. QED BY <1>2, <2>2, <3>1
  <2>. QED BY <2>1, <2>2
<1>7. AsrFail(s) = Cancel(u)
  BY Zenon, <1>1 DEF AsrFail, Records
<1>. HIDE DEF f, l, b, o
<1>8. u \in Records
  <2>1. "ERROR" \in Statuses /\ "RECOVERY_REQUIRED" \in ActionStates /\ NoTime \in NoTime..Duration
    BY Literals DEF Held
  <2>. QED BY ZenonT(60), <1>1, <1>2, <1>3, <1>4, <1>6, <2>1, Updated
<1>9. /\ u.of = s.of /\ u.op = o /\ u.issued = s.issued /\ u.status = "ERROR"
      /\ u.act = "RECOVERY_REQUIRED" /\ u.from = f /\ u.left = l /\ u.clock = NoTime
      /\ u.idx = s.idx /\ u.ckpt = s.ckpt /\ u.used = s.used /\ u.speech = s.speech
      /\ u.start = s.start /\ u.timer = s.timer
  BY Zenon, <1>1 DEF Records
<1>10. u.cut = b
  BY Zenon, <1>1 DEF Records
<1>. HIDE DEF u
<1>11. TimerOK(u)
  BY <1>1, <1>9 DEF TimerOK
<1>12. Good(u)
  <2>1. CASE s.status = "RUNNING"
    <3>1. f = s.act
      BY <2>1 DEF f
    <3>. QED BY <1>4, <1>5, <1>8, <1>9, <1>10, <1>11, <2>1, <3>1, InterruptGood DEF Held
  <2>2. CASE s.status # "RUNNING"
    <3>1. f = s.from /\ s.status \in Held /\ s.act \notin Finalizing
      BY <1>1, <2>2 DEF f, Held, ShapeOK, Finalizing
    <3>2. u.from \in Running \cup {"NOT_STARTED"} /\ (u.from # "NOT_STARTED" => u.idx <= Len(Plan))
          /\ (u.from = "NOT_STARTED" => u.speech = 0)
      BY <1>1, <1>9, <3>1 DEF ShapeOK
    <3>3. CkptOK(u)
      BY <1>1, <1>9, <3>1 DEF CkptOK, Held, Terminal
    <3>4. u.from = "PREPARING" => u.left # NoTime
      BY <1>1, <1>5, <1>9, <3>1 DEF ClockOK
    <3>5. \/ u.cut
          \/ /\ u.used <= Duration
             /\ u.clock # NoTime => u.used + u.clock <= Duration
             /\ u.left # NoTime => u.used + u.left <= Duration
             /\ u.left = NoTime /\ u.from \in Turns => u.used = 0
      BY <1>1, <1>4, <1>5, <1>9, <1>10, <3>1 DEF SpokenOK
    <3>. QED BY <1>8, <1>9, <1>11, <3>2, <3>3, <3>4, <3>5, HeldGood DEF Held
  <2>. QED BY <2>1, <2>2
<1>13. Stops(s, u)
  BY <1>9, <1>12 DEF Stops, Held
<1>. QED BY <1>6, <1>7, <1>9, <1>13, StopsRetimed

\* _paused_recovery
LEMMA PausedRecoveryStops ==
    ASSUME match.of \in Matches, NEW s \in Records, TimerOK(s),
           NEW f \in Running \cup {"NOT_STARTED"}, f # "NOT_STARTED" => s.idx <= Len(Plan),
           s.ckpt # 0 /\ s.idx <= Len(Plan) =>
               \/ s.ckpt = Plan[s.idx].stage
               \/ f = "NOT_STARTED" /\ FirstOfStage(s.idx) = s.idx,
           \/ s.cut
           \/ /\ s.used <= Duration
              /\ s.left # NoTime => s.used + s.left <= Duration
              /\ s.left = NoTime /\ f \in Turns => s.used = 0,
           f = "PREPARING" => s.left # NoTime
    PROVE  LET t == PausedRecovery(s, f)
           IN  /\ Stops(s, t) /\ t.op = s.op /\ t.status = "PAUSED" /\ t.from = f /\ t.speech = 0
               /\ t.idx = s.idx
<1>. DEFINE u == [s EXCEPT !.status = "PAUSED", !.act = "RECOVERY_REQUIRED", !.from = f,
                           !.clock = NoTime, !.due = "none", !.speech = 0, !.start = 0]
<1>1. u \in Records
  <2>1. /\ "PAUSED" \in Statuses /\ "RECOVERY_REQUIRED" \in ActionStates /\ NoTime \in NoTime..Duration
        /\ f \in ActionStates \cup {"none"} /\ 0 \in 0..MaxStarts
    BY Literals DEF Held
  <2>. QED BY ZenonT(60), <2>1, Updated
<1>2. /\ u.of = s.of /\ u.op = s.op /\ u.issued = s.issued /\ u.status = "PAUSED"
      /\ u.act = "RECOVERY_REQUIRED" /\ u.from = f /\ u.left = s.left /\ u.clock = NoTime
      /\ u.idx = s.idx /\ u.ckpt = s.ckpt /\ u.used = s.used /\ u.speech = 0
      /\ u.start = 0 /\ u.timer = s.timer /\ u.cut = s.cut
  BY Zenon DEF Records
<1>3. PausedRecovery(s, f) = Cancel(u)
  BY DEF PausedRecovery
<1>. HIDE DEF u
<1>4. TimerOK(u)
  BY <1>2, Fields DEF TimerOK
<1>5. CkptOK(u)
  BY <1>2 DEF CkptOK, Held
<1>6. Good(u)
  BY <1>1, <1>2, <1>4, <1>5, HeldGood DEF Held
<1>7. Stops(s, u)
  BY <1>2, <1>6 DEF Stops, Held
<1>8. Cancel(u).from = u.from /\ Cancel(u).speech = u.speech /\ Cancel(u).idx = u.idx
  BY <1>1, CancelRetimes, RetimedFields
<1>. QED BY ZenonT(60), <1>2, <1>3, <1>7, <1>8, StopsRetimed

\* _match_resume: the countdown of a held match without a failed recognition.
LEMMA CountdownGood ==
    ASSUME match.of \in Matches, fired \in Seq(Entries), Len(fired) <= MaxFired,
           NEW s, Good(s), s.status \in Held, s.failed = 0
    PROVE  LET t == Countdown(s)
           IN  /\ Good(t) /\ t.of = s.of /\ t.op = s.op /\ t.issued = s.issued
               /\ t.status = "PAUSED" /\ t.act = "RESUME_COUNTDOWN"
<1>. DEFINE u == [s EXCEPT !.status = "PAUSED", !.act = "RESUME_COUNTDOWN", !.offUser = NoOne]
<1>1. s \in Records /\ ShapeOK(s) /\ CkptOK(s) /\ SpokenOK(s) /\ ClockOK(s) /\ TimerOK(s)
  BY DEF Good
<1>2. u \in Records
  <2>1. /\ "PAUSED" \in Statuses /\ "RESUME_COUNTDOWN" \in ActionStates
        /\ NoOne \in Users \cup {NoOne}
    BY Literals DEF Held
  <2>. QED BY <1>1, <2>1, Updated
<1>3. /\ u.of = s.of /\ u.op = s.op /\ u.issued = s.issued /\ u.status = "PAUSED"
      /\ u.act = "RESUME_COUNTDOWN" /\ u.from = s.from /\ u.left = s.left /\ u.clock = s.clock
      /\ u.idx = s.idx /\ u.ckpt = s.ckpt /\ u.used = s.used /\ u.speech = s.speech
      /\ u.start = s.start /\ u.timer = s.timer /\ u.cut = s.cut /\ u.failed = s.failed
  BY ZenonT(60), <1>1 DEF Records
<1>4. Countdown(s) = Arm(u, "resume.elapsed", Fresh)
  BY DEF Countdown
<1>. HIDE DEF u
<1>5. TimerOK(u) /\ CkptOK(u)
  BY <1>1, <1>3 DEF TimerOK, CkptOK, Held, Terminal
<1>6. /\ u.from \in Running \cup {"NOT_STARTED"}
      /\ u.from # "NOT_STARTED" => u.idx <= Len(Plan)
      /\ u.from = "NOT_STARTED" => u.speech = 0
  BY <1>1, <1>3 DEF ShapeOK
<1>7. s.act \notin Finalizing
  BY <1>1 DEF ShapeOK, Held, Finalizing
<1>8. Good(u)
  BY <1>1, <1>2, <1>3, <1>5, <1>6, <1>7, HeldGood DEF Held, SpokenOK, ClockOK
<1>9. Retimed(u, Countdown(s))
  BY <1>2, <1>4, Literals, ArmRetimes DEF TimerCommands, Fresh
<1>. QED BY <1>2, <1>3, <1>8, <1>9, RetimedFields, RetimedGood

\* _resume_elapsed: the turn that was held runs again, or its action is entered.
LEMMA ResumedGood ==
    ASSUME match.of \in Matches, fired \in Seq(Entries), Len(fired) <= MaxFired,
           NEW s, Good(s), s.status = "PAUSED", s.act = "RESUME_COUNTDOWN"
    PROVE  LET t == Resumed(s)
           IN  /\ Good(t) /\ t.of = s.of /\ t.op = s.op /\ t.issued = s.issued
               /\ t.act \notin Speaking /\ t.act # "RESUME_COUNTDOWN"
<1>. DEFINE to == CASE s.from \in HumanTurn -> "HUMAN_READY_TO_START"
                    [] s.from \in AgentTurn -> "AGENT_PREPARING"
                    [] OTHER -> s.from
            sp == IF s.from \in AgentTurn \ {"AGENT_PREPARING"} THEN 0 ELSE s.speech
            r == [s EXCEPT !.status = "RUNNING", !.act = to, !.from = "none",
                           !.clock = NoTime, !.due = "none", !.speech = sp]
<1>1. /\ s \in Records /\ ShapeOK(s) /\ CkptOK(s) /\ SpokenOK(s) /\ ClockOK(s) /\ TimerOK(s)
      /\ FailedOK(s)
  BY DEF Good
<1>2. /\ s.from \in Running \cup {"NOT_STARTED"}
      /\ s.from # "NOT_STARTED" => s.idx <= Len(Plan)
  BY <1>1 DEF ShapeOK, Held
<1>3. /\ to \in Entered \cup {"NOT_STARTED"}
      /\ to = "NOT_STARTED" <=> s.from = "NOT_STARTED"
      /\ to = "PREPARING" => s.from = "PREPARING"
      /\ to \in {"HUMAN_READY_TO_START", "AGENT_PREPARING"} => s.from \in Turns
  BY <1>2 DEF Entered, Running, Turns, HumanTurn, AgentTurn
<1>4. sp \in 0..MaxStarts
  BY <1>1, Literals DEF Records
<1>5. s.failed = 0
  BY <1>1 DEF FailedOK
<1>6. /\ s.cut \/ s.used <= Duration
      /\ s.left # NoTime => s.cut \/ s.used + s.left <= Duration
      /\ s.left = NoTime /\ s.from \in Turns => s.cut \/ s.used = 0
  BY <1>1 DEF SpokenOK, Held, Finalizing
<1>7. Resumed(s) = CASE to = "NOT_STARTED" -> Enter(r)
                     [] to = "HUMAN_READY_TO_START" -> AwaitStart(r)
                     [] to = "HOST_ANNOUNCING" -> Arm(r, "host.elapsed", Fresh)
                     [] to = "PREPARING" /\ r.left # NoTime ->
                           Arm([r EXCEPT !.clock = r.left], "preparation.elapsed", Fresh)
                     [] OTHER -> r
  BY Zenon, <1>1 DEF Resumed, Records
<1>. HIDE DEF to, sp
<1>8. r \in Records
  <2>1. /\ "RUNNING" \in Statuses /\ to \in ActionStates /\ "none" \in ActionStates \cup {"none"}
        /\ NoTime \in NoTime..Duration
    BY <1>3, Literals DEF Entered, Running, Turns, HumanTurn, AgentTurn
  <2>. QED BY <1>1, <1>4, <2>1, Updated
<1>9. /\ r.of = s.of /\ r.op = s.op /\ r.issued = s.issued /\ r.status = "RUNNING"
      /\ r.act = to /\ r.left = s.left /\ r.clock = NoTime
      /\ r.idx = s.idx /\ r.ckpt = s.ckpt /\ r.used = s.used
      /\ r.start = s.start /\ r.timer = s.timer /\ r.cut = s.cut /\ r.failed = s.failed
  BY Zenon, <1>1 DEF Records
<1>. HIDE DEF r
<1>10. TimerOK(r)
  BY <1>1, <1>9 DEF TimerOK
<1>11. CASE to = "NOT_STARTED"
  <2>1. Entering(r)
    BY <1>5, <1>6, <1>8, <1>9, <1>10 DEF Entering
  <2>2. r.ckpt # 0 /\ r.idx <= Len(Plan) =>
            r.ckpt = Plan[r.idx].stage \/ FirstOfStage(r.idx) = r.idx
    BY <1>1, <1>9 DEF CkptOK, Terminal
  <2>3. Begins(r, Enter(r))
    BY <2>1, <2>2, EnterBegins
  <2>. QED BY <1>7, <1>9, <1>11, <2>3 DEF Begins, Entered, Speaking
<1>12. CASE to # "NOT_STARTED"
  <2>. DEFINE p == [r EXCEPT !.clock = r.left]
              h == [r EXCEPT !.due = "waiting"]
              x == CASE to = "PREPARING" -> p
                     [] to = "HUMAN_READY_TO_START" -> h
                     [] OTHER -> r
  <2>1. to = "PREPARING" => r.left # NoTime
    BY <1>1, <1>3, <1>9 DEF ClockOK, Held
  <2>2. p \in Records /\ h \in Records
    <3>1. r.left \in NoTime..Duration
      BY <1>8 DEF Records
    <3>. QED BY <1>8, <3>1, Updated
  <2>3. /\ p.of = r.of /\ p.op = r.op /\ p.issued = r.issued /\ p.status = r.status
        /\ p.act = r.act /\ p.left = r.left /\ p.idx = r.idx /\ p.ckpt = r.ckpt /\ p.used = r.used
        /\ p.start = r.start /\ p.timer = r.timer /\ p.cut = r.cut /\ p.failed = r.failed
        /\ p.clock = r.left
    BY Zenon, <1>8 DEF Records
  <2>4. /\ h.of = r.of /\ h.op = r.op /\ h.issued = r.issued /\ h.status = r.status
        /\ h.act = r.act /\ h.left = r.left /\ h.idx = r.idx /\ h.ckpt = r.ckpt /\ h.used = r.used
        /\ h.start = r.start /\ h.timer = r.timer /\ h.cut = r.cut /\ h.failed = r.failed
        /\ h.clock = r.clock
    BY Zenon, <1>8 DEF Records
  <2>5. Resumed(s) = x \/ Retimed(x, Resumed(s))
    <3>1. CASE to = "HUMAN_READY_TO_START"
      <4>1. x = h /\ Resumed(s) = Arm(h, "human.start_timeout", Fresh)
        BY <1>7, <3>1 DEF AwaitStart
      <4>. HIDE DEF x, h
      <4>. QED BY <2>2, <4>1, Literals, ArmRetimes DEF TimerCommands, Fresh
    <3>2. CASE to = "HOST_ANNOUNCING"
      <4>1. x = r /\ Resumed(s) = Arm(r, "host.elapsed", Fresh)
        BY <1>7, <3>2
      <4>. HIDE DEF x
      <4>. QED BY <1>8, <4>1, Literals, ArmRetimes DEF TimerCommands, Fresh
    <3>3. CASE to = "PREPARING"
      <4>1. x = p /\ Resumed(s) = Arm(p, "preparation.elapsed", Fresh)
        BY <1>7, <2>1, <3>3
      <4>. HIDE DEF x, p
      <4>. QED BY <2>2, <4>1, Literals, ArmRetimes DEF TimerCommands, Fresh
    <3>4. CASE to = "AGENT_PREPARING"
      BY <1>7, <3>4
    <3>. QED BY <1>3, <1>12, <3>1, <3>2, <3>3, <3>4 DEF Entered
  <2>. HIDE DEF p, h
  <2>6. /\ x \in Records
        /\ x.of = s.of /\ x.op = s.op /\ x.issued = s.issued /\ x.status = "RUNNING"
        /\ x.act = to /\ x.left = s.left /\ x.idx = s.idx /\ x.ckpt = s.ckpt /\ x.used = s.used
        /\ x.start = s.start /\ x.timer = s.timer /\ x.cut = s.cut /\ x.failed = 0
        /\ x.clock = IF to = "PREPARING" THEN s.left ELSE NoTime
    <3>1. CASE to = "PREPARING"
      <4>1. x = p
        BY <3>1
      <4>. HIDE DEF x
      <4>. QED BY <1>5, <1>9, <2>2, <2>3, <3>1, <4>1
    <3>2. CASE to = "HUMAN_READY_TO_START"
      <4>1. x = h
        BY <3>2
      <4>. HIDE DEF x
      <4>. QED BY <1>5, <1>9, <2>2, <2>4, <3>2, <4>1
    <3>3. CASE to \notin {"PREPARING", "HUMAN_READY_TO_START"}
      <4>1. x = r
        BY <3>3
      <4>. HIDE DEF x
      <4>. QED BY <1>5, <1>8, <1>9, <3>3, <4>1
    <3>. QED BY <3>1, <3>2, <3>3
  <2>. HIDE DEF x
  <2>7. to \in Entered /\ to \in Running /\ s.idx <= Len(Plan)
    BY <1>2, <1>3, <1>12 DEF Entered, Running, Turns, HumanTurn, AgentTurn
  <2>8. ShapeOK(x) /\ FailedOK(x) /\ TimerOK(x)
    BY <1>1, <2>6, <2>7 DEF ShapeOK, FailedOK, TimerOK, Starting, Held, Terminal
  <2>9. CkptOK(x)
    BY <1>1, <1>3, <1>12, <2>6, <2>7 DEF CkptOK, Terminal
  <2>10. SpokenOK(x)
    BY <1>3, <1>6, <1>9, <2>1, <2>6 DEF SpokenOK, Held
  <2>11. ClockOK(x)
    BY <1>9, <2>1, <2>6, <2>7 DEF ClockOK, Entered, Speaking, Held
  <2>12. Good(x)
    BY <2>6, <2>8, <2>9, <2>10, <2>11 DEF Good
  <2>. QED BY <2>5, <2>6, <2>7, <2>12, RetimedGood, RetimedFields DEF Entered, Speaking
<1>. QED BY <1>11, <1>12

-----------------------------------------------------------------------------
(* Speeches *)

\* The turn starts again with a full budget, with nobody speaking in it.
LEMMA ResetTurnFacts ==
    ASSUME match.of \in Matches, NEW s \in Records, TimerOK(s), s.idx <= Len(Plan)
    PROVE  LET t == ResetTurn(s)
           IN  /\ t \in Records /\ TimerOK(t) /\ t.of = s.of /\ t.op = s.op /\ t.issued = s.issued
               /\ t.act \in {"AGENT_PREPARING", "HUMAN_READY_TO_START"}
               /\ t.status = s.status /\ t.idx = s.idx /\ t.ckpt = s.ckpt /\ t.failed = s.failed
               /\ t.from = s.from /\ t.left = Duration /\ t.clock = NoTime /\ t.used = 0
<1>. DEFINE a == IF Plan[s.idx].kind = "AGENT_SPEECH" THEN "AGENT_PREPARING"
                                                       ELSE "HUMAN_READY_TO_START"
            sp == Plan[s.idx].speaker
            u == [Grant(s) EXCEPT !.act = a, !.speech = 0, !.start = 0, !.speaker = sp,
                                  !.seated = TRUE, !.clock = NoTime, !.due = "none"]
<1>1. s.idx \in 1..Len(Plan)
  BY Fields
<1>2. sp \in Users \cup {Agent, NoOne}
  BY <1>1, Bounds
<1>3. a \in {"AGENT_PREPARING", "HUMAN_READY_TO_START"}
  OBVIOUS
<1>4. ResetTurn(s) = Cancel(u)
  BY DEF ResetTurn
<1>. HIDE DEF a, sp
<1>5. u \in Records
  <2>1. /\ a \in ActionStates /\ 0 \in 0..MaxStarts /\ NoTime \in NoTime..Duration
        /\ Duration \in NoTime..Duration /\ 0 \in Nat
    BY <1>3, Literals DEF Running, Turns, HumanTurn, AgentTurn
  <2>2. Grant(s) \in Records
    BY <2>1, Updated DEF Grant
  <2>. QED BY ZenonT(60), <1>2, <2>1, <2>2, Updated
<1>6. /\ u.of = s.of /\ u.op = s.op /\ u.issued = s.issued /\ u.act = a
      /\ u.status = s.status /\ u.idx = s.idx /\ u.ckpt = s.ckpt /\ u.failed = s.failed
      /\ u.from = s.from /\ u.left = Duration /\ u.clock = NoTime /\ u.used = 0
      /\ u.start = 0 /\ u.timer = s.timer
  BY Zenon DEF Records, Grant
<1>. HIDE DEF u
<1>7. Retimed(u, ResetTurn(s))
  BY <1>4, <1>5, CancelRetimes
<1>8. TimerOK(ResetTurn(s))
  BY SMTT(60), <1>5, <1>6, <1>7, RetimedFields, Fields DEF TimerOK
<1>. QED BY <1>3, <1>5, <1>6, <1>7, <1>8, RetimedFields

\* _finish_speech and _finish_agent_speech, of a running match.
LEMMA FinishGood ==
    ASSUME match.of \in Matches, NEW s, Good(s), s.status = "RUNNING",
           NEW f \in Finalizing
    PROVE  LET t == Finish(s, f)
           IN  /\ Good(t) /\ t.of = s.of /\ t.op = s.op /\ t.issued = s.issued /\ t.act = f
               /\ t.status = "RUNNING"
<1>. DEFINE u == [s EXCEPT !.act = f, !.start = 0, !.clock = NoTime]
<1>1. s \in Records /\ ShapeOK(s) /\ CkptOK(s) /\ SpokenOK(s) /\ ClockOK(s) /\ TimerOK(s)
      /\ FailedOK(s)
  BY DEF Good
<1>2. f \in Running /\ f \notin Speaking
  BY DEF Finalizing, Running, Turns, HumanTurn, AgentTurn, Speaking
<1>3. u \in Records
  BY <1>1, <1>2, Literals, Updated
<1>4. /\ u.of = s.of /\ u.op = s.op /\ u.issued = s.issued /\ u.act = f
      /\ u.status = s.status /\ u.idx = s.idx /\ u.ckpt = s.ckpt /\ u.failed = s.failed
      /\ u.from = s.from /\ u.left = s.left /\ u.clock = NoTime /\ u.used = s.used
      /\ u.start = 0 /\ u.timer = s.timer /\ u.cut = s.cut
  BY Zenon, <1>1 DEF Records
<1>5. Finish(s, f) = Cancel(u)
  BY DEF Finish
<1>. HIDE DEF u
<1>6. ShapeOK(u) /\ FailedOK(u) /\ CkptOK(u)
  BY <1>1, <1>2, <1>4 DEF ShapeOK, FailedOK, CkptOK, Starting, Held, Terminal
<1>7. SpokenOK(u)
  BY <1>1, <1>4 DEF SpokenOK, Finalizing, Held
<1>8. ClockOK(u)
  BY <1>4 DEF ClockOK, Finalizing, Speaking, Held
<1>9. TimerOK(u)
  BY <1>1, <1>4, Fields DEF TimerOK
<1>10. Good(u)
  BY <1>3, <1>6, <1>7, <1>8, <1>9 DEF Good
<1>. QED BY <1>3, <1>4, <1>5, <1>10, CancelRetimes, RetimedFields, RetimedGood

\* A speech starts in a turn that waits for it: what was left of the budget is
\* on the clock, and the token of this start is new.
LEMMA StartSpeechGood ==
    ASSUME match.of \in Matches, fired \in Seq(Entries), Len(fired) <= MaxFired,
           NEW s, Good(s), s.status = "RUNNING", s.issued < MaxStarts,
           s.act \in {"HUMAN_READY_TO_START", "AGENT_PREPARING"},
           NEW id \in 0..MaxStarts, NEW sp \in Speaking, NEW f \in Finalizing
    PROVE  LET t == StartSpeech(s, id, sp, f)
           IN  /\ Good(t) /\ t.of = s.of /\ t.op = s.op /\ t.issued = s.issued + 1
               /\ t.act \in Speaking => t.start = s.issued + 1
               /\ t.status = "RUNNING"
<1>. DEFINE granted == IF s.left = NoTime THEN Duration ELSE s.left
            token == s.issued + 1
            u == [s EXCEPT !.act = sp, !.speech = id, !.start = token, !.issued = token,
                           !.due = "none", !.seated = TRUE, !.left = granted, !.clock = granted]
            begun == Arm(u, "speech.deadline", Fresh)
<1>1. s \in Records /\ ShapeOK(s) /\ CkptOK(s) /\ SpokenOK(s) /\ ClockOK(s) /\ TimerOK(s)
      /\ FailedOK(s)
  BY DEF Good
<1>2. granted \in NoTime..Duration /\ granted # NoTime /\ granted \in Int
  BY <1>1, Fields, Literals, Bounds DEF NoTime, Records
<1>3. token \in 0..MaxStarts /\ token \in Nat /\ token # 0
  BY SMTT(60), <1>1, Fields, Bounds
<1>4. sp \in Running /\ sp \in ActionStates
  BY Literals DEF Speaking, Running, Turns, HumanTurn, AgentTurn
<1>5. s.cut \/ s.used + granted <= Duration
  BY SMTT(60), <1>1, Fields, Bounds DEF SpokenOK, ClockOK, Finalizing, Speaking, Held
<1>6. StartSpeech(s, id, sp, f) =
          IF granted = 0 /\ sp = "HUMAN_SPEAKING" THEN Finish(begun, f) ELSE begun
  BY Zenon DEF StartSpeech
<1>7. s.start <= token /\ s.timer.start <= token /\ (s.timer = NoTimer \/ s.timer.cmd \in TimerCommands)
  BY <1>1, Fields DEF TimerOK
<1>8. token = s.issued + 1
  OBVIOUS
<1>. HIDE DEF granted, token
<1>9. u \in Records
  BY ZenonT(60), <1>1, <1>2, <1>3, <1>4, Updated
<1>10. /\ u.of = s.of /\ u.op = s.op /\ u.issued = token /\ u.act = sp
       /\ u.status = s.status /\ u.idx = s.idx /\ u.ckpt = s.ckpt /\ u.failed = s.failed
       /\ u.from = s.from /\ u.left = granted /\ u.clock = granted /\ u.used = s.used
       /\ u.start = token /\ u.timer = s.timer /\ u.cut = s.cut
  BY Zenon, <1>1 DEF Records
<1>. HIDE DEF u
<1>11. ShapeOK(u) /\ FailedOK(u) /\ CkptOK(u)
  BY <1>1, <1>4, <1>10 DEF ShapeOK, FailedOK, CkptOK, Starting, Held, Terminal
<1>12. SpokenOK(u)
  BY <1>1, <1>2, <1>5, <1>10, Bounds DEF SpokenOK, Held, Speaking
<1>13. ClockOK(u) /\ TimerOK(u)
  BY <1>1, <1>2, <1>3, <1>7, <1>10 DEF ClockOK, TimerOK, Held
<1>14. Good(u)
  BY <1>9, <1>11, <1>12, <1>13 DEF Good
<1>15. Retimed(u, begun)
  BY <1>9, Literals, ArmRetimes DEF TimerCommands, Fresh
<1>16. /\ Good(begun) /\ begun.of = s.of /\ begun.op = s.op /\ begun.issued = token
       /\ begun.act = sp /\ begun.start = token /\ begun.status = "RUNNING"
  BY <1>9, <1>10, <1>14, <1>15, RetimedFields, RetimedGood
<1>. HIDE DEF begun
<1>17. LET t == Finish(begun, f)
       IN  /\ Good(t) /\ t.of = begun.of /\ t.op = begun.op /\ t.issued = begun.issued /\ t.act = f
           /\ t.status = "RUNNING"
  BY <1>16, FinishGood
<1>18. f \notin Speaking
  BY DEF Finalizing, Speaking
<1>. QED BY <1>6, <1>8, <1>16, <1>17, <1>18

\* The clock of a speech stops where it is.
LEMMA StopClockGood ==
    ASSUME match.of \in Matches, NEW s, Good(s), s.status = "RUNNING", s.act \in Speaking
    PROVE  LET t == StopClock(s)
           IN  /\ Good(t) /\ t.of = s.of /\ t.op = s.op /\ t.issued = s.issued /\ t.act = s.act
               /\ t.status = "RUNNING" /\ t.start = s.start /\ ViewLeft(t) = ViewLeft(s)
<1>. DEFINE l == ViewLeft(s)
            u == [s EXCEPT !.left = l, !.clock = NoTime]
<1>1. s \in Records /\ ShapeOK(s) /\ CkptOK(s) /\ SpokenOK(s) /\ ClockOK(s) /\ TimerOK(s)
      /\ FailedOK(s)
  BY DEF Good
<1>2. l \in NoTime..Duration /\ l = (IF s.clock # NoTime THEN s.clock ELSE s.left) /\ l # NoTime
  BY <1>1, Literals DEF ViewLeft, Records, Speaking, Finalizing, ClockOK
<1>3. StopClock(s) = Cancel(u)
  BY DEF StopClock
<1>. HIDE DEF l
<1>4. u \in Records
  BY <1>1, <1>2, Literals, Updated
<1>5. /\ u.of = s.of /\ u.op = s.op /\ u.issued = s.issued /\ u.act = s.act
      /\ u.status = s.status /\ u.idx = s.idx /\ u.ckpt = s.ckpt /\ u.failed = s.failed
      /\ u.from = s.from /\ u.left = l /\ u.clock = NoTime /\ u.used = s.used
      /\ u.start = s.start /\ u.timer = s.timer /\ u.cut = s.cut /\ u.speech = s.speech
  BY Zenon, <1>1 DEF Records
<1>. HIDE DEF u
<1>6. ShapeOK(u) /\ FailedOK(u) /\ CkptOK(u)
  BY <1>1, <1>5 DEF ShapeOK, FailedOK, CkptOK, Starting, Held, Terminal
<1>7. SpokenOK(u)
  BY <1>1, <1>2, <1>5 DEF SpokenOK, Held, Speaking, Finalizing
<1>8. ClockOK(u) /\ TimerOK(u)
  BY <1>1, <1>2, <1>5 DEF ClockOK, TimerOK, Held
<1>9. Good(u)
  BY <1>4, <1>6, <1>7, <1>8 DEF Good
<1>10. LET t == StopClock(s)
       IN  /\ Good(t) /\ t.of = u.of /\ t.op = u.op /\ t.issued = u.issued /\ t.act = u.act
           /\ t.status = u.status /\ t.start = u.start /\ t.left = u.left /\ t.clock = u.clock
  BY <1>3, <1>4, <1>9, CancelRetimes, RetimedFields, RetimedGood
<1>11. ViewLeft(StopClock(s)) = l
  BY <1>5, <1>10 DEF ViewLeft, Speaking, Finalizing
<1>. QED BY <1>5, <1>10, <1>11 DEF l

-----------------------------------------------------------------------------
(* The start, the host and the speakers *)

\* As RunningStep, for a handler after which nobody speaks.
LEMMA QuietStep ==
    ASSUME IInv, NEW t, match' = t, Good(t), t.of = match.of, t.op = match.op,
           match.op.status # "PENDING", t.issued = match.issued, t.act \notin Speaking,
           match.status \in Starting \cup {"RUNNING"} \/ HeldOK(t, hold),
           UNCHANGED <<fired, cached, presence, operation, hold>>,
           disruptions' \in 0..MaxDisruptions
    PROVE  IInv'
<1>1. t \in Records /\ match \in Records /\ match.of \in Matches /\ fired \in Seq(Entries)
      /\ QueueOK(match, fired)
  BY Parts DEF Good
<1>2. t.issued >= match.issued
  BY <1>1, Fields
<1>3. QueueOK(t, fired)
  BY <1>1, <1>2, QueueKept
<1>. QED BY <1>3, RunningStep

\* Where the match is while an action runs in it.
LEMMA RunningFacts ==
    ASSUME IInv, match.act \in Running
    PROVE  /\ match.status = "RUNNING" /\ match.idx <= Len(Plan) /\ match.failed = 0
           /\ match.ckpt # 0 => match.ckpt = Plan[match.idx].stage
           /\ match.cut \/ match.used <= Duration
           /\ TimerOK(match)
<1>1. /\ match \in Records /\ ShapeOK(match) /\ FailedOK(match) /\ CkptOK(match)
      /\ SpokenOK(match) /\ TimerOK(match) /\ match.of \in Matches
  BY Parts DEF Good
<1>2. match.status = "RUNNING" /\ match.idx <= Len(Plan)
  BY <1>1, Fields DEF ShapeOK, Statuses, Starting, Held, Terminal, Running, Turns, HumanTurn, AgentTurn
<1>. QED BY <1>1, <1>2 DEF FailedOK, CkptOK, SpokenOK, Held, Terminal

\* A command that is not for a pending operation finds none.
LEMMA NonePending ==
    ASSUME NEW cmd, Admits(cmd), cmd \notin DuringOperation
    PROVE  match.op.status # "PENDING" /\ match.status \notin Terminal
BY DEF Admits, Admitted

\* runtime.start arms the countdown of the start.
LEMMA RuntimeStartStep ==
    ASSUME IInv, RuntimeStart
    PROVE  IInv'
<1>. DEFINE u == [match EXCEPT !.status = "START_COUNTDOWN"]
            t == Arm(u, "countdown.elapsed", 1)
<1>1. /\ match \in Records /\ Good(match) /\ match.of \in Matches
      /\ fired \in Seq(Entries) /\ Len(fired) <= MaxFired
  BY Parts
<1>2. /\ match.status = "START_PENDING_RUNTIME" /\ match' = t /\ match.op.status # "PENDING"
      /\ UNCHANGED <<fired, cached, presence, operation, disruptions, hold>>
  BY NonePending DEF RuntimeStart, Becomes, DuringOperation
<1>3. u \in Records
  BY <1>1, Literals, Updated DEF Starting
<1>4. /\ u.of = match.of /\ u.op = match.op /\ u.issued = match.issued /\ u.act = match.act
      /\ u.status = "START_COUNTDOWN" /\ u.idx = match.idx /\ u.ckpt = match.ckpt
      /\ u.failed = match.failed /\ u.from = match.from /\ u.left = match.left
      /\ u.clock = match.clock /\ u.used = match.used /\ u.start = match.start
      /\ u.timer = match.timer /\ u.cut = match.cut /\ u.speech = match.speech
  BY Zenon, <1>1 DEF Records
<1>5. Good(u)
  <2>. HIDE DEF u
  <2>1. ShapeOK(u) /\ FailedOK(u) /\ CkptOK(u)
    BY <1>1, <1>2, <1>4 DEF Good, ShapeOK, FailedOK, CkptOK, Starting, Held, Terminal
  <2>2. SpokenOK(u) /\ ClockOK(u) /\ TimerOK(u)
    BY <1>1, <1>2, <1>4 DEF Good, SpokenOK, ClockOK, TimerOK, Held, Starting
  <2>. QED BY <1>3, <2>1, <2>2 DEF Good
<1>. HIDE DEF u
<1>6. Retimed(u, t)
  <2>1. 1 \in 0..Len(Plan)
    BY <1>1, Bounds
  <2>. QED BY <1>1, <1>3, <2>1, ArmRetimes DEF TimerCommands
<1>7. t.of = u.of /\ t.op = u.op /\ t.issued = u.issued /\ t.act = u.act /\ Good(t)
  BY <1>1, <1>3, <1>5, <1>6, RetimedFields, RetimedGood
<1>8. match.act \notin Speaking
  BY <1>1, <1>2 DEF Good, ShapeOK, Starting, Speaking
<1>9. disruptions' \in 0..MaxDisruptions
  BY <1>2, Parts DEF OperationTypes
<1>. HIDE DEF t
<1>. QED BY <1>2, <1>4, <1>7, <1>8, <1>9, QuietStep DEF Starting

\* The action that follows, or the turn the host announced, begins.
LEMMA BeginsStep ==
    ASSUME IInv, NEW t, Begins(match, t), match' = t, match.op.status # "PENDING",
           match.status \in Starting \cup {"RUNNING"},
           UNCHANGED <<fired, cached, presence, operation, disruptions, hold>>
    PROVE  IInv'
<1>1. disruptions' \in 0..MaxDisruptions
  BY Parts DEF OperationTypes
<1>. QED BY <1>1, QuietStep DEF Begins, Entered, Speaking

\* The current action ends and the next one is entered.
LEMMA AdvanceStep ==
    ASSUME IInv, match.act \in Running, match.op.status # "PENDING",
           Becomes(Advance(match))
    PROVE  IInv'
<1>1. Begins(match, Advance(match))
  BY Parts, RunningFacts, AdvanceBegins
<1>. QED BY <1>1, RunningFacts, BeginsStep DEF Becomes

\* host.finished begins the turn that was announced, or the next action.
LEMMA HostFinishedStep ==
    ASSUME IInv, HostFinished
    PROVE  IInv'
<1>1. match.act \in Running /\ match.op.status # "PENDING" /\ Becomes(HostDone(match))
  BY NonePending DEF HostFinished, DuringOperation, Running
<1>2. CASE Plan[match.idx].kind = "HOST_AUDIO"
  BY <1>1, <1>2, AdvanceStep DEF HostDone
<1>3. CASE Plan[match.idx].kind # "HOST_AUDIO"
  <2>1. Begins(match, Activate(match))
    BY <1>1, <1>3, Parts, RunningFacts, ActivateBegins
  <2>. QED BY <1>1, <1>3, <2>1, RunningFacts, BeginsStep DEF Becomes, HostDone
<1>. QED BY <1>2, <1>3

\* As QuietStep, for a handler that holds the match.
LEMMA StopsStep ==
    ASSUME IInv, NEW t, Stops(match, t), match' = t, t.op = match.op,
           match.op.status # "PENDING",
           match.status \in Starting \cup {"RUNNING"} \/ HeldOK(t, hold),
           UNCHANGED <<fired, cached, presence, operation, hold>>,
           disruptions' \in 0..MaxDisruptions
    PROVE  IInv'
BY QuietStep DEF Stops, Speaking

\* The host, an agent's turn or a timer command fails.
LEMMA SystemErrorStep ==
    ASSUME IInv, match.act \in Running, match.op.status # "PENDING",
           FailsTo(SystemError(match))
    PROVE  IInv'
<1>1. Stops(match, SystemError(match)) /\ SystemError(match).op = match.op
  BY Parts, RunningFacts, SystemErrorStops
<1>. QED BY <1>1, RunningFacts, DisruptBounded, StopsStep DEF FailsTo

\* The host fails: system.error.
LEMMA HostFailedStep ==
    ASSUME IInv, HostFailed
    PROVE  IInv'
BY NonePending, SystemErrorStep DEF HostFailed, DuringOperation, Running

\* The agent of the turn fails: system.error.
LEMMA AgentFailedStep ==
    ASSUME IInv, AgentFailed
    PROVE  IInv'
BY NonePending, SystemErrorStep DEF AgentFailed, DuringOperation, Running, Turns

\* A speech starts with a token no queued deadline carries.
LEMMA StartStep ==
    ASSUME IInv, match.act \in {"HUMAN_READY_TO_START", "AGENT_PREPARING"},
           match.issued < MaxStarts, match.op.status # "PENDING",
           NEW id \in 0..MaxStarts, NEW sp \in Speaking, NEW f \in Finalizing,
           Becomes(StartSpeech(match, id, sp, f))
    PROVE  IInv'
<1>. DEFINE t == StartSpeech(match, id, sp, f)
<1>1. match.act \in Running
  BY DEF Running, Turns, HumanTurn, AgentTurn
<1>2. /\ Good(t) /\ t.of = match.of /\ t.op = match.op /\ t.issued = match.issued + 1
      /\ t.act \in Speaking => t.start = match.issued + 1
  BY <1>1, Parts, RunningFacts, StartSpeechGood
<1>3. match' = t /\ UNCHANGED <<fired, cached, presence, operation, disruptions, hold>>
  BY DEF Becomes
<1>. HIDE DEF t
<1>4. match \in Records /\ match.of \in Matches /\ fired \in Seq(Entries) /\ QueueOK(match, fired)
      /\ t \in Records /\ disruptions \in 0..MaxDisruptions
  BY <1>2, Parts DEF Good, OperationTypes
<1>5. QueueOK(t, fired)
  BY <1>2, <1>4, QueueKept, Fields
<1>. QED BY <1>1, <1>2, <1>3, <1>4, <1>5, RunningFacts, RunningStep

\* speech.start gives the speech a new id, or goes on with the one it has.
LEMMA SpeechStartStep ==
    ASSUME IInv, SpeechStart
    PROVE  IInv'
<1>. DEFINE id == IF match.speech = 0 THEN match.issued + 1 ELSE match.speech
<1>1. /\ match.act = "HUMAN_READY_TO_START" /\ match.issued < MaxStarts
      /\ match.op.status # "PENDING"
      /\ Becomes(StartSpeech(match, id, "HUMAN_SPEAKING", "SPEECH_FINALIZING"))
  BY NonePending DEF SpeechStart, DuringOperation
<1>2. id \in 0..MaxStarts
  <2>1. match.speech \in 0..MaxStarts
    BY Parts DEF Records
  <2>. QED BY <1>1, <2>1, Parts, Fields, Bounds
<1>. HIDE DEF id
<1>. QED BY <1>1, <1>2, StartStep DEF Speaking, Finalizing

\* agent.playback_started starts the agent's speech.
LEMMA PlaybackStartedStep ==
    ASSUME IInv, PlaybackStarted
    PROVE  IInv'
<1>. DEFINE id == match.issued + 1
<1>1. /\ match.act = "AGENT_PREPARING" /\ match.issued < MaxStarts
      /\ match.op.status # "PENDING"
      /\ Becomes(StartSpeech(match, id, "AGENT_SPEAKING", "AGENT_FINALIZING"))
  BY NonePending DEF PlaybackStarted, DuringOperation
<1>2. id \in 0..MaxStarts
  BY <1>1, Parts, Fields, Bounds
<1>. HIDE DEF id
<1>. QED BY <1>1, <1>2, StartStep DEF Speaking, Finalizing

\* _finish_speech and _finish_agent_speech.
LEMMA FinishStep ==
    ASSUME IInv, match.act \in Running, match.op.status # "PENDING",
           NEW f \in Finalizing, Becomes(Finish(match, f))
    PROVE  IInv'
<1>. DEFINE t == Finish(match, f)
<1>1. Good(t) /\ t.of = match.of /\ t.op = match.op /\ t.issued = match.issued /\ t.act = f
  BY Parts, RunningFacts, FinishGood
<1>2. match' = t /\ UNCHANGED <<fired, cached, presence, operation, disruptions, hold>>
  BY DEF Becomes
<1>3. f \notin Speaking /\ disruptions \in 0..MaxDisruptions
  BY Parts DEF Finalizing, Speaking, OperationTypes
<1>. HIDE DEF t
<1>. QED BY <1>1, <1>2, <1>3, RunningFacts, QuietStep

\* A speech is ended, or what it was finalized for is there.
LEMMA SpeechEndSteps ==
    ASSUME IInv, SpeechFinish \/ PlaybackFinished \/ AsrFinalized \/ AgentFinalized
    PROVE  IInv'
<1>1. CASE SpeechFinish
  BY <1>1, NonePending, FinishStep
     DEF SpeechFinish, DuringOperation, Running, Turns, HumanTurn, Finalizing
<1>2. CASE PlaybackFinished
  BY <1>2, NonePending, FinishStep
     DEF PlaybackFinished, DuringOperation, Running, Turns, AgentTurn, Finalizing
<1>3. CASE AsrFinalized
  <2>1. match.act = "SPEECH_FINALIZING" /\ match.act \in Running /\ Becomes(Advance(match))
    BY <1>3 DEF AsrFinalized, Running, Turns, HumanTurn
  <2>2. match.op.status # "PENDING"
    BY <2>1, Parts, RunningFacts DEF PendingOK
  <2>. QED BY <2>1, <2>2, AdvanceStep
<1>4. CASE AgentFinalized
  BY <1>4, NonePending, AdvanceStep
     DEF AgentFinalized, DuringOperation, Running, Turns, AgentTurn
<1>. QED BY <1>1, <1>2, <1>3, <1>4

\* Recognition fails only where no operation is pending: a pending skip has
\* retired the speech, and a pending retry has put the match in ERROR.
LEMMA AsrFailStep ==
    ASSUME IInv, match.status \in {"RUNNING", "PAUSED"}, match.speech # 0,
           FailsTo(AsrFail(match))
    PROVE  IInv'
<1>1. match.op.status # "PENDING"
  BY Parts DEF PendingOK
<1>2. Stops(match, AsrFail(match)) /\ AsrFail(match).op = match.op
  BY <1>1, Parts, AsrFailStops
<1>3. HeldOK(AsrFail(match), hold)
  BY <1>2, Parts DEF HeldOK, Stops
<1>. QED BY <1>1, <1>2, <1>3, DisruptBounded, StopsStep DEF FailsTo

\* asr.failed, of a running match or of one that was paused.
LEMMA AsrFailedStep ==
    ASSUME IInv, AsrFailed
    PROVE  IInv'
BY AsrFailStep DEF AsrFailed

-----------------------------------------------------------------------------
(* Pause, resume and termination *)

\* A step after which the match is t; the other variables stay in their types.
LEMMA MatchStep ==
    ASSUME IInv, NEW t, match' = t, Good(t), t.of = match.of, PendingOK(t, worker'),
           HeldOK(t, hold'), t.issued = match.issued,
           \/ t.act \notin Speaking
           \/ t.act = match.act /\ t.start = match.start /\ ViewLeft(t) = ViewLeft(match),
           fired' = fired, cached' = cached,
           AbsenceTypes(offline', grace', over', away', joining'),
           OperationTypes(worker', continuing', disruptions', hold')
    PROVE  IInv'
<1>1. /\ t \in Records /\ match \in Records /\ match.of \in Matches /\ fired \in Seq(Entries)
      /\ QueueOK(match, fired) /\ QueueTypes(fired, cached)
  BY Parts DEF Good
<1>2. t.issued >= match.issued
  BY <1>1, Fields
<1>3. QueueOK(t, fired)
  BY <1>1, <1>2, QueueKept
<1>. QED BY <1>1, <1>3, Lift

\* Only the operation the match remembers is replaced.
LEMMA NewOpGood ==
    ASSUME match.of \in Matches, NEW s, Good(s), NEW o \in Ops, NEW t, t = [s EXCEPT !.op = o]
    PROVE  /\ Good(t) /\ t.op = o /\ ViewLeft(t) = ViewLeft(s)
           /\ t.of = s.of /\ t.issued = s.issued /\ t.act = s.act /\ t.status = s.status
           /\ t.idx = s.idx /\ t.ckpt = s.ckpt /\ t.failed = s.failed /\ t.from = s.from
           /\ t.start = s.start /\ t.speech = s.speech
<1>1. /\ s \in Records /\ ShapeOK(s) /\ CkptOK(s) /\ SpokenOK(s) /\ ClockOK(s) /\ TimerOK(s)
      /\ FailedOK(s)
  BY DEF Good
<1>2. t \in Records
  BY <1>1, Updated
<1>3. /\ t.of = s.of /\ t.op = o /\ t.issued = s.issued /\ t.act = s.act
      /\ t.status = s.status /\ t.idx = s.idx /\ t.ckpt = s.ckpt /\ t.failed = s.failed
      /\ t.from = s.from /\ t.left = s.left /\ t.clock = s.clock /\ t.used = s.used
      /\ t.start = s.start /\ t.timer = s.timer /\ t.cut = s.cut /\ t.speech = s.speech
  BY Zenon, <1>1 DEF Records
<1>4. ShapeOK(t) /\ FailedOK(t) /\ CkptOK(t)
  BY <1>1, <1>3 DEF ShapeOK, FailedOK, CkptOK
<1>5. SpokenOK(t) /\ ClockOK(t) /\ TimerOK(t)
  BY <1>1, <1>3 DEF SpokenOK, ClockOK, TimerOK
<1>. QED BY <1>2, <1>3, <1>4, <1>5 DEF Good, ViewLeft

\* The operation a record remembers has its type.
LEMMA OpFacts ==
    ASSUME NEW s \in Records
    PROVE  s.op \in Ops
BY DEF Records

\* match.pause: a running match is held with what its clock shows; of a held one
\* only the operation changes, which will no longer resume it.
LEMMA PauseStep ==
    ASSUME IInv, Pause
    PROVE  IInv'
<1>1. /\ match \in Records /\ match.of \in Matches /\ Good(match) /\ match.op \in Ops
      /\ ShapeOK(match) /\ PendingOK(match, worker)
      /\ AbsenceTypes(offline, grace, over, away, joining)
      /\ OperationTypes(worker, continuing, disruptions, hold)
  BY Parts, OpFacts DEF Good
<1>2. /\ hold' = CASE match.status = "RUNNING" -> "running"
                   [] match.act = "RESUME_COUNTDOWN" ->
                         IF hold = "automatic" THEN "countdown" ELSE "resuming"
                   [] OTHER -> "held"
      /\ fired' = fired /\ cached' = cached /\ offline' = offline /\ grace' = grace
      /\ over' = over /\ away' = away /\ joining' = joining /\ worker' = worker
      /\ continuing' = continuing /\ disruptions' = disruptions
  BY DEF Pause, presence, operation
<1>3. hold' \in Holds /\ (hold' = "held" => match.status # "RUNNING" /\ match.act # "RESUME_COUNTDOWN")
  BY <1>2 DEF Holds
<1>4. OperationTypes(worker', continuing', disruptions', hold')
      /\ AbsenceTypes(offline', grace', over', away', joining')
  BY <1>1, <1>2, <1>3 DEF OperationTypes
<1>5. CASE match.status = "RUNNING"
  <2>. DEFINE l == IF match.clock # NoTime THEN match.clock ELSE match.left
              b == Cut(match)
              f == match.act
              u == [match EXCEPT !.status = "PAUSED", !.act = "RECOVERY_REQUIRED",
                      !.from = f, !.due = "none", !.clock = NoTime, !.left = l, !.cut = b]
  <2>1. match' = Cancel(u)
    <3>1. match' = Cancel([match EXCEPT !.status = "PAUSED", !.act = "RECOVERY_REQUIRED",
                              !.from = match.act, !.due = "none", !.clock = NoTime,
                              !.left = IF match.clock # NoTime THEN match.clock ELSE @,
                              !.cut = Cut(match)])
      BY <1>5 DEF Pause
    <3>. QED BY Zenon, <1>1, <3>1 DEF Records
  <2>2. l \in NoTime..Duration /\ f \in ActionStates \cup {"none"}
    BY <1>1 DEF Records
  <2>3. b \in BOOLEAN /\ (match.act \in Finalizing => b) /\ (match.cut => b)
    BY <1>1, Fields DEF Cut
  <2>. HIDE DEF l, b, f
  <2>4. u \in Records
    <3>1. "PAUSED" \in Statuses /\ "RECOVERY_REQUIRED" \in ActionStates /\ NoTime \in NoTime..Duration
      BY <1>1, Literals DEF Held
    <3>. QED BY ZenonT(60), <1>1, <2>2, <2>3, <3>1, Updated
  <2>5. /\ u.of = match.of /\ u.op = match.op /\ u.issued = match.issued /\ u.status = "PAUSED"
        /\ u.act = "RECOVERY_REQUIRED" /\ u.from = f /\ u.left = l /\ u.clock = NoTime
        /\ u.idx = match.idx /\ u.ckpt = match.ckpt /\ u.used = match.used
        /\ u.speech = match.speech /\ u.start = match.start /\ u.timer = match.timer
        /\ u.failed = match.failed
    BY Zenon, <1>1 DEF Records
  <2>6. u.cut = b
    BY Zenon, <1>1 DEF Records
  <2>. HIDE DEF u
  <2>7. TimerOK(u)
    BY <1>1, <2>5 DEF Good, TimerOK
  <2>8. Good(u)
    BY <1>1, <1>5, <2>3, <2>4, <2>5, <2>6, <2>7, InterruptGood DEF Held, l, f
  <2>9. Stops(match, u)
    BY <2>5, <2>8 DEF Stops, Held
  <2>10. Stops(match, Cancel(u)) /\ Cancel(u).op = match.op
    BY <1>1, <2>5, <2>9, StopsRetimed
  <2>11. PendingOK(match', worker') /\ HeldOK(match', hold')
    BY <1>1, <1>2, <1>3, <1>5, <2>1, <2>10 DEF PendingOK, HeldOK
  <2>. QED BY <1>2, <1>4, <2>1, <2>10, <2>11, MatchStep DEF Stops, Speaking
<1>6. CASE match.status # "RUNNING"
  <2>1. PICK o \in Ops :
            /\ match' = [match EXCEPT !.op = o]
            /\ o.auto = FALSE /\ o.kind = match.op.kind /\ o.gen = match.op.gen /\ o.idx = match.op.idx
            /\ o.status = "PENDING" => match.op.status = "PENDING"
    <3>1. CASE match' = [match EXCEPT !.op.status = "CANCELLED", !.op.auto = FALSE]
      <4>. DEFINE o == [match.op EXCEPT !.status = "CANCELLED", !.auto = FALSE]
      <4>1. match' = [match EXCEPT !.op = o]
        BY Zenon, <1>1, <3>1 DEF Records
      <4>2. o \in Ops /\ o.auto = FALSE /\ o.kind = match.op.kind /\ o.gen = match.op.gen
            /\ o.idx = match.op.idx /\ o.status = "CANCELLED"
        BY Zenon, <1>1 DEF Ops
      <4>. QED BY <4>1, <4>2
    <3>2. CASE match' = [match EXCEPT !.op.auto = FALSE]
      <4>. DEFINE o == [match.op EXCEPT !.auto = FALSE]
      <4>1. match' = [match EXCEPT !.op = o]
        BY Zenon, <1>1, <3>2 DEF Records
      <4>2. o \in Ops /\ o.auto = FALSE /\ o.kind = match.op.kind /\ o.gen = match.op.gen
            /\ o.idx = match.op.idx /\ o.status = match.op.status
        BY Zenon, <1>1 DEF Ops
      <4>. QED BY <4>1, <4>2
    <3>. QED BY <1>6, <3>1, <3>2 DEF Pause
  <2>2. match.status \in Held
    BY <1>6 DEF Pause, Held
  <2>. DEFINE t == match'
  <2>3. /\ Good(t) /\ t.op = o /\ ViewLeft(t) = ViewLeft(match)
        /\ t.of = match.of /\ t.issued = match.issued /\ t.act = match.act /\ t.status = match.status
        /\ t.idx = match.idx /\ t.failed = match.failed /\ t.from = match.from
        /\ t.start = match.start /\ t.speech = match.speech
    BY <1>1, <2>1, NewOpGood
  <2>4. PendingOK(t, worker')
    BY <1>1, <1>2, <2>1, <2>3 DEF PendingOK
  <2>5. HeldOK(t, hold')
    BY <1>3, <2>1, <2>2, <2>3 DEF HeldOK
  <2>. HIDE DEF t
  <2>. QED BY <1>2, <1>4, <2>3, <2>4, <2>5, MatchStep DEF t
<1>. QED BY <1>5, <1>6

\* The countdown of a resume begins; h is what it makes of an earlier pause.
LEMMA StartCountdownStep ==
    ASSUME IInv, StartCountdown, hold' \in Holds \ {"held"}, worker' = worker,
           continuing' \in SUBSET (1..MaxOps)
    PROVE  IInv'
<1>. DEFINE t == Countdown(match)
<1>1. /\ match \in Records /\ match.of \in Matches /\ Good(match)
      /\ AbsenceTypes(offline, grace, over, away, joining)
      /\ OperationTypes(worker, continuing, disruptions, hold)
      /\ fired \in Seq(Entries) /\ Len(fired) <= MaxFired
  BY Parts
<1>2. /\ match.op.status # "PENDING" /\ match.status \in Held /\ match.failed = 0
      /\ match' = t /\ offline' = {} /\ grace' = {} /\ fired' = fired /\ cached' = cached
      /\ over' = over /\ away' = away /\ joining' = joining /\ disruptions' = disruptions
  BY NonePending DEF StartCountdown, CanResume, Admitted, DuringOperation, Held
<1>3. /\ Good(t) /\ t.of = match.of /\ t.op = match.op /\ t.issued = match.issued
      /\ t.status = "PAUSED" /\ t.act = "RESUME_COUNTDOWN"
  BY <1>1, <1>2, CountdownGood
<1>. HIDE DEF t
<1>4. PendingOK(t, worker') /\ HeldOK(t, hold')
  BY <1>2, <1>3 DEF PendingOK, HeldOK
<1>5. AbsenceTypes(offline', grace', over', away', joining')
      /\ OperationTypes(worker', continuing', disruptions', hold')
  BY <1>1, <1>2 DEF AbsenceTypes, OperationTypes
<1>. QED BY <1>2, <1>3, <1>4, <1>5, MatchStep DEF Speaking

\* match.resume by an operator.
LEMMA ResumeStep ==
    ASSUME IInv, Resume
    PROVE  IInv'
<1>1. StartCountdown /\ hold' = "none" /\ worker' = worker /\ continuing' = continuing
  BY DEF Resume, operation
<1>. QED BY <1>1, Parts, StartCountdownStep DEF Holds, OperationTypes

\* An operation that resumes by itself found its automatic resume not withdrawn.
LEMMA ContinueStep ==
    ASSUME IInv, NEW g \in continuing, Continue(g)
    PROVE  IInv'
<1>1. /\ continuing' = continuing \ {g} /\ worker' = worker
      /\ continuing' \in SUBSET (1..MaxOps) /\ hold \in Holds
  BY Parts DEF Continue, OperationTypes
<1>2. CASE match.op.auto /\ StartCountdown /\ hold' = IF hold = "none" THEN "automatic" ELSE hold
  <2>1. hold # "held"
    BY <1>2, Parts DEF HeldOK
  <2>. QED BY <1>1, <1>2, <2>1, StartCountdownStep DEF Holds
<1>3. CASE UNCHANGED <<match, fired, cached, presence, disruptions, hold>>
  <2>1. /\ match' = match /\ fired' = fired /\ cached' = cached /\ offline' = offline
        /\ grace' = grace /\ over' = over /\ away' = away /\ joining' = joining
        /\ disruptions' = disruptions /\ hold' = hold
    BY <1>3 DEF presence
  <2>. QED BY <1>1, <2>1, Parts, MatchStep DEF OperationTypes
<1>. QED BY <1>2, <1>3 DEF Continue

\* match.terminate cancels a pending operation.
LEMMA TerminateStep ==
    ASSUME IInv, Terminate
    PROVE  IInv'
<1>. DEFINE o == [match.op EXCEPT !.status = IF @ = "PENDING" THEN "CANCELLED" ELSE @]
            u == [match EXCEPT !.status = "TERMINATED", !.act = "MATCH_FINISHED",
                               !.speech = 0, !.due = "none", !.op = o]
<1>1. /\ match \in Records /\ match.of \in Matches /\ Good(match) /\ match.op \in Ops
      /\ FailedOK(match) /\ SpokenOK(match) /\ TimerOK(match) /\ HeldOK(match, hold)
      /\ AbsenceTypes(offline, grace, over, away, joining)
      /\ OperationTypes(worker, continuing, disruptions, hold)
  BY Parts, OpFacts DEF Good
<1>2. /\ grace' = {} /\ worker' = 0 /\ hold' = hold
      /\ fired' = fired /\ cached' = cached /\ offline' = offline
      /\ over' = over /\ away' = away /\ joining' = joining
      /\ continuing' = continuing /\ disruptions' = disruptions
  BY DEF Terminate
<1>3. match' = Cancel(u)
  BY Zenon, <1>1 DEF Terminate, Records
<1>4. o \in Ops /\ o.auto = match.op.auto /\ o.status # "PENDING"
  BY Zenon, <1>1 DEF Ops
<1>. HIDE DEF o
<1>5. u \in Records
  <2>1. "TERMINATED" \in Statuses /\ "MATCH_FINISHED" \in ActionStates /\ 0 \in 0..MaxStarts
    BY <1>1, Literals DEF Terminal
  <2>. QED BY <1>1, <1>4, <2>1, Updated
<1>6. /\ u.of = match.of /\ u.op = o /\ u.issued = match.issued /\ u.act = "MATCH_FINISHED"
      /\ u.status = "TERMINATED" /\ u.idx = match.idx /\ u.ckpt = match.ckpt
      /\ u.failed = match.failed /\ u.left = match.left /\ u.clock = match.clock
      /\ u.used = match.used /\ u.start = match.start /\ u.timer = match.timer /\ u.cut = match.cut
  BY Zenon, <1>1 DEF Records
<1>. HIDE DEF u
<1>7. ShapeOK(u) /\ FailedOK(u) /\ CkptOK(u)
  BY <1>6 DEF ShapeOK, FailedOK, CkptOK, Starting, Held, Terminal
<1>8. SpokenOK(u) /\ ClockOK(u) /\ TimerOK(u)
  BY <1>1, <1>6 DEF SpokenOK, ClockOK, TimerOK, Held, Speaking
<1>9. Good(u)
  BY <1>5, <1>7, <1>8 DEF Good
<1>10. /\ Good(match') /\ match'.of = match.of /\ match'.op = o /\ match'.issued = match.issued
       /\ match'.act = "MATCH_FINISHED" /\ match'.status = "TERMINATED"
  BY <1>1, <1>3, <1>5, <1>6, <1>9, CancelRetimes, RetimedFields, RetimedGood
<1>11. PendingOK(match', worker') /\ HeldOK(match', hold')
  BY <1>1, <1>2, <1>4, <1>10 DEF PendingOK, HeldOK, Terminal
<1>12. AbsenceTypes(offline', grace', over', away', joining')
       /\ OperationTypes(worker', continuing', disruptions', hold')
  BY <1>1, <1>2, Bounds DEF AbsenceTypes, OperationTypes
<1>. QED BY <1>2, <1>10, <1>11, <1>12, MatchStep DEF Speaking

-----------------------------------------------------------------------------
(* Emergency operations *)

\* An operation that begins is a new one, and holds the action it is for.
LEMMA NewOpFacts ==
    ASSUME IInv, match.op.gen < MaxOps,
           NEW kind \in {"stage.reset", "speech.skip", "speech.reset", "asr.retry"},
           NEW status \in {"PENDING", "SUCCEEDED"}
    PROVE  LET o == NewOp(kind, status)
           IN  /\ o \in Ops /\ o.kind = kind /\ o.status = status /\ o.gen = match.op.gen + 1
               /\ o.gen # 0 /\ o.idx = match.idx
               /\ hold = "held" /\ kind # "asr.retry" => ~o.auto
<1>. DEFINE o == NewOp(kind, status)
            b == match.status = "RUNNING" \/ kind = "asr.retry"
<1>1. match \in Records /\ match.of \in Matches /\ match.op \in Ops /\ HeldOK(match, hold)
  BY Parts, OpFacts
<1>2. match.op.gen \in 0..MaxOps
  BY <1>1 DEF Ops
<1>3. match.op.gen + 1 \in 0..MaxOps /\ match.op.gen + 1 # 0
  BY <1>1, <1>2, Bounds
<1>4. match.idx \in 0..(Len(Plan) + 1)
  BY <1>1, Fields, Bounds
<1>5. o = [kind |-> kind, status |-> status, gen |-> match.op.gen + 1, idx |-> match.idx, auto |-> b]
  BY DEF NewOp
<1>6. b \in BOOLEAN /\ (hold = "held" /\ kind # "asr.retry" => ~b)
  BY <1>1 DEF HeldOK, Held, Terminal
<1>. HIDE DEF b, o
<1>7. o \in Ops
  BY <1>3, <1>4, <1>5, <1>6 DEF Ops
<1>. QED BY <1>3, <1>5, <1>6, <1>7 DEF o

\* The turn an operation is asked for is of the stage of the checkpoint.
LEMMA TurnFacts ==
    ASSUME IInv, match.status \notin Terminal, Turn \in Turns, match.idx <= Len(Plan)
    PROVE  match.ckpt # 0 => match.ckpt = Plan[match.idx].stage
<1>1. ShapeOK(match) /\ CkptOK(match) /\ match \in Records /\ match.of \in Matches
  BY Parts DEF Good
<1>. QED BY <1>1 DEF ShapeOK, CkptOK, Turn, Turns, HumanTurn, AgentTurn, Held

\* The checks of an operation: nothing is pending, and the counter has room.
LEMMA TargetFacts ==
    ASSUME NEW cmd, Targeted(cmd), cmd \notin DuringOperation
    PROVE  match.op.status # "PENDING" /\ match.status \notin Terminal
           /\ match.idx <= Len(Plan) /\ match.op.gen < MaxOps
BY NonePending DEF Targeted

\* A handler that holds the match as t, with another operation.
LEMMA HoldsStep ==
    ASSUME IInv, NEW t, Stops(match, t), match' = t, PendingOK(t, worker'),
           hold' = hold, hold = "held" => ~t.op.auto, worker' \in 0..MaxOps,
           continuing' \in SUBSET (1..MaxOps),
           UNCHANGED <<fired, cached, presence, disruptions>>
    PROVE  IInv'
<1>1. HeldOK(t, hold')
  BY DEF Stops, HeldOK
<1>2. AbsenceTypes(offline', grace', over', away', joining')
      /\ OperationTypes(worker', continuing', disruptions', hold')
      /\ fired' = fired /\ cached' = cached
  BY Parts DEF AbsenceTypes, OperationTypes, presence
<1>. QED BY <1>1, <1>2, MatchStep DEF Stops, Speaking

\* stage.reset returns to the first action of the stage of the checkpoint.
LEMMA StageResetStep ==
    ASSUME IInv, StageReset
    PROVE  IInv'
<1>. DEFINE o == NewOp("stage.reset", "SUCCEEDED")
            j == FirstOfStage(match.idx)
            s == [match EXCEPT !.idx = j, !.op = o, !.failed = 0, !.speaker = NoOne,
                               !.seated = FALSE, !.left = NoTime]
            t == PausedRecovery(s, "NOT_STARTED")
<1>1. match \in Records /\ match.of \in Matches /\ SpokenOK(match) /\ TimerOK(match)
      /\ OperationTypes(worker, continuing, disruptions, hold)
  BY Parts DEF Good
<1>2. /\ match.idx <= Len(Plan) /\ match.op.gen < MaxOps /\ match.ckpt = Plan[match.idx].stage
      /\ match' = t /\ UNCHANGED <<fired, cached, presence, operation, disruptions, hold>>
  BY TargetFacts DEF StageReset, DuringOperation, Becomes
<1>3. o \in Ops /\ o.status = "SUCCEEDED" /\ (hold = "held" => ~o.auto)
  BY <1>2, NewOpFacts
<1>4. match.idx \in 1..Len(Plan)
  BY <1>1, <1>2, Fields, Bounds
<1>5. j \in 1..match.idx /\ Plan[j].stage = Plan[match.idx].stage
  BY <1>1, <1>4, FirstFacts
<1>6. j \in 1..(Len(Plan) + 1) /\ j <= Len(Plan)
  BY SMTT(60), <1>1, <1>4, <1>5, Bounds
<1>. HIDE DEF o, j
<1>7. s \in Records
  <2>1. 0 \in 0..MaxStarts /\ NoTime \in NoTime..Duration /\ NoOne \in Users \cup {Agent, NoOne}
    BY <1>1, Literals
  <2>. QED BY <1>1, <1>3, <1>6, <2>1, Updated
<1>8. /\ s.of = match.of /\ s.op = o /\ s.issued = match.issued /\ s.idx = j
      /\ s.ckpt = match.ckpt /\ s.left = NoTime /\ s.used = match.used /\ s.start = match.start
      /\ s.timer = match.timer /\ s.cut = match.cut
  BY Zenon, <1>1 DEF Records
<1>. HIDE DEF s
<1>9. TimerOK(s) /\ (s.cut \/ s.used <= Duration)
  BY <1>1, <1>8 DEF TimerOK, SpokenOK
<1>10. Stops(s, t) /\ t.op = s.op
  BY <1>1, <1>2, <1>5, <1>7, <1>8, <1>9, PausedRecoveryStops DEF Running, Turns, HumanTurn, AgentTurn
<1>11. Stops(match, t) /\ PendingOK(t, worker')
  BY <1>3, <1>8, <1>10 DEF Stops, PendingOK
<1>. HIDE DEF t
<1>. QED BY <1>1, <1>2, <1>3, <1>8, <1>10, <1>11, HoldsStep DEF operation, OperationTypes

\* speech.skip.begin holds the turn while a placeholder is generated.
LEMMA SkipBeginStep ==
    ASSUME IInv, SkipBegin
    PROVE  IInv'
<1>. DEFINE o == NewOp("speech.skip", "PENDING")
            n == IF match.left = NoTime THEN 0 ELSE Duration - match.left
            s == [match EXCEPT !.op = o, !.used = n]
            f == IF match.speaker = Agent THEN "AGENT_PREPARING" ELSE "HUMAN_READY_TO_START"
            t == PausedRecovery(s, f)
<1>1. match \in Records /\ match.of \in Matches /\ TimerOK(match)
      /\ OperationTypes(worker, continuing, disruptions, hold)
  BY Parts DEF Good
<1>2. /\ match.idx <= Len(Plan) /\ match.op.gen < MaxOps /\ match.status \notin Terminal
      /\ Turn \in Turns /\ worker' = match.op.gen + 1 /\ hold' = hold
      /\ match' = t /\ UNCHANGED <<fired, cached, presence, continuing, disruptions>>
  BY TargetFacts DEF SkipBegin, DuringOperation, Turns
<1>3. /\ o \in Ops /\ o.status = "PENDING" /\ o.kind = "speech.skip" /\ o.gen = match.op.gen + 1
      /\ o.gen # 0 /\ o.idx = match.idx /\ (hold = "held" => ~o.auto)
  BY <1>2, NewOpFacts
<1>4. match.ckpt # 0 => match.ckpt = Plan[match.idx].stage
  BY <1>2, TurnFacts
<1>5. n \in Nat /\ n <= Duration /\ (match.left # NoTime => n + match.left = Duration)
      /\ (match.left = NoTime => n = 0)
  BY SMTT(60), <1>1, Fields, Bounds DEF NoTime
<1>6. f \in Retaken /\ f \in Turns /\ f # "PREPARING" /\ f # "NOT_STARTED"
  BY DEF Retaken, Turns, HumanTurn, AgentTurn
<1>. HIDE DEF o, n, f
<1>7. s \in Records
  BY <1>1, <1>3, <1>5, Updated
<1>8. /\ s.of = match.of /\ s.op = o /\ s.issued = match.issued /\ s.idx = match.idx
      /\ s.ckpt = match.ckpt /\ s.left = match.left /\ s.used = n /\ s.start = match.start
      /\ s.timer = match.timer
  BY Zenon, <1>1 DEF Records
<1>. HIDE DEF s
<1>9. TimerOK(s)
  BY <1>1, <1>8 DEF TimerOK
<1>10. /\ Stops(s, t) /\ t.op = s.op /\ t.status = "PAUSED" /\ t.from = f /\ t.speech = 0
       /\ t.idx = s.idx
  <2>1. f \in Running \cup {"NOT_STARTED"}
    BY <1>6 DEF Running
  <2>2. s.used <= Duration /\ (s.left # NoTime => s.used + s.left <= Duration)
        /\ (s.left = NoTime => s.used = 0)
    BY <1>1, <1>5, <1>8, Bounds, Fields
  <2>. QED BY <1>1, <1>2, <1>4, <1>6, <1>7, <1>8, <1>9, <2>1, <2>2, PausedRecoveryStops
<1>11. Stops(match, t)
  BY <1>8, <1>10 DEF Stops
<1>. HIDE DEF t
<1>12. PendingOK(t, worker')
  BY <1>2, <1>3, <1>6, <1>8, <1>10 DEF PendingOK, Stops
<1>13. worker' \in 0..MaxOps
  BY <1>2, <1>3 DEF Ops
<1>. QED BY <1>1, <1>2, <1>3, <1>8, <1>10, <1>11, <1>12, <1>13, HoldsStep DEF OperationTypes

\* speech.skip.complete leaves the turn; the next action is entered on the resume.
LEMMA SkipCompleteStep ==
    ASSUME IInv, SkipComplete
    PROVE  IInv'
<1>. DEFINE o == [match.op EXCEPT !.status = "SUCCEEDED"]
            j == match.idx + 1
            s == [match EXCEPT !.idx = j, !.op = o, !.failed = 0, !.speaker = NoOne,
                               !.seated = FALSE, !.left = NoTime]
            t == PausedRecovery(s, "NOT_STARTED")
<1>1. /\ match \in Records /\ match.of \in Matches /\ SpokenOK(match) /\ TimerOK(match)
      /\ CkptOK(match) /\ match.op \in Ops /\ PendingOK(match, worker) /\ HeldOK(match, hold)
      /\ OperationTypes(worker, continuing, disruptions, hold)
  BY Parts, OpFacts DEF Good
<1>2. /\ SkipPending /\ worker' = worker /\ continuing' = continuing \cup {match.op.gen}
      /\ hold' = hold /\ UNCHANGED <<fired, cached, presence, disruptions>>
  BY DEF SkipComplete
<1>3. match' = t
  <2>1. match' = PausedRecovery([match EXCEPT !.idx = @ + 1, !.op.status = "SUCCEEDED",
                                   !.failed = 0, !.speaker = NoOne, !.seated = FALSE,
                                   !.left = NoTime], "NOT_STARTED")
    BY DEF SkipComplete
  <2>. QED BY Zenon, <1>1, <2>1 DEF Records
<1>4. /\ match.idx <= Len(Plan) /\ match.op.gen # 0
      /\ match.from \in Turns /\ match.status = "PAUSED"
  BY <1>1, <1>2 DEF SkipPending, PendingOK, Retaken, Turns, HumanTurn, AgentTurn
<1>5. o \in Ops /\ o.status = "SUCCEEDED" /\ o.auto = match.op.auto
  BY Zenon, <1>1 DEF Ops
<1>6. match.idx \in 1..Len(Plan) /\ j \in 1..(Len(Plan) + 1)
  BY <1>1, <1>4, Fields, Bounds
<1>7. match.ckpt # 0 => match.ckpt = Plan[match.idx].stage
  BY <1>1, <1>4 DEF CkptOK, Terminal, Turns, HumanTurn, AgentTurn
<1>8. match.ckpt # 0 /\ j <= Len(Plan) => match.ckpt = Plan[j].stage \/ FirstOfStage(j) = j
  BY <1>1, <1>6, <1>7, NextStage
<1>. HIDE DEF o, j
<1>9. s \in Records
  <2>1. 0 \in 0..MaxStarts /\ NoTime \in NoTime..Duration /\ NoOne \in Users \cup {Agent, NoOne}
    BY <1>1, Literals
  <2>. QED BY <1>1, <1>5, <1>6, <2>1, Updated
<1>10. /\ s.of = match.of /\ s.op = o /\ s.issued = match.issued /\ s.idx = j
       /\ s.ckpt = match.ckpt /\ s.left = NoTime /\ s.used = match.used /\ s.start = match.start
       /\ s.timer = match.timer /\ s.cut = match.cut
  BY Zenon, <1>1 DEF Records
<1>. HIDE DEF s
<1>11. TimerOK(s) /\ (s.cut \/ s.used <= Duration)
  BY <1>1, <1>10 DEF TimerOK, SpokenOK
<1>12. Stops(s, t) /\ t.op = s.op
  BY <1>1, <1>8, <1>9, <1>10, <1>11, PausedRecoveryStops DEF Turns, HumanTurn, AgentTurn
<1>13. Stops(match, t) /\ PendingOK(t, worker')
  BY <1>5, <1>10, <1>12 DEF Stops, PendingOK
<1>14. worker' \in 0..MaxOps /\ continuing' \in SUBSET (1..MaxOps)
  <2>1. worker \in 0..MaxOps /\ continuing \in SUBSET (1..MaxOps)
    BY <1>1 DEF OperationTypes
  <2>2. match.op.gen \in 0..MaxOps
    BY Zenon, <1>1 DEF Ops
  <2>3. match.op.gen \in 1..MaxOps
    BY <1>1, <1>4, <2>2, Bounds
  <2>. QED BY <1>2, <2>1, <2>3
<1>15. hold = "held" => ~t.op.auto
  BY <1>1, <1>5, <1>10, <1>12 DEF HeldOK
<1>. HIDE DEF t
<1>. QED BY <1>2, <1>3, <1>13, <1>14, <1>15, HoldsStep

\* speech.skip.fail leaves the turn held.
LEMMA SkipFailStep ==
    ASSUME IInv, SkipFail
    PROVE  IInv'
<1>. DEFINE o == [match.op EXCEPT !.status = "FAILED"]
            t == [match EXCEPT !.op = o]
<1>1. /\ match \in Records /\ match.of \in Matches /\ Good(match) /\ match.op \in Ops
      /\ PendingOK(match, worker) /\ HeldOK(match, hold)
      /\ OperationTypes(worker, continuing, disruptions, hold)
  BY Parts, OpFacts DEF Good
<1>2. /\ SkipPending /\ worker' = worker /\ continuing' = continuing
      /\ hold' = hold /\ UNCHANGED <<fired, cached, presence, disruptions>>
  BY DEF SkipFail, Becomes, operation
<1>3. match' = t
  BY Zenon, <1>1 DEF SkipFail, Becomes, Records
<1>4. o \in Ops /\ o.status = "FAILED" /\ o.auto = match.op.auto
  BY Zenon, <1>1 DEF Ops
<1>5. match.status = "PAUSED" /\ match.act = "RECOVERY_REQUIRED"
  BY <1>1, <1>2 DEF SkipPending, PendingOK
<1>. HIDE DEF o
<1>6. /\ Good(t) /\ t.op = o /\ t.of = match.of /\ t.issued = match.issued
      /\ t.act = match.act /\ t.status = match.status
  BY <1>1, <1>4, NewOpGood
<1>. HIDE DEF t
<1>7. Stops(match, t) /\ PendingOK(t, worker') /\ (hold = "held" => ~t.op.auto)
  BY <1>1, <1>4, <1>5, <1>6 DEF Stops, PendingOK, HeldOK, Held
<1>8. worker' \in 0..MaxOps /\ continuing' \in SUBSET (1..MaxOps)
  BY <1>1, <1>2 DEF OperationTypes
<1>. QED BY <1>2, <1>3, <1>7, <1>8, HoldsStep

\* The worker is dropped, and a pending operation stays pending.
LEMMA WorkerEndsStep ==
    ASSUME IInv, WorkerEnds
    PROVE  IInv'
<1>1. /\ match \in Records /\ match.of \in Matches /\ Good(match) /\ PendingOK(match, worker)
      /\ HeldOK(match, hold) /\ AbsenceTypes(offline, grace, over, away, joining)
      /\ OperationTypes(worker, continuing, disruptions, hold)
  BY Parts DEF Good
<1>2. /\ worker' = 0 /\ match' = match /\ continuing' = continuing /\ hold' = hold
      /\ UNCHANGED <<fired, cached, offline, grace, over, away, joining, disruptions>>
  BY DEF WorkerEnds, presence
<1>3. PendingOK(match, worker')
  BY <1>1, <1>2 DEF PendingOK
<1>4. OperationTypes(worker', continuing', disruptions', hold')
  <2>1. 0 \in 0..MaxOps
    BY <1>1, Bounds
  <2>. QED BY <1>1, <1>2, <2>1 DEF OperationTypes
<1>. QED BY <1>1, <1>2, <1>3, <1>4, MatchStep

\* The recording of a turn is given up by the operator: it is invited again.
LEMMA SpeechResetStep ==
    ASSUME IInv, SpeechReset
    PROVE  IInv'
<1>. DEFINE s == ResetTurn(match)
            h == [s EXCEPT !.due = "waiting"]
            a == Arm(h, "human.start_timeout", Fresh)
<1>1. /\ match \in Records /\ match.of \in Matches /\ Good(match)
      /\ fired \in Seq(Entries) /\ Len(fired) <= MaxFired
      /\ OperationTypes(worker, continuing, disruptions, hold)
  BY Parts
<1>2. /\ match.act \in Running /\ match.op.status # "PENDING"
      /\ match' = (IF s.act = "HUMAN_READY_TO_START" THEN a ELSE s)
      /\ UNCHANGED <<fired, cached, presence, operation, disruptions, hold>>
  BY NonePending
     DEF SpeechReset, DuringOperation, Becomes, AwaitStart, Running, Turns
<1>3. /\ match.status = "RUNNING" /\ match.idx <= Len(Plan) /\ match.failed = 0
      /\ match.ckpt # 0 => match.ckpt = Plan[match.idx].stage
      /\ TimerOK(match)
  BY <1>2, RunningFacts
<1>4. /\ s \in Records /\ TimerOK(s) /\ s.of = match.of /\ s.op = match.op
      /\ s.issued = match.issued /\ s.act \in {"AGENT_PREPARING", "HUMAN_READY_TO_START"}
      /\ s.status = "RUNNING" /\ s.idx = match.idx /\ s.ckpt = match.ckpt /\ s.failed = 0
      /\ s.left = Duration /\ s.clock = NoTime /\ s.used = 0
  BY <1>1, <1>3, ResetTurnFacts
<1>. HIDE DEF s
<1>5. h \in Records
  BY <1>4, Updated
<1>6. /\ h.of = s.of /\ h.op = s.op /\ h.issued = s.issued /\ h.act = s.act
      /\ h.status = s.status /\ h.idx = s.idx /\ h.ckpt = s.ckpt /\ h.failed = s.failed
      /\ h.left = s.left /\ h.clock = s.clock /\ h.used = s.used /\ h.start = s.start
      /\ h.timer = s.timer
  BY ZenonT(60), <1>4 DEF Records
<1>. HIDE DEF h
<1>7. \A x \in {s, h} : Good(x)
  <2>1. SUFFICES ASSUME NEW x \in {s, h} PROVE Good(x)
    OBVIOUS
  <2>2. /\ x \in Records /\ TimerOK(x)
        /\ x.act \in {"AGENT_PREPARING", "HUMAN_READY_TO_START"}
        /\ x.status = "RUNNING" /\ x.idx = match.idx /\ x.ckpt = match.ckpt /\ x.failed = 0
        /\ x.left = Duration /\ x.clock = NoTime /\ x.used = 0
    BY <1>4, <1>5, <1>6 DEF TimerOK
  <2>3. ShapeOK(x) /\ FailedOK(x) /\ CkptOK(x)
    BY <1>3, <2>2
       DEF ShapeOK, FailedOK, CkptOK, Starting, Held, Terminal, Running, Turns, HumanTurn, AgentTurn
  <2>4. SpokenOK(x) /\ ClockOK(x)
    BY <1>1, <2>2, Bounds DEF SpokenOK, ClockOK, Held, Speaking, NoTime
  <2>. QED BY <2>2, <2>3, <2>4 DEF Good
<1>8. Retimed(h, a)
  BY <1>1, <1>5, Literals, ArmRetimes DEF TimerCommands, Fresh
<1>9. Good(a) /\ a.of = h.of /\ a.op = h.op /\ a.issued = h.issued /\ a.act = h.act
  BY <1>1, <1>5, <1>7, <1>8, RetimedGood, RetimedFields
<1>. HIDE DEF a
<1>10. \A x \in {s, a} : /\ Good(x) /\ x.of = match.of /\ x.op = match.op
                         /\ x.issued = match.issued /\ x.act \notin Speaking
  BY <1>4, <1>6, <1>7, <1>9 DEF Speaking
<1>11. match' \in {s, a} /\ disruptions' \in 0..MaxDisruptions
  BY <1>1, <1>2 DEF OperationTypes
<1>. QED BY <1>2, <1>3, <1>10, <1>11, QuietStep

\* operator.reset holds the turn with a full budget.
LEMMA OperatorResetStep ==
    ASSUME IInv, OperatorReset
    PROVE  IInv'
<1>. DEFINE o == NewOp("speech.reset", "SUCCEEDED")
            m == [match EXCEPT !.op = o, !.failed = 0]
            s == ResetTurn(m)
            t == PausedRecovery(s, s.act)
<1>1. match \in Records /\ match.of \in Matches /\ TimerOK(match)
      /\ OperationTypes(worker, continuing, disruptions, hold)
  BY Parts DEF Good
<1>2. /\ match.idx <= Len(Plan) /\ match.op.gen < MaxOps /\ match.status \notin Terminal
      /\ Turn \in Turns
      /\ match' = t /\ UNCHANGED <<fired, cached, presence, operation, disruptions, hold>>
  BY TargetFacts DEF OperatorReset, DuringOperation, Becomes, Turns
<1>3. o \in Ops /\ o.status = "SUCCEEDED" /\ (hold = "held" => ~o.auto)
  BY <1>2, NewOpFacts
<1>4. match.ckpt # 0 => match.ckpt = Plan[match.idx].stage
  BY <1>2, TurnFacts
<1>. HIDE DEF o
<1>5. m \in Records
  BY <1>1, <1>3, Literals, Updated
<1>6. /\ m.of = match.of /\ m.op = o /\ m.issued = match.issued /\ m.idx = match.idx
      /\ m.ckpt = match.ckpt /\ m.start = match.start /\ m.timer = match.timer
  BY Zenon, <1>1 DEF Records
<1>. HIDE DEF m
<1>7. TimerOK(m)
  BY <1>1, <1>6 DEF TimerOK
<1>8. /\ s \in Records /\ TimerOK(s) /\ s.of = m.of /\ s.op = m.op
      /\ s.issued = m.issued /\ s.act \in {"AGENT_PREPARING", "HUMAN_READY_TO_START"}
      /\ s.idx = m.idx /\ s.ckpt = m.ckpt
      /\ s.left = Duration /\ s.used = 0
  BY <1>1, <1>2, <1>5, <1>6, <1>7, ResetTurnFacts
<1>. HIDE DEF s
<1>9. Stops(s, t) /\ t.op = s.op
  <2>1. s.act \in Running \cup {"NOT_STARTED"} /\ s.act # "NOT_STARTED" /\ s.act # "PREPARING"
    BY <1>8 DEF Running, Turns, HumanTurn, AgentTurn
  <2>2. s.used <= Duration /\ s.used + s.left <= Duration /\ s.used = 0
    BY <1>1, <1>8, Bounds
  <2>3. s.idx <= Len(Plan) /\ (s.ckpt # 0 => s.ckpt = Plan[s.idx].stage)
    BY <1>2, <1>4, <1>6, <1>8
  <2>. QED BY <1>1, <1>8, <2>1, <2>2, <2>3, PausedRecoveryStops
<1>. HIDE DEF t
<1>10. Stops(match, t) /\ PendingOK(t, worker') /\ t.op = o
  BY <1>3, <1>6, <1>8, <1>9 DEF Stops, PendingOK
<1>. QED BY <1>1, <1>2, <1>3, <1>10, HoldsStep DEF operation, OperationTypes

\* A retry takes over the failure it is to repair, and any pause with it.
LEMMA RetryBeginStep ==
    ASSUME IInv, RetryBegin
    PROVE  IInv'
<1>. DEFINE o == NewOp("asr.retry", "PENDING")
            t == [match EXCEPT !.op = o]
<1>1. /\ match \in Records /\ match.of \in Matches /\ Good(match) /\ ShapeOK(match)
      /\ AbsenceTypes(offline, grace, over, away, joining)
      /\ OperationTypes(worker, continuing, disruptions, hold)
  BY Parts DEF Good
<1>2. /\ match.idx <= Len(Plan) /\ match.op.gen < MaxOps /\ match.failed # 0
      /\ match.status = "ERROR" /\ match' = t /\ hold' = "none"
      /\ UNCHANGED <<fired, cached, presence, operation, disruptions>>
  BY TargetFacts DEF RetryBegin, DuringOperation
<1>3. /\ o \in Ops /\ o.kind = "asr.retry" /\ o.gen # 0 /\ o.idx = match.idx
  BY <1>2, NewOpFacts
<1>. HIDE DEF o
<1>4. /\ Good(t) /\ t.op = o /\ ViewLeft(t) = ViewLeft(match)
      /\ t.of = match.of /\ t.issued = match.issued /\ t.act = match.act /\ t.status = match.status
      /\ t.idx = match.idx /\ t.failed = match.failed /\ t.start = match.start
  BY <1>1, <1>3, NewOpGood
<1>. HIDE DEF t
<1>5. PendingOK(t, worker') /\ HeldOK(t, hold')
  BY <1>2, <1>3, <1>4 DEF PendingOK, HeldOK
<1>6. AbsenceTypes(offline', grace', over', away', joining')
      /\ OperationTypes(worker', continuing', disruptions', hold')
      /\ fired' = fired /\ cached' = cached
  BY <1>1, <1>2 DEF AbsenceTypes, OperationTypes, Holds, presence, operation
<1>. QED BY <1>2, <1>4, <1>5, <1>6, MatchStep

\* The retried speech ends its action, and the match is held where it goes on;
\* if the speech is not the current one any more, it is only held.
LEMMA RetryDoneStep ==
    ASSUME IInv, RetryDone
    PROVE  IInv'
<1>. DEFINE o == [match.op EXCEPT !.status = "SUCCEEDED"]
            s == [match EXCEPT !.op = o, !.failed = 0]
            r == [s EXCEPT !.status = "RUNNING"]
            h == [s EXCEPT !.status = "PAUSED", !.act = "RECOVERY_REQUIRED"]
            n == Advance(r)
            p == PausedRecovery(n, n.act)
<1>1. /\ match \in Records /\ match.of \in Matches /\ Good(match) /\ match.op \in Ops
      /\ ShapeOK(match) /\ CkptOK(match) /\ SpokenOK(match) /\ ClockOK(match) /\ TimerOK(match)
      /\ PendingOK(match, worker) /\ HeldOK(match, hold)
      /\ fired \in Seq(Entries) /\ Len(fired) <= MaxFired
      /\ AbsenceTypes(offline, grace, over, away, joining)
      /\ OperationTypes(worker, continuing, disruptions, hold)
  BY Parts, OpFacts DEF Good
<1>2. /\ RetryPending /\ continuing' = continuing \cup {match.op.gen}
      /\ UNCHANGED <<fired, cached, presence, worker, disruptions, hold>>
  BY DEF RetryDone
<1>3. match' = IF match.speech # match.failed THEN h ELSE IF n.status = "FINISHED" THEN n ELSE p
  <2>1. s = [match EXCEPT !.op.status = "SUCCEEDED", !.failed = 0]
        /\ s.speech = match.speech
    BY Zenon, <1>1 DEF Records
  <2>. HIDE DEF s
  <2>. QED BY Zenon, <2>1 DEF RetryDone
<1>4. /\ match.idx <= Len(Plan) /\ match.op.gen # 0 /\ match.status = "ERROR" /\ match.failed # 0
      /\ match.act = "RECOVERY_REQUIRED"
  BY <1>1, <1>2 DEF RetryPending, PendingOK, ShapeOK
<1>5. o \in Ops /\ o.status = "SUCCEEDED" /\ o.auto = match.op.auto
  BY Zenon, <1>1 DEF Ops
<1>. HIDE DEF o
<1>6. s \in Records /\ r \in Records /\ h \in Records
  <2>1. /\ "RUNNING" \in Statuses /\ "PAUSED" \in Statuses /\ "RECOVERY_REQUIRED" \in ActionStates
        /\ 0 \in 0..MaxStarts
    BY <1>1, Literals DEF Held
  <2>2. s \in Records
    BY <1>1, <1>5, <2>1, Updated
  <2>3. r \in Records /\ h \in Records
    <3>. HIDE DEF s
    <3>. QED BY <2>1, <2>2, Updated
  <2>. QED BY <2>2, <2>3
<1>7. /\ r.of = match.of /\ r.op = o /\ r.issued = match.issued /\ r.idx = match.idx
      /\ r.ckpt = match.ckpt /\ r.used = match.used /\ r.start = match.start
      /\ r.timer = match.timer /\ r.cut = match.cut /\ r.failed = 0 /\ r.status = "RUNNING"
  BY Zenon, <1>1 DEF Records
<1>8. /\ h.of = match.of /\ h.op = o /\ h.issued = match.issued /\ h.idx = match.idx
      /\ h.ckpt = match.ckpt /\ h.used = match.used /\ h.start = match.start
      /\ h.timer = match.timer /\ h.cut = match.cut /\ h.failed = 0 /\ h.status = "PAUSED"
      /\ h.act = "RECOVERY_REQUIRED" /\ h.from = match.from /\ h.left = match.left
      /\ h.clock = match.clock /\ h.speech = match.speech
  BY Zenon, <1>1 DEF Records
<1>. HIDE DEF r, h, s
<1>9. Stops(match, h)
  <2>1. TimerOK(h) /\ CkptOK(h)
    BY <1>1, <1>4, <1>8 DEF TimerOK, CkptOK, Held, Terminal
  <2>2. /\ h.from \in Running \cup {"NOT_STARTED"}
        /\ h.from # "NOT_STARTED" => h.idx <= Len(Plan)
        /\ h.from = "NOT_STARTED" => h.speech = 0
    BY <1>1, <1>4, <1>8 DEF ShapeOK, Held
  <2>3. \/ h.cut
        \/ /\ h.used <= Duration
           /\ h.clock # NoTime => h.used + h.clock <= Duration
           /\ h.left # NoTime => h.used + h.left <= Duration
           /\ h.left = NoTime /\ h.from \in Turns => h.used = 0
    BY <1>1, <1>4, <1>8 DEF SpokenOK, Held, Finalizing
  <2>4. h.from = "PREPARING" => h.left # NoTime
    BY <1>1, <1>4, <1>8 DEF ClockOK, Held
  <2>5. Good(h)
    BY <1>1, <1>6, <1>8, <2>1, <2>2, <2>3, <2>4, HeldGood DEF Held
  <2>. QED BY <1>8, <2>5 DEF Stops, Held
<1>10. ASSUME match.speech = match.failed
       PROVE  /\ Begins(r, n)
              /\ n.status # "FINISHED" => Stops(match, p) /\ p.op = o
  <2>1. match.ckpt # 0 => match.ckpt = Plan[match.idx].stage
    <3>1. match.from # "NOT_STARTED"
      BY <1>1, <1>4, <1>10 DEF ShapeOK, Held
    <3>. QED BY <1>1, <1>4, <3>1 DEF CkptOK, Terminal
  <2>2. TimerOK(r) /\ (r.cut \/ r.used <= Duration)
    BY <1>1, <1>7 DEF TimerOK, SpokenOK
  <2>3. Begins(r, n)
    BY <1>1, <1>4, <1>6, <1>7, <2>1, <2>2, AdvanceBegins
  <2>. HIDE DEF n
  <2>4. SUFFICES ASSUME n.status # "FINISHED" PROVE Stops(match, p) /\ p.op = o
    BY <2>3
  <2>5. /\ n \in Records /\ Good(n) /\ n.of = match.of /\ n.op = o /\ n.issued = match.issued
        /\ n.status = "RUNNING" /\ n.act \in Entered
        /\ n.left # NoTime => n.used + n.left <= Duration
    BY <1>7, <2>3, <2>4 DEF Begins, Good
  <2>6. n.act \in Running \cup {"NOT_STARTED"} /\ n.act \in Running
    BY <2>5 DEF Entered, Running, Turns, HumanTurn, AgentTurn
  <2>7. n.idx <= Len(Plan) /\ (n.ckpt # 0 => n.ckpt = Plan[n.idx].stage) /\ TimerOK(n)
    BY <2>5 DEF Good, ShapeOK, CkptOK, Held, Terminal
  <2>8. (n.cut \/ n.used <= Duration) /\ (n.act = "PREPARING" => n.left # NoTime)
        /\ (n.left = NoTime /\ n.act \in Turns => n.cut \/ n.used = 0)
    BY <2>5 DEF Good, SpokenOK, ClockOK, Entered, Turns, HumanTurn, AgentTurn
  <2>9. Stops(n, p) /\ p.op = n.op
    BY <1>1, <2>5, <2>6, <2>7, <2>8, PausedRecoveryStops
  <2>. QED BY <2>5, <2>9 DEF Stops
<1>. HIDE DEF n, p
<1>. DEFINE t == match'
<1>11. /\ Good(t) /\ t.of = match.of /\ t.op = o /\ t.issued = match.issued /\ t.act \notin Speaking
       /\ t.act # "RESUME_COUNTDOWN" /\ t.status \in Held \cup Terminal
  <2>1. CASE t = h
    BY <1>8, <1>9, <2>1 DEF Stops, Speaking
  <2>2. CASE match.speech = match.failed /\ t = n /\ n.status = "FINISHED"
    BY <1>7, <1>10, <2>2 DEF Begins, Speaking, Terminal
  <2>3. CASE match.speech = match.failed /\ t = p /\ n.status # "FINISHED"
    BY <1>10, <2>3 DEF Stops, Speaking
  <2>. QED BY <1>3, <2>1, <2>2, <2>3
<1>12. PendingOK(t, worker') /\ HeldOK(t, hold')
  BY <1>1, <1>2, <1>5, <1>11 DEF PendingOK, HeldOK
<1>13. /\ fired' = fired /\ cached' = cached
       /\ AbsenceTypes(offline', grace', over', away', joining')
  BY <1>1, <1>2 DEF AbsenceTypes, presence
<1>14. OperationTypes(worker', continuing', disruptions', hold')
  <2>1. match.op.gen \in 0..MaxOps
    BY <1>1 DEF Ops
  <2>2. match.op.gen \in 1..MaxOps
    BY <1>1, <1>4, <2>1, Bounds
  <2>. QED BY <1>1, <1>2, <2>2 DEF OperationTypes
<1>. HIDE DEF t
<1>. QED BY <1>11, <1>12, <1>13, <1>14, MatchStep DEF t

\* asr.retry.failed: the recording is kept, and the match stays in ERROR.
LEMMA RetryFailedStep ==
    ASSUME IInv, RetryFailed
    PROVE  IInv'
<1>. DEFINE t == AsrFail(match)
<1>1. /\ match \in Records /\ match.of \in Matches /\ Good(match) /\ PendingOK(match, worker)
      /\ HeldOK(match, hold) /\ OperationTypes(worker, continuing, disruptions, hold)
  BY Parts
<1>2. /\ RetryPending /\ match.speech = match.failed /\ match' = t
      /\ UNCHANGED <<fired, cached, presence, operation, disruptions, hold>>
  BY DEF RetryFailed, Becomes
<1>3. match.status = "ERROR" /\ match.speech # 0 /\ match.op.kind = "asr.retry"
  BY <1>1, <1>2 DEF RetryPending, PendingOK
<1>4. Stops(match, t) /\ t.op.auto = match.op.auto /\ t.op.status # "PENDING"
  BY <1>1, <1>3, AsrFailStops
<1>. HIDE DEF t
<1>5. PendingOK(t, worker') /\ (hold = "held" => ~t.op.auto)
  BY <1>1, <1>4 DEF PendingOK, HeldOK
<1>. QED BY <1>1, <1>2, <1>4, <1>5, HoldsStep DEF operation, OperationTypes

-----------------------------------------------------------------------------
(* Presence *)

\* The match with other absences known to it.
Absent(s, x, y) == [s EXCEPT !.offUser = x, !.since = y]

\* Only what is known of absences is replaced.
LEMMA AbsenceGood ==
    ASSUME match.of \in Matches, NEW s, Good(s), NEW x \in Users \cup {NoOne},
           NEW y \in SUBSET Users, NEW t, t = Absent(s, x, y)
    PROVE  /\ Good(t) /\ t.op = s.op /\ ViewLeft(t) = ViewLeft(s)
           /\ t.of = s.of /\ t.issued = s.issued /\ t.act = s.act /\ t.status = s.status
           /\ t.start = s.start
<1>1. /\ s \in Records /\ ShapeOK(s) /\ CkptOK(s) /\ SpokenOK(s) /\ ClockOK(s) /\ TimerOK(s)
      /\ FailedOK(s)
  BY DEF Good
<1>2. t \in Records
  BY <1>1, Updated DEF Absent
<1>3. /\ t.of = s.of /\ t.op = s.op /\ t.issued = s.issued /\ t.act = s.act
      /\ t.status = s.status /\ t.idx = s.idx /\ t.ckpt = s.ckpt /\ t.failed = s.failed
      /\ t.from = s.from /\ t.left = s.left /\ t.clock = s.clock /\ t.used = s.used
      /\ t.start = s.start /\ t.timer = s.timer /\ t.cut = s.cut /\ t.speech = s.speech
  BY Zenon, <1>1 DEF Records, Absent
<1>4. ShapeOK(t) /\ FailedOK(t) /\ CkptOK(t)
  BY <1>1, <1>3 DEF ShapeOK, FailedOK, CkptOK
<1>5. SpokenOK(t) /\ ClockOK(t) /\ TimerOK(t)
  BY <1>1, <1>3 DEF SpokenOK, ClockOK, TimerOK
<1>. QED BY <1>2, <1>3, <1>4, <1>5 DEF Good, ViewLeft

\* A presence handler: the match may only have its clock stopped.
LEMMA PresenceStep ==
    ASSUME IInv, NEW t, match' = t, Good(t), t.of = match.of, t.op = match.op,
           t.issued = match.issued, t.act = match.act, t.status = match.status,
           t.start = match.start, ViewLeft(t) = ViewLeft(match),
           match.op.status # "PENDING",
           AbsenceTypes(offline', grace', over', away', joining'),
           UNCHANGED <<fired, cached, operation, hold>>, disruptions' \in 0..MaxDisruptions
    PROVE  IInv'
<1>1. /\ worker' = worker /\ continuing' = continuing /\ hold' = hold
      /\ fired' = fired /\ cached' = cached
      /\ OperationTypes(worker, continuing, disruptions, hold) /\ HeldOK(match, hold)
  BY Parts DEF operation
<1>2. PendingOK(t, worker') /\ HeldOK(t, hold')
  BY <1>1 DEF PendingOK, HeldOK
<1>3. OperationTypes(worker', continuing', disruptions', hold')
  BY <1>1 DEF OperationTypes
<1>. QED BY <1>1, <1>2, <1>3, MatchStep

\* A handler of presence that leaves the match as it is.
LEMMA AbsenceStep ==
    ASSUME IInv, AbsenceTypes(offline', grace', over', away', joining'),
           UNCHANGED <<match, fired, cached, operation, hold>>,
           disruptions' \in 0..MaxDisruptions
    PROVE  IInv'
<1>1. /\ match' = match /\ worker' = worker /\ continuing' = continuing /\ hold' = hold
      /\ fired' = fired /\ cached' = cached
      /\ OperationTypes(worker, continuing, disruptions, hold)
  BY Parts DEF operation
<1>2. OperationTypes(worker', continuing', disruptions', hold')
  BY <1>1 DEF OperationTypes
<1>. QED BY <1>1, <1>2, Parts, MatchStep

\* Where a speaker is cut off, the match runs.
LEMMA SpeaksFacts ==
    ASSUME IInv, NEW u, Speaks(u)
    PROVE  match.status = "RUNNING" /\ match.act \in Speaking /\ match.speech \in 0..MaxStarts
<1>1. match.act \in Running /\ match.act \in Speaking
  BY DEF Speaks, Running, Turns, HumanTurn, Speaking
<1>. QED BY <1>1, RunningFacts, Parts DEF Records

\* member.offline stops the clock of the absent speaker.
LEMMA OfflineStep ==
    ASSUME IInv, NEW u \in Users, Offline(u)
    PROVE  IInv'
<1>1. /\ AbsenceTypes(offline, grace, over, away, joining) /\ match.of \in Matches
      /\ match \in Records /\ Good(match)
  BY Parts
<1>2. /\ away' = away \cup {u} /\ joining' = joining
      /\ UNCHANGED <<fired, cached, operation, hold>> /\ disruptions' \in 0..MaxDisruptions
  BY DisruptBounded DEF Offline
<1>3. CASE Admits("member.offline") /\ u \notin offline
  <2>. DEFINE y == match.since \cup {u}
              s == Absent(match, u, y)
  <2>1. /\ match' = (IF Speaks(u) THEN StopClock(s) ELSE s)
        /\ offline' = offline \cup {u} /\ grace' = grace \cup {u} /\ over' = over \ {u}
    <3>1. s = [match EXCEPT !.offUser = u, !.since = @ \cup {u}]
      BY Zenon, <1>1 DEF Records, Absent
    <3>. HIDE DEF s
    <3>. QED BY <1>3, <3>1 DEF Offline
  <2>2. AbsenceTypes(offline', grace', over', away', joining')
    BY <1>1, <1>2, <2>1 DEF AbsenceTypes
  <2>3. match.op.status # "PENDING"
    BY <1>3, NonePending DEF DuringOperation
  <2>4. y \in SUBSET Users
    BY <1>1 DEF Records
  <2>. HIDE DEF y
  <2>5. /\ Good(s) /\ s.op = match.op /\ ViewLeft(s) = ViewLeft(match)
        /\ s.of = match.of /\ s.issued = match.issued /\ s.act = match.act
        /\ s.status = match.status /\ s.start = match.start
    <3>1. u \in Users \cup {NoOne}
      OBVIOUS
    <3>. QED BY <1>1, <2>4, <3>1, AbsenceGood
  <2>. HIDE DEF s
  <2>6. CASE Speaks(u)
    <3>1. LET t == StopClock(s)
          IN  /\ Good(t) /\ t.of = s.of /\ t.op = s.op /\ t.issued = s.issued /\ t.act = s.act
              /\ t.status = "RUNNING" /\ t.start = s.start /\ ViewLeft(t) = ViewLeft(s)
      BY <1>1, <2>5, <2>6, SpeaksFacts, StopClockGood
    <3>2. match.status = "RUNNING"
      BY <2>6, SpeaksFacts
    <3>. QED BY <1>2, <2>1, <2>2, <2>3, <2>5, <2>6, <3>1, <3>2, PresenceStep
  <2>7. CASE ~Speaks(u)
    BY <1>2, <2>1, <2>2, <2>3, <2>5, <2>7, PresenceStep
  <2>. QED BY <2>6, <2>7
<1>4. CASE ~(Admits("member.offline") /\ u \notin offline)
  <2>1. UNCHANGED <<match, offline, grace, over>>
    BY <1>4 DEF Offline
  <2>2. AbsenceTypes(offline', grace', over', away', joining')
    BY <1>1, <1>2, <2>1 DEF AbsenceTypes
  <2>. QED BY <1>2, <2>1, <2>2, AbsenceStep
<1>. QED BY <1>3, <1>4

\* member.online, of an absence that is known, that is not, or that is none.
LEMMA OnlineStep ==
    ASSUME IInv, NEW u \in Users, Online(u)
    PROVE  IInv'
<1>1. /\ AbsenceTypes(offline, grace, over, away, joining) /\ match.of \in Matches
      /\ match \in Records /\ Good(match) /\ disruptions \in 0..MaxDisruptions
  BY Parts DEF OperationTypes
<1>2. /\ away' = away \ {u} /\ over' = over
      /\ UNCHANGED <<fired, cached, operation, hold>> /\ disruptions' \in 0..MaxDisruptions
  BY <1>1, DisruptBounded DEF Online
<1>3. match.speech \in 0..MaxStarts
  BY <1>1 DEF Records
<1>4. CASE Admits("member.online") /\ Known(u)
  <2>. DEFINE y == match.since \ {u}
  <2>1. PICK x \in IF offline \subseteq {u} THEN {NoOne} ELSE offline \ {u} :
            match' = Absent(match, x, y)
    BY <1>4 DEF Online, Absent
  <2>2. /\ offline' = offline \ {u} /\ grace' = grace \ {u}
        /\ joining' = IF Speaks(u) THEN match.speech ELSE joining
    BY <1>4 DEF Online
  <2>3. AbsenceTypes(offline', grace', over', away', joining')
    BY <1>1, <1>2, <1>3, <2>2 DEF AbsenceTypes
  <2>4. match.op.status # "PENDING"
    BY <1>4, NonePending DEF DuringOperation
  <2>5. y \in SUBSET Users /\ x \in Users \cup {NoOne}
    BY <1>1 DEF Records, AbsenceTypes
  <2>. HIDE DEF y
  <2>. DEFINE s == match'
  <2>6. /\ Good(s) /\ s.op = match.op /\ ViewLeft(s) = ViewLeft(match)
        /\ s.of = match.of /\ s.issued = match.issued /\ s.act = match.act
        /\ s.status = match.status /\ s.start = match.start
    BY <1>1, <2>1, <2>5, AbsenceGood
  <2>. HIDE DEF s
  <2>. QED BY <1>2, <2>3, <2>4, <2>6, PresenceStep DEF s
<1>5. CASE /\ Admits("member.online") /\ Speaks(u) /\ match' = StopClock(match)
           /\ joining' = match.speech /\ UNCHANGED <<offline, grace>>
  <2>1. AbsenceTypes(offline', grace', over', away', joining')
    BY <1>1, <1>2, <1>3, <1>5 DEF AbsenceTypes
  <2>2. match.op.status # "PENDING"
    BY <1>5, NonePending DEF DuringOperation
  <2>3. LET t == StopClock(match)
        IN  /\ Good(t) /\ t.of = match.of /\ t.op = match.op /\ t.issued = match.issued
            /\ t.act = match.act /\ t.status = match.status /\ t.start = match.start
            /\ ViewLeft(t) = ViewLeft(match)
    BY <1>1, <1>5, SpeaksFacts, StopClockGood
  <2>. QED BY <1>2, <1>5, <2>1, <2>2, <2>3, PresenceStep
<1>6. CASE UNCHANGED <<match, offline, grace, joining>>
  <2>1. AbsenceTypes(offline', grace', over', away', joining')
    BY <1>1, <1>2, <1>6 DEF AbsenceTypes
  <2>. QED BY <1>2, <1>6, <2>1, AbsenceStep
<1>. QED BY <1>4, <1>5, <1>6 DEF Online

\* The clock of the speech runs again with what was left.
LEMMA MediaReadyGood ==
    ASSUME IInv, match.act \in Speaking, match.clock = NoTime
    PROVE  LET t == Arm([match EXCEPT !.clock = match.left], "speech.deadline", Fresh)
           IN  /\ Good(t) /\ t.of = match.of /\ t.op = match.op /\ t.issued = match.issued
               /\ t.act = match.act /\ t.status = match.status /\ t.start = match.start
               /\ ViewLeft(t) = ViewLeft(match)
<1>. DEFINE u == [match EXCEPT !.clock = match.left]
            t == Arm(u, "speech.deadline", Fresh)
<1>1. /\ match \in Records /\ match.of \in Matches /\ fired \in Seq(Entries) /\ Len(fired) <= MaxFired
      /\ ShapeOK(match) /\ CkptOK(match) /\ SpokenOK(match) /\ ClockOK(match) /\ TimerOK(match)
      /\ FailedOK(match)
  BY Parts DEF Good
<1>2. match.status = "RUNNING"
  BY RunningFacts DEF Speaking, Running, Turns, HumanTurn, AgentTurn
<1>3. match.left \in NoTime..Duration /\ match.left # NoTime
  BY <1>1, <1>2 DEF Records, ClockOK
<1>4. u \in Records
  BY <1>1, <1>3, Updated
<1>5. /\ u.of = match.of /\ u.op = match.op /\ u.issued = match.issued /\ u.act = match.act
      /\ u.status = match.status /\ u.idx = match.idx /\ u.ckpt = match.ckpt
      /\ u.failed = match.failed /\ u.from = match.from /\ u.left = match.left
      /\ u.clock = match.left /\ u.used = match.used /\ u.start = match.start
      /\ u.timer = match.timer /\ u.cut = match.cut /\ u.speech = match.speech
  BY ZenonT(60), <1>1 DEF Records
<1>. HIDE DEF u
<1>6. ShapeOK(u) /\ FailedOK(u) /\ CkptOK(u)
  BY <1>1, <1>5 DEF ShapeOK, FailedOK, CkptOK
<1>7. SpokenOK(u)
  BY <1>1, <1>2, <1>3, <1>5 DEF SpokenOK, Speaking, Finalizing, Held
<1>8. ClockOK(u) /\ TimerOK(u)
  BY <1>1, <1>2, <1>3, <1>5 DEF ClockOK, TimerOK, Held
<1>9. Good(u)
  BY <1>4, <1>6, <1>7, <1>8 DEF Good
<1>10. Retimed(u, t)
  BY <1>1, <1>4, Literals, ArmRetimes DEF TimerCommands, Fresh
<1>11. /\ Good(t) /\ t.of = u.of /\ t.op = u.op /\ t.issued = u.issued /\ t.act = u.act
       /\ t.status = u.status /\ t.start = u.start /\ t.left = u.left /\ t.clock = u.clock
  BY <1>1, <1>4, <1>9, <1>10, RetimedFields, RetimedGood
<1>. HIDE DEF t
<1>12. ViewLeft(t) = ViewLeft(match)
  BY <1>3, <1>5, <1>11 DEF ViewLeft, Speaking, Finalizing
<1>. QED BY <1>5, <1>11, <1>12 DEF t, u

\* speech.media_ready runs the clock again, or recognition has failed.
LEMMA MediaSettledStep ==
    ASSUME IInv, MediaSettled
    PROVE  IInv'
<1>1. /\ AbsenceTypes(offline, grace, over, away, joining) /\ match.of \in Matches
      /\ match \in Records /\ Good(match) /\ disruptions \in 0..MaxDisruptions
      /\ OperationTypes(worker, continuing, disruptions, hold) /\ HeldOK(match, hold)
  BY Parts DEF OperationTypes
<1>2. /\ joining' = 0 /\ joining # 0
      /\ offline' = offline /\ grace' = grace /\ over' = over /\ away' = away
      /\ worker' = worker /\ continuing' = continuing /\ hold' = hold
      /\ fired' = fired /\ cached' = cached
      /\ UNCHANGED <<fired, cached, operation, hold>>
  BY DEF MediaSettled, operation
<1>3. AbsenceTypes(offline', grace', over', away', joining')
  BY <1>1, <1>2, Bounds DEF AbsenceTypes
<1>. DEFINE current == /\ Admits("speech.media_ready")
                       /\ match.act = "HUMAN_SPEAKING" /\ match.speech = joining
                       /\ match.speaker \notin match.since \cup offline
<1>4. CASE current /\ match.clock = NoTime /\ disruptions' = disruptions
           /\ match' = Arm([match EXCEPT !.clock = match.left], "speech.deadline", Fresh)
  <2>1. match.op.status # "PENDING" /\ match.act \in Speaking
    BY <1>4, NonePending DEF DuringOperation, Speaking
  <2>. QED BY <1>1, <1>2, <1>3, <1>4, <2>1, MediaReadyGood, PresenceStep
<1>5. CASE current /\ Disrupt /\ match' = AsrFail(match)
  <2>. DEFINE t == AsrFail(match)
  <2>1. match.op.status # "PENDING" /\ match.status = "RUNNING" /\ match.speech # 0
    BY <1>2, <1>5, NonePending, RunningFacts DEF DuringOperation, Running, Turns, HumanTurn
  <2>2. Stops(match, t) /\ t.op = match.op
    BY <1>1, <2>1, AsrFailStops
  <2>. HIDE DEF t
  <2>3. PendingOK(t, worker') /\ HeldOK(t, hold')
    BY <1>1, <1>2, <2>1, <2>2 DEF PendingOK, HeldOK, Held, Terminal
  <2>4. OperationTypes(worker', continuing', disruptions', hold')
    BY <1>1, <1>2, <1>5, DisruptBounded DEF OperationTypes
  <2>. QED BY <1>2, <1>3, <1>5, <2>2, <2>3, <2>4, MatchStep DEF Stops, Speaking, t
<1>6. CASE UNCHANGED <<match, disruptions>>
  BY <1>1, <1>2, <1>3, <1>6, AbsenceStep
<1>. QED BY <1>4, <1>5, <1>6 DEF MediaSettled
-----------------------------------------------------------------------------
(* Time, and the commands of timers *)

\* What an entry that joins the queue of the match s is.
EntryOK(s, e) ==
    /\ e.cmd # "none" /\ e.start <= s.issued
    /\ e.cmd \notin TimerCommands => e.id = Fresh
    /\ e.cmd = "speech.deadline" /\ s.act \in Speaking /\ e.start = s.start => ViewLeft(s) = 0

\* Appending such an entry to the queue, where there is room.
LEMMA QueueAppend ==
    ASSUME MaxFired \in Nat, NEW s, NEW q \in Seq(Entries), NEW e \in Entries, QueueOK(s, q),
           EntryOK(s, e), Len(q) < MaxFired
    PROVE  Append(q, e) \in Seq(Entries) /\ QueueOK(s, Append(q, e))
<1>. DEFINE r == Append(q, e)
<1>1. Len(q) \in Nat /\ r \in Seq(Entries) /\ Len(r) = Len(q) + 1
  OBVIOUS
<1>2. \A i \in 1..Len(q) : r[i] = q[i]
  OBVIOUS
<1>3. r[Len(q) + 1] = e
  OBVIOUS
<1>. HIDE DEF r
<1>4. \A i \in 1..Len(r) : i \in 1..Len(q) \/ i = Len(q) + 1
  BY <1>1
<1>5. \A i \in 1..Len(r) :
         /\ r[i].cmd # "none" /\ r[i].start <= s.issued
         /\ r[i].cmd \notin TimerCommands => r[i].id = Fresh
         /\ r[i].cmd = "speech.deadline" /\ s.act \in Speaking /\ r[i].start = s.start
               => ViewLeft(s) = 0
  BY <1>2, <1>3, <1>4 DEF QueueOK, EntryOK
<1>6. Len(r) <= MaxFired
  BY <1>1
<1>. QED BY <1>1, <1>5, <1>6 DEF r, QueueOK

\* Taking the head off the queue.
LEMMA QueueTail ==
    ASSUME MaxFired \in Nat, NEW s, NEW q \in Seq(Entries), QueueOK(s, q), q # << >>
    PROVE  /\ Tail(q) \in Seq(Entries) /\ QueueOK(s, Tail(q)) /\ Len(Tail(q)) < MaxFired
           /\ Head(q) \in Entries /\ EntryOK(s, Head(q))
<1>. DEFINE r == Tail(q)
<1>1. Len(q) \in Nat /\ r \in Seq(Entries) /\ Len(r) = Len(q) - 1 /\ Len(q) >= 1
  OBVIOUS
<1>2. \A i \in 1..Len(r) : r[i] = q[i + 1] /\ i + 1 \in 1..Len(q)
  OBVIOUS
<1>3. Head(q) = q[1] /\ 1 \in 1..Len(q) /\ q[1] \in Entries
  OBVIOUS
<1>. HIDE DEF r
<1>4. QueueOK(s, r)
  <2>1. \A i \in 1..Len(r) :
           /\ r[i].cmd # "none" /\ r[i].start <= s.issued
           /\ r[i].cmd \notin TimerCommands => r[i].id = Fresh
           /\ r[i].cmd = "speech.deadline" /\ s.act \in Speaking /\ r[i].start = s.start
                 => ViewLeft(s) = 0
    BY <1>2 DEF QueueOK
  <2>2. Len(r) <= MaxFired
    BY <1>1 DEF QueueOK
  <2>. QED BY <2>1, <2>2 DEF QueueOK
<1>5. EntryOK(s, Head(q))
  BY <1>3 DEF QueueOK, EntryOK
<1>6. Len(r) < MaxFired
  BY <1>1 DEF QueueOK
<1>. QED BY <1>1, <1>3, <1>4, <1>5, <1>6 DEF r

\* A tick takes from the clock what it adds to the time spoken.
LEMMA TickStep ==
    ASSUME IInv, Tick
    PROVE  IInv'
<1>. DEFINE c == match.clock - 1
            n == IF match.act \in Speaking THEN match.used + 1 ELSE match.used
            t == [match EXCEPT !.clock = c, !.used = n]
<1>1. /\ match.of \in Matches /\ match \in Records /\ ShapeOK(match) /\ CkptOK(match)
      /\ SpokenOK(match) /\ ClockOK(match) /\ TimerOK(match) /\ FailedOK(match)
      /\ PendingOK(match, worker) /\ HeldOK(match, hold) /\ QueueOK(match, fired)
      /\ fired \in Seq(Entries) /\ disruptions \in 0..MaxDisruptions
  BY Parts DEF Good, OperationTypes
<1>2. match.clock > 0 /\ UNCHANGED <<fired, cached, presence, operation, disruptions, hold>>
  BY DEF Tick
<1>3. match' = t
  BY Zenon, <1>1 DEF Tick, Records
<1>4. c \in NoTime..Duration /\ c >= 0 /\ c = match.clock - 1 /\ match.clock # NoTime
  BY SMTT(60), <1>1, <1>2, Fields, Bounds DEF NoTime
<1>5. /\ n \in Nat /\ match.used \in Nat
      /\ \/ n = match.used /\ match.act \notin Speaking
         \/ match.act \in Speaking /\ n = match.used + 1
  <2>1. match.used \in Nat
    BY <1>1, Fields
  <2>. QED BY <2>1
<1>. HIDE DEF c, n
<1>6. t \in Records
  BY <1>1, <1>4, <1>5, Updated
<1>7. /\ t.of = match.of /\ t.op = match.op /\ t.issued = match.issued /\ t.act = match.act
      /\ t.status = match.status /\ t.idx = match.idx /\ t.ckpt = match.ckpt
      /\ t.failed = match.failed /\ t.from = match.from /\ t.left = match.left
      /\ t.clock = c /\ t.used = n /\ t.start = match.start
      /\ t.timer = match.timer /\ t.cut = match.cut /\ t.speech = match.speech
  BY Zenon, <1>1 DEF Records
<1>. HIDE DEF t
<1>8. c # NoTime
  BY <1>4 DEF NoTime
<1>9. ShapeOK(t) /\ FailedOK(t) /\ CkptOK(t)
  BY <1>1, <1>4, <1>5, <1>7 DEF ShapeOK, FailedOK, CkptOK, Starting
<1>10. ClockOK(t) /\ TimerOK(t)
  BY <1>1, <1>4, <1>7, <1>8 DEF ClockOK, TimerOK
<1>11. SpokenOK(t)
  <2>1. CASE match.act \in Speaking
    <3>1. match.status = "RUNNING" /\ match.clock \in Int /\ Duration \in Int
      BY <1>1, <2>1, RunningFacts, Fields, Bounds
         DEF Speaking, Running, Turns, HumanTurn, AgentTurn
    <3>2. match.cut \/ (match.used <= Duration /\ match.used + match.clock <= Duration)
      BY <1>1, <1>4 DEF SpokenOK
    <3>3. t.cut \/ (t.used <= Duration /\ t.used + t.clock <= Duration)
      BY <1>4, <1>5, <1>7, <2>1, <3>1, <3>2
    <3>4. t.act \in Speaking /\ t.status = "RUNNING" /\ t.clock # NoTime
      BY <1>7, <1>8, <2>1, <3>1
    <3>. QED BY <3>3, <3>4 DEF SpokenOK, Held, Speaking
  <2>2. CASE match.act \notin Speaking
    <3>1. t.used = match.used
      BY <1>5, <1>7, <2>2
    <3>2. match.used + match.clock <= Duration => t.used + t.clock <= Duration
      <4>1. match.clock \in Int /\ Duration \in Int
        BY <1>1, Fields, Bounds
      <4>. QED BY <1>4, <1>5, <1>7, <3>1, <4>1
    <3>. QED BY <1>1, <1>4, <1>7, <1>8, <3>1, <3>2 DEF SpokenOK, Held
  <2>. QED BY <2>1, <2>2
<1>12. Good(t)
  BY <1>6, <1>9, <1>10, <1>11 DEF Good
<1>13. ViewLeft(match) # 0
  BY <1>2, <1>4 DEF ViewLeft
<1>14. QueueOK(t, fired)
  BY <1>1, <1>6, <1>7, <1>13, QueueKept, Fields
<1>15. PendingOK(t, worker) /\ HeldOK(t, hold)
  BY <1>1, <1>7 DEF PendingOK, HeldOK
<1>. QED BY <1>1, <1>2, <1>3, <1>7, <1>12, <1>14, <1>15, Replaced
\* The timer that fires is forgotten, and its command joins the queue.
LEMMA FireStep ==
    ASSUME IInv, Fire
    PROVE  IInv'
<1>. DEFINE d == IF match.timer.cmd = "human.start_timeout" THEN "passed" ELSE match.due
            e == match.timer
            u == [match EXCEPT !.due = d]
            t == [match EXCEPT !.timer = NoTimer, !.due = d]
<1>1. /\ match.of \in Matches /\ match \in Records /\ Good(match) /\ TimerOK(match)
      /\ PendingOK(match, worker) /\ HeldOK(match, hold) /\ QueueOK(match, fired)
      /\ QueueTypes(fired, cached) /\ fired \in Seq(Entries) /\ MaxFired \in Nat
      /\ AbsenceTypes(offline, grace, over, away, joining)
      /\ OperationTypes(worker, continuing, disruptions, hold)
  BY Parts, Bounds DEF Good
<1>2. /\ e # NoTimer /\ Len(fired) < MaxFired /\ fired' = Append(fired, e)
      /\ e.cmd \in {"preparation.elapsed", "speech.deadline"} => match.clock = 0
      /\ offline' = offline /\ grace' = grace /\ over' = over /\ away' = away
      /\ joining' = joining /\ worker' = worker /\ continuing' = continuing
      /\ cached' = cached /\ disruptions' = disruptions /\ hold' = hold
  BY DEF Fire, Queue, presence, operation
<1>3. match' = t
  BY Zenon, <1>1 DEF Fire, Records
<1>4. d \in {"none", "waiting", "passed"} /\ e \in Entries
  BY <1>1 DEF Records
<1>5. EntryOK(match, e)
  <2>1. e.cmd \in TimerCommands /\ e.start <= match.issued
    BY <1>1, <1>2 DEF TimerOK
  <2>2. e.cmd = "speech.deadline" => ViewLeft(match) = 0
    BY <1>2 DEF ViewLeft, NoTime
  <2>. QED BY <2>1, <2>2 DEF EntryOK, TimerCommands
<1>. HIDE DEF d, e
<1>6. u \in Records
  BY <1>1, <1>4, Updated
<1>7. Retimed(u, t)
  <2>1. match.guard \in 0..(MaxFired + 1)
    BY <1>1 DEF Records
  <2>2. t = [u EXCEPT !.guard = match.guard, !.timer = NoTimer]
    BY Zenon, <1>1 DEF Records
  <2>. QED BY <1>1, <2>1, <2>2, NoTimerFacts DEF Retimed
<1>8. /\ u.of = match.of /\ u.op = match.op /\ u.issued = match.issued /\ u.act = match.act
      /\ u.status = match.status /\ u.idx = match.idx /\ u.ckpt = match.ckpt
      /\ u.failed = match.failed /\ u.from = match.from /\ u.left = match.left
      /\ u.clock = match.clock /\ u.used = match.used /\ u.start = match.start
      /\ u.timer = match.timer /\ u.cut = match.cut /\ u.speech = match.speech
  BY Zenon, <1>1 DEF Records
<1>. HIDE DEF u, t
<1>9. Good(u)
  <2>1. ShapeOK(u) /\ FailedOK(u) /\ CkptOK(u)
    BY <1>1, <1>8 DEF Good, ShapeOK, FailedOK, CkptOK
  <2>2. SpokenOK(u) /\ ClockOK(u) /\ TimerOK(u)
    BY <1>1, <1>8 DEF Good, SpokenOK, ClockOK, TimerOK
  <2>. QED BY <1>6, <2>1, <2>2 DEF Good
<1>10. /\ Good(t) /\ t \in Records /\ t.of = match.of /\ t.op = match.op
       /\ t.issued = match.issued /\ t.act = match.act /\ t.status = match.status
       /\ t.idx = match.idx /\ t.failed = match.failed /\ t.from = match.from
       /\ t.start = match.start /\ t.speech = match.speech /\ t.left = match.left
       /\ t.clock = match.clock
  BY <1>1, <1>6, <1>7, <1>8, <1>9, RetimedFields, RetimedGood
<1>11. ViewLeft(t) = ViewLeft(match)
  BY <1>10 DEF ViewLeft
<1>12. fired' \in Seq(Entries) /\ QueueOK(match, fired')
  BY <1>1, <1>2, <1>4, <1>5, QueueAppend
<1>13. QueueOK(t, fired')
  BY <1>1, <1>10, <1>11, <1>12, QueueKept, Fields
<1>14. PendingOK(t, worker) /\ HeldOK(t, hold)
  BY <1>1, <1>10 DEF PendingOK, HeldOK
<1>15. QueueTypes(fired', cached')
  BY <1>1, <1>2, <1>12 DEF QueueTypes
<1>. QED BY <1>1, <1>2, <1>3, <1>10, <1>13, <1>14, <1>15, Lift

\* A grace period ends.
LEMMA GraceFiresStep ==
    ASSUME IInv, NEW u \in Users, GraceFires(u)
    PROVE  IInv'
<1>. DEFINE e == [NoTimer EXCEPT !.cmd = "offline.expired", !.user = u]
<1>1. /\ match.of \in Matches /\ match \in Records /\ Good(match)
      /\ PendingOK(match, worker) /\ HeldOK(match, hold) /\ QueueOK(match, fired)
      /\ QueueTypes(fired, cached) /\ fired \in Seq(Entries) /\ MaxFired \in Nat
      /\ AbsenceTypes(offline, grace, over, away, joining)
      /\ OperationTypes(worker, continuing, disruptions, hold)
  BY Parts, Bounds
<1>2. /\ Len(fired) < MaxFired /\ fired' = Append(fired, e)
      /\ grace' = grace \ {u} /\ over' = over \cup {u}
      /\ match' = match /\ cached' = cached /\ offline' = offline /\ away' = away
      /\ joining' = joining /\ worker' = worker /\ continuing' = continuing
      /\ disruptions' = disruptions /\ hold' = hold
  BY DEF GraceFires, Queue, operation
<1>3. /\ e.cmd = "offline.expired" /\ e.id = NoTimer.id /\ e.start = NoTimer.start
      /\ NoTimer.id = Fresh /\ NoTimer.start = 0
  <2>1. NoTimer \in Entries /\ NoTimer.start = 0 /\ NoTimer.id = Fresh
    BY <1>1, NoTimerFacts DEF NoTimer
  <2>. QED BY Zenon, <2>1 DEF Entries
<1>4. e \in Entries
  <2>1. NoTimer \in Entries
    BY <1>1, NoTimerFacts
  <2>2. "offline.expired" \in TimerCommands \cup {"none", "offline.expired", "system.error"}
        /\ u \in Users \cup {NoOne}
    OBVIOUS
  <2>. QED BY Zenon, <2>1, <2>2 DEF Entries
<1>. HIDE DEF e
<1>5. EntryOK(match, e)
  BY <1>1, <1>3, Fields DEF EntryOK
<1>6. fired' \in Seq(Entries) /\ QueueOK(match, fired')
  BY <1>1, <1>2, <1>4, <1>5, QueueAppend
<1>7. QueueTypes(fired', cached')
  BY <1>1, <1>2, <1>6 DEF QueueTypes
<1>8. AbsenceTypes(offline', grace', over', away', joining')
  BY <1>1, <1>2 DEF AbsenceTypes
<1>. QED BY <1>1, <1>2, <1>6, <1>7, <1>8, Lift

\* The transaction of a queued command fails: its error joins the queue.
LEMMA TransactionFailsStep ==
    ASSUME IInv, TransactionFails
    PROVE  IInv'
<1>. DEFINE h == Head(fired)
            e == [h EXCEPT !.cmd = "system.error", !.id = Fresh]
<1>1. /\ match.of \in Matches /\ match \in Records /\ Good(match)
      /\ PendingOK(match, worker) /\ HeldOK(match, hold) /\ QueueOK(match, fired)
      /\ QueueTypes(fired, cached) /\ fired \in Seq(Entries) /\ MaxFired \in Nat
      /\ AbsenceTypes(offline, grace, over, away, joining)
      /\ OperationTypes(worker, continuing, disruptions, hold)
  BY Parts, Bounds
<1>2. /\ fired # << >> /\ fired' = Append(Tail(fired), e)
      /\ match' = match /\ cached' = cached /\ offline' = offline /\ grace' = grace
      /\ over' = over /\ away' = away
      /\ joining' = joining /\ worker' = worker /\ continuing' = continuing /\ hold' = hold
  BY DEF TransactionFails, presence, operation
<1>3. disruptions' \in 0..MaxDisruptions
  BY DisruptBounded DEF TransactionFails
<1>4. /\ Tail(fired) \in Seq(Entries) /\ QueueOK(match, Tail(fired))
      /\ Len(Tail(fired)) < MaxFired /\ h \in Entries /\ EntryOK(match, h)
  BY <1>1, <1>2, QueueTail
<1>. HIDE DEF h
<1>5. /\ e.cmd = "system.error" /\ e.id = Fresh /\ e.start = h.start
      /\ e.speech = h.speech /\ e.guard = h.guard /\ e.user = h.user
  BY Zenon, <1>4 DEF Entries
<1>6. e \in Entries
  <2>1. Fresh \in 0..Len(Plan)
    BY <1>1, Bounds DEF Fresh
  <2>2. "system.error" \in TimerCommands \cup {"none", "offline.expired", "system.error"}
    OBVIOUS
  <2>. QED BY Zenon, <1>4, <2>1, <2>2 DEF Entries
<1>. HIDE DEF e
<1>7. EntryOK(match, e)
  BY <1>4, <1>5 DEF EntryOK
<1>8. fired' \in Seq(Entries) /\ QueueOK(match, fired')
  BY <1>1, <1>2, <1>4, <1>6, <1>7, QueueAppend
<1>9. QueueTypes(fired', cached')
  BY <1>1, <1>2, <1>8 DEF QueueTypes
<1>10. OperationTypes(worker', continuing', disruptions', hold')
  BY <1>1, <1>2, <1>3 DEF OperationTypes
<1>. QED BY <1>1, <1>2, <1>8, <1>9, <1>10, Lift
\* A command of a timer is admitted only before the match is held, but for the
\* one that ends the countdown of a resume.
LEMMA TimerAdmitted ==
    ASSUME IInv, NEW e \in Entries, Admits(e.cmd)
    PROVE  /\ match.op.status # "PENDING"
           /\ \/ match.status \in Starting \cup {"RUNNING"}
              \/ match.status = "PAUSED" /\ e.cmd = "resume.elapsed"
<1>1. e.cmd \in TimerCommands \cup {"none", "offline.expired", "system.error"}
  BY Zenon DEF Entries
<1>2. /\ e.cmd \notin DuringOperation /\ e.cmd \notin Control \cup Emergency
      /\ e.cmd # "member.online"
  BY <1>1 DEF TimerCommands, DuringOperation, Control, Emergency
<1>3. match.status \in Statuses
  BY Parts DEF Records
<1>. QED BY <1>2, <1>3 DEF Admits, Admitted, Statuses, Starting, Terminal

\* What the handler of a timer command makes of the match: it leaves it, or
\* nobody speaks in what it leaves; only a running match and the countdown of
\* a resume change.
Outcome(t) ==
    /\ Good(t) /\ t.of = match.of /\ t.op = match.op /\ t.issued = match.issued
    /\ \/ t = match
       \/ /\ t.act \notin Speaking
          /\ match.status \in Starting \cup {"RUNNING"} \/ match.act = "RESUME_COUNTDOWN"

\* The match as it was.
LEMMA OutcomeSame ==
    ASSUME IInv
    PROVE  Outcome(match)
BY Parts DEF Outcome

\* An action is begun, or the match is held for an operator.
LEMMA OutcomeCases ==
    ASSUME IInv, match.status \in Starting \cup {"RUNNING"}, NEW t,
           t.op = match.op, Begins(match, t) \/ Stops(match, t)
    PROVE  Outcome(t)
BY DEF Outcome, Begins, Stops, Entered, Speaking

\* The turn of an absent or a silent speaker is held.
LEMMA TurnHeld ==
    ASSUME IInv, match.act \in {"HUMAN_SPEAKING", "HUMAN_READY_TO_START"}, NEW u \in Records,
           u.of = match.of, u.op = match.op, u.issued = match.issued,
           u.status = "PAUSED", u.act = "RECOVERY_REQUIRED", u.from = match.act,
           u.left = ViewLeft(match), u.clock = match.clock, u.idx = match.idx,
           u.ckpt = match.ckpt, u.used = match.used, u.cut = match.cut,
           u.speech = match.speech, u.start = match.start, u.timer = match.timer,
           u.failed = match.failed
    PROVE  Outcome(Cancel(u)) /\ Cancel(u).act = "RECOVERY_REQUIRED"
<1>1. match.of \in Matches /\ Good(match) /\ TimerOK(match)
  BY Parts DEF Good
<1>2. match.status = "RUNNING" /\ match.act \notin Finalizing
  BY RunningFacts DEF Running, Turns, HumanTurn, Finalizing
<1>3. TimerOK(u)
  BY <1>1 DEF TimerOK
<1>4. u.left = (IF match.clock # NoTime THEN match.clock ELSE match.left)
  BY <1>2 DEF ViewLeft
<1>5. Good(u)
  BY <1>1, <1>2, <1>3, <1>4, InterruptGood DEF Held
<1>6. Stops(match, u)
  BY <1>5 DEF Stops, Held
<1>7. Stops(match, Cancel(u)) /\ Cancel(u).op = match.op
  BY <1>1, <1>6, StopsRetimed
<1>. QED BY <1>2, <1>7, OutcomeCases DEF Stops

\* The countdown of the start, and a preparation, come to an end.
LEMMA CountdownOutcome ==
    ASSUME IInv, NEW e, NEW t \in CountdownElapsed(e)
    PROVE  Outcome(t)
<1>1. /\ match.of \in Matches /\ match \in Records /\ Good(match)
      /\ fired \in Seq(Entries) /\ Len(fired) <= MaxFired
  BY Parts
<1>2. CASE match.status = "START_COUNTDOWN"
  <2>. DEFINE s == [match EXCEPT !.status = "RUNNING"]
  <2>1. t = Enter(s)
    BY <1>2 DEF CountdownElapsed
  <2>2. s \in Records
    BY <1>1, Literals, Updated
  <2>3. /\ s.of = match.of /\ s.op = match.op /\ s.issued = match.issued /\ s.status = "RUNNING"
        /\ s.idx = match.idx /\ s.ckpt = match.ckpt /\ s.failed = match.failed
        /\ s.clock = match.clock /\ s.used = match.used /\ s.start = match.start
        /\ s.timer = match.timer
    BY Zenon, <1>1 DEF Records
  <2>. HIDE DEF s
  <2>4. /\ match.idx = 1 /\ match.ckpt = 0 /\ match.failed = 0 /\ match.clock = NoTime
        /\ match.used = 0 /\ TimerOK(match)
    BY <1>1, <1>2 DEF Good, ShapeOK, Starting
  <2>5. Entering(s)
    <3>1. s.used <= Duration /\ TimerOK(s)
      BY <1>1, <2>3, <2>4, Bounds DEF TimerOK
    <3>. QED BY <2>2, <2>3, <2>4, <3>1 DEF Entering
  <2>6. Begins(s, t)
    BY <1>1, <2>1, <2>3, <2>4, <2>5, EnterBegins
  <2>7. Begins(match, t) /\ t.op = match.op
    BY <2>3, <2>6 DEF Begins
  <2>. QED BY <1>2, <2>7, OutcomeCases DEF Starting
<1>3. CASE match.status # "START_COUNTDOWN"
  BY <1>3, OutcomeSame DEF CountdownElapsed
<1>. QED BY <1>2, <1>3

\* The preparation is over and the next action is entered.
LEMMA PreparationOutcome ==
    ASSUME IInv, NEW e, NEW t \in PreparationElapsed(e)
    PROVE  Outcome(t)
<1>1. CASE match.act = "PREPARING"
  <2>1. match.act \in Running /\ t = Advance(match)
    BY <1>1 DEF Running, PreparationElapsed
  <2>2. match.status = "RUNNING"
    BY <2>1, RunningFacts
  <2>3. Begins(match, t)
    BY <2>1, Parts, RunningFacts, AdvanceBegins
  <2>4. t.op = match.op
    BY <2>3 DEF Begins
  <2>. QED BY <2>2, <2>3, <2>4, OutcomeCases
<1>2. CASE match.act # "PREPARING"
  BY <1>2, OutcomeSame DEF PreparationElapsed
<1>. QED BY <1>1, <1>2

\* The host's audio does not end in its time.
LEMMA HostOutcome ==
    ASSUME IInv, NEW e, NEW t \in HostElapsed(e)
    PROVE  Outcome(t)
<1>1. CASE match.act = "HOST_ANNOUNCING" /\ t = SystemError(match)
  <2>1. match.status = "RUNNING"
    BY <1>1, RunningFacts DEF Running
  <2>2. Stops(match, t) /\ t.op = match.op
    BY <1>1, <2>1, Parts, SystemErrorStops
  <2>. QED BY <2>1, <2>2, OutcomeCases
<1>2. CASE t = match
  BY <1>2, OutcomeSame
<1>. QED BY <1>1, <1>2 DEF HostElapsed

\* The time to begin the speech is over: a first warning, then the pause.
LEMMA StartTimeoutOutcome ==
    ASSUME IInv, NEW e, NEW t \in HumanStartTimeout(e)
    PROVE  Outcome(t)
<1>1. /\ match.of \in Matches /\ match \in Records /\ Good(match)
      /\ fired \in Seq(Entries) /\ Len(fired) <= MaxFired
  BY Parts
<1>2. CASE match.act = "HUMAN_READY_TO_START" /\ t = Arm(match, "human.start_timeout", Fresh)
  <2>1. Retimed(match, t)
    BY <1>1, <1>2, Literals, ArmRetimes DEF TimerCommands, Fresh
  <2>2. Good(t) /\ t.of = match.of /\ t.op = match.op /\ t.issued = match.issued /\ t.act = match.act
    BY <1>1, <2>1, RetimedFields, RetimedGood
  <2>3. match.status = "RUNNING"
    BY <1>2, RunningFacts DEF Running, Turns, HumanTurn
  <2>. QED BY <1>2, <2>2, <2>3 DEF Outcome, Speaking
<1>3. CASE /\ match.act = "HUMAN_READY_TO_START"
           /\ t = Cancel([match EXCEPT !.status = "PAUSED", !.act = "RECOVERY_REQUIRED",
                                       !.from = "HUMAN_READY_TO_START", !.due = "none"])
  <2>. DEFINE u == [match EXCEPT !.status = "PAUSED", !.act = "RECOVERY_REQUIRED",
                                 !.from = "HUMAN_READY_TO_START", !.due = "none"]
  <2>1. u \in Records
    <3>1. /\ "PAUSED" \in Statuses /\ "RECOVERY_REQUIRED" \in ActionStates
          /\ "HUMAN_READY_TO_START" \in ActionStates \cup {"none"}
      BY DEF Statuses, ActionStates, HumanTurn
    <3>. QED BY <1>1, <3>1, Updated
  <2>2. /\ u.of = match.of /\ u.op = match.op /\ u.issued = match.issued /\ u.status = "PAUSED"
        /\ u.act = "RECOVERY_REQUIRED" /\ u.from = "HUMAN_READY_TO_START" /\ u.left = match.left
        /\ u.clock = match.clock /\ u.idx = match.idx /\ u.ckpt = match.ckpt
        /\ u.used = match.used /\ u.cut = match.cut
        /\ u.speech = match.speech /\ u.start = match.start /\ u.timer = match.timer
        /\ u.failed = match.failed
    BY Zenon, <1>1 DEF Records
  <2>. HIDE DEF u
  <2>3. match.status = "RUNNING" /\ match.clock = NoTime
    <3>1. match.status = "RUNNING"
      BY <1>3, RunningFacts DEF Running, Turns, HumanTurn
    <3>. QED BY <1>1, <1>3, <3>1 DEF Good, ClockOK, Speaking
  <2>4. ViewLeft(match) = match.left
    BY <1>3, <2>3 DEF ViewLeft, Finalizing
  <2>5. Outcome(Cancel(u))
    BY <1>3, <2>1, <2>2, <2>4, TurnHeld
  <2>. QED BY <1>3, <2>5 DEF u
<1>4. CASE t = match
  BY <1>4, OutcomeSame
<1>. QED BY <1>2, <1>3, <1>4 DEF HumanStartTimeout
\* The time of the speech is up.
LEMMA DeadlineOutcome ==
    ASSUME IInv, NEW e, NEW t \in SpeechDeadline(e)
    PROVE  Outcome(t)
<1>1. ASSUME match.act \in Speaking, NEW f \in Finalizing, t = Finish(match, f)
      PROVE  Outcome(t)
  <2>1. match.status = "RUNNING"
    BY <1>1, RunningFacts DEF Speaking, Running, Turns, HumanTurn, AgentTurn
  <2>2. /\ Good(t) /\ t.of = match.of /\ t.op = match.op /\ t.issued = match.issued /\ t.act = f
    BY <1>1, <2>1, Parts, FinishGood
  <2>3. f \notin Speaking
    BY DEF Finalizing, Speaking
  <2>. QED BY <2>1, <2>2, <2>3 DEF Outcome
<1>2. \/ t = match
      \/ match.act \in Speaking /\ \E f \in Finalizing : t = Finish(match, f)
  BY DEF SpeechDeadline, Speaking, Finalizing
<1>. QED BY <1>1, <1>2, OutcomeSame

\* The countdown of a resume is over: the turn runs again, or its speaker is
\* found absent and the match stays held.
LEMMA ResumeOutcome ==
    ASSUME IInv, match.status = "PAUSED", NEW e, NEW t \in ResumeElapsed(e)
    PROVE  Outcome(t)
<1>1. /\ match.of \in Matches /\ match \in Records /\ Good(match)
      /\ fired \in Seq(Entries) /\ Len(fired) <= MaxFired
  BY Parts
<1>2. CASE match.act = "RESUME_COUNTDOWN" /\ t = Resumed(match)
  BY <1>1, <1>2, ResumedGood DEF Outcome
<1>3. CASE match.act = "RESUME_COUNTDOWN" /\ t = [match EXCEPT !.act = "RECOVERY_REQUIRED"]
  <2>1. t \in Records
    BY <1>1, <1>3, Literals, Updated
  <2>2. /\ t.of = match.of /\ t.op = match.op /\ t.issued = match.issued /\ t.status = match.status
        /\ t.act = "RECOVERY_REQUIRED" /\ t.from = match.from /\ t.left = match.left
        /\ t.clock = match.clock /\ t.idx = match.idx /\ t.ckpt = match.ckpt
        /\ t.used = match.used /\ t.cut = match.cut
        /\ t.speech = match.speech /\ t.start = match.start /\ t.timer = match.timer
        /\ t.failed = match.failed
    BY Zenon, <1>1, <1>3 DEF Records
  <2>3. /\ ShapeOK(match) /\ CkptOK(match) /\ SpokenOK(match) /\ ClockOK(match) /\ TimerOK(match)
        /\ FailedOK(match)
    BY <1>1 DEF Good
  <2>4. ShapeOK(t) /\ FailedOK(t) /\ CkptOK(t)
    BY <1>3, <2>2, <2>3 DEF ShapeOK, FailedOK, CkptOK, Starting, Held, Terminal
  <2>5. SpokenOK(t) /\ ClockOK(t) /\ TimerOK(t)
    BY <1>3, <2>2, <2>3 DEF SpokenOK, ClockOK, TimerOK, Held, Speaking, Finalizing
  <2>6. Good(t)
    BY <2>1, <2>4, <2>5 DEF Good
  <2>. QED BY <1>3, <2>2, <2>6 DEF Outcome, Speaking
<1>4. CASE t = match
  BY <1>4, OutcomeSame
<1>. QED BY <1>2, <1>3, <1>4 DEF ResumeElapsed

\* The speaker has been absent for too long.
LEMMA ExpiredOutcome ==
    ASSUME IInv, NEW e \in Entries, NEW t \in OfflineExpired(e)
    PROVE  Outcome(t) /\ (t = match \/ t.act = "RECOVERY_REQUIRED")
<1>1. /\ match.of \in Matches /\ match \in Records
  BY Parts
<1>. DEFINE y == match.since \ {e.user}
            l == ViewLeft(match)
            u == [match EXCEPT !.status = "PAUSED", !.act = "RECOVERY_REQUIRED",
                      !.from = match.act, !.since = y, !.left = l, !.due = "none"]
<1>2. \/ t = match
      \/ match.act \in {"HUMAN_SPEAKING", "HUMAN_READY_TO_START"} /\ t = Cancel(u)
  <2>1. u = [match EXCEPT !.status = "PAUSED", !.act = "RECOVERY_REQUIRED",
                      !.from = match.act, !.since = @ \ {e.user}, !.left = ViewLeft(match),
                      !.due = "none"]
    BY Zenon, <1>1 DEF Records
  <2>. HIDE DEF u
  <2>. QED BY <2>1 DEF OfflineExpired
<1>3. CASE match.act \in {"HUMAN_SPEAKING", "HUMAN_READY_TO_START"} /\ t = Cancel(u)
  <2>1. y \in SUBSET Users /\ l \in NoTime..Duration
    BY <1>1, Literals DEF Records, ViewLeft
  <2>2. /\ "PAUSED" \in Statuses /\ "RECOVERY_REQUIRED" \in ActionStates
        /\ match.act \in ActionStates \cup {"none"}
    BY <1>1 DEF Records, Statuses, ActionStates
  <2>. HIDE DEF y, l
  <2>3. u \in Records
    BY ZenonT(60), <1>1, <2>1, <2>2, Updated
  <2>4. /\ u.of = match.of /\ u.op = match.op /\ u.issued = match.issued /\ u.status = "PAUSED"
        /\ u.act = "RECOVERY_REQUIRED" /\ u.from = match.act /\ u.left = l
        /\ u.clock = match.clock /\ u.idx = match.idx /\ u.ckpt = match.ckpt
        /\ u.used = match.used /\ u.cut = match.cut
        /\ u.speech = match.speech /\ u.start = match.start /\ u.timer = match.timer
        /\ u.failed = match.failed
    BY Zenon, <1>1 DEF Records
  <2>. HIDE DEF u
  <2>. QED BY <1>3, <2>3, <2>4, TurnHeld DEF l
<1>. QED BY <1>2, <1>3, OutcomeSame

\* The error of a failed timer transaction.
LEMMA ErrorOutcome ==
    ASSUME IInv, match.status \in Starting \cup {"RUNNING"}, match.op.status # "PENDING",
           NEW e, NEW t \in TimerError(e)
    PROVE  Outcome(t) /\ (t = match \/ t.act = "RECOVERY_REQUIRED")
<1>1. match.of \in Matches /\ Good(match)
  BY Parts
<1>2. CASE match.act = "HUMAN_SPEAKING" /\ t = AsrFail(match)
  <2>1. match.status = "RUNNING"
    BY <1>2, RunningFacts DEF Running, Turns, HumanTurn
  <2>2. Stops(match, t) /\ t.op = match.op
    BY <1>1, <1>2, <2>1, AsrFailStops
  <2>. QED BY <2>1, <2>2, OutcomeCases DEF Stops
<1>3. CASE t = SystemError(match)
  <2>1. Stops(match, t) /\ t.op = match.op
    BY <1>1, <1>3, SystemErrorStops
  <2>. QED BY <2>1, OutcomeCases DEF Stops
<1>4. CASE t = match
  BY <1>4, OutcomeSame
<1>. QED BY <1>2, <1>3, <1>4 DEF TimerError

\* Every command of the queue, when it is admitted.
LEMMA HandledOutcome ==
    ASSUME IInv, NEW e \in Entries, e.cmd # "none", Admits(e.cmd), NEW t \in Handled(e)
    PROVE  Outcome(t)
<1>1. e.cmd \in TimerCommands \cup {"offline.expired", "system.error"}
  BY Zenon DEF Entries
<1>2. CASE e.cmd = "countdown.elapsed"
  BY <1>2, CountdownOutcome DEF Handled
<1>3. CASE e.cmd = "host.elapsed"
  BY <1>3, HostOutcome DEF Handled
<1>4. CASE e.cmd = "preparation.elapsed"
  BY <1>4, PreparationOutcome DEF Handled
<1>5. CASE e.cmd = "human.start_timeout"
  BY <1>5, StartTimeoutOutcome DEF Handled
<1>6. CASE e.cmd = "speech.deadline"
  BY <1>6, DeadlineOutcome DEF Handled
<1>7. CASE e.cmd = "resume.elapsed"
  <2>1. t \in ResumeElapsed(e)
    BY <1>7 DEF Handled
  <2>2. CASE match.status = "PAUSED"
    BY <2>1, <2>2, ResumeOutcome
  <2>3. CASE match.status # "PAUSED"
    <3>1. match.status \in Starting \cup {"RUNNING"}
      BY <2>3, TimerAdmitted
    <3>2. match.act # "RESUME_COUNTDOWN"
      BY <3>1, Parts DEF Good, ShapeOK, Running, Turns, HumanTurn, AgentTurn
    <3>. QED BY <2>1, <3>2, OutcomeSame DEF ResumeElapsed
  <2>. QED BY <2>2, <2>3
<1>8. CASE e.cmd = "offline.expired"
  BY <1>8, ExpiredOutcome DEF Handled
<1>9. CASE e.cmd = "system.error"
  BY <1>9, TimerAdmitted, ErrorOutcome DEF Handled
<1>. QED BY <1>1, <1>2, <1>3, <1>4, <1>5, <1>6, <1>7, <1>8, <1>9 DEF TimerCommands

\* What the delivery of a command makes of the match.
LEMMA DeliverOutcome ==
    ASSUME IInv, Deliver
    PROVE  Outcome(match')
<1>. DEFINE e == Head(fired)
<1>1. match.of \in Matches /\ QueueOK(match, fired) /\ fired \in Seq(Entries) /\ MaxFired \in Nat
  BY Parts, Bounds
<1>2. e \in Entries /\ EntryOK(match, e)
  BY <1>1, QueueTail DEF Deliver
<1>3. IF Repeated(e) \/ ~Admits(e.cmd) \/ Early(e)
        THEN match' = match ELSE match' \in Handled(e)
  BY Zenon DEF Deliver
<1>. HIDE DEF e
<1>. QED BY <1>2, <1>3, HandledOutcome, OutcomeSame DEF EntryOK

\* A pause that was acknowledged is not lifted by a queued command.
LEMMA DeliverStep ==
    ASSUME IInv, Deliver
    PROVE  IInv'
<1>. DEFINE e == Head(fired)
<1>1. /\ match.of \in Matches /\ match \in Records /\ Good(match)
      /\ PendingOK(match, worker) /\ HeldOK(match, hold) /\ QueueOK(match, fired)
      /\ QueueTypes(fired, cached) /\ fired \in Seq(Entries) /\ MaxFired \in Nat
      /\ AbsenceTypes(offline, grace, over, away, joining)
      /\ OperationTypes(worker, continuing, disruptions, hold)
  BY Parts, Bounds
<1>2. /\ fired # << >> /\ fired' = Tail(fired)
      /\ hold' = IF match.status # "RUNNING" /\ match'.status = "RUNNING" THEN "none" ELSE hold
      /\ offline' = offline /\ over' = over /\ away' = away
      /\ joining' = joining /\ worker' = worker /\ continuing' = continuing
      /\ disruptions' = disruptions
  BY DEF Deliver, operation
<1>3. /\ Tail(fired) \in Seq(Entries) /\ QueueOK(match, Tail(fired))
      /\ e \in Entries /\ EntryOK(match, e)
  BY <1>1, <1>2, QueueTail
<1>4. /\ IF Repeated(e) \/ ~Admits(e.cmd) \/ Early(e)
           THEN match' = match ELSE match' \in Handled(e)
      /\ cached' = IF e.id # Fresh /\ Admits(e.cmd) /\ ~Raises(e)
                     THEN cached \cup {<<e.cmd, e.id>>} ELSE cached
      /\ grace' = IF ~Repeated(e) /\ Admits(e.cmd) /\ Early(e) THEN grace \cup {e.user} ELSE grace
  BY Zenon DEF Deliver
<1>. HIDE DEF e
<1>5. Outcome(match')
  BY DeliverOutcome
<1>6. match' = match \/ (Admits(e.cmd) /\ match.op.status # "PENDING")
  BY <1>3, <1>4, TimerAdmitted
<1>7. Good(match') /\ match' \in Records /\ match'.of = match.of /\ match'.op = match.op
      /\ match'.issued = match.issued
  BY <1>5 DEF Outcome, Good
<1>8. PendingOK(match', worker')
  BY <1>1, <1>2, <1>6, <1>7 DEF PendingOK
<1>9. HeldOK(match', hold')
  <2>1. SUFFICES ASSUME hold' = "held" PROVE HeldOK(match', hold')
    BY DEF HeldOK
  <2>2. hold = "held"
    BY <1>2, <2>1
  <2>3. match' = match
    BY <1>1, <1>5, <2>2 DEF HeldOK, Outcome, Held, Terminal, Starting
  <2>. QED BY <1>1, <2>2, <2>3 DEF HeldOK
<1>10. QueueOK(match', fired')
  <2>1. CASE match' = match
    BY <1>2, <1>3, <2>1
  <2>2. CASE match' # match
    <3>1. match'.act \notin Speaking
      BY <1>5, <2>2 DEF Outcome
    <3>. DEFINE t == match'
                q == fired'
    <3>2. t \in Records /\ t.issued >= match.issued /\ t.act \notin Speaking
          /\ q \in Seq(Entries) /\ QueueOK(match, q)
      BY <1>1, <1>2, <1>3, <1>7, <3>1, Fields
    <3>. HIDE DEF t, q
    <3>3. QueueOK(t, q)
      BY <1>1, <3>2, QueueKept
    <3>. QED BY <3>3 DEF t, q
  <2>. QED BY <2>1, <2>2
<1>11. QueueTypes(fired', cached')
  <2>1. cached' \in SUBSET (TimerCommands \X (1..Len(Plan)))
    <3>1. cached \in SUBSET (TimerCommands \X (1..Len(Plan)))
      BY <1>1 DEF QueueTypes
    <3>2. CASE e.id # Fresh
      <4>1. e.cmd \in TimerCommands /\ e.id \in 0..Len(Plan)
        BY <1>3, <3>2 DEF EntryOK, Entries
      <4>2. e.id \in 1..Len(Plan)
        BY <1>1, <3>2, <4>1, Bounds DEF Fresh
      <4>. QED BY <1>4, <3>1, <4>1, <4>2
    <3>3. CASE e.id = Fresh
      BY <1>4, <3>1, <3>3
    <3>. QED BY <3>2, <3>3
  <2>. QED BY <1>2, <1>3, <2>1 DEF QueueTypes
<1>12. AbsenceTypes(offline', grace', over', away', joining')
  BY <1>1, <1>2, <1>4 DEF AbsenceTypes, Early
<1>13. OperationTypes(worker', continuing', disruptions', hold')
  BY <1>1, <1>2 DEF OperationTypes, Holds
<1>. QED BY <1>7, <1>8, <1>9, <1>10, <1>11, <1>12, <1>13, Lift
-----------------------------------------------------------------------------
(* The restart of the process *)

\* What the row of the match says when the process has died: its timer and its
\* running clock are gone.
LostTo(t) ==
    /\ t \in Records /\ TimerOK(t) /\ t.of = match.of /\ t.op = match.op
    /\ t.issued = match.issued /\ t.act = match.act /\ t.status = match.status
    /\ t.idx = match.idx /\ t.ckpt = match.ckpt /\ t.failed = match.failed
    /\ t.from = match.from /\ t.left = match.left /\ t.clock = NoTime
    /\ t.used = match.used /\ t.cut = match.cut /\ t.speech = match.speech
    /\ t.speaker = match.speaker

\* All but the clock and the timer is in the row.
LEMMA RowSurvives ==
    ASSUME IInv
    PROVE  LostTo(Cancel([match EXCEPT !.clock = NoTime, !.due = "none"]))
<1>. DEFINE u == [match EXCEPT !.clock = NoTime, !.due = "none"]
            t == Cancel(u)
<1>1. match.of \in Matches /\ match \in Records /\ TimerOK(match)
  BY Parts DEF Good
<1>2. u \in Records
  BY <1>1, Literals, Updated
<1>3. /\ u.of = match.of /\ u.op = match.op /\ u.issued = match.issued /\ u.act = match.act
      /\ u.status = match.status /\ u.idx = match.idx /\ u.ckpt = match.ckpt
      /\ u.failed = match.failed /\ u.from = match.from /\ u.left = match.left
      /\ u.clock = NoTime /\ u.used = match.used /\ u.start = match.start
      /\ u.timer = match.timer /\ u.cut = match.cut /\ u.speech = match.speech
      /\ u.speaker = match.speaker
  BY Zenon, <1>1 DEF Records
<1>. HIDE DEF u
<1>4. Retimed(u, t)
  BY <1>1, <1>2, CancelRetimes
<1>5. /\ t \in Records /\ t.of = u.of /\ t.op = u.op /\ t.issued = u.issued /\ t.act = u.act
      /\ t.status = u.status /\ t.idx = u.idx /\ t.ckpt = u.ckpt /\ t.failed = u.failed
      /\ t.from = u.from /\ t.left = u.left /\ t.clock = u.clock /\ t.used = u.used
      /\ t.start = u.start /\ t.cut = u.cut /\ t.speech = u.speech /\ t.speaker = u.speaker
      /\ t.timer.start \in {0, u.start} /\ (t.timer = NoTimer \/ t.timer.cmd \in TimerCommands)
  BY <1>2, <1>4, RetimedFields
<1>. HIDE DEF t
<1>6. TimerOK(t)
  BY <1>1, <1>3, <1>5, Fields DEF TimerOK
<1>. QED BY <1>3, <1>5, <1>6 DEF LostTo, t, u

\* What the recovery makes of the match; a held match stays held, and nothing
\* begins to resume it.
Survives(t) ==
    /\ Good(t) /\ t.of = match.of /\ t.issued = match.issued /\ t.op.auto = match.op.auto
    /\ t.status \in Held
    /\ match.act # "RESUME_COUNTDOWN" => t.act # "RESUME_COUNTDOWN"

\* A running match gets its turn back with a full budget.
LEMMA TurnRecovered ==
    ASSUME IInv, match.status \in Starting \cup {"RUNNING"}, NEW s, LostTo(s)
    PROVE  Survives(SystemRecover(s))
<1>. DEFINE planned == IF s.idx <= Len(Plan) THEN Plan[s.idx].speaker ELSE NoOne
            sp == IF planned # NoOne THEN planned ELSE s.speaker
            f == Restart(s, sp)
            u == [Grant(s) EXCEPT !.status = "SYSTEM_RECOVERY",
                         !.act = "RECOVERY_REQUIRED", !.from = f,
                         !.speaker = sp, !.speech = 0, !.start = 0,
                         !.clock = NoTime, !.due = "none"]
<1>1. /\ match.of \in Matches /\ match \in Records /\ ShapeOK(match) /\ FailedOK(match)
      /\ CkptOK(match)
  BY Parts DEF Good
<1>2. /\ s \in Records /\ TimerOK(s) /\ s.of = match.of /\ s.op = match.op
      /\ s.issued = match.issued /\ s.act = match.act /\ s.status = match.status
      /\ s.idx = match.idx /\ s.ckpt = match.ckpt /\ s.failed = match.failed
  BY DEF LostTo
<1>3. /\ s.failed = 0 /\ s.idx <= Len(Plan) /\ (s.ckpt # 0 => s.ckpt = Plan[s.idx].stage)
      /\ s.act \in Running \cup {"NOT_STARTED"}
  BY <1>1, <1>2, Bounds DEF ShapeOK, FailedOK, CkptOK, Starting, Held, Terminal
<1>4. SystemRecover(s) = Cancel(u)
  BY <1>3 DEF SystemRecover
<1>5. f \in {s.act, "AGENT_PREPARING", "HUMAN_READY_TO_START"}
  BY DEF Restart
<1>6. sp \in Users \cup {Agent, NoOne}
  <2>1. s.speaker \in Users \cup {Agent, NoOne} /\ s.idx \in 1..(Len(Plan) + 1)
    BY <1>2 DEF Records
  <2>2. s.idx \in 1..Len(Plan)
    BY <1>1, <1>3, <2>1, Bounds
  <2>3. Plan[s.idx].speaker \in Users \cup {Agent, NoOne}
    BY <1>1, <2>2, Bounds
  <2>. QED BY <2>1, <2>3
<1>. HIDE DEF sp, f
<1>7. /\ f \in Running \cup {"NOT_STARTED"} /\ f \in ActionStates \cup {"none"}
  BY <1>3, <1>5 DEF Running, Turns, HumanTurn, AgentTurn, ActionStates
<1>8. Grant(s) \in Records
  <2>1. Duration \in NoTime..Duration /\ 0 \in Nat
    BY <1>1, Literals
  <2>. QED BY <1>2, <2>1, Updated DEF Grant
<1>9. u \in Records
  <2>1. /\ "SYSTEM_RECOVERY" \in Statuses /\ "RECOVERY_REQUIRED" \in ActionStates
        /\ 0 \in 0..MaxStarts /\ NoTime \in NoTime..Duration
    BY <1>1, Literals DEF Held
  <2>. QED BY ZenonT(60), <1>6, <1>7, <1>8, <2>1, Updated
<1>10. /\ u.of = s.of /\ u.op = s.op /\ u.issued = s.issued /\ u.status = "SYSTEM_RECOVERY"
       /\ u.act = "RECOVERY_REQUIRED" /\ u.from = f /\ u.left = Duration /\ u.clock = NoTime
       /\ u.idx = s.idx /\ u.ckpt = s.ckpt /\ u.used = 0 /\ u.speech = 0
       /\ u.start = 0 /\ u.timer = s.timer /\ u.failed = s.failed
  <2>1. /\ Grant(s).of = s.of /\ Grant(s).op = s.op /\ Grant(s).issued = s.issued
        /\ Grant(s).left = Duration /\ Grant(s).idx = s.idx /\ Grant(s).ckpt = s.ckpt
        /\ Grant(s).used = 0 /\ Grant(s).timer = s.timer /\ Grant(s).failed = s.failed
    BY Zenon, <1>2 DEF Records, Grant
  <2>. DEFINE g == Grant(s)
  <2>. HIDE DEF g
  <2>2. /\ u.of = g.of /\ u.op = g.op /\ u.issued = g.issued /\ u.status = "SYSTEM_RECOVERY"
        /\ u.act = "RECOVERY_REQUIRED" /\ u.from = f /\ u.left = g.left /\ u.clock = NoTime
        /\ u.idx = g.idx /\ u.ckpt = g.ckpt /\ u.used = g.used /\ u.speech = 0
        /\ u.start = 0 /\ u.timer = g.timer /\ u.failed = g.failed
    BY Zenon, <1>8 DEF Records, g
  <2>. QED BY <2>1, <2>2 DEF g
<1>. HIDE DEF u
<1>11. TimerOK(u)
  BY <1>1, <1>2, <1>10, Fields DEF TimerOK
<1>12. CkptOK(u)
  BY <1>3, <1>10 DEF CkptOK
<1>13. Good(u)
  BY <1>1, <1>3, <1>7, <1>9, <1>10, <1>11, <1>12, HeldGood, Bounds DEF Held, NoTime
<1>14. Stops(s, u)
  BY <1>10, <1>13 DEF Stops, Held
<1>15. Stops(s, Cancel(u)) /\ Cancel(u).op = s.op
  BY <1>1, <1>10, <1>14, StopsRetimed
<1>. QED BY <1>2, <1>4, <1>15 DEF Survives, Stops

\* A held match keeps what it holds, whether it waits for a failed recognition
\* to be repaired or for an operator.
LEMMA HeldRecovered ==
    ASSUME IInv, match.status \in Held, NEW s, LostTo(s)
    PROVE  Survives(s) /\ (match.failed # 0 => Survives(SystemRecover(s)))
<1>1. /\ match.of \in Matches /\ match \in Records /\ ShapeOK(match) /\ FailedOK(match)
      /\ CkptOK(match) /\ SpokenOK(match) /\ ClockOK(match)
  BY Parts DEF Good
<1>2. /\ s \in Records /\ TimerOK(s) /\ s.of = match.of /\ s.op = match.op
      /\ s.issued = match.issued /\ s.act = match.act /\ s.status = match.status
      /\ s.idx = match.idx /\ s.ckpt = match.ckpt /\ s.failed = match.failed
      /\ s.from = match.from /\ s.left = match.left /\ s.clock = NoTime
      /\ s.used = match.used /\ s.cut = match.cut /\ s.speech = match.speech
  BY DEF LostTo
<1>3. match.act \in {"RECOVERY_REQUIRED", "RESUME_COUNTDOWN"}
  BY <1>1 DEF ShapeOK, Held
<1>4. Good(s)
  <2>1. ShapeOK(s) /\ FailedOK(s) /\ CkptOK(s)
    BY <1>1, <1>2 DEF ShapeOK, FailedOK, CkptOK, Held, Starting, Terminal
  <2>2. SpokenOK(s) /\ ClockOK(s)
    BY <1>1, <1>2, <1>3 DEF SpokenOK, ClockOK, Held, Speaking
  <2>. QED BY <1>2, <2>1, <2>2 DEF Good
<1>5. Survives(s)
  BY <1>2, <1>4 DEF Survives
<1>6. ASSUME match.failed # 0 PROVE Survives(SystemRecover(s))
  <2>. DEFINE o == [s.op EXCEPT !.status = IF @ = "PENDING" THEN "FAILED" ELSE @]
              u == [s EXCEPT !.status = "ERROR", !.act = "RECOVERY_REQUIRED",
                             !.clock = NoTime, !.due = "none", !.op = o]
  <2>1. s.failed # 0 /\ s.op \in Ops
    BY <1>2, <1>6, OpFacts
  <2>2. SystemRecover(s) = Cancel(u)
    <3>1. SystemRecover(s) =
             Cancel([s EXCEPT !.status = "ERROR", !.act = "RECOVERY_REQUIRED",
                              !.clock = NoTime, !.due = "none",
                              !.op.status = IF @ = "PENDING" THEN "FAILED" ELSE @])
      BY <2>1 DEF SystemRecover
    <3>. QED BY Zenon, <1>2, <3>1 DEF Records
  <2>3. o \in Ops /\ o.auto = s.op.auto
    BY Zenon, <2>1 DEF Ops
  <2>. HIDE DEF o
  <2>4. u \in Records
    <3>1. /\ "ERROR" \in Statuses /\ "RECOVERY_REQUIRED" \in ActionStates
          /\ NoTime \in NoTime..Duration
      BY <1>1, Literals DEF Held
    <3>. QED BY ZenonT(60), <1>2, <2>3, <3>1, Updated
  <2>5. /\ u.of = s.of /\ u.op = o /\ u.issued = s.issued /\ u.status = "ERROR"
        /\ u.act = "RECOVERY_REQUIRED" /\ u.from = s.from /\ u.left = s.left
        /\ u.clock = NoTime /\ u.idx = s.idx /\ u.ckpt = s.ckpt /\ u.used = s.used
        /\ u.speech = s.speech /\ u.start = s.start /\ u.timer = s.timer
        /\ u.failed = s.failed
    BY ZenonT(60), <1>2 DEF Records
  <2>6. u.cut = s.cut
    BY Zenon, <1>2 DEF Records
  <2>. HIDE DEF u
  <2>7. TimerOK(u) /\ CkptOK(u)
    BY <1>1, <1>2, <2>5 DEF TimerOK, CkptOK, Held, Terminal
  <2>8. /\ u.from \in Running \cup {"NOT_STARTED"}
        /\ u.from # "NOT_STARTED" => u.idx <= Len(Plan)
        /\ u.from = "NOT_STARTED" => u.speech = 0
    BY <1>1, <1>2, <2>5 DEF ShapeOK
  <2>9. /\ u.from = "PREPARING" => u.left # NoTime
        /\ \/ u.cut
           \/ /\ u.used <= Duration
              /\ u.left # NoTime => u.used + u.left <= Duration
              /\ u.left = NoTime /\ u.from \in Turns => u.used = 0
    BY <1>1, <1>2, <1>3, <2>5, <2>6 DEF SpokenOK, ClockOK, Finalizing
  <2>10. Good(u)
    BY <1>1, <2>4, <2>5, <2>7, <2>8, <2>9, HeldGood DEF Held
  <2>11. Stops(s, u)
    BY <2>5, <2>10 DEF Stops, Held
  <2>12. Stops(s, Cancel(u)) /\ Cancel(u).op = o
    BY <1>1, <2>5, <2>11, StopsRetimed
  <2>. QED BY <1>2, <2>2, <2>3, <2>12 DEF Survives, Stops
<1>. QED BY <1>5, <1>6
\* The process dies and recovers the match from its row; the queue is gone.
LEMMA CrashStep ==
    ASSUME IInv, Crash
    PROVE  IInv' /\ match'.status \in Held
<1>. DEFINE lost == Cancel([match EXCEPT !.clock = NoTime, !.due = "none"])
            back == IF \/ match.status \in {"START_PENDING_RUNTIME", "START_COUNTDOWN", "RUNNING"}
                       \/ match.failed # 0
                      THEN SystemRecover(lost) ELSE lost
            o == [back.op EXCEPT !.status = IF @ = "PENDING" THEN "CANCELLED" ELSE @]
<1>1. /\ match.of \in Matches /\ match \in Records /\ HeldOK(match, hold)
      /\ AbsenceTypes(offline, grace, over, away, joining)
      /\ OperationTypes(worker, continuing, disruptions, hold)
  BY Parts
<1>2. /\ fired' = << >> /\ cached' = {} /\ joining' = 0 /\ worker' = 0 /\ continuing' = {}
      /\ away' = Users /\ over' = over /\ hold' = hold
      /\ offline' = IF match.since # {} THEN match.since ELSE {match.offUser} \ {NoOne}
      /\ grace' = IF match.status = "RUNNING" THEN offline' ELSE {}
      /\ match.status \notin Terminal
  BY DEF Crash
<1>3. disruptions' \in 0..MaxDisruptions
  BY DisruptBounded DEF Crash
<1>4. match' = [back EXCEPT !.op.status = IF @ = "PENDING" THEN "CANCELLED" ELSE @]
  BY DEF Crash
<1>5. LostTo(lost)
  BY RowSurvives
<1>. HIDE DEF lost
<1>6. match.status \in Starting \cup {"RUNNING"} \cup Held
  BY <1>1, <1>2 DEF Records, Statuses, Starting, Held, Terminal
<1>7. Survives(back)
  <2>1. CASE match.status \in Starting \cup {"RUNNING"}
    BY <1>5, <2>1, TurnRecovered DEF Starting
  <2>2. CASE match.status \in Held
    <3>1. match.status \notin {"START_PENDING_RUNTIME", "START_COUNTDOWN", "RUNNING"}
      BY <2>2 DEF Held
    <3>. QED BY <1>5, <2>2, <3>1, HeldRecovered
  <2>. QED BY <1>6, <2>1, <2>2
<1>. HIDE DEF back
<1>8. back \in Records /\ Good(back) /\ back.op \in Ops
  BY <1>7, OpFacts DEF Survives, Good
<1>9. match' = [back EXCEPT !.op = o]
  BY Zenon, <1>4, <1>8 DEF Records
<1>10. o \in Ops /\ o.status # "PENDING" /\ o.auto = back.op.auto
  BY Zenon, <1>8 DEF Ops
<1>. HIDE DEF o
<1>. DEFINE t == match'
<1>11. /\ Good(t) /\ t.op = o /\ t.of = back.of /\ t.issued = back.issued /\ t.act = back.act
       /\ t.status = back.status
  BY <1>1, <1>8, <1>9, <1>10, NewOpGood
<1>. HIDE DEF t
<1>12. PendingOK(t, worker')
  BY <1>10, <1>11 DEF PendingOK
<1>13. HeldOK(t, hold')
  BY <1>1, <1>2, <1>7, <1>10, <1>11 DEF HeldOK, Survives
<1>14. QueueOK(t, fired') /\ fired' \in Seq(Entries)
  BY <1>1, <1>2, Bounds DEF QueueOK
<1>15. QueueTypes(fired', cached')
  BY <1>2, <1>14 DEF QueueTypes
<1>16. AbsenceTypes(offline', grace', over', away', joining')
  <2>1. match.since \in SUBSET Users /\ match.offUser \in Users \cup {NoOne}
    BY <1>1 DEF Records
  <2>2. offline' \in SUBSET Users /\ grace' \in SUBSET offline'
    BY <1>2, <2>1
  <2>. QED BY <1>1, <1>2, <2>2, Bounds DEF AbsenceTypes
<1>17. OperationTypes(worker', continuing', disruptions', hold')
  BY <1>1, <1>2, <1>3, Bounds DEF OperationTypes
<1>. QED BY <1>7, <1>11, <1>12, <1>13, <1>14, <1>15, <1>16, <1>17, Lift DEF Survives, t

-----------------------------------------------------------------------------
(* The invariant *)

\* A match just created.
LEMMA InvInit == Init => IInv
<1>. SUFFICES ASSUME Init PROVE IInv
  OBVIOUS
<1>1. PICK of \in Matches :
         match = [of |-> of, status |-> "START_PENDING_RUNTIME", act |-> "NOT_STARTED", idx |-> 1,
                  from |-> "none", speaker |-> NoOne, seated |-> FALSE,
                  speech |-> 0, start |-> 0, issued |-> 0, left |-> NoTime, clock |-> NoTime,
                  due |-> "none", ckpt |-> 0, op |-> NoOp, failed |-> 0,
                  offUser |-> NoOne, since |-> {}, timer |-> NoTimer, guard |-> 0,
                  used |-> 0, cut |-> FALSE]
  BY DEF Init
<1>2. match.of \in Matches
  BY <1>1
<1>3. /\ match.status = "START_PENDING_RUNTIME" /\ match.act = "NOT_STARTED" /\ match.idx = 1
      /\ match.from = "none" /\ match.speech = 0 /\ match.start = 0 /\ match.issued = 0
      /\ match.left = NoTime /\ match.clock = NoTime /\ match.ckpt = 0 /\ match.op = NoOp
      /\ match.failed = 0 /\ match.timer = NoTimer /\ match.used = 0
  BY <1>1
<1>4. NoOp \in Ops /\ NoOp.status = "NONE"
  <2>1. 0 \in 0..MaxOps /\ 0 \in 0..(Len(Plan) + 1)
    BY <1>2, Bounds
  <2>. QED BY <2>1 DEF Ops, NoOp
<1>5. match \in Records
  <2>1. /\ 0 \in 0..MaxStarts /\ 0 \in 0..(MaxFired + 1) /\ 1 \in 1..(Len(Plan) + 1)
        /\ NoTime \in NoTime..Duration /\ 0 \in Nat /\ NoTimer \in Entries
    BY <1>2, Bounds, NoTimerFacts, Literals
  <2>2. "START_PENDING_RUNTIME" \in Statuses /\ "NOT_STARTED" \in ActionStates
    BY DEF Statuses, ActionStates
  <2>. QED BY <1>1, <1>4, <2>1, <2>2 DEF Records
<1>6. ShapeOK(match) /\ FailedOK(match) /\ CkptOK(match) /\ PendingOK(match, worker)
  BY <1>3, <1>4 DEF ShapeOK, FailedOK, CkptOK, PendingOK, Starting, Held, Terminal
<1>7. SpokenOK(match)
  BY <1>2, <1>3, Bounds DEF SpokenOK, Held
<1>8. ClockOK(match) /\ TimerOK(match)
  BY <1>2, <1>3, NoTimerFacts DEF ClockOK, TimerOK, Held, Speaking
<1>9. /\ fired = << >> /\ cached = {} /\ offline = {} /\ grace = {} /\ over = {} /\ away = {}
      /\ joining = 0 /\ worker = 0 /\ continuing = {} /\ disruptions = 0 /\ hold = "none"
  BY DEF Init
<1>10. HoldOK /\ QueueOK(match, fired) /\ fired \in Seq(Entries)
  BY <1>2, <1>9, Bounds DEF HoldOK, QueueOK
<1>11. TypeOK
  <2>1. /\ cached \in SUBSET (TimerCommands \X (1..Len(Plan)))
        /\ offline \in SUBSET Users /\ grace \in SUBSET offline /\ over \in SUBSET Users
        /\ away \in SUBSET Users /\ joining \in 0..MaxStarts /\ worker \in 0..MaxOps
        /\ continuing \in SUBSET (1..MaxOps) /\ disruptions \in 0..MaxDisruptions
        /\ hold \in {"none", "automatic", "running", "countdown", "resuming", "held"}
    BY <1>2, <1>9, Bounds, BoundAssumption
  <2>. QED BY Zenon, <1>5, <1>10, <2>1 DEF TypeOK, Records, Ops
<1>. QED BY <1>6, <1>7, <1>8, <1>10, <1>11 DEF IInv

\* Every handler keeps the invariant.
LEMMA InvStep == IInv /\ [Next]_vars => IInv'
<1>. SUFFICES ASSUME IInv, [Next]_vars PROVE IInv'
  OBVIOUS
<1>1. CASE RuntimeStart
  BY <1>1, RuntimeStartStep
<1>2. CASE HostFinished
  BY <1>2, HostFinishedStep
<1>3. CASE HostFailed
  BY <1>3, HostFailedStep
<1>4. CASE SpeechStart
  BY <1>4, SpeechStartStep
<1>5. CASE SpeechFinish \/ PlaybackFinished \/ AsrFinalized \/ AgentFinalized
  BY <1>5, SpeechEndSteps
<1>6. CASE AsrFailed
  BY <1>6, AsrFailedStep
<1>7. CASE PlaybackStarted
  BY <1>7, PlaybackStartedStep
<1>8. CASE AgentFailed
  BY <1>8, AgentFailedStep
<1>9. CASE Pause
  BY <1>9, PauseStep
<1>10. CASE Resume
  BY <1>10, ResumeStep
<1>11. CASE Terminate
  BY <1>11, TerminateStep
<1>12. CASE \E g \in continuing : Continue(g)
  BY <1>12, ContinueStep
<1>13. CASE StageReset
  BY <1>13, StageResetStep
<1>14. CASE SkipBegin
  BY <1>14, SkipBeginStep
<1>15. CASE SkipComplete
  BY <1>15, SkipCompleteStep
<1>16. CASE SkipFail
  BY <1>16, SkipFailStep
<1>17. CASE SpeechReset
  BY <1>17, SpeechResetStep
<1>18. CASE OperatorReset
  BY <1>18, OperatorResetStep
<1>19. CASE RetryBegin
  BY <1>19, RetryBeginStep
<1>20. CASE RetryDone
  BY <1>20, RetryDoneStep
<1>21. CASE RetryFailed
  BY <1>21, RetryFailedStep
<1>22. CASE \E u \in Users : Offline(u) \/ Online(u) \/ GraceFires(u)
  BY <1>22, OfflineStep, OnlineStep, GraceFiresStep
<1>23. CASE MediaSettled
  BY <1>23, MediaSettledStep
<1>24. CASE Tick
  BY <1>24, TickStep
<1>25. CASE Fire
  BY <1>25, FireStep
<1>26. CASE Deliver
  BY <1>26, DeliverStep
<1>27. CASE TransactionFails
  BY <1>27, TransactionFailsStep
<1>28. CASE Crash
  BY <1>28, CrashStep
<1>29. CASE WorkerEnds
  BY <1>29, WorkerEndsStep
<1>30. CASE UNCHANGED vars
  BY <1>30, Parts, Lift DEF vars
<1>. QED BY <1>1, <1>2, <1>3, <1>4, <1>5, <1>6, <1>7, <1>8, <1>9, <1>10, <1>11, <1>12,
            <1>13, <1>14, <1>15, <1>16, <1>17, <1>18, <1>19, <1>20, <1>21, <1>22, <1>23,
            <1>24, <1>25, <1>26, <1>27, <1>28, <1>29, <1>30 DEF Next

\* The invariant holds throughout.
THEOREM Invariance == Spec => []IInv
BY InvInit, InvStep, PTL DEF Spec

-----------------------------------------------------------------------------
(* The properties *)

\* The state of the match and of everything around it stays in its types.
THEOREM TypeCorrect == Spec => []TypeOK
<1>1. IInv => TypeOK
  BY DEF IInv
<1>. QED BY <1>1, Invariance, PTL

\* A pending operation holds the match at the action it was asked for, with or
\* without a worker that will settle it (_process, _speech_skip_begin, _fail).
THEOREM PendingIsHeld == Spec => []PendingHolds
<1>1. IInv => PendingHolds
  BY DEF IInv, PendingOK, PendingHolds, Retaken
<1>. QED BY <1>1, Invariance, PTL

\* The match neither runs nor ends with a speech that was not recognised.
THEOREM FailedIsHeld == Spec => []RunningIsRecognised
<1>1. IInv => RunningIsRecognised
  BY DEF IInv, FailedOK, RunningIsRecognised
<1>. QED BY <1>1, Invariance, PTL

\* The checkpoint of a running match is of the stage it is in.
THEOREM CheckpointOfStage == Spec => []CheckpointCurrent
<1>1. IInv => CheckpointCurrent
  BY DEF IInv, CkptOK, ShapeOK, CheckpointCurrent, Held, Terminal
<1>. QED BY <1>1, Invariance, PTL

\* A turn speaks no longer than was granted.
THEOREM BudgetNeverExceeded == Spec => []SpokenBounded
<1>1. IInv => SpokenBounded
  BY DEF IInv, SpokenOK, SpokenBounded
<1>. QED BY <1>1, Invariance, PTL

\* A step that runs the match lifts no acknowledged pause: most leave hold as it
\* is, and the others do not run a match that is held.
LEMMA RunsUnheld ==
    ASSUME IInv, [Next]_vars, IInv', Runs, hold = "held"
    PROVE  FALSE
<1>1. /\ match.of \in Matches /\ match \in Records /\ Good(match)
      /\ fired \in Seq(Entries) /\ Len(fired) <= MaxFired
  BY Parts
<1>2. match.status \in Held \cup Terminal /\ match.act # "RESUME_COUNTDOWN" /\ ~match.op.auto
  BY DEF IInv, HoldOK
<1>3. match.status # "RUNNING" /\ match'.status = "RUNNING"
  BY DEF Runs
<1>4. hold' # "held"
  BY <1>3 DEF IInv, HoldOK, Held, Terminal
<1>5. ~Pause
  BY <1>2, <1>3, <1>4 DEF Pause
<1>6. ~StartCountdown
  <2>1. SUFFICES ASSUME StartCountdown PROVE FALSE
    OBVIOUS
  <2>2. match.status \in Held /\ match.failed = 0 /\ match' = Countdown(match)
    BY <2>1 DEF StartCountdown, CanResume, Held
  <2>3. Countdown(match).status = "PAUSED"
    BY <1>1, <2>2, CountdownGood
  <2>. QED BY <1>3, <2>2, <2>3
<1>7. ASSUME NEW g, Continue(g) PROVE FALSE
  BY <1>2, <1>4, <1>7 DEF Continue
<1>8. ~RetryBegin
  <2>1. SUFFICES ASSUME RetryBegin PROVE FALSE
    OBVIOUS
  <2>2. match'.status = match.status
    BY Zenon, <1>1, <2>1 DEF RetryBegin, Records
  <2>. QED BY <1>3, <2>2
<1>9. ~Deliver
  <2>1. SUFFICES ASSUME Deliver PROVE FALSE
    OBVIOUS
  <2>2. Outcome(match')
    BY <2>1, DeliverOutcome
  <2>. QED BY <1>2, <1>3, <2>2 DEF Outcome, Starting, Held, Terminal
<1>10. ~Resume
  BY <1>6 DEF Resume
<1>11. hold' = hold
  <2>1. CASE UNCHANGED vars
    BY <2>1 DEF vars
  <2>2. CASE \/ RuntimeStart \/ HostFinished \/ HostFailed \/ SpeechStart \/ SpeechFinish
             \/ AsrFinalized \/ AsrFailed \/ PlaybackStarted \/ PlaybackFinished
             \/ AgentFinalized \/ AgentFailed
    BY <2>2 DEF RuntimeStart, HostFinished, HostFailed, SpeechStart, SpeechFinish, AsrFinalized,
                AsrFailed, PlaybackStarted, PlaybackFinished, AgentFinalized, AgentFailed,
                Becomes, FailsTo
  <2>3. CASE \/ Terminate \/ StageReset \/ SkipBegin \/ SkipComplete \/ SkipFail \/ WorkerEnds
             \/ SpeechReset \/ OperatorReset \/ RetryDone \/ RetryFailed
    BY <2>3 DEF Terminate, StageReset, SkipBegin, SkipComplete, SkipFail, WorkerEnds,
                SpeechReset, OperatorReset, RetryDone, RetryFailed, Becomes
  <2>4. CASE \E u \in Users : Offline(u) \/ Online(u) \/ GraceFires(u)
    BY <2>4 DEF Offline, Online, GraceFires
  <2>5. CASE MediaSettled \/ Tick \/ Fire \/ TransactionFails \/ Crash
    BY <2>5 DEF MediaSettled, Tick, Fire, TransactionFails, Crash
  <2>. QED BY <1>5, <1>7, <1>8, <1>9, <1>10, <2>1, <2>2, <2>3, <2>4, <2>5 DEF Next
<1>. QED BY <1>4, <1>11

\* A pause acknowledged to its caller is kept until an operator lifts it:
\* neither the automatic resume of an operation nor a queued timer does.
THEOREM PauseIsKept == Spec => HeldMatchStaysPaused
<1>1. IInv /\ IInv' /\ [Next]_vars => [Runs => hold # "held"]_vars
  BY RunsUnheld
<1>. QED BY <1>1, Invariance, PTL DEF Spec, HeldMatchStaysPaused

\* A queued command ends a speech only as the deadline of that very speech.
LEMMA OnlyDeadlineEnds ==
    ASSUME IInv, match.act \in Speaking, NEW e \in Entries, e.cmd # "none", Admits(e.cmd),
           NEW t \in Handled(e), t.act \in Finalizing
    PROVE  e.cmd = "speech.deadline" /\ e.start = match.start
<1>1. match.status = "RUNNING" /\ match.start # 0
  BY RunningFacts, Parts
     DEF Good, ClockOK, Speaking, Running, Turns, HumanTurn, AgentTurn
<1>2. /\ match.act \notin {"HOST_ANNOUNCING", "PREPARING", "HUMAN_READY_TO_START",
                          "RESUME_COUNTDOWN", "RECOVERY_REQUIRED"} \cup Finalizing
      /\ t # match /\ t.act # "RECOVERY_REQUIRED" /\ match.status # "START_COUNTDOWN"
  BY <1>1 DEF Speaking, Finalizing
<1>3. e.cmd \in TimerCommands \cup {"offline.expired", "system.error"}
  BY Zenon DEF Entries
<1>4. e.cmd # "offline.expired"
  BY <1>2, ExpiredOutcome DEF Handled
<1>5. e.cmd # "system.error"
  BY <1>1, <1>2, TimerAdmitted, ErrorOutcome DEF Handled
<1>6. e.cmd # "countdown.elapsed" /\ e.cmd # "host.elapsed"
  BY <1>2 DEF Handled, CountdownElapsed, HostElapsed
<1>7. e.cmd # "preparation.elapsed" /\ e.cmd # "human.start_timeout"
  BY <1>2 DEF Handled, PreparationElapsed, HumanStartTimeout
<1>8. e.cmd # "resume.elapsed"
  BY <1>2 DEF Handled, ResumeElapsed
<1>9. e.cmd = "speech.deadline"
  BY <1>3, <1>4, <1>5, <1>6, <1>7, <1>8 DEF TimerCommands
<1>10. t \in SpeechDeadline(e)
  BY <1>9 DEF Handled
<1>11. SameSpeech(e)
  BY <1>2, <1>10 DEF SpeechDeadline
<1>. QED BY <1>1, <1>9, <1>11 DEF SameSpeech

\* The step that takes a command off the queue and ends a speech with it.
LEMMA EndsInTime ==
    ASSUME IInv, [Next]_vars, Len(fired') < Len(fired), match.act \in Speaking,
           match'.act \in Finalizing
    PROVE  ViewLeft(match) = 0
<1>. DEFINE e == Head(fired)
<1>1. /\ match.of \in Matches /\ match \in Records /\ QueueOK(match, fired)
      /\ fired \in Seq(Entries) /\ MaxFired \in Nat /\ Len(fired) \in Nat
  BY Parts, Bounds
<1>2. fired' # fired
  BY <1>1
<1>3. ~Crash
  <2>1. SUFFICES ASSUME Crash PROVE FALSE
    OBVIOUS
  <2>2. IInv' /\ match'.status \in Held
    BY <2>1, CrashStep
  <2>. QED BY <2>2 DEF IInv, ShapeOK, Held, Finalizing
<1>4. match' # match
  BY DEF Speaking, Finalizing
<1>5. ~Fire /\ ~TransactionFails /\ \A u \in Users : ~GraceFires(u)
  <2>1. ASSUME NEW f, fired' = Append(fired, f) PROVE FALSE
    BY <1>1, <2>1
  <2>. QED BY <1>4, <2>1 DEF Fire, GraceFires, Queue, TransactionFails
<1>6. Deliver
  <2>1. ~UNCHANGED vars
    BY <1>2 DEF vars
  <2>2. ~(\/ RuntimeStart \/ HostFinished \/ HostFailed \/ SpeechStart \/ SpeechFinish
          \/ AsrFinalized \/ AsrFailed \/ PlaybackStarted \/ PlaybackFinished
          \/ AgentFinalized \/ AgentFailed)
    BY <1>2 DEF RuntimeStart, HostFinished, HostFailed, SpeechStart, SpeechFinish, AsrFinalized,
                AsrFailed, PlaybackStarted, PlaybackFinished, AgentFinalized, AgentFailed,
                Becomes, FailsTo
  <2>3. ~(\/ Terminate \/ StageReset \/ SkipBegin \/ SkipComplete \/ SkipFail \/ WorkerEnds
          \/ SpeechReset \/ OperatorReset \/ RetryBegin \/ RetryDone \/ RetryFailed)
    BY <1>2 DEF Terminate, StageReset, SkipBegin, SkipComplete, SkipFail, WorkerEnds,
                SpeechReset, OperatorReset, RetryBegin, RetryDone, RetryFailed, Becomes
  <2>4. ~(Pause \/ Resume) /\ \A g : ~Continue(g)
    BY SMTT(60), <1>2 DEF Pause, Resume, Continue, StartCountdown
  <2>5. ~(\E u \in Users : Offline(u) \/ Online(u))
    BY <1>2 DEF Offline, Online
  <2>6. ~MediaSettled /\ ~Tick
    BY <1>2 DEF MediaSettled, Tick
  <2>. QED BY <1>3, <1>5, <2>1, <2>2, <2>3, <2>4, <2>5, <2>6 DEF Next
<1>7. /\ fired # << >>
      /\ IF Repeated(e) \/ ~Admits(e.cmd) \/ Early(e)
           THEN match' = match ELSE match' \in Handled(e)
  BY Zenon, <1>6 DEF Deliver
<1>8. e \in Entries /\ EntryOK(match, e)
  BY <1>1, <1>7, QueueTail
<1>. HIDE DEF e
<1>9. e.cmd = "speech.deadline" /\ e.start = match.start
  BY <1>4, <1>7, <1>8, OnlyDeadlineEnds DEF EntryOK
<1>. QED BY <1>8, <1>9 DEF EntryOK

\* A timer command ends a speech only when its time is up.
THEOREM SpeechHasItsTime == Spec => TimersNeverCutShort
<1>1. IInv /\ [Next]_vars =>
        [(Len(fired') < Len(fired) /\ fired # << >> /\ fired' = Tail(fired)
            /\ match.act \in Speaking /\ match'.act \in Finalizing)
         => ViewLeft(match) = 0]_vars
  BY EndsInTime
<1>. QED BY <1>1, Invariance, PTL DEF Spec, TimersNeverCutShort

-----------------------------------------------------------------------------
(* No wait is forgotten. The timer that ends a wait is judged with the match it *)
(* is armed or queued for, e the timer and s the match.                         *)

\* Awaited and Ends, of a record and without what a refusal could change.
Waits(s) ==
    IF s.status = "START_COUNTDOWN" THEN "countdown.elapsed"
    ELSE CASE s.act = "HOST_ANNOUNCING" -> "host.elapsed"
           [] s.act = "PREPARING" -> "preparation.elapsed"
           [] s.act = "HUMAN_READY_TO_START" -> "human.start_timeout"
           [] s.act = "HUMAN_SPEAKING" /\ s.clock # NoTime -> "speech.deadline"
           [] OTHER -> "none"

\* The error of a failed transaction that is taken for the match s.
Fails(e, s) ==
    /\ e.cmd = "system.error"
    /\ IF e.start # 0 THEN s.act = "HUMAN_SPEAKING" /\ e.speech = s.speech
       ELSE e.guard = 0 \/ (s.act = "HOST_ANNOUNCING" /\ e.guard = s.guard)

EndsFor(e, s) ==
    \/ /\ e.cmd = Waits(s) /\ e.id \in {Fresh, s.idx}
       /\ e.cmd = "host.elapsed" => e.guard = s.guard
       /\ e.cmd = "speech.deadline" => e.speech = s.speech /\ e.start = s.start
    \/ Fails(e, s)

\* Only the commands of speeches carry a token, and only the host's a guard, so
\* that the error of any other timer is taken for every match.
Plain(e) ==
    /\ e.cmd \notin {"speech.deadline", "system.error"} => e.start = 0
    /\ e.cmd \notin {"host.elapsed", "system.error"} => e.guard = 0

AllPlain(q) == \A i \in 1..Len(q) : Plain(q[i])

\* A turn that waits for its speaker knows since when, and the host has a guard.
Awake(s) ==
    /\ s.act = "HUMAN_READY_TO_START" => s.due # "none"
    /\ s.act = "HOST_ANNOUNCING" => s.guard # 0
    /\ Plain(s.timer)

Stopped(s) == s.act = "HUMAN_SPEAKING" /\ s.clock = NoTime

\* Who starts a stopped clock again, or pauses the speech: an error that is taken
\* for it, the grace period of its absent speaker, or the setting up of its media,
\* unless its present speaker carries the time of an earlier absence.
Watched(s, q, off, gr, j) ==
    \/ \E i \in 1..Len(q) : Fails(q[i], s)
    \/ /\ s.speaker \in off
       /\ \/ s.speaker \in gr
          \/ \E i \in 1..Len(q) : q[i].cmd = "offline.expired" /\ q[i].user = s.speaker
    \/ s.speaker \notin off /\ (s.speaker \in s.since \/ j = s.speech)

WaitOK(s, q, ca, off, gr, j) ==
    /\ Awake(s) /\ AllPlain(q)
    /\ Waits(s) # "none" /\ <<Waits(s), s.idx>> \notin ca =>
          EndsFor(s.timer, s) \/ \E i \in 1..Len(q) : EndsFor(q[i], s)
    /\ Stopped(s) => Watched(s, q, off, gr, j)

WaitInv == WaitOK(match, fired, cached, offline, grace, joining)

\* What the handlers leave that arm a timer for what they begin, or hold the match.
Settled(s) ==
    /\ Awake(s) /\ ~Stopped(s)
    /\ Waits(s) # "none" => EndsFor(s.timer, s)

Waiting == {"HOST_ANNOUNCING", "PREPARING", "HUMAN_READY_TO_START", "HUMAN_SPEAKING"}

\* The fields of a match, whatever is in them.
Named(s) ==
    DOMAIN s = {"of", "status", "act", "idx", "from", "speaker", "seated", "speech", "start",
                "issued", "left", "clock", "due", "ckpt", "op", "failed", "offUser", "since",
                "timer", "guard", "used", "cut"}

\* The rows of the match have these fields.
LEMMA RecordsNamed ==
    ASSUME NEW s \in Records
    PROVE  Named(s)
BY Zenon DEF Records, Named

\* _schedule_internal, with what the timer carries.
LEMMA Armed ==
    ASSUME NEW s, Named(s), NEW cmd, NEW id, fired \in Seq(Entries), Len(fired) <= MaxFired
    PROVE  LET t == Arm(s, cmd, id)
           IN  /\ Named(t)
               /\ t.status = s.status /\ t.act = s.act /\ t.idx = s.idx /\ t.clock = s.clock
               /\ t.due = s.due /\ t.speech = s.speech /\ t.start = s.start
               /\ t.timer.cmd = cmd /\ t.timer.id = id /\ t.timer.guard = t.guard
               /\ (t.guard # 0) <=> (cmd = "host.elapsed")
               /\ cmd = "speech.deadline" => t.timer.speech = s.speech /\ t.timer.start = s.start
               /\ cmd # "speech.deadline" => t.timer.start = 0
<1>. DEFINE g == IF cmd = "host.elapsed" THEN NewGuard ELSE 0
            timed == cmd = "speech.deadline"
            e == [cmd |-> cmd, id |-> id, guard |-> g, user |-> NoOne,
                  speech |-> IF timed THEN s.speech ELSE 0,
                  start |-> IF timed THEN s.start ELSE 0]
            t == [s EXCEPT !.guard = g, !.timer = e]
<1>1. (g # 0) <=> (cmd = "host.elapsed")
  <2>1. NewGuard # 0
    BY NewGuardExists, BoundAssumption
  <2>. QED BY <2>1
<1>2. Arm(s, cmd, id) = t
  BY DEF Arm
<1>3. /\ e.cmd = cmd /\ e.id = id /\ e.guard = g
      /\ cmd = "speech.deadline" => e.speech = s.speech /\ e.start = s.start
      /\ cmd # "speech.deadline" => e.start = 0
  OBVIOUS
<1>. HIDE DEF g, e
<1>4. /\ Named(t)
      /\ t.status = s.status /\ t.act = s.act /\ t.idx = s.idx /\ t.clock = s.clock
      /\ t.due = s.due /\ t.speech = s.speech /\ t.start = s.start
  BY Zenon DEF Named
<1>5. t.timer = e /\ t.guard = g
  BY Zenon DEF Named
<1>. HIDE DEF t
<1>. QED BY <1>1, <1>2, <1>3, <1>4, <1>5

\* _cancel_timer
LEMMA Cancelled ==
    ASSUME NEW s, Named(s)
    PROVE  LET t == Cancel(s)
           IN  /\ Named(t)
               /\ t.status = s.status /\ t.act = s.act /\ t.idx = s.idx /\ t.clock = s.clock
               /\ t.timer = NoTimer
BY ZenonT(60) DEF Named, Cancel

\* That no timer is armed is plain.
LEMMA NoTimerPlain == Plain(NoTimer)
BY DEF Plain, NoTimer

\* A timer that is armed for the wait it is needed in settles the match.
LEMMA ArmSettles ==
    ASSUME NEW s, Named(s), NEW cmd \in TimerCommands, NEW id,
           fired \in Seq(Entries), Len(fired) <= MaxFired,
           ~Stopped(s),
           Waits(s) # "none" => Waits(s) = cmd /\ id \in {Fresh, s.idx},
           s.act = "HUMAN_READY_TO_START" => s.due # "none",
           s.act = "HOST_ANNOUNCING" => cmd = "host.elapsed"
    PROVE  Settled(Arm(s, cmd, id)) /\ Named(Arm(s, cmd, id))
<1>. DEFINE t == Arm(s, cmd, id)
<1>1. /\ Named(t)
      /\ t.status = s.status /\ t.act = s.act /\ t.idx = s.idx /\ t.clock = s.clock
      /\ t.due = s.due /\ t.speech = s.speech /\ t.start = s.start
      /\ t.timer.cmd = cmd /\ t.timer.id = id /\ t.timer.guard = t.guard
      /\ (t.guard # 0) <=> (cmd = "host.elapsed")
      /\ cmd = "speech.deadline" => t.timer.speech = s.speech /\ t.timer.start = s.start
      /\ cmd # "speech.deadline" => t.timer.start = 0
  BY Armed
<1>. HIDE DEF t
<1>2. Plain(t.timer)
  BY <1>1 DEF Plain
<1>3. Awake(t)
  BY <1>1, <1>2 DEF Awake
<1>4. Waits(t) = Waits(s) /\ ~Stopped(t)
  BY <1>1 DEF Waits, Stopped
<1>5. Waits(t) # "none" => EndsFor(t.timer, t)
  BY <1>1, <1>4 DEF EndsFor
<1>. QED BY <1>1, <1>3, <1>4, <1>5 DEF Settled, t

\* A match in which nothing waits for time is settled.
LEMMA QuietSettles ==
    ASSUME NEW s, s.status # "START_COUNTDOWN", s.act \notin Waiting, Plain(s.timer)
    PROVE  Settled(s)
<1>1. Waits(s) = "none" /\ ~Stopped(s)
  BY DEF Waits, Stopped, Waiting
<1>2. Awake(s)
  BY DEF Awake, Waiting
<1>. QED BY <1>1, <1>2 DEF Settled

\* So is a match that is held or over.
LEMMA HeldSettles ==
    ASSUME NEW s, ShapeOK(s), s.status \in Held \cup Terminal, Plain(s.timer)
    PROVE  Settled(s)
<1>1. s.act \notin Waiting /\ s.status # "START_COUNTDOWN"
  BY DEF ShapeOK, Held, Terminal, Waiting
<1>. QED BY <1>1, QuietSettles

\* In a settled match every wait has its timer, whatever is in the queue.
LEMMA SettledWaits ==
    ASSUME NEW s, Settled(s), NEW q, AllPlain(q), NEW ca, NEW off, NEW gr, NEW j
    PROVE  WaitOK(s, q, ca, off, gr, j)
BY DEF Settled, WaitOK

-----------------------------------------------------------------------------
(* What the operators leave *)

\* _activate_action
LEMMA ActivateSettles ==
    ASSUME fired \in Seq(Entries), Len(fired) <= MaxFired,
           NEW s, Named(s), s.status = "RUNNING", Plain(s.timer),
           Plan[s.idx].kind \in Kinds \ {"HOST_AUDIO"}
    PROVE  Settled(Activate(s)) /\ Named(Activate(s))
<1>. DEFINE a == Plan[s.idx]
            p == [Grant(s) EXCEPT !.act = "PREPARING", !.due = "none", !.clock = Duration]
            g == [Grant(s) EXCEPT !.act = "AGENT_PREPARING", !.speaker = Agent, !.seated = TRUE,
                                  !.speech = 0, !.clock = NoTime, !.due = "none"]
            h == [[Grant(s) EXCEPT !.act = "HUMAN_READY_TO_START", !.speaker = a.speaker,
                                   !.seated = TRUE, !.speech = 0, !.clock = NoTime]
                  EXCEPT !.due = "waiting"]
<1>1. Named(Grant(s)) /\ Grant(s).status = s.status /\ Grant(s).idx = s.idx
      /\ Grant(s).timer = s.timer
  BY ZenonT(60) DEF Named, Grant
<1>2. Named(p) /\ p.status = s.status /\ p.idx = s.idx /\ p.act = "PREPARING"
  BY ZenonT(60), <1>1 DEF Named
<1>3. Named(g) /\ g.status = s.status /\ g.act = "AGENT_PREPARING" /\ g.timer = s.timer
  BY ZenonT(60), <1>1 DEF Named
<1>4. Named(h) /\ h.status = s.status /\ h.idx = s.idx /\ h.act = "HUMAN_READY_TO_START"
      /\ h.due = "waiting"
  BY ZenonT(60), <1>1 DEF Named
<1>5. CASE a.kind = "PREPARATION"
  <2>1. Activate(s) = Arm(p, "preparation.elapsed", s.idx)
    BY <1>5 DEF Activate
  <2>. HIDE DEF p
  <2>2. Waits(p) = "preparation.elapsed" /\ ~Stopped(p)
    BY <1>2 DEF Waits, Stopped
  <2>. QED BY <1>2, <2>1, <2>2, ArmSettles DEF TimerCommands
<1>6. CASE a.kind = "AGENT_SPEECH"
  <2>1. Activate(s) = g
    BY <1>6 DEF Activate
  <2>. HIDE DEF g
  <2>. QED BY <1>3, <2>1, QuietSettles DEF Waiting
<1>7. CASE a.kind = "HUMAN_SPEECH"
  <2>1. Activate(s) = Arm(h, "human.start_timeout", Fresh)
    BY <1>7 DEF Activate, AwaitStart
  <2>. HIDE DEF h
  <2>2. Waits(h) = "human.start_timeout" /\ ~Stopped(h)
    BY <1>4 DEF Waits, Stopped
  <2>. QED BY <1>4, <2>1, <2>2, ArmSettles DEF TimerCommands
<1>. QED BY <1>5, <1>6, <1>7 DEF Kinds

\* _enter_current_action
LEMMA EnterSettles ==
    ASSUME match.of \in Matches, fired \in Seq(Entries), Len(fired) <= MaxFired,
           NEW s, Named(s), s.status = "RUNNING", Plain(s.timer), s.idx \in 1..(Len(Plan) + 1)
    PROVE  Settled(Enter(s)) /\ Named(Enter(s))
<1>. DEFINE z == [s EXCEPT !.status = "FINISHED", !.act = "MATCH_FINISHED", !.speech = 0]
            c == Checkpoint(s)
            h == [c EXCEPT !.act = "HOST_ANNOUNCING", !.speaker = NoOne,
                           !.seated = FALSE, !.speech = 0, !.clock = NoTime,
                           !.due = "none", !.left = NoTime]
<1>1. Named(z) /\ z.status = "FINISHED" /\ z.act = "MATCH_FINISHED" /\ z.timer = s.timer
  BY Zenon DEF Named
<1>2. Named(c) /\ c.status = s.status /\ c.idx = s.idx /\ c.timer = s.timer
  BY ZenonT(60) DEF Named, Checkpoint
<1>3. CASE s.idx > Len(Plan)
  <2>1. Enter(s) = z
    BY <1>3 DEF Enter
  <2>. HIDE DEF z
  <2>. QED BY <1>1, <2>1, QuietSettles DEF Waiting
<1>4. CASE ~(s.idx > Len(Plan)) /\ Plan[s.idx].host
  <2>1. Enter(s) = Arm(h, "host.elapsed", s.idx)
    BY <1>4 DEF Enter
  <2>. HIDE DEF c
  <2>2. Named(h) /\ h.status = s.status /\ h.idx = s.idx /\ h.act = "HOST_ANNOUNCING"
    BY ZenonT(60), <1>2 DEF Named
  <2>. HIDE DEF h
  <2>3. Waits(h) = "host.elapsed" /\ ~Stopped(h)
    BY <2>2 DEF Waits, Stopped
  <2>. QED BY <2>1, <2>2, <2>3, ArmSettles DEF TimerCommands
<1>5. CASE ~(s.idx > Len(Plan)) /\ ~Plan[s.idx].host
  <2>1. Enter(s) = Activate(c)
    BY <1>5 DEF Enter
  <2>2. s.idx \in 1..Len(Plan)
    BY <1>5, Bounds
  <2>3. Plan[s.idx].kind \in Kinds \ {"HOST_AUDIO"}
    <3>1. Plan[s.idx].kind \in Kinds
      BY <2>2, Bounds
    <3>2. Plan[s.idx].kind # "HOST_AUDIO"
      BY <1>5, <2>2, MatchesAssumption DEF Plan
    <3>. QED BY <3>1, <3>2
  <2>. HIDE DEF c
  <2>. QED BY <1>2, <2>1, <2>3, ActivateSettles
<1>. QED BY <1>3, <1>4, <1>5

\* _advance_action
LEMMA AdvanceSettles ==
    ASSUME match.of \in Matches, fired \in Seq(Entries), Len(fired) <= MaxFired,
           NEW s, Named(s), s.status = "RUNNING", Plain(s.timer), s.idx \in 1..Len(Plan)
    PROVE  Settled(Advance(s)) /\ Named(Advance(s))
<1>. DEFINE t == [s EXCEPT !.act = "ACTION_FINISHED", !.idx = @ + 1, !.speech = 0,
                           !.speaker = NoOne, !.clock = NoTime, !.due = "none", !.left = NoTime]
<1>1. Named(t) /\ t.status = s.status /\ t.timer = s.timer /\ t.idx = s.idx + 1
  BY ZenonT(60) DEF Named
<1>2. s.idx + 1 \in 1..(Len(Plan) + 1)
  BY Bounds
<1>3. Advance(s) = Enter(t)
  BY DEF Advance
<1>. HIDE DEF t
<1>. QED BY <1>1, <1>2, <1>3, EnterSettles

\* _finish_speech and _finish_agent_speech
LEMMA FinishSettles ==
    ASSUME NEW s, Named(s), s.status = "RUNNING", NEW f \in Finalizing
    PROVE  Settled(Finish(s, f))
<1>. DEFINE u == [s EXCEPT !.act = f, !.start = 0, !.clock = NoTime]
<1>1. Named(u) /\ u.status = s.status /\ u.act = f
  BY ZenonT(60) DEF Named
<1>2. Finish(s, f) = Cancel(u)
  BY DEF Finish
<1>. HIDE DEF u
<1>3. f \notin Waiting
  BY DEF Finalizing, Waiting
<1>. QED BY <1>1, <1>2, <1>3, Cancelled, NoTimerPlain, QuietSettles

\* The start of a speech: its deadline is armed, or it has no time and is over.
LEMMA StartSpeechSettles ==
    ASSUME fired \in Seq(Entries), Len(fired) <= MaxFired,
           NEW s, Named(s), s.status = "RUNNING", NEW id,
           NEW sp \in Speaking, NEW f \in Finalizing
    PROVE  Settled(StartSpeech(s, id, sp, f))
<1>. DEFINE granted == IF s.left = NoTime THEN Duration ELSE s.left
            token == s.issued + 1
            u == [s EXCEPT !.act = sp, !.speech = id, !.start = token, !.issued = token,
                           !.due = "none", !.seated = TRUE, !.left = granted, !.clock = granted]
            begun == Arm(u, "speech.deadline", Fresh)
<1>1. granted # NoTime
  BY BoundAssumption DEF NoTime
<1>2. StartSpeech(s, id, sp, f) =
          IF granted = 0 /\ sp = "HUMAN_SPEAKING" THEN Finish(begun, f) ELSE begun
  BY Zenon DEF StartSpeech
<1>. HIDE DEF granted, token
<1>3. Named(u) /\ u.status = s.status /\ u.act = sp /\ u.clock = granted
  BY ZenonT(60) DEF Named
<1>. HIDE DEF u
<1>4. Named(begun) /\ begun.status = s.status
  BY <1>3, Armed
<1>5. Settled(begun)
  <2>1. Waits(u) # "none" => Waits(u) = "speech.deadline"
    BY <1>3 DEF Waits, Speaking
  <2>2. ~Stopped(u) /\ u.act # "HUMAN_READY_TO_START" /\ u.act # "HOST_ANNOUNCING"
    BY <1>1, <1>3 DEF Stopped, Speaking
  <2>3. "speech.deadline" \in TimerCommands /\ Fresh \in {Fresh, u.idx}
    BY DEF TimerCommands
  <2>. QED BY <1>3, <2>1, <2>2, <2>3, ArmSettles
<1>. HIDE DEF begun
<1>. QED BY <1>2, <1>4, <1>5, FinishSettles

\* _match_resume
LEMMA CountdownSettles ==
    ASSUME fired \in Seq(Entries), Len(fired) <= MaxFired, NEW s, Named(s)
    PROVE  Settled(Countdown(s))
<1>. DEFINE u == [s EXCEPT !.status = "PAUSED", !.act = "RESUME_COUNTDOWN", !.offUser = NoOne]
<1>1. Named(u) /\ u.status = "PAUSED" /\ u.act = "RESUME_COUNTDOWN"
  BY ZenonT(60) DEF Named
<1>2. Countdown(s) = Arm(u, "resume.elapsed", Fresh)
  BY DEF Countdown
<1>. HIDE DEF u
<1>3. Waits(u) = "none" /\ ~Stopped(u)
  BY <1>1 DEF Waits, Stopped
<1>. QED BY <1>1, <1>2, <1>3, ArmSettles DEF TimerCommands

\* _resume_elapsed
LEMMA ResumedSettles ==
    ASSUME match.of \in Matches, fired \in Seq(Entries), Len(fired) <= MaxFired,
           NEW s, Named(s), ClockOK(s), Plain(s.timer), s.idx \in 1..(Len(Plan) + 1),
           s.status \in Held, s.from \in Running \cup {"NOT_STARTED"}
    PROVE  Settled(Resumed(s))
<1>. DEFINE to == CASE s.from \in HumanTurn -> "HUMAN_READY_TO_START"
                    [] s.from \in AgentTurn -> "AGENT_PREPARING"
                    [] OTHER -> s.from
            sp == IF s.from \in AgentTurn \ {"AGENT_PREPARING"} THEN 0 ELSE s.speech
            r == [s EXCEPT !.status = "RUNNING", !.act = to, !.from = "none",
                           !.clock = NoTime, !.due = "none", !.speech = sp]
            p == [r EXCEPT !.clock = r.left]
            h == [r EXCEPT !.due = "waiting"]
<1>1. /\ to \in Entered \cup {"NOT_STARTED"}
      /\ to = "PREPARING" => s.from = "PREPARING"
  BY DEF Entered, Running, Turns, HumanTurn, AgentTurn
<1>2. Resumed(s) = CASE to = "NOT_STARTED" -> Enter(r)
                     [] to = "HUMAN_READY_TO_START" -> AwaitStart(r)
                     [] to = "HOST_ANNOUNCING" -> Arm(r, "host.elapsed", Fresh)
                     [] to = "PREPARING" /\ r.left # NoTime ->
                           Arm([r EXCEPT !.clock = r.left], "preparation.elapsed", Fresh)
                     [] OTHER -> r
  BY Zenon DEF Resumed, Named
<1>. HIDE DEF to, sp
<1>3. /\ Named(r) /\ r.status = "RUNNING" /\ r.act = to /\ r.idx = s.idx /\ r.left = s.left
      /\ r.timer = s.timer
  BY ZenonT(60) DEF Named
<1>. HIDE DEF r
<1>4. Named(p) /\ p.status = "RUNNING" /\ p.act = to
  BY ZenonT(60), <1>3 DEF Named
<1>5. Named(h) /\ h.status = "RUNNING" /\ h.act = to /\ h.due = "waiting"
  BY ZenonT(60), <1>3 DEF Named
<1>6. CASE to = "NOT_STARTED"
  BY <1>2, <1>3, <1>6, EnterSettles
<1>7. CASE to = "HUMAN_READY_TO_START"
  <2>1. Resumed(s) = Arm(h, "human.start_timeout", Fresh)
    BY <1>2, <1>7 DEF AwaitStart
  <2>. HIDE DEF h
  <2>2. Waits(h) = "human.start_timeout" /\ ~Stopped(h)
    BY <1>5, <1>7 DEF Waits, Stopped
  <2>. QED BY <1>5, <1>7, <2>1, <2>2, ArmSettles DEF TimerCommands
<1>8. CASE to = "HOST_ANNOUNCING"
  <2>1. Resumed(s) = Arm(r, "host.elapsed", Fresh)
    BY <1>2, <1>8
  <2>2. Waits(r) = "host.elapsed" /\ ~Stopped(r)
    BY <1>3, <1>8 DEF Waits, Stopped
  <2>. QED BY <1>3, <1>8, <2>1, <2>2, ArmSettles DEF TimerCommands
<1>9. CASE to = "PREPARING"
  <2>1. r.left # NoTime
    BY <1>1, <1>3, <1>9 DEF ClockOK
  <2>2. Resumed(s) = Arm(p, "preparation.elapsed", Fresh)
    BY <1>2, <1>9, <2>1
  <2>. HIDE DEF p
  <2>3. Waits(p) = "preparation.elapsed" /\ ~Stopped(p)
    BY <1>4, <1>9 DEF Waits, Stopped
  <2>. QED BY <1>4, <1>9, <2>2, <2>3, ArmSettles DEF TimerCommands
<1>10. CASE to = "AGENT_PREPARING"
  <2>1. Resumed(s) = r
    BY <1>2, <1>10
  <2>. QED BY <1>3, <1>10, <2>1, QuietSettles DEF Waiting
<1>. QED BY <1>1, <1>6, <1>7, <1>8, <1>9, <1>10 DEF Entered

\* _system_error and _asr_failed
LEMMA FailureSettles ==
    ASSUME NEW s, Named(s)
    PROVE  Settled(SystemError(s)) /\ Settled(AsrFail(s))
<1>. DEFINE u == [s EXCEPT !.status = "ERROR", !.act = "RECOVERY_REQUIRED",
                     !.from = Restart(s, s.speaker), !.left = ViewLeft(s),
                     !.clock = NoTime, !.due = "none", !.cut = Cut(s)]
            o == [s.op EXCEPT !.status = IF s.op.kind = "asr.retry" /\ s.op.status = "PENDING"
                                           THEN "FAILED" ELSE @]
            a == [s EXCEPT !.status = "ERROR", !.act = "RECOVERY_REQUIRED",
                           !.from = IF s.status = "RUNNING" THEN s.act ELSE s.from,
                           !.failed = s.speech, !.left = ViewLeft(s), !.cut = Cut(s), !.op = o,
                           !.clock = NoTime, !.due = "none"]
<1>1. Named(u) /\ u.status = "ERROR" /\ u.act = "RECOVERY_REQUIRED"
  BY ZenonT(60) DEF Named
<1>2. SystemError(s) = Cancel(u)
  BY DEF SystemError
<1>3. AsrFail(s) = Cancel(a)
  BY Zenon DEF AsrFail, Named
<1>. HIDE DEF u, o
<1>4. Named(a) /\ a.status = "ERROR" /\ a.act = "RECOVERY_REQUIRED"
  BY ZenonT(60) DEF Named
<1>. HIDE DEF a
<1>5. Settled(Cancel(u))
  BY <1>1, Cancelled, NoTimerPlain, QuietSettles DEF Waiting
<1>6. Settled(Cancel(a))
  BY <1>4, Cancelled, NoTimerPlain, QuietSettles DEF Waiting
<1>. QED BY <1>2, <1>3, <1>5, <1>6

\* _paused_recovery
LEMMA PausedRecoverySettles ==
    ASSUME NEW s, Named(s), NEW f
    PROVE  Settled(PausedRecovery(s, f))
<1>. DEFINE u == [s EXCEPT !.status = "PAUSED", !.act = "RECOVERY_REQUIRED", !.from = f,
                           !.clock = NoTime, !.due = "none", !.speech = 0, !.start = 0]
<1>1. Named(u) /\ u.status = "PAUSED" /\ u.act = "RECOVERY_REQUIRED"
  BY ZenonT(60) DEF Named
<1>2. PausedRecovery(s, f) = Cancel(u)
  BY DEF PausedRecovery
<1>. HIDE DEF u
<1>. QED BY <1>1, <1>2, Cancelled, NoTimerPlain, QuietSettles DEF Waiting

\* A turn that starts again, before it waits for its speaker.
LEMMA ResetTurnFields ==
    ASSUME NEW s, Named(s)
    PROVE  LET t == ResetTurn(s)
           IN  /\ Named(t) /\ t.status = s.status /\ Plain(t.timer)
               /\ t.act \in {"AGENT_PREPARING", "HUMAN_READY_TO_START"}
<1>. DEFINE a == IF Plan[s.idx].kind = "AGENT_SPEECH" THEN "AGENT_PREPARING"
                                                       ELSE "HUMAN_READY_TO_START"
            sp == Plan[s.idx].speaker
            u == [Grant(s) EXCEPT !.act = a, !.speech = 0, !.start = 0, !.speaker = sp,
                                  !.seated = TRUE, !.clock = NoTime, !.due = "none"]
<1>1. a \in {"AGENT_PREPARING", "HUMAN_READY_TO_START"}
  OBVIOUS
<1>2. ResetTurn(s) = Cancel(u)
  BY DEF ResetTurn
<1>. HIDE DEF a, sp
<1>3. Named(u) /\ u.status = s.status /\ u.act = a
  BY ZenonT(60) DEF Named, Grant
<1>. HIDE DEF u
<1>. QED BY <1>1, <1>2, <1>3, Cancelled, NoTimerPlain

-----------------------------------------------------------------------------
(* The steps that leave the queue as it is *)

\* What the steps use of the two invariants.
LEMMA WaitFacts ==
    ASSUME IInv, WaitInv
    PROVE  /\ match \in Records /\ Named(match) /\ match.of \in Matches /\ Good(match)
           /\ fired \in Seq(Entries) /\ Len(fired) <= MaxFired
           /\ Awake(match) /\ Plain(match.timer) /\ AllPlain(fired)
BY Parts, RecordsNamed DEF WaitInv, WaitOK, Awake

\* A step that settles the match keeps the invariant.
LEMMA SettledStep ==
    ASSUME Settled(match'), AllPlain(fired')
    PROVE  WaitInv'
BY SettledWaits DEF WaitInv

\* The same where the queue is not touched.
LEMMA SettledKept ==
    ASSUME IInv, WaitInv, Settled(match'), UNCHANGED fired
    PROVE  WaitInv'
BY WaitFacts, SettledStep

\* runtime.start, host.finished and the failure of the host
LEMMA HostSettles ==
    ASSUME IInv, WaitInv, RuntimeStart \/ HostFinished \/ HostFailed
    PROVE  Settled(match') /\ UNCHANGED fired
<1>1. CASE RuntimeStart
  <2>. DEFINE u == [match EXCEPT !.status = "START_COUNTDOWN"]
  <2>1. match.status = "START_PENDING_RUNTIME" /\ match' = Arm(u, "countdown.elapsed", 1)
        /\ UNCHANGED fired
    BY <1>1 DEF RuntimeStart, Becomes
  <2>2. match.act = "NOT_STARTED" /\ match.idx = 1
    BY <2>1, WaitFacts DEF Good, ShapeOK, Starting
  <2>3. Named(u) /\ u.status = "START_COUNTDOWN" /\ u.act = match.act /\ u.idx = match.idx
    BY ZenonT(60), WaitFacts DEF Named
  <2>. HIDE DEF u
  <2>4. Waits(u) = "countdown.elapsed" /\ ~Stopped(u)
    BY <2>2, <2>3 DEF Waits, Stopped
  <2>. QED BY <2>1, <2>2, <2>3, <2>4, WaitFacts, ArmSettles DEF TimerCommands
<1>2. CASE HostFinished
  <2>1. match.act = "HOST_ANNOUNCING" /\ match' = HostDone(match) /\ UNCHANGED fired
    BY <1>2 DEF HostFinished, Becomes
  <2>2. match.status = "RUNNING" /\ match.idx \in 1..Len(Plan)
    BY <2>1, RunningFacts, WaitFacts, Fields DEF Running
  <2>3. CASE Plan[match.idx].kind = "HOST_AUDIO"
    BY <2>1, <2>2, <2>3, WaitFacts, AdvanceSettles DEF HostDone
  <2>4. CASE Plan[match.idx].kind # "HOST_AUDIO"
    <3>1. Plan[match.idx].kind \in Kinds \ {"HOST_AUDIO"}
      BY <2>2, <2>4, WaitFacts, Bounds
    <3>. QED BY <2>1, <2>2, <2>4, <3>1, WaitFacts, ActivateSettles DEF HostDone
  <2>. QED BY <2>3, <2>4
<1>3. CASE HostFailed
  BY <1>3, WaitFacts, FailureSettles DEF HostFailed, FailsTo
<1>. QED BY <1>1, <1>2, <1>3

\* The speeches of humans and of agents
LEMMA SpeechSettles ==
    ASSUME IInv, WaitInv,
           \/ SpeechStart \/ SpeechFinish \/ AsrFinalized \/ AsrFailed
           \/ PlaybackStarted \/ PlaybackFinished \/ AgentFinalized \/ AgentFailed
    PROVE  Settled(match') /\ UNCHANGED fired
<1>1. match.act \in Running => match.status = "RUNNING" /\ match.idx \in 1..Len(Plan)
  BY RunningFacts, WaitFacts, Fields
<1>2. /\ "SPEECH_FINALIZING" \in Finalizing /\ "AGENT_FINALIZING" \in Finalizing
      /\ "HUMAN_SPEAKING" \in Speaking /\ "AGENT_SPEAKING" \in Speaking
  BY DEF Finalizing, Speaking
<1>3. CASE SpeechStart
  <2>. DEFINE id == IF match.speech = 0 THEN match.issued + 1 ELSE match.speech
  <2>1. match.act \in Running
        /\ match' = StartSpeech(match, id, "HUMAN_SPEAKING", "SPEECH_FINALIZING")
        /\ UNCHANGED fired
    BY <1>3 DEF SpeechStart, Becomes, Running, Turns, HumanTurn
  <2>. HIDE DEF id
  <2>. QED BY <1>1, <1>2, <2>1, WaitFacts, StartSpeechSettles
<1>4. CASE SpeechFinish
  <2>1. match.act \in Running /\ match' = Finish(match, "SPEECH_FINALIZING") /\ UNCHANGED fired
    BY <1>4 DEF SpeechFinish, Becomes, Running, Turns, HumanTurn
  <2>. QED BY <1>1, <1>2, <2>1, WaitFacts, FinishSettles
<1>5. CASE AsrFinalized \/ AgentFinalized
  <2>1. match.act \in Running /\ match' = Advance(match) /\ UNCHANGED fired
    BY <1>5 DEF AsrFinalized, AgentFinalized, Becomes, Running, Turns, HumanTurn, AgentTurn
  <2>. QED BY <1>1, <2>1, WaitFacts, AdvanceSettles
<1>6. CASE AsrFailed \/ AgentFailed
  BY <1>6, WaitFacts, FailureSettles DEF AsrFailed, AgentFailed, FailsTo
<1>7. CASE PlaybackStarted
  <2>1. match.act \in Running
        /\ match' = StartSpeech(match, match.issued + 1, "AGENT_SPEAKING", "AGENT_FINALIZING")
        /\ UNCHANGED fired
    BY <1>7 DEF PlaybackStarted, Becomes, Running, Turns, AgentTurn
  <2>. QED BY <1>1, <1>2, <2>1, WaitFacts, StartSpeechSettles
<1>8. CASE PlaybackFinished
  <2>1. match.act \in Running /\ match' = Finish(match, "AGENT_FINALIZING") /\ UNCHANGED fired
    BY <1>8 DEF PlaybackFinished, Becomes, Running, Turns, AgentTurn
  <2>. QED BY <1>1, <1>2, <2>1, WaitFacts, FinishSettles
<1>. QED BY <1>3, <1>4, <1>5, <1>6, <1>7, <1>8

\* A held match of which only the operation is replaced.
LEMMA OpSettles ==
    ASSUME IInv, WaitInv, match.status \in Held, NEW o, match' = [match EXCEPT !.op = o]
    PROVE  Settled(match')
<1>1. match'.status = match.status /\ match'.act = match.act /\ match'.timer = match.timer
  BY Zenon, WaitFacts DEF Named
<1>2. match.act \notin Waiting
  BY WaitFacts DEF Good, ShapeOK, Held, Waiting
<1>. QED BY <1>1, <1>2, WaitFacts, QuietSettles DEF Held

\* Pause, resume and termination
LEMMA ControlSettles ==
    ASSUME IInv, WaitInv, Pause \/ StartCountdown \/ Terminate
    PROVE  Settled(match') /\ UNCHANGED fired
<1>1. CASE Pause
  <2>1. UNCHANGED fired
    BY <1>1 DEF Pause
  <2>2. CASE match.status = "ERROR" /\ match' = [match EXCEPT !.op.status = "CANCELLED",
                                                              !.op.auto = FALSE]
    <3>. DEFINE o == [match.op EXCEPT !.status = "CANCELLED", !.auto = FALSE]
    <3>1. match' = [match EXCEPT !.op = o]
      BY ZenonT(60), <2>2, WaitFacts DEF Named
    <3>. HIDE DEF o
    <3>. QED BY <2>1, <2>2, <3>1, OpSettles DEF Held
  <2>3. CASE match.status = "PAUSED" /\ match' = [match EXCEPT !.op.auto = FALSE]
    <3>. DEFINE o == [match.op EXCEPT !.auto = FALSE]
    <3>1. match' = [match EXCEPT !.op = o]
      BY ZenonT(60), <2>3, WaitFacts DEF Named
    <3>. HIDE DEF o
    <3>. QED BY <2>1, <2>3, <3>1, OpSettles DEF Held
  <2>4. CASE match' = Cancel([match EXCEPT !.status = "PAUSED", !.act = "RECOVERY_REQUIRED",
                                !.from = match.act, !.due = "none", !.clock = NoTime,
                                !.left = IF match.clock # NoTime THEN match.clock ELSE @,
                                !.cut = Cut(match)])
    <3>. DEFINE l == IF match.clock # NoTime THEN match.clock ELSE match.left
                b == Cut(match)
                u == [match EXCEPT !.status = "PAUSED", !.act = "RECOVERY_REQUIRED",
                                   !.from = match.act, !.due = "none", !.clock = NoTime,
                                   !.left = l, !.cut = b]
    <3>1. match' = Cancel(u)
      BY Zenon, <2>4, WaitFacts DEF Named
    <3>. HIDE DEF l, b
    <3>2. Named(u) /\ u.status = "PAUSED" /\ u.act = "RECOVERY_REQUIRED"
      BY ZenonT(60), WaitFacts DEF Named
    <3>. HIDE DEF u
    <3>. QED BY <2>1, <3>1, <3>2, Cancelled, NoTimerPlain, QuietSettles DEF Waiting
  <2>. QED BY <1>1, <2>2, <2>3, <2>4 DEF Pause
<1>2. CASE StartCountdown
  BY <1>2, WaitFacts, CountdownSettles DEF StartCountdown
<1>3. CASE Terminate
  <2>. DEFINE o == [match.op EXCEPT !.status = IF @ = "PENDING" THEN "CANCELLED" ELSE @]
              u == [match EXCEPT !.status = "TERMINATED", !.act = "MATCH_FINISHED",
                                 !.speech = 0, !.due = "none", !.op = o]
  <2>1. match' = Cancel(u) /\ UNCHANGED fired
    BY ZenonT(60), <1>3, WaitFacts DEF Terminate, Named
  <2>. HIDE DEF o
  <2>2. Named(u) /\ u.status = "TERMINATED" /\ u.act = "MATCH_FINISHED"
    BY ZenonT(60), WaitFacts DEF Named
  <2>. HIDE DEF u
  <2>. QED BY <2>1, <2>2, Cancelled, NoTimerPlain, QuietSettles DEF Waiting
<1>. QED BY <1>1, <1>2, <1>3

\* The emergency operations
LEMMA EmergencySettles ==
    ASSUME IInv, WaitInv,
           \/ StageReset \/ SkipBegin \/ SkipComplete \/ SkipFail
           \/ SpeechReset \/ OperatorReset \/ RetryBegin \/ RetryDone \/ RetryFailed
    PROVE  Settled(match') /\ UNCHANGED fired
<1>1. CASE StageReset
  <2>. DEFINE s == [match EXCEPT !.idx = FirstOfStage(match.idx),
                                 !.op = NewOp("stage.reset", "SUCCEEDED"), !.failed = 0,
                                 !.speaker = NoOne, !.seated = FALSE, !.left = NoTime]
  <2>1. match' = PausedRecovery(s, "NOT_STARTED") /\ UNCHANGED fired
    BY <1>1 DEF StageReset, Becomes
  <2>2. Named(s)
    BY ZenonT(60), WaitFacts DEF Named
  <2>. HIDE DEF s
  <2>. QED BY <2>1, <2>2, PausedRecoverySettles
<1>2. CASE SkipBegin
  <2>. DEFINE s == [match EXCEPT !.op = NewOp("speech.skip", "PENDING"),
                                 !.used = IF match.left = NoTime THEN 0 ELSE Duration - match.left]
              f == IF match.speaker = Agent THEN "AGENT_PREPARING" ELSE "HUMAN_READY_TO_START"
  <2>1. match' = PausedRecovery(s, f) /\ UNCHANGED fired
    BY <1>2 DEF SkipBegin
  <2>2. Named(s)
    BY ZenonT(60), WaitFacts DEF Named
  <2>. HIDE DEF s, f
  <2>. QED BY <2>1, <2>2, PausedRecoverySettles
<1>3. CASE SkipComplete
  <2>. DEFINE o == [match.op EXCEPT !.status = "SUCCEEDED"]
              s == [match EXCEPT !.idx = @ + 1, !.op = o, !.failed = 0, !.speaker = NoOne,
                                 !.seated = FALSE, !.left = NoTime]
  <2>1. match' = PausedRecovery(s, "NOT_STARTED") /\ UNCHANGED fired
    BY ZenonT(60), <1>3, WaitFacts DEF SkipComplete, Named
  <2>. HIDE DEF o
  <2>2. Named(s)
    BY ZenonT(60), WaitFacts DEF Named
  <2>. HIDE DEF s
  <2>. QED BY <2>1, <2>2, PausedRecoverySettles
<1>4. CASE SkipFail
  <2>. DEFINE o == [match.op EXCEPT !.status = "FAILED"]
  <2>1. match.status = "PAUSED" /\ match' = [match EXCEPT !.op.status = "FAILED"] /\ UNCHANGED fired
    BY <1>4 DEF SkipFail, SkipPending, Becomes
  <2>2. match' = [match EXCEPT !.op = o]
    BY ZenonT(60), <2>1, WaitFacts DEF Named
  <2>. HIDE DEF o
  <2>. QED BY <2>1, <2>2, OpSettles DEF Held
<1>5. CASE SpeechReset
  <2>. DEFINE s == ResetTurn(match)
              h == [s EXCEPT !.due = "waiting"]
  <2>1. match.act \in Running /\ UNCHANGED fired
        /\ match' = IF s.act = "HUMAN_READY_TO_START" THEN Arm(h, "human.start_timeout", Fresh) ELSE s
    BY <1>5 DEF SpeechReset, Becomes, AwaitStart, Running, Turns
  <2>2. /\ Named(s) /\ s.status = "RUNNING" /\ Plain(s.timer)
        /\ s.act \in {"AGENT_PREPARING", "HUMAN_READY_TO_START"}
    BY <2>1, RunningFacts, WaitFacts, ResetTurnFields
  <2>. HIDE DEF s
  <2>3. Named(h) /\ h.status = s.status /\ h.act = s.act /\ h.due = "waiting"
    BY ZenonT(60), <2>2 DEF Named
  <2>4. CASE s.act = "HUMAN_READY_TO_START"
    <3>1. Waits(h) = "human.start_timeout" /\ ~Stopped(h)
      BY <2>2, <2>3, <2>4 DEF Waits, Stopped
    <3>. HIDE DEF h
    <3>. QED BY <2>1, <2>2, <2>3, <2>4, <3>1, WaitFacts, ArmSettles DEF TimerCommands
  <2>5. CASE s.act = "AGENT_PREPARING"
    BY <2>1, <2>2, <2>5, QuietSettles DEF Waiting
  <2>. QED BY <2>2, <2>4, <2>5
<1>6. CASE OperatorReset
  <2>. DEFINE m == [match EXCEPT !.op = NewOp("speech.reset", "SUCCEEDED"), !.failed = 0]
              s == ResetTurn(m)
  <2>1. match' = PausedRecovery(s, s.act) /\ UNCHANGED fired
    BY <1>6 DEF OperatorReset, Becomes
  <2>2. Named(m)
    BY ZenonT(60), WaitFacts DEF Named
  <2>. HIDE DEF m
  <2>3. Named(s)
    BY <2>2, ResetTurnFields
  <2>. HIDE DEF s
  <2>. QED BY <2>1, <2>3, PausedRecoverySettles
<1>7. CASE RetryBegin
  BY <1>7, OpSettles DEF RetryBegin, Held
<1>8. CASE RetryDone
  <2>. DEFINE o == [match.op EXCEPT !.status = "SUCCEEDED"]
              s == [match EXCEPT !.op = o, !.failed = 0]
              r == [s EXCEPT !.status = "RUNNING"]
              next == Advance(r)
              p == [s EXCEPT !.status = "PAUSED", !.act = "RECOVERY_REQUIRED"]
  <2>1. /\ match' = IF match.speech # match.failed THEN p
                      ELSE IF next.status = "FINISHED" THEN next
                      ELSE PausedRecovery(next, next.act)
        /\ UNCHANGED fired
    BY ZenonT(60), <1>8, WaitFacts DEF RetryDone, Named
  <2>. HIDE DEF o
  <2>2. Named(s) /\ s.timer = match.timer /\ s.idx = match.idx
    BY ZenonT(60), WaitFacts DEF Named
  <2>. HIDE DEF s
  <2>3. Named(r) /\ r.status = "RUNNING" /\ r.timer = match.timer /\ r.idx = match.idx
    BY ZenonT(60), <2>2 DEF Named
  <2>4. p.status = "PAUSED" /\ p.act = "RECOVERY_REQUIRED" /\ p.timer = match.timer
    BY ZenonT(60), <2>2 DEF Named
  <2>. HIDE DEF r, p
  <2>5. CASE match.speech # match.failed
    BY <2>1, <2>4, <2>5, WaitFacts, QuietSettles DEF Waiting
  <2>6. CASE match.speech = match.failed
    <3>1. match.idx \in 1..Len(Plan)
      BY <1>8, WaitFacts, Fields, Parts DEF RetryDone, RetryPending, PendingOK
    <3>2. Settled(next) /\ Named(next)
      BY <2>3, <3>1, WaitFacts, AdvanceSettles
    <3>. HIDE DEF next
    <3>. QED BY <2>1, <2>6, <3>2, PausedRecoverySettles
  <2>. QED BY <2>5, <2>6
<1>9. CASE RetryFailed
  BY <1>9, WaitFacts, FailureSettles DEF RetryFailed, Becomes
<1>. QED BY <1>1, <1>2, <1>3, <1>4, <1>5, <1>6, <1>7, <1>8, <1>9

\* The restart holds the match, or finds it held.
LEMMA CrashSettles ==
    ASSUME IInv, WaitInv, Crash
    PROVE  Settled(match') /\ AllPlain(fired')
<1>. DEFINE u == [match EXCEPT !.clock = NoTime, !.due = "none"]
            lost == Cancel(u)
            back == IF match.status \in {"START_PENDING_RUNTIME", "START_COUNTDOWN", "RUNNING"}
                         \/ match.failed # 0
                      THEN SystemRecover(lost) ELSE lost
            o == [back.op EXCEPT !.status = IF @ = "PENDING" THEN "CANCELLED" ELSE @]
<1>1. /\ match' = [back EXCEPT !.op.status = IF @ = "PENDING" THEN "CANCELLED" ELSE @]
      /\ fired' = << >> /\ match.status \notin Terminal
  BY DEF Crash
<1>2. Named(u) /\ u.status = match.status /\ u.act = match.act
  BY ZenonT(60), WaitFacts DEF Named
<1>. HIDE DEF u
<1>3. Named(lost) /\ lost.status = match.status /\ lost.act = match.act /\ lost.timer = NoTimer
  BY <1>2, Cancelled
<1>. HIDE DEF lost
<1>4. Named(SystemRecover(lost)) /\ SystemRecover(lost).status \in {"ERROR", "SYSTEM_RECOVERY"}
      /\ SystemRecover(lost).act = "RECOVERY_REQUIRED" /\ SystemRecover(lost).timer = NoTimer
  <2>1. CASE lost.failed # 0
    <3>. DEFINE p == [lost.op EXCEPT !.status = IF @ = "PENDING" THEN "FAILED" ELSE @]
                v == [lost EXCEPT !.status = "ERROR", !.act = "RECOVERY_REQUIRED",
                                  !.clock = NoTime, !.due = "none", !.op = p]
    <3>1. SystemRecover(lost) = Cancel(v)
      BY ZenonT(60), <1>3, <2>1 DEF SystemRecover, Named
    <3>. HIDE DEF p
    <3>2. Named(v) /\ v.status = "ERROR" /\ v.act = "RECOVERY_REQUIRED"
      BY ZenonT(60), <1>3 DEF Named
    <3>. HIDE DEF v
    <3>. QED BY <3>1, <3>2, Cancelled
  <2>2. CASE lost.failed = 0
    <3>. DEFINE planned == IF lost.idx <= Len(Plan) THEN Plan[lost.idx].speaker ELSE NoOne
                speaker == IF planned # NoOne THEN planned ELSE lost.speaker
                f == Restart(lost, speaker)
                v == [Grant(lost) EXCEPT !.status = "SYSTEM_RECOVERY",
                         !.act = "RECOVERY_REQUIRED", !.from = f,
                         !.speaker = speaker, !.speech = 0, !.start = 0,
                         !.clock = NoTime, !.due = "none"]
    <3>1. SystemRecover(lost) = Cancel(v)
      BY <2>2 DEF SystemRecover
    <3>. HIDE DEF speaker, f
    <3>2. Named(v) /\ v.status = "SYSTEM_RECOVERY" /\ v.act = "RECOVERY_REQUIRED"
      BY ZenonT(60), <1>3 DEF Named, Grant
    <3>. HIDE DEF v
    <3>. QED BY <3>1, <3>2, Cancelled
  <2>. QED BY <2>1, <2>2
<1>5. Named(back) /\ back.status # "START_COUNTDOWN" /\ back.act \notin Waiting
      /\ back.timer = NoTimer
  <2>1. CASE match.status \in {"START_PENDING_RUNTIME", "START_COUNTDOWN", "RUNNING"}
                \/ match.failed # 0
    <3>1. back = SystemRecover(lost)
      BY <2>1
    <3>. HIDE DEF back
    <3>. QED BY <1>4, <3>1 DEF Waiting
  <2>2. CASE ~(match.status \in {"START_PENDING_RUNTIME", "START_COUNTDOWN", "RUNNING"}
                  \/ match.failed # 0)
    <3>1. back = lost
      BY <2>2
    <3>2. match.status \in Held
      BY <1>1, <2>2, WaitFacts, Fields DEF Statuses, Held, Terminal
    <3>3. match.act \notin Waiting
      BY <3>2, WaitFacts DEF Good, ShapeOK, Held, Waiting
    <3>. HIDE DEF back
    <3>. QED BY <1>3, <2>2, <3>1, <3>3
  <2>. QED BY <2>1, <2>2
<1>6. match' = [back EXCEPT !.op = o]
  <2>. HIDE DEF back
  <2>. QED BY ZenonT(60), <1>1, <1>5 DEF Named
<1>. HIDE DEF back, o
<1>7. match'.status = back.status /\ match'.act = back.act /\ match'.timer = NoTimer
  BY ZenonT(60), <1>5, <1>6 DEF Named
<1>8. AllPlain(fired')
  BY <1>1 DEF AllPlain
<1>. QED BY <1>5, <1>7, <1>8, NoTimerPlain, QuietSettles

-----------------------------------------------------------------------------
(* The steps that leave the wait as it is *)

\* Two matches that wait for the same.
SameWait(s, t) ==
    /\ t.status = s.status /\ t.act = s.act /\ t.idx = s.idx /\ t.guard = s.guard
    /\ t.speech = s.speech /\ t.start = s.start /\ (t.clock = NoTime <=> s.clock = NoTime)

\* What ends the wait of one ends that of the other.
LEMMA SameEnds ==
    ASSUME NEW s, NEW t, SameWait(s, t)
    PROVE  /\ Waits(t) = Waits(s) /\ Stopped(t) = Stopped(s)
           /\ \A e : EndsFor(e, s) => EndsFor(e, t)
           /\ \A e : Fails(e, s) => Fails(e, t)
<1>1. Waits(t) = Waits(s) /\ Stopped(t) = Stopped(s)
  BY DEF SameWait, Waits, Stopped
<1>2. \A e : Fails(e, s) => Fails(e, t)
  BY DEF SameWait, Fails
<1>. QED BY <1>1, <1>2 DEF SameWait, EndsFor

\* A step that leaves the wait, its timer and the queue.
LEMMA KeptStep ==
    ASSUME WaitInv, SameWait(match, match'), match'.timer = match.timer,
           match'.due = match.due, UNCHANGED <<fired, cached>>,
           Stopped(match) => Watched(match', fired, offline', grace', joining')
    PROVE  WaitInv'
<1>1. Awake(match')
  BY DEF WaitInv, WaitOK, Awake, SameWait
<1>2. Waits(match') = Waits(match) /\ Stopped(match') = Stopped(match) /\ match'.idx = match.idx
  BY SameEnds DEF SameWait
<1>3. \A e : EndsFor(e, match) => EndsFor(e, match')
  BY SameEnds
<1>. QED BY <1>1, <1>2, <1>3 DEF WaitInv, WaitOK

\* A step that does not concern the match, its queue, or who is absent.
LEMMA IdleStep ==
    ASSUME WaitInv, UNCHANGED <<match, fired, cached, offline, grace, joining>>
    PROVE  WaitInv'
BY DEF WaitInv

\* A clock that runs keeps running.
LEMMA TickWaits ==
    ASSUME IInv, WaitInv, Tick
    PROVE  WaitInv'
<1>. DEFINE c == match.clock - 1
            n == IF match.act \in Speaking THEN match.used + 1 ELSE match.used
<1>1. match' = [match EXCEPT !.clock = c, !.used = n]
  BY ZenonT(60), WaitFacts DEF Tick, Named
<1>2. match.clock # NoTime /\ c # NoTime
  BY WaitFacts, Fields DEF Tick, NoTime
<1>. HIDE DEF c, n
<1>3. SameWait(match, match') /\ match'.timer = match.timer /\ match'.due = match.due
  <2>1. /\ match'.status = match.status /\ match'.act = match.act /\ match'.idx = match.idx
        /\ match'.guard = match.guard /\ match'.speech = match.speech
        /\ match'.start = match.start /\ match'.clock = c
        /\ match'.timer = match.timer /\ match'.due = match.due
    BY ZenonT(60), <1>1, WaitFacts DEF Named
  <2>. QED BY <1>2, <2>1 DEF SameWait
<1>. QED BY <1>2, <1>3, KeptStep DEF Tick, Stopped

\* The clock of a speech stops: nothing waits for time, but it must be watched.
LEMMA StoppedStep ==
    ASSUME IInv, WaitInv, NEW s, Named(s), s.act = "HUMAN_SPEAKING", s.status = "RUNNING",
           s.speaker = match.speaker, s.speech = match.speech, match' = StopClock(s),
           UNCHANGED fired,
           \/ match.speaker \in offline' \cap grace'
           \/ match.speaker \notin offline' /\ joining' = match.speech
    PROVE  WaitInv'
<1>. DEFINE l == ViewLeft(s)
            u == [s EXCEPT !.left = l, !.clock = NoTime]
<1>1. match' = Cancel(u)
  BY DEF StopClock
<1>. HIDE DEF l
<1>2. Named(u) /\ u.act = "HUMAN_SPEAKING" /\ u.status = "RUNNING" /\ u.clock = NoTime
      /\ u.speaker = match.speaker /\ u.speech = match.speech
  BY ZenonT(60) DEF Named
<1>. HIDE DEF u
<1>3. match'.act = "HUMAN_SPEAKING" /\ match'.status = "RUNNING" /\ match'.clock = NoTime
      /\ match'.timer = NoTimer
  BY <1>1, <1>2, Cancelled
<1>4. match'.speaker = match.speaker /\ match'.speech = match.speech
  BY ZenonT(60), <1>1, <1>2 DEF Named, Cancel
<1>5. Awake(match') /\ Waits(match') = "none"
  BY <1>3, NoTimerPlain DEF Awake, Waits
<1>6. Watched(match', fired', offline', grace', joining')
  BY <1>4 DEF Watched
<1>. QED BY <1>5, <1>6, WaitFacts DEF WaitInv, WaitOK

\* A presence handler that only replaces what is known of absences.
LEMMA AbsenceWaits ==
    ASSUME IInv, WaitInv, NEW x, NEW y, match' = Absent(match, x, y),
           UNCHANGED <<fired, cached>>,
           Stopped(match) =>
               \/ match.speaker \notin offline' /\ joining' = match.speech
               \/ /\ match.speaker \in offline' <=> match.speaker \in offline
                  /\ match.speaker \in grace' <=> match.speaker \in grace
                  /\ match.speaker \in y <=> match.speaker \in match.since
                  /\ joining' = joining
    PROVE  WaitInv'
<1>1. /\ match'.status = match.status /\ match'.act = match.act /\ match'.idx = match.idx
      /\ match'.guard = match.guard /\ match'.speech = match.speech
      /\ match'.start = match.start /\ match'.clock = match.clock
      /\ match'.timer = match.timer /\ match'.due = match.due
  BY ZenonT(60), WaitFacts DEF Named, Absent
<1>2. match'.speaker = match.speaker /\ match'.since = y
  BY ZenonT(60), WaitFacts DEF Named, Absent
<1>3. SameWait(match, match')
  BY <1>1 DEF SameWait
<1>4. \A e : Fails(e, match) => Fails(e, match')
  BY <1>3, SameEnds
<1>5. ASSUME Stopped(match) PROVE Watched(match', fired, offline', grace', joining')
  <2>1. Watched(match, fired, offline, grace, joining)
    BY <1>5 DEF WaitInv, WaitOK
  <2>. QED BY <1>1, <1>2, <1>4, <1>5, <2>1 DEF Watched
<1>. QED BY <1>1, <1>3, <1>5, KeptStep

\* member.offline stops the clock of the absent speaker, whose grace period begins.
LEMMA OfflineWaits ==
    ASSUME IInv, WaitInv, NEW u \in Users, Offline(u)
    PROVE  WaitInv'
<1>1. UNCHANGED <<fired, cached, joining>>
  BY DEF Offline
<1>2. CASE Admits("member.offline") /\ u \notin offline
  <2>. DEFINE y == match.since \cup {u}
              s == Absent(match, u, y)
  <2>1. /\ match' = IF Speaks(u) THEN StopClock(s) ELSE s
        /\ offline' = offline \cup {u} /\ grace' = grace \cup {u}
    BY ZenonT(60), <1>2, WaitFacts DEF Offline, Absent, Named
  <2>2. CASE Speaks(u)
    <3>1. match.status = "RUNNING" /\ match.act = "HUMAN_SPEAKING" /\ match.speaker = u
      BY <2>2, SpeaksFacts DEF Speaks
    <3>2. /\ Named(s) /\ s.act = match.act /\ s.status = match.status
          /\ s.speaker = match.speaker /\ s.speech = match.speech
      BY ZenonT(60), WaitFacts DEF Named, Absent
    <3>. HIDE DEF s
    <3>. QED BY <1>1, <2>1, <2>2, <3>1, <3>2, StoppedStep
  <2>3. CASE ~Speaks(u)
    <3>1. Stopped(match) => match.speaker # u
      BY <2>3 DEF Speaks, Stopped
    <3>2. match' = Absent(match, u, y)
      BY <2>1, <2>3
    <3>. QED BY <1>1, <2>1, <3>1, <3>2, AbsenceWaits
  <2>. QED BY <2>2, <2>3
<1>3. CASE ~(Admits("member.offline") /\ u \notin offline)
  BY <1>1, <1>3, IdleStep DEF Offline
<1>. QED BY <1>2, <1>3

\* member.online sets up the media of the speaker who is back.
LEMMA OnlineWaits ==
    ASSUME IInv, WaitInv, NEW u \in Users, Online(u)
    PROVE  WaitInv'
<1>1. UNCHANGED <<fired, cached>>
  BY DEF Online
<1>2. CASE /\ Admits("member.online") /\ Known(u)
           /\ \E other \in IF offline \subseteq {u} THEN {NoOne} ELSE offline \ {u} :
                 match' = [match EXCEPT !.offUser = other, !.since = @ \ {u}]
           /\ offline' = offline \ {u} /\ grace' = grace \ {u}
           /\ joining' = IF Speaks(u) THEN match.speech ELSE joining
  <2>. DEFINE y == match.since \ {u}
  <2>1. PICK other : match' = [match EXCEPT !.offUser = other, !.since = @ \ {u}]
    BY <1>2
  <2>2. match' = Absent(match, other, y)
    BY ZenonT(60), <2>1, WaitFacts DEF Absent, Named
  <2>3. Stopped(match) => (Speaks(u) <=> match.speaker = u)
    BY DEF Stopped, Speaks
  <2>. QED BY <1>1, <1>2, <2>2, <2>3, AbsenceWaits
<1>3. CASE /\ ~Known(u) /\ match.status = "RUNNING" /\ Speaks(u)
           /\ match' = StopClock(match) /\ joining' = match.speech
           /\ UNCHANGED <<offline, grace>>
  <2>1. match.speaker = u /\ match.act = "HUMAN_SPEAKING" /\ u \notin offline
    BY <1>3 DEF Known, Speaks
  <2>. QED BY <1>1, <1>3, <2>1, WaitFacts, StoppedStep
<1>4. CASE UNCHANGED <<match, offline, grace, joining>>
  BY <1>1, <1>4, IdleStep
<1>. QED BY <1>2, <1>3, <1>4 DEF Online

\* A command of the running match is not refused.
LEMMA RunningAdmits ==
    ASSUME IInv, match.status \in {"START_COUNTDOWN", "RUNNING"}, NEW cmd
    PROVE  Admits(cmd)
BY Parts DEF Admits, Admitted, PendingOK, Terminal

\* speech.media_ready lets the clock run again.
LEMMA MediaWaits ==
    ASSUME IInv, WaitInv, MediaSettled
    PROVE  WaitInv'
<1>. DEFINE current == /\ Admits("speech.media_ready")
                       /\ match.act = "HUMAN_SPEAKING" /\ match.speech = joining
                       /\ match.speaker \notin match.since \cup offline
<1>1. UNCHANGED <<fired, cached, offline, grace>>
  BY DEF MediaSettled
<1>2. CASE current /\ match.clock = NoTime
           /\ match' = Arm([match EXCEPT !.clock = match.left], "speech.deadline", Fresh)
  <2>. DEFINE u == [match EXCEPT !.clock = match.left]
  <2>1. match.status = "RUNNING" /\ match.left # NoTime
    <3>1. match.status = "RUNNING"
      BY <1>2, RunningFacts DEF Running, Turns, HumanTurn
    <3>. QED BY <1>2, <3>1, WaitFacts DEF Good, ClockOK, Speaking
  <2>2. Named(u) /\ u.status = match.status /\ u.act = match.act /\ u.clock = match.left
    BY ZenonT(60), WaitFacts DEF Named
  <2>3. match' = Arm(u, "speech.deadline", Fresh)
    BY <1>2
  <2>. HIDE DEF u
  <2>4. Waits(u) = "speech.deadline" /\ ~Stopped(u)
    BY <1>2, <2>1, <2>2 DEF Waits, Stopped
  <2>5. Settled(match')
    BY <1>2, <2>2, <2>3, <2>4, WaitFacts, ArmSettles DEF TimerCommands
  <2>. QED BY <1>1, <2>5, SettledKept
<1>3. CASE match' = AsrFail(match)
  BY <1>1, <1>3, WaitFacts, FailureSettles, SettledKept
<1>4. CASE (~current \/ match.clock # NoTime) /\ match' = match
  <2>1. ASSUME Stopped(match) PROVE Watched(match, fired, offline, grace, joining')
    <3>1. Watched(match, fired, offline, grace, joining)
      BY <2>1 DEF WaitInv, WaitOK
    <3>2. ~current /\ match.status = "RUNNING" /\ match.act = "HUMAN_SPEAKING"
      BY <1>4, <2>1, RunningFacts DEF Stopped, Running, Turns, HumanTurn
    <3>3. Admits("speech.media_ready")
      BY <3>2, RunningAdmits
    <3>. QED BY <3>1, <3>2, <3>3 DEF Watched
  <2>2. SameWait(match, match')
    BY <1>4 DEF SameWait
  <2>. QED BY <1>1, <1>4, <2>1, <2>2, KeptStep
<1>. QED BY <1>2, <1>3, <1>4 DEF MediaSettled

-----------------------------------------------------------------------------
(* The queue *)

\* The entries of a queue to which one is appended.
LEMMA AppendedEntries ==
    ASSUME NEW q \in Seq(Entries), NEW e \in Entries
    PROVE  LET r == Append(q, e)
           IN  /\ \A i \in 1..Len(q) : i \in 1..Len(r) /\ r[i] = q[i]
               /\ \E i \in 1..Len(r) : r[i] = e
               /\ \A i \in 1..Len(r) : r[i] = e \/ \E j \in 1..Len(q) : r[i] = q[j]
<1>. DEFINE r == Append(q, e)
<1>1. Len(q) \in Nat /\ Len(r) = Len(q) + 1
  OBVIOUS
<1>2. \A i \in 1..Len(q) : r[i] = q[i]
  OBVIOUS
<1>3. r[Len(q) + 1] = e
  OBVIOUS
<1>. HIDE DEF r
<1>. QED BY <1>1, <1>2, <1>3 DEF r

\* The entries of a queue whose head is taken.
LEMMA TailEntries ==
    ASSUME NEW q \in Seq(Entries), q # << >>
    PROVE  LET r == Tail(q)
           IN  /\ r \in Seq(Entries) /\ Head(q) \in Entries
               /\ 1 \in 1..Len(q) /\ Head(q) = q[1]
               /\ \A i \in 1..Len(r) : \E j \in 1..Len(q) : r[i] = q[j]
               /\ \A i \in 1..Len(q) : q[i] = Head(q) \/ \E j \in 1..Len(r) : r[j] = q[i]
<1>. DEFINE r == Tail(q)
<1>1. Len(q) \in Nat /\ r \in Seq(Entries) /\ Len(r) = Len(q) - 1 /\ Len(q) >= 1
  OBVIOUS
<1>2. \A i \in 1..Len(r) : r[i] = q[i + 1] /\ i + 1 \in 1..Len(q)
  OBVIOUS
<1>3. Head(q) = q[1] /\ 1 \in 1..Len(q) /\ q[1] \in Entries
  OBVIOUS
<1>. HIDE DEF r
<1>4. \A i \in 1..Len(q) : i = 1 \/ (i - 1 \in 1..Len(r) /\ r[i - 1] = q[i])
  <2>. SUFFICES ASSUME NEW i \in 1..Len(q), i # 1
                PROVE  i - 1 \in 1..Len(r) /\ r[i - 1] = q[i]
    OBVIOUS
  <2>1. i - 1 \in 1..Len(r) /\ (i - 1) + 1 = i
    BY <1>1
  <2>. QED BY <1>2, <2>1
<1>. QED BY <1>1, <1>2, <1>3, <1>4 DEF r

\* The timer fires: its command waits in the queue instead.
LEMMA FireWaits ==
    ASSUME IInv, WaitInv, Fire
    PROVE  WaitInv'
<1>. DEFINE d == IF match.timer.cmd = "human.start_timeout" THEN "passed" ELSE match.due
            e == match.timer
<1>1. match' = [match EXCEPT !.timer = NoTimer, !.due = d]
  BY Zenon, WaitFacts DEF Fire, Named
<1>2. /\ fired' = Append(fired, e)
      /\ UNCHANGED <<cached, offline, grace, joining>>
  BY DEF Fire, Queue, presence
<1>3. e \in Entries /\ Plain(e) /\ fired \in Seq(Entries)
  BY WaitFacts DEF Records
<1>4. d = "passed" \/ d = match.due
  OBVIOUS
<1>. HIDE DEF d
<1>5. /\ match'.status = match.status /\ match'.act = match.act /\ match'.idx = match.idx
      /\ match'.guard = match.guard /\ match'.speech = match.speech
      /\ match'.start = match.start /\ match'.clock = match.clock
      /\ match'.timer = NoTimer /\ match'.due = d
  BY ZenonT(60), <1>1, WaitFacts DEF Named
<1>6. match'.speaker = match.speaker /\ match'.since = match.since
  BY ZenonT(60), <1>1, WaitFacts DEF Named
<1>7. SameWait(match, match')
  BY <1>5 DEF SameWait
<1>8. /\ \A i \in 1..Len(fired) : i \in 1..Len(fired') /\ fired'[i] = fired[i]
      /\ \E i \in 1..Len(fired') : fired'[i] = e
      /\ \A i \in 1..Len(fired') : fired'[i] = e \/ \E j \in 1..Len(fired) : fired'[i] = fired[j]
  BY <1>2, <1>3, AppendedEntries
<1>9. /\ Waits(match') = Waits(match) /\ Stopped(match') = Stopped(match)
      /\ \A x : EndsFor(x, match) => EndsFor(x, match')
      /\ \A x : Fails(x, match) => Fails(x, match')
  BY <1>7, SameEnds
<1>10. Awake(match')
  BY <1>4, <1>5, WaitFacts, NoTimerPlain DEF Awake
<1>11. AllPlain(fired')
  BY <1>3, <1>8, WaitFacts DEF AllPlain
<1>12. ASSUME Waits(match') # "none" /\ <<Waits(match'), match'.idx>> \notin cached'
       PROVE  \E i \in 1..Len(fired') : EndsFor(fired'[i], match')
  <2>1. EndsFor(match.timer, match) \/ \E i \in 1..Len(fired) : EndsFor(fired[i], match)
    BY <1>2, <1>5, <1>9, <1>12 DEF WaitInv, WaitOK
  <2>. QED BY <1>8, <1>9, <2>1
<1>13. ASSUME Stopped(match')
       PROVE  Watched(match', fired', offline', grace', joining')
  <2>1. Watched(match, fired, offline, grace, joining)
    BY <1>9, <1>13 DEF WaitInv, WaitOK
  <2>2. \/ \E i \in 1..Len(fired') : Fails(fired'[i], match')
        \/ /\ match'.speaker \in offline'
           /\ \/ match'.speaker \in grace'
              \/ \E i \in 1..Len(fired') :
                    fired'[i].cmd = "offline.expired" /\ fired'[i].user = match'.speaker
        \/ match'.speaker \notin offline'
           /\ (match'.speaker \in match'.since \/ joining' = match'.speech)
    <3>1. CASE \E i \in 1..Len(fired) : Fails(fired[i], match)
      BY <1>8, <1>9, <3>1
    <3>2. CASE match.speaker \in offline /\ match.speaker \in grace
      BY <1>2, <1>6, <3>2
    <3>3. CASE /\ match.speaker \in offline
               /\ \E i \in 1..Len(fired) :
                     fired[i].cmd = "offline.expired" /\ fired[i].user = match.speaker
      BY <1>2, <1>6, <1>8, <3>3
    <3>4. CASE match.speaker \notin offline
               /\ (match.speaker \in match.since \/ joining = match.speech)
      BY <1>2, <1>5, <1>6, <3>4
    <3>. QED BY <2>1, <3>1, <3>2, <3>3, <3>4 DEF Watched
  <2>. QED BY <2>2 DEF Watched
<1>. QED BY <1>10, <1>11, <1>12, <1>13 DEF WaitInv, WaitOK

\* A step of the queue alone, in which no command that ends the wait is lost.
LEMMA QueueStep ==
    ASSUME IInv, WaitInv, match' = match, AllPlain(fired'),
           Waits(match) # "none" /\ <<Waits(match), match.idx>> \notin cached' =>
               /\ <<Waits(match), match.idx>> \notin cached
               /\ \A i \in 1..Len(fired) : EndsFor(fired[i], match) =>
                     \E j \in 1..Len(fired') : EndsFor(fired'[j], match),
           Stopped(match) => Watched(match, fired', offline', grace', joining')
    PROVE  WaitInv'
<1>1. Awake(match)
  BY WaitFacts
<1>2. ASSUME Waits(match) # "none" /\ <<Waits(match), match.idx>> \notin cached'
      PROVE  EndsFor(match.timer, match) \/ \E i \in 1..Len(fired') : EndsFor(fired'[i], match)
  <2>1. EndsFor(match.timer, match) \/ \E i \in 1..Len(fired) : EndsFor(fired[i], match)
    BY <1>2 DEF WaitInv, WaitOK
  <2>. QED BY <1>2, <2>1
<1>. QED BY <1>1, <1>2 DEF WaitInv, WaitOK

\* The end of a grace period waits in the queue to be handled.
LEMMA GraceWaits ==
    ASSUME IInv, WaitInv, NEW u \in Users, GraceFires(u)
    PROVE  WaitInv'
<1>. DEFINE e == [NoTimer EXCEPT !.cmd = "offline.expired", !.user = u]
<1>1. /\ fired' = Append(fired, e) /\ grace' = grace \ {u}
      /\ UNCHANGED <<match, cached, offline, joining>>
  BY DEF GraceFires, Queue
<1>2. NoTimer \in Entries /\ NoTimer.start = 0 /\ NoTimer.guard = 0
  BY WaitFacts, NoTimerFacts DEF NoTimer
<1>3. e.cmd = "offline.expired" /\ e.user = u /\ e.start = 0 /\ e.guard = 0
  BY Zenon, <1>2 DEF Entries
<1>4. e \in Entries
  <2>1. "offline.expired" \in TimerCommands \cup {"none", "offline.expired", "system.error"}
        /\ u \in Users \cup {NoOne}
    OBVIOUS
  <2>. QED BY Zenon, <1>2, <2>1 DEF Entries
<1>. HIDE DEF e
<1>5. /\ \A i \in 1..Len(fired) : i \in 1..Len(fired') /\ fired'[i] = fired[i]
      /\ \E i \in 1..Len(fired') : fired'[i] = e
      /\ \A i \in 1..Len(fired') : fired'[i] = e \/ \E j \in 1..Len(fired) : fired'[i] = fired[j]
  BY <1>1, <1>4, WaitFacts, AppendedEntries
<1>6. AllPlain(fired')
  BY <1>3, <1>5, WaitFacts DEF AllPlain, Plain
<1>7. ASSUME Stopped(match) PROVE Watched(match, fired', offline', grace', joining')
  <2>1. Watched(match, fired, offline, grace, joining)
    BY <1>7 DEF WaitInv, WaitOK
  <2>2. CASE \E i \in 1..Len(fired) : Fails(fired[i], match)
    BY <1>5, <2>2 DEF Watched
  <2>3. CASE match.speaker \in offline /\ match.speaker \in grace
    <3>1. match.speaker = u \/ match.speaker \in grace'
      BY <1>1, <2>3
    <3>. QED BY <1>1, <1>3, <1>5, <2>3, <3>1 DEF Watched
  <2>4. CASE /\ match.speaker \in offline
             /\ \E i \in 1..Len(fired) :
                   fired[i].cmd = "offline.expired" /\ fired[i].user = match.speaker
    BY <1>1, <1>5, <2>4 DEF Watched
  <2>5. CASE match.speaker \notin offline
             /\ (match.speaker \in match.since \/ joining = match.speech)
    BY <1>1, <2>5 DEF Watched
  <2>. QED BY <2>1, <2>2, <2>3, <2>4, <2>5 DEF Watched
<1>. QED BY <1>1, <1>5, <1>6, <1>7, QueueStep

\* A transaction that fails leaves an error that is taken for what its command was for.
LEMMA FailedWaits ==
    ASSUME IInv, WaitInv, TransactionFails
    PROVE  WaitInv'
<1>. DEFINE h == Head(fired)
            e == [h EXCEPT !.cmd = "system.error", !.id = Fresh]
            r == Tail(fired)
<1>1. /\ fired # << >> /\ fired' = Append(r, e) /\ h.cmd # "system.error"
      /\ UNCHANGED <<match, cached, offline, grace, joining>>
  BY DEF TransactionFails, presence
<1>2. /\ r \in Seq(Entries) /\ h \in Entries /\ Plain(h)
      /\ \A i \in 1..Len(r) : \E j \in 1..Len(fired) : r[i] = fired[j]
      /\ \A i \in 1..Len(fired) : fired[i] = h \/ \E j \in 1..Len(r) : r[j] = fired[i]
  BY <1>1, WaitFacts, TailEntries DEF AllPlain
<1>. HIDE DEF h, r
<1>3. /\ e.cmd = "system.error" /\ e.start = h.start /\ e.speech = h.speech /\ e.guard = h.guard
  BY Zenon, <1>2 DEF Entries
<1>4. e \in Entries
  <2>1. Fresh \in 0..Len(Plan)
    BY WaitFacts, Bounds DEF Fresh
  <2>2. "system.error" \in TimerCommands \cup {"none", "offline.expired", "system.error"}
    OBVIOUS
  <2>. QED BY Zenon, <1>2, <2>1, <2>2 DEF Entries
<1>. HIDE DEF e
<1>5. /\ \A i \in 1..Len(r) : i \in 1..Len(fired') /\ fired'[i] = r[i]
      /\ \E i \in 1..Len(fired') : fired'[i] = e
      /\ \A i \in 1..Len(fired') : fired'[i] = e \/ \E j \in 1..Len(r) : fired'[i] = r[j]
  <2>. DEFINE n == Append(r, e)
  <2>1. /\ \A i \in 1..Len(r) : i \in 1..Len(n) /\ n[i] = r[i]
        /\ \E i \in 1..Len(n) : n[i] = e
        /\ \A i \in 1..Len(n) : n[i] = e \/ \E j \in 1..Len(r) : n[i] = r[j]
    BY <1>2, <1>4, AppendedEntries
  <2>2. fired' = n
    BY <1>1
  <2>. HIDE DEF n
  <2>. QED BY <2>1, <2>2
<1>6. Plain(e)
  BY <1>3 DEF Plain
<1>7. AllPlain(fired')
  BY <1>2, <1>5, <1>6, WaitFacts DEF AllPlain
<1>8. \A i \in 1..Len(fired) : fired[i] = h \/ \E j \in 1..Len(fired') : fired'[j] = fired[i]
  BY <1>2, <1>5
<1>9. Waits(match) # "none" /\ EndsFor(h, match) => Fails(e, match)
  <2>. SUFFICES ASSUME Waits(match) # "none", EndsFor(h, match) PROVE Fails(e, match)
    OBVIOUS
  <2>1. /\ h.cmd = Waits(match)
        /\ h.cmd = "host.elapsed" => h.guard = match.guard
        /\ h.cmd = "speech.deadline" => h.speech = match.speech /\ h.start = match.start
    BY <1>1 DEF EndsFor, Fails
  <2>2. CASE h.cmd = "speech.deadline"
    <3>1. match.act = "HUMAN_SPEAKING"
      BY <2>1, <2>2 DEF Waits
    <3>2. match.start # 0
      BY <3>1, WaitFacts DEF Good, ClockOK, Speaking
    <3>. QED BY <1>3, <2>1, <2>2, <3>1, <3>2 DEF Fails
  <2>3. CASE h.cmd = "host.elapsed"
    <3>1. match.act = "HOST_ANNOUNCING" /\ h.start = 0
      BY <1>2, <2>1, <2>3 DEF Waits, Plain
    <3>. QED BY <1>3, <2>1, <2>3, <3>1 DEF Fails
  <2>4. CASE h.cmd \notin {"speech.deadline", "host.elapsed"}
    <3>1. h.start = 0 /\ h.guard = 0
      BY <1>1, <1>2, <2>4 DEF Plain
    <3>. QED BY <1>3, <3>1 DEF Fails
  <2>. QED BY <2>2, <2>3, <2>4
<1>10. Waits(match) # "none" =>
           \A i \in 1..Len(fired) : EndsFor(fired[i], match) =>
               \E j \in 1..Len(fired') : EndsFor(fired'[j], match)
  <2>1. Waits(match) # "none" /\ EndsFor(h, match) => EndsFor(e, match)
    BY <1>9 DEF EndsFor
  <2>. QED BY <1>5, <1>8, <2>1
<1>11. ASSUME Stopped(match) PROVE Watched(match, fired', offline', grace', joining')
  <2>1. Watched(match, fired, offline, grace, joining)
    BY <1>11 DEF WaitInv, WaitOK
  <2>2. CASE \E i \in 1..Len(fired) : Fails(fired[i], match)
    <3>1. ~Fails(h, match)
      BY <1>1 DEF Fails
    <3>. QED BY <1>8, <2>2, <3>1 DEF Watched
  <2>3. CASE match.speaker \in offline /\ match.speaker \in grace
    BY <1>1, <2>3 DEF Watched
  <2>4. CASE /\ match.speaker \in offline
             /\ \E i \in 1..Len(fired) :
                   fired[i].cmd = "offline.expired" /\ fired[i].user = match.speaker
    <3>1. h.cmd = "offline.expired" => Fails(e, match)
      BY <1>2, <1>3 DEF Plain, Fails
    <3>2. CASE h.cmd = "offline.expired"
      BY <1>5, <3>1, <3>2 DEF Watched
    <3>3. CASE h.cmd # "offline.expired"
      BY <1>1, <1>8, <2>4, <3>3 DEF Watched
    <3>. QED BY <3>2, <3>3
  <2>5. CASE match.speaker \notin offline
             /\ (match.speaker \in match.since \/ joining = match.speech)
    BY <1>1, <2>5 DEF Watched
  <2>. QED BY <2>1, <2>2, <2>3, <2>4, <2>5 DEF Watched
<1>. QED BY <1>1, <1>7, <1>10, <1>11, QueueStep

-----------------------------------------------------------------------------
(* The delivery of a command *)

\* The handler of the command e applies to the match.
Applies(e) ==
    CASE e.cmd = "countdown.elapsed" -> match.status = "START_COUNTDOWN"
      [] e.cmd = "host.elapsed" ->
            match.act = "HOST_ANNOUNCING" /\ e.guard # 0 /\ e.guard = match.guard
      [] e.cmd = "preparation.elapsed" -> match.act = "PREPARING"
      [] e.cmd = "human.start_timeout" ->
            match.act = "HUMAN_READY_TO_START" /\ match.due # "none"
      [] e.cmd = "speech.deadline" -> SameSpeech(e) /\ match.act \in Speaking
      [] e.cmd = "resume.elapsed" -> match.act = "RESUME_COUNTDOWN"
      [] e.cmd = "offline.expired" ->
            /\ match.status = "RUNNING" /\ match.speaker = e.user /\ e.user \in offline
            /\ match.act \in {"HUMAN_SPEAKING", "HUMAN_READY_TO_START"}
      [] e.cmd = "system.error" ->
            IF e.start # 0 THEN match.act = "HUMAN_SPEAKING" /\ e.speech = match.speech
            ELSE e.guard = 0 \/ (match.act = "HOST_ANNOUNCING" /\ e.guard = match.guard)

\* A handler that applies settles the match, and another leaves it as it was.
LEMMA HandledSettles ==
    ASSUME IInv, WaitInv, NEW e \in Entries, e.cmd # "none", Admits(e.cmd), NEW t \in Handled(e)
    PROVE  IF Applies(e) THEN Settled(t) ELSE t = match
<1>1. e.cmd \in TimerCommands \cup {"offline.expired", "system.error"}
  BY Zenon DEF Entries
<1>2. match.act \in Running => match.status = "RUNNING" /\ match.idx \in 1..Len(Plan)
  BY RunningFacts, WaitFacts, Fields
<1>3. CASE e.cmd = "countdown.elapsed"
  <2>. DEFINE r == [match EXCEPT !.status = "RUNNING"]
  <2>1. t = IF Applies(e) THEN Enter(r) ELSE match
    BY <1>3 DEF Handled, CountdownElapsed, Applies
  <2>2. Named(r) /\ r.status = "RUNNING" /\ r.timer = match.timer /\ r.idx = match.idx
    BY ZenonT(60), WaitFacts DEF Named
  <2>. HIDE DEF r
  <2>3. match.idx \in 1..(Len(Plan) + 1)
    BY WaitFacts DEF Records
  <2>. QED BY <2>1, <2>2, <2>3, WaitFacts, EnterSettles
<1>4. CASE e.cmd = "host.elapsed"
  <2>1. t = IF Applies(e) THEN SystemError(match) ELSE match
    BY <1>4 DEF Handled, HostElapsed, Applies
  <2>. QED BY <2>1, WaitFacts, FailureSettles
<1>5. CASE e.cmd = "preparation.elapsed"
  <2>1. t = (IF Applies(e) THEN Advance(match) ELSE match)
        /\ (Applies(e) => match.act \in Running)
    BY <1>5 DEF Handled, PreparationElapsed, Applies, Running
  <2>. QED BY <1>2, <2>1, WaitFacts, AdvanceSettles
<1>6. CASE e.cmd = "human.start_timeout"
  <2>. DEFINE u == [match EXCEPT !.status = "PAUSED", !.act = "RECOVERY_REQUIRED",
                                 !.from = "HUMAN_READY_TO_START", !.due = "none"]
  <2>1. t = IF Applies(e)
              THEN IF match.due = "waiting" THEN Arm(match, "human.start_timeout", Fresh)
                                            ELSE Cancel(u)
              ELSE match
    BY <1>6 DEF Handled, HumanStartTimeout, Applies
  <2>2. Applies(e) => match.act = "HUMAN_READY_TO_START" /\ match.due # "none"
    BY <1>6 DEF Applies
  <2>3. Named(u) /\ u.status = "PAUSED" /\ u.act = "RECOVERY_REQUIRED"
    BY ZenonT(60), WaitFacts DEF Named
  <2>. HIDE DEF u
  <2>4. Settled(Cancel(u))
    BY <2>3, Cancelled, NoTimerPlain, QuietSettles DEF Waiting
  <2>5. Applies(e) => Settled(Arm(match, "human.start_timeout", Fresh))
    <3>1. SUFFICES ASSUME Applies(e) PROVE Settled(Arm(match, "human.start_timeout", Fresh))
      OBVIOUS
    <3>2. match.status = "RUNNING"
      BY <1>2, <2>2, <3>1 DEF Running, Turns, HumanTurn
    <3>3. Waits(match) = "human.start_timeout" /\ ~Stopped(match)
      BY <2>2, <3>1, <3>2 DEF Waits, Stopped
    <3>. QED BY <2>2, <3>1, <3>3, WaitFacts, ArmSettles DEF TimerCommands
  <2>. QED BY <2>1, <2>4, <2>5
<1>7. CASE e.cmd = "speech.deadline"
  <2>1. t = (IF ~Applies(e) THEN match
             ELSE IF match.act = "AGENT_SPEAKING" THEN Finish(match, "AGENT_FINALIZING")
             ELSE Finish(match, "SPEECH_FINALIZING"))
        /\ (Applies(e) => match.act \in Running)
    BY <1>7 DEF Handled, SpeechDeadline, Applies, Speaking, Running, Turns, HumanTurn, AgentTurn
  <2>2. "SPEECH_FINALIZING" \in Finalizing /\ "AGENT_FINALIZING" \in Finalizing
    BY DEF Finalizing
  <2>. QED BY <1>2, <2>1, <2>2, WaitFacts, FinishSettles
<1>8. CASE e.cmd = "resume.elapsed"
  <2>. DEFINE r == [match EXCEPT !.act = "RECOVERY_REQUIRED"]
  <2>1. Applies(e) <=> match.act = "RESUME_COUNTDOWN"
    BY <1>8 DEF Applies
  <2>2. IF Applies(e) THEN t \in {Resumed(match), r} ELSE t = match
    BY <1>8, <2>1 DEF Handled, ResumeElapsed
  <2>3. CASE Applies(e)
    <3>1. match.status = "PAUSED"
      BY <2>1, <2>3, TimerAdmitted, WaitFacts
         DEF Good, ShapeOK, Starting, Running, Turns, HumanTurn, AgentTurn
    <3>2. match.from \in Running \cup {"NOT_STARTED"} /\ match.status \in Held
          /\ ClockOK(match) /\ match.idx \in 1..(Len(Plan) + 1)
      BY <3>1, WaitFacts DEF Good, ShapeOK, Held, Records
    <3>3. Settled(Resumed(match))
      BY <3>2, WaitFacts, ResumedSettles
    <3>4. r.status = match.status /\ r.act = "RECOVERY_REQUIRED" /\ r.timer = match.timer
      BY ZenonT(60), WaitFacts DEF Named
    <3>. HIDE DEF r
    <3>5. Settled(r)
      BY <3>1, <3>4, WaitFacts, QuietSettles DEF Waiting
    <3>. QED BY <2>2, <2>3, <3>3, <3>5
  <2>. QED BY <2>2, <2>3
<1>9. CASE e.cmd = "offline.expired"
  <2>. DEFINE y == match.since \ {e.user}
              l == ViewLeft(match)
              u == [match EXCEPT !.status = "PAUSED", !.act = "RECOVERY_REQUIRED",
                                 !.from = match.act, !.since = y, !.left = l, !.due = "none"]
  <2>1. t \in OfflineExpired(e)
    BY <1>9 DEF Handled
  <2>2. OfflineExpired(e) = IF Applies(e) THEN {Cancel(u)} ELSE {match}
    BY ZenonT(60), <1>9, WaitFacts DEF OfflineExpired, Applies, Named
  <2>. HIDE DEF y, l
  <2>3. Named(u) /\ u.status = "PAUSED" /\ u.act = "RECOVERY_REQUIRED"
    BY ZenonT(60), WaitFacts DEF Named
  <2>. HIDE DEF u
  <2>4. Settled(Cancel(u))
    BY <2>3, Cancelled, NoTimerPlain, QuietSettles DEF Waiting
  <2>. QED BY <2>1, <2>2, <2>4
<1>10. CASE e.cmd = "system.error"
  <2>1. IF Applies(e) THEN t \in {SystemError(match), AsrFail(match)} ELSE t = match
    BY <1>10 DEF Handled, TimerError, Applies
  <2>. QED BY <2>1, WaitFacts, FailureSettles
<1>. QED BY <1>1, <1>3, <1>4, <1>5, <1>6, <1>7, <1>8, <1>9, <1>10 DEF TimerCommands

\* A match that waits for time is not held.
LEMMA WaitingRuns ==
    ASSUME IInv, Waits(match) # "none" \/ Stopped(match)
    PROVE  match.status \in {"START_COUNTDOWN", "RUNNING"}
           /\ (match.status = "START_COUNTDOWN" => match.act = "NOT_STARTED")
<1>1. ShapeOK(match)
  BY Parts DEF Good
<1>2. match.status = "START_COUNTDOWN" \/ match.act \in Running
  BY DEF Waits, Stopped, Running, Turns, HumanTurn
<1>. QED BY <1>1, <1>2, RunningFacts DEF ShapeOK, Starting

\* A command whose message id is not one of the plan's is never answered from the cache.
LEMMA FreshUnanswered ==
    ASSUME IInv, NEW e, e.id = Fresh \/ e.cmd \notin TimerCommands
    PROVE  ~Repeated(e)
<1>1. cached \in SUBSET (TimerCommands \X (1..Len(Plan))) /\ Len(Plan) \in Nat
  BY Parts, Bounds DEF QueueTypes
<1>2. Fresh \notin 1..Len(Plan)
  BY <1>1 DEF Fresh
<1>. QED BY <1>1, <1>2 DEF Repeated

\* The command that ends the wait is applied when it is handled.
LEMMA EndApplies ==
    ASSUME IInv, WaitInv, NEW e \in Entries, EndsFor(e, match),
           Waits(match) # "none", <<Waits(match), match.idx>> \notin cached
    PROVE  Applies(e) /\ ~Repeated(e) /\ Admits(e.cmd) /\ ~Early(e)
<1>1. /\ match.status \in {"START_COUNTDOWN", "RUNNING"}
      /\ match.status = "START_COUNTDOWN" => match.act = "NOT_STARTED"
  BY WaitingRuns
<1>2. Admits(e.cmd)
  BY <1>1, RunningAdmits
<1>3. CASE e.cmd = Waits(match)
  <2>1. /\ e.id \in {Fresh, match.idx}
        /\ e.cmd = "host.elapsed" => e.guard = match.guard
        /\ e.cmd = "speech.deadline" => e.speech = match.speech /\ e.start = match.start
    <3>1. e.cmd # "system.error"
      BY <1>3 DEF Waits
    <3>. QED BY <3>1 DEF EndsFor, Fails
  <2>2. ~Repeated(e)
    <3>1. CASE e.id = Fresh
      BY <3>1, FreshUnanswered
    <3>2. CASE e.id = match.idx
      BY <1>3, <3>2 DEF Repeated
    <3>. QED BY <2>1, <3>1, <3>2
  <2>3. ~Early(e)
    BY <1>3 DEF Early, Waits
  <2>4. /\ match.act = "HUMAN_READY_TO_START" => match.due # "none"
        /\ match.act = "HOST_ANNOUNCING" => match.guard # 0
    BY WaitFacts DEF Awake
  <2>5. Applies(e)
    BY <1>1, <1>3, <2>1, <2>4 DEF Waits, Applies, SameSpeech, Speaking
  <2>. QED BY <1>2, <2>2, <2>3, <2>5
<1>4. CASE Fails(e, match)
  <2>1. e.cmd = "system.error"
    BY <1>4 DEF Fails
  <2>2. ~Repeated(e) /\ ~Early(e)
    BY <2>1, FreshUnanswered DEF TimerCommands, Early
  <2>3. Applies(e)
    BY <1>4, <2>1 DEF Fails, Applies
  <2>. QED BY <1>2, <2>2, <2>3
<1>. QED BY <1>3, <1>4 DEF EndsFor

\* What is to watch a stopped clock is applied when it is handled, or put off.
LEMMA WatchApplies ==
    ASSUME IInv, WaitInv, Stopped(match), NEW e \in Entries,
           \/ Fails(e, match)
           \/ e.cmd = "offline.expired" /\ e.user = match.speaker /\ match.speaker \in offline
    PROVE  /\ ~Repeated(e) /\ Admits(e.cmd)
           /\ Applies(e) \/ Early(e)
           /\ Fails(e, match) => Applies(e) /\ ~Early(e)
<1>1. match.status = "RUNNING" /\ match.act = "HUMAN_SPEAKING"
  BY WaitingRuns DEF Stopped
<1>2. Admits(e.cmd)
  BY <1>1, RunningAdmits
<1>3. CASE Fails(e, match)
  <2>1. e.cmd = "system.error"
    BY <1>3 DEF Fails
  <2>2. ~Repeated(e) /\ ~Early(e)
    BY <2>1, FreshUnanswered DEF TimerCommands, Early
  <2>3. Applies(e)
    BY <1>3, <2>1 DEF Fails, Applies
  <2>. QED BY <1>2, <2>2, <2>3
<1>4. CASE e.cmd = "offline.expired" /\ e.user = match.speaker /\ match.speaker \in offline
  <2>1. ~Repeated(e) /\ ~Fails(e, match)
    BY <1>4, FreshUnanswered DEF TimerCommands, Fails
  <2>2. Applies(e)
    BY <1>1, <1>4 DEF Applies
  <2>. QED BY <1>2, <2>1, <2>2
<1>. QED BY <1>3, <1>4

\* The command that is handled settles the match, or is not what the match waits for.
LEMMA DeliverWaits ==
    ASSUME IInv, WaitInv, Deliver
    PROVE  WaitInv'
<1>. DEFINE e == Head(fired)
            r == Tail(fired)
<1>1. fired # << >> /\ fired' = r /\ UNCHANGED <<offline, joining>>
  BY DEF Deliver
<1>2. /\ r \in Seq(Entries) /\ e \in Entries /\ 1 \in 1..Len(fired) /\ e = fired[1]
      /\ \A i \in 1..Len(r) : \E j \in 1..Len(fired) : r[i] = fired[j]
      /\ \A i \in 1..Len(fired) : fired[i] = e \/ \E j \in 1..Len(r) : r[j] = fired[i]
  BY <1>1, WaitFacts, TailEntries
<1>3. /\ IF Repeated(e) \/ ~Admits(e.cmd) \/ Early(e)
           THEN match' = match ELSE match' \in Handled(e)
      /\ cached' = IF e.id # Fresh /\ Admits(e.cmd) /\ ~Raises(e)
                     THEN cached \cup {<<e.cmd, e.id>>} ELSE cached
      /\ grace' = IF ~Repeated(e) /\ Admits(e.cmd) /\ Early(e) THEN grace \cup {e.user} ELSE grace
  BY Zenon DEF Deliver
<1>4. e.cmd # "none"
  BY <1>2, Parts DEF QueueOK
<1>. HIDE DEF e, r
<1>5. AllPlain(fired')
  BY <1>1, <1>2, WaitFacts DEF AllPlain
<1>6. CASE ~Repeated(e) /\ Admits(e.cmd) /\ ~Early(e) /\ Applies(e)
  <2>1. Settled(match')
    BY <1>2, <1>3, <1>4, <1>6, HandledSettles
  <2>. QED BY <1>5, <2>1, SettledStep
<1>7. CASE ~(~Repeated(e) /\ Admits(e.cmd) /\ ~Early(e) /\ Applies(e))
  <2>1. match' = match
    BY <1>2, <1>3, <1>4, <1>7, HandledSettles
  <2>2. cached \subseteq cached' /\ grace \subseteq grace'
    BY <1>3
  <2>3. ASSUME Waits(match) # "none" /\ <<Waits(match), match.idx>> \notin cached'
        PROVE  /\ <<Waits(match), match.idx>> \notin cached
               /\ \A i \in 1..Len(fired) : EndsFor(fired[i], match) =>
                     \E j \in 1..Len(fired') : EndsFor(fired'[j], match)
    <3>1. <<Waits(match), match.idx>> \notin cached
      BY <2>2, <2>3
    <3>2. ~EndsFor(e, match)
      BY <1>2, <1>7, <2>3, <3>1, EndApplies
    <3>. QED BY <1>1, <1>2, <3>1, <3>2
  <2>4. ASSUME Stopped(match) PROVE Watched(match, fired', offline', grace', joining')
    <3>1. Watched(match, fired, offline, grace, joining)
      BY <2>4 DEF WaitInv, WaitOK
    <3>2. CASE \E i \in 1..Len(fired) : Fails(fired[i], match)
      <4>1. ~Fails(e, match)
        BY <1>2, <1>7, <2>4, WatchApplies
      <4>. QED BY <1>1, <1>2, <3>2, <4>1 DEF Watched
    <3>3. CASE match.speaker \in offline /\ match.speaker \in grace
      BY <1>1, <2>2, <3>3 DEF Watched
    <3>4. CASE /\ match.speaker \in offline
               /\ \E i \in 1..Len(fired) :
                     fired[i].cmd = "offline.expired" /\ fired[i].user = match.speaker
      <4>1. CASE e.cmd = "offline.expired" /\ e.user = match.speaker
        <5>1. ~Repeated(e) /\ Admits(e.cmd) /\ Early(e)
          BY <1>2, <1>7, <2>4, <3>4, <4>1, WatchApplies
        <5>. QED BY <1>1, <1>3, <3>4, <4>1, <5>1 DEF Watched
      <4>2. CASE ~(e.cmd = "offline.expired" /\ e.user = match.speaker)
        BY <1>1, <1>2, <3>4, <4>2 DEF Watched
      <4>. QED BY <4>1, <4>2
    <3>5. CASE match.speaker \notin offline
               /\ (match.speaker \in match.since \/ joining = match.speech)
      BY <1>1, <3>5 DEF Watched
    <3>. QED BY <3>1, <3>2, <3>3, <3>4, <3>5 DEF Watched
  <2>. QED BY <1>5, <2>1, <2>3, <2>4, QueueStep
<1>. QED BY <1>6, <1>7

\* A match just created waits for nothing.
LEMMA WaitInit == Init => WaitInv
<1>. SUFFICES ASSUME Init PROVE WaitInv
  OBVIOUS
<1>1. /\ match.status = "START_PENDING_RUNTIME" /\ match.act = "NOT_STARTED"
      /\ match.timer = NoTimer /\ fired = << >>
  BY DEF Init
<1>2. Settled(match)
  BY <1>1, NoTimerPlain, QuietSettles DEF Waiting
<1>3. AllPlain(fired)
  BY <1>1 DEF AllPlain
<1>. QED BY <1>2, <1>3, SettledWaits DEF WaitInv

\* Every step leaves a wait its end.
LEMMA WaitStep == IInv /\ WaitInv /\ [Next]_vars => WaitInv'
<1>. SUFFICES ASSUME IInv, WaitInv, [Next]_vars PROVE WaitInv'
  OBVIOUS
<1>1. CASE RuntimeStart \/ HostFinished \/ HostFailed
  BY <1>1, HostSettles, SettledKept
<1>2. CASE \/ SpeechStart \/ SpeechFinish \/ AsrFinalized \/ AsrFailed
           \/ PlaybackStarted \/ PlaybackFinished \/ AgentFinalized \/ AgentFailed
  BY <1>2, SpeechSettles, SettledKept
<1>3. CASE Pause \/ Resume \/ Terminate
  BY <1>3, ControlSettles, SettledKept DEF Resume
<1>4. CASE \E g \in continuing : Continue(g)
  <2>1. PICK g \in continuing : Continue(g)
    BY <1>4
  <2>2. CASE StartCountdown
    BY <2>2, ControlSettles, SettledKept
  <2>3. CASE UNCHANGED <<match, fired, cached, presence, disruptions, hold>>
    BY <2>3, IdleStep DEF presence
  <2>. QED BY <2>1, <2>2, <2>3 DEF Continue
<1>5. CASE \/ StageReset \/ SkipBegin \/ SkipComplete \/ SkipFail
           \/ SpeechReset \/ OperatorReset \/ RetryBegin \/ RetryDone \/ RetryFailed
  BY <1>5, EmergencySettles, SettledKept
<1>6. CASE \E u \in Users : Offline(u) \/ Online(u) \/ GraceFires(u)
  BY <1>6, OfflineWaits, OnlineWaits, GraceWaits
<1>7. CASE MediaSettled
  BY <1>7, MediaWaits
<1>8. CASE Tick
  BY <1>8, TickWaits
<1>9. CASE Fire
  BY <1>9, FireWaits
<1>10. CASE Deliver
  BY <1>10, DeliverWaits
<1>11. CASE TransactionFails
  BY <1>11, FailedWaits
<1>12. CASE Crash
  BY <1>12, CrashSettles, SettledStep
<1>13. CASE WorkerEnds
  BY <1>13, IdleStep DEF WorkerEnds, presence
<1>14. CASE UNCHANGED vars
  BY <1>14, IdleStep DEF vars
<1>. QED BY <1>1, <1>2, <1>3, <1>4, <1>5, <1>6, <1>7, <1>8, <1>9, <1>10, <1>11, <1>12, <1>13,
            <1>14 DEF Next

\* A timer of the invariant ends the wait as the property means it.
LEMMA EndsEnd ==
    ASSUME IInv, NEW e, Waits(match) # "none" \/ Stopped(match)
    PROVE  /\ Fails(e, match) => e.cmd = "system.error" /\ TimerError(e) # {match}
           /\ EndsFor(e, match) => Ends(e)
<1>1. /\ match.status \in {"START_COUNTDOWN", "RUNNING"}
  BY WaitingRuns
<1>2. Named(match)
  BY Parts, RecordsNamed
<1>3. SystemError(match) # match /\ AsrFail(match) # match
  <2>1. SystemError(match).status = "ERROR"
    BY ZenonT(60), <1>2 DEF SystemError, Cancel, Named
  <2>2. AsrFail(match).status = "ERROR"
    BY ZenonT(60), <1>2 DEF AsrFail, Cancel, Named
  <2>. QED BY <1>1, <2>1, <2>2
<1>4. Fails(e, match) => e.cmd = "system.error" /\ TimerError(e) # {match}
  BY <1>3 DEF Fails, TimerError
<1>. QED BY <1>4 DEF EndsFor, Ends, Waits, Awaited, SameSpeech

\* No wait of a running match is forgotten, but for the timers of a replayed stage
\* and the clock of a speaker who reconnects (_schedule_internal, _cancel_timer).
THEOREM NoWaitForgotten == Spec => []WaitHasEnd
<1>1. IInv /\ WaitInv => WaitHasEnd
  <2>. SUFFICES ASSUME IInv, WaitInv PROVE WaitHasEnd
    OBVIOUS
  <2>1. \A i \in 1..Len(fired) : fired[i] \in ToSet(fired)
    BY WaitFacts DEF ToSet
  <2>2. ASSUME Awaited # "none" /\ <<Awaited, match.idx>> \notin cached
        PROVE  \E e \in InFlight : Ends(e)
    <3>1. Waits(match) = Awaited
      BY DEF Waits, Awaited
    <3>2. EndsFor(match.timer, match) \/ \E i \in 1..Len(fired) : EndsFor(fired[i], match)
      BY <2>2, <3>1 DEF WaitInv, WaitOK
    <3>. QED BY <2>1, <2>2, <3>1, <3>2, EndsEnd DEF InFlight
  <2>3. ASSUME ClockStopped PROVE ClockWatched \/ Orphaned
    <3>1. Stopped(match)
      BY <2>3 DEF Stopped, ClockStopped
    <3>2. Watched(match, fired, offline, grace, joining)
      BY <3>1 DEF WaitInv, WaitOK
    <3>. QED BY <2>1, <2>3, <3>1, <3>2, EndsEnd DEF Watched, ClockWatched, Orphaned
  <2>. QED BY <2>2, <2>3 DEF WaitHasEnd
<1>. QED BY <1>1, WaitInit, WaitStep, Invariance, PTL DEF Spec
===============================================================================
