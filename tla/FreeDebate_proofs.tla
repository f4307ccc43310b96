---------------------------- MODULE FreeDebate_proofs ----------------------------
(* Proofs about the free debate: its types and its budgets. *)
EXTENDS FreeDebate, SequenceTheorems, WellFoundedInduction, TLAPS
-----------------------------------------------------------------------------
(* The inductive invariant: the turn *)

\* What a match does, or did when it was stopped.
At(s) == IF s.status = "RUNNING" THEN s.act ELSE s.from
HumanTurn == {"HUMAN_READY_TO_START", "HUMAN_SPEAKING", "SPEECH_FINALIZING"}
Turn == HumanTurn \cup AgentTurn
OnAir == Speaking \cup Finalizing
Goes == Turn \cup {"FREE_SELECTING", "HOST_ANNOUNCING"}

Names == {"status", "act", "from", "who", "side", "speech", "issued", "begun", "left", "clock",
          "start", "used", "settled", "budget", "holder", "opp", "gen", "phase", "waiting", "hands",
          "open", "round", "dec", "sel", "selLeft", "due", "ended", "src", "wait", "ready",
          "failed", "op", "timer"}
Answers == {"none", "DECIDING", "HAND", "SKIP", "FAILED"}
Commands == {"hand.window_closed", "human.wait_timeout", "human.start_timeout", "speech.deadline",
             "resume.elapsed"}

\* The fields of the choice of the next speaker have their types.
ChoiceTyped(s) ==
    /\ DOMAIN s = Names
    /\ s.holder \in Sides /\ s.opp \in Nat /\ s.gen \in Nat /\ s.opp <= s.gen /\ s.phase \in Phases
    /\ s.waiting \in BOOLEAN /\ s.hands \in Seq(Humans) /\ s.open \in BOOLEAN /\ s.round \in Nat
    /\ s.dec \in [Agents -> Answers] /\ s.sel \in {"none", "open", "passed", "due"}
    /\ s.selLeft \in BOOLEAN /\ s.due \in {"none", "open", "passed", "tied"} /\ s.ended \in BOOLEAN
    /\ s.src \in Nat /\ s.wait \in {"none", "open", "passed"} /\ s.ready \in {"none", "open", "passed"}
    /\ s.timer.cmd \in Commands \cup {"none"} /\ s.issued \in Nat /\ s.timer.start \in 0..s.issued

\* So have the fields of the turn.
TurnTyped(s) ==
    /\ s.status \in {"RUNNING", "PAUSED", "ERROR", "SYSTEM_RECOVERY"}
    /\ s.act \in ActionStates /\ s.from \in ActionStates \cup {"none"}
    /\ s.who \in Humans \cup Agents \cup {NoOne} /\ s.side \in Sides \cup {NoSide}
    /\ s.speech \in Nat /\ s.issued \in Nat /\ s.begun \in Nat /\ s.failed \in Nat
    /\ s.left \in -1..Total /\ s.clock \in -1..Total /\ s.start \in -1..Total /\ s.used \in 0..Total
    /\ s.settled \in BOOLEAN /\ s.budget \in [Sides -> 0..Total]
    /\ s.op \in {"NONE", "PENDING", "SUCCEEDED", "FAILED", "RESET"}

\* A match that runs does something; one that does not knows what to resume.
\* A failed recognition stops it until it is retried or its speech reset.
Shape(s) ==
    /\ s.status = "RUNNING" => s.act \in Goes \cup {"ACTION_FINISHED"} /\ s.failed = 0 /\ s.op # "PENDING"
    /\ s.status # "RUNNING" => s.act \in {"RECOVERY_REQUIRED", "RESUME_COUNTDOWN"} /\ s.from \in Goes
    /\ s.failed # 0 => s.status = "ERROR" /\ s.act = "RECOVERY_REQUIRED"
    /\ s.op = "PENDING" => s.failed # 0
    /\ s.failed = s.speech /\ s.failed # 0 => s.from \in {"HUMAN_SPEAKING", "SPEECH_FINALIZING"}
    /\ At(s) \in Turn => s.side \in Sides
    /\ At(s) \in HumanTurn => s.who \in Humans
    /\ At(s) \in AgentTurn => s.who \in Agents

\* The clock of whoever speaks, and what is left to a human who has spoken; a
\* speech that has ended has paid.
Times(s) ==
    /\ s.clock # NoTime <=> s.status = "RUNNING" /\ s.act \in Speaking
    /\ s.clock # NoTime => s.clock <= s.left /\ s.used + s.left <= Total /\ s.begun # 0
    /\ At(s) \in HumanTurn /\ s.speech # 0 => s.left # NoTime /\ s.used + s.left <= Total /\ s.start # NoTime
    /\ At(s) \in Speaking => s.start # NoTime /\ ~s.settled
    /\ At(s) \in Finalizing => s.settled

Typed(s) == ChoiceTyped(s) /\ TurnTyped(s) /\ Shape(s) /\ Times(s)

\* The speech before is saved while another one is on the air; when that one
\* fails, no other has failed.
Sources(s, late) ==
    /\ At(s) \in OnAir => (s.src = s.speech \/ s.src \notin late) /\ s.failed \in {0, s.speech}
    /\ At(s) = "ACTION_FINISHED" => s.src \notin late

Memory ==
    /\ unsaved \in SUBSET (Nat \ {0}) /\ voiced \in SUBSET Nat /\ starting \in SUBSET Nat
    /\ aired \in Nat

\* A queued deadline is of a speech that began, and of the current one only
\* when its time is over.
Answered(s, entry) ==
    /\ entry.cmd \in Commands
    /\ entry.cmd = "speech.deadline" =>
         entry.start \in 0..s.issued /\ (s.clock # NoTime /\ entry.start = s.begun => s.clock = 0)
Queue ==
    /\ \E S : fired \in Seq(S)
    /\ Len(fired) <= MaxFired /\ \A entry \in ToSet(fired) : Answered(d, entry)

\* While somebody speaks hands are raised for the next speech.
Competing(s) == s.status = "RUNNING" /\ s.act \in Speaking => s.open /\ s.phase = "COMPETING" /\ s.opp # 0

TypeInv == Typed(d) /\ Competing(d) /\ Sources(d, unsaved) /\ Memory /\ Queue

-----------------------------------------------------------------------------
(* The inductive invariant: the hands *)

\* A side that has a hand up can pay for a speech.
HandsPaid(s) == \A h \in ToSet(s.hands) : s.budget[SideOf[h]] > 0

\* A human who was chosen and has not begun: he can pay, and the hands among
\* which he was chosen may stand. Anybody else's turn leaves only hands of the
\* other side.
NewlyChosen(s) == At(s) = "HUMAN_READY_TO_START" /\ s.phase = "ALLOCATED"
HandsOpposite(s) == At(s) \in Turn /\ ~NewlyChosen(s) => ToSet(s.hands) \subseteq HumansOf(Other(s.side))

\* An opportunity is over when a turn begins, and none is open while an agent
\* prepares.
PhaseOK(s) ==
    /\ s.phase = "ALLOCATED" => At(s) \in {"HUMAN_READY_TO_START", "AGENT_PREPARING"}
    /\ NewlyChosen(s) => s.left > 0 /\ s.start = NoTime /\ s.budget[s.side] > 0
    /\ At(s) = "AGENT_PREPARING" => s.phase \notin {"COMPETING", "MODEL_WAIT"}
    /\ At(s) \in {"AGENT_SPEAKING", "AGENT_FINALIZING"} /\ s.opp = 0 => s.phase = "none"

Hands(s) == HandsPaid(s) /\ HandsOpposite(s) /\ PhaseOK(s)

-----------------------------------------------------------------------------
(* The inductive invariant: the budgets *)

\* A budget b accounts for n ticks spoken; a rest too small to speak is forfeit.
Settles(b, n) == b = Total - n \/ (b = 0 /\ Total - n < Minimum)

\* The charge of a turn that was never finished, kept while an agent prepares.
Stale(s) == s.settled /\ At(s) = "AGENT_PREPARING"

\* The charge of the turn: c ticks since it began, of which used are consumed.
Pays(s, n, c) ==
    /\ Settles(s.start, n[s.side] - c) /\ s.used + s.left <= s.start
    /\ c = s.used + (IF s.clock = NoTime THEN 0 ELSE s.left - s.clock)
    /\ s.clock = NoTime => s.budget[s.side] = s.start - s.used

\* Whoever has the floor spoke a ticks of it.
OwnTurn(s, n, a, c) ==
    /\ c \in 0..n[s.side] /\ s.left >= 0
    /\ s.clock = NoTime => s.left <= s.budget[s.side] /\ a + s.left <= MaxTurn
    /\ s.clock # NoTime => a + s.clock <= MaxTurn
    /\ s.start = NoTime => c = 0
    /\ s.start # NoTime /\ ~Stale(s) => Pays(s, n, c)

Paid(s, n, a, c) ==
    /\ n \in [Sides -> 0..Total] /\ a \in 0..MaxTurn
    /\ \A side \in Sides : side # s.side \/ s.clock = NoTime => Settles(s.budget[side], n[side])
    /\ At(s) \in Turn => OwnTurn(s, n, a, c)
    /\ At(s) \notin Turn => s.start = NoTime \/ s.settled
    /\ At(s) \in HumanTurn => (s.speech = 0 <=> s.start = NoTime)
    /\ s.failed = s.speech /\ s.failed # 0 => At(s) = "SPEECH_FINALIZING"

Balanced(s, n, a, c) == Hands(s) /\ Paid(s, n, a, c)
Balance == ~waived => Balanced(d, net, aired, charged)

-----------------------------------------------------------------------------
(* Sequences *)

KeepStep(s, kept, f, i) ==
    IF i = 0 THEN << >> ELSE IF s[i] \in kept THEN Append(f[i - 1], s[i]) ELSE f[i - 1]
Keeps(s, kept, n, f) == f = [i \in 0..n |-> KeepStep(s, kept, f, i)]

\* A set of numbers with zero and every successor has them all: the smallest
\* number outside it would have a predecessor inside.
LEMMA Induction ==
    ASSUME NEW T \in SUBSET Nat, 0 \in T, \A n \in Nat : n \in T => n + 1 \in T
    PROVE  T = Nat
<1>. DEFINE U == Nat \ T
<1>. SUFFICES ASSUME U # {} PROVE FALSE
  OBVIOUS
<1>1. PICK n \in U : \A m \in U : ~(<<m, n>> \in OpToRel(<, Nat))
  BY NatLessThanWellFounded, WFMin
<1>2. n \in Nat /\ n # 0 /\ n - 1 \in Nat /\ n - 1 \notin T
  OBVIOUS
<1>3. <<n - 1, n>> \in OpToRel(<, Nat)
  BY <1>2 DEF OpToRel
<1>. QED BY <1>1, <1>2, <1>3

\* The hands that are kept are defined for every length (Keep).
LEMMA KeepsExists == ASSUME NEW s, NEW kept, NEW n \in Nat PROVE \E f : Keeps(s, kept, n, f)
<1>. DEFINE T == {m \in Nat : \E f : Keeps(s, kept, m, f)}
<1>1. 0 \in T
  <2>. DEFINE f == [i \in 0..0 |-> << >>]
  <2>1. f = [i \in 0..0 |-> KeepStep(s, kept, f, i)]
    BY DEF KeepStep
  <2>. QED BY <2>1 DEF Keeps
<1>2. ASSUME NEW m \in Nat, m \in T PROVE m + 1 \in T
  <2>1. PICK f : Keeps(s, kept, m, f)
    BY <1>2
  <2>. DEFINE last == KeepStep(s, kept, f, m + 1)
              g == [i \in 0..m + 1 |-> IF i <= m THEN f[i] ELSE last]
              h == [i \in 0..m + 1 |-> KeepStep(s, kept, g, i)]
  <2>2. ASSUME NEW i \in 0..m + 1 PROVE g[i] = KeepStep(s, kept, g, i)
    <3>1. CASE i = m + 1
      <4>1. g[m] = f[m] /\ (m + 1) - 1 = m /\ m + 1 # 0
        OBVIOUS
      <4>2. g[i] = KeepStep(s, kept, f, m + 1)
        BY <3>1
      <4>. QED BY <3>1, <4>1, <4>2 DEF KeepStep
    <3>2. CASE i \in 0..m
      <4>1. f[i] = KeepStep(s, kept, f, i)
        BY <2>1, <3>2 DEF Keeps
      <4>2. g[i] = f[i] /\ (i # 0 => g[i - 1] = f[i - 1])
        BY <3>2
      <4>. HIDE DEF g
      <4>. QED BY <4>1, <4>2 DEF KeepStep
    <3>. QED BY <3>1, <3>2
  <2>3. g = h
    <3>. HIDE DEF last
    <3>1. \A i \in 0..m + 1 : g[i] = h[i]
      BY <2>2
    <3>. QED BY <3>1
  <2>. HIDE DEF g
  <2>. QED BY <2>3 DEF Keeps
<1>3. T = Nat
  <2>. HIDE DEF T
  <2>1. T \in SUBSET Nat
    BY DEF T
  <2>. QED BY <1>1, <1>2, <2>1, Induction
<1>. QED BY <1>3

\* Keep is its function at the last hand.
LEMMA KeepIs ==
    ASSUME NEW S, NEW s \in Seq(S), NEW kept
    PROVE  \E f : Keeps(s, kept, Len(s), f) /\ Keep(s, kept) = f[Len(s)]
<1>. DEFINE g == CHOOSE f : Keeps(s, kept, Len(s), f)
<1>1. Keeps(s, kept, Len(s), g)
  BY KeepsExists
<1>2. Keep(s, kept) = g[Len(s)]
  BY DEF Keep, Keeps, KeepStep
<1>. QED BY <1>1, <1>2

\* A sequence with one more member, as a set (_hand_raise).
LEMMA AppendedSet ==
    ASSUME NEW S, NEW s \in Seq(S), NEW e \in S
    PROVE  Append(s, e) \in Seq(S) /\ ToSet(Append(s, e)) = ToSet(s) \cup {e}
<1>1. /\ Append(s, e) \in Seq(S) /\ Len(Append(s, e)) = Len(s) + 1 /\ Len(s) \in Nat
      /\ \A i \in 1..Len(s) : Append(s, e)[i] = s[i]
      /\ Append(s, e)[Len(s) + 1] = e
      /\ DOMAIN s = 1..Len(s)
      /\ DOMAIN Append(s, e) = 1..(Len(s) + 1)
  BY AppendProperties, LenProperties
<1>. QED BY <1>1 DEF ToSet

\* Keep keeps exactly the wanted hands (_hand_cancel, _finish_free_turn).
LEMMA Kept ==
    ASSUME NEW S, NEW s \in Seq(S), NEW kept
    PROVE  Keep(s, kept) \in Seq(S) /\ ToSet(Keep(s, kept)) = ToSet(s) \cap kept
<1>1. PICK f : Keeps(s, kept, Len(s), f) /\ Keep(s, kept) = f[Len(s)]
  BY KeepIs
<1>2. Len(s) \in Nat /\ DOMAIN s = 1..Len(s) /\ \A i \in 1..Len(s) : s[i] \in S
  BY LenProperties, ElementOfSeq
<1>3. \A i \in 0..Len(s) : f[i] = KeepStep(s, kept, f, i)
  BY <1>1 DEF Keeps
<1>. DEFINE Upto(i) == {s[j] : j \in 1..i}
            T == {i \in Nat : i <= Len(s) => f[i] \in Seq(S) /\ ToSet(f[i]) = Upto(i) \cap kept}
<1>4. 0 \in T
  <2>1. f[0] = << >>
    BY <1>2, <1>3 DEF KeepStep
  <2>2. << >> \in Seq(S) /\ ToSet(<< >>) = {} /\ Upto(0) = {}
    BY DEF ToSet
  <2>. QED BY <2>1, <2>2
<1>5. ASSUME NEW i \in Nat, i \in T PROVE i + 1 \in T
  <2>. SUFFICES ASSUME i + 1 <= Len(s)
                PROVE  f[i + 1] \in Seq(S) /\ ToSet(f[i + 1]) = Upto(i + 1) \cap kept
    OBVIOUS
  <2>1. f[i] \in Seq(S) /\ ToSet(f[i]) = Upto(i) \cap kept
    BY <1>2, <1>5
  <2>2. i + 1 \in 0..Len(s) /\ i + 1 # 0 /\ (i + 1) - 1 = i /\ s[i + 1] \in S
    BY <1>2
  <2>3. f[i + 1] = IF s[i + 1] \in kept THEN Append(f[i], s[i + 1]) ELSE f[i]
    BY <1>3, <2>2 DEF KeepStep
  <2>4. Upto(i + 1) = Upto(i) \cup {s[i + 1]}
    OBVIOUS
  <2>. HIDE DEF Upto
  <2>5. CASE s[i + 1] \in kept
    <3>1. f[i + 1] = Append(f[i], s[i + 1])
      BY <2>3, <2>5
    <3>2. Append(f[i], s[i + 1]) \in Seq(S) /\ ToSet(Append(f[i], s[i + 1])) = ToSet(f[i]) \cup {s[i + 1]}
      BY <2>1, <2>2, AppendedSet
    <3>. QED BY <2>1, <2>4, <2>5, <3>1, <3>2
  <2>6. CASE s[i + 1] \notin kept
    BY <2>1, <2>3, <2>4, <2>6
  <2>. QED BY <2>5, <2>6
<1>6. T = Nat
  <2>. HIDE DEF T
  <2>1. T \in SUBSET Nat
    BY DEF T
  <2>. QED BY <1>4, <1>5, <2>1, Induction
<1>7. Keep(s, kept) \in Seq(S) /\ ToSet(Keep(s, kept)) = Upto(Len(s)) \cap kept
  <2>. HIDE DEF Upto
  <2>1. Len(s) \in T
    BY <1>2, <1>6
  <2>. QED BY <1>1, <2>1
<1>8. Upto(Len(s)) = ToSet(s)
  BY <1>2 DEF ToSet
<1>. QED BY <1>7, <1>8

\* A sequence is empty when it has no elements; its head is one of them.
LEMMA Elements ==
    ASSUME NEW S, NEW s \in Seq(S)
    PROVE  /\ ToSet(s) \subseteq S /\ (s = << >> <=> ToSet(s) = {})
           /\ s # << >> => Head(s) \in ToSet(s)
<1>1. Len(s) \in Nat /\ DOMAIN s = 1..Len(s) /\ \A i \in 1..Len(s) : s[i] \in S
  BY LenProperties, ElementOfSeq
<1>2. s # << >> => Len(s) # 0 /\ Head(s) = s[1]
  BY SMT
<1>3. s = << >> => Len(s) = 0
  BY SMT
<1>4. ToSet(s) = {s[i] : i \in 1..Len(s)}
  BY <1>1 DEF ToSet
<1>5. s = << >> => ToSet(s) = {}
  BY <1>3, <1>4
<1>6. s # << >> => Head(s) \in ToSet(s)
  <2>1. Len(s) # 0 => 1 \in 1..Len(s)
    BY <1>1
  <2>. QED BY <1>2, <1>4, <2>1
<1>. QED BY <1>1, <1>4, <1>5, <1>6

\* What is left of a queue after its first entry.
LEMMA Tailed ==
    ASSUME NEW S, NEW s \in Seq(S), s # << >>
    PROVE  Tail(s) \in Seq(S) /\ ToSet(Tail(s)) \subseteq ToSet(s) /\ Len(Tail(s)) < Len(s)
<1>1. /\ Tail(s) \in Seq(S) /\ Len(Tail(s)) = Len(s) - 1 /\ Len(s) \in Nat /\ Len(s) # 0
      /\ \A i \in 1..Len(Tail(s)) : Tail(s)[i] = s[i + 1]
      /\ DOMAIN s = 1..Len(s) /\ DOMAIN Tail(s) = 1..Len(Tail(s))
  BY HeadTailProperties, LenProperties, EmptySeq
<1>2. \A i \in DOMAIN Tail(s) : i + 1 \in DOMAIN s /\ Tail(s)[i] = s[i + 1]
  BY <1>1
<1>3. ToSet(Tail(s)) \subseteq ToSet(s)
  BY <1>2 DEF ToSet
<1>. QED BY <1>1, <1>3

-----------------------------------------------------------------------------
(* Fields of the records *)

Same(t, s, fields) == \A f \in fields : t[f] = s[f]
TurnFields == {"status", "act", "from", "who", "side", "speech", "issued", "begun", "left", "clock",
               "start", "used", "settled", "budget", "failed", "op"}

\* StartDecisions touches what belongs to the decisions.
LEMMA Started ==
    ASSUME NEW s, ChoiceTyped(s), NEW side \in Sides, NEW window \in BOOLEAN, NEW t, t = StartDecisions(s, side, window)
    PROVE  /\ ChoiceTyped(t)
           /\ Same(t, s, TurnFields \cup {"holder", "hands", "open", "src", "ready", "timer"})
           /\ t.phase \in {"COMPETING", "MODEL_WAIT"} /\ (t.phase = "MODEL_WAIT" => s.phase = "MODEL_WAIT")
           /\ t.opp = (IF s.opp = 0 THEN s.gen + 1 ELSE s.opp) /\ t.opp # 0
           /\ t.round = t.opp
<1>1. DOMAIN s = Names
  BY DEF ChoiceTyped
<1>2. /\ DOMAIN t = Names
      /\ Same(t, s, TurnFields \cup {"holder", "hands", "open", "src", "ready", "timer"})
  BY <1>1, ZenonT(60) DEF StartDecisions, Names, Same, TurnFields
<1>3. /\ t.opp = (IF s.opp = 0 THEN s.gen + 1 ELSE s.opp)
      /\ t.gen = (IF s.opp = 0 THEN s.gen + 1 ELSE s.gen) /\ t.round = t.opp
      /\ t.phase = (IF s.phase = "MODEL_WAIT" THEN s.phase ELSE "COMPETING")
      /\ t.waiting = FALSE /\ t.wait = "none" /\ t.ended = (window \/ s.ended)
      /\ t.due \in {"tied", "open"} /\ t.sel = (IF window THEN "open" ELSE s.sel)
      /\ t.selLeft = (window \/ s.selLeft)
      /\ t.dec = [a \in Agents |-> IF SideOf[a] = side THEN "DECIDING" ELSE "none"]
  BY <1>1 DEF StartDecisions, Names
<1>4. t.dec \in [Agents -> Answers]
  BY <1>3 DEF Answers
<1>5. t.hands = s.hands /\ t.open = s.open /\ t.src = s.src /\ t.ready = s.ready /\ t.issued = s.issued /\ t.timer = s.timer
      /\ t.holder = s.holder
  BY <1>2 DEF Same, TurnFields
<1>6. s.ended \in BOOLEAN /\ s.selLeft \in BOOLEAN
  BY DEF ChoiceTyped
<1>7. t.ended \in BOOLEAN /\ t.selLeft \in BOOLEAN /\ t.waiting \in BOOLEAN
  BY <1>3, <1>6
<1>8. t.opp \in Nat /\ t.gen \in Nat /\ t.opp <= t.gen /\ t.opp # 0 /\ t.round \in Nat
  BY <1>3 DEF ChoiceTyped
<1>9. ChoiceTyped(t)
  BY <1>2, <1>3, <1>4, <1>5, <1>7, <1>8 DEF ChoiceTyped, Phases
<1>. QED BY <1>2, <1>3, <1>8, <1>9

\* It never forgets that a window was open.
LEMMA WindowKept ==
    ASSUME NEW s, ChoiceTyped(s), NEW side, NEW window \in BOOLEAN, NEW t, t = StartDecisions(s, side, window)
    PROVE  s.selLeft => t.selLeft
<1>1. DOMAIN s = Names
  BY DEF ChoiceTyped
<1>2. t.selLeft = (window \/ s.selLeft)
  BY <1>1 DEF StartDecisions, Names
<1>. QED BY <1>2

\* OpenOpportunity starts the choice of the next speaker from nothing.
IsOpened(t, s, side, source) ==
    /\ Same(t, s, TurnFields \cup {"ready", "timer"})
    /\ t.phase = "COMPETING" /\ t.opp = s.gen + 1 /\ t.gen = s.gen + 1 /\ t.open = TRUE /\ t.hands = << >>
    /\ t.src = source /\ t.holder = side /\ t.dec = Undecided

\* _open_experiment_opportunity gives a new opportunity and generation and leaves
\* the turn alone.
LEMMA Opened ==
    ASSUME NEW s, ChoiceTyped(s), NEW side \in Sides, NEW source \in Nat,
           NEW t, t = OpenOpportunity(s, side, source)
    PROVE  ChoiceTyped(t) /\ IsOpened(t, s, side, source)
<1>1. DOMAIN s = Names
  BY DEF ChoiceTyped
<1>2. DOMAIN t = Names /\ Same(t, s, TurnFields \cup {"ready", "timer"})
  BY <1>1, ZenonT(60) DEF OpenOpportunity, Names, Same, TurnFields
<1>3. /\ t.phase = "COMPETING" /\ t.opp = s.gen + 1 /\ t.gen = s.gen + 1 /\ t.open = TRUE
      /\ t.hands = << >> /\ t.src = source /\ t.holder = side /\ t.waiting = TRUE /\ t.round = 0
      /\ t.dec = Undecided /\ t.sel = "none" /\ t.selLeft = FALSE /\ t.due = "none"
      /\ t.ended = FALSE /\ t.wait = "none"
  BY <1>1 DEF OpenOpportunity, Names
<1>4. t.dec \in [Agents -> Answers] /\ t.hands \in Seq(Humans)
  BY <1>3 DEF Answers, Undecided
<1>5. t.ready = s.ready /\ t.issued = s.issued /\ t.timer = s.timer
  BY <1>2 DEF Same, TurnFields
<1>6. t.opp \in Nat /\ t.gen \in Nat /\ t.opp <= t.gen
  BY <1>3 DEF ChoiceTyped
<1>7. ChoiceTyped(t)
  <2>1. t.phase = "COMPETING" /\ t.open = TRUE /\ t.src = source /\ t.holder = side /\ t.waiting = TRUE
        /\ t.round = 0 /\ t.sel = "none" /\ t.selLeft = FALSE /\ t.due = "none"
        /\ t.ended = FALSE /\ t.wait = "none"
    BY <1>3
  <2>2. t.open \in BOOLEAN /\ t.waiting \in BOOLEAN /\ t.selLeft \in BOOLEAN /\ t.ended \in BOOLEAN
    BY <2>1
  <2>. QED BY <1>2, <1>4, <1>5, <1>6, <2>1, <2>2 DEF ChoiceTyped, Phases
<1>. QED BY <1>2, <1>3, <1>7 DEF IsOpened

\* What the choice of a speaker leaves alone.
Unchosen == {"status", "from", "issued", "clock", "budget", "failed", "op", "holder", "opp", "gen", "src"}
Charge0 == {"speech", "begun", "start", "used", "settled"}

\* Whether a hand stands that the holder can take.
HandUp(s) == s.budget[s.holder] > 0 /\ ToSet(s.hands) \cap HumansOf(s.holder) # {}

\* The outcomes of a choice: a human, an agent, waiting for a human, or for the
\* decisions.
ChoseHuman(t, s) ==
    /\ t.act = "HUMAN_READY_TO_START" /\ t.speech = 0 /\ t.begun = 0 /\ t.start = NoTime /\ t.used = 0
    /\ t.settled = FALSE /\ t.who \in ToSet(s.hands) \cap HumansOf(s.holder) /\ t.side = s.holder
    /\ t.left = TurnOf(s, s.holder) /\ t.phase = "ALLOCATED" /\ t.open = FALSE /\ ToSet(t.hands) \subseteq ToSet(s.hands)
    /\ Same(t, s, Unchosen)
ChoseAgent(t, s) ==
    /\ t.act = "AGENT_PREPARING" /\ t.who \in Agents /\ t.side = s.holder
    /\ t.left = TurnOf(s, s.holder) /\ t.phase = "ALLOCATED" /\ t.open = FALSE /\ t.hands = << >>
    /\ Same(t, s, Unchosen \cup Charge0) /\ ~HandUp(s)
WaitsForHuman(t, s) ==
    /\ t.act = "FREE_SELECTING" /\ t.phase = "HUMAN_ONLY_WAIT" /\ t.hands = << >>
    /\ Same(t, s, Unchosen \cup Charge0 \cup {"who", "side", "left"}) /\ ~HandUp(s)
WaitsForModel(t, s) ==
    /\ t.phase = "MODEL_WAIT" /\ t.open = TRUE /\ t.selLeft = TRUE
    /\ Same(t, s, TurnFields \cup {"holder", "opp", "gen", "src", "hands", "round"})
Chose(t, s) == ChoseHuman(t, s) \/ ChoseAgent(t, s) \/ WaitsForHuman(t, s)

\* _select_free_human gives the floor to a human of the holder, or refuses.
LEMMA HumanSelected ==
    ASSUME NEW s, ChoiceTyped(s), NEW h \in ToSet(s.hands), NEW t, t = SelectHuman(s, h)
    PROVE  /\ ChoiceTyped(t) /\ (h \in HumansOf(s.holder) => ChoseHuman(t, s))
           /\ h \notin HumansOf(s.holder) => t = s
<1>1. DOMAIN s = Names
  BY DEF ChoiceTyped
<1>. SUFFICES ASSUME h \in HumansOf(s.holder) PROVE ChoiceTyped(t) /\ ChoseHuman(t, s)
  BY DEF SelectHuman
<1>. DEFINE chosen == [s EXCEPT !.act = "HUMAN_READY_TO_START", !.speech = 0, !.begun = 0,
                       !.start = NoTime, !.used = 0, !.settled = FALSE,
                       !.who = h, !.side = s.holder, !.left = TurnOf(s, s.holder),
                       !.phase = "ALLOCATED", !.wait = "none", !.open = FALSE,
                       !.ready = "open"]
<1>2. t = Arm(chosen, "human.start_timeout", Fresh)
  BY DEF SelectHuman
<1>3. DOMAIN chosen = Names
  BY <1>1
<1>4. /\ chosen.act = "HUMAN_READY_TO_START" /\ chosen.speech = 0 /\ chosen.begun = 0
      /\ chosen.start = NoTime /\ chosen.used = 0 /\ chosen.settled = FALSE /\ chosen.who = h
      /\ chosen.side = s.holder /\ chosen.left = TurnOf(s, s.holder) /\ chosen.phase = "ALLOCATED"
      /\ chosen.wait = "none" /\ chosen.open = FALSE /\ chosen.ready = "open"
  BY <1>1 DEF Names
<1>5. Same(chosen, s, Unchosen \cup {"waiting", "hands", "round", "dec", "sel", "selLeft", "due", "ended"})
  BY <1>1, ZenonT(60) DEF Names, Same, Unchosen
<1>. HIDE DEF chosen
<1>6. /\ DOMAIN t = Names /\ Same(t, chosen, Names \ {"timer"})
      /\ t.timer.cmd = "human.start_timeout"
      /\ t.timer.start = 0
  BY <1>2, <1>3 DEF Arm, Names, Same
<1>7. /\ t.act = "HUMAN_READY_TO_START" /\ t.speech = 0 /\ t.begun = 0
      /\ t.start = NoTime /\ t.used = 0 /\ t.settled = FALSE /\ t.who = h
      /\ t.side = s.holder /\ t.left = TurnOf(s, s.holder) /\ t.phase = "ALLOCATED"
      /\ t.wait = "none" /\ t.open = FALSE /\ t.ready = "open"
  BY <1>4, <1>6 DEF Names, Same
<1>8. Same(t, s, Unchosen \cup {"waiting", "hands", "round", "dec", "sel", "selLeft", "due", "ended"})
  BY <1>5, <1>6 DEF Names, Same, Unchosen
<1>9. ChoseHuman(t, s)
  <2>1. t.hands = s.hands
    BY <1>8 DEF Same
  <2>2. Same(t, s, Unchosen)
    BY <1>8 DEF Same
  <2>. QED BY <1>7, <2>1, <2>2 DEF ChoseHuman
<1>10. ChoiceTyped(t)
  <2>1. /\ t.holder = s.holder /\ t.opp = s.opp /\ t.gen = s.gen /\ t.src = s.src /\ t.waiting = s.waiting
        /\ t.hands = s.hands /\ t.round = s.round /\ t.dec = s.dec /\ t.sel = s.sel
        /\ t.selLeft = s.selLeft /\ t.due = s.due /\ t.ended = s.ended /\ t.issued = s.issued
    BY <1>8 DEF Same, Unchosen
  <2>2. t.timer.cmd \in Commands /\ t.timer.start = 0
    BY <1>6 DEF Commands
  <2>3. t.open \in BOOLEAN
    BY <1>7
  <2>. QED BY <1>6, <1>7, <2>1, <2>2, <2>3 DEF ChoiceTyped, Phases
<1>. QED BY <1>9, <1>10

AgentTakes(t, s) ==
    /\ t.act = "AGENT_PREPARING" /\ t.who \in Agents /\ t.side = s.holder
    /\ t.left = TurnOf(s, s.holder) /\ t.phase = "ALLOCATED"
    /\ Same(t, s, Unchosen \cup Charge0 \cup {"open", "hands"})

\* SelectAgent gives it to an agent, and WaitForHuman to whoever raises a hand.
LEMMA AgentSelected ==
    ASSUME NEW s, ChoiceTyped(s), NEW a \in Agents, NEW t, t = SelectAgent(s, a)
    PROVE  ChoiceTyped(t) /\ AgentTakes(t, s)
<1>1. DOMAIN s = Names
  BY DEF ChoiceTyped
<1>2. /\ DOMAIN t = Names
      /\ Same(t, s, Names \ {"act", "who", "side", "left", "phase", "waiting"})
  BY <1>1 DEF SelectAgent, Names, Same
<1>3. /\ t.act = "AGENT_PREPARING" /\ t.who = a /\ t.side = s.holder
      /\ t.left = TurnOf(s, s.holder) /\ t.phase = "ALLOCATED" /\ t.waiting = FALSE
  BY <1>1 DEF SelectAgent, Names
<1>4. Same(t, s, Unchosen \cup Charge0 \cup {"open", "hands"})
  BY <1>2 DEF Same, Unchosen, Charge0, Names
<1>5. /\ t.holder = s.holder /\ t.opp = s.opp /\ t.gen = s.gen /\ t.src = s.src /\ t.open = s.open
      /\ t.hands = s.hands /\ t.round = s.round /\ t.dec = s.dec /\ t.sel = s.sel
      /\ t.selLeft = s.selLeft /\ t.due = s.due /\ t.ended = s.ended /\ t.wait = s.wait
      /\ t.ready = s.ready /\ t.issued = s.issued /\ t.timer = s.timer
  BY <1>2 DEF Same, Names
<1>6. t.waiting \in BOOLEAN
  BY <1>3
<1>7. ChoiceTyped(t)
  BY <1>2, <1>3, <1>5, <1>6 DEF ChoiceTyped, Phases
<1>8. AgentTakes(t, s)
  BY <1>3, <1>4 DEF AgentTakes
<1>. QED BY <1>7, <1>8

\* _lock_experiment_selection_if_ready: nobody is willing, so humans may still raise
\* their hands.
LEMMA HumanAwaited ==
    ASSUME NEW s, ChoiceTyped(s), NEW t, t = WaitForHuman(s)
    PROVE  /\ ChoiceTyped(t)
           /\ t.act = "FREE_SELECTING" /\ t.phase = "HUMAN_ONLY_WAIT" /\ t.open = TRUE
           /\ Same(t, s, Unchosen \cup Charge0 \cup {"who", "side", "left", "hands"})
<1>1. DOMAIN s = Names
  BY DEF ChoiceTyped
<1>2. /\ DOMAIN t = Names
      /\ Same(t, s, Names \ {"act", "phase", "waiting", "open", "wait", "timer"})
  BY <1>1 DEF WaitForHuman, Arm, Names, Same
<1>3. /\ t.act = "FREE_SELECTING" /\ t.phase = "HUMAN_ONLY_WAIT" /\ t.open = TRUE
      /\ t.waiting = FALSE /\ t.wait = "open" /\ t.timer.cmd = "human.wait_timeout" /\ t.timer.start = 0
  BY <1>1 DEF WaitForHuman, Arm, Names
<1>4. Same(t, s, Unchosen \cup Charge0 \cup {"who", "side", "left", "hands"})
  BY <1>2 DEF Same, Unchosen, Charge0, Names
<1>5. /\ t.holder = s.holder /\ t.opp = s.opp /\ t.gen = s.gen /\ t.src = s.src
      /\ t.hands = s.hands /\ t.round = s.round /\ t.dec = s.dec /\ t.sel = s.sel
      /\ t.selLeft = s.selLeft /\ t.due = s.due /\ t.ended = s.ended
      /\ t.ready = s.ready /\ t.issued = s.issued
  BY <1>2 DEF Same, Names
<1>6. t.waiting \in BOOLEAN /\ t.open \in BOOLEAN
  BY <1>3
<1>7. ChoiceTyped(t)
  BY <1>2, <1>3, <1>5, <1>6 DEF ChoiceTyped, Phases, Commands
<1>. QED BY <1>3, <1>4, <1>7

\* The outcomes do not depend on which of the hands of others were dropped first.
LEMMA ChoseAfter ==
    ASSUME NEW s, NEW u, Same(u, s, Unchosen \cup Charge0 \cup {"who", "side", "left"}),
           ToSet(u.hands) \subseteq ToSet(s.hands), HandUp(s) => HandUp(u), NEW t, Chose(t, u)
    PROVE  Chose(t, s)
<1>1. u.holder = s.holder /\ u.budget = s.budget
  BY DEF Same, Unchosen
<1>2. TurnOf(u, s.holder) = TurnOf(s, s.holder)
  BY <1>1 DEF TurnOf
<1>3. Same(t, u, Unchosen) => Same(t, s, Unchosen)
  BY DEF Same
<1>4. CASE ChoseHuman(t, u)
  BY <1>1, <1>2, <1>3, <1>4 DEF ChoseHuman, Chose
<1>5. CASE ChoseAgent(t, u)
  <2>1. Same(t, s, Unchosen \cup Charge0)
    BY <1>5 DEF Same, ChoseAgent
  <2>. QED BY <1>1, <1>2, <1>5, <2>1 DEF ChoseAgent, Chose
<1>6. CASE WaitsForHuman(t, u)
  <2>1. Same(t, s, Unchosen \cup Charge0 \cup {"who", "side", "left"})
    BY <1>6 DEF Same, WaitsForHuman
  <2>. QED BY <1>6, <2>1 DEF WaitsForHuman, Chose
<1>. QED BY <1>4, <1>5, <1>6 DEF Chose

\* _lock_experiment_selection_if_ready, once the window is closed, chooses.
LEMMA Locked ==
    ASSUME NEW s, ChoiceTyped(s), NEW t \in Lock(s)
    PROVE  /\ ChoiceTyped(t)
           /\ t = s \/ (Chose(t, s) /\ s.phase # "HUMAN_ONLY_WAIT" /\ s.open = FALSE)
<1>. DEFINE kept == IF s.budget[s.holder] > 0 THEN HandsLeft(s.hands, s.holder) ELSE << >>
            u == [s EXCEPT !.hands = IF s.budget[s.holder] > 0 THEN HandsLeft(@, s.holder) ELSE << >>]
<1>0. s.open \in BOOLEAN
  BY DEF ChoiceTyped
<1>1. CASE s.phase = "HUMAN_ONLY_WAIT" \/ s.open
  BY <1>1 DEF Lock
<1>2. CASE ~(s.phase = "HUMAN_ONLY_WAIT" \/ s.open)
  <2>1. DOMAIN s = Names /\ s.hands \in Seq(Humans)
    BY DEF ChoiceTyped
  <2>2. kept \in Seq(Humans) /\ ToSet(kept) = IF s.budget[s.holder] > 0 THEN ToSet(s.hands) \cap HumansOf(s.holder) ELSE {}
    <3>1. HandsLeft(s.hands, s.holder) \in Seq(Humans)
          /\ ToSet(HandsLeft(s.hands, s.holder)) = ToSet(s.hands) \cap HumansOf(s.holder)
      BY <2>1, Kept DEF HandsLeft
    <3>2. << >> \in Seq(Humans) /\ ToSet(<< >>) = {}
      BY DEF ToSet
    <3>. QED BY <3>1, <3>2
  <2>3. u.hands = kept /\ Same(u, s, Names \ {"hands"}) /\ DOMAIN u = Names
    <3>1. u.hands = kept
      BY <2>1 DEF Names
    <3>. HIDE DEF kept
    <3>2. Same(u, s, Names \ {"hands"}) /\ DOMAIN u = Names
      BY <2>1 DEF Same, Names
    <3>. QED BY <3>1, <3>2
  <2>4. t \in IF u.hands # << >> THEN {SelectHuman(u, Head(u.hands))}
              ELSE IF Willing(u) # {} THEN {SelectAgent(u, a) : a \in Willing(u)}
              ELSE IF AllPassed(u) # {} THEN {SelectAgent(u, a) : a \in AllPassed(u)}
              ELSE {WaitForHuman(u)}
    BY <1>2, Zenon DEF Lock
  <2>. HIDE DEF u, kept
  <2>5. ChoiceTyped(u)
    <3>1. /\ u.holder = s.holder /\ u.opp = s.opp /\ u.gen = s.gen /\ u.src = s.src /\ u.phase = s.phase
          /\ u.waiting = s.waiting /\ u.open = s.open /\ u.round = s.round /\ u.dec = s.dec /\ u.sel = s.sel
          /\ u.selLeft = s.selLeft /\ u.due = s.due /\ u.ended = s.ended /\ u.wait = s.wait
          /\ u.ready = s.ready /\ u.issued = s.issued /\ u.timer = s.timer
      BY <2>3 DEF Same, Names
    <3>. QED BY <2>2, <2>3, <3>1 DEF ChoiceTyped
  <2>6. /\ u.holder = s.holder /\ u.budget = s.budget /\ u.open = FALSE
        /\ Same(u, s, Unchosen \cup Charge0 \cup {"who", "side", "left"})
    <3>1. u.holder = s.holder /\ u.budget = s.budget /\ u.open = s.open
      BY <2>3 DEF Same, Names
    <3>2. Same(u, s, Unchosen \cup Charge0 \cup {"who", "side", "left"})
      BY <2>3 DEF Same, Names, Unchosen, Charge0
    <3>. QED BY <1>0, <1>2, <3>1, <3>2
  <2>7. ToSet(u.hands) \subseteq ToSet(s.hands) /\ (HandUp(s) => HandUp(u))
    BY <2>2, <2>3, <2>6 DEF HandUp
  <2>8. u.hands = << >> => ToSet(u.hands) = {}
    BY Elements, <2>2, <2>3
  <2>9. ChoiceTyped(t) /\ Chose(t, u)
    <3>1. CASE u.hands # << >>
      <4>1. Head(u.hands) \in ToSet(u.hands)
        BY <2>2, <2>3, <3>1, Elements
      <4>2. Head(u.hands) \in HumansOf(u.holder)
        BY <2>2, <2>3, <2>6, <4>1
      <4>3. t = SelectHuman(u, Head(u.hands))
        BY <2>4, <3>1
      <4>. QED BY <2>5, <4>1, <4>2, <4>3, HumanSelected DEF Chose
    <3>2. ASSUME NEW a \in Agents, t = SelectAgent(u, a), u.hands = << >> PROVE ChoiceTyped(t) /\ Chose(t, u)
      <4>1. ChoiceTyped(t) /\ AgentTakes(t, u)
        BY <2>5, <3>2, AgentSelected
      <4>2. t.open = u.open /\ t.hands = u.hands /\ Same(t, u, Unchosen \cup Charge0)
        BY <4>1 DEF Same, AgentTakes
      <4>3. ~HandUp(u)
        BY <2>8, <3>2 DEF HandUp
      <4>. QED BY <2>6, <3>2, <4>1, <4>2, <4>3 DEF AgentTakes, ChoseAgent, Chose
    <3>3. CASE u.hands = << >> /\ t = WaitForHuman(u)
      <4>1. /\ ChoiceTyped(t) /\ t.act = "FREE_SELECTING" /\ t.phase = "HUMAN_ONLY_WAIT" /\ t.open = TRUE
            /\ Same(t, u, Unchosen \cup Charge0 \cup {"who", "side", "left", "hands"})
        BY <2>5, <3>3, HumanAwaited
      <4>2. t.hands = << >> /\ Same(t, u, Unchosen \cup Charge0 \cup {"who", "side", "left"})
        BY <3>3, <4>1 DEF Same
      <4>3. ~HandUp(u)
        BY <2>8, <3>3 DEF HandUp
      <4>. QED BY <4>1, <4>2, <4>3 DEF WaitsForHuman, Chose
    <3>4. Willing(u) \subseteq Agents /\ AllPassed(u) \subseteq Agents
      BY DEF Willing, AllPassed
    <3>. QED BY <2>4, <3>1, <3>2, <3>3, <3>4
  <2>10. Chose(t, s)
    BY <2>6, <2>7, <2>9, ChoseAfter
  <2>. QED BY <1>0, <1>2, <2>9, <2>10
<1>. QED BY <1>1, <1>2

\* What does not choose leaves the turn and the hands as they are.
Stays(t, s) ==
    /\ Same(t, s, TurnFields \cup {"holder", "opp", "gen", "src", "hands", "phase"})
    /\ t.open = s.open \/ (s.phase = "MODEL_WAIT" /\ t.open \in BOOLEAN)
    /\ (s.selLeft => t.selLeft) /\ t.round \in {s.round, s.opp}

\* _enter_model_wait
LEMMA ModelAwaited ==
    ASSUME NEW s, ChoiceTyped(s), NEW t, t = EnterModelWait(s)
    PROVE  ChoiceTyped(t) /\ WaitsForModel(t, s)
<1>1. DOMAIN s = Names
  BY DEF ChoiceTyped
<1>2. /\ DOMAIN t = Names
      /\ Same(t, s, Names \ {"phase", "open", "ended", "due", "sel", "selLeft", "timer"})
  BY <1>1 DEF EnterModelWait, Arm, Names, Same
<1>3. /\ t.phase = "MODEL_WAIT" /\ t.open = TRUE /\ t.ended = TRUE
      /\ t.due = (IF s.due = "passed" THEN s.due ELSE "open") /\ t.sel = "due" /\ t.selLeft = TRUE
      /\ t.timer.cmd = "hand.window_closed" /\ t.timer.start = 0
  BY <1>1 DEF EnterModelWait, Arm, Names
<1>4. Same(t, s, TurnFields \cup {"holder", "opp", "gen", "src", "hands", "round"})
  BY <1>2 DEF Same, TurnFields, Names
<1>5. /\ t.holder = s.holder /\ t.opp = s.opp /\ t.gen = s.gen /\ t.src = s.src
      /\ t.hands = s.hands /\ t.round = s.round /\ t.dec = s.dec /\ t.waiting = s.waiting
      /\ t.wait = s.wait /\ t.ready = s.ready /\ t.issued = s.issued
  BY <1>2 DEF Same, Names
<1>6. t.open \in BOOLEAN /\ t.ended \in BOOLEAN /\ t.selLeft \in BOOLEAN
  BY <1>3
<1>7. ChoiceTyped(t)
  BY <1>2, <1>3, <1>5, <1>6 DEF ChoiceTyped, Phases, Commands
<1>8. WaitsForModel(t, s)
  BY <1>3, <1>4 DEF WaitsForModel
<1>. QED BY <1>7, <1>8

\* The window of a selection closes.
LEMMA SelectionClosed ==
    ASSUME NEW s, ChoiceTyped(s), NEW t \in CloseSelection(s)
    PROVE  /\ ChoiceTyped(t)
           /\ \/ Same(t, s, TurnFields \cup {"holder", "opp", "gen", "src", "hands", "phase"})
              \/ Chose(t, s) \/ WaitsForModel(t, s)
<1>. DEFINE undecided == \E a \in Agents : s.dec[a] = "DECIDING"
            pending == undecided \/ (s.dec = Undecided /\ s.waiting)
            u == [s EXCEPT !.open = FALSE, !.sel = "none", !.selLeft = TRUE,
                            !.waiting = @ /\ ~pending,
                            !.dec = [a \in Agents |-> IF @[a] = "DECIDING" THEN "FAILED" ELSE @[a]]]
            dec == [a \in Agents |-> IF s.dec[a] = "DECIDING" THEN "FAILED" ELSE s.dec[a]]
<1>1. t \in IF s.hands # << >> THEN {SelectHuman(s, Head(s.hands))}
        ELSE IF pending /\ s.due # "passed" THEN {EnterModelWait(s)}
        ELSE Lock(u)
  BY DEF CloseSelection
<1>2. DOMAIN s = Names /\ s.hands \in Seq(Humans) /\ s.waiting \in BOOLEAN
  BY DEF ChoiceTyped
<1>3. CASE s.hands # << >>
  <2>1. Head(s.hands) \in ToSet(s.hands)
    BY <1>2, <1>3, Elements
  <2>2. t = SelectHuman(s, Head(s.hands))
    BY <1>1, <1>3
  <2>3. ChoiceTyped(t) /\ (t = s \/ Chose(t, s))
    BY <2>1, <2>2, HumanSelected DEF Chose
  <2>. QED BY <2>3 DEF Same
<1>4. CASE t = EnterModelWait(s)
  BY <1>4, ModelAwaited
<1>5. CASE t \in Lock(u)
  <2>1. /\ u.open = FALSE /\ u.sel = "none" /\ u.selLeft = TRUE /\ u.waiting = (s.waiting /\ ~pending)
        /\ u.dec = dec
    BY <1>2, Zenon DEF Names
  <2>2. DOMAIN u = Names /\ Same(u, s, Names \ {"open", "sel", "selLeft", "waiting", "dec"})
    <3>. HIDE DEF pending
    <3>. QED BY <1>2 DEF Names, Same
  <2>3. dec \in [Agents -> Answers]
    <3>1. s.dec \in [Agents -> Answers]
      BY DEF ChoiceTyped
    <3>. QED BY <3>1 DEF Answers
  <2>. HIDE DEF u, dec, pending
  <2>4. u.open \in BOOLEAN /\ u.selLeft \in BOOLEAN /\ u.waiting \in BOOLEAN
    BY <2>1
  <2>5. ChoiceTyped(u)
    <3>1. /\ u.holder = s.holder /\ u.opp = s.opp /\ u.gen = s.gen /\ u.src = s.src /\ u.phase = s.phase
          /\ u.hands = s.hands /\ u.round = s.round /\ u.due = s.due /\ u.ended = s.ended /\ u.wait = s.wait
          /\ u.ready = s.ready /\ u.issued = s.issued /\ u.timer = s.timer
      BY <2>2 DEF Same, Names
    <3>. QED BY <2>1, <2>2, <2>3, <2>4, <3>1 DEF ChoiceTyped
  <2>6. ChoiceTyped(t) /\ (t = u \/ Chose(t, u))
    BY <1>5, <2>5, Locked
  <2>7. u.hands = s.hands /\ u.holder = s.holder /\ u.budget = s.budget
    BY <2>2 DEF Same, Names
  <2>8. Same(u, s, Unchosen \cup Charge0 \cup {"who", "side", "left"})
    BY <2>2 DEF Same, Names, Unchosen, Charge0
  <2>9. Chose(t, u) => Chose(t, s)
    <3>1. ToSet(u.hands) \subseteq ToSet(s.hands) /\ (HandUp(s) => HandUp(u))
      BY <2>7 DEF HandUp
    <3>. QED BY <2>8, <3>1, ChoseAfter
  <2>10. Same(u, s, TurnFields \cup {"holder", "opp", "gen", "src", "hands", "phase"})
    BY <2>2 DEF Same, Names, TurnFields
  <2>. QED BY <2>6, <2>9, <2>10
<1>. QED BY <1>1, <1>3, <1>4, <1>5

\* _free_agent_decision_result: a late answer may complete the choice.
LEMMA Decided ==
    ASSUME NEW s, ChoiceTyped(s), NEW a \in Agents, NEW opp, NEW answer \in {"HAND", "SKIP", "FAILED"},
           NEW t \in DecisionResult(s, a, opp, answer)
    PROVE  /\ ChoiceTyped(t)
           /\ \/ Stays(t, s)
              \/ /\ Chose(t, s) /\ (s.open = FALSE \/ s.phase = "MODEL_WAIT")
                 /\ s.act = "FREE_SELECTING" \/
                    (s.phase \in {"COMPETING", "MODEL_WAIT"} /\ s.act \in OnAir \cup {"HOST_ANNOUNCING", "AGENT_PREPARING"})
<1>. DEFINE v == [s EXCEPT !.dec[a] = answer, !.waiting = FALSE]
            decided == \A b \in Agents : v.dec[b] # "DECIDING"
            u == [v EXCEPT !.open = @ /\ ~(s.phase = "MODEL_WAIT" /\ decided)]
            may == s.act = "FREE_SELECTING" \/
                    (s.phase \in {"COMPETING", "MODEL_WAIT"} /\ s.act \in OnAir \cup {"HOST_ANNOUNCING", "AGENT_PREPARING"})
<1>1. t = s \/ (may /\ t \in Lock(u))
  BY Zenon DEF DecisionResult, OnAir
<1>2. CASE t = s
  BY <1>2 DEF Stays, Same
<1>3. CASE may /\ t \in Lock(u)
  <2>. HIDE DEF may
  <2>1. DOMAIN s = Names /\ s.open \in BOOLEAN /\ s.dec \in [Agents -> Answers]
    BY DEF ChoiceTyped
  <2>2. /\ DOMAIN v = Names /\ Same(v, s, Names \ {"dec", "waiting"}) /\ v.waiting = FALSE
        /\ v.dec = [s.dec EXCEPT ![a] = answer]
    BY <2>1 DEF Names, Same
  <2>3. v.dec \in [Agents -> Answers]
    BY <2>1, <2>2 DEF Answers
  <2>. HIDE DEF v
  <2>4. v.open = s.open
    BY <2>2 DEF Names, Same
  <2>5. DOMAIN u = Names /\ Same(u, v, Names \ {"open"})
    <3>. HIDE DEF decided
    <3>. QED BY <2>2 DEF Names, Same
  <2>6. u.open = (s.open /\ ~(s.phase = "MODEL_WAIT" /\ decided))
    <3>. HIDE DEF decided
    <3>. QED BY <2>2, <2>4, Zenon DEF Names
  <2>. HIDE DEF u, decided
  <2>7. u.open \in BOOLEAN /\ (u.open = s.open \/ s.phase = "MODEL_WAIT")
    BY <2>1, <2>6
  <2>8. /\ u.holder = s.holder /\ u.opp = s.opp /\ u.gen = s.gen /\ u.src = s.src /\ u.phase = s.phase
        /\ u.hands = s.hands /\ u.round = s.round /\ u.sel = s.sel /\ u.selLeft = s.selLeft /\ u.due = s.due
        /\ u.ended = s.ended /\ u.wait = s.wait /\ u.budget = s.budget
        /\ u.ready = s.ready /\ u.issued = s.issued /\ u.timer = s.timer /\ u.waiting = FALSE /\ u.dec = v.dec
    BY <2>2, <2>5 DEF Same, Names
  <2>9. u.waiting \in BOOLEAN
    BY <2>8
  <2>10. ChoiceTyped(u)
    BY <2>3, <2>5, <2>7, <2>8, <2>9 DEF ChoiceTyped
  <2>11. ChoiceTyped(t) /\ (t = u \/ (Chose(t, u) /\ u.open = FALSE))
    BY <1>3, <2>10, Locked
  <2>12. Same(u, s, Unchosen \cup Charge0 \cup {"who", "side", "left"})
         /\ Same(u, s, TurnFields \cup {"holder", "opp", "gen", "src", "hands", "phase"})
    BY <2>2, <2>5 DEF Same, Names, Unchosen, Charge0, TurnFields
  <2>13. Chose(t, u) => Chose(t, s)
    <3>1. ToSet(u.hands) \subseteq ToSet(s.hands) /\ (HandUp(s) => HandUp(u))
      BY <2>8 DEF HandUp
    <3>. QED BY <2>12, <3>1, ChoseAfter
  <2>14. Stays(u, s)
    BY <2>7, <2>8, <2>12 DEF Stays
  <2>. QED BY <1>3, <2>7, <2>11, <2>13, <2>14 DEF may
<1>. QED BY <1>1, <1>2, <1>3

\* _free_agent_decision_start
LEMMA DecisionsStarted ==
    ASSUME NEW s, ChoiceTyped(s), s.opp # 0, NEW opp, NEW t, t = DecisionStart(s, opp)
    PROVE  ChoiceTyped(t) /\ Stays(t, s)
<1>. DEFINE u == StartDecisions(s, s.holder, FALSE)
<1>1. CASE t = s
  BY <1>1 DEF Stays, Same
<1>2. CASE t # s
  <2>1. /\ s.phase \in {"COMPETING", "MODEL_WAIT"}
        /\ t = IF u.phase = "MODEL_WAIT" THEN EnterModelWait(u) ELSE u
    BY <1>2 DEF DecisionStart
  <2>2. s.holder \in Sides /\ s.open \in BOOLEAN
    BY DEF ChoiceTyped
  <2>3. /\ ChoiceTyped(u)
        /\ Same(u, s, TurnFields \cup {"holder", "hands", "open", "src", "ready", "timer"})
        /\ u.opp = s.opp /\ u.round = u.opp
    BY <2>2, Started
  <2>8. s.selLeft => u.selLeft
    BY WindowKept
  <2>4. u.gen = s.gen /\ u.phase = s.phase /\ u.open = s.open
    <3>1. DOMAIN s = Names
      BY DEF ChoiceTyped
    <3>2. u.gen = s.gen /\ u.phase = (IF s.phase = "MODEL_WAIT" THEN s.phase ELSE "COMPETING")
      BY <3>1 DEF StartDecisions, Names
    <3>3. u.open = s.open
      BY <2>3 DEF Same
    <3>. QED BY <2>1, <3>2, <3>3
  <2>5. Same(u, s, TurnFields \cup {"holder", "opp", "gen", "src", "hands", "phase"})
    BY <2>3, <2>4 DEF Same, TurnFields
  <2>. HIDE DEF u
  <2>6. CASE t = u
    BY <2>3, <2>4, <2>5, <2>6, <2>8 DEF Stays
  <2>7. CASE t = EnterModelWait(u) /\ u.phase = "MODEL_WAIT"
    <3>1. ChoiceTyped(t) /\ WaitsForModel(t, u)
      BY <2>3, <2>7, ModelAwaited
    <3>2. /\ t.phase = u.phase /\ t.open = TRUE /\ t.selLeft = TRUE
          /\ Same(t, u, TurnFields \cup {"holder", "opp", "gen", "src", "hands", "round"})
      BY <2>7, <3>1 DEF WaitsForModel
    <3>3. Same(t, s, TurnFields \cup {"holder", "opp", "gen", "src", "hands", "phase"})
      BY <2>5, <3>2 DEF Same
    <3>4. t.open \in BOOLEAN /\ t.selLeft
      BY <3>2
    <3>5. t.round = s.opp
      BY <2>3, <3>2 DEF Same
    <3>. QED BY <2>4, <2>7, <3>1, <3>3, <3>4, <3>5 DEF Stays
  <2>. QED BY <2>1, <2>6, <2>7
<1>. QED BY <1>1, <1>2

-----------------------------------------------------------------------------
(* Fields of the turn *)

\* _freeze_speech_budget
Rest(s, limit) ==
    IF s.clock = NoTime THEN AtLeastZero(s.left)
    ELSE IF limit THEN 0 ELSE Smaller(AtLeastZero(s.left), s.clock)
Consumed(s, limit) == s.used + (IF s.clock = NoTime THEN 0 ELSE s.left - Rest(s, limit))
Frozen(t, s, terminal, limit) ==
    /\ DOMAIN t = Names
    /\ ~Owes(s) => t = s
    /\ Owes(s) =>
        /\ t.left = Rest(s, limit) /\ t.clock = NoTime /\ t.used = Consumed(s, limit)
        /\ t.settled = terminal
        /\ t.budget = [s.budget EXCEPT ![s.side] = AtLeastZero(s.start - Consumed(s, limit))]
        /\ Same(t, s, Names \ {"left", "clock", "used", "settled", "budget"})

\* _freeze_speech_budget settles the segment of whoever owes, and nothing else.
LEMMA Freezes ==
    ASSUME NEW s, DOMAIN s = Names, NEW terminal, NEW limit, NEW t, t = Freeze(s, terminal, limit)
    PROVE  Frozen(t, s, terminal, limit)
<1>1. CASE ~Owes(s)
  BY <1>1 DEF Freeze, Frozen
<1>2. CASE Owes(s)
  <2>. DEFINE b == AtLeastZero(s.start - Consumed(s, limit))
              rest == Rest(s, limit)
              consumed == Consumed(s, limit)
  <2>1. t = [s EXCEPT !.left = rest, !.clock = NoTime, !.used = consumed,
                      !.settled = terminal, !.budget[s.side] = b]
    BY <1>2 DEF Freeze, Rest, Consumed
  <2>. HIDE DEF b, rest, consumed
  <2>2. /\ DOMAIN t = Names /\ t.left = rest /\ t.clock = NoTime /\ t.used = consumed
        /\ t.settled = terminal /\ t.budget = [s.budget EXCEPT ![s.side] = b]
    BY <2>1 DEF Names
  <2>3. Same(t, s, Names \ {"left", "clock", "used", "settled", "budget"})
    BY <2>1 DEF Names, Same
  <2>. QED BY <1>2, <2>2, <2>3 DEF Frozen, b, rest, consumed
<1>. QED BY <1>1, <1>2

\* _finish_free_turn
Mine(s, audio) == Usable(AtLeastZero(s.budget[s.side] - Charge(s, audio)))
Theirs(s) == Usable(s.budget[Other(s.side)])
TurnFinished(t, s, audio) ==
    /\ t.budget = [x \in Sides |-> IF x = s.side THEN Mine(s, audio) ELSE Theirs(s)]
    /\ t.start = NoTime /\ t.used = 0 /\ t.settled = FALSE /\ t.speech = 0
    /\ t.who = NoOne /\ t.side = NoSide /\ t.left = NoTime /\ t.clock = NoTime
    /\ Same(t, s, {"status", "from", "issued", "begun", "failed", "op", "gen", "src"})
    /\ \/ /\ t.act = "ACTION_FINISHED" /\ Mine(s, audio) = 0 /\ Theirs(s) = 0
          /\ t.opp = 0 /\ t.phase = "none" /\ t.hands = << >>
       \/ /\ t.act = "FREE_SELECTING" /\ (Mine(s, audio) # 0 \/ Theirs(s) # 0)
          /\ t.holder = (IF Theirs(s) > 0 THEN Other(s.side) ELSE s.side)
          /\ t.hands = HandsLeft(s.hands, t.holder)
          /\ t.opp = s.opp /\ t.phase = s.phase

\* _finish_free_turn: the budgets are what is usable of them, and the turn goes to
\* the side that can still speak, or the action ends.
LEMMA FinishesTurn ==
    ASSUME NEW s, ChoiceTyped(s), s.side \in Sides, NEW audio, NEW t, t = FinishTurn(s, audio)
    PROVE  ChoiceTyped(t) /\ TurnFinished(t, s, audio)
<1>. DEFINE mine == Mine(s, audio)
            theirs == Theirs(s)
            next == Other(s.side)
            b == [x \in Sides |-> IF x = s.side THEN mine ELSE theirs]
            paid == [s EXCEPT !.start = NoTime, !.used = 0, !.settled = FALSE, !.speech = 0,
                         !.who = NoOne, !.side = NoSide, !.left = NoTime, !.clock = NoTime, !.budget = b]
            ended == [Cancel(paid) EXCEPT !.act = "ACTION_FINISHED", !.open = FALSE, !.hands = << >>,
                  !.round = 0, !.dec = Undecided, !.opp = 0, !.phase = "none",
                  !.waiting = FALSE, !.sel = "none", !.selLeft = FALSE, !.wait = "none"]
            holder == IF theirs > 0 THEN next ELSE s.side
            left == HandsLeft(s.hands, holder)
            going == [paid EXCEPT !.act = "FREE_SELECTING", !.holder = holder, !.open = TRUE,
                         !.hands = left, !.sel = IF @ = "none" THEN "open" ELSE @,
                         !.selLeft = TRUE]
            free == {"start", "used", "settled", "speech", "who", "side", "left", "clock", "budget"}
<1>1. DOMAIN s = Names
  BY DEF ChoiceTyped
<1>2. t = IF mine = 0 /\ theirs = 0 THEN ended ELSE Arm(going, "hand.window_closed", Fresh)
  <2>1. paid = [NoSpeech(s) EXCEPT !.budget = b]
    <3>. HIDE DEF b
    <3>. QED BY <1>1 DEF NoSpeech, Names
  <2>. HIDE DEF paid
  <2>. QED BY <2>1 DEF FinishTurn, Mine, Theirs
<1>. HIDE DEF mine, theirs, b
<1>3. /\ DOMAIN paid = Names /\ paid.start = NoTime /\ paid.used = 0 /\ paid.settled = FALSE
      /\ paid.speech = 0 /\ paid.who = NoOne /\ paid.side = NoSide /\ paid.left = NoTime
      /\ paid.clock = NoTime /\ paid.budget = b
  BY <1>1 DEF Names
<1>4. Same(paid, s, Names \ free)
  BY <1>1 DEF Names, Same
<1>. HIDE DEF paid
<1>5. CASE mine = 0 /\ theirs = 0
  <2>1. t = ended
    BY <1>2, <1>5
  <2>2. /\ DOMAIN t = Names /\ t.act = "ACTION_FINISHED" /\ t.open = FALSE /\ t.hands = << >>
        /\ t.round = 0 /\ t.dec = Undecided /\ t.opp = 0 /\ t.phase = "none"
        /\ t.waiting = FALSE /\ t.sel = "none" /\ t.selLeft = FALSE /\ t.wait = "none"
        /\ t.timer = NoTimer
    <3>. DEFINE c == Cancel(paid)
    <3>1. DOMAIN c = Names /\ c.timer = NoTimer
      BY <1>3 DEF Names, Cancel
    <3>. HIDE DEF c
    <3>2. t = [c EXCEPT !.act = "ACTION_FINISHED", !.open = FALSE, !.hands = << >>,
                  !.round = 0, !.dec = Undecided, !.opp = 0, !.phase = "none",
                  !.waiting = FALSE, !.sel = "none", !.selLeft = FALSE, !.wait = "none"]
      BY <2>1 DEF c
    <3>3. t.hands = << >>
      BY <3>1, <3>2 DEF Names
    <3>4. t.open = FALSE /\ t.waiting = FALSE /\ t.selLeft = FALSE
      BY <3>1, <3>2 DEF Names
    <3>5. t.act = "ACTION_FINISHED" /\ t.phase = "none" /\ t.sel = "none" /\ t.wait = "none" 
      BY <3>1, <3>2 DEF Names
    <3>6. t.round = 0 /\ t.dec = Undecided /\ t.opp = 0
      BY <3>1, <3>2 DEF Names
    <3>7. DOMAIN t = Names /\ t.timer = NoTimer
      BY <3>1, <3>2 DEF Names
    <3>. QED BY <3>3, <3>4, <3>5, <3>6, <3>7
  <2>3. Same(t, paid, free \cup {"status", "from", "issued", "begun", "failed", "op", "gen", "src",
                                 "holder", "due", "ended", "ready"})
    BY <1>3, <2>1, ZenonT(60) DEF Names, Cancel, Same
  <2>4. Same(t, s, {"status", "from", "issued", "begun", "failed", "op", "gen", "src",
                    "holder", "due", "ended", "ready"})
    BY <1>4, <2>3 DEF Same, Names
  <2>5. /\ t.start = NoTime /\ t.used = 0 /\ t.settled = FALSE
        /\ t.speech = 0 /\ t.who = NoOne /\ t.side = NoSide /\ t.left = NoTime
        /\ t.clock = NoTime /\ t.budget = b
    BY <1>3, <2>3 DEF Same
  <2>6. TurnFinished(t, s, audio)
    <3>1. Same(t, s, {"status", "from", "issued", "begun", "failed", "op", "gen", "src"})
      BY <2>4 DEF Same
    <3>. QED BY <1>5, <2>2, <2>5, <3>1, Zenon DEF TurnFinished, mine, theirs, b
  <2>7. ChoiceTyped(t)
    <3>1. /\ t.holder = s.holder /\ t.gen = s.gen /\ t.src = s.src /\ t.due = s.due
          /\ t.ended = s.ended /\ t.ready = s.ready /\ t.issued = s.issued
      BY <2>4 DEF Same
    <3>2. t.open \in BOOLEAN /\ t.waiting \in BOOLEAN /\ t.selLeft \in BOOLEAN
      BY <2>2
    <3>3. t.dec \in [Agents -> Answers] /\ t.hands \in Seq(Humans)
      BY <2>2 DEF Undecided, Answers
    <3>4. t.timer.cmd = "none" /\ t.timer.start = 0
      BY <2>2 DEF NoTimer
    <3>5. /\ t.round = 0 /\ t.opp = 0 /\ t.phase = "none" /\ t.sel = "none" /\ t.wait = "none"
      BY <2>2
    <3>. QED BY <2>2, <3>1, <3>2, <3>3, <3>4, <3>5 DEF ChoiceTyped, Phases
  <2>. QED BY <2>6, <2>7
<1>6. CASE ~(mine = 0 /\ theirs = 0)
  <2>1. t = Arm(going, "hand.window_closed", Fresh)
    BY <1>2, <1>6
  <2>. HIDE DEF holder, left
  <2>2. /\ DOMAIN going = Names /\ going.act = "FREE_SELECTING" /\ going.holder = holder
        /\ going.open = TRUE /\ going.hands = left /\ going.selLeft = TRUE
        /\ going.sel = (IF paid.sel = "none" THEN "open" ELSE paid.sel)
    BY <1>3 DEF Names
  <2>3. Same(going, paid, Names \ {"act", "holder", "open", "hands", "sel", "selLeft"})
    BY <1>3 DEF Names, Same
  <2>. HIDE DEF going
  <2>4. /\ DOMAIN t = Names /\ Same(t, going, Names \ {"timer"})
        /\ t.timer.cmd = "hand.window_closed" /\ t.timer.start = 0
    BY <2>1, <2>2 DEF Arm, Names, Same
  <2>5. /\ t.act = "FREE_SELECTING" /\ t.holder = holder /\ t.open = TRUE /\ t.hands = left
        /\ t.selLeft = TRUE /\ t.sel = (IF paid.sel = "none" THEN "open" ELSE paid.sel)
    BY <2>2, <2>4 DEF Names, Same
  <2>6. /\ t.start = NoTime /\ t.used = 0 /\ t.settled = FALSE
        /\ t.speech = 0 /\ t.who = NoOne /\ t.side = NoSide /\ t.left = NoTime
        /\ t.clock = NoTime /\ t.budget = b
    BY <1>3, <2>3, <2>4 DEF Same, Names
  <2>7. Same(t, s, {"status", "from", "issued", "begun", "failed", "op", "gen", "src", "opp", "phase",
                    "waiting", "round", "dec", "due", "ended", "wait", "ready"})
    BY <1>4, <2>3, <2>4 DEF Same, Names
  <2>8. TurnFinished(t, s, audio)
    <3>1. Same(t, s, {"status", "from", "issued", "begun", "failed", "op", "gen", "src"})
          /\ t.opp = s.opp /\ t.phase = s.phase
      BY <2>7 DEF Same
    <3>. QED BY <1>6, <2>5, <2>6, <3>1, Zenon DEF TurnFinished, mine, theirs, b, holder, left
  <2>9. ChoiceTyped(t)
    <3>1. /\ t.opp = s.opp /\ t.phase = s.phase /\ t.gen = s.gen /\ t.src = s.src /\ t.due = s.due
          /\ t.ended = s.ended /\ t.ready = s.ready /\ t.issued = s.issued /\ t.waiting = s.waiting /\ t.round = s.round
          /\ t.dec = s.dec /\ t.wait = s.wait
      BY <2>7 DEF Same
    <3>2. t.open \in BOOLEAN /\ t.selLeft \in BOOLEAN
      BY <2>5
    <3>3. t.hands \in Seq(Humans)
      <4>1. s.hands \in Seq(Humans)
        BY DEF ChoiceTyped
      <4>. QED BY <2>5, <4>1, Kept DEF left, HandsLeft
    <3>4. t.sel \in {"none", "open", "passed", "due"}
      <4>1. paid.sel = s.sel
        BY <1>4 DEF Same, Names
      <4>. QED BY <2>5, <4>1 DEF ChoiceTyped
    <3>5. t.holder \in Sides
      BY <2>5 DEF holder, Other, Sides
    <3>. QED BY <2>4, <3>1, <3>2, <3>3, <3>4, <3>5 DEF ChoiceTyped, Commands
  <2>. QED BY <2>8, <2>9
<1>. QED BY <1>5, <1>6

\* A frozen budget changes nothing of the choice of the next speaker.
LEMMA FrozenTyped ==
    ASSUME NEW s, ChoiceTyped(s), NEW terminal, NEW limit, NEW t, Frozen(t, s, terminal, limit)
    PROVE  /\ ChoiceTyped(t)
           /\ Same(t, s, Names \ {"left", "clock", "used", "settled", "budget"})
<1>1. DOMAIN t = Names /\ Same(t, s, Names \ {"left", "clock", "used", "settled", "budget"})
  BY DEF Frozen, Same
<1>2. /\ t.holder = s.holder /\ t.opp = s.opp /\ t.gen = s.gen /\ t.src = s.src /\ t.phase = s.phase
      /\ t.hands = s.hands /\ t.round = s.round /\ t.sel = s.sel /\ t.selLeft = s.selLeft /\ t.due = s.due
      /\ t.ended = s.ended /\ t.wait = s.wait /\ t.dec = s.dec /\ t.open = s.open
      /\ t.ready = s.ready /\ t.issued = s.issued /\ t.timer = s.timer /\ t.waiting = s.waiting
  BY <1>1 DEF Same, Names
<1>. QED BY <1>1, <1>2 DEF ChoiceTyped

\* _finish_speech, _finish_agent_speech
Kept20 == {"status", "from", "who", "side", "speech", "issued", "left", "start", "used", "settled",
           "budget", "failed", "op", "holder", "opp", "gen", "src", "hands", "phase", "open"}
SpeechFinished(t, s, limit) ==
    /\ t.act = (IF s.act = "AGENT_SPEAKING" THEN "AGENT_FINALIZING" ELSE "SPEECH_FINALIZING")
    /\ t.begun = 0 /\ t.clock = NoTime
    /\ Same(t, Freeze(s, TRUE, limit), Kept20) /\ (s.opp # 0 => t.selLeft)

\* _finish_speech freezes the budget for good and opens the windows of the opportunity.
LEMMA FinishesSpeech ==
    ASSUME NEW s, ChoiceTyped(s), NEW limit, NEW t, t = FinishSpeech(s, limit)
    PROVE  ChoiceTyped(t) /\ SpeechFinished(t, s, limit)
<1>. DEFINE f == Freeze(s, TRUE, limit)
            act == IF s.act = "AGENT_SPEAKING" THEN "AGENT_FINALIZING" ELSE "SPEECH_FINALIZING"
            g == [Cancel(f) EXCEPT !.act = act, !.begun = 0, !.clock = NoTime]
            h == [g EXCEPT !.sel = "open", !.ended = TRUE, !.due = "tied", !.selLeft = TRUE]
            rest == Kept20 \cup {"ready", "waiting", "round", "dec", "wait"}
<1>1. ChoiceTyped(f) /\ DOMAIN f = Names /\ f.opp = s.opp
  <2>1. DOMAIN s = Names
    BY DEF ChoiceTyped
  <2>2. Frozen(f, s, TRUE, limit)
    BY <2>1, Freezes
  <2>3. ChoiceTyped(f) /\ Same(f, s, Names \ {"left", "clock", "used", "settled", "budget"})
    BY <2>2, FrozenTyped
  <2>. QED BY <2>3 DEF ChoiceTyped, Same, Names
<1>2. t = IF g.opp = 0 THEN g ELSE Arm(h, "hand.window_closed", <<"speech-end", g.speech>>)
  BY DEF FinishSpeech
<1>. HIDE DEF f, act
<1>3. /\ DOMAIN g = Names /\ g.act = act /\ g.begun = 0 /\ g.clock = NoTime /\ g.timer = NoTimer
      /\ Same(g, f, Names \ {"act", "begun", "clock", "timer"})
  BY <1>1 DEF Cancel, Names, Same
<1>. HIDE DEF g
<1>4. /\ g.sel = f.sel /\ g.ended = f.ended /\ g.due = f.due /\ g.selLeft = f.selLeft /\ Same(g, f, rest)
  BY <1>3 DEF Same, Names, Kept20
<1>5. CASE t = g /\ g.opp = 0
  <2>1. /\ t.holder = f.holder /\ t.opp = f.opp /\ t.gen = f.gen /\ t.src = f.src /\ t.phase = f.phase
        /\ t.hands = f.hands /\ t.round = f.round /\ t.open = f.open /\ t.dec = f.dec
        /\ t.wait = f.wait /\ t.ready = f.ready /\ t.issued = f.issued /\ t.waiting = f.waiting
    BY <1>4, <1>5 DEF Same, Kept20
  <2>2. DOMAIN t = Names /\ t.timer.cmd = "none" /\ t.timer.start = 0
    BY <1>3, <1>5 DEF NoTimer
  <2>3. ChoiceTyped(t)
    BY <1>1, <1>4, <1>5, <2>1, <2>2, SMTT(60) DEF ChoiceTyped
  <2>4. Same(t, f, Kept20)
    BY <1>4, <1>5 DEF Same
  <2>5. t.act = act /\ t.begun = 0 /\ t.clock = NoTime
    BY <1>3, <1>5
  <2>6. s.opp = 0
    BY <1>1, <1>5, <2>1
  <2>. QED BY <2>3, <2>4, <2>5, <2>6 DEF SpeechFinished, f, act
<1>6. CASE t = Arm(h, "hand.window_closed", <<"speech-end", g.speech>>)
  <2>1. /\ DOMAIN h = Names /\ h.sel = "open" /\ h.ended = TRUE /\ h.due = "tied" /\ h.selLeft = TRUE
        /\ Same(h, g, Names \ {"sel", "ended", "due", "selLeft"})
    BY <1>3 DEF Names, Same
  <2>. HIDE DEF h
  <2>2. /\ DOMAIN t = Names /\ Same(t, h, Names \ {"timer"})
        /\ t.timer.cmd = "hand.window_closed" /\ t.timer.start = 0
    BY <1>6, <2>1 DEF Arm, Names, Same
  <2>3. /\ t.sel = "open" /\ t.ended = TRUE /\ t.due = "tied" /\ t.selLeft = TRUE
        /\ t.act = act /\ t.begun = 0 /\ t.clock = NoTime
    BY <1>3, <2>1, <2>2 DEF Same, Names
  <2>4. Same(t, f, rest)
    BY <1>4, <2>1, <2>2 DEF Same, Names, Kept20
  <2>5. /\ t.holder = f.holder /\ t.opp = f.opp /\ t.gen = f.gen /\ t.src = f.src /\ t.phase = f.phase
        /\ t.hands = f.hands /\ t.round = f.round /\ t.open = f.open /\ t.dec = f.dec
        /\ t.wait = f.wait /\ t.ready = f.ready /\ t.issued = f.issued /\ t.waiting = f.waiting
    BY <2>4 DEF Same, Kept20
  <2>6. t.ended \in BOOLEAN /\ t.selLeft \in BOOLEAN
    BY <2>3
  <2>7. ChoiceTyped(t)
    BY <1>1, <2>2, <2>3, <2>5, <2>6 DEF ChoiceTyped, Commands
  <2>8. Same(t, f, Kept20)
    BY <2>4 DEF Same
  <2>. QED BY <2>3, <2>7, <2>8 DEF SpeechFinished, f, act
<1>. QED BY <1>2, <1>5, <1>6

\* _speech_start, _agent_playback_started: the speech begins.
Begun(g, s, act, speech, again) ==
    /\ g.act = act /\ g.issued = s.issued + 1 /\ g.begun = s.issued + 1 /\ g.speech = speech
    /\ g.start = (IF again THEN s.start ELSE s.budget[s.side])
    /\ g.used = (IF again THEN s.used ELSE 0) /\ g.settled = FALSE
    /\ g.clock = TurnLeft(s) /\ g.left = TurnLeft(s)
    /\ g.hands = (IF s.open THEN s.hands ELSE << >>) /\ g.open = TRUE
    /\ Same(g, s, {"status", "from", "who", "side", "budget", "failed", "op", "holder", "opp", "gen",
                   "src", "phase"})
\* The speech begins; one of no time at all ends at once.
SpeechStarted(t, s, act, speech, again) ==
    \E g : /\ ChoiceTyped(g) /\ Begun(g, s, act, speech, again)
           /\ IF TurnLeft(s) = 0 /\ act = "HUMAN_SPEAKING" THEN t = FinishSpeech(g, TRUE)
              ELSE t = OpenOpportunity(g, NextHolder(g), speech)


\* _speech_start: the clock is what the turn has left, charged from the budget of
\* the side, and the next opportunity is of the other.
LEMMA StartsSpeech ==
    ASSUME NEW s, ChoiceTyped(s), NEW act, NEW speech, NEW again \in BOOLEAN,
           NEW t, t = StartSpeech(s, act, speech, again)
    PROVE  SpeechStarted(t, s, act, speech, again)
<1>. DEFINE left == TurnLeft(s)
            start == IF again THEN s.start ELSE s.budget[s.side]
            used == IF again THEN s.used ELSE 0
            hands == IF s.open THEN s.hands ELSE << >>
            ready == IF act = "HUMAN_SPEAKING" THEN "none" ELSE s.ready
            issued == s.issued + 1
            b == [s EXCEPT !.act = act, !.issued = issued, !.begun = issued, !.speech = speech,
                     !.start = start, !.used = used, !.settled = FALSE,
                     !.clock = left, !.left = left, !.ready = ready,
                     !.hands = hands, !.round = 0, !.dec = Undecided, !.open = TRUE]
            g == Arm(b, "speech.deadline", Fresh)
            rest == {"status", "from", "who", "side", "budget", "failed", "op", "holder", "opp", "gen",
                     "src", "phase", "waiting", "sel", "selLeft", "due", "ended", "wait"}
<1>1. DOMAIN s = Names /\ s.issued \in Nat
  BY DEF ChoiceTyped
<1>2. b = [s EXCEPT !.act = act, !.issued = @ + 1, !.begun = s.issued + 1, !.speech = speech,
                     !.start = IF again THEN @ ELSE s.budget[s.side],
                     !.used = IF again THEN @ ELSE 0, !.settled = FALSE,
                     !.clock = left, !.left = left, !.ready = IF act = "HUMAN_SPEAKING" THEN "none" ELSE @,
                     !.hands = IF s.open THEN @ ELSE << >>,
                     !.round = 0, !.dec = Undecided, !.open = TRUE]
  OBVIOUS
<1>3. IF left = 0 /\ act = "HUMAN_SPEAKING" THEN t = FinishSpeech(g, TRUE)
      ELSE t = OpenOpportunity(g, NextHolder(g), speech)
  BY <1>2 DEF StartSpeech
<1>. HIDE DEF left, start, used, hands, ready, issued
<1>4. /\ DOMAIN b = Names /\ b.act = act /\ b.issued = issued /\ b.begun = issued
      /\ b.speech = speech /\ b.start = start /\ b.used = used /\ b.clock = left /\ b.left = left
      /\ b.ready = ready
      /\ b.hands = hands /\ b.round = 0 /\ b.dec = Undecided
  BY <1>1 DEF Names
<1>5. b.settled = FALSE /\ b.open = TRUE
  BY <1>1 DEF Names
<1>6. Same(b, s, rest)
  <2>1. Same(b, s, Names \ {"act", "issued", "begun", "speech", "start", "used", "settled", "clock",
                            "left", "ready", "hands", "round", "dec", "open"})
    BY <1>1 DEF Names, Same
  <2>. HIDE DEF b
  <2>. QED BY <2>1 DEF Names, Same
<1>. HIDE DEF b
<1>7. /\ DOMAIN g = Names /\ Same(g, b, Names \ {"timer"})
      /\ g.timer.cmd = "speech.deadline" /\ g.timer.start = b.begun
  BY <1>4 DEF Arm, Names, Same
<1>. HIDE DEF g
<1>8. /\ g.act = act /\ g.issued = issued /\ g.begun = issued /\ g.speech = speech
      /\ g.start = start /\ g.used = used /\ g.clock = left /\ g.left = left
      /\ g.ready = ready
      /\ g.hands = hands /\ g.round = 0 /\ g.dec = Undecided
  BY <1>4, <1>7 DEF Same, Names
<1>9. g.settled = FALSE /\ g.open = TRUE /\ Same(g, s, rest)
  BY <1>5, <1>6, <1>7 DEF Same, Names
<1>10. Begun(g, s, act, speech, again)
  <2>1. Same(g, s, {"status", "from", "who", "side", "budget", "failed", "op", "holder", "opp", "gen",
                    "src", "phase"})
    BY <1>9 DEF Same
  <2>. QED BY <1>8, <1>9, <2>1 DEF Begun, left, start, used, hands, issued
<1>11. ChoiceTyped(g)
  <2>1. /\ g.holder = s.holder /\ g.opp = s.opp /\ g.gen = s.gen /\ g.src = s.src /\ g.phase = s.phase
        /\ g.sel = s.sel /\ g.selLeft = s.selLeft /\ g.due = s.due
        /\ g.ended = s.ended /\ g.wait = s.wait /\ g.waiting = s.waiting
    BY <1>9 DEF Same
  <2>2. g.hands \in Seq(Humans)
    <3>1. s.hands \in Seq(Humans) /\ << >> \in Seq(Humans)
      BY DEF ChoiceTyped
    <3>. QED BY <1>8, <3>1 DEF hands
  <2>3. g.dec \in [Agents -> Answers]
    BY <1>8 DEF Undecided, Answers
  <2>4. g.open \in BOOLEAN
    BY <1>9
  <2>5. g.timer.start \in 0..g.issued /\ g.issued \in Nat
    BY <1>1, <1>4, <1>7, <1>8 DEF issued
  <2>6. g.ready \in {"none", "open", "passed"} /\ g.round \in Nat
    BY <1>8 DEF ChoiceTyped, ready
  <2>. QED BY <1>7, <2>1, <2>2, <2>3, <2>4, <2>5, <2>6 DEF ChoiceTyped, Commands
<1>. QED BY <1>3, <1>10, <1>11 DEF SpeechStarted, left

-----------------------------------------------------------------------------
(* Fields after an interruption *)

DropNames == {"opp", "phase", "waiting", "hands", "round", "dec", "open"}

\* The opportunity of an interrupted speech is gone.
LEMMA Drops ==
    ASSUME NEW s, ChoiceTyped(s), NEW t, t = Dropped(s)
    PROVE  /\ ChoiceTyped(t) /\ Same(t, s, Names \ DropNames)
           /\ t.opp = 0 /\ t.phase = "none" /\ t.hands = << >> /\ t.open = FALSE
<1>1. DOMAIN s = Names
  BY DEF ChoiceTyped
<1>2. DOMAIN t = Names /\ Same(t, s, Names \ DropNames)
  BY <1>1 DEF Dropped, Names, Same, DropNames
<1>3. t.hands = << >> /\ t.dec = Undecided
  BY <1>1 DEF Dropped, Names
<1>4. t.opp = 0 /\ t.phase = "none" /\ t.round = 0
  BY <1>1 DEF Dropped, Names
<1>5. t.waiting = FALSE /\ t.open = FALSE
  BY <1>1 DEF Dropped, Names
<1>6. t.waiting \in BOOLEAN /\ t.open \in BOOLEAN
  BY <1>5
<1>7. t.hands \in Seq(Humans) /\ t.dec \in [Agents -> Answers]
  BY <1>3 DEF Undecided, Answers
<1>8. /\ t.holder = s.holder /\ t.gen = s.gen /\ t.src = s.src
      /\ t.sel = s.sel /\ t.selLeft = s.selLeft /\ t.due = s.due
      /\ t.ended = s.ended /\ t.wait = s.wait /\ t.ready = s.ready /\ t.issued = s.issued /\ t.timer = s.timer
  BY <1>2 DEF Same, Names, DropNames
<1>9. ChoiceTyped(t)
  BY <1>2, <1>4, <1>6, <1>7, <1>8 DEF ChoiceTyped, Phases
<1>. QED BY <1>2, <1>3, <1>4, <1>5, <1>9

\* _match_pause
Paused(t, s) ==
    /\ t.status = "PAUSED" /\ t.act = "RECOVERY_REQUIRED" /\ t.from = s.act /\ t.clock = NoTime
    /\ Same(t, Freeze(s, FALSE, FALSE), {"who", "side", "speech", "issued", "begun", "left", "start", "used",
                                         "settled", "budget", "failed", "op", "holder", "gen", "src"})
    /\ s.opp # 0 /\ s.act \in Speaking => t.opp = 0 /\ t.phase = "none" /\ t.hands = << >>
    /\ ~(s.opp # 0 /\ s.act \in Speaking) => /\ t.opp = s.opp /\ t.phase = s.phase /\ t.hands = s.hands
                                             /\ t.open = s.open /\ t.round = s.round
    /\ s.selLeft => t.selLeft

\* _match_pause freezes the budget of the speaker, drops an opportunity it interrupts
\* and remembers what to resume.
LEMMA Pauses ==
    ASSUME NEW s, ChoiceTyped(s), NEW t, t = Pause(s)
    PROVE  ChoiceTyped(t) /\ Paused(t, s)
<1>. DEFINE e == Freeze(s, FALSE, FALSE)
            drops == s.opp # 0 /\ s.act \in Speaking
            f == IF drops THEN Dropped(e) ELSE e
            g == [Cancel(f) EXCEPT !.status = "PAUSED", !.act = "RECOVERY_REQUIRED", !.from = s.act,
                      !.clock = NoTime, !.ready = "none", !.sel = "none",
                      !.selLeft = @ \/ s.sel # "none", !.wait = "none"]
            mine == {"who", "side", "speech", "issued", "begun", "left", "start", "used",
                     "settled", "budget", "failed", "op", "holder", "gen", "src"}
            new == {"timer", "status", "act", "from", "clock", "ready", "sel", "selLeft", "wait"}
<1>1. /\ DOMAIN s = Names /\ DOMAIN e = Names /\ ChoiceTyped(e) /\ e.opp = s.opp /\ e.phase = s.phase
      /\ e.hands = s.hands /\ e.open = s.open /\ e.round = s.round /\ e.selLeft = s.selLeft
  <2>1. DOMAIN s = Names
    BY DEF ChoiceTyped
  <2>2. Frozen(e, s, FALSE, FALSE)
    BY <2>1, Freezes
  <2>3. ChoiceTyped(e) /\ Same(e, s, Names \ {"left", "clock", "used", "settled", "budget"})
    BY <2>2, FrozenTyped
  <2>4. DOMAIN e = Names
    BY <2>3 DEF ChoiceTyped
  <2>. QED BY <2>1, <2>3, <2>4 DEF Same, Names
<1>2. t = g
  BY DEF Pause
<1>. HIDE DEF e, drops
<1>3. /\ ChoiceTyped(f) /\ Same(f, e, mine)
      /\ drops => f.opp = 0 /\ f.phase = "none" /\ f.hands = << >>
      /\ ~drops => f.opp = s.opp /\ f.phase = s.phase /\ f.hands = s.hands /\ f.open = s.open /\ f.round = s.round
      /\ f.selLeft = s.selLeft
  <2>1. CASE drops
    <3>1. /\ ChoiceTyped(f) /\ Same(f, e, Names \ DropNames)
          /\ f.opp = 0 /\ f.phase = "none" /\ f.hands = << >>
      BY <1>1, <2>1, Drops
    <3>. HIDE DEF f
    <3>2. Same(f, e, mine) /\ f.selLeft = e.selLeft
      BY <3>1 DEF Same, Names, DropNames
    <3>. QED BY <1>1, <2>1, <3>1, <3>2
  <2>2. CASE ~drops
    BY <1>1, <2>2 DEF Same
  <2>. QED BY <2>1, <2>2
<1>. HIDE DEF f
<1>4. DOMAIN f = Names /\ f.selLeft \in BOOLEAN
  BY <1>3 DEF ChoiceTyped
<1>. DEFINE kept == f.selLeft \/ s.sel # "none"
<1>5. t = [Cancel(f) EXCEPT !.status = "PAUSED", !.act = "RECOVERY_REQUIRED", !.from = s.act,
                      !.clock = NoTime, !.ready = "none", !.sel = "none",
                      !.selLeft = kept, !.wait = "none"]
  BY <1>2, <1>4 DEF Cancel, Names
<1>6. kept \in BOOLEAN /\ (s.selLeft => kept)
  BY <1>3
<1>. HIDE DEF g, kept
<1>7. /\ DOMAIN t = Names /\ t.status = "PAUSED" /\ t.act = "RECOVERY_REQUIRED" /\ t.from = s.act
      /\ t.clock = NoTime /\ t.ready = "none" /\ t.sel = "none" /\ t.wait = "none"
      /\ t.selLeft = kept /\ t.timer = NoTimer /\ Same(t, f, Names \ new)
  <2>. DEFINE c == Cancel(f)
  <2>1. DOMAIN c = Names /\ c.timer = NoTimer /\ Same(c, f, Names \ {"timer"})
    BY <1>4 DEF Cancel, Names, Same
  <2>2. t = [c EXCEPT !.status = "PAUSED", !.act = "RECOVERY_REQUIRED", !.from = s.act,
                   !.clock = NoTime, !.ready = "none", !.sel = "none",
                   !.selLeft = kept, !.wait = "none"]
    BY <1>5
  <2>. HIDE DEF c
  <2>3. /\ DOMAIN t = Names /\ t.timer = NoTimer
        /\ Same(t, c, Names \ new)
    BY <2>1, <2>2 DEF Names, Same
  <2>4. Same(t, f, Names \ new)
    BY <2>1, <2>3 DEF Names, Same
  <2>. QED BY <2>1, <2>2, <2>3, <2>4 DEF Names
<1>8. /\ t.holder = f.holder /\ t.opp = f.opp /\ t.gen = f.gen /\ t.src = f.src /\ t.phase = f.phase
      /\ t.hands = f.hands /\ t.round = f.round /\ t.due = f.due /\ t.waiting = f.waiting
      /\ t.ended = f.ended /\ t.dec = f.dec /\ t.open = f.open /\ t.issued = f.issued
  BY <1>7 DEF Same, Names
<1>9. ChoiceTyped(t)
  <2>1. t.timer.cmd = "none" /\ t.timer.start = 0
    BY <1>7 DEF NoTimer
  <2>. QED BY <1>3, <1>6, <1>7, <1>8, <2>1 DEF ChoiceTyped
<1>10. Same(t, e, mine)
  <2>1. Same(t, f, mine)
    BY <1>7 DEF Same, Names
  <2>. QED BY <1>3, <2>1 DEF Same
<1>. QED BY <1>3, <1>6, <1>7, <1>8, <1>9, <1>10 DEF Paused, e, drops

\* _human_wait_timeout, _human_start_timeout
HasTimedOut(t, s) ==
    /\ t.status = "PAUSED" /\ t.act = "RECOVERY_REQUIRED" /\ t.from = s.act
    /\ Same(t, s, {"who", "side", "speech", "issued", "begun", "left", "clock", "start", "used", "settled",
                   "budget", "failed", "op", "holder", "opp", "gen", "src", "phase", "hands"})
    /\ s.act # "FREE_SELECTING" => t.open = s.open

\* _human_wait_timeout: the window closes, or is rechecked while a host speaks.
LEMMA TimesOut ==
    ASSUME NEW s, ChoiceTyped(s), NEW t, t = TimedOut(s)
    PROVE  ChoiceTyped(t) /\ HasTimedOut(t, s)
<1>. DEFINE open == s.open /\ s.act # "FREE_SELECTING"
            new == {"timer", "status", "act", "from", "ready", "open", "wait"}
<1>1. DOMAIN s = Names
  BY DEF ChoiceTyped
<1>2. t = [Cancel(s) EXCEPT !.status = "PAUSED", !.act = "RECOVERY_REQUIRED", !.from = s.act,
               !.ready = "none", !.open = open, !.wait = "none"]
  BY <1>1 DEF TimedOut, Cancel, Names
<1>3. open \in BOOLEAN /\ (s.act # "FREE_SELECTING" => open = s.open)
  BY DEF ChoiceTyped
<1>. HIDE DEF open
<1>4. /\ DOMAIN t = Names /\ t.status = "PAUSED" /\ t.act = "RECOVERY_REQUIRED" /\ t.from = s.act
      /\ t.ready = "none" /\ t.wait = "none" /\ t.open = open /\ t.timer = NoTimer
      /\ Same(t, s, Names \ new)
  <2>. DEFINE c == Cancel(s)
  <2>1. DOMAIN c = Names /\ c.timer = NoTimer /\ Same(c, s, Names \ {"timer"})
    BY <1>1 DEF Cancel, Names, Same
  <2>2. t = [c EXCEPT !.status = "PAUSED", !.act = "RECOVERY_REQUIRED", !.from = s.act,
                   !.ready = "none", !.open = open, !.wait = "none"]
    BY <1>2
  <2>. HIDE DEF c
  <2>3. /\ DOMAIN t = Names /\ t.timer = NoTimer
        /\ Same(t, c, Names \ new)
    BY <2>1, <2>2 DEF Names, Same
  <2>4. Same(t, s, Names \ new)
    BY <2>1, <2>3 DEF Names, Same
  <2>. QED BY <2>1, <2>2, <2>3, <2>4 DEF Names
<1>5. HasTimedOut(t, s)
  <2>1. Same(t, s, {"who", "side", "speech", "issued", "begun", "left", "clock", "start", "used", "settled",
                   "budget", "failed", "op", "holder", "opp", "gen", "src", "phase", "hands"})
    BY <1>4 DEF Same, Names
  <2>. QED BY <1>3, <1>4, <2>1 DEF HasTimedOut
<1>6. ChoiceTyped(t)
  <2>1. t.timer.cmd = "none" /\ t.timer.start = 0
    BY <1>4 DEF NoTimer
  <2>2. /\ t.holder = s.holder /\ t.opp = s.opp /\ t.gen = s.gen /\ t.src = s.src /\ t.phase = s.phase
        /\ t.hands = s.hands /\ t.round = s.round /\ t.due = s.due /\ t.waiting = s.waiting
        /\ t.ended = s.ended /\ t.dec = s.dec /\ t.sel = s.sel /\ t.selLeft = s.selLeft /\ t.issued = s.issued
    BY <1>4 DEF Same, Names
  <2>. QED BY <1>3, <1>4, <2>1, <2>2 DEF ChoiceTyped
<1>. QED BY <1>5, <1>6

\* _system_error of an agent that failed
AgentFailed(t, s) ==
    /\ t.status = "ERROR" /\ t.act = "RECOVERY_REQUIRED" /\ t.from = "AGENT_PREPARING"
    /\ t.clock = NoTime /\ t.left = IF s.clock = NoTime THEN s.left ELSE Smaller(s.left, s.clock)
    /\ Same(t, s, {"who", "side", "speech", "issued", "begun", "start", "used", "settled",
                   "budget", "failed", "op", "holder", "opp", "gen", "src", "phase", "hands", "open"})

\* _system_error: the match stops with what was left of the speech.
LEMMA AgentsFail ==
    ASSUME NEW s, ChoiceTyped(s), NEW t, t = AgentError(s)
    PROVE  ChoiceTyped(t) /\ AgentFailed(t, s)
<1>. DEFINE left == IF s.clock = NoTime THEN s.left ELSE Smaller(s.left, s.clock)
            new == {"timer", "status", "act", "from", "left", "clock", "ready"}
<1>1. DOMAIN s = Names
  BY DEF ChoiceTyped
<1>2. t = [Cancel(s) EXCEPT !.status = "ERROR", !.act = "RECOVERY_REQUIRED", !.from = "AGENT_PREPARING",
               !.left = left, !.clock = NoTime, !.ready = "none"]
  BY <1>1 DEF AgentError, Cancel, Names
<1>. HIDE DEF left
<1>3. /\ DOMAIN t = Names /\ t.status = "ERROR" /\ t.act = "RECOVERY_REQUIRED" /\ t.from = "AGENT_PREPARING"
      /\ t.ready = "none" /\ t.left = left /\ t.clock = NoTime /\ t.timer = NoTimer
      /\ Same(t, s, Names \ new)
  <2>. DEFINE c == Cancel(s)
  <2>1. DOMAIN c = Names /\ c.timer = NoTimer /\ Same(c, s, Names \ {"timer"})
    BY <1>1 DEF Cancel, Names, Same
  <2>2. t = [c EXCEPT !.status = "ERROR", !.act = "RECOVERY_REQUIRED", !.from = "AGENT_PREPARING",
                   !.left = left, !.clock = NoTime, !.ready = "none"]
    BY <1>2
  <2>. HIDE DEF c
  <2>3. /\ DOMAIN t = Names /\ t.timer = NoTimer
        /\ Same(t, c, Names \ new)
    BY <2>1, <2>2 DEF Names, Same
  <2>4. Same(t, s, Names \ new)
    BY <2>1, <2>3 DEF Names, Same
  <2>. QED BY <2>1, <2>2, <2>3, <2>4 DEF Names
<1>4. AgentFailed(t, s)
  <2>1. Same(t, s, {"who", "side", "speech", "issued", "begun", "start", "used", "settled",
                   "budget", "failed", "op", "holder", "opp", "gen", "src", "phase", "hands", "open"})
    BY <1>3 DEF Same, Names
  <2>. QED BY <1>3, <2>1 DEF AgentFailed, left
<1>5. ChoiceTyped(t)
  <2>1. t.timer.cmd = "none" /\ t.timer.start = 0
    BY <1>3 DEF NoTimer
  <2>2. /\ t.holder = s.holder /\ t.opp = s.opp /\ t.gen = s.gen /\ t.src = s.src /\ t.phase = s.phase
        /\ t.hands = s.hands /\ t.round = s.round /\ t.due = s.due /\ t.waiting = s.waiting /\ t.open = s.open
        /\ t.ended = s.ended /\ t.dec = s.dec /\ t.sel = s.sel /\ t.selLeft = s.selLeft /\ t.issued = s.issued
        /\ t.wait = s.wait
    BY <1>3 DEF Same, Names
  <2>. QED BY <1>3, <2>1, <2>2 DEF ChoiceTyped
<1>. QED BY <1>4, <1>5

\* _asr_failed
RecognitionFailed(t, s, speech) ==
    /\ t.status = "ERROR" /\ t.act = "RECOVERY_REQUIRED" /\ t.failed = speech /\ t.clock = NoTime
    /\ t.from = (IF s.op = "PENDING" /\ s.from # "none" THEN s.from ELSE s.act)
    /\ t.op = (IF s.op = "PENDING" THEN "FAILED" ELSE s.op)
    /\ Same(t, Freeze(s, FALSE, FALSE),
            {"who", "side", "speech", "issued", "begun", "left", "start", "used", "settled",
             "budget", "holder", "opp", "gen", "src", "phase", "hands", "selLeft"})

\* _asr_failed stops the match and remembers the speech and where it was.
LEMMA RecognitionsFail ==
    ASSUME NEW s, ChoiceTyped(s), NEW speech, NEW t, t = AsrFailed(s, speech)
    PROVE  ChoiceTyped(t) /\ RecognitionFailed(t, s, speech)
<1>. DEFINE f == Freeze(s, FALSE, FALSE)
            from == IF s.op = "PENDING" /\ s.from # "none" THEN s.from ELSE s.act
            op == IF s.op = "PENDING" THEN "FAILED" ELSE s.op
            new == {"timer", "status", "act", "failed", "from", "op", "clock", "ready", "sel", "wait", "open"}
<1>1. DOMAIN s = Names /\ DOMAIN f = Names /\ ChoiceTyped(f) /\ f.from = s.from /\ f.op = s.op
  <2>1. DOMAIN s = Names
    BY DEF ChoiceTyped
  <2>2. Frozen(f, s, FALSE, FALSE)
    BY <2>1, Freezes
  <2>3. ChoiceTyped(f) /\ Same(f, s, Names \ {"left", "clock", "used", "settled", "budget"})
    BY <2>2, FrozenTyped
  <2>4. DOMAIN f = Names
    BY <2>3 DEF ChoiceTyped
  <2>. QED BY <2>1, <2>3, <2>4 DEF Same, Names
<1>. HIDE DEF f
<1>2. /\ DOMAIN Cancel(f) = Names /\ Cancel(f).from = s.from /\ Cancel(f).op = s.op
      /\ Cancel(f).timer = NoTimer /\ Same(Cancel(f), f, Names \ {"timer"})
  BY <1>1 DEF Cancel, Names, Same
<1>. DEFINE c == Cancel(f)
<1>3. t = [c EXCEPT !.status = "ERROR", !.act = "RECOVERY_REQUIRED", !.failed = speech,
             !.from = from, !.op = op,
             !.clock = NoTime, !.ready = "none", !.sel = "none", !.wait = "none", !.open = FALSE]
  BY <1>2, ZenonT(60) DEF AsrFailed, f, Names
<1>4. /\ DOMAIN c = Names /\ c.timer = NoTimer /\ Same(c, f, Names \ {"timer"})
  BY <1>2
<1>. HIDE DEF c, from, op
<1>5. /\ DOMAIN t = Names /\ t.status = "ERROR" /\ t.act = "RECOVERY_REQUIRED" /\ t.failed = speech
      /\ t.from = from /\ t.op = op /\ t.clock = NoTime /\ t.ready = "none" /\ t.sel = "none"
      /\ t.wait = "none"
  <2>1. /\ DOMAIN t = Names
        /\ t.status = "ERROR"
        /\ t.act = "RECOVERY_REQUIRED"
        /\ t.failed = speech
    <3>1. DOMAIN t = Names
      BY <1>3, <1>4
    <3>2. t.status = "ERROR"
      BY <1>3, <1>4 DEF Names
    <3>3. t.act = "RECOVERY_REQUIRED"
      BY <1>3, <1>4 DEF Names
    <3>4. t.failed = speech
      BY <1>3, <1>4 DEF Names
    <3>. QED BY <3>1, <3>2, <3>3, <3>4
  <2>2. t.from = from
    BY <1>3, <1>4 DEF Names
  <2>3. t.op = op
    BY <1>3, <1>4 DEF Names
  <2>4. t.clock = NoTime /\ t.ready = "none" /\ t.sel = "none" /\ t.wait = "none"
    BY <1>3, <1>4 DEF Names
  <2>. QED BY <2>1, <2>2, <2>3, <2>4
<1>6. t.open = FALSE /\ t.timer = NoTimer
  BY <1>3, <1>4 DEF Names
<1>7. Same(t, f, Names \ new)
  <2>1. Same(t, c, Names \ new)
    BY <1>3, <1>4 DEF Names, Same
  <2>. QED BY <1>4, <2>1 DEF Names, Same
<1>8. RecognitionFailed(t, s, speech)
  <2>1. Same(t, f, {"who", "side", "speech", "issued", "begun", "left", "start", "used", "settled",
                    "budget", "holder", "opp", "gen", "src", "phase", "hands", "selLeft"})
    BY <1>7 DEF Same, Names
  <2>. QED BY <1>5, <2>1 DEF RecognitionFailed, f, from, op
<1>9. ChoiceTyped(t)
  <2>1. t.timer.cmd = "none" /\ t.timer.start = 0
    BY <1>6 DEF NoTimer
  <2>2. /\ t.holder = f.holder /\ t.opp = f.opp /\ t.gen = f.gen /\ t.src = f.src /\ t.phase = f.phase
        /\ t.hands = f.hands /\ t.round = f.round /\ t.due = f.due /\ t.waiting = f.waiting
        /\ t.ended = f.ended /\ t.dec = f.dec /\ t.selLeft = f.selLeft /\ t.issued = f.issued
    BY <1>7 DEF Same, Names
  <2>3. t.open \in BOOLEAN
    BY <1>6
  <2>. QED BY <1>1, <1>5, <2>1, <2>2, <2>3 DEF ChoiceTyped
<1>. QED BY <1>8, <1>9

\* _paused_recovery
Recovering(t, s, from) ==
    /\ t.status = "PAUSED" /\ t.act = "RECOVERY_REQUIRED" /\ t.from = from /\ t.clock = NoTime
    /\ t.speech = 0 /\ t.begun = 0 /\ t.hands = << >>
    /\ Same(t, s, {"who", "side", "issued", "left", "start", "used", "settled", "budget", "failed", "op",
                   "holder", "opp", "gen", "src", "phase"})

\* _paused_recovery stops a match that a restart found running.
LEMMA Recovers ==
    ASSUME NEW s, ChoiceTyped(s), NEW from, NEW t, t = PausedRecovery(s, from)
    PROVE  ChoiceTyped(t) /\ Recovering(t, s, from)
<1>. DEFINE c == Cancel(s)
            new == {"timer", "status", "act", "from", "clock", "ready", "sel", "wait", "speech", "begun",
                    "open", "hands", "round", "dec"}
<1>1. t = [c EXCEPT !.status = "PAUSED", !.act = "RECOVERY_REQUIRED", !.from = from,
              !.clock = NoTime, !.ready = "none", !.sel = "none", !.wait = "none", !.speech = 0,
              !.begun = 0, !.open = FALSE, !.hands = << >>, !.round = 0, !.dec = Undecided]
  BY DEF PausedRecovery
<1>2. /\ DOMAIN c = Names /\ c.timer = NoTimer /\ Same(c, s, Names \ {"timer"})
  BY DEF Cancel, Names, Same, ChoiceTyped
<1>. HIDE DEF c
<1>3. /\ DOMAIN t = Names /\ t.status = "PAUSED" /\ t.act = "RECOVERY_REQUIRED" /\ t.from = from
      /\ t.clock = NoTime /\ t.ready = "none" /\ t.sel = "none" /\ t.wait = "none"
  <2>1. DOMAIN t = Names /\ t.status = "PAUSED" /\ t.act = "RECOVERY_REQUIRED"
    <3>1. DOMAIN t = Names
      BY <1>1, <1>2
    <3>2. t.status = "PAUSED"
      BY <1>1, <1>2 DEF Names
    <3>3. t.act = "RECOVERY_REQUIRED"
      BY <1>1, <1>2 DEF Names
    <3>. QED BY <3>1, <3>2, <3>3
  <2>2. t.from = from
    BY <1>1, <1>2 DEF Names
  <2>3. t.clock = NoTime /\ t.ready = "none" /\ t.sel = "none" /\ t.wait = "none"
    BY <1>1, <1>2 DEF Names
  <2>. QED BY <2>1, <2>2, <2>3
<1>4. t.speech = 0 /\ t.begun = 0 /\ t.round = 0 /\ t.dec = Undecided /\ t.timer = NoTimer
  BY <1>1, <1>2 DEF Names
<1>5. t.hands = << >>
  BY <1>1, <1>2 DEF Names
<1>6. t.open = FALSE
  BY <1>1, <1>2 DEF Names
<1>7. Same(t, s, Names \ new)
  <2>1. Same(t, c, Names \ new)
    BY <1>1, <1>2 DEF Names, Same
  <2>. QED BY <1>2, <2>1 DEF Names, Same
<1>8. Recovering(t, s, from)
  <2>1. Same(t, s, {"who", "side", "issued", "left", "start", "used", "settled", "budget", "failed", "op",
                   "holder", "opp", "gen", "src", "phase"})
    BY <1>7 DEF Same, Names
  <2>. QED BY <1>3, <1>4, <1>5, <2>1 DEF Recovering
<1>9. ChoiceTyped(t)
  <2>1. t.timer.cmd = "none" /\ t.timer.start = 0
    BY <1>4 DEF NoTimer
  <2>2. /\ t.holder = s.holder /\ t.opp = s.opp /\ t.gen = s.gen /\ t.src = s.src /\ t.phase = s.phase
        /\ t.due = s.due /\ t.waiting = s.waiting
        /\ t.ended = s.ended /\ t.selLeft = s.selLeft /\ t.issued = s.issued
    BY <1>7 DEF Same, Names
  <2>3. t.open \in BOOLEAN
    BY <1>6
  <2>4. t.dec \in [Agents -> Answers]
    BY <1>4 DEF Undecided, Answers
  <2>5. t.hands \in Seq(Humans)
    BY <1>5
  <2>. QED BY <1>3, <1>4, <2>1, <2>2, <2>3, <2>4, <2>5 DEF ChoiceTyped
<1>. QED BY <1>8, <1>9

\* _speech_reset
Unspent(s) == IF s.start = NoTime THEN s.budget[s.side] ELSE s.start
Again(s) == IF s.who \in Agents THEN "AGENT_PREPARING" ELSE "HUMAN_READY_TO_START"
WasReset(t, s, operator) ==
    /\ IF operator THEN t.status = "PAUSED" /\ t.act = "RECOVERY_REQUIRED" /\ t.from = Again(s)
       ELSE t.status = "RUNNING" /\ t.act = Again(s) /\ t.from = s.from
    /\ t.failed = (IF operator THEN 0 ELSE s.failed) /\ t.op = (IF operator THEN "RESET" ELSE s.op)
    /\ t.speech = 0 /\ t.begun = 0 /\ t.start = NoTime /\ t.used = 0 /\ t.settled = FALSE
    /\ t.clock = NoTime /\ t.left = Smaller(MaxTurn, Unspent(s))
    /\ t.budget = [s.budget EXCEPT ![s.side] = Unspent(s)]
    /\ Same(t, s, {"who", "side", "issued", "holder", "src"}) /\ t.opp = 0 /\ t.gen = s.gen + 1
    /\ s.opp # 0 => t.phase = "none" /\ t.hands = << >>
    /\ s.opp = 0 => t.phase = s.phase /\ (t.hands = s.hands \/ t.hands = << >>)
    /\ s.opp = 0 /\ ~operator => t.hands = s.hands /\ t.open = s.open
    /\ operator => t.hands = << >>

\* _speech_reset: the speaker starts afresh with the budget the speech began with.
LEMMA Resets ==
    ASSUME NEW s, ChoiceTyped(s), NEW operator \in BOOLEAN, NEW t, t = Reset(s, operator)
    PROVE  ChoiceTyped(t) /\ WasReset(t, s, operator)
<1>. DEFINE whole == Unspent(s)
            back == Again(s)
            e == IF s.opp # 0 THEN Dropped(s) ELSE s
            c == Cancel(e)
            left == Smaller(MaxTurn, whole)
            gen == s.gen + 1
            new == {"status", "act", "speech", "begun", "budget", "start", "used", "settled", "gen",
                    "clock", "left", "sel", "selLeft", "wait", "ready"}
            f == [c EXCEPT !.status = "RUNNING", !.act = back, !.speech = 0, !.begun = 0,
                       !.budget[s.side] = whole, !.start = NoTime, !.used = 0, !.settled = FALSE,
                       !.gen = @ + 1, !.clock = NoTime, !.left = left,
                       !.sel = "none", !.selLeft = FALSE, !.wait = "none", !.ready = "none"]
            g == [f EXCEPT !.failed = 0, !.op = "RESET"]
            h == [f EXCEPT !.ready = "open"]
            same == {"from", "who", "side", "issued", "failed", "op", "holder", "src"}
<1>1. /\ ChoiceTyped(e) /\ Same(e, s, Names \ DropNames) /\ e.opp = 0
      /\ s.opp # 0 => e.phase = "none" /\ e.hands = << >>
      /\ s.opp = 0 => e.phase = s.phase /\ e.hands = s.hands /\ e.open = s.open
  <2>1. CASE s.opp # 0
    BY <2>1, Drops
  <2>2. CASE s.opp = 0
    BY <2>2 DEF Same
  <2>. QED BY <2>1, <2>2
<1>2. t = IF operator THEN PausedRecovery(g, back)
          ELSE IF s.who \in Agents THEN f ELSE Arm(h, "human.start_timeout", Fresh)
  BY DEF Reset, Unspent, Again
<1>. HIDE DEF e, whole, back, left
<1>3. DOMAIN e = Names /\ e.gen = s.gen /\ e.budget = s.budget /\ Same(e, s, same)
  <2>1. DOMAIN e = Names
    BY <1>1 DEF ChoiceTyped
  <2>. QED BY <1>1, <2>1 DEF Same, Names, DropNames
<1>4. DOMAIN c = Names /\ c.timer = NoTimer /\ Same(c, e, Names \ {"timer"})
  BY <1>3 DEF Cancel, Names, Same
<1>5. c.gen = s.gen /\ c.budget = s.budget
  BY <1>3, <1>4 DEF Same, Names
<1>. HIDE DEF c
<1>6. /\ DOMAIN f = Names /\ f.status = "RUNNING" /\ f.act = back /\ f.speech = 0 /\ f.begun = 0
      /\ f.start = NoTime /\ f.used = 0 /\ f.clock = NoTime /\ f.left = left
      /\ f.sel = "none" /\ f.wait = "none" /\ f.ready = "none"
  BY <1>4 DEF Names
<1>7. f.settled = FALSE /\ f.selLeft = FALSE
  BY <1>4 DEF Names
<1>8. f.gen = gen /\ f.budget = [s.budget EXCEPT ![s.side] = whole]
  BY <1>4, <1>5 DEF Names
<1>9. Same(f, c, Names \ new)
  BY <1>4 DEF Names, Same
<1>. HIDE DEF f
<1>10. Same(f, s, same)
  BY <1>3, <1>4, <1>9 DEF Same, Names
<1>11. /\ f.opp = 0 /\ f.phase = e.phase /\ f.hands = e.hands /\ f.waiting = e.waiting /\ f.open = e.open
       /\ f.round = e.round /\ f.dec = e.dec /\ f.due = e.due /\ f.ended = e.ended /\ f.timer = NoTimer
       /\ f.holder = e.holder /\ f.src = e.src /\ f.issued = e.issued
  BY <1>1, <1>4, <1>9 DEF Same, Names
<1>12. ChoiceTyped(f)
  <2>1. f.timer.cmd = "none" /\ f.timer.start = 0
    BY <1>11 DEF NoTimer
  <2>2. f.selLeft \in BOOLEAN
    BY <1>7
  <2>3. gen \in Nat
    BY DEF ChoiceTyped
  <2>. QED BY <1>1, <1>6, <1>8, <1>11, <2>1, <2>2, <2>3 DEF ChoiceTyped
<1>13. CASE operator
  <2>1. t = PausedRecovery(g, back)
    BY <1>2, <1>13
  <2>2. /\ DOMAIN g = Names /\ g.failed = 0 /\ g.op = "RESET" /\ Same(g, f, Names \ {"failed", "op"})
    BY <1>6 DEF Names, Same
  <2>. HIDE DEF g
  <2>3. ChoiceTyped(g)
    <3>1. /\ g.opp = f.opp /\ g.phase = f.phase /\ g.hands = f.hands /\ g.waiting = f.waiting /\ g.open = f.open
          /\ g.round = f.round /\ g.dec = f.dec /\ g.due = f.due /\ g.ended = f.ended /\ g.timer = f.timer
          /\ g.holder = f.holder /\ g.src = f.src /\ g.issued = f.issued /\ g.gen = f.gen
          /\ g.sel = f.sel /\ g.selLeft = f.selLeft /\ g.wait = f.wait /\ g.ready = f.ready
      BY <2>2 DEF Same, Names
    <3>. QED BY <1>12, <2>2, <3>1 DEF ChoiceTyped
  <2>4. ChoiceTyped(t) /\ Recovering(t, g, back)
    BY <2>1, <2>3, Recovers
  <2>5. Same(t, g, {"who", "side", "issued", "left", "start", "used", "settled", "budget", "failed", "op",
                   "holder", "opp", "gen", "src", "phase"})
    BY <2>4 DEF Recovering
  <2>6. Same(t, f, {"who", "side", "issued", "left", "start", "used", "settled", "budget",
                   "holder", "opp", "gen", "src", "phase"}) /\ t.failed = 0 /\ t.op = "RESET"
    BY <2>2, <2>5 DEF Same, Names
  <2>7. /\ t.status = "PAUSED" /\ t.act = "RECOVERY_REQUIRED" /\ t.from = back /\ t.clock = NoTime
        /\ t.speech = 0 /\ t.begun = 0 /\ t.hands = << >>
    BY <2>4 DEF Recovering
  <2>8. /\ t.start = NoTime /\ t.used = 0 /\ t.left = left
        /\ t.budget = f.budget /\ t.opp = 0 /\ t.gen = f.gen /\ t.phase = e.phase
    BY <1>6, <1>11, <2>6 DEF Same
  <2>9. t.settled = FALSE
    BY <1>7, <2>6 DEF Same
  <2>10. Same(t, s, {"who", "side", "issued", "holder", "src"})
    BY <1>10, <2>6 DEF Same
  <2>. QED BY <1>1, <1>8, <1>13, <2>4, <2>6, <2>7, <2>8, <2>9, <2>10 DEF WasReset, whole, back, left
<1>14. CASE ~operator
  <2>1. CASE s.who \in Agents
    <3>1. t = f
      BY <1>2, <1>14, <2>1
    <3>2. Same(t, s, {"who", "side", "issued", "holder", "src"}) /\ t.from = s.from
          /\ t.failed = s.failed /\ t.op = s.op
      BY <1>10, <3>1 DEF Same
    <3>. QED BY <1>1, <1>6, <1>7, <1>8, <1>11, <1>12, <1>14, <3>1, <3>2 DEF WasReset, whole, back, left
  <2>2. CASE s.who \notin Agents
    <3>1. t = Arm(h, "human.start_timeout", Fresh)
      BY <1>2, <1>14, <2>2
    <3>2. DOMAIN h = Names /\ h.ready = "open" /\ Same(h, f, Names \ {"ready"})
      BY <1>6 DEF Names, Same
    <3>. HIDE DEF h
    <3>3. /\ DOMAIN t = Names /\ Same(t, h, Names \ {"timer"})
          /\ t.timer.cmd = "human.start_timeout" /\ t.timer.start = 0
      BY <3>1, <3>2 DEF Arm, Names, Same
    <3>4. Same(t, f, Names \ {"ready", "timer"}) /\ t.ready = "open"
      BY <3>2, <3>3 DEF Same, Names
    <3>5. /\ t.opp = f.opp /\ t.phase = f.phase /\ t.hands = f.hands /\ t.waiting = f.waiting /\ t.open = f.open
          /\ t.round = f.round /\ t.dec = f.dec /\ t.due = f.due /\ t.ended = f.ended
          /\ t.holder = f.holder /\ t.src = f.src /\ t.issued = f.issued /\ t.gen = f.gen
          /\ t.sel = f.sel /\ t.selLeft = f.selLeft /\ t.wait = f.wait
      BY <3>4 DEF Same, Names
    <3>6. ChoiceTyped(t)
      BY <1>12, <3>3, <3>4, <3>5 DEF ChoiceTyped, Commands
    <3>7. /\ t.status = f.status /\ t.act = f.act /\ t.speech = f.speech /\ t.begun = f.begun
          /\ t.start = f.start /\ t.used = f.used /\ t.clock = f.clock /\ t.left = f.left
          /\ t.settled = f.settled /\ t.budget = f.budget
      BY <3>4 DEF Same, Names
    <3>8. Same(t, s, {"who", "side", "issued", "holder", "src"}) /\ t.from = s.from
          /\ t.failed = s.failed /\ t.op = s.op
      BY <1>10, <3>4 DEF Same, Names
    <3>. QED BY <1>1, <1>6, <1>7, <1>8, <1>11, <1>14, <3>5, <3>6, <3>7, <3>8 DEF WasReset, whole, back, left
  <2>. QED BY <2>1, <2>2
<1>. QED BY <1>13, <1>14

-----------------------------------------------------------------------------
(* What recovery and resumption do *)

\* _system_recover
RecoveredFrom(s) ==
    IF s.act \in {"FREE_SELECTING", "HOST_ANNOUNCING"} THEN s.act
    ELSE IF s.who \in Agents THEN "AGENT_PREPARING" ELSE "HUMAN_READY_TO_START"
Recovered(t, s) ==
    /\ t.act = "RECOVERY_REQUIRED"
    /\ Same(t, s, {"issued", "clock", "start", "used", "settled", "budget", "failed",
                   "holder", "opp", "gen", "src", "phase", "hands", "round", "selLeft"})
    /\ s.failed # 0 => /\ t.status = "ERROR" /\ t.op = IF s.op = "PENDING" THEN "FAILED" ELSE s.op
                       /\ Same(t, s, {"from", "who", "side", "speech", "begun", "left"})
    /\ s.failed = 0 => /\ t.status = "SYSTEM_RECOVERY" /\ t.speech = 0 /\ t.begun = 0 /\ t.op = s.op
                       /\ t.who = IF s.act = "FREE_SELECTING" THEN NoOne ELSE s.who
                       /\ t.side = IF s.act = "FREE_SELECTING" THEN NoSide ELSE s.side
                       /\ t.left = IF s.act = "FREE_SELECTING" THEN NoTime ELSE Total
                       /\ t.from = RecoveredFrom(s) /\ t.open = s.open

\* Recover leaves what belongs to the choice as it was.
LEMMA Recoveries ==
    ASSUME NEW s, ChoiceTyped(s), NEW t, t = Recover(s)
    PROVE  ChoiceTyped(t) /\ Recovered(t, s)
<1>. DEFINE c == Cancel(s)
            op == IF s.op = "PENDING" THEN "FAILED" ELSE s.op
            who == IF s.act = "FREE_SELECTING" THEN NoOne ELSE s.who
            side == IF s.act = "FREE_SELECTING" THEN NoSide ELSE s.side
            left == IF s.act = "FREE_SELECTING" THEN NoTime ELSE Total
            from == RecoveredFrom(s)
            same == {"issued", "clock", "start", "used", "settled", "budget", "failed",
                     "holder", "opp", "gen", "src", "phase", "hands", "round", "selLeft"}
            choice == {"holder", "opp", "gen", "phase", "waiting", "hands", "round", "dec", "sel",
                       "selLeft", "due", "ended", "src", "wait", "ready", "issued", "timer"}
<1>1. DOMAIN s = Names
  BY DEF ChoiceTyped
<1>2. /\ DOMAIN c = Names /\ c.timer = NoTimer /\ Same(c, s, Names \ {"timer"})
  BY <1>1 DEF Cancel, Names, Same
<1>3. NoTimer.cmd = "none" /\ NoTimer.start = 0
  BY DEF NoTimer
<1>4. c.op = s.op
  BY <1>2 DEF Same, Names
<1>5. ChoiceTyped(c)
  <2>1. /\ c.holder = s.holder /\ c.opp = s.opp /\ c.gen = s.gen /\ c.src = s.src /\ c.phase = s.phase
        /\ c.hands = s.hands /\ c.round = s.round /\ c.due = s.due /\ c.waiting = s.waiting /\ c.open = s.open
        /\ c.ended = s.ended /\ c.dec = s.dec /\ c.sel = s.sel /\ c.selLeft = s.selLeft /\ c.issued = s.issued
        /\ c.wait = s.wait /\ c.ready = s.ready
    BY <1>2 DEF Same, Names
  <2>. QED BY <1>2, <1>3, <2>1 DEF ChoiceTyped
<1>6. t = IF s.failed # 0
          THEN [c EXCEPT !.status = "ERROR", !.act = "RECOVERY_REQUIRED", !.open = FALSE, !.op = op]
          ELSE [c EXCEPT !.status = "SYSTEM_RECOVERY", !.act = "RECOVERY_REQUIRED", !.speech = 0,
                  !.begun = 0, !.who = who, !.side = side, !.left = left, !.from = from]
  BY <1>1, <1>2, <1>4 DEF Recover, Same, Names, RecoveredFrom
<1>. HIDE DEF c, op, who, side, left, from
<1>7. CASE s.failed # 0
  <2>1. t = [c EXCEPT !.status = "ERROR", !.act = "RECOVERY_REQUIRED", !.open = FALSE, !.op = op]
    BY <1>6, <1>7
  <2>2. DOMAIN t = Names /\ t.status = "ERROR" /\ t.act = "RECOVERY_REQUIRED" /\ t.op = op
    BY <1>2, <2>1 DEF Names
  <2>3. t.open = FALSE
    BY <1>2, <2>1 DEF Names
  <2>4. Same(t, c, Names \ {"status", "act", "open", "op"})
    BY <1>2, <2>1 DEF Names, Same
  <2>5. Same(t, s, same) /\ Same(t, s, {"from", "who", "side", "speech", "begun", "left"})
    BY <1>2, <2>4 DEF Same, Names
  <2>6. ChoiceTyped(t)
    <3>1. Same(t, c, choice)
      BY <2>4 DEF Same, Names
    <3>2. t.open \in BOOLEAN
      BY <2>3
    <3>. QED BY <1>5, <2>2, <3>1, <3>2, ZenonT(60) DEF Same, ChoiceTyped
  <2>. QED BY <1>7, <2>2, <2>5, <2>6 DEF Recovered, op
<1>8. CASE s.failed = 0
  <2>1. t = [c EXCEPT !.status = "SYSTEM_RECOVERY", !.act = "RECOVERY_REQUIRED", !.speech = 0,
                  !.begun = 0, !.who = who, !.side = side, !.left = left, !.from = from]
    BY <1>6, <1>8
  <2>2. DOMAIN t = Names /\ t.status = "SYSTEM_RECOVERY" /\ t.act = "RECOVERY_REQUIRED" /\ t.speech = 0
    BY <1>2, <2>1 DEF Names
  <2>3. t.begun = 0 /\ t.who = who /\ t.side = side /\ t.left = left /\ t.from = from
    BY <1>2, <2>1 DEF Names
  <2>4. Same(t, c, Names \ {"status", "act", "speech", "begun", "who", "side", "left", "from"})
    BY <1>2, <2>1 DEF Names, Same
  <2>5. Same(t, s, same) /\ t.op = s.op /\ t.open = s.open
    BY <1>2, <2>4 DEF Same, Names
  <2>6. ChoiceTyped(t)
    <3>1. Same(t, c, choice \cup {"open"})
      BY <2>4 DEF Same, Names
    <3>. QED BY <1>5, <2>2, <3>1, ZenonT(60) DEF Same, ChoiceTyped
  <2>. QED BY <1>8, <2>2, <2>3, <2>5, <2>6 DEF Recovered, who, side, left, from
<1>. QED BY <1>7, <1>8

\* match.resume, before its countdown
Resuming(t, s) ==
    t.status = "PAUSED" /\ t.act = "RESUME_COUNTDOWN" /\ Same(t, s, Names \ {"status", "act", "timer"})

\* The match waits for the end of the countdown.
LEMMA Resumes ==
    ASSUME NEW s, ChoiceTyped(s),
           NEW t, t = Arm([s EXCEPT !.status = "PAUSED", !.act = "RESUME_COUNTDOWN"], "resume.elapsed", Fresh)
    PROVE  ChoiceTyped(t) /\ Resuming(t, s)
<1>. DEFINE u == [s EXCEPT !.status = "PAUSED", !.act = "RESUME_COUNTDOWN"]
<1>1. DOMAIN s = Names
  BY DEF ChoiceTyped
<1>2. /\ DOMAIN u = Names /\ u.status = "PAUSED" /\ u.act = "RESUME_COUNTDOWN"
      /\ Same(u, s, Names \ {"status", "act"})
  BY <1>1 DEF Names, Same
<1>3. t = Arm(u, "resume.elapsed", Fresh)
  OBVIOUS
<1>. HIDE DEF u
<1>4. DOMAIN t = Names /\ Same(t, u, Names \ {"timer"}) /\ t.timer.cmd = "resume.elapsed" /\ t.timer.start = 0
  BY <1>2, <1>3 DEF Arm, Names, Same
<1>5. Same(t, s, Names \ {"status", "act", "timer"}) /\ t.status = "PAUSED" /\ t.act = "RESUME_COUNTDOWN"
  BY <1>2, <1>4 DEF Same, Names
<1>6. ChoiceTyped(t)
  <2>1. /\ t.holder = s.holder /\ t.opp = s.opp /\ t.gen = s.gen /\ t.src = s.src /\ t.phase = s.phase
        /\ t.hands = s.hands /\ t.round = s.round /\ t.due = s.due /\ t.waiting = s.waiting /\ t.open = s.open
        /\ t.ended = s.ended /\ t.dec = s.dec /\ t.sel = s.sel /\ t.selLeft = s.selLeft /\ t.issued = s.issued
        /\ t.wait = s.wait /\ t.ready = s.ready
    BY <1>5 DEF Same, Names
  <2>. QED BY <1>4, <2>1 DEF ChoiceTyped, Commands
<1>. QED BY <1>5, <1>6 DEF Resuming

\* The timer of a wait is set again.
LEMMA Rearmed ==
    ASSUME NEW s, ChoiceTyped(s), NEW cmd \in Commands \ {"speech.deadline"}, NEW id, NEW t, t = Arm(s, cmd, id)
    PROVE  ChoiceTyped(t) /\ Same(t, s, Names \ {"timer"})
<1>1. DOMAIN s = Names
  BY DEF ChoiceTyped
<1>2. DOMAIN t = Names /\ Same(t, s, Names \ {"timer"}) /\ t.timer.cmd = cmd /\ t.timer.start = 0
  BY <1>1 DEF Arm, Names, Same
<1>3. /\ t.holder = s.holder /\ t.opp = s.opp /\ t.gen = s.gen /\ t.src = s.src /\ t.phase = s.phase
      /\ t.hands = s.hands /\ t.round = s.round /\ t.due = s.due /\ t.waiting = s.waiting /\ t.open = s.open
      /\ t.ended = s.ended /\ t.dec = s.dec /\ t.sel = s.sel /\ t.selLeft = s.selLeft /\ t.issued = s.issued
      /\ t.wait = s.wait /\ t.ready = s.ready
  BY <1>2 DEF Same, Names
<1>. QED BY <1>2, <1>3 DEF ChoiceTyped

\* _resume_elapsed: selecting again, where the opportunity goes on or the
\* decisions are made anew.
Selects(s) == s.from = "FREE_SELECTING" \/ (s.from \in Finalizing /\ s.selLeft)
Kept13 == {"who", "side", "issued", "begun", "left", "start", "used", "settled", "budget", "failed", "op",
           "holder", "src"}
Reselected(t, s) ==
    /\ Same(t, s, Kept13 \cup {"status", "act", "from", "clock", "speech"})
    /\ t.phase \in {"COMPETING", "MODEL_WAIT", "HUMAN_ONLY_WAIT"}
    /\ \/ t.opp = s.opp /\ t.hands = s.hands /\ s.opp # 0 /\ s.op # "SUCCEEDED"
       \/ /\ t.opp = s.gen + 1 /\ (t.hands = << >> \/ (t.hands = s.hands /\ s.src = 0))
          /\ s.opp = 0 \/ s.op = "SUCCEEDED"

\* RecoveryRound opens a new opportunity.
LEMMA RoundAgain ==
    ASSUME NEW s, ChoiceTyped(s), s.opp = 0 \/ s.op = "SUCCEEDED", NEW t, t = RecoveryRound(s)
    PROVE  ChoiceTyped(t) /\ Reselected(t, s) /\ t.timer.cmd = "hand.window_closed"
<1>. DEFINE o == IF s.src # 0 THEN OpenOpportunity(s, s.holder, s.src) ELSE [s EXCEPT !.opp = 0]
            u == StartDecisions(o, s.holder, TRUE)
            same == Kept13 \cup {"status", "act", "from", "clock", "speech"}
            choice == {"holder", "opp", "gen", "phase", "waiting", "hands", "open", "round", "dec", "sel",
                       "selLeft", "due", "ended", "src", "wait", "ready", "issued"}
<1>1. t = Arm(u, "hand.window_closed", <<"recovery-round", u.opp>>)
  BY DEF RecoveryRound
<1>2. DOMAIN s = Names /\ s.holder \in Sides /\ s.src \in Nat /\ s.gen \in Nat
  BY DEF ChoiceTyped
<1>. HIDE DEF o, u
<1>3. /\ ChoiceTyped(o) /\ Same(o, s, same)
      /\ \/ o.opp = s.gen + 1 /\ o.hands = << >>
         \/ o.opp = 0 /\ o.gen = s.gen /\ o.hands = s.hands /\ s.src = 0
  <2>1. CASE s.src # 0
    <3>1. o = OpenOpportunity(s, s.holder, s.src)
      BY <2>1 DEF o
    <3>0. ChoiceTyped(o) /\ IsOpened(o, s, s.holder, s.src)
      BY <1>2, <3>1, Opened
    <3>2. ChoiceTyped(o) /\ o.hands = << >>
      BY <3>0 DEF IsOpened
    <3>3. Same(o, s, TurnFields \cup {"ready", "timer"})
      BY <3>0 DEF IsOpened
    <3>4. o.opp = s.gen + 1 /\ o.src = s.src /\ o.holder = s.holder
      BY <3>0 DEF IsOpened
    <3>5. Same(o, s, same)
      BY <3>3, <3>4 DEF Same, TurnFields, Kept13
    <3>. QED BY <3>2, <3>4, <3>5
  <2>2. CASE s.src = 0
    <3>1. o = [s EXCEPT !.opp = 0]
      BY <2>2 DEF o
    <3>2. DOMAIN o = Names /\ o.opp = 0 /\ Same(o, s, Names \ {"opp"})
      BY <1>2, <3>1 DEF Names, Same
    <3>3. Same(o, s, same) /\ o.gen = s.gen /\ o.hands = s.hands
      BY <3>2 DEF Same, Names, Kept13
    <3>4. Same(o, s, (choice \ {"opp"}) \cup {"timer"})
      BY <3>2 DEF Same, Names
    <3>5. ChoiceTyped(o)
      <4>1. /\ o.holder = s.holder /\ o.src = s.src /\ o.phase = s.phase
            /\ o.round = s.round /\ o.due = s.due /\ o.waiting = s.waiting /\ o.open = s.open
            /\ o.ended = s.ended /\ o.dec = s.dec /\ o.sel = s.sel /\ o.selLeft = s.selLeft /\ o.issued = s.issued
            /\ o.wait = s.wait /\ o.ready = s.ready /\ o.timer = s.timer
        BY <3>4 DEF Same
      <4>. QED BY <3>2, <3>3, <4>1 DEF ChoiceTyped
    <3>. QED BY <2>2, <3>2, <3>3, <3>5
  <2>. QED BY <1>2, <2>1, <2>2
<1>4. /\ ChoiceTyped(u)
      /\ Same(u, o, TurnFields \cup {"holder", "hands", "open", "src", "ready", "timer"})
      /\ u.phase \in {"COMPETING", "MODEL_WAIT"}
      /\ u.opp = (IF o.opp = 0 THEN o.gen + 1 ELSE o.opp)
  <2>1. u = StartDecisions(o, s.holder, TRUE)
    BY DEF u
  <2>2. ChoiceTyped(u)
    BY <1>2, <1>3, <2>1, Started
  <2>3. Same(u, o, TurnFields \cup {"holder", "hands", "open", "src", "ready", "timer"})
    BY <1>2, <1>3, <2>1, Started
  <2>4. u.phase \in {"COMPETING", "MODEL_WAIT"}
    BY <1>2, <1>3, <2>1, Started
  <2>5. u.opp = (IF o.opp = 0 THEN o.gen + 1 ELSE o.opp)
    BY <1>2, <1>3, <2>1, Started
  <2>. QED BY <2>2, <2>3, <2>4, <2>5
<1>5. Same(u, s, same) /\ u.hands = o.hands
  BY <1>3, <1>4 DEF Same, TurnFields, Kept13
<1>6. /\ ChoiceTyped(t) /\ Same(t, u, Names \ {"timer"})
  <2>. DEFINE id == <<"recovery-round", u.opp>>
  <2>. HIDE DEF id
  <2>1. t = Arm(u, "hand.window_closed", id) /\ "hand.window_closed" \in Commands \ {"speech.deadline"}
    BY <1>1 DEF id, Commands
  <2>. QED BY <1>4, <2>1, Rearmed
<1>7. t.timer.cmd = "hand.window_closed"
  <2>1. DOMAIN u = Names
    BY <1>4 DEF ChoiceTyped
  <2>. QED BY <1>1, <2>1 DEF Arm, Names
<1>8. t.phase = u.phase /\ t.opp = u.opp /\ t.hands = u.hands
  BY <1>6 DEF Same, Names
<1>9. Same(t, u, same)
  BY <1>6 DEF Same, Names, Kept13
<1>10. Same(t, s, same)
  BY <1>5, <1>9 DEF Same
<1>11. \/ t.opp = s.gen + 1 /\ t.hands = << >>
       \/ t.opp = s.gen + 1 /\ t.hands = s.hands /\ s.src = 0
  <2>1. s.gen + 1 # 0
    BY <1>2
  <2>. QED BY <1>3, <1>4, <1>5, <1>8, <2>1
<1>. QED BY <1>4, <1>6, <1>7, <1>8, <1>10, <1>11 DEF Reselected

\* _resume_elapsed of a selection
LEMMA SelectionResumed ==
    ASSUME NEW s, ChoiceTyped(s), NEW t, t = ResumedSelection(s)
    PROVE  ChoiceTyped(t) /\ Reselected(t, s)
<1>. DEFINE same == Kept13 \cup {"status", "act", "from", "clock", "speech", "opp", "hands"}
<1>1. DOMAIN s = Names
  BY DEF ChoiceTyped
<1>2. CASE s.opp = 0 \/ s.op = "SUCCEEDED"
  BY <1>2, RoundAgain DEF ResumedSelection
<1>3. CASE ~(s.opp = 0 \/ s.op = "SUCCEEDED") /\ s.phase = "HUMAN_ONLY_WAIT"
  <2>. DEFINE u == [s EXCEPT !.open = TRUE, !.waiting = FALSE, !.wait = "open"]
              id == <<"human-wait-resumed", s.opp>>
  <2>1. t = Arm(u, "human.wait_timeout", id)
    BY <1>3 DEF ResumedSelection
  <2>2. DOMAIN u = Names /\ Same(u, s, Names \ {"open", "waiting", "wait"}) /\ u.wait = "open"
    BY <1>1 DEF Names, Same
  <2>3. u.open = TRUE
    BY <1>1 DEF Names
  <2>4. u.waiting = FALSE
    BY <1>1 DEF Names
  <2>. HIDE DEF u, id
  <2>5. Same(u, s, same \cup {"phase"})
    BY <2>2 DEF Same, Names, Kept13
  <2>6. ChoiceTyped(u)
    <3>1. /\ u.holder = s.holder /\ u.opp = s.opp /\ u.gen = s.gen /\ u.src = s.src /\ u.phase = s.phase
          /\ u.hands = s.hands /\ u.round = s.round /\ u.due = s.due
          /\ u.ended = s.ended /\ u.dec = s.dec /\ u.sel = s.sel /\ u.selLeft = s.selLeft /\ u.issued = s.issued
          /\ u.ready = s.ready /\ u.timer = s.timer
      BY <2>2 DEF Same, Names
    <3>2. u.open \in BOOLEAN
      BY <2>3
    <3>3. u.waiting \in BOOLEAN
      BY <2>4
    <3>. QED BY <2>2, <3>1, <3>2, <3>3 DEF ChoiceTyped
  <2>7. "human.wait_timeout" \in Commands \ {"speech.deadline"}
    BY DEF Commands
  <2>8. ChoiceTyped(t) /\ Same(t, u, Names \ {"timer"})
    BY <2>1, <2>6, <2>7, Rearmed
  <2>9. Same(t, u, same \cup {"phase"})
    BY <2>8 DEF Same, Names, Kept13
  <2>10. Same(t, s, same) /\ t.phase = s.phase
    BY <2>5, <2>9 DEF Same
  <2>. QED BY <1>3, <2>8, <2>10 DEF Reselected, Same
<1>4. CASE ~(s.opp = 0 \/ s.op = "SUCCEEDED") /\ s.phase # "HUMAN_ONLY_WAIT"
  <2>. DEFINE due == IF s.due = "tied" THEN "open" ELSE s.due
              u == [s EXCEPT !.open = TRUE, !.phase = "COMPETING", !.sel = "open", !.due = due]
              id == <<"free-window-resumed", s.opp>>
  <2>1. t = Arm(u, "hand.window_closed", id)
    BY <1>1, <1>4 DEF ResumedSelection, Names
  <2>0. due \in {"none", "open", "passed", "tied"}
    BY DEF ChoiceTyped
  <2>. HIDE DEF due
  <2>2. /\ DOMAIN u = Names /\ Same(u, s, Names \ {"open", "phase", "sel", "due"}) /\ u.phase = "COMPETING"
        /\ u.sel = "open" /\ u.due = due
    BY <1>1 DEF Names, Same
  <2>3. u.open = TRUE
    BY <1>1 DEF Names
  <2>. HIDE DEF u, id
  <2>5. Same(u, s, same)
    BY <2>2 DEF Same, Names, Kept13
  <2>6. ChoiceTyped(u)
    <3>1. /\ u.holder = s.holder /\ u.opp = s.opp /\ u.gen = s.gen /\ u.src = s.src
          /\ u.hands = s.hands /\ u.round = s.round /\ u.wait = s.wait /\ u.waiting = s.waiting
          /\ u.ended = s.ended /\ u.dec = s.dec /\ u.selLeft = s.selLeft /\ u.issued = s.issued
          /\ u.ready = s.ready /\ u.timer = s.timer
      BY <2>2 DEF Same, Names
    <3>2. u.open \in BOOLEAN
      BY <2>3
    <3>. QED BY <2>0, <2>2, <3>1, <3>2 DEF ChoiceTyped, Phases
  <2>7. "hand.window_closed" \in Commands \ {"speech.deadline"}
    BY DEF Commands
  <2>8. ChoiceTyped(t) /\ Same(t, u, Names \ {"timer"})
    BY <2>1, <2>6, <2>7, Rearmed
  <2>9. Same(t, u, same \cup {"phase"})
    BY <2>8 DEF Same, Names, Kept13
  <2>10. Same(t, s, same) /\ t.phase = "COMPETING"
    BY <2>2, <2>5, <2>9 DEF Same
  <2>. QED BY <1>4, <2>8, <2>10 DEF Reselected, Same
<1>. QED BY <1>2, <1>3, <1>4

\* _resume_elapsed: where a match goes on after each interruption
IsResumed(t, s) ==
    /\ t.status = "RUNNING" /\ t.from = "none" /\ t.clock = NoTime /\ Same(t, s, Kept13)
    /\ \/ /\ Selects(s) /\ t.act = "FREE_SELECTING" /\ t.speech = s.speech
          /\ t.phase \in {"COMPETING", "MODEL_WAIT", "HUMAN_ONLY_WAIT"}
          /\ \/ t.opp = s.opp /\ t.hands = s.hands /\ s.opp # 0 /\ s.op # "SUCCEEDED"
             \/ /\ t.opp = s.gen + 1 /\ (t.hands = << >> \/ (t.hands = s.hands /\ s.src = 0))
                /\ s.opp = 0 \/ s.op = "SUCCEEDED"
       \/ /\ ~Selects(s) /\ s.from \in HumanTurn /\ t.act = "HUMAN_READY_TO_START"
          /\ Same(t, s, {"speech", "opp", "phase", "hands", "open", "round"})
       \/ /\ s.from \in AgentTurn \ {"AGENT_PREPARING"} /\ t.act = "AGENT_PREPARING" /\ t.speech = 0
          /\ t.opp = 0 /\ t.phase = "none" /\ t.hands = << >>
       \/ /\ s.from \in {"AGENT_PREPARING", "HOST_ANNOUNCING"} /\ t.act = s.from
          /\ Same(t, s, {"speech", "opp", "phase", "hands", "open", "round"})

\* Resumed
LEMMA ResumeElapses ==
    ASSUME NEW s, ChoiceTyped(s), s.from \in Goes, NEW t, t = Resumed(s)
    PROVE  ChoiceTyped(t) /\ IsResumed(t, s)
<1>. DEFINE u == [s EXCEPT !.status = "RUNNING", !.from = "none", !.clock = NoTime, !.ready = "none"]
            choice == {"holder", "opp", "gen", "phase", "waiting", "hands", "open", "round", "dec", "sel",
                       "selLeft", "due", "ended", "src", "wait", "issued", "timer"}
            four == {"speech", "opp", "phase", "hands", "open", "round"}
<1>1. DOMAIN s = Names
  BY DEF ChoiceTyped
<1>2. /\ DOMAIN u = Names /\ u.status = "RUNNING" /\ u.from = "none" /\ u.clock = NoTime
      /\ u.ready = "none"
  BY <1>1 DEF Names
<1>3. Same(u, s, Names \ {"status", "from", "clock", "ready"})
  BY <1>1 DEF Names, Same
<1>4. Same(u, s, Kept13 \cup four) /\ Same(u, s, choice) /\ Same(u, s, {"act"})
  BY <1>3 DEF Same, Names, Kept13
<1>5. ChoiceTyped(u)
  BY <1>2, <1>4 DEF ChoiceTyped, Same
<1>6. /\ Selects(s) => t = ResumedSelection([u EXCEPT !.act = "FREE_SELECTING"])
      /\ ~Selects(s) /\ s.from \in {"HUMAN_READY_TO_START", "HUMAN_SPEAKING", "SPEECH_FINALIZING"} =>
           t = Arm([u EXCEPT !.act = "HUMAN_READY_TO_START", !.ready = "open"],
                   "human.start_timeout", Fresh)
      /\ ~Selects(s) /\ s.from \in {"AGENT_SPEAKING", "AGENT_FINALIZING"} =>
           t = [Dropped(u) EXCEPT !.act = "AGENT_PREPARING", !.speech = 0,
                                  !.sel = "none", !.wait = "none"]
      /\ s.from \in {"AGENT_PREPARING", "HOST_ANNOUNCING"} => t = [u EXCEPT !.act = s.from]
  BY Zenon DEF Resumed, Selects, Finalizing
<1>. HIDE DEF u
<1>7. CASE Selects(s)
  <2>. DEFINE v == [u EXCEPT !.act = "FREE_SELECTING"]
  <2>1. t = ResumedSelection(v)
    BY <1>6, <1>7
  <2>2. DOMAIN v = Names /\ v.act = "FREE_SELECTING" /\ Same(v, u, Names \ {"act"})
    BY <1>2 DEF Names, Same
  <2>. HIDE DEF v
  <2>3. Same(v, u, choice \cup {"ready"}) /\ Same(v, u, Kept13 \cup four \cup {"status", "from", "clock"})
    BY <2>2 DEF Same, Names, Kept13
  <2>4. ChoiceTyped(v)
    BY <1>5, <2>2, <2>3, ZenonT(60) DEF ChoiceTyped, Same
  <2>5. ChoiceTyped(t) /\ Reselected(t, v)
    BY <2>1, <2>4, SelectionResumed
  <2>6. Same(t, v, Kept13 \cup {"status", "act", "from", "clock", "speech"})
    BY <2>5 DEF Reselected
  <2>7. Same(v, s, Kept13 \cup four) /\ v.gen = s.gen
    BY <1>4, <2>3 DEF Same
  <2>8. Same(t, s, Kept13) /\ t.speech = s.speech
    BY <2>6, <2>7 DEF Same
  <2>9. t.status = "RUNNING" /\ t.from = "none" /\ t.clock = NoTime /\ t.act = "FREE_SELECTING"
    BY <1>2, <2>2, <2>3, <2>6 DEF Same
  <2>10. v.opp = s.opp /\ v.hands = s.hands /\ v.gen = s.gen /\ v.src = s.src /\ v.op = s.op
    BY <2>7 DEF Same, Kept13
  <2>11. /\ t.phase \in {"COMPETING", "MODEL_WAIT", "HUMAN_ONLY_WAIT"}
         /\ \/ t.opp = s.opp /\ t.hands = s.hands /\ s.opp # 0 /\ s.op # "SUCCEEDED"
            \/ /\ t.opp = s.gen + 1 /\ (t.hands = << >> \/ (t.hands = s.hands /\ s.src = 0))
               /\ s.opp = 0 \/ s.op = "SUCCEEDED"
    BY <2>5, <2>10 DEF Reselected
  <2>. QED BY <1>7, <2>5, <2>8, <2>9, <2>11 DEF IsResumed
<1>8. CASE ~Selects(s) /\ s.from \in HumanTurn
  <2>. DEFINE v == [u EXCEPT !.act = "HUMAN_READY_TO_START", !.ready = "open"]
  <2>1. t = Arm(v, "human.start_timeout", Fresh)
    BY <1>6, <1>8 DEF HumanTurn
  <2>2. /\ DOMAIN v = Names /\ v.act = "HUMAN_READY_TO_START" /\ v.ready = "open"
        /\ Same(v, u, Names \ {"act", "ready"})
    BY <1>2 DEF Names, Same
  <2>. HIDE DEF v
  <2>3. Same(v, u, choice) /\ Same(v, u, Kept13 \cup four \cup {"status", "from", "clock"})
    BY <2>2 DEF Same, Names, Kept13
  <2>4. ChoiceTyped(v)
    BY <1>5, <2>2, <2>3 DEF ChoiceTyped, Same
  <2>5. "human.start_timeout" \in Commands \ {"speech.deadline"}
    BY DEF Commands
  <2>6. ChoiceTyped(t) /\ Same(t, v, Names \ {"timer"})
    BY <2>1, <2>4, <2>5, Rearmed
  <2>7. Same(t, v, Kept13 \cup four \cup {"status", "from", "clock", "act"})
    BY <2>6 DEF Same, Names, Kept13
  <2>8. Same(t, s, Kept13) /\ Same(t, s, four)
    BY <1>4, <2>3, <2>7 DEF Same
  <2>9. t.status = "RUNNING" /\ t.from = "none" /\ t.clock = NoTime /\ t.act = "HUMAN_READY_TO_START"
    BY <1>2, <2>2, <2>3, <2>7 DEF Same
  <2>. QED BY <1>8, <2>6, <2>8, <2>9 DEF IsResumed
<1>9. CASE ~Selects(s) /\ s.from \in AgentTurn \ {"AGENT_PREPARING"}
  <2>. DEFINE o == Dropped(u)
  <2>1. /\ ChoiceTyped(o) /\ Same(o, u, Names \ DropNames)
        /\ o.opp = 0 /\ o.phase = "none" /\ o.hands = << >>
    BY <1>5, Drops
  <2>2. t = [o EXCEPT !.act = "AGENT_PREPARING", !.speech = 0, !.sel = "none", !.wait = "none"]
    BY <1>6, <1>9 DEF AgentTurn
  <2>. HIDE DEF o
  <2>3. DOMAIN o = Names
    BY <2>1 DEF ChoiceTyped
  <2>4. /\ DOMAIN t = Names /\ t.act = "AGENT_PREPARING" /\ t.speech = 0 /\ t.sel = "none" /\ t.wait = "none"
    BY <2>2, <2>3 DEF Names
  <2>5. Same(t, o, Names \ {"act", "speech", "sel", "wait"})
    BY <2>2, <2>3 DEF Names, Same
  <2>6. Same(t, o, (choice \ {"sel", "wait"}) \cup {"ready"}) /\ Same(t, o, Kept13 \cup {"status", "from", "clock"})
    BY <2>5 DEF Same, Names, Kept13
  <2>7. ChoiceTyped(t)
    <3>1. /\ t.holder = o.holder /\ t.opp = o.opp /\ t.gen = o.gen /\ t.src = o.src /\ t.phase = o.phase
          /\ t.hands = o.hands /\ t.round = o.round /\ t.due = o.due /\ t.waiting = o.waiting /\ t.open = o.open
          /\ t.ended = o.ended /\ t.dec = o.dec /\ t.selLeft = o.selLeft /\ t.issued = o.issued
          /\ t.ready = o.ready /\ t.timer = o.timer
      BY <2>6 DEF Same
    <3>. QED BY <2>1, <2>4, <3>1 DEF ChoiceTyped
  <2>8. Same(o, u, Kept13 \cup {"status", "from", "clock"})
    BY <2>1 DEF Same, Names, Kept13, DropNames
  <2>9. Same(t, s, Kept13)
    BY <1>4, <2>6, <2>8 DEF Same
  <2>10. t.status = "RUNNING" /\ t.from = "none" /\ t.clock = NoTime
    BY <1>2, <2>6, <2>8 DEF Same
  <2>11. t.opp = 0 /\ t.phase = "none" /\ t.hands = << >>
    BY <2>1, <2>6 DEF Same
  <2>. QED BY <1>9, <2>4, <2>7, <2>9, <2>10, <2>11 DEF IsResumed
<1>10. CASE s.from \in {"AGENT_PREPARING", "HOST_ANNOUNCING"}
  <2>. DEFINE from == s.from
  <2>. HIDE DEF from
  <2>1. t = [u EXCEPT !.act = from]
    BY <1>6, <1>10 DEF from
  <2>2. DOMAIN t = Names /\ t.act = from /\ Same(t, u, Names \ {"act"})
    BY <1>2, <2>1 DEF Names, Same
  <2>3. Same(t, u, choice \cup {"ready"}) /\ Same(t, u, Kept13 \cup four \cup {"status", "from", "clock"})
    BY <2>2 DEF Same, Names, Kept13
  <2>4. ChoiceTyped(t)
    BY <1>5, <2>2, <2>3, ZenonT(60) DEF ChoiceTyped, Same
  <2>5. Same(t, s, Kept13) /\ Same(t, s, four)
    BY <1>4, <2>3 DEF Same
  <2>6. t.status = "RUNNING" /\ t.from = "none" /\ t.clock = NoTime
    BY <1>2, <2>3 DEF Same
  <2>7. t.act = s.from
    BY <2>2 DEF from
  <2>. QED BY <1>10, <2>4, <2>5, <2>6, <2>7 DEF IsResumed
<1>11. \/ Selects(s) \/ (~Selects(s) /\ s.from \in HumanTurn)
       \/ (~Selects(s) /\ s.from \in AgentTurn \ {"AGENT_PREPARING"})
       \/ s.from \in {"AGENT_PREPARING", "HOST_ANNOUNCING"}
  BY DEF Selects, Goes, Turn, HumanTurn, AgentTurn
<1>. QED BY <1>7, <1>8, <1>9, <1>10, <1>11

\* _asr_finalized of a retried recognition
Retrying(u, s) ==
    /\ u.status = "RUNNING" /\ u.act = "SPEECH_FINALIZING" /\ u.failed = 0 /\ u.op = "SUCCEEDED"
    /\ Same(u, s, Names \ {"status", "act", "failed", "op"})
Retried(t, s, audio) ==
    \/ /\ s.speech # s.failed /\ t.status = "PAUSED" /\ t.act = "RECOVERY_REQUIRED" /\ t.failed = 0
       /\ t.op = "SUCCEEDED" /\ Same(t, s, Names \ {"status", "act", "failed", "op"})
    \/ /\ s.speech = s.failed
       /\ \E u, turn : /\ ChoiceTyped(u) /\ Retrying(u, s) /\ ChoiceTyped(turn) /\ TurnFinished(turn, u, audio)
                       /\ IF turn.act = "ACTION_FINISHED" THEN t = turn ELSE Recovering(t, turn, turn.act)

\* AsrRetried
LEMMA Retries ==
    ASSUME NEW s, ChoiceTyped(s), s.speech = s.failed => s.side \in Sides, NEW audio, NEW t, t = AsrRetried(s, audio)
    PROVE  ChoiceTyped(t) /\ Retried(t, s, audio)
<1>. DEFINE new == {"status", "act", "failed", "op"}
            done == [s EXCEPT !.failed = 0, !.op = "SUCCEEDED"]
            u == [done EXCEPT !.status = "RUNNING", !.act = "SPEECH_FINALIZING"]
            turn == FinishTurn(u, audio)
            p == [done EXCEPT !.status = "PAUSED", !.act = "RECOVERY_REQUIRED"]
            choice == {"holder", "opp", "gen", "phase", "waiting", "hands", "open", "round", "dec", "sel",
                       "selLeft", "due", "ended", "src", "wait", "ready", "issued", "timer"}
<1>1. t = IF s.speech # s.failed THEN p
          ELSE IF turn.act = "ACTION_FINISHED" THEN turn ELSE PausedRecovery(turn, turn.act)
  BY DEF AsrRetried
<1>2. DOMAIN s = Names
  BY DEF ChoiceTyped
<1>3. DOMAIN done = Names /\ done.failed = 0 /\ done.op = "SUCCEEDED" /\ Same(done, s, Names \ {"failed", "op"})
  BY <1>2 DEF Names, Same
<1>. HIDE DEF turn, done
<1>4. /\ DOMAIN u = Names /\ u.status = "RUNNING" /\ u.act = "SPEECH_FINALIZING"
      /\ Same(u, done, Names \ {"status", "act"})
  BY <1>3 DEF Names, Same
<1>5. /\ DOMAIN p = Names /\ p.status = "PAUSED" /\ p.act = "RECOVERY_REQUIRED"
      /\ Same(p, done, Names \ {"status", "act"})
  BY <1>3 DEF Names, Same
<1>. HIDE DEF u, p
<1>6. Same(u, s, Names \ new) /\ u.failed = 0 /\ u.op = "SUCCEEDED"
  BY <1>3, <1>4 DEF Same, Names
<1>7. Same(p, s, Names \ new) /\ p.failed = 0 /\ p.op = "SUCCEEDED"
  BY <1>3, <1>5 DEF Same, Names
<1>8. ChoiceTyped(u)
  <2>1. Same(u, s, choice)
    BY <1>6 DEF Same, Names
  <2>2. /\ u.holder = s.holder /\ u.opp = s.opp /\ u.gen = s.gen /\ u.src = s.src /\ u.phase = s.phase
        /\ u.hands = s.hands /\ u.round = s.round /\ u.due = s.due /\ u.waiting = s.waiting /\ u.open = s.open
        /\ u.ended = s.ended /\ u.dec = s.dec /\ u.sel = s.sel /\ u.selLeft = s.selLeft /\ u.issued = s.issued
        /\ u.wait = s.wait /\ u.ready = s.ready /\ u.timer = s.timer
    BY <2>1 DEF Same
  <2>. QED BY <1>4, <2>2 DEF ChoiceTyped
<1>9. CASE s.speech # s.failed
  <2>1. t = p
    BY <1>1, <1>9
  <2>2. ChoiceTyped(t)
    <3>1. Same(p, s, choice)
      BY <1>7 DEF Same, Names
    <3>2. /\ t.holder = s.holder /\ t.opp = s.opp /\ t.gen = s.gen /\ t.src = s.src /\ t.phase = s.phase
          /\ t.hands = s.hands /\ t.round = s.round /\ t.due = s.due /\ t.waiting = s.waiting /\ t.open = s.open
          /\ t.ended = s.ended /\ t.dec = s.dec /\ t.sel = s.sel /\ t.selLeft = s.selLeft /\ t.issued = s.issued
          /\ t.wait = s.wait /\ t.ready = s.ready /\ t.timer = s.timer
      BY <2>1, <3>1 DEF Same
    <3>. QED BY <1>5, <2>1, <3>2 DEF ChoiceTyped
  <2>. QED BY <1>5, <1>7, <1>9, <2>1, <2>2 DEF Retried
<1>10. CASE s.speech = s.failed
  <2>1. u.side \in Sides
    BY <1>6, <1>10 DEF Same, Names
  <2>2. ChoiceTyped(turn) /\ TurnFinished(turn, u, audio)
    BY <1>8, <2>1, FinishesTurn DEF turn
  <2>3. Retrying(u, s)
    BY <1>4, <1>6 DEF Retrying
  <2>4. t = IF turn.act = "ACTION_FINISHED" THEN turn ELSE PausedRecovery(turn, turn.act)
    BY <1>1, <1>10
  <2>5. CASE turn.act = "ACTION_FINISHED"
    <3>1. t = turn
      BY <2>4, <2>5
    <3>. QED BY <1>8, <1>10, <2>2, <2>3, <2>5, <3>1 DEF Retried
  <2>6. CASE turn.act # "ACTION_FINISHED"
    <3>. DEFINE from == turn.act
    <3>1. t = PausedRecovery(turn, from)
      BY <2>4, <2>6
    <3>. HIDE DEF from
    <3>2. ChoiceTyped(t) /\ Recovering(t, turn, from)
      BY <2>2, <3>1, Recovers
    <3>. QED BY <1>8, <1>10, <2>2, <2>3, <2>6, <3>2 DEF Retried, from
  <2>. QED BY <2>5, <2>6
<1>. QED BY <1>9, <1>10

\* _hand_window_closed
Selected(t, s) ==
    \/ Same(t, s, TurnFields \cup {"holder", "opp", "gen", "src", "hands", "phase"})
    \/ Chose(t, s) \/ WaitsForModel(t, s)
Poor(s) == \A side \in Sides : s.budget[side] < Minimum
GivenUp(t, s) ==
    /\ Poor(s)
    /\ Same(t, s, TurnFields \cup {"holder", "opp", "gen", "src", "phase"}) /\ t.hands = << >> /\ t.selLeft = TRUE
IsClosed(t, s) ==
    \/ t = s
    \/ s.act = "FREE_SELECTING" /\ Selected(t, s)
    \/ s.act \in Finalizing /\ GivenUp(t, s)
    \/ /\ s.act \in Finalizing /\ ~Poor(s)
       /\ \E r : /\ ChoiceTyped(r) /\ TurnFinished(r, s, 0)
                 /\ IF r.act = "FREE_SELECTING" THEN Selected(t, r) ELSE t = r

\* WindowClosed
LEMMA WindowsClose ==
    ASSUME NEW s, ChoiceTyped(s), s.act \in Finalizing => s.side \in Sides, NEW t \in WindowClosed(s)
    PROVE  ChoiceTyped(t) /\ IsClosed(t, s)
<1>. DEFINE u == [s EXCEPT !.open = FALSE, !.hands = << >>, !.sel = "none", !.selLeft = TRUE]
            r == FinishTurn(s, 0)
            same == TurnFields \cup {"holder", "opp", "gen", "src", "phase"}
            choice == {"holder", "opp", "gen", "phase", "waiting", "round", "dec",
                       "due", "ended", "src", "wait", "ready", "issued", "timer"}
<1>1. DOMAIN s = Names
  BY DEF ChoiceTyped
<1>2. \/ t = s
      \/ s.act = "FREE_SELECTING" /\ t \in CloseSelection(s)
      \/ s.act \in Finalizing /\ Poor(s) /\ t = u
      \/ s.act \in Finalizing /\ ~Poor(s) /\ t \in (IF r.act = "FREE_SELECTING" THEN CloseSelection(r) ELSE {r})
  BY Zenon DEF WindowClosed, Poor
<1>3. DOMAIN u = Names /\ u.hands = << >>
  BY <1>1 DEF Names
<1>4. u.open = FALSE
  BY <1>1 DEF Names
<1>5. u.sel = "none" /\ u.selLeft = TRUE
  BY <1>1 DEF Names
<1>6. Same(u, s, Names \ {"open", "hands", "sel", "selLeft"})
  BY <1>1 DEF Names, Same
<1>. HIDE DEF r, u
<1>7. CASE t = s
  BY <1>7 DEF IsClosed
<1>8. CASE s.act = "FREE_SELECTING" /\ t \in CloseSelection(s)
  BY <1>8, SelectionClosed DEF IsClosed, Selected
<1>9. CASE s.act \in Finalizing /\ Poor(s) /\ t = u
  <2>1. Same(u, s, same)
    BY <1>6 DEF Same, Names, TurnFields
  <2>2. Same(u, s, choice)
    BY <1>6 DEF Same, Names
  <2>3. u.open \in BOOLEAN
    BY <1>4
  <2>4. u.selLeft \in BOOLEAN
    BY <1>5
  <2>5. u.hands \in Seq(Humans)
    BY <1>3
  <2>6. ChoiceTyped(u)
    <3>1. /\ u.holder = s.holder /\ u.opp = s.opp /\ u.gen = s.gen /\ u.src = s.src /\ u.phase = s.phase
          /\ u.round = s.round /\ u.due = s.due /\ u.waiting = s.waiting
          /\ u.ended = s.ended /\ u.dec = s.dec /\ u.issued = s.issued
          /\ u.wait = s.wait /\ u.ready = s.ready /\ u.timer = s.timer
      BY <2>2 DEF Same
    <3>. QED BY <1>3, <1>5, <2>3, <2>4, <2>5, <3>1 DEF ChoiceTyped
  <2>. QED BY <1>3, <1>5, <1>9, <2>1, <2>6 DEF IsClosed, GivenUp
<1>10. CASE s.act \in Finalizing /\ ~Poor(s) /\ t \in (IF r.act = "FREE_SELECTING" THEN CloseSelection(r) ELSE {r})
  <2>1. ChoiceTyped(r) /\ TurnFinished(r, s, 0)
    BY <1>10, FinishesTurn DEF r
  <2>2. CASE r.act = "FREE_SELECTING"
    <3>1. ChoiceTyped(t) /\ Selected(t, r)
      BY <1>10, <2>1, <2>2, SelectionClosed DEF Selected
    <3>. QED BY <1>10, <2>1, <2>2, <3>1 DEF IsClosed
  <2>3. CASE r.act # "FREE_SELECTING"
    <3>1. t = r
      BY <1>10, <2>3
    <3>. QED BY <1>10, <2>1, <2>3, <3>1 DEF IsClosed
  <2>. QED BY <2>2, <2>3
<1>. QED BY <1>2, <1>7, <1>8, <1>9, <1>10

-----------------------------------------------------------------------------
(* The turn has its types after every operation *)

\* The constants are numbers and sides.
LEMMA Numbers ==
    /\ Total \in Nat \ {0} /\ MaxTurn \in Nat \ {0} /\ Minimum \in Nat \ {0} /\ MaxOpps \in Nat \ {0}
    /\ First \in Sides /\ NoSide \notin Sides /\ SideOf \in [Humans \cup Agents -> Sides]
    /\ Humans \cap Agents = {} /\ NoTime = -1
    /\ \A side \in Sides : Other(side) \in Sides /\ Other(side) # side /\ Sides = {side, Other(side)}
  BY DebateAssumption DEF DebateAssumption, Sides, NoSide, NoTime, Other

\* _free_turn_duration_ms is within the budget.
LEMMA TurnTime ==
    ASSUME NEW s, s.budget \in [Sides -> 0..Total], NEW side \in Sides
    PROVE  /\ TurnOf(s, side) \in 0..Total /\ TurnOf(s, side) <= s.budget[side] /\ TurnOf(s, side) <= MaxTurn
           /\ s.budget[side] > 0 => TurnOf(s, side) > 0
<1>1. s.budget[side] \in 0..Total
  OBVIOUS
<1>. QED BY <1>1, Numbers DEF TurnOf, Smaller

\* What leaves the fields of the turn alone.
LEMMA SameTurn ==
    ASSUME NEW s, Typed(s), NEW t, ChoiceTyped(t), Same(t, s, TurnFields)
    PROVE  Typed(t)
<1>1. /\ t.status = s.status /\ t.act = s.act /\ t.from = s.from /\ t.who = s.who /\ t.side = s.side
      /\ t.speech = s.speech /\ t.issued = s.issued /\ t.begun = s.begun /\ t.left = s.left
      /\ t.clock = s.clock /\ t.start = s.start /\ t.used = s.used /\ t.settled = s.settled
      /\ t.budget = s.budget /\ t.failed = s.failed /\ t.op = s.op
  BY DEF Same, TurnFields
<1>2. At(t) = At(s)
  BY <1>1 DEF At
<1>3. TurnTyped(t)
  BY <1>1 DEF Typed, TurnTyped
<1>4. Shape(t)
  BY <1>1, <1>2 DEF Typed, Shape
<1>5. Times(t)
  BY <1>1, <1>2 DEF Typed, Times
<1>. QED BY <1>3, <1>4, <1>5 DEF Typed

\* The disjoint kinds of what a match does.
LEMMA Kinds ==
    /\ "FREE_SELECTING" \notin Turn \cup {"ACTION_FINISHED"} /\ "HOST_ANNOUNCING" \notin Turn
    /\ "ACTION_FINISHED" \notin Turn \cup Goes /\ Goes \subseteq ActionStates /\ "none" \notin Goes
    /\ "RECOVERY_REQUIRED" \notin Goes /\ "RESUME_COUNTDOWN" \notin Goes
    /\ OnAir \subseteq Turn /\ Turn \subseteq Goes /\ HumanTurn \cap AgentTurn = {}
    /\ OnAir = Speaking \cup Finalizing /\ Speaking \cap Finalizing = {}
    /\ Turn = HumanTurn \cup AgentTurn
    /\ "HUMAN_READY_TO_START" \in HumanTurn \ OnAir /\ "AGENT_PREPARING" \in AgentTurn \ OnAir
    /\ HumanTurn \cap Speaking = {"HUMAN_SPEAKING"} /\ HumanTurn \cap Finalizing = {"SPEECH_FINALIZING"}
    /\ AgentTurn \cap Speaking = {"AGENT_SPEAKING"} /\ AgentTurn \cap Finalizing = {"AGENT_FINALIZING"}
    /\ {"FREE_SELECTING", "HOST_ANNOUNCING"} \subseteq Goes
  BY DEF Turn, HumanTurn, AgentTurn, Goes, OnAir, Speaking, Finalizing, ActionStates

\* The choice of a human, of an agent, or of nobody yet.
LEMMA ChoseTyped ==
    ASSUME NEW s, Typed(s), s.status = "RUNNING", s.act \notin Speaking, NEW t, ChoiceTyped(t), Chose(t, s)
    PROVE  Typed(t)
<1>1. /\ s.clock = NoTime /\ s.failed = 0 /\ s.op # "PENDING"
  BY DEF Typed, Times, Shape
<1>2. /\ s.holder \in Sides /\ TurnOf(s, s.holder) \in 0..Total
  BY TurnTime DEF Typed, ChoiceTyped, TurnTyped
<1>3. /\ t.status = s.status /\ t.from = s.from /\ t.issued = s.issued /\ t.clock = s.clock
      /\ t.budget = s.budget /\ t.failed = s.failed /\ t.op = s.op
  BY DEF Chose, ChoseHuman, ChoseAgent, WaitsForHuman, Same, Unchosen
<1>4. CASE ChoseHuman(t, s)
  <2>1. /\ t.act = "HUMAN_READY_TO_START" /\ t.speech = 0 /\ t.begun = 0 /\ t.start = NoTime /\ t.used = 0
        /\ t.who \in Humans /\ t.side \in Sides /\ t.left \in 0..Total
    BY <1>2, <1>4 DEF ChoseHuman, HumansOf
  <2>2. t.settled = FALSE
    BY <1>4 DEF ChoseHuman
  <2>3. At(t) = "HUMAN_READY_TO_START"
    BY <1>3, <2>1 DEF At
  <2>4. TurnTyped(t)
    <3>1. t.settled \in BOOLEAN
      BY <2>2
    <3>2. t.act \in ActionStates
      BY <2>1, Kinds
    <3>. QED BY <1>3, <2>1, <3>1, <3>2, Numbers DEF Typed, TurnTyped
  <2>5. Shape(t)
    BY <1>1, <1>3, <2>1, <2>3, Kinds DEF Shape
  <2>6. Times(t)
    BY <1>1, <1>3, <2>1, <2>3, Kinds DEF Times
  <2>. QED BY <2>4, <2>5, <2>6 DEF Typed
<1>5. CASE ChoseAgent(t, s)
  <2>1. /\ t.act = "AGENT_PREPARING" /\ t.who \in Agents /\ t.side \in Sides /\ t.left \in 0..Total
        /\ t.speech = s.speech /\ t.begun = s.begun /\ t.start = s.start /\ t.used = s.used
        /\ t.settled = s.settled
    BY <1>2, <1>5 DEF ChoseAgent, Same, Charge0
  <2>3. At(t) = "AGENT_PREPARING"
    BY <1>3, <2>1 DEF At
  <2>4. TurnTyped(t)
    <3>2. t.act \in ActionStates
      BY <2>1, Kinds
    <3>. QED BY <1>3, <2>1, <3>2, Numbers DEF Typed, TurnTyped
  <2>5. Shape(t)
    BY <1>1, <1>3, <2>1, <2>3, Kinds DEF Shape
  <2>6. Times(t)
    BY <1>1, <1>3, <2>1, <2>3, Kinds DEF Times
  <2>. QED BY <2>4, <2>5, <2>6 DEF Typed
<1>6. CASE WaitsForHuman(t, s)
  <2>1. /\ t.act = "FREE_SELECTING" /\ t.who = s.who /\ t.side = s.side /\ t.left = s.left
        /\ t.speech = s.speech /\ t.begun = s.begun /\ t.start = s.start /\ t.used = s.used
        /\ t.settled = s.settled
    BY <1>6 DEF WaitsForHuman, Same, Charge0
  <2>3. At(t) = "FREE_SELECTING"
    BY <1>3, <2>1 DEF At
  <2>4. TurnTyped(t)
    <3>2. t.act \in ActionStates
      BY <2>1, Kinds
    <3>. QED BY <1>3, <2>1, <3>2, Numbers DEF Typed, TurnTyped
  <2>5. Shape(t)
    BY <1>1, <1>3, <2>1, <2>3, Kinds DEF Shape
  <2>6. Times(t)
    BY <1>1, <1>3, <2>1, <2>3, Kinds DEF Times
  <2>. QED BY <2>4, <2>5, <2>6 DEF Typed
<1>. QED BY <1>4, <1>5, <1>6 DEF Chose

\* The budgets after a turn.
LEMMA Rests ==
    ASSUME NEW s, s.budget \in [Sides -> 0..Total], s.side \in Sides, s.left \in -1..Total, NEW audio \in Nat
    PROVE  /\ Mine(s, audio) \in 0..Total /\ Theirs(s) \in 0..Total
           /\ s.settled => Mine(s, audio) = Usable(s.budget[s.side])
<1>1. s.budget[s.side] \in 0..Total /\ s.budget[Other(s.side)] \in 0..Total
  BY Numbers
<1>2. Charge(s, audio) \in Nat
  BY Numbers DEF Charge, AtLeastZero
<1>3. AtLeastZero(s.budget[s.side] - Charge(s, audio)) \in 0..Total
  BY <1>1, <1>2, Numbers DEF AtLeastZero
<1>4. s.settled => AtLeastZero(s.budget[s.side] - Charge(s, audio)) = s.budget[s.side]
  BY <1>1 DEF AtLeastZero, Charge
<1>. QED BY <1>1, <1>3, <1>4, Numbers DEF Mine, Theirs, Usable

\* _finish_free_turn
LEMMA TurnFinishedTyped ==
    ASSUME NEW s, Typed(s), s.status = "RUNNING", s.side \in Sides, NEW audio \in Nat,
           NEW t, ChoiceTyped(t), TurnFinished(t, s, audio)
    PROVE  Typed(t)
<1>1. /\ s.failed = 0 /\ s.op # "PENDING"
  BY DEF Typed, Shape
<1>2. Mine(s, audio) \in 0..Total /\ Theirs(s) \in 0..Total
  BY Rests DEF Typed, TurnTyped
<1>3. /\ t.status = s.status /\ t.from = s.from /\ t.issued = s.issued /\ t.begun = s.begun
      /\ t.failed = s.failed /\ t.op = s.op
  BY DEF TurnFinished, Same
<1>4. /\ t.start = NoTime /\ t.used = 0 /\ t.speech = 0 /\ t.act \in {"ACTION_FINISHED", "FREE_SELECTING"}
      /\ t.who = NoOne /\ t.side = NoSide /\ t.left = NoTime /\ t.clock = NoTime
  BY DEF TurnFinished
<1>5. t.settled = FALSE
  BY DEF TurnFinished
<1>6. t.budget \in [Sides -> 0..Total]
  <2>1. t.budget = [x \in Sides |-> IF x = s.side THEN Mine(s, audio) ELSE Theirs(s)]
    BY DEF TurnFinished
  <2>. QED BY <1>2, <2>1
<1>7. TurnTyped(t)
  <2>1. t.settled \in BOOLEAN
    BY <1>5
  <2>2. t.act \in ActionStates
    BY <1>4 DEF ActionStates
  <2>. QED BY <1>3, <1>4, <1>6, <2>1, <2>2, Numbers DEF Typed, TurnTyped
<1>8. At(t) = t.act
  BY <1>3 DEF At
<1>9. Shape(t)
  BY <1>1, <1>3, <1>4, <1>8, Kinds DEF Shape
<1>10. Times(t)
  BY <1>3, <1>4, <1>8, Kinds DEF Times
<1>. QED BY <1>7, <1>9, <1>10 DEF Typed

\* _freeze_speech_budget moves time from what is left to what is used.
LEMMA FrozenTimes ==
    ASSUME NEW s, Typed(s), NEW terminal \in BOOLEAN, NEW limit \in BOOLEAN,
           NEW f, Frozen(f, s, terminal, limit)
    PROVE  /\ f.left \in -1..Total /\ f.used \in 0..Total /\ f.budget \in [Sides -> 0..Total]
           /\ f.settled \in BOOLEAN
           /\ s.clock # NoTime => f.used + f.left <= Total /\ f.left # NoTime
           /\ s.left # NoTime /\ s.used + s.left <= Total => f.used + f.left <= Total /\ f.left # NoTime
<1>1. /\ s.left \in -1..Total /\ s.clock \in -1..Total /\ s.start \in -1..Total /\ s.used \in 0..Total
      /\ s.budget \in [Sides -> 0..Total] /\ s.settled \in BOOLEAN /\ s.side \in Sides \cup {NoSide}
      /\ s.clock # NoTime => s.clock <= s.left /\ s.used + s.left <= Total
  BY DEF Typed, TurnTyped, Times
<1>2. CASE ~Owes(s)
  BY <1>1, <1>2, Numbers DEF Frozen
<1>3. CASE Owes(s)
  <2>1. /\ f.left = Rest(s, limit) /\ f.used = Consumed(s, limit) /\ f.settled = terminal
        /\ f.budget = [s.budget EXCEPT ![s.side] = AtLeastZero(s.start - Consumed(s, limit))]
    BY <1>3 DEF Frozen
  <2>2. Rest(s, limit) \in 0..Total /\ (s.left >= 0 => Rest(s, limit) <= s.left)
    BY <1>1, Numbers DEF Rest, AtLeastZero, Smaller
  <2>3. /\ Consumed(s, limit) \in 0..Total
        /\ s.clock # NoTime => Consumed(s, limit) + Rest(s, limit) = s.used + s.left
        /\ s.clock = NoTime => Consumed(s, limit) = s.used
    BY <1>1, <2>2, Numbers DEF Consumed
  <2>4. AtLeastZero(s.start - Consumed(s, limit)) \in 0..Total
    BY <1>1, <2>3, Numbers DEF AtLeastZero
  <2>5. f.budget \in [Sides -> 0..Total]
    BY <1>1, <2>1, <2>4
  <2>6. f.settled \in BOOLEAN
    BY <2>1
  <2>7. s.left # NoTime /\ s.used + s.left <= Total => f.used + f.left <= Total
    <3>1. CASE s.clock # NoTime
      BY <1>1, <2>1, <2>2, <2>3, <3>1, Numbers
    <3>2. CASE s.clock = NoTime
      BY <1>1, <2>1, <2>2, <2>3, <3>2, Numbers
    <3>. QED BY <3>1, <3>2
  <2>8. s.clock # NoTime => f.used + f.left <= Total
    BY <1>1, <2>1, <2>2, <2>3, Numbers
  <2>. QED BY <2>1, <2>2, <2>3, <2>5, <2>6, <2>7, <2>8, Numbers
<1>. QED BY <1>2, <1>3

\* What a charge leaves alone.
LEMMA FreezeKeeps ==
    ASSUME NEW s, ChoiceTyped(s), NEW terminal \in BOOLEAN, NEW limit \in BOOLEAN
    PROVE  /\ Frozen(Freeze(s, terminal, limit), s, terminal, limit)
           /\ Same(Freeze(s, terminal, limit), s, Names \ {"left", "clock", "used", "settled", "budget"})
<1>1. DOMAIN s = Names
  BY DEF ChoiceTyped
<1>2. Frozen(Freeze(s, terminal, limit), s, terminal, limit)
  BY <1>1, Freezes
<1>. QED BY <1>2, FrozenTyped

\* _finish_speech
LEMMA SpeechFinishedTyped ==
    ASSUME NEW s, Typed(s), s.status = "RUNNING", s.act \in Speaking, NEW limit \in BOOLEAN,
           NEW t, ChoiceTyped(t), SpeechFinished(t, s, limit)
    PROVE  /\ Typed(t) /\ t.act \in Finalizing /\ t.status = "RUNNING" /\ t.speech = s.speech /\ t.src = s.src
           /\ t.failed = s.failed /\ t.issued = s.issued /\ t.clock = NoTime
<1>. DEFINE f == Freeze(s, TRUE, limit)
<1>1. ChoiceTyped(s) /\ s.failed = 0 /\ s.op # "PENDING" /\ At(s) = s.act /\ s.clock # NoTime
  BY DEF Typed, Shape, Times, At
<1>2. Frozen(f, s, TRUE, limit) /\ Same(f, s, Names \ {"left", "clock", "used", "settled", "budget"})
  BY <1>1, FreezeKeeps
<1>3. /\ f.left \in -1..Total /\ f.used \in 0..Total /\ f.budget \in [Sides -> 0..Total]
      /\ f.used + f.left <= Total /\ f.left # NoTime
  BY <1>1, <1>2, FrozenTimes, ZenonT(60)
<1>4. f.settled = TRUE
  <2>1. s.start # NoTime /\ ~s.settled /\ s.side \in Sides
    BY <1>1, Kinds DEF Typed, Times, Shape
  <2>2. Owes(s)
    BY <2>1, Numbers DEF Owes
  <2>. QED BY <1>2, <2>2 DEF Frozen
<1>5. /\ t.act = (IF s.act = "AGENT_SPEAKING" THEN "AGENT_FINALIZING" ELSE "SPEECH_FINALIZING")
      /\ t.begun = 0 /\ t.clock = NoTime
      /\ Same(t, f, Kept20)
  BY DEF SpeechFinished
<1>. HIDE DEF f
<1>6. /\ t.status = s.status /\ t.from = s.from /\ t.who = s.who /\ t.side = s.side
      /\ t.speech = s.speech /\ t.issued = s.issued /\ t.start = s.start /\ t.failed = s.failed /\ t.op = s.op
      /\ t.src = s.src
  BY <1>2, <1>5 DEF Same, Names, Kept20
<1>7. t.left = f.left /\ t.used = f.used /\ t.settled = f.settled /\ t.budget = f.budget
  BY <1>5 DEF Same, Kept20
<1>8. At(t) = t.act
  BY <1>6 DEF At
<1>9. t.act \in Finalizing /\ (t.act \in HumanTurn <=> s.act \in HumanTurn)
  BY <1>5 DEF Finalizing, Speaking, HumanTurn
<1>10. TurnTyped(t)
  <2>1. t.settled \in BOOLEAN
    BY <1>4, <1>7
  <2>2. t.act \in ActionStates
    BY <1>9, Kinds
  <2>. QED BY <1>3, <1>5, <1>6, <1>7, <2>1, <2>2, Numbers DEF Typed, TurnTyped
<1>11. Shape(t)
  <2>1. t.act \in HumanTurn => t.who \in Humans
    BY <1>1, <1>6, <1>9 DEF Typed, Shape
  <2>2. t.act \in AgentTurn => t.who \in Agents
    BY <1>1, <1>6, <1>9, Kinds DEF Typed, Shape
  <2>3. t.side \in Sides
    BY <1>1, <1>6, Kinds DEF Typed, Shape
  <2>. QED BY <1>1, <1>6, <1>8, <1>9, <2>1, <2>2, <2>3, Kinds DEF Shape
<1>12. Times(t)
  BY <1>1, <1>3, <1>4, <1>5, <1>6, <1>7, <1>8, <1>9, Kinds DEF Typed, Times
<1>. QED BY <1>5, <1>6, <1>9, <1>10, <1>11, <1>12 DEF Typed

\* StartSpeech: the speech is on the air.
LEMMA BegunTyped ==
    ASSUME NEW s, Typed(s), s.status = "RUNNING", NEW act, NEW speech \in Nat, NEW again \in BOOLEAN,
           \/ s.act = "HUMAN_READY_TO_START" /\ act = "HUMAN_SPEAKING" /\ (again <=> s.speech # 0)
           \/ s.act = "AGENT_PREPARING" /\ act = "AGENT_SPEAKING" /\ ~again,
           NEW g, ChoiceTyped(g), Begun(g, s, act, speech, again)
    PROVE  Typed(g)
<1>1. s.failed = 0 /\ s.op # "PENDING" /\ At(s) = s.act /\ s.issued \in Nat
  BY DEF Typed, Shape, At, TurnTyped
<1>2. /\ g.act = act /\ g.issued = s.issued + 1 /\ g.begun = s.issued + 1 /\ g.speech = speech
      /\ g.start = (IF again THEN s.start ELSE s.budget[s.side])
      /\ g.used = (IF again THEN s.used ELSE 0)
      /\ g.clock = TurnLeft(s) /\ g.left = TurnLeft(s)
  BY DEF Begun
<1>3. g.settled = FALSE
  BY DEF Begun
<1>4. /\ g.status = s.status /\ g.from = s.from /\ g.who = s.who /\ g.side = s.side
      /\ g.budget = s.budget /\ g.failed = s.failed /\ g.op = s.op
  BY DEF Begun, Same
<1>5. s.side \in Sides /\ s.budget[s.side] \in 0..Total /\ s.left \in -1..Total
  BY <1>1, Kinds DEF Typed, Shape, TurnTyped
<1>6. TurnLeft(s) \in 0..Total
  BY <1>5, Numbers DEF TurnLeft
<1>7. again => s.start # NoTime /\ s.left # NoTime /\ s.used + s.left <= Total
  BY <1>1, Kinds DEF Typed, Times
<1>8. At(g) = act /\ act \in Speaking
  BY <1>2, <1>4 DEF At, Speaking
<1>9. TurnTyped(g)
  <2>1. g.settled \in BOOLEAN
    BY <1>3
  <2>2. g.act \in ActionStates
    BY <1>2, <1>8, Kinds
  <2>3. g.start \in -1..Total /\ g.used \in 0..Total
    BY <1>2, <1>5, Numbers DEF Typed, TurnTyped
  <2>. QED BY <1>1, <1>2, <1>4, <1>6, <2>1, <2>2, <2>3, Numbers DEF Typed, TurnTyped
<1>10. Shape(g)
  <2>1. act \in HumanTurn => g.who \in Humans
    BY <1>1, <1>4, Kinds DEF Typed, Shape
  <2>2. act \in AgentTurn => g.who \in Agents
    BY <1>1, <1>4, Kinds DEF Typed, Shape
  <2>. QED BY <1>1, <1>2, <1>4, <1>5, <1>8, <2>1, <2>2, Kinds DEF Shape
<1>11. Times(g)
  <2>1. g.used + g.left <= Total /\ g.start # NoTime
    BY <1>2, <1>5, <1>6, <1>7, Numbers DEF TurnLeft, Typed, TurnTyped
  <2>. QED BY <1>1, <1>2, <1>3, <1>4, <1>6, <1>8, <2>1, Numbers, Kinds DEF Times
<1>. QED BY <1>9, <1>10, <1>11 DEF Typed

\* _match_pause
LEMMA PausedTyped ==
    ASSUME NEW s, Typed(s), s.status = "RUNNING", s.act \in Goes, NEW t, ChoiceTyped(t), Paused(t, s)
    PROVE  /\ Typed(t) /\ At(t) = s.act /\ t.speech = s.speech /\ t.src = s.src /\ t.failed = 0
           /\ t.issued = s.issued /\ t.clock = NoTime
<1>. DEFINE f == Freeze(s, FALSE, FALSE)
<1>1. ChoiceTyped(s) /\ s.failed = 0 /\ s.op # "PENDING" /\ At(s) = s.act
  BY DEF Typed, Shape, At
<1>2. Frozen(f, s, FALSE, FALSE) /\ Same(f, s, Names \ {"left", "clock", "used", "settled", "budget"})
  BY <1>1, FreezeKeeps
<1>3. /\ f.left \in -1..Total /\ f.used \in 0..Total /\ f.budget \in [Sides -> 0..Total]
      /\ f.settled \in BOOLEAN
      /\ s.left # NoTime /\ s.used + s.left <= Total => f.used + f.left <= Total /\ f.left # NoTime
  BY <1>2, FrozenTimes
<1>4. s.settled => f.settled = s.settled
  BY <1>2 DEF Frozen, Owes
<1>5. ~s.settled => f.settled = FALSE
  <2>1. CASE Owes(s)
    BY <1>2, <2>1 DEF Frozen
  <2>2. CASE ~Owes(s)
    <3>1. f = s
      BY <1>2, <2>2 DEF Frozen
    <3>2. s.settled \in BOOLEAN
      BY DEF Typed, TurnTyped
    <3>. QED BY <3>1, <3>2
  <2>. QED BY <2>1, <2>2
<1>6. /\ t.status = "PAUSED" /\ t.act = "RECOVERY_REQUIRED" /\ t.from = s.act /\ t.clock = NoTime
      /\ Same(t, f, {"who", "side", "speech", "issued", "begun", "left", "start", "used",
                     "settled", "budget", "failed", "op", "holder", "gen", "src"})
  BY DEF Paused
<1>. HIDE DEF f
<1>7. /\ t.who = s.who /\ t.side = s.side
      /\ t.speech = s.speech /\ t.issued = s.issued /\ t.start = s.start /\ t.failed = s.failed /\ t.op = s.op
      /\ t.src = s.src /\ t.begun = s.begun
  BY <1>2, <1>6 DEF Same, Names
<1>8. t.left = f.left /\ t.used = f.used /\ t.settled = f.settled /\ t.budget = f.budget
  BY <1>6 DEF Same
<1>9. At(t) = s.act
  BY <1>6 DEF At
<1>10. TurnTyped(t)
  <2>2. t.act \in ActionStates /\ t.from \in ActionStates \cup {"none"}
    BY <1>6, Kinds DEF ActionStates
  <2>. QED BY <1>3, <1>6, <1>7, <1>8, <2>2, Numbers DEF Typed, TurnTyped
<1>11. Shape(t)
  BY <1>1, <1>6, <1>7, <1>9, Kinds DEF Typed, Shape
<1>12. Times(t)
  BY <1>1, <1>3, <1>4, <1>5, <1>6, <1>7, <1>8, <1>9, Kinds DEF Typed, Times
<1>. QED BY <1>1, <1>6, <1>7, <1>9, <1>10, <1>11, <1>12 DEF Typed

\* _human_wait_timeout, _human_start_timeout
LEMMA TimedOutTyped ==
    ASSUME NEW s, Typed(s), s.status = "RUNNING", s.act \in Goes \ Speaking, NEW t, ChoiceTyped(t), HasTimedOut(t, s)
    PROVE  Typed(t)
<1>1. s.failed = 0 /\ s.op # "PENDING" /\ At(s) = s.act /\ s.clock = NoTime
  BY DEF Typed, Shape, At, Times
<1>2. /\ t.status = "PAUSED" /\ t.act = "RECOVERY_REQUIRED" /\ t.from = s.act
      /\ t.who = s.who /\ t.side = s.side /\ t.speech = s.speech /\ t.issued = s.issued /\ t.begun = s.begun
      /\ t.left = s.left /\ t.clock = s.clock /\ t.start = s.start /\ t.used = s.used
      /\ t.settled = s.settled /\ t.budget = s.budget /\ t.failed = s.failed /\ t.op = s.op
  BY DEF HasTimedOut, Same
<1>3. At(t) = s.act
  BY <1>2 DEF At
<1>4. TurnTyped(t)
  <2>2. t.act \in ActionStates /\ t.from \in ActionStates \cup {"none"}
    BY <1>2, Kinds DEF ActionStates
  <2>. QED BY <1>2, <2>2 DEF Typed, TurnTyped
<1>5. Shape(t)
  BY <1>1, <1>2, <1>3, Kinds DEF Typed, Shape
<1>6. Times(t)
  BY <1>1, <1>2, <1>3, Kinds DEF Typed, Times
<1>. QED BY <1>4, <1>5, <1>6 DEF Typed

\* handle_agent_failure
LEMMA AgentFailedTyped ==
    ASSUME NEW s, Typed(s), s.status = "RUNNING", s.act \in AgentTurn, NEW t, ChoiceTyped(t), AgentFailed(t, s)
    PROVE  Typed(t)
<1>1. s.failed = 0 /\ s.op # "PENDING" /\ At(s) = s.act
  BY DEF Typed, Shape, At
<1>2. /\ t.status = "ERROR" /\ t.act = "RECOVERY_REQUIRED" /\ t.from = "AGENT_PREPARING"
      /\ t.who = s.who /\ t.side = s.side /\ t.speech = s.speech /\ t.issued = s.issued /\ t.begun = s.begun
      /\ t.clock = NoTime /\ t.start = s.start /\ t.used = s.used
      /\ t.settled = s.settled /\ t.budget = s.budget /\ t.failed = s.failed /\ t.op = s.op
  BY DEF AgentFailed, Same
<1>3. At(t) = "AGENT_PREPARING"
  BY <1>2 DEF At
<1>4. TurnTyped(t)
  <2>1. t.left = IF s.clock = NoTime THEN s.left ELSE Smaller(s.left, s.clock)
    BY DEF AgentFailed
  <2>2. t.left \in -1..Total
    BY <2>1 DEF Typed, TurnTyped, Smaller
  <2>3. t.act \in ActionStates /\ t.from \in ActionStates \cup {"none"}
    BY <1>2, Kinds DEF ActionStates
  <2>. QED BY <1>2, <2>2, <2>3, Numbers DEF Typed, TurnTyped
<1>5. Shape(t)
  BY <1>1, <1>2, <1>3, Kinds DEF Typed, Shape
<1>6. Times(t)
  BY <1>1, <1>2, <1>3, Kinds DEF Typed, Times
<1>. QED BY <1>4, <1>5, <1>6 DEF Typed

\* Whose recognition may fail.
MayFail(s, speech) ==
    /\ speech \in Nat \ {0}
    /\ s.status = "RUNNING" => s.act \in Goes /\ s.op # "PENDING"
    /\ s.status # "RUNNING" => s.op = "PENDING" /\ speech = s.failed
    /\ speech = s.speech => At(s) \in {"HUMAN_SPEAKING", "SPEECH_FINALIZING"}

\* handle_asr_failure
LEMMA RecognitionFailedTyped ==
    ASSUME NEW s, Typed(s), NEW speech, MayFail(s, speech), NEW t, ChoiceTyped(t), RecognitionFailed(t, s, speech)
    PROVE  /\ Typed(t) /\ At(t) = At(s) /\ t.speech = s.speech /\ t.src = s.src /\ t.failed = speech
           /\ t.issued = s.issued /\ t.clock = NoTime
<1>. DEFINE f == Freeze(s, FALSE, FALSE)
<1>1. ChoiceTyped(s) /\ At(s) \in Goes
  BY DEF Typed, Shape, At, MayFail
<1>2. Frozen(f, s, FALSE, FALSE) /\ Same(f, s, Names \ {"left", "clock", "used", "settled", "budget"})
  BY <1>1, FreezeKeeps
<1>3. /\ f.left \in -1..Total /\ f.used \in 0..Total /\ f.budget \in [Sides -> 0..Total]
      /\ f.settled \in BOOLEAN
      /\ s.left # NoTime /\ s.used + s.left <= Total => f.used + f.left <= Total /\ f.left # NoTime
  BY <1>2, FrozenTimes
<1>4. s.settled => f.settled = s.settled
  BY <1>2 DEF Frozen, Owes
<1>5. ~s.settled => f.settled = FALSE
  <2>1. CASE Owes(s)
    BY <1>2, <2>1 DEF Frozen
  <2>2. CASE ~Owes(s)
    <3>1. f = s
      BY <1>2, <2>2 DEF Frozen
    <3>2. s.settled \in BOOLEAN
      BY DEF Typed, TurnTyped
    <3>. QED BY <3>1, <3>2
  <2>. QED BY <2>1, <2>2
<1>6. /\ t.status = "ERROR" /\ t.act = "RECOVERY_REQUIRED" /\ t.clock = NoTime /\ t.failed = speech
      /\ Same(t, f, {"who", "side", "speech", "issued", "begun", "left", "start", "used", "settled",
                     "budget", "holder", "opp", "gen", "src", "phase", "hands", "selLeft"})
  BY DEF RecognitionFailed
<1>. HIDE DEF f
<1>7. /\ t.who = s.who /\ t.side = s.side
      /\ t.speech = s.speech /\ t.issued = s.issued /\ t.start = s.start
      /\ t.src = s.src /\ t.begun = s.begun
  BY <1>2, <1>6 DEF Same, Names
<1>8. t.left = f.left /\ t.used = f.used /\ t.settled = f.settled /\ t.budget = f.budget
  BY <1>6 DEF Same
<1>9. t.from = At(s) /\ t.op # "PENDING" /\ t.op \in {"NONE", "SUCCEEDED", "FAILED", "RESET"}
  <2>1. CASE s.status = "RUNNING"
    BY <2>1 DEF RecognitionFailed, MayFail, At, Typed, TurnTyped
  <2>2. CASE s.status # "RUNNING"
    BY <2>2, Kinds DEF RecognitionFailed, MayFail, At, Typed, Shape
  <2>. QED BY <2>1, <2>2
<1>10. At(t) = At(s)
  BY <1>6, <1>9 DEF At
<1>11. TurnTyped(t)
  <2>2. t.act \in ActionStates /\ t.from \in ActionStates \cup {"none"}
    BY <1>1, <1>6, <1>9, Kinds DEF ActionStates
  <2>. QED BY <1>3, <1>6, <1>7, <1>8, <1>9, <2>2, Numbers DEF Typed, TurnTyped, MayFail
<1>12. Shape(t)
  <2>1. t.failed = t.speech => t.from \in {"HUMAN_SPEAKING", "SPEECH_FINALIZING"}
    BY <1>6, <1>7, <1>9 DEF MayFail
  <2>2. t.from \in Goes
    BY <1>1, <1>9
  <2>3. /\ At(t) \in Turn => t.side \in Sides
        /\ At(t) \in HumanTurn => t.who \in Humans
        /\ At(t) \in AgentTurn => t.who \in Agents
    BY <1>7, <1>10 DEF Typed, Shape
  <2>. QED BY <1>6, <1>9, <2>1, <2>2, <2>3 DEF Shape, MayFail
<1>13. Times(t)
  <2>1. /\ At(t) \in HumanTurn /\ t.speech # 0 => t.left # NoTime /\ t.used + t.left <= Total /\ t.start # NoTime
    BY <1>3, <1>7, <1>8, <1>10 DEF Typed, Times
  <2>2. At(t) \in Speaking => t.start # NoTime /\ ~t.settled
    BY <1>5, <1>7, <1>8, <1>10 DEF Typed, Times
  <2>3. At(t) \in Finalizing => t.settled
    BY <1>4, <1>7, <1>8, <1>10 DEF Typed, Times
  <2>. QED BY <1>6, <2>1, <2>2, <2>3 DEF Times
<1>. QED BY <1>6, <1>7, <1>10, <1>11, <1>12, <1>13 DEF Typed

\* _paused_recovery of a running selection
LEMMA RecoveringTyped ==
    ASSUME NEW s, Typed(s), s.status = "RUNNING", s.act = "FREE_SELECTING", s.clock = NoTime,
           NEW t, ChoiceTyped(t), Recovering(t, s, s.act)
    PROVE  Typed(t)
<1>1. s.failed = 0 /\ s.op # "PENDING"
  BY DEF Typed, Shape
<1>2. /\ t.status = "PAUSED" /\ t.act = "RECOVERY_REQUIRED" /\ t.from = s.act /\ t.speech = 0
      /\ t.who = s.who /\ t.side = s.side /\ t.issued = s.issued /\ t.begun = 0
      /\ t.left = s.left /\ t.clock = NoTime /\ t.start = s.start /\ t.used = s.used
      /\ t.settled = s.settled /\ t.budget = s.budget /\ t.failed = s.failed /\ t.op = s.op
  BY DEF Recovering, Same
<1>3. At(t) = "FREE_SELECTING"
  BY <1>2 DEF At
<1>4. TurnTyped(t)
  <2>2. t.act \in ActionStates /\ t.from \in ActionStates \cup {"none"}
    BY <1>2, Kinds DEF ActionStates
  <2>. QED BY <1>2, <2>2, Numbers DEF Typed, TurnTyped
<1>5. Shape(t)
  BY <1>1, <1>2, <1>3, Kinds DEF Typed, Shape
<1>6. Times(t)
  BY <1>1, <1>2, <1>3, Kinds DEF Typed, Times
<1>. QED BY <1>4, <1>5, <1>6 DEF Typed

\* _speech_reset
LEMMA WasResetTyped ==
    ASSUME NEW s, Typed(s), At(s) \in Turn, NEW operator \in BOOLEAN, s.op # "PENDING",
           operator \/ s.status = "RUNNING", NEW t, ChoiceTyped(t), WasReset(t, s, operator)
    PROVE  Typed(t) /\ At(t) = Again(s) /\ t.clock = NoTime
<1>1. s.side \in Sides /\ (s.who \in Humans <=> At(s) \in HumanTurn) /\ s.who \in Humans \cup Agents
  BY Kinds, Numbers DEF Typed, Shape
<1>2. Unspent(s) \in 0..Total
  BY <1>1, Numbers DEF Unspent, Typed, TurnTyped
<1>3. t.left \in 0..Total /\ t.budget \in [Sides -> 0..Total]
  <2>1. t.left = Smaller(MaxTurn, Unspent(s)) /\ t.budget = [s.budget EXCEPT ![s.side] = Unspent(s)]
    BY DEF WasReset
  <2>. QED BY <1>1, <1>2, <2>1, Numbers DEF Smaller, Typed, TurnTyped
<1>4. /\ t.speech = 0 /\ t.begun = 0 /\ t.start = NoTime /\ t.used = 0 /\ t.clock = NoTime
      /\ t.who = s.who /\ t.side = s.side /\ t.issued = s.issued
  BY DEF WasReset, Same
<1>5. t.settled = FALSE
  BY DEF WasReset
<1>6. /\ t.status \in {"RUNNING", "PAUSED"} /\ t.failed = 0 /\ t.op # "PENDING"
      /\ t.op \in {"NONE", "SUCCEEDED", "FAILED", "RESET"} /\ At(t) = Again(s)
      /\ t.status = "RUNNING" => t.act = Again(s) /\ t.from = s.from
      /\ t.status # "RUNNING" => t.act = "RECOVERY_REQUIRED" /\ t.from = Again(s)
  <2>1. CASE operator
    BY <2>1 DEF WasReset, At
  <2>2. CASE ~operator
    BY <2>2 DEF WasReset, At, Typed, TurnTyped, Shape
  <2>. QED BY <2>1, <2>2
<1>7. /\ Again(s) \in {"AGENT_PREPARING", "HUMAN_READY_TO_START"}
      /\ Again(s) = "AGENT_PREPARING" => s.who \in Agents
      /\ Again(s) = "HUMAN_READY_TO_START" => s.who \in Humans
  BY <1>1 DEF Again
<1>8. TurnTyped(t)
  <2>1. t.settled \in BOOLEAN
    BY <1>5
  <2>2. t.act \in ActionStates /\ t.from \in ActionStates \cup {"none"}
    BY <1>6, <1>7, Kinds DEF ActionStates, Typed, TurnTyped
  <2>. QED BY <1>3, <1>4, <1>6, <2>1, <2>2, Numbers DEF Typed, TurnTyped
<1>9. Shape(t)
  BY <1>1, <1>4, <1>6, <1>7, Kinds DEF Shape
<1>10. Times(t)
  BY <1>4, <1>6, <1>7, Kinds DEF Times
<1>. QED BY <1>4, <1>6, <1>8, <1>9, <1>10 DEF Typed

\* A crash loses the deadlines.
Lost(t, s) == t.clock = NoTime /\ Same(t, s, Names \ {"timer", "sel", "due", "ended", "wait", "ready", "clock"})

\* What is left of the match when the process ends.
LEMMA Loses ==
    ASSUME NEW s, ChoiceTyped(s),
           NEW t, t = [Cancel(s) EXCEPT !.sel = "none", !.due = "none", !.ended = FALSE, !.wait = "none",
                                        !.ready = "none", !.clock = NoTime]
    PROVE  ChoiceTyped(t) /\ Lost(t, s)
<1>. DEFINE c == Cancel(s)
            new == {"sel", "due", "ended", "wait", "ready", "clock"}
            choice == {"holder", "opp", "gen", "phase", "waiting", "hands", "open", "round", "dec",
                       "selLeft", "src", "issued"}
<1>1. DOMAIN s = Names
  BY DEF ChoiceTyped
<1>2. /\ DOMAIN c = Names /\ c.timer = NoTimer /\ Same(c, s, Names \ {"timer"})
  BY <1>1 DEF Cancel, Names, Same
<1>3. t = [c EXCEPT !.sel = "none", !.due = "none", !.ended = FALSE, !.wait = "none",
                                        !.ready = "none", !.clock = NoTime]
  OBVIOUS
<1>. HIDE DEF c
<1>4. DOMAIN t = Names /\ t.sel = "none" /\ t.due = "none" /\ t.wait = "none" /\ t.ready = "none"
  <2>1. DOMAIN t = Names
    BY <1>2, <1>3
  <2>4. t.sel = "none"
    BY <1>2, <1>3 DEF Names
  <2>5. t.due = "none"
    BY <1>2, <1>3 DEF Names
  <2>2. t.wait = "none"
    BY <1>2, <1>3 DEF Names
  <2>3. t.ready = "none"
    BY <1>2, <1>3 DEF Names
  <2>. QED BY <2>1, <2>2, <2>3, <2>4, <2>5
<1>5. t.clock = NoTime
  BY <1>2, <1>3 DEF Names
<1>6. t.ended = FALSE
  BY <1>2, <1>3 DEF Names
<1>7. Same(t, c, Names \ new)
  BY <1>2, <1>3 DEF Names, Same
<1>8. Same(t, s, Names \ {"timer", "sel", "due", "ended", "wait", "ready", "clock"}) /\ t.timer = NoTimer
  BY <1>2, <1>7 DEF Names, Same
<1>9. ChoiceTyped(t)
  <2>1. t.timer.cmd = "none" /\ t.timer.start = 0
    BY <1>8 DEF NoTimer
  <2>2. Same(t, s, choice)
    BY <1>8 DEF Same, Names
  <2>3. t.ended \in BOOLEAN
    BY <1>6
  <2>4. /\ t.holder = s.holder /\ t.opp = s.opp /\ t.gen = s.gen /\ t.src = s.src /\ t.phase = s.phase
        /\ t.hands = s.hands /\ t.round = s.round /\ t.waiting = s.waiting /\ t.open = s.open
        /\ t.dec = s.dec /\ t.selLeft = s.selLeft /\ t.issued = s.issued
    BY <2>2 DEF Same
  <2>. QED BY <1>4, <2>1, <2>3, <2>4 DEF ChoiceTyped
<1>. QED BY <1>5, <1>8, <1>9 DEF Lost

\* The deadlines of a match that had stopped are lost.
LEMMA LostTyped ==
    ASSUME NEW s, Typed(s), s.status # "RUNNING", NEW t, ChoiceTyped(t), Lost(t, s)
    PROVE  Typed(t) /\ Same(t, s, TurnFields)
<1>1. s.clock = NoTime
  BY DEF Typed, Times
<1>2. Same(t, s, TurnFields)
  BY <1>1 DEF Lost, Same, Names, TurnFields
<1>. QED BY <1>2, SameTurn

\* _system_recover
LEMMA RecoveredTyped ==
    ASSUME NEW s, Typed(s), s.act # "ACTION_FINISHED", s.status = "RUNNING" \/ s.failed # 0,
           NEW u, Lost(u, s), NEW t, ChoiceTyped(t), Recovered(t, u)
    PROVE  /\ Typed(t) /\ t.src = s.src /\ t.failed = s.failed /\ t.clock = NoTime /\ t.issued = s.issued
           /\ s.failed = 0 => At(t) \notin OnAir
           /\ s.failed # 0 => At(t) = At(s) /\ t.speech = s.speech
<1>1. /\ u.clock = NoTime /\ u.status = s.status /\ u.act = s.act /\ u.from = s.from /\ u.who = s.who
      /\ u.side = s.side /\ u.speech = s.speech /\ u.issued = s.issued /\ u.begun = s.begun /\ u.left = s.left
      /\ u.start = s.start /\ u.used = s.used /\ u.settled = s.settled /\ u.budget = s.budget
      /\ u.failed = s.failed /\ u.op = s.op /\ u.src = s.src
  BY DEF Lost, Same, Names
<1>2. /\ t.act = "RECOVERY_REQUIRED" /\ t.issued = s.issued /\ t.clock = NoTime /\ t.start = s.start
      /\ t.used = s.used /\ t.settled = s.settled /\ t.budget = s.budget /\ t.failed = s.failed
      /\ t.src = s.src
  BY <1>1 DEF Recovered, Same
<1>3. t.act \in ActionStates
  BY <1>2 DEF ActionStates
<1>4. CASE s.failed # 0
  <2>1. /\ t.status = "ERROR" /\ t.op = (IF s.op = "PENDING" THEN "FAILED" ELSE s.op)
        /\ t.from = s.from /\ t.who = s.who /\ t.side = s.side /\ t.speech = s.speech
        /\ t.begun = s.begun /\ t.left = s.left
    BY <1>1, <1>4 DEF Recovered, Same
  <2>2. s.status = "ERROR" /\ s.act = "RECOVERY_REQUIRED" /\ At(t) = At(s) /\ At(s) = s.from
    BY <1>4, <2>1 DEF Typed, Shape, At
  <2>3. TurnTyped(t)
    BY <1>2, <1>3, <2>1, Numbers DEF Typed, TurnTyped
  <2>4. Shape(t)
    BY <1>2, <1>4, <2>1, <2>2 DEF Typed, Shape
  <2>5. Times(t)
    BY <1>2, <2>1, <2>2 DEF Typed, Times
  <2>. QED BY <1>2, <1>4, <2>1, <2>2, <2>3, <2>4, <2>5 DEF Typed
<1>5. CASE s.failed = 0
  <2>1. /\ t.status = "SYSTEM_RECOVERY" /\ t.speech = 0 /\ t.begun = 0 /\ t.op = s.op
        /\ t.who = (IF s.act = "FREE_SELECTING" THEN NoOne ELSE s.who)
        /\ t.side = (IF s.act = "FREE_SELECTING" THEN NoSide ELSE s.side)
        /\ t.left = (IF s.act = "FREE_SELECTING" THEN NoTime ELSE Total)
        /\ t.from = (IF s.act \in {"FREE_SELECTING", "HOST_ANNOUNCING"} THEN s.act
                     ELSE IF s.who \in Agents THEN "AGENT_PREPARING" ELSE "HUMAN_READY_TO_START")
    BY <1>1, <1>5 DEF Recovered, RecoveredFrom
  <2>2. s.status = "RUNNING" /\ s.act \in Goes /\ At(s) = s.act /\ At(t) = t.from /\ s.op # "PENDING"
    BY <1>5, <2>1 DEF Typed, Shape, At
  <2>3. \/ s.act \in {"FREE_SELECTING", "HOST_ANNOUNCING"} /\ t.from = s.act
        \/ s.act \in Turn /\ s.who \in Agents /\ t.from = "AGENT_PREPARING"
        \/ s.act \in Turn /\ s.who \in Humans /\ t.from = "HUMAN_READY_TO_START"
    <3>1. s.act \in Turn => s.who \in Humans \cup Agents
      BY <2>2, Kinds DEF Typed, Shape
    <3>2. s.act \in Turn \/ s.act \in {"FREE_SELECTING", "HOST_ANNOUNCING"}
      BY <2>2 DEF Goes
    <3>3. s.act \in Turn => s.act \notin {"FREE_SELECTING", "HOST_ANNOUNCING"}
      BY Kinds
    <3>. QED BY <2>1, <3>1, <3>2, <3>3
  <2>4. s.act \in Turn => s.side \in Sides /\ t.side = s.side /\ t.who = s.who
    BY <2>1, <2>2, Kinds DEF Typed, Shape
  <2>5. t.from \in Goes /\ t.from \notin OnAir
    BY <2>3, Kinds
  <2>6. TurnTyped(t)
    <3>1. t.from \in ActionStates
      BY <2>5, Kinds
    <3>2. t.left \in -1..Total /\ t.who \in Humans \cup Agents \cup {NoOne} /\ t.side \in Sides \cup {NoSide}
      BY <2>1, Numbers DEF Typed, TurnTyped
    <3>. QED BY <1>2, <1>3, <2>1, <3>1, <3>2, Numbers DEF Typed, TurnTyped
  <2>7. Shape(t)
    BY <1>2, <1>5, <2>1, <2>2, <2>3, <2>4, <2>5, Kinds DEF Shape
  <2>8. Times(t)
    BY <1>2, <2>1, <2>2, <2>5, Kinds DEF Times
  <2>. QED BY <1>2, <1>5, <2>2, <2>5, <2>6, <2>7, <2>8 DEF Typed
<1>. QED BY <1>4, <1>5

\* match.resume
LEMMA ResumingTyped ==
    ASSUME NEW s, Typed(s), s.status # "RUNNING", s.failed = 0, NEW t, ChoiceTyped(t), Resuming(t, s)
    PROVE  Typed(t) /\ At(t) = At(s) /\ t.clock = NoTime
<1>1. /\ t.status = "PAUSED" /\ t.act = "RESUME_COUNTDOWN" /\ t.from = s.from
      /\ t.who = s.who /\ t.side = s.side /\ t.speech = s.speech /\ t.issued = s.issued /\ t.begun = s.begun
      /\ t.left = s.left /\ t.clock = s.clock /\ t.start = s.start /\ t.used = s.used
      /\ t.settled = s.settled /\ t.budget = s.budget /\ t.failed = s.failed /\ t.op = s.op
  BY DEF Resuming, Same, Names
<1>2. At(t) = At(s) /\ At(s) = s.from /\ t.act \in ActionStates /\ s.clock = NoTime
  BY <1>1 DEF At, ActionStates, Typed, Times
<1>3. TurnTyped(t)
  BY <1>1, <1>2 DEF Typed, TurnTyped
<1>4. Shape(t)
  BY <1>1, <1>2 DEF Typed, Shape
<1>5. Times(t)
  BY <1>1, <1>2 DEF Typed, Times
<1>. QED BY <1>1, <1>2, <1>3, <1>4, <1>5 DEF Typed

\* _resume_elapsed
LEMMA ResumedTyped ==
    ASSUME NEW s, Typed(s), s.status = "PAUSED", NEW t, ChoiceTyped(t), IsResumed(t, s)
    PROVE  /\ Typed(t) /\ t.src = s.src /\ t.failed = 0 /\ t.issued = s.issued /\ t.clock = NoTime
           /\ t.act \in Goes \ OnAir
<1>1. /\ s.failed = 0 /\ s.op # "PENDING" /\ s.from \in Goes /\ At(s) = s.from
  BY DEF Typed, Shape, At
<1>2. /\ t.status = "RUNNING" /\ t.from = "none" /\ t.clock = NoTime
      /\ t.who = s.who /\ t.side = s.side /\ t.issued = s.issued /\ t.begun = s.begun
      /\ t.left = s.left /\ t.start = s.start /\ t.used = s.used
      /\ t.settled = s.settled /\ t.budget = s.budget /\ t.failed = s.failed /\ t.op = s.op /\ t.src = s.src
  BY DEF IsResumed, Same, Kept13
<1>3. \/ t.act = "FREE_SELECTING" /\ t.speech = s.speech
      \/ t.act = "HUMAN_READY_TO_START" /\ s.from \in HumanTurn /\ t.speech = s.speech
      \/ t.act = "AGENT_PREPARING" /\ s.from \in AgentTurn /\ t.speech = 0
      \/ t.act \in {"AGENT_PREPARING", "HOST_ANNOUNCING"} /\ t.act = s.from /\ t.speech = s.speech
  BY DEF IsResumed, Same
<1>4. At(t) = t.act
  BY <1>2 DEF At
<1>5. TurnTyped(t)
  <2>1. t.act \in ActionStates
    BY <1>3 DEF ActionStates
  <2>2. t.speech \in Nat
    BY <1>3 DEF Typed, TurnTyped
  <2>. QED BY <1>2, <2>1, <2>2, Numbers DEF Typed, TurnTyped
<1>6. t.act \in Goes \ OnAir
  BY <1>3, Kinds
<1>7. Shape(t)
  <2>1. t.act \in Turn => s.side \in Sides
    BY <1>1, <1>3, Kinds DEF Typed, Shape
  <2>2. t.act \in HumanTurn => s.who \in Humans
    BY <1>1, <1>3, Kinds DEF Typed, Shape
  <2>3. t.act \in AgentTurn => s.who \in Agents
    BY <1>1, <1>3, Kinds DEF Typed, Shape
  <2>. QED BY <1>1, <1>2, <1>4, <1>6, <2>1, <2>2, <2>3 DEF Shape
<1>8. Times(t)
  <2>1. t.act \in HumanTurn /\ t.speech # 0 => s.left # NoTime /\ s.used + s.left <= Total /\ s.start # NoTime
    BY <1>1, <1>3, Kinds DEF Typed, Times
  <2>. QED BY <1>2, <1>4, <1>6, <2>1, Kinds DEF Times
<1>. QED BY <1>1, <1>2, <1>5, <1>6, <1>7, <1>8 DEF Typed

\* _asr_finalized of a retried recognition
LEMMA RetriedTyped ==
    ASSUME NEW s, Typed(s), s.op = "PENDING", NEW audio \in Nat, NEW t, ChoiceTyped(t), Retried(t, s, audio)
    PROVE  /\ Typed(t) /\ t.src = s.src /\ t.failed = 0 /\ t.issued = s.issued /\ t.clock = NoTime
           /\ s.failed = s.speech => At(t) \in {"ACTION_FINISHED", "FREE_SELECTING"}
           /\ s.failed # s.speech => At(t) = At(s) /\ t.speech = s.speech
<1>1. /\ s.failed # 0 /\ s.status = "ERROR" /\ s.act = "RECOVERY_REQUIRED" /\ s.from \in Goes
      /\ At(s) = s.from /\ s.clock = NoTime
  BY DEF Typed, Shape, At, Times
<1>2. CASE s.speech # s.failed
  <2>1. /\ t.status = "PAUSED" /\ t.act = "RECOVERY_REQUIRED" /\ t.failed = 0 /\ t.op = "SUCCEEDED"
        /\ t.from = s.from /\ t.who = s.who /\ t.side = s.side /\ t.speech = s.speech /\ t.issued = s.issued
        /\ t.begun = s.begun /\ t.left = s.left /\ t.clock = s.clock /\ t.start = s.start /\ t.used = s.used
        /\ t.settled = s.settled /\ t.budget = s.budget /\ t.src = s.src
    BY <1>2 DEF Retried, Same, Names
  <2>2. At(t) = s.from /\ t.act \in ActionStates
    BY <2>1 DEF At, ActionStates
  <2>3. TurnTyped(t)
    BY <2>1, <2>2 DEF Typed, TurnTyped
  <2>4. Shape(t)
    BY <1>1, <2>1, <2>2 DEF Typed, Shape
  <2>5. Times(t)
    BY <1>1, <2>1, <2>2 DEF Typed, Times
  <2>. QED BY <1>1, <1>2, <2>1, <2>2, <2>3, <2>4, <2>5 DEF Typed
<1>3. CASE s.speech = s.failed
  <2>1. PICK u, turn : /\ ChoiceTyped(u) /\ Retrying(u, s) /\ ChoiceTyped(turn) /\ TurnFinished(turn, u, audio)
                       /\ IF turn.act = "ACTION_FINISHED" THEN t = turn ELSE Recovering(t, turn, turn.act)
    BY <1>3 DEF Retried
  <2>2. /\ u.status = "RUNNING" /\ u.act = "SPEECH_FINALIZING" /\ u.failed = 0 /\ u.op = "SUCCEEDED"
        /\ u.from = s.from /\ u.who = s.who /\ u.side = s.side /\ u.speech = s.speech /\ u.issued = s.issued
        /\ u.begun = s.begun /\ u.left = s.left /\ u.clock = s.clock /\ u.start = s.start /\ u.used = s.used
        /\ u.settled = s.settled /\ u.budget = s.budget /\ u.src = s.src
    BY <2>1 DEF Retrying, Same, Names
  <2>3. /\ s.side \in Sides /\ s.left \in -1..Total /\ s.budget \in [Sides -> 0..Total]
        /\ s.from \in {"HUMAN_SPEAKING", "SPEECH_FINALIZING"}
    BY <1>1, <1>3, Kinds DEF Typed, Shape, TurnTyped, Turn, HumanTurn
  <2>4. /\ turn.status = "RUNNING" /\ turn.failed = 0 /\ turn.op = "SUCCEEDED" /\ turn.from = s.from
        /\ turn.issued = s.issued /\ turn.begun = s.begun /\ turn.src = s.src
    BY <2>1, <2>2 DEF TurnFinished, Same
  <2>5. /\ turn.start = NoTime /\ turn.used = 0 /\ turn.speech = 0
        /\ turn.act \in {"ACTION_FINISHED", "FREE_SELECTING"}
        /\ turn.who = NoOne /\ turn.side = NoSide /\ turn.left = NoTime /\ turn.clock = NoTime
    BY <2>1 DEF TurnFinished
  <2>6. turn.settled = FALSE
    BY <2>1 DEF TurnFinished
  <2>7. turn.budget \in [Sides -> 0..Total]
    <3>1. Mine(u, audio) \in 0..Total /\ Theirs(u) \in 0..Total
      BY <2>2, <2>3, Rests
    <3>2. turn.budget = [x \in Sides |-> IF x = u.side THEN Mine(u, audio) ELSE Theirs(u)]
      BY <2>1 DEF TurnFinished
    <3>. QED BY <3>1, <3>2
  <2>8. TurnTyped(turn)
    <3>1. turn.settled \in BOOLEAN
      BY <2>6
    <3>2. turn.act \in ActionStates
      BY <2>5 DEF ActionStates
    <3>. QED BY <2>4, <2>5, <2>7, <3>1, <3>2, Numbers DEF Typed, TurnTyped
  <2>9. At(turn) = turn.act
    BY <2>4 DEF At
  <2>10. Shape(turn) /\ Times(turn)
    BY <2>4, <2>5, <2>9, Kinds DEF Shape, Times
  <2>11. Typed(turn)
    BY <2>1, <2>8, <2>10 DEF Typed
  <2>12. CASE turn.act = "ACTION_FINISHED"
    <3>1. t = turn
      BY <2>1, <2>12
    <3>. QED BY <1>3, <2>4, <2>5, <2>9, <2>11, <2>12, <3>1
  <2>13. CASE turn.act # "ACTION_FINISHED"
    <3>1. Recovering(t, turn, turn.act) /\ turn.act = "FREE_SELECTING"
      BY <2>1, <2>5, <2>13
    <3>2. Typed(t)
      BY <2>4, <2>5, <2>11, <3>1, RecoveringTyped
    <3>3. /\ t.status = "PAUSED" /\ t.from = "FREE_SELECTING" /\ t.clock = NoTime /\ t.src = turn.src
          /\ t.failed = turn.failed /\ t.issued = turn.issued
      BY <3>1 DEF Recovering, Same
    <3>4. At(t) = "FREE_SELECTING"
      BY <3>3 DEF At
    <3>. QED BY <1>3, <2>4, <3>2, <3>3, <3>4
  <2>. QED BY <2>12, <2>13
<1>. QED BY <1>2, <1>3

-----------------------------------------------------------------------------
(* The operations that are not handlers of their own *)

\* The window after a turn: who has the floor, or the match selects.
LEMMA SelectedTyped ==
    ASSUME NEW s, Typed(s), s.status = "RUNNING", s.act = "FREE_SELECTING",
           NEW t, ChoiceTyped(t), Selected(t, s)
    PROVE  /\ Typed(t) /\ t.status = "RUNNING" /\ t.act \in Goes \ OnAir /\ t.clock = NoTime
           /\ t.issued = s.issued /\ t.src = s.src /\ t.failed = s.failed
<1>1. s.act \notin Speaking /\ s.clock = NoTime
  BY DEF Typed, Times, Speaking
<1>2. CASE Same(t, s, TurnFields \cup {"holder", "opp", "gen", "src", "hands", "phase"}) \/ WaitsForModel(t, s)
  <2>1. Same(t, s, TurnFields \cup {"src"})
    BY <1>2 DEF Same, WaitsForModel
  <2>2. /\ t.status = s.status /\ t.act = s.act /\ t.clock = s.clock /\ t.issued = s.issued
        /\ t.src = s.src /\ t.failed = s.failed /\ Same(t, s, TurnFields)
    BY <2>1 DEF Same, TurnFields
  <2>3. Typed(t)
    BY <2>2, SameTurn
  <2>. QED BY <1>1, <2>2, <2>3, Kinds
<1>3. CASE Chose(t, s)
  <2>1. Typed(t)
    BY <1>1, <1>3, ChoseTyped
  <2>2. /\ t.status = s.status /\ t.clock = s.clock /\ t.issued = s.issued /\ t.src = s.src
        /\ t.failed = s.failed /\ t.act \in {"HUMAN_READY_TO_START", "AGENT_PREPARING", "FREE_SELECTING"}
    BY <1>3 DEF Chose, ChoseHuman, ChoseAgent, WaitsForHuman, Same, Unchosen
  <2>. QED BY <1>1, <2>1, <2>2, Kinds
<1>. QED BY <1>2, <1>3 DEF Selected

\* A turn that paid for itself does not end the action while a side can speak.
LEMMA GoesOn ==
    ASSUME NEW s, s.budget \in [Sides -> 0..Total], s.side \in Sides, s.left \in -1..Total, s.settled, ~Poor(s),
           NEW t, TurnFinished(t, s, 0)
    PROVE  t.act = "FREE_SELECTING"
<1>1. PICK side \in Sides : ~(s.budget[side] < Minimum)
  BY DEF Poor
<1>2. s.budget[side] \in 0..Total /\ (side = s.side \/ side = Other(s.side))
  BY Numbers
<1>3. Usable(s.budget[side]) # 0
  BY <1>1, <1>2, Numbers DEF Usable
<1>4. Mine(s, 0) = Usable(s.budget[s.side]) /\ Theirs(s) = Usable(s.budget[Other(s.side)])
  BY Rests DEF Theirs
<1>5. Mine(s, 0) # 0 \/ Theirs(s) # 0
  BY <1>2, <1>3, <1>4
<1>. QED BY <1>5 DEF TurnFinished

\* _hand_window_closed
LEMMA ClosedTyped ==
    ASSUME NEW s, Typed(s), s.status = "RUNNING", NEW t, ChoiceTyped(t), IsClosed(t, s)
    PROVE  /\ Typed(t) /\ t.status = "RUNNING" /\ t.issued = s.issued /\ t.src = s.src /\ t.failed = s.failed
           /\ \/ t.act \in Goes \ OnAir /\ t.clock = NoTime
              \/ Same(t, s, TurnFields) /\ (t = s \/ s.act \notin Speaking)
<1>1. CASE t = s
  BY <1>1 DEF Same
<1>2. CASE s.act = "FREE_SELECTING" /\ Selected(t, s)
  BY <1>2, SelectedTyped
<1>3. CASE s.act \in Finalizing /\ GivenUp(t, s)
  <2>1. Same(t, s, TurnFields \cup {"src"})
    BY <1>3 DEF GivenUp, Same
  <2>2. t.status = s.status /\ t.issued = s.issued /\ t.src = s.src /\ t.failed = s.failed /\ Same(t, s, TurnFields)
    BY <2>1 DEF Same, TurnFields
  <2>. QED BY <1>3, <2>2, SameTurn, Kinds
<1>4. CASE s.act \in Finalizing /\ ~Poor(s) /\ \E r : /\ ChoiceTyped(r) /\ TurnFinished(r, s, 0)
                 /\ IF r.act = "FREE_SELECTING" THEN Selected(t, r) ELSE t = r
  <2>1. PICK r : /\ ChoiceTyped(r) /\ TurnFinished(r, s, 0)
                 /\ IF r.act = "FREE_SELECTING" THEN Selected(t, r) ELSE t = r
    BY <1>4
  <2>2. At(s) = s.act /\ s.settled /\ s.side \in Sides /\ s.budget \in [Sides -> 0..Total] /\ s.left \in -1..Total
    BY <1>4, Kinds DEF Typed, Times, Shape, TurnTyped, At
  <2>3. r.act = "FREE_SELECTING"
    BY <1>4, <2>1, <2>2, GoesOn
  <2>4. Typed(r)
    BY <2>1, <2>2, TurnFinishedTyped
  <2>5. r.status = s.status /\ r.issued = s.issued /\ r.src = s.src /\ r.failed = s.failed
    BY <2>1 DEF TurnFinished, Same
  <2>. QED BY <2>1, <2>3, <2>4, <2>5, SelectedTyped
<1>. QED BY <1>1, <1>2, <1>3, <1>4 DEF IsClosed

\* A deadline passed, or a timer fired.
Touched(t, s) == Same(t, s, Names \ {"timer", "due", "sel", "wait", "ready"})

\* _hand_window_closed, _human_wait_timeout and _human_start_timeout are queued.
LEMMA Fires ==
    ASSUME NEW s, ChoiceTyped(s), s.timer.cmd # "none", NEW t,
           t = CASE s.timer.cmd = "hand.window_closed" ->
                   [Cancel(s) EXCEPT !.due = IF s.sel = "due" THEN "passed" ELSE @,
                                     !.sel = IF @ = "none" THEN @ ELSE "passed"]
              [] s.timer.cmd = "human.wait_timeout" ->
                   [Cancel(s) EXCEPT !.wait = IF @ = "none" THEN @ ELSE "passed"]
              [] s.timer.cmd = "human.start_timeout" ->
                   [Cancel(s) EXCEPT !.ready = IF @ = "none" THEN @ ELSE "passed"]
              [] OTHER -> Cancel(s)
    PROVE  ChoiceTyped(t) /\ Touched(t, s)
<1>. DEFINE c == Cancel(s)
            due == IF s.sel = "due" THEN "passed" ELSE s.due
            sel == IF s.sel = "none" THEN s.sel ELSE "passed"
            wait == IF s.wait = "none" THEN s.wait ELSE "passed"
            ready == IF s.ready = "none" THEN s.ready ELSE "passed"
<1>1. DOMAIN s = Names
  BY DEF ChoiceTyped
<1>2. /\ DOMAIN c = Names /\ c.timer = NoTimer /\ Same(c, s, Names \ {"timer"})
  BY <1>1 DEF Cancel, Names, Same
<1>3. c.due = s.due /\ c.sel = s.sel /\ c.wait = s.wait /\ c.ready = s.ready
  BY <1>2 DEF Same, Names
<1>4. \/ t = [c EXCEPT !.due = due, !.sel = sel]
      \/ t = [c EXCEPT !.wait = wait] \/ t = [c EXCEPT !.ready = ready] \/ t = c
  <2>1. \/ t = [c EXCEPT !.due = IF s.sel = "due" THEN "passed" ELSE @, !.sel = IF @ = "none" THEN @ ELSE "passed"]
        \/ t = [c EXCEPT !.wait = IF @ = "none" THEN @ ELSE "passed"]
        \/ t = [c EXCEPT !.ready = IF @ = "none" THEN @ ELSE "passed"] \/ t = c
    BY Zenon
  <2>2. [c EXCEPT !.due = IF s.sel = "due" THEN "passed" ELSE @, !.sel = IF @ = "none" THEN @ ELSE "passed"]
          = [c EXCEPT !.due = due, !.sel = sel]
    BY <1>2, <1>3 DEF Names
  <2>3. [c EXCEPT !.wait = IF @ = "none" THEN @ ELSE "passed"] = [c EXCEPT !.wait = wait]
    BY <1>2, <1>3 DEF Names
  <2>4. [c EXCEPT !.ready = IF @ = "none" THEN @ ELSE "passed"] = [c EXCEPT !.ready = ready]
    BY <1>2, <1>3 DEF Names
  <2>. QED BY <2>1, <2>2, <2>3, <2>4
<1>5. /\ due \in {"none", "open", "passed", "tied"} /\ sel \in {"none", "passed"}
      /\ wait \in {"none", "passed"} /\ ready \in {"none", "passed"}
  BY DEF ChoiceTyped
<1>6. NoTimer.cmd = "none" /\ NoTimer.start = 0
  BY DEF NoTimer
<1>. HIDE DEF c, due, sel, wait, ready
<1>7. /\ DOMAIN t = Names /\ t.timer = NoTimer /\ Same(t, c, Names \ {"timer", "due", "sel", "wait", "ready"})
      /\ t.due \in {c.due, due} /\ t.sel \in {c.sel, sel} /\ t.wait \in {c.wait, wait}
      /\ t.ready \in {c.ready, ready}
  <2>1. CASE t = [c EXCEPT !.due = due, !.sel = sel]
    <3>1. DOMAIN t = Names /\ t.due = due /\ t.sel = sel /\ Same(t, c, Names \ {"due", "sel"})
      BY <1>2, <2>1 DEF Names, Same
    <3>. QED BY <1>2, <3>1 DEF Names, Same
  <2>2. CASE t = [c EXCEPT !.wait = wait]
    <3>1. DOMAIN t = Names /\ t.wait = wait /\ Same(t, c, Names \ {"wait"})
      BY <1>2, <2>2 DEF Names, Same
    <3>. QED BY <1>2, <3>1 DEF Names, Same
  <2>3. CASE t = [c EXCEPT !.ready = ready]
    <3>1. DOMAIN t = Names /\ t.ready = ready /\ Same(t, c, Names \ {"ready"})
      BY <1>2, <2>3 DEF Names, Same
    <3>. QED BY <1>2, <3>1 DEF Names, Same
  <2>4. CASE t = c
    BY <1>2, <2>4 DEF Same
  <2>. QED BY <1>4, <2>1, <2>2, <2>3, <2>4
<1>9. Touched(t, s)
  BY <1>2, <1>7 DEF Touched, Same, Names
<1>10. ChoiceTyped(t)
  <2>1. /\ t.holder = s.holder /\ t.opp = s.opp /\ t.gen = s.gen /\ t.src = s.src /\ t.phase = s.phase
        /\ t.hands = s.hands /\ t.round = s.round /\ t.waiting = s.waiting /\ t.open = s.open
        /\ t.ended = s.ended /\ t.dec = s.dec /\ t.selLeft = s.selLeft /\ t.issued = s.issued
    BY <1>9, ZenonT(60) DEF Touched, Same, Names
  <2>. QED BY <1>3, <1>5, <1>6, <1>7, <2>1, SMTT(60) DEF ChoiceTyped
<1>. QED BY <1>9, <1>10

\* The decision deadline passes.
LEMMA DuePasses ==
    ASSUME NEW s, ChoiceTyped(s), NEW t, t = [s EXCEPT !.due = "passed"]
    PROVE  ChoiceTyped(t) /\ Touched(t, s)
<1>1. DOMAIN s = Names
  BY DEF ChoiceTyped
<1>2. DOMAIN t = Names /\ t.due = "passed" /\ Same(t, s, Names \ {"due"})
  BY <1>1 DEF Names, Same
<1>3. ChoiceTyped(t)
  <2>1. /\ t.holder = s.holder /\ t.opp = s.opp /\ t.gen = s.gen /\ t.src = s.src /\ t.phase = s.phase
        /\ t.hands = s.hands /\ t.round = s.round /\ t.waiting = s.waiting /\ t.open = s.open
        /\ t.ended = s.ended /\ t.dec = s.dec /\ t.selLeft = s.selLeft /\ t.issued = s.issued
        /\ t.sel = s.sel /\ t.wait = s.wait /\ t.ready = s.ready /\ t.timer = s.timer
    BY <1>2 DEF Same, Names
  <2>. QED BY <1>2, <2>1 DEF ChoiceTyped
<1>. QED BY <1>2, <1>3 DEF Touched, Same, Names

\* hand.raise and hand.cancel change the queue of the hands.
LEMMA HandsChange ==
    ASSUME NEW s, ChoiceTyped(s), NEW hands \in Seq(Humans), NEW t, t = [s EXCEPT !.hands = hands]
    PROVE  ChoiceTyped(t) /\ t.hands = hands /\ Same(t, s, Names \ {"hands"})
<1>1. DOMAIN s = Names
  BY DEF ChoiceTyped
<1>2. DOMAIN t = Names /\ t.hands = hands /\ Same(t, s, Names \ {"hands"})
  BY <1>1 DEF Names, Same
<1>3. ChoiceTyped(t)
  <2>1. /\ t.holder = s.holder /\ t.opp = s.opp /\ t.gen = s.gen /\ t.src = s.src /\ t.phase = s.phase
        /\ t.due = s.due /\ t.round = s.round /\ t.waiting = s.waiting /\ t.open = s.open
        /\ t.ended = s.ended /\ t.dec = s.dec /\ t.selLeft = s.selLeft /\ t.issued = s.issued
        /\ t.sel = s.sel /\ t.wait = s.wait /\ t.ready = s.ready /\ t.timer = s.timer
    BY <1>2 DEF Same, Names
  <2>. QED BY <1>2, <2>1 DEF ChoiceTyped
<1>. QED BY <1>2, <1>3

\* The state of a recognition, and the clock of a speaker.
LEMMA FieldChanges ==
    ASSUME NEW s, ChoiceTyped(s), NEW field \in {"op", "clock"}, NEW value, NEW t, t = [s EXCEPT ![field] = value]
    PROVE  ChoiceTyped(t) /\ t[field] = value /\ Same(t, s, Names \ {field})
<1>1. DOMAIN s = Names
  BY DEF ChoiceTyped
<1>2. DOMAIN t = Names /\ t[field] = value /\ Same(t, s, Names \ {field})
  BY <1>1 DEF Names, Same
<1>3. ChoiceTyped(t)
  <2>1. /\ t.holder = s.holder /\ t.opp = s.opp /\ t.gen = s.gen /\ t.src = s.src /\ t.phase = s.phase
        /\ t.due = s.due /\ t.round = s.round /\ t.waiting = s.waiting /\ t.open = s.open
        /\ t.ended = s.ended /\ t.dec = s.dec /\ t.selLeft = s.selLeft /\ t.issued = s.issued
        /\ t.sel = s.sel /\ t.wait = s.wait /\ t.ready = s.ready /\ t.timer = s.timer /\ t.hands = s.hands
    BY <1>2 DEF Same, Names
  <2>. QED BY <1>2, <2>1 DEF ChoiceTyped
<1>. QED BY <1>2, <1>3

\* host.finished
HostDone(t, s) ==
    /\ t.act = "FREE_SELECTING" /\ Same(t, s, (TurnFields \ {"act"}) \cup {"holder", "src"})
    /\ \/ Same(t, s, {"opp", "gen", "hands", "phase"}) /\ s.opp # 0
       \/ /\ t.hands = << >> /\ t.phase \in {"COMPETING", "MODEL_WAIT"} /\ t.opp # 0
          /\ s.opp = 0 \/ s.round = 0

\* _host_finished: the first opportunity is announced, and its window has a timer.
LEMMA HostFinishes ==
    ASSUME NEW s, ChoiceTyped(s), NEW t,
           t = LET u == [s EXCEPT !.act = "FREE_SELECTING", !.open = TRUE]
               IN  Arm(IF s.opp # 0 /\ s.round # 0 THEN [u EXCEPT !.sel = "open", !.selLeft = TRUE]
                       ELSE StartDecisions([u EXCEPT !.hands = << >>], First, TRUE),
                       "hand.window_closed", <<"free-initial">>)
    PROVE  ChoiceTyped(t) /\ HostDone(t, s)
<1>. DEFINE u == [s EXCEPT !.act = "FREE_SELECTING", !.open = TRUE]
            v == [u EXCEPT !.sel = "open", !.selLeft = TRUE]
            w == [u EXCEPT !.hands = << >>]
            x == IF s.opp # 0 /\ s.round # 0 THEN v ELSE StartDecisions(w, First, TRUE)
            mine == (TurnFields \ {"act"}) \cup {"holder", "src"}
            choice == {"holder", "opp", "gen", "phase", "waiting", "round", "dec",
                       "due", "ended", "src", "wait", "ready", "issued", "timer"}
<1>1. DOMAIN s = Names
  BY DEF ChoiceTyped
<1>2. DOMAIN u = Names /\ u.act = "FREE_SELECTING" /\ Same(u, s, Names \ {"act", "open"})
  BY <1>1 DEF Names, Same
<1>3. u.open = TRUE
  BY <1>1 DEF Names
<1>4. t = Arm(x, "hand.window_closed", <<"free-initial">>)
  OBVIOUS
<1>. HIDE DEF u
<1>5. Same(u, s, choice \cup {"sel", "selLeft", "hands"}) /\ Same(u, s, mine)
  BY <1>2 DEF Same, Names, TurnFields
<1>6. ChoiceTyped(u)
  <2>1. u.open \in BOOLEAN
    BY <1>3
  <2>2. /\ u.holder = s.holder /\ u.opp = s.opp /\ u.gen = s.gen /\ u.src = s.src /\ u.phase = s.phase
        /\ u.due = s.due /\ u.round = s.round /\ u.waiting = s.waiting /\ u.hands = s.hands
        /\ u.ended = s.ended /\ u.dec = s.dec /\ u.selLeft = s.selLeft /\ u.issued = s.issued
        /\ u.sel = s.sel /\ u.wait = s.wait /\ u.ready = s.ready /\ u.timer = s.timer
    BY <1>5 DEF Same
  <2>. QED BY <1>2, <2>1, <2>2 DEF ChoiceTyped
<1>7. ChoiceTyped(x) /\ HostDone(x, s)
  <2>1. CASE s.opp # 0 /\ s.round # 0
    <3>1. x = v
      BY <2>1
    <3>2. DOMAIN v = Names /\ v.sel = "open" /\ Same(v, u, Names \ {"sel", "selLeft"})
      BY <1>2 DEF Names, Same
    <3>3. v.selLeft = TRUE
      BY <1>2 DEF Names
    <3>. HIDE DEF v, x
    <3>4. Same(v, u, choice \cup {"open", "hands"}) /\ Same(v, u, mine \cup {"act", "opp", "gen", "hands", "phase"})
      BY <3>2 DEF Same, Names, TurnFields
    <3>5. ChoiceTyped(v)
      <4>1. v.selLeft \in BOOLEAN
        BY <3>3
      <4>2. /\ v.holder = u.holder /\ v.opp = u.opp /\ v.gen = u.gen /\ v.src = u.src /\ v.phase = u.phase
            /\ v.due = u.due /\ v.round = u.round /\ v.waiting = u.waiting /\ v.hands = u.hands /\ v.open = u.open
            /\ v.ended = u.ended /\ v.dec = u.dec /\ v.issued = u.issued
            /\ v.wait = u.wait /\ v.ready = u.ready /\ v.timer = u.timer
        BY <3>4 DEF Same
      <4>. QED BY <1>6, <3>2, <4>1, <4>2 DEF ChoiceTyped
    <3>6. v.act = "FREE_SELECTING" /\ Same(v, s, mine) /\ Same(v, s, {"opp", "gen", "hands", "phase"})
      BY <1>2, <1>5, <3>4 DEF Same
    <3>. QED BY <2>1, <3>1, <3>5, <3>6 DEF HostDone
  <2>2. CASE ~(s.opp # 0 /\ s.round # 0)
    <3>1. x = StartDecisions(w, First, TRUE)
      BY <2>2
    <3>2. << >> \in Seq(Humans)
      OBVIOUS
    <3>3. ChoiceTyped(w) /\ w.hands = << >> /\ Same(w, u, Names \ {"hands"})
      BY <1>6, <3>2, HandsChange
    <3>. HIDE DEF w, x
    <3>4. ChoiceTyped(x)
      BY <3>1, <3>3, Started, Numbers
    <3>5. Same(x, w, TurnFields \cup {"holder", "hands", "open", "src", "ready", "timer"})
      BY <3>1, <3>3, Started, Numbers
    <3>6. x.phase \in {"COMPETING", "MODEL_WAIT"} /\ x.opp # 0
      BY <3>1, <3>3, Started, Numbers
    <3>7. Same(x, w, mine \cup {"act"}) /\ x.hands = << >>
      <4>1. Same(x, w, mine \cup {"act"})
        BY <3>5 DEF Same, TurnFields
      <4>2. x.hands = w.hands
        BY <3>5 DEF Same
      <4>. QED BY <3>3, <4>1, <4>2
    <3>8. Same(w, u, mine \cup {"act"})
      BY <3>3 DEF Same, Names, TurnFields
    <3>9. x.act = "FREE_SELECTING" /\ Same(x, s, mine)
      BY <1>2, <1>5, <3>7, <3>8 DEF Same
    <3>. QED BY <2>2, <3>4, <3>6, <3>7, <3>9 DEF HostDone
  <2>. QED BY <2>1, <2>2
<1>. HIDE DEF x
<1>8. ChoiceTyped(t) /\ Same(t, x, Names \ {"timer"})
  <2>1. "hand.window_closed" \in Commands \ {"speech.deadline"}
    BY DEF Commands
  <2>. QED BY <1>4, <1>7, <2>1, Rearmed
<1>9. Same(t, x, mine \cup {"act", "opp", "gen", "hands", "phase"})
  BY <1>8, ZenonT(60) DEF Same, Names, TurnFields
<1>10. HostDone(t, s)
  <2>1. t.act = "FREE_SELECTING"
    BY <1>7, <1>9 DEF HostDone, Same
  <2>2. Same(t, s, mine)
    BY <1>7, <1>9 DEF HostDone, Same
  <2>3. t.opp = x.opp /\ t.gen = x.gen /\ t.hands = x.hands /\ t.phase = x.phase
    BY <1>9 DEF Same
  <2>4. \/ Same(t, s, {"opp", "gen", "hands", "phase"}) /\ s.opp # 0
        \/ /\ t.hands = << >> /\ t.phase \in {"COMPETING", "MODEL_WAIT"} /\ t.opp # 0
           /\ s.opp = 0 \/ s.round = 0
    BY <1>7, <2>3 DEF HostDone, Same
  <2>. QED BY <2>1, <2>2, <2>4 DEF HostDone
<1>. QED BY <1>8, <1>10

-----------------------------------------------------------------------------
(* Every action keeps the types *)

\* The actions' outcomes in terms of what happened to the record.
LEMMA HandRaised ==
    ASSUME ChoiceTyped(d), NEW h \in Humans, HandRaise(h)
    PROVE  \E v : /\ ChoiceTyped(v) /\ Same(v, d, Names \ {"hands"}) /\ ToSet(v.hands) = ToSet(d.hands) \cup {h}
                  /\ ChoiceTyped(d')
                  /\ d' = v \/ (ChoseHuman(d', v) /\ d.phase \in {"HUMAN_ONLY_WAIT", "MODEL_WAIT"})
<1>. DEFINE v == [d EXCEPT !.hands = Append(@, h)]
            hands == Append(d.hands, h)
<1>1. d.hands \in Seq(Humans) /\ DOMAIN d = Names
  BY DEF ChoiceTyped
<1>2. hands \in Seq(Humans) /\ ToSet(hands) = ToSet(d.hands) \cup {h}
  BY <1>1, AppendedSet
<1>3. v = [d EXCEPT !.hands = hands]
  BY <1>1 DEF Names
<1>4. d' = IF d.phase \in {"HUMAN_ONLY_WAIT", "MODEL_WAIT"} THEN SelectHuman(v, h) ELSE v
  BY DEF HandRaise
<1>. HIDE DEF hands, v
<1>5. ChoiceTyped(v) /\ v.hands = hands /\ Same(v, d, Names \ {"hands"})
  BY <1>2, <1>3, HandsChange
<1>6. CASE d.phase \in {"HUMAN_ONLY_WAIT", "MODEL_WAIT"}
  <2>1. d' = SelectHuman(v, h) /\ h \in ToSet(v.hands)
    BY <1>2, <1>4, <1>5, <1>6
  <2>2. ChoiceTyped(d') /\ (ChoseHuman(d', v) \/ d' = v)
    BY <1>5, <2>1, HumanSelected
  <2>. QED BY <1>2, <1>5, <1>6, <2>2
<1>7. CASE d.phase \notin {"HUMAN_ONLY_WAIT", "MODEL_WAIT"}
  BY <1>2, <1>4, <1>5, <1>7
<1>. QED BY <1>6, <1>7

\* _hand_cancel takes one hand back.
LEMMA HandCancelled ==
    ASSUME ChoiceTyped(d), NEW h \in Humans, HandCancel(h)
    PROVE  ChoiceTyped(d') /\ Same(d', d, Names \ {"hands"}) /\ ToSet(d'.hands) = ToSet(d.hands) \ {h}
<1>. DEFINE hands == Keep(d.hands, Humans \ {h})
<1>1. d.hands \in Seq(Humans) /\ DOMAIN d = Names
  BY DEF ChoiceTyped
<1>2. hands \in Seq(Humans) /\ ToSet(hands) = ToSet(d.hands) \cap (Humans \ {h}) /\ ToSet(d.hands) \subseteq Humans
  BY <1>1, Kept, Elements
<1>3. d' = [d EXCEPT !.hands = hands]
  BY <1>1 DEF HandCancel, Names
<1>. HIDE DEF hands
<1>. QED BY <1>2, <1>3, HandsChange

\* _start_current_experiment_decision starts decisions and stops nobody.
LEMMA DecisionsBegun ==
    ASSUME ChoiceTyped(d), NEW speech, BeginDecisions(speech)
    PROVE  ChoiceTyped(d') /\ Stays(d', d)
<1>1. d' = d \/ (d.opp # 0 /\ d' = DecisionStart(d, d.opp))
  BY DEF BeginDecisions
<1>2. CASE d' = d
  BY <1>2 DEF Stays, Same
<1>3. CASE d.opp # 0 /\ d' = DecisionStart(d, d.opp)
  <2>. DEFINE opp == d.opp
  <2>1. d' = DecisionStart(d, opp)
    BY <1>3
  <2>. HIDE DEF opp
  <2>. QED BY <1>3, <2>1, DecisionsStarted
<1>. QED BY <1>1, <1>2, <1>3

\* What the command of a timer does.
Timed(t, s, entry) ==
    \/ Same(t, s, Names \ {"timer"})
    \/ s.status = "RUNNING" /\ IsClosed(t, s)
    \/ s.status = "RUNNING" /\ s.act \in {"FREE_SELECTING", "HUMAN_READY_TO_START"} /\ HasTimedOut(t, s)
    \/ /\ s.status = "RUNNING" /\ s.act \in Speaking /\ entry.cmd = "speech.deadline"
       /\ s.begun = 0 \/ (entry.speech = s.speech /\ entry.start = s.begun)
       /\ SpeechFinished(t, s, TRUE)
    \/ s.status = "PAUSED" /\ s.act = "RESUME_COUNTDOWN" /\ IsResumed(t, s)

\* Whatever a timer asks for that is due, its handler leaves a state of the right
\* types and of one of the outcomes (_process).
LEMMA TimerAnswered ==
    ASSUME NEW s, Typed(s), NEW entry, entry.cmd \in Commands,
           s.status = "RUNNING" \/ entry.cmd = "resume.elapsed", NEW t \in Answer(s, entry)
    PROVE  ChoiceTyped(t) /\ Timed(t, s, entry)
<1>. DEFINE recheck == <<"human-wait-recheck", s.opp>>
<1>. HIDE DEF recheck
<1>0. ChoiceTyped(s) /\ "human.wait_timeout" \in Commands \ {"speech.deadline"}
      /\ "human.start_timeout" \in Commands \ {"speech.deadline"}
  BY DEF Typed, Commands
<1>1. CASE entry.cmd = "hand.window_closed"
  <2>1. t \in WindowClosed(s) /\ s.status = "RUNNING"
    BY <1>1 DEF Answer
  <2>2. s.act \in Finalizing => s.side \in Sides
    BY <2>1, Kinds DEF Typed, Shape, At
  <2>. QED BY <1>0, <2>1, <2>2, WindowsClose DEF Timed
<1>2. CASE entry.cmd = "human.wait_timeout"
  <2>1. \/ t = s
        \/ t = Arm(s, "human.wait_timeout", recheck)
        \/ s.act = "FREE_SELECTING" /\ t = TimedOut(s)
    BY <1>2 DEF Answer, recheck
  <2>2. s.status = "RUNNING"
    BY <1>2
  <2>3. CASE t = s
    BY <1>0, <2>3 DEF Timed, Same
  <2>4. CASE t = Arm(s, "human.wait_timeout", recheck)
    BY <1>0, <2>4, Rearmed DEF Timed
  <2>5. CASE s.act = "FREE_SELECTING" /\ t = TimedOut(s)
    BY <1>0, <2>2, <2>5, TimesOut DEF Timed
  <2>. QED BY <2>1, <2>3, <2>4, <2>5
<1>3. CASE entry.cmd = "human.start_timeout"
  <2>1. \/ t = s
        \/ t = Arm(s, "human.start_timeout", Fresh)
        \/ s.act = "HUMAN_READY_TO_START" /\ t = TimedOut(s)
    BY <1>3 DEF Answer
  <2>2. s.status = "RUNNING"
    BY <1>3
  <2>3. CASE t = s
    BY <1>0, <2>3 DEF Timed, Same
  <2>4. CASE t = Arm(s, "human.start_timeout", Fresh)
    BY <1>0, <2>4, Rearmed DEF Timed
  <2>5. CASE s.act = "HUMAN_READY_TO_START" /\ t = TimedOut(s)
    BY <1>0, <2>2, <2>5, TimesOut DEF Timed
  <2>. QED BY <2>1, <2>3, <2>4, <2>5
<1>4. CASE entry.cmd = "speech.deadline"
  <2>1. \/ t = s
        \/ /\ s.act \in Speaking /\ (s.begun = 0 \/ (entry.speech = s.speech /\ entry.start = s.begun))
           /\ t = FinishSpeech(s, TRUE)
    BY <1>4 DEF Answer
  <2>2. s.status = "RUNNING"
    BY <1>4
  <2>3. CASE t = s
    BY <1>0, <2>3 DEF Timed, Same
  <2>4. CASE /\ s.act \in Speaking /\ (s.begun = 0 \/ (entry.speech = s.speech /\ entry.start = s.begun))
             /\ t = FinishSpeech(s, TRUE)
    BY <1>0, <1>4, <2>2, <2>4, FinishesSpeech DEF Timed
  <2>. QED BY <2>1, <2>3, <2>4
<1>5. CASE entry.cmd = "resume.elapsed"
  <2>1. t = s \/ (s.status = "PAUSED" /\ s.act = "RESUME_COUNTDOWN" /\ t = Resumed(s))
    BY <1>5 DEF Answer
  <2>3. CASE t = s
    BY <1>0, <2>3 DEF Timed, Same
  <2>4. CASE s.status = "PAUSED" /\ s.act = "RESUME_COUNTDOWN" /\ t = Resumed(s)
    <3>1. s.from \in Goes
      BY <2>4 DEF Typed, Shape
    <3>. QED BY <1>0, <2>4, <3>1, ResumeElapses DEF Timed
  <2>. QED BY <2>1, <2>3, <2>4
<1>. QED BY <1>1, <1>2, <1>3, <1>4, <1>5 DEF Commands

\* The turn after the command of a timer.
LEMMA TimedTyped ==
    ASSUME NEW s, Typed(s), NEW entry, NEW t, ChoiceTyped(t), Timed(t, s, entry)
    PROVE  /\ Typed(t) /\ t.issued = s.issued /\ t.src = s.src /\ t.failed = s.failed
           /\ t.clock # NoTime => t.clock = s.clock /\ t.begun = s.begun
           /\ \/ At(t) \notin OnAir \cup {"ACTION_FINISHED"}
              \/ At(t) = At(s) /\ t.speech = s.speech
              \/ At(t) \in Finalizing /\ At(s) \in Speaking /\ t.speech = s.speech
           /\ \/ t.status # "RUNNING" \/ t.act \notin Speaking
              \/ Same(t, s, {"status", "act", "open", "phase", "opp"})
<1>1. CASE Same(t, s, Names \ {"timer"})
  <2>1. Same(t, s, TurnFields) /\ t.src = s.src
        /\ Same(t, s, {"status", "act", "open", "phase", "opp"})
    BY <1>1 DEF Same, Names, TurnFields
  <2>2. Typed(t)
    BY <2>1, SameTurn
  <2>3. t.status = s.status /\ t.act = s.act /\ t.from = s.from /\ t.speech = s.speech /\ t.failed = s.failed
        /\ t.issued = s.issued /\ t.clock = s.clock /\ t.begun = s.begun
    BY <2>1 DEF Same, TurnFields
  <2>4. At(t) = At(s)
    BY <2>3 DEF At
  <2>. QED BY <2>1, <2>2, <2>3, <2>4
<1>2. CASE s.status = "RUNNING" /\ IsClosed(t, s)
  <2>1. /\ Typed(t) /\ t.status = "RUNNING" /\ t.issued = s.issued /\ t.src = s.src /\ t.failed = s.failed
        /\ \/ t.act \in Goes \ OnAir /\ t.clock = NoTime
           \/ Same(t, s, TurnFields) /\ (t = s \/ s.act \notin Speaking)
    BY <1>2, ClosedTyped
  <2>2. At(t) = t.act
    BY <2>1 DEF At
  <2>3. CASE t.act \in Goes \ OnAir /\ t.clock = NoTime
    BY <2>1, <2>2, <2>3, Kinds
  <2>4. CASE Same(t, s, TurnFields) /\ (t = s \/ s.act \notin Speaking)
    <3>1. t.act = s.act /\ t.speech = s.speech /\ t.clock = s.clock /\ t.begun = s.begun
      BY <2>4 DEF Same, TurnFields
    <3>2. At(s) = s.act
      BY <1>2 DEF At
    <3>3. t = s => Same(t, s, {"status", "act", "open", "phase", "opp"})
      BY DEF Same
    <3>. QED BY <2>1, <2>2, <2>4, <3>1, <3>2, <3>3
  <2>. QED BY <2>1, <2>3, <2>4
<1>3. CASE s.status = "RUNNING" /\ s.act \in {"FREE_SELECTING", "HUMAN_READY_TO_START"} /\ HasTimedOut(t, s)
  <2>1. Typed(t)
    BY <1>3, Kinds, TimedOutTyped
  <2>2. /\ t.status = "PAUSED" /\ t.from = s.act /\ t.speech = s.speech /\ t.issued = s.issued /\ t.src = s.src
        /\ t.failed = s.failed /\ t.clock = s.clock /\ t.begun = s.begun
    BY <1>3 DEF HasTimedOut, Same
  <2>3. At(t) = s.act /\ s.act \notin OnAir \cup {"ACTION_FINISHED"}
    BY <1>3, <2>2, Kinds DEF At
  <2>. QED BY <2>1, <2>2, <2>3
<1>4. CASE s.status = "RUNNING" /\ s.act \in Speaking /\ SpeechFinished(t, s, TRUE)
  <2>1. /\ Typed(t) /\ t.act \in Finalizing /\ t.status = "RUNNING" /\ t.speech = s.speech /\ t.src = s.src
        /\ t.failed = s.failed /\ t.issued = s.issued /\ t.clock = NoTime
    BY <1>4, SpeechFinishedTyped
  <2>2. At(t) \in Finalizing /\ At(s) \in Speaking
    BY <1>4, <2>1 DEF At
  <2>. QED BY <2>1, <2>2, Kinds
<1>5. CASE s.status = "PAUSED" /\ IsResumed(t, s)
  <2>1. /\ Typed(t) /\ t.src = s.src /\ t.failed = 0 /\ t.issued = s.issued /\ t.clock = NoTime
        /\ t.act \in Goes \ OnAir
    BY <1>5, ResumedTyped
  <2>2. At(t) = t.act /\ s.failed = 0
    BY <1>5 DEF At, IsResumed, Typed, Shape
  <2>. QED BY <2>1, <2>2, Kinds
<1>. QED BY <1>1, <1>2, <1>3, <1>4, <1>5 DEF Timed

-----------------------------------------------------------------------------
(* The type invariant *)

\* The queue while no speech begins.
LEMMA QueueKept ==
    ASSUME Queue, fired' = fired, d'.issued = d.issued,
           d'.clock # NoTime => d'.clock = d.clock /\ d'.begun = d.begun
    PROVE  Queue'
<1>1. \A entry : Answered(d, entry) => Answered(d', entry)
  BY DEF Answered
<1>. QED BY <1>1 DEF Queue

\* A text that is awaited is still awaited, as long as the turn it ended is the
\* source of the opportunity.
LEMMA SourcesKept ==
    ASSUME NEW s, NEW t, NEW late, Sources(s, late), NEW after \in SUBSET late,
           \/ At(t) \notin OnAir \cup {"ACTION_FINISHED"}
           \/ At(t) = At(s) /\ t.src = s.src /\ t.speech = s.speech /\ t.failed = s.failed
    PROVE  Sources(t, after)
BY DEF Sources

\* A step that leaves the turn alone.
LEMMA TurnKept ==
    ASSUME TypeInv, ChoiceTyped(d'), Same(d', d, TurnFields \cup {"src"}), Competing(d'), fired' = fired,
           unsaved' = unsaved, voiced' = voiced, starting' \in SUBSET Nat, aired' \in Nat
    PROVE  TypeInv'
<1>1. /\ Same(d', d, TurnFields) /\ d'.src = d.src /\ d'.status = d.status /\ d'.act = d.act /\ d'.from = d.from
      /\ d'.speech = d.speech /\ d'.failed = d.failed /\ d'.issued = d.issued /\ d'.clock = d.clock
      /\ d'.begun = d.begun
  BY DEF Same, TurnFields
<1>2. Typed(d')
  BY <1>1, SameTurn DEF TypeInv
<1>3. At(d') = At(d)
  BY <1>1 DEF At
<1>4. Sources(d', unsaved')
  BY <1>1, <1>3 DEF TypeInv, Sources
<1>5. Queue'
  BY <1>1, QueueKept DEF TypeInv
<1>. QED BY <1>2, <1>4, <1>5 DEF TypeInv, Memory

\* A choice, on a record with the same turn.
LEMMA ChoiceStep ==
    ASSUME TypeInv, NEW v, Same(v, d, TurnFields \cup {"src"}), ChoiceTyped(v), ChoiceTyped(d'), Chose(d', v),
           d.status = "RUNNING", d.act \notin Speaking, fired' = fired,
           unsaved' = unsaved, voiced' = voiced, starting' \in SUBSET Nat, aired' \in Nat
    PROVE  TypeInv'
<1>1. /\ Same(v, d, TurnFields) /\ v.src = d.src /\ v.status = d.status /\ v.act = d.act
      /\ v.clock = d.clock /\ v.issued = d.issued /\ v.begun = d.begun
  BY DEF Same, TurnFields
<1>2. Typed(v)
  BY <1>1, SameTurn DEF TypeInv
<1>3. Typed(d')
  BY <1>1, <1>2, ChoseTyped
<1>4. /\ d'.status = "RUNNING" /\ d'.act \in {"HUMAN_READY_TO_START", "AGENT_PREPARING", "FREE_SELECTING"}
      /\ d'.issued = d.issued /\ d'.clock = d.clock
  BY <1>1 DEF Chose, ChoseHuman, ChoseAgent, WaitsForHuman, Same, Unchosen
<1>5. At(d') \notin OnAir \cup {"ACTION_FINISHED"} /\ d'.act \notin Speaking
  BY <1>4, Kinds DEF At
<1>6. Sources(d', unsaved') /\ Competing(d')
  BY <1>5 DEF Sources, Competing
<1>7. d.clock = NoTime
  BY DEF TypeInv, Typed, Times
<1>8. Queue'
  BY <1>4, <1>7, QueueKept DEF TypeInv
<1>. QED BY <1>3, <1>6, <1>8 DEF TypeInv, Memory

\* The time spoken since the choice is a number of ticks.
LEMMA AiredKept == ASSUME TypeInv, aired' = aired \/ aired' = 0 PROVE aired' \in Nat
BY DEF TypeInv, Memory

\* host.finished keeps the types and the memory.
LEMMA HostFinishedTyped == ASSUME TypeInv, HostFinished PROVE TypeInv'
<1>1. ChoiceTyped(d') /\ HostDone(d', d)
  BY HostFinishes DEF HostFinished, TypeInv, Typed
<1>2. /\ d.status = "RUNNING" /\ d.act = "HOST_ANNOUNCING" /\ d.failed = 0 /\ d.op # "PENDING" /\ d.clock = NoTime
  BY DEF HostFinished, Running, TypeInv, Typed, Shape, Times, Speaking
<1>3. /\ d'.act = "FREE_SELECTING"
      /\ d'.status = d.status /\ d'.from = d.from /\ d'.who = d.who /\ d'.side = d.side
      /\ d'.speech = d.speech /\ d'.issued = d.issued /\ d'.begun = d.begun /\ d'.left = d.left
      /\ d'.clock = d.clock /\ d'.start = d.start /\ d'.used = d.used /\ d'.settled = d.settled
      /\ d'.budget = d.budget /\ d'.failed = d.failed /\ d'.op = d.op
  BY <1>1 DEF HostDone, Same, TurnFields
<1>4. At(d') = "FREE_SELECTING"
  BY <1>2, <1>3 DEF At
<1>5. TurnTyped(d')
  <2>1. d'.act \in ActionStates
    BY <1>3 DEF ActionStates
  <2>. QED BY <1>3, <2>1 DEF TypeInv, Typed, TurnTyped
<1>6. Shape(d') /\ Times(d') /\ Competing(d') /\ Sources(d', unsaved')
  BY <1>2, <1>3, <1>4, Kinds DEF Shape, Times, Competing, Sources
<1>7. Queue' /\ Memory'
  <2>1. fired' = fired /\ unsaved' = unsaved /\ voiced' = voiced /\ starting' = starting /\ (aired' = aired \/ aired' = 0)
    BY DEF HostFinished, HandsKept
  <2>. QED BY <1>2, <1>3, <2>1, QueueKept, AiredKept DEF TypeInv, Memory
<1>. QED BY <1>1, <1>5, <1>6, <1>7 DEF TypeInv, Typed

\* hand.raise does.
LEMMA HandRaiseTyped == ASSUME TypeInv, NEW h \in Humans, HandRaise(h) PROVE TypeInv'
<1>1. PICK v : /\ ChoiceTyped(v) /\ Same(v, d, Names \ {"hands"}) /\ ToSet(v.hands) = ToSet(d.hands) \cup {h}
               /\ ChoiceTyped(d')
               /\ d' = v \/ (ChoseHuman(d', v) /\ d.phase \in {"HUMAN_ONLY_WAIT", "MODEL_WAIT"})
  BY HandRaised DEF TypeInv, Typed
<1>2. Same(v, d, TurnFields \cup {"src"}) /\ Same(v, d, {"status", "act", "open", "phase", "opp"})
  BY <1>1 DEF Same, Names, TurnFields
<1>3. /\ d.status = "RUNNING" /\ fired' = fired /\ unsaved' = unsaved /\ voiced' = voiced /\ starting' = starting
      /\ aired' = aired \/ aired' = 0
  BY DEF HandRaise, Running
<1>4. starting' \in SUBSET Nat /\ aired' \in Nat
  BY <1>3, AiredKept DEF TypeInv, Memory
<1>5. CASE d' = v
  <2>1. Competing(d')
    BY <1>2, <1>5 DEF Competing, Same, TypeInv
  <2>. QED BY <1>1, <1>2, <1>3, <1>4, <1>5, <2>1, TurnKept
<1>6. CASE ChoseHuman(d', v) /\ d.phase \in {"HUMAN_ONLY_WAIT", "MODEL_WAIT"}
  <2>1. d.act \notin Speaking
    BY <1>3, <1>6 DEF TypeInv, Competing
  <2>. QED BY <1>1, <1>2, <1>3, <1>4, <1>6, <2>1, ChoiceStep DEF Chose
<1>. QED BY <1>1, <1>5, <1>6

\* hand.cancel does.
LEMMA HandCancelTyped == ASSUME TypeInv, NEW h \in Humans, HandCancel(h) PROVE TypeInv'
<1>1. ChoiceTyped(d') /\ Same(d', d, Names \ {"hands"})
  BY HandCancelled DEF TypeInv, Typed
<1>2. Same(d', d, TurnFields \cup {"src"}) /\ Same(d', d, {"status", "act", "open", "phase", "opp"})
  BY <1>1 DEF Same, Names, TurnFields
<1>3. fired' = fired /\ unsaved' = unsaved /\ voiced' = voiced /\ starting' = starting /\ aired' = aired
  BY DEF HandCancel
<1>4. Competing(d')
  BY <1>2 DEF Competing, Same, TypeInv
<1>5. starting' \in SUBSET Nat /\ aired' \in Nat
  BY <1>3 DEF TypeInv, Memory
<1>. QED BY <1>1, <1>2, <1>3, <1>4, <1>5, TurnKept

\* The decisions of the next opportunity start.
LEMMA StaysTyped ==
    ASSUME TypeInv, ChoiceTyped(d'), Stays(d', d), fired' = fired, unsaved' = unsaved, voiced' = voiced,
           starting' \in SUBSET Nat, aired' \in Nat
    PROVE  TypeInv'
<1>1. Same(d', d, TurnFields \cup {"src", "phase", "opp"})
  BY DEF Stays, Same
<1>2. Same(d', d, TurnFields \cup {"src"}) /\ Same(d', d, {"status", "act", "phase", "opp"})
  BY <1>1 DEF Same, TurnFields
<1>3. Competing(d')
  BY <1>2 DEF Competing, Same, TypeInv, Stays
<1>. QED BY <1>2, <1>3, TurnKept

\* report_free_decision does.
LEMMA DecideTyped ==
    ASSUME TypeInv, NEW a \in Agents, NEW answer \in {"HAND", "SKIP", "FAILED"}, Decide(a, answer)
    PROVE  TypeInv'
<1>1. /\ ChoiceTyped(d')
      /\ \/ Stays(d', d)
         \/ /\ Chose(d', d) /\ (d.open = FALSE \/ d.phase = "MODEL_WAIT")
            /\ d.act = "FREE_SELECTING" \/
               (d.phase \in {"COMPETING", "MODEL_WAIT"} /\ d.act \in OnAir \cup {"HOST_ANNOUNCING", "AGENT_PREPARING"})
  BY Decided DEF Decide, TypeInv, Typed
<1>2. /\ fired' = fired /\ unsaved' = unsaved /\ voiced' = voiced /\ starting' = starting /\ d.status = "RUNNING"
      /\ aired' = aired \/ aired' = 0
  BY DEF Decide, HandsKept, Running
<1>3. starting' \in SUBSET Nat /\ aired' \in Nat
  BY <1>2, AiredKept DEF TypeInv, Memory
<1>4. CASE Stays(d', d)
  BY <1>1, <1>2, <1>3, <1>4, StaysTyped
<1>5. CASE Chose(d', d) /\ (d.open = FALSE \/ d.phase = "MODEL_WAIT")
  <2>1. d.act \notin Speaking
    BY <1>2, <1>5 DEF TypeInv, Competing
  <2>2. Same(d, d, TurnFields \cup {"src"})
    BY DEF Same
  <2>3. ChoiceTyped(d)
    BY DEF TypeInv, Typed
  <2>. QED BY <1>1, <1>2, <1>3, <1>5, <2>1, <2>2, <2>3, ChoiceStep
<1>. QED BY <1>1, <1>4, <1>5

\* Decisions of an opportunity whose text is known do.
LEMMA DecisionsDueTyped == ASSUME TypeInv, DecisionsDue PROVE TypeInv'
<1>1. ChoiceTyped(d') /\ Touched(d', d)
  BY DuePasses DEF DecisionsDue, TypeInv, Typed
<1>2. Same(d', d, TurnFields \cup {"src"}) /\ Same(d', d, {"status", "act", "open", "phase", "opp"})
  BY <1>1 DEF Touched, Same, Names, TurnFields
<1>3. fired' = fired /\ unsaved' = unsaved /\ voiced' = voiced /\ starting' = starting /\ aired' = aired
  BY DEF DecisionsDue, history
<1>4. Competing(d')
  BY <1>2 DEF Competing, Same, TypeInv
<1>5. starting' \in SUBSET Nat /\ aired' \in Nat
  BY <1>3 DEF TypeInv, Memory
<1>. QED BY <1>1, <1>2, <1>3, <1>4, <1>5, TurnKept

\* The clock runs down by one.
LEMMA TickTyped == ASSUME TypeInv, Tick PROVE TypeInv'
<1>. DEFINE clock == d.clock - 1
<1>1. d.status = "RUNNING" /\ d.act \in Speaking /\ d.clock > 0 /\ d.clock \in -1..Total /\ d.clock <= d.left
  BY Numbers DEF Tick, Running, TypeInv, Typed, TurnTyped, Times
<1>2. DOMAIN d = Names /\ ChoiceTyped(d)
  BY DEF TypeInv, Typed, ChoiceTyped
<1>3. d' = [d EXCEPT !.clock = clock]
  BY <1>2 DEF Tick, Names
<1>4. clock \in 0..Total /\ clock <= d.left /\ clock # NoTime
  BY <1>1, Numbers DEF TypeInv, Typed, TurnTyped
<1>. HIDE DEF clock
<1>5. ChoiceTyped(d') /\ d'.clock = clock /\ Same(d', d, Names \ {"clock"})
  BY <1>2, <1>3, FieldChanges
<1>6. /\ d'.status = d.status /\ d'.act = d.act /\ d'.from = d.from /\ d'.who = d.who /\ d'.side = d.side
      /\ d'.speech = d.speech /\ d'.issued = d.issued /\ d'.begun = d.begun /\ d'.left = d.left
      /\ d'.start = d.start /\ d'.used = d.used /\ d'.settled = d.settled
      /\ d'.budget = d.budget /\ d'.failed = d.failed /\ d'.op = d.op
      /\ d'.src = d.src /\ d'.open = d.open /\ d'.phase = d.phase /\ d'.opp = d.opp
  BY <1>5 DEF Same, Names
<1>7. At(d') = At(d)
  BY <1>6 DEF At
<1>8. TurnTyped(d')
  BY <1>4, <1>5, <1>6, Numbers DEF TypeInv, Typed, TurnTyped
<1>9. Shape(d')
  BY <1>6, <1>7 DEF TypeInv, Typed, Shape
<1>10. Times(d')
  <2>1. Times(d) /\ d.clock # NoTime
    BY <1>1 DEF TypeInv, Typed, Times
  <2>. QED BY <1>1, <1>4, <1>5, <1>6, <1>7, <2>1 DEF Times
<1>11. Competing(d') /\ Sources(d', unsaved')
  BY <1>6, <1>7 DEF TypeInv, Competing, Sources, Tick
<1>12. Queue'
  <2>1. \A entry : Answered(d, entry) => Answered(d', entry)
    BY <1>1, <1>6, Numbers DEF Answered
  <2>. QED BY <2>1 DEF Queue, Tick, TypeInv
<1>13. Memory'
  <2>1. aired \in Nat /\ aired' = aired + 1
    BY DEF TypeInv, Memory, Tick
  <2>. QED BY <2>1 DEF TypeInv, Memory, Tick
<1>. QED BY <1>5, <1>8, <1>9, <1>10, <1>11, <1>12, <1>13 DEF TypeInv, Typed

\* _speech_start and _agent_playback_started: nothing of an earlier speech is in
\* the queue under the new one.
LEMMA StartsTyped ==
    ASSUME TypeInv, NEW act, NEW speech \in Nat \ {0}, NEW again \in BOOLEAN, d.status = "RUNNING",
           \/ d.act = "HUMAN_READY_TO_START" /\ act = "HUMAN_SPEAKING" /\ (again <=> d.speech # 0)
           \/ d.act = "AGENT_PREPARING" /\ act = "AGENT_SPEAKING" /\ ~again,
           d.src \notin unsaved, d' = StartSpeech(d, act, speech, again), unsaved' = unsaved \cup {speech},
           voiced' \in SUBSET Nat, starting' = starting, aired' = aired, fired' = fired
    PROVE  TypeInv'
<1>1. PICK g : /\ ChoiceTyped(g) /\ Begun(g, d, act, speech, again)
               /\ IF TurnLeft(d) = 0 /\ act = "HUMAN_SPEAKING" THEN d' = FinishSpeech(g, TRUE)
                  ELSE d' = OpenOpportunity(g, NextHolder(g), speech)
  <2>1. ChoiceTyped(d) /\ d.side \in Sides
    BY Kinds DEF TypeInv, Typed, Shape, At
  <2>2. SpeechStarted(d', d, act, speech, again)
    BY <2>1, StartsSpeech
  <2>. QED BY <2>2 DEF SpeechStarted
<1>2. Typed(g)
  BY <1>1, BegunTyped DEF TypeInv
<1>3. /\ g.status = "RUNNING" /\ g.act \in Speaking /\ g.speech = speech /\ g.src = d.src /\ g.failed = 0
      /\ g.issued = d.issued + 1 /\ g.begun = d.issued + 1 /\ g.open = TRUE
  <2>1. g.act = act /\ g.issued = d.issued + 1 /\ g.begun = d.issued + 1 /\ g.speech = speech /\ g.open = TRUE
    BY <1>1 DEF Begun
  <2>2. g.status = d.status /\ g.src = d.src
    BY <1>1 DEF Begun, Same
  <2>3. g.failed = 0
    BY <1>2, <2>2 DEF Typed, Shape
  <2>. QED BY <2>1, <2>2, <2>3 DEF Speaking
<1>4. Memory'
  BY DEF TypeInv, Memory
<1>5. \A entry \in ToSet(fired) : entry.cmd \in Commands /\ (entry.cmd = "speech.deadline" => entry.start \in 0..d.issued)
  BY DEF TypeInv, Queue, Answered
<1>6. d.issued \in Nat
  BY DEF TypeInv, Typed, TurnTyped
<1>7. CASE TurnLeft(d) = 0 /\ act = "HUMAN_SPEAKING"
  <2>1. d' = FinishSpeech(g, TRUE)
    BY <1>1, <1>7
  <2>2. ChoiceTyped(d') /\ SpeechFinished(d', g, TRUE)
    BY <1>1, <2>1, FinishesSpeech
  <2>3. /\ Typed(d') /\ d'.act \in Finalizing /\ d'.status = "RUNNING" /\ d'.speech = g.speech /\ d'.src = g.src
        /\ d'.failed = g.failed /\ d'.issued = g.issued /\ d'.clock = NoTime
    <3>1. g.status = "RUNNING" /\ g.act \in Speaking /\ ChoiceTyped(d') /\ SpeechFinished(d', g, TRUE)
      BY <1>3, <2>2
    <3>. QED BY <1>2, <3>1, SpeechFinishedTyped, ZenonT(60)
  <2>4. At(d') = d'.act /\ d'.act \notin Speaking /\ d'.act # "ACTION_FINISHED"
    BY <2>3, Kinds DEF At
  <2>5. Sources(d', unsaved') /\ Competing(d')
    BY <1>3, <2>3, <2>4 DEF Sources, Competing
  <2>6. \A entry \in ToSet(fired) : Answered(d', entry)
    <3>1. SUFFICES ASSUME NEW entry \in ToSet(fired), entry.cmd = "speech.deadline"
                   PROVE  entry.start \in 0..d'.issued
      BY <1>5, <2>3 DEF Answered
    <3>2. entry.start \in 0..d.issued
      BY <1>5, <3>1
    <3>. QED BY <1>3, <1>6, <2>3, <3>2
  <2>7. Queue'
    BY <2>6 DEF TypeInv, Queue
  <2>. QED BY <1>4, <2>3, <2>5, <2>7 DEF TypeInv
<1>8. CASE ~(TurnLeft(d) = 0 /\ act = "HUMAN_SPEAKING")
  <2>. DEFINE side == NextHolder(g)
  <2>1. d' = OpenOpportunity(g, side, speech)
    BY <1>1, <1>8
  <2>2. side \in Sides
    <3>1. g.side \in Sides
      BY <1>2, <1>3, Kinds DEF Typed, Shape, At
    <3>. QED BY <3>1, Numbers DEF NextHolder
  <2>. HIDE DEF side
  <2>3. ChoiceTyped(d') /\ IsOpened(d', g, side, speech)
    <3>1. speech \in Nat
      OBVIOUS
    <3>. QED BY <1>1, <2>1, <2>2, <3>1, Opened
  <2>4. Same(d', g, TurnFields \cup {"ready", "timer"})
    BY <2>3 DEF IsOpened
  <2>5. d'.opp = g.gen + 1 /\ d'.src = speech /\ d'.phase = "COMPETING" /\ d'.open = TRUE
    BY <2>3 DEF IsOpened
  <2>6. /\ Same(d', g, TurnFields) /\ d'.status = g.status /\ d'.act = g.act /\ d'.speech = g.speech
        /\ d'.failed = g.failed /\ d'.issued = g.issued /\ d'.begun = g.begun
    BY <2>4 DEF Same, TurnFields
  <2>7. Typed(d')
    BY <1>2, <2>3, <2>6, SameTurn
  <2>8. d'.opp # 0
    BY <1>1, <2>5 DEF ChoiceTyped
  <2>9. At(d') = g.act /\ g.act # "ACTION_FINISHED"
    BY <1>3, <2>6, Kinds DEF At
  <2>10. Sources(d', unsaved') /\ Competing(d')
    BY <1>3, <2>5, <2>6, <2>8, <2>9 DEF Sources, Competing
  <2>11. \A entry \in ToSet(fired) : Answered(d', entry)
    <3>1. SUFFICES ASSUME NEW entry \in ToSet(fired), entry.cmd = "speech.deadline"
                   PROVE  entry.start \in 0..d'.issued /\ entry.start # d'.begun
      BY <1>5 DEF Answered
    <3>2. entry.start \in 0..d.issued
      BY <1>5, <3>1
    <3>. QED BY <1>3, <1>6, <2>6, <3>2
  <2>12. Queue'
    BY <2>11 DEF TypeInv, Queue
  <2>. QED BY <1>4, <2>7, <2>10, <2>12 DEF TypeInv
<1>. QED BY <1>7, <1>8

\* speech.start keeps the types and the memory.
LEMMA HumanStartsTyped == ASSUME TypeInv, NEW h \in Humans, HumanStarts(h) PROVE TypeInv'
<1>. DEFINE again == d.speech # 0
            speech == IF again THEN d.speech ELSE d.issued + 1
            act == "HUMAN_SPEAKING"
<1>1. /\ d.status = "RUNNING" /\ d.act = "HUMAN_READY_TO_START" /\ d.src \notin unsaved
      /\ d' = StartSpeech(d, act, speech, again) /\ unsaved' = unsaved \cup {speech}
      /\ voiced' = voiced /\ starting' = starting /\ aired' = aired /\ fired' = fired
  BY DEF HumanStarts, MayTake, Running, SourceSaved, Takes
<1>2. speech \in Nat \ {0} /\ voiced \in SUBSET Nat
  <2>1. d.speech \in Nat /\ d.issued \in Nat
    BY DEF TypeInv, Typed, TurnTyped
  <2>2. voiced \in SUBSET Nat
    BY DEF TypeInv, Memory
  <2>. QED BY <2>1, <2>2
<1>3. act = "HUMAN_SPEAKING" /\ (again <=> d.speech # 0) /\ again \in BOOLEAN
  OBVIOUS
<1>. HIDE DEF again, speech, act
<1>. QED BY <1>1, <1>2, <1>3, StartsTyped

\* agent.playback_started does.
LEMMA AgentStartsTyped == ASSUME TypeInv, NEW a \in Agents, AgentStarts(a) PROVE TypeInv'
<1>. DEFINE again == FALSE
            speech == d.issued + 1
            act == "AGENT_SPEAKING"
<1>1. /\ d.status = "RUNNING" /\ d.act = "AGENT_PREPARING" /\ d.src \notin unsaved
      /\ d' = StartSpeech(d, act, speech, again) /\ unsaved' = unsaved \cup {speech}
      /\ voiced' = voiced \cup {speech} /\ starting' = starting /\ aired' = aired /\ fired' = fired
  BY DEF AgentStarts, MayTake, Running, SourceSaved, Takes
<1>2. speech \in Nat \ {0} /\ voiced \cup {speech} \in SUBSET Nat
  <2>1. d.issued \in Nat
    BY DEF TypeInv, Typed, TurnTyped
  <2>2. voiced \in SUBSET Nat
    BY DEF TypeInv, Memory
  <2>3. speech \in Nat \ {0}
    BY <2>1
  <2>. HIDE DEF speech
  <2>. QED BY <2>2, <2>3
<1>3. act = "AGENT_SPEAKING" /\ ~again /\ again \in BOOLEAN
  OBVIOUS
<1>. HIDE DEF again, speech, act
<1>. QED BY <1>1, <1>2, <1>3, StartsTyped

\* speech.finish does.
LEMMA FinishesTyped == ASSUME TypeInv, Finishes PROVE TypeInv'
<1>1. d.status = "RUNNING" /\ d.act \in Speaking /\ d' = FinishSpeech(d, FALSE)
  BY DEF Finishes, Running
<1>2. ChoiceTyped(d') /\ SpeechFinished(d', d, FALSE)
  BY <1>1, FinishesSpeech DEF TypeInv, Typed
<1>3. /\ Typed(d') /\ d'.act \in Finalizing /\ d'.status = "RUNNING" /\ d'.speech = d.speech /\ d'.src = d.src
      /\ d'.failed = d.failed /\ d'.issued = d.issued /\ d'.clock = NoTime
  BY <1>1, <1>2, SpeechFinishedTyped DEF TypeInv
<1>4. At(d') = d'.act /\ At(d) = d.act /\ d'.act \notin Speaking /\ d'.act # "ACTION_FINISHED"
  BY <1>1, <1>3, Kinds DEF At
<1>5. Sources(d', unsaved') /\ Competing(d')
  <2>1. unsaved' = unsaved
    BY DEF Finishes
  <2>2. d.act \in OnAir
    BY <1>1, Kinds
  <2>. QED BY <1>3, <1>4, <2>1, <2>2 DEF TypeInv, Sources, Competing
<1>6. Queue' /\ Memory'
  <2>1. /\ fired' = fired /\ unsaved' = unsaved /\ voiced' = voiced /\ starting' = starting /\ aired' = aired
    BY DEF Finishes, history
  <2>. QED BY <1>3, <2>1, QueueKept DEF TypeInv, Memory
<1>. QED BY <1>3, <1>5, <1>6 DEF TypeInv

\* finalize_asr_speech, finalize_agent_speech: the turn ends with its speech saved.
LEMMA FinalTyped ==
    ASSUME TypeInv, NEW speech \in unsaved, NEW act \in Finalizing,
           d' = IF IsCurrent(speech, act) THEN FinishTurn(d, aired) ELSE d,
           unsaved' = unsaved \ {speech}, fired' = fired, voiced' = voiced, starting' \in SUBSET Nat,
           aired' = aired \/ aired' = 0
    PROVE  TypeInv'
<1>1. Memory'
  BY AiredKept DEF TypeInv, Memory
<1>2. CASE ~IsCurrent(speech, act)
  <2>1. d' = d
    BY <1>2
  <2>2. Sources(d', unsaved')
    BY <2>1, SourcesKept DEF TypeInv
  <2>3. Queue'
    BY <2>1, QueueKept DEF TypeInv
  <2>. QED BY <1>1, <2>1, <2>2, <2>3 DEF TypeInv
<1>3. CASE IsCurrent(speech, act)
  <2>1. d' = FinishTurn(d, aired) /\ d.status = "RUNNING" /\ d.act \in Finalizing /\ d.speech = speech
    BY <1>3 DEF IsCurrent, Running
  <2>2. At(d) = d.act /\ d.side \in Sides /\ d.act \in OnAir
    BY <2>1, Kinds DEF TypeInv, Typed, Shape, At
  <2>3. ChoiceTyped(d') /\ TurnFinished(d', d, aired)
    BY <2>1, <2>2, FinishesTurn DEF TypeInv, Typed
  <2>4. Typed(d')
    BY <2>1, <2>2, <2>3, TurnFinishedTyped DEF TypeInv, Memory
  <2>5. /\ d'.act \in {"ACTION_FINISHED", "FREE_SELECTING"} /\ d'.status = "RUNNING" /\ d'.src = d.src
        /\ d'.issued = d.issued /\ d'.clock = NoTime
    BY <2>1, <2>3 DEF TurnFinished, Same
  <2>6. At(d') = d'.act /\ d'.act \notin OnAir \cup Speaking
    BY <2>5, Kinds DEF At
  <2>7. d'.src \notin unsaved'
    BY <2>1, <2>2, <2>5 DEF TypeInv, Sources
  <2>8. Sources(d', unsaved') /\ Competing(d')
    BY <2>6, <2>7 DEF Sources, Competing
  <2>9. Queue'
    BY <2>5, QueueKept DEF TypeInv
  <2>. QED BY <1>1, <2>4, <2>8, <2>9 DEF TypeInv
<1>. QED BY <1>2, <1>3

\* _schedule_internal_now queues a command once.
LEMMA FireTyped == ASSUME TypeInv, Fire PROVE TypeInv'
<1>. DEFINE timer == d.timer
<1>1. d.timer.cmd # "none" /\ fired' = Append(fired, timer) /\ (timer.cmd = "speech.deadline" => d.clock = 0)
  BY SMTT(60) DEF Fire
<1>2. ChoiceTyped(d') /\ Touched(d', d)
  BY Fires DEF Fire, TypeInv, Typed
<1>3. Same(d', d, TurnFields \cup {"src"}) /\ Same(d', d, {"status", "act", "open", "phase", "opp"})
  BY <1>2 DEF Touched, Same, Names, TurnFields
<1>4. /\ Same(d', d, TurnFields) /\ d'.src = d.src /\ d'.status = d.status /\ d'.act = d.act /\ d'.from = d.from
      /\ d'.speech = d.speech /\ d'.failed = d.failed /\ d'.issued = d.issued /\ d'.clock = d.clock
      /\ d'.begun = d.begun
  BY <1>3 DEF Same, TurnFields
<1>5. unsaved' = unsaved /\ voiced' = voiced /\ starting' = starting /\ aired' = aired /\ Len(fired) < MaxFired
  BY DEF Fire, history
<1>6. Typed(d')
  BY <1>2, <1>4, SameTurn DEF TypeInv
<1>7. At(d') = At(d)
  BY <1>4 DEF At
<1>8. Sources(d', unsaved') /\ Competing(d') /\ Memory'
  BY <1>3, <1>4, <1>5, <1>7 DEF TypeInv, Sources, Competing, Memory, Same
<1>9. timer.cmd \in Commands /\ timer.start \in 0..d.issued
  BY <1>1 DEF TypeInv, Typed, ChoiceTyped
<1>. HIDE DEF timer
<1>10. Answered(d', timer)
  BY <1>1, <1>4, <1>9 DEF Answered, TypeInv, Typed, TurnTyped
<1>11. PICK S : fired \in Seq(S)
  BY DEF TypeInv, Queue
<1>12. /\ fired' \in Seq(S \cup {timer}) /\ ToSet(fired') = ToSet(fired) \cup {timer}
  <2>1. fired \in Seq(S \cup {timer})
    BY <1>11
  <2>. QED BY <1>1, <2>1, AppendedSet
<1>13. Len(fired') <= MaxFired
  <2>1. Len(fired') = Len(fired) + 1 /\ Len(fired) \in Nat
    BY <1>1, <1>11, AppendProperties, LenProperties
  <2>. QED BY <1>5, <2>1, DebateAssumption DEF DebateAssumption
<1>14. \A entry \in ToSet(fired) : Answered(d', entry)
  BY <1>4 DEF TypeInv, Queue, Answered
<1>15. Queue'
  BY <1>10, <1>12, <1>13, <1>14 DEF Queue
<1>. QED BY <1>6, <1>8, <1>15 DEF TypeInv

\* What Handle does to the record.
LEMMA Handled ==
    ASSUME TypeInv, Handle
    PROVE  /\ ChoiceTyped(d') /\ Head(fired) \in ToSet(fired) /\ Head(fired).cmd \in Commands
           /\ d' = d \/ Timed(d', d, Head(fired))
<1>. DEFINE entry == Head(fired)
<1>1. fired # << >>
  BY DEF Handle
<1>2. PICK S : fired \in Seq(S)
  BY DEF TypeInv, Queue
<1>3. entry \in ToSet(fired)
  BY <1>1, <1>2, Elements
<1>4. entry.cmd \in Commands
  BY <1>3 DEF TypeInv, Queue, Answered
<1>5. d' = d \/ ((d.status = "RUNNING" \/ entry.cmd = "resume.elapsed") /\ d' \in Answer(d, entry))
  BY DEF Handle
<1>. HIDE DEF entry
<1>6. CASE d' = d
  <2>1. ChoiceTyped(d')
    BY <1>6 DEF TypeInv, Typed
  <2>. QED BY <1>3, <1>4, <1>6, <2>1 DEF entry
<1>7. CASE (d.status = "RUNNING" \/ entry.cmd = "resume.elapsed") /\ d' \in Answer(d, entry)
  <2>1. ChoiceTyped(d') /\ Timed(d', d, entry)
    BY <1>4, <1>7, TimerAnswered DEF TypeInv
  <2>. QED BY <1>3, <1>4, <2>1 DEF entry
<1>. QED BY <1>5, <1>6, <1>7

\* A queued command, stale or not, keeps the types and the memory.
LEMMA HandleTyped == ASSUME TypeInv, Handle PROVE TypeInv'
<1>. DEFINE entry == Head(fired)
<1>1. ChoiceTyped(d') /\ (d' = d \/ Timed(d', d, entry))
  BY Handled
<1>2. /\ fired' = Tail(fired) /\ fired # << >> /\ unsaved' = unsaved /\ voiced' = voiced /\ starting' = starting
      /\ aired' = aired \/ aired' = 0
  BY DEF Handle, HandsKept
<1>. HIDE DEF entry
<1>3. Timed(d', d, entry)
  <2>1. d' = d => Timed(d', d, entry)
    BY DEF Timed, Same
  <2>. QED BY <1>1, <2>1
<1>4. /\ Typed(d') /\ d'.issued = d.issued /\ d'.src = d.src /\ d'.failed = d.failed
      /\ d'.clock # NoTime => d'.clock = d.clock /\ d'.begun = d.begun
  BY <1>1, <1>3, TimedTyped DEF TypeInv
<1>5. \/ At(d') \notin OnAir \cup {"ACTION_FINISHED"}
      \/ At(d') = At(d) /\ d'.speech = d.speech
      \/ At(d') \in Finalizing /\ At(d) \in Speaking /\ d'.speech = d.speech
  BY <1>1, <1>3, TimedTyped DEF TypeInv
<1>6. \/ d'.status # "RUNNING" \/ d'.act \notin Speaking
      \/ Same(d', d, {"status", "act", "open", "phase", "opp"})
  BY <1>1, <1>3, TimedTyped DEF TypeInv
<1>7. Competing(d')
  BY <1>6 DEF Competing, Same, TypeInv
<1>8. Sources(d', unsaved')
  BY <1>2, <1>4, <1>5, Kinds DEF TypeInv, Sources
<1>9. Memory'
  BY <1>2, AiredKept DEF TypeInv, Memory
<1>10. Queue'
  <2>1. PICK S : fired \in Seq(S)
    BY DEF TypeInv, Queue
  <2>2. fired' \in Seq(S) /\ ToSet(fired') \subseteq ToSet(fired) /\ Len(fired') < Len(fired)
    BY <1>2, <2>1, Tailed
  <2>3. \A e \in ToSet(fired') : Answered(d', e)
    BY <1>4, <2>2 DEF TypeInv, Queue, Answered
  <2>4. Len(fired') <= MaxFired
    <3>1. Len(fired) \in Nat /\ Len(fired') \in Nat /\ Len(fired) <= MaxFired
      BY <2>1, <2>2, LenProperties DEF TypeInv, Queue
    <3>. QED BY <2>2, <3>1, DebateAssumption DEF DebateAssumption
  <2>. QED BY <2>2, <2>3, <2>4 DEF Queue
<1>. QED BY <1>4, <1>7, <1>8, <1>9, <1>10 DEF TypeInv

\* A step after which nobody speaks.
LEMMA SilentStep ==
    ASSUME TypeInv, Typed(d'), d'.issued = d.issued, d'.clock = NoTime, Sources(d', unsaved'), fired' = fired,
           unsaved' \in SUBSET (Nat \ {0}), voiced' = voiced, starting' \in SUBSET Nat, aired' \in Nat
    PROVE  TypeInv'
<1>1. Competing(d')
  BY DEF Competing, Typed, Times
<1>2. Queue'
  BY QueueKept DEF TypeInv
<1>. QED BY <1>1, <1>2 DEF TypeInv, Memory

\* The memory after an action that starts nothing.
LEMMA MemoryKept ==
    ASSUME TypeInv
    PROVE  /\ unsaved \in SUBSET (Nat \ {0}) /\ starting \in SUBSET Nat /\ d.failed \in Nat /\ d.speech \in Nat
           /\ ChoiceTyped(d)
BY DEF TypeInv, Memory, Typed, TurnTyped

\* match.pause does.
LEMMA MatchPauseTyped == ASSUME TypeInv, MatchPause PROVE TypeInv'
<1>1. /\ d.status = "RUNNING" /\ d.act # "ACTION_FINISHED" /\ d' = Pause(d) /\ unsaved' \subseteq unsaved
      /\ fired' = fired /\ voiced' = voiced /\ starting' = starting
      /\ aired' = aired \/ aired' = 0
  BY DEF MatchPause, Running, HandsKept
<1>2. d.act \in Goes /\ At(d) = d.act /\ d.failed = 0
  BY <1>1 DEF TypeInv, Typed, Shape, At
<1>3. ChoiceTyped(d') /\ Paused(d', d)
  BY <1>1, Pauses DEF TypeInv, Typed
<1>4. /\ Typed(d') /\ At(d') = d.act /\ d'.speech = d.speech /\ d'.src = d.src /\ d'.failed = 0
      /\ d'.issued = d.issued /\ d'.clock = NoTime
  BY <1>1, <1>2, <1>3, PausedTyped DEF TypeInv
<1>5. Sources(d', unsaved')
  BY <1>1, <1>2, <1>4, SourcesKept DEF TypeInv
<1>. QED BY <1>1, <1>4, <1>5, SilentStep, MemoryKept, AiredKept

\* A failed agent does.
LEMMA AgentFailsTyped == ASSUME TypeInv, AgentFails PROVE TypeInv'
<1>1. /\ d.status = "RUNNING" /\ d.act \in AgentTurn /\ d' = AgentError(d) /\ unsaved' = unsaved
      /\ fired' = fired /\ voiced' = voiced /\ starting' = starting
      /\ aired' = aired \/ aired' = 0
  BY DEF AgentFails, Running, HandsKept
<1>2. ChoiceTyped(d') /\ AgentFailed(d', d)
  BY <1>1, AgentsFail DEF TypeInv, Typed
<1>3. Typed(d')
  BY <1>1, <1>2, AgentFailedTyped DEF TypeInv
<1>4. d'.issued = d.issued /\ d'.clock = NoTime /\ At(d') = "AGENT_PREPARING"
  BY <1>2 DEF AgentFailed, Same, At
<1>5. Sources(d', unsaved')
  BY <1>4, Kinds DEF Sources
<1>. QED BY <1>1, <1>3, <1>4, <1>5, SilentStep, MemoryKept, AiredKept

\* A failed recognition does.
LEMMA RecognitionFailsTyped == ASSUME TypeInv, NEW speech, RecognitionFails(speech) PROVE TypeInv'
<1>1. /\ d.status = "RUNNING" /\ d' = AsrFailed(d, speech) /\ speech \in unsaved /\ unsaved' = unsaved \ {speech}
      /\ fired' = fired /\ voiced' = voiced /\ starting' = starting
      /\ aired' = aired \/ aired' = 0
  BY DEF RecognitionFails, Running, HandsKept
<1>2. \/ d.speech = speech /\ d.act \in {"HUMAN_SPEAKING", "SPEECH_FINALIZING"}
      \/ d.src = speech /\ d.speech # speech
  BY DEF RecognitionFails
<1>3. At(d) = d.act /\ d.op # "PENDING" /\ d.act \in Goes \cup {"ACTION_FINISHED"}
  BY <1>1 DEF TypeInv, Typed, Shape, At
<1>4. speech \in Nat \ {0} /\ unsaved' \in SUBSET (Nat \ {0})
  BY <1>1, MemoryKept
<1>5. /\ d.act # "ACTION_FINISHED"
      /\ d.act \in OnAir => d.speech = speech
      /\ d.speech = speech => d.act \in {"HUMAN_SPEAKING", "SPEECH_FINALIZING"}
  <2>1. Sources(d, unsaved)
    BY DEF TypeInv
  <2>. QED BY <1>1, <1>2, <1>3, <2>1 DEF Sources
<1>6. MayFail(d, speech)
  BY <1>1, <1>3, <1>4, <1>5 DEF MayFail
<1>7. ChoiceTyped(d') /\ RecognitionFailed(d', d, speech)
  BY <1>1, RecognitionsFail DEF TypeInv, Typed
<1>8. /\ Typed(d') /\ At(d') = At(d) /\ d'.speech = d.speech /\ d'.src = d.src /\ d'.failed = speech
      /\ d'.issued = d.issued /\ d'.clock = NoTime
  BY <1>6, <1>7, RecognitionFailedTyped DEF TypeInv
<1>9. Sources(d', unsaved')
  BY <1>1, <1>3, <1>5, <1>8 DEF TypeInv, Sources
<1>. QED BY <1>1, <1>4, <1>8, <1>9, SilentStep, MemoryKept, AiredKept

\* asr.retry does.
LEMMA RetryRecognitionTyped == ASSUME TypeInv, RetryRecognition PROVE TypeInv'
<1>1. /\ d.failed # 0 /\ d.status = "ERROR" /\ d' = [d EXCEPT !.op = "PENDING"]
      /\ unsaved' = unsaved \cup {d.failed}
      /\ fired' = fired /\ voiced' = voiced /\ starting' = starting /\ aired' = aired
  BY DEF RetryRecognition, history
<1>2. /\ d'.op = "PENDING" /\ Same(d', d, Names \ {"op"})
  BY <1>1 DEF TypeInv, Typed, ChoiceTyped, Names, Same
<1>3. ChoiceTyped(d')
  <2>1. DOMAIN d = Names
    BY DEF TypeInv, Typed, ChoiceTyped
  <2>2. DOMAIN d' = Names
    BY <1>1, <2>1
  <2>3. /\ d'.opp = d.opp /\ d'.phase = d.phase /\ d'.hands = d.hands /\ d'.waiting = d.waiting /\ d'.open = d.open
        /\ d'.round = d.round /\ d'.dec = d.dec /\ d'.due = d.due /\ d'.ended = d.ended /\ d'.timer = d.timer
        /\ d'.holder = d.holder /\ d'.src = d.src /\ d'.issued = d.issued /\ d'.gen = d.gen
        /\ d'.sel = d.sel /\ d'.selLeft = d.selLeft /\ d'.wait = d.wait /\ d'.ready = d.ready
    BY <1>2 DEF Same, Names
  <2>. QED BY <2>2, <2>3 DEF TypeInv, Typed, ChoiceTyped
<1>4. /\ d'.status = d.status /\ d'.act = d.act /\ d'.from = d.from /\ d'.who = d.who /\ d'.side = d.side
      /\ d'.speech = d.speech /\ d'.issued = d.issued /\ d'.begun = d.begun /\ d'.left = d.left
      /\ d'.clock = d.clock /\ d'.start = d.start /\ d'.used = d.used /\ d'.settled = d.settled
      /\ d'.budget = d.budget /\ d'.failed = d.failed /\ d'.src = d.src
  BY <1>2 DEF Same, Names
<1>5. At(d') = At(d) /\ d.clock = NoTime /\ At(d) # "ACTION_FINISHED"
  BY <1>1, <1>4, Kinds DEF At, TypeInv, Typed, Shape, Times
<1>6. TurnTyped(d')
  BY <1>2, <1>4 DEF TypeInv, Typed, TurnTyped
<1>7. Shape(d')
  BY <1>1, <1>2, <1>4, <1>5 DEF TypeInv, Typed, Shape
<1>8. Times(d')
  BY <1>4, <1>5 DEF TypeInv, Typed, Times
<1>9. Typed(d')
  BY <1>3, <1>6, <1>7, <1>8 DEF Typed
<1>10. Sources(d', unsaved')
  BY <1>1, <1>4, <1>5 DEF TypeInv, Sources
<1>11. unsaved' \in SUBSET (Nat \ {0})
  BY <1>1, MemoryKept
<1>. QED BY <1>1, <1>4, <1>5, <1>9, <1>10, <1>11, SilentStep, MemoryKept, AiredKept

\* A retry that succeeds does.
LEMMA RetrySucceedsTyped == ASSUME TypeInv, RetrySucceeds PROVE TypeInv'
<1>1. /\ d.op = "PENDING" /\ d' = AsrRetried(d, aired) /\ unsaved' = unsaved \ {d.failed}
      /\ starting' = starting \cup {d.failed}
      /\ fired' = fired /\ voiced' = voiced
      /\ aired' = aired \/ aired' = 0
  BY DEF RetrySucceeds, HandsKept
<1>2. /\ d.failed # 0 /\ At(d) # "ACTION_FINISHED"
      /\ d.failed = d.speech => At(d) \in OnAir /\ d.side \in Sides
  BY <1>1, Kinds DEF TypeInv, Typed, Shape, At, OnAir, Speaking, Finalizing
<1>3. ChoiceTyped(d') /\ Retried(d', d, aired)
  BY <1>1, <1>2, Retries DEF TypeInv, Typed
<1>4. aired \in Nat
  BY DEF TypeInv, Memory
<1>5. /\ Typed(d') /\ d'.src = d.src /\ d'.failed = 0 /\ d'.issued = d.issued /\ d'.clock = NoTime
      /\ d.failed = d.speech => At(d') \in {"ACTION_FINISHED", "FREE_SELECTING"}
      /\ d.failed # d.speech => At(d') = At(d) /\ d'.speech = d.speech
  BY <1>1, <1>3, <1>4, RetriedTyped DEF TypeInv
<1>6. Sources(d', unsaved')
  BY <1>1, <1>2, <1>5, Kinds DEF TypeInv, Sources
<1>7. unsaved' \in SUBSET (Nat \ {0}) /\ starting' \in SUBSET Nat
  BY <1>1, MemoryKept
<1>. QED BY <1>1, <1>5, <1>6, <1>7, SilentStep, AiredKept

\* A retry that fails does.
LEMMA RetryFailsTyped == ASSUME TypeInv, RetryFails PROVE TypeInv'
<1>. DEFINE speech == d.failed
<1>1. /\ d.op = "PENDING" /\ d' = AsrFailed(d, speech) /\ unsaved' = unsaved \ {speech}
      /\ fired' = fired /\ voiced' = voiced /\ starting' = starting
      /\ aired' = aired \/ aired' = 0
  BY DEF RetryFails, HandsKept
<1>2. /\ d.failed # 0 /\ d.status = "ERROR" /\ At(d) = d.from /\ d.from \in Goes
      /\ d.failed = d.speech => d.from \in {"HUMAN_SPEAKING", "SPEECH_FINALIZING"}
  BY <1>1 DEF TypeInv, Typed, Shape, At
<1>3. MayFail(d, speech)
  BY <1>1, <1>2, MemoryKept DEF MayFail
<1>4. ChoiceTyped(d') /\ RecognitionFailed(d', d, speech)
  BY <1>1, RecognitionsFail DEF TypeInv, Typed
<1>5. /\ Typed(d') /\ At(d') = At(d) /\ d'.speech = d.speech /\ d'.src = d.src /\ d'.failed = speech
      /\ d'.issued = d.issued /\ d'.clock = NoTime
  BY <1>3, <1>4, RecognitionFailedTyped DEF TypeInv
<1>6. Sources(d', unsaved')
  BY <1>1, <1>2, <1>5, Kinds DEF TypeInv, Sources
<1>7. unsaved' \in SUBSET (Nat \ {0})
  BY <1>1, MemoryKept
<1>. QED BY <1>1, <1>5, <1>6, <1>7, SilentStep, MemoryKept, AiredKept

\* speech.reset does.
LEMMA SpeechResetTyped == ASSUME TypeInv, NEW operator \in BOOLEAN, SpeechReset(operator) PROVE TypeInv'
<1>1. /\ d.op # "PENDING" /\ (operator \/ d.status = "RUNNING") /\ d' = Reset(d, operator)
      /\ (IF d.status = "RUNNING" THEN d.act ELSE d.from)
             \in AgentTurn \cup {"HUMAN_SPEAKING", "SPEECH_FINALIZING", "HUMAN_READY_TO_START"}
      /\ unsaved' = unsaved \ {d.speech} /\ fired' = fired /\ voiced' = voiced /\ starting' = starting
      /\ aired' = 0
  BY DEF SpeechReset, Running
<1>2. At(d) \in Turn
  BY <1>1 DEF At, Turn, HumanTurn
<1>3. ChoiceTyped(d') /\ WasReset(d', d, operator)
  BY <1>1, Resets DEF TypeInv, Typed
<1>4. Typed(d') /\ At(d') = Again(d) /\ d'.clock = NoTime
  BY <1>1, <1>2, <1>3, WasResetTyped DEF TypeInv
<1>5. d'.issued = d.issued
  BY <1>3 DEF WasReset, Same
<1>6. Sources(d', unsaved')
  BY <1>4, Kinds DEF Sources, Again
<1>7. unsaved' \in SUBSET (Nat \ {0})
  BY <1>1, MemoryKept
<1>. QED BY <1>1, <1>4, <1>5, <1>6, <1>7, SilentStep, MemoryKept, AiredKept

\* match.resume does.
LEMMA MatchResumeTyped == ASSUME TypeInv, MatchResume PROVE TypeInv'
<1>1. /\ d.status # "RUNNING" /\ d.failed = 0
      /\ d' = Arm([d EXCEPT !.status = "PAUSED", !.act = "RESUME_COUNTDOWN"], "resume.elapsed", Fresh)
      /\ unsaved' = unsaved /\ fired' = fired /\ voiced' = voiced /\ starting' = starting /\ aired' = aired
  BY DEF MatchResume, history
<1>2. ChoiceTyped(d') /\ Resuming(d', d)
  BY <1>1, Resumes DEF TypeInv, Typed
<1>3. Typed(d') /\ At(d') = At(d) /\ d'.clock = NoTime
  BY <1>1, <1>2, ResumingTyped DEF TypeInv
<1>4. d'.issued = d.issued /\ d'.src = d.src /\ d'.speech = d.speech /\ d'.failed = d.failed
  BY <1>2 DEF Resuming, Same, Names
<1>5. Sources(d', unsaved')
  BY <1>1, <1>3, <1>4, SourcesKept DEF TypeInv
<1>. QED BY <1>1, <1>3, <1>4, <1>5, SilentStep, MemoryKept, AiredKept

\* What recovery makes of the stored row and the lost memory has its types.
LEMMA CrashTyped == ASSUME TypeInv, Crash PROVE TypeInv'
<1>. DEFINE u == [Cancel(d) EXCEPT !.sel = "none", !.due = "none", !.ended = FALSE, !.wait = "none",
                                   !.ready = "none", !.clock = NoTime]
<1>1. /\ d.act # "ACTION_FINISHED" /\ d' = (IF d.status = "RUNNING" \/ d.failed # 0 THEN Recover(u) ELSE u)
      /\ fired' = << >> /\ starting' = {} /\ unsaved' \subseteq unsaved /\ voiced' = voiced
      /\ aired' = aired \/ aired' = 0
  BY DEF Crash, Running, HandsKept
<1>2. ChoiceTyped(u) /\ Lost(u, d)
  BY MemoryKept, Loses
<1>. HIDE DEF u
<1>3. Typed(d') /\ Sources(d', unsaved') /\ d'.clock = NoTime
  <2>1. CASE d.status = "RUNNING" \/ d.failed # 0
    <3>1. ChoiceTyped(d') /\ Recovered(d', u)
      BY <1>1, <1>2, <2>1, Recoveries
    <3>2. /\ Typed(d') /\ d'.src = d.src /\ d'.failed = d.failed /\ d'.clock = NoTime
          /\ d.failed = 0 => At(d') \notin OnAir
          /\ d.failed # 0 => At(d') = At(d) /\ d'.speech = d.speech
      BY <1>1, <1>2, <2>1, <3>1, RecoveredTyped DEF TypeInv
    <3>3. d'.act = "RECOVERY_REQUIRED"
      BY <3>1 DEF Recovered
    <3>4. At(d') # "ACTION_FINISHED"
      BY <3>2, <3>3, Kinds DEF Typed, Shape, At
    <3>. QED BY <1>1, <3>2, <3>4 DEF TypeInv, Sources
  <2>2. CASE ~(d.status = "RUNNING" \/ d.failed # 0)
    <3>1. d' = u
      BY <1>1, <2>2
    <3>2. Typed(d') /\ Same(d', d, TurnFields)
      BY <1>2, <2>2, <3>1, LostTyped DEF TypeInv
    <3>3. d'.clock = NoTime /\ d'.src = d.src
      BY <1>2, <3>1 DEF Lost, Same, Names
    <3>4. At(d') = At(d) /\ d'.speech = d.speech /\ d'.failed = d.failed
      BY <3>2 DEF Same, TurnFields, At
    <3>. QED BY <1>1, <3>2, <3>3, <3>4, SourcesKept DEF TypeInv
  <2>. QED BY <2>1, <2>2
<1>4. Competing(d')
  BY <1>3 DEF Competing, Typed, Times
<1>5. Queue'
  <2>1. << >> \in Seq(Nat) /\ Len(<< >>) = 0 /\ ToSet(<< >>) = {}
    BY DEF ToSet
  <2>2. MaxFired \in Nat
    BY DebateAssumption DEF DebateAssumption
  <2>. QED BY <1>1, <2>1, <2>2 DEF Queue
<1>6. Memory'
  BY <1>1, AiredKept DEF TypeInv, Memory
<1>. QED BY <1>3, <1>4, <1>5, <1>6 DEF TypeInv

\* human_text_known, agent_text_generated: the decisions start.
LEMMA TextKnownTyped ==
    ASSUME TypeInv, NEW speech, BeginDecisions(speech), starting' \subseteq starting
    PROVE  TypeInv'
<1>1. ChoiceTyped(d') /\ Stays(d', d)
  BY MemoryKept, DecisionsBegun
<1>2. fired' = fired /\ unsaved' = unsaved /\ voiced' = voiced /\ aired' = aired
  BY DEF BeginDecisions, history
<1>3. starting' \in SUBSET Nat /\ aired' \in Nat
  BY <1>2, MemoryKept, AiredKept
<1>. QED BY <1>1, <1>2, <1>3, StaysTyped

\* The text of a human speech, whether in time or late, keeps the types and the memory.
LEMMA HumanFinalTyped == ASSUME TypeInv, NEW speech, HumanFinal(speech) PROVE TypeInv'
<1>. DEFINE act == "SPEECH_FINALIZING"
<1>1. /\ speech \in unsaved /\ d' = IF IsCurrent(speech, act) THEN FinishTurn(d, aired) ELSE d
      /\ unsaved' = unsaved \ {speech} /\ starting' = starting \cup {speech} /\ fired' = fired /\ voiced' = voiced
      /\ aired' = aired \/ aired' = 0
  BY DEF HumanFinal, HasEnded, HandsKept
<1>2. act \in Finalizing
  BY DEF Finalizing
<1>3. starting' \in SUBSET Nat
  BY <1>1, MemoryKept
<1>. HIDE DEF act
<1>. QED BY <1>1, <1>2, <1>3, FinalTyped

\* So does the text of an agent speech.
LEMMA AgentFinalTyped == ASSUME TypeInv, NEW speech, AgentFinal(speech) PROVE TypeInv'
<1>. DEFINE act == "AGENT_FINALIZING"
<1>1. /\ speech \in unsaved /\ d' = IF IsCurrent(speech, act) THEN FinishTurn(d, aired) ELSE d
      /\ unsaved' = unsaved \ {speech} /\ starting' = starting /\ fired' = fired /\ voiced' = voiced
      /\ aired' = aired \/ aired' = 0
  BY DEF AgentFinal, HasEnded, HandsKept
<1>2. act \in Finalizing
  BY DEF Finalizing
<1>3. starting' \in SUBSET Nat
  BY <1>1, MemoryKept
<1>. HIDE DEF act
<1>. QED BY <1>1, <1>2, <1>3, FinalTyped

\* The free debate begins with its first selection, or with the host.
Begins(s) ==
    /\ s.status = "RUNNING" /\ s.act \in {"FREE_SELECTING", "HOST_ANNOUNCING"} /\ s.from = "none"
    /\ s.who = NoOne /\ s.side = NoSide /\ s.speech = 0 /\ s.issued = 0 /\ s.begun = 0 /\ s.left = NoTime
    /\ s.clock = NoTime /\ s.start = NoTime /\ s.used = 0 /\ s.settled = FALSE
    /\ s.budget = [side \in Sides |-> Total] /\ s.failed = 0 /\ s.op = "NONE"
    /\ s.holder = First /\ s.hands = << >> /\ s.src = 0 /\ s.opp # 0 /\ s.phase = "COMPETING"
    /\ s.round = s.opp

\* A debate begins with its types (_activate_action).
LEMMA StartTyped == ASSUME NEW host \in BOOLEAN, NEW t, t = Start(host) PROVE ChoiceTyped(t) /\ Begins(t)
<1>. DEFINE s == [status |-> "RUNNING", act |-> "FREE_SELECTING", from |-> "none", who |-> NoOne,
              side |-> NoSide, speech |-> 0, issued |-> 0, begun |-> 0, left |-> NoTime,
              clock |-> NoTime, start |-> NoTime, used |-> 0, settled |-> FALSE,
              budget |-> [side \in Sides |-> Total], holder |-> First, opp |-> 0, gen |-> 0,
              phase |-> "none", waiting |-> FALSE, hands |-> << >>, open |-> TRUE,
              round |-> 0, dec |-> Undecided, sel |-> "none", selLeft |-> FALSE, due |-> "none",
              ended |-> FALSE, src |-> 0, wait |-> "none", ready |-> "none", failed |-> 0,
              op |-> "NONE", timer |-> NoTimer]
            a == StartDecisions(s, First, FALSE)
            w == StartDecisions(s, First, TRUE)
<1>1. t = IF host THEN [a EXCEPT !.act = "HOST_ANNOUNCING"] ELSE Arm(w, "hand.window_closed", <<"free-initial">>)
  BY DEF Start
<1>2. DOMAIN s = Names
  BY DEF Names
<1>3. /\ s.holder = First /\ s.opp = 0 /\ s.gen = 0 /\ s.phase = "none" /\ s.waiting = FALSE
      /\ s.hands = << >> /\ s.open = TRUE /\ s.round = 0 /\ s.dec = Undecided /\ s.sel = "none"
      /\ s.selLeft = FALSE /\ s.due = "none" /\ s.ended = FALSE /\ s.src = 0 /\ s.wait = "none"
      /\ s.ready = "none" /\ s.issued = 0 /\ s.timer = NoTimer
  OBVIOUS
<1>4. /\ s.status = "RUNNING" /\ s.act = "FREE_SELECTING" /\ s.from = "none"
      /\ s.who = NoOne /\ s.side = NoSide /\ s.speech = 0 /\ s.issued = 0 /\ s.begun = 0 /\ s.left = NoTime
      /\ s.clock = NoTime /\ s.start = NoTime /\ s.used = 0 /\ s.settled = FALSE
      /\ s.budget = [side \in Sides |-> Total] /\ s.failed = 0 /\ s.op = "NONE"
  OBVIOUS
<1>. HIDE DEF s
<1>5. ChoiceTyped(s)
  <2>1. s.waiting \in BOOLEAN /\ s.open \in BOOLEAN /\ s.selLeft \in BOOLEAN /\ s.ended \in BOOLEAN
    BY <1>3
  <2>2. s.hands \in Seq(Humans)
    BY <1>3
  <2>3. s.dec \in [Agents -> Answers]
    BY <1>3 DEF Undecided, Answers
  <2>4. s.timer.cmd = "none" /\ s.timer.start = 0
    BY <1>3 DEF NoTimer
  <2>. QED BY <1>2, <1>3, <2>1, <2>2, <2>3, <2>4, Numbers DEF ChoiceTyped, Phases
<1>6. CASE host
  <2>1. t = [a EXCEPT !.act = "HOST_ANNOUNCING"]
    BY <1>1, <1>6
  <2>2. FALSE \in BOOLEAN /\ First \in Sides
    BY Numbers
  <2>3. /\ ChoiceTyped(a)
        /\ Same(a, s, TurnFields \cup {"holder", "hands", "open", "src", "ready", "timer"})
        /\ a.phase \in {"COMPETING", "MODEL_WAIT"} /\ (a.phase = "MODEL_WAIT" => s.phase = "MODEL_WAIT")
        /\ a.opp # 0 /\ a.round = a.opp
    BY <1>5, <2>2, Started
  <2>. HIDE DEF a
  <2>4. DOMAIN a = Names
    BY <2>3 DEF ChoiceTyped
  <2>5. DOMAIN t = Names /\ t.act = "HOST_ANNOUNCING" /\ Same(t, a, Names \ {"act"})
    BY <2>1, <2>4 DEF Names, Same
  <2>6. ChoiceTyped(t)
    <3>1. /\ t.opp = a.opp /\ t.phase = a.phase /\ t.hands = a.hands /\ t.waiting = a.waiting /\ t.open = a.open
          /\ t.round = a.round /\ t.dec = a.dec /\ t.due = a.due /\ t.ended = a.ended /\ t.timer = a.timer
          /\ t.holder = a.holder /\ t.src = a.src /\ t.issued = a.issued /\ t.gen = a.gen
          /\ t.sel = a.sel /\ t.selLeft = a.selLeft /\ t.wait = a.wait /\ t.ready = a.ready
      BY <2>5 DEF Same, Names
    <3>. QED BY <2>3, <2>5, <3>1 DEF ChoiceTyped
  <2>7. /\ Same(t, s, (TurnFields \cup {"holder", "hands", "src"}) \ {"act"}) /\ t.phase = "COMPETING"
        /\ t.opp # 0 /\ t.round = t.opp
    BY <1>3, <2>3, <2>5 DEF Same, Names, TurnFields
  <2>. QED BY <1>3, <1>4, <2>5, <2>6, <2>7 DEF Begins, Same, TurnFields
<1>7. CASE ~host
  <2>1. t = Arm(w, "hand.window_closed", <<"free-initial">>)
    BY <1>1, <1>7
  <2>2. TRUE \in BOOLEAN /\ First \in Sides /\ "hand.window_closed" \in Commands \ {"speech.deadline"}
    BY Numbers DEF Commands
  <2>3. /\ ChoiceTyped(w)
        /\ Same(w, s, TurnFields \cup {"holder", "hands", "open", "src", "ready", "timer"})
        /\ w.phase \in {"COMPETING", "MODEL_WAIT"} /\ (w.phase = "MODEL_WAIT" => s.phase = "MODEL_WAIT")
        /\ w.opp # 0 /\ w.round = w.opp
    BY <1>5, <2>2, Started
  <2>. HIDE DEF w
  <2>4. ChoiceTyped(t) /\ Same(t, w, Names \ {"timer"})
    BY <2>1, <2>2, <2>3, Rearmed
  <2>5. /\ Same(t, s, TurnFields \cup {"holder", "hands", "src"}) /\ t.phase = "COMPETING"
        /\ t.opp # 0 /\ t.round = t.opp
    BY <1>3, <2>3, <2>4 DEF Same, Names, TurnFields
  <2>. QED BY <1>3, <1>4, <2>4, <2>5 DEF Begins, Same, TurnFields
<1>. QED BY <1>6, <1>7

\* The inductive invariant holds at the start.
LEMMA InitTyped == ASSUME Init PROVE TypeInv
<1>1. d = Start(Announced) /\ Announced \in BOOLEAN
  BY DebateAssumption DEF Init, DebateAssumption
<1>2. ChoiceTyped(d) /\ Begins(d)
  BY <1>1, StartTyped
<1>3. At(d) = d.act /\ d.act \in {"FREE_SELECTING", "HOST_ANNOUNCING"}
  BY <1>2 DEF At, Begins
<1>4. TurnTyped(d)
  <2>1. d.settled \in BOOLEAN
    BY <1>2 DEF Begins
  <2>2. d.act \in ActionStates
    BY <1>3 DEF ActionStates
  <2>3. d.budget \in [Sides -> 0..Total]
    BY <1>2, Numbers DEF Begins
  <2>. QED BY <1>2, <2>1, <2>2, <2>3, Numbers DEF Begins, TurnTyped
<1>5. Shape(d) /\ Times(d)
  BY <1>2, <1>3, Kinds DEF Begins, Shape, Times
<1>6. Competing(d) /\ Sources(d, unsaved)
  BY <1>3, Kinds DEF Competing, Sources
<1>7. Memory
  BY DEF Init, Memory
<1>8. Queue
  <2>1. << >> \in Seq(Nat) /\ Len(<< >>) = 0 /\ ToSet(<< >>) = {}
    BY DEF ToSet
  <2>2. MaxFired \in Nat
    BY DebateAssumption DEF DebateAssumption
  <2>. QED BY <2>1, <2>2 DEF Init, Queue
<1>. QED BY <1>2, <1>4, <1>5, <1>6, <1>7, <1>8 DEF TypeInv, Typed

\* Every handler keeps the types.
LEMMA NextTyped == ASSUME TypeInv, Next PROVE TypeInv'
<1>1. CASE HostFinished \/ AgentTextKnown \/ DecisionsDue \/ Tick \/ Finishes \/ Fire \/ Handle
  <2>1. ASSUME AgentTextKnown PROVE TypeInv'
    BY <2>1, TextKnownTyped DEF AgentTextKnown
  <2>. QED BY <1>1, <2>1, HostFinishedTyped, DecisionsDueTyped, TickTyped, FinishesTyped, FireTyped, HandleTyped
<1>2. ASSUME NEW h \in Humans, HandRaise(h) \/ HandCancel(h) \/ HumanStarts(h) PROVE TypeInv'
  BY <1>2, HandRaiseTyped, HandCancelTyped, HumanStartsTyped
<1>3. ASSUME NEW a \in Agents, AgentStarts(a) \/ \E answer \in {"HAND", "SKIP", "FAILED"} : Decide(a, answer)
      PROVE  TypeInv'
  BY <1>3, AgentStartsTyped, DecideTyped
<1>4. ASSUME NEW speech, HumanTextKnown(speech) PROVE TypeInv'
  BY <1>4, TextKnownTyped DEF HumanTextKnown
<1>5. ASSUME NEW speech, RecognitionFails(speech) \/ HumanFinal(speech) \/ AgentFinal(speech) PROVE TypeInv'
  BY <1>5, RecognitionFailsTyped, HumanFinalTyped, AgentFinalTyped
<1>6. CASE MatchPause \/ AgentFails \/ RetryRecognition \/ RetrySucceeds \/ RetryFails \/ MatchResume \/ Crash
  BY <1>6, MatchPauseTyped, AgentFailsTyped, RetryRecognitionTyped, RetrySucceedsTyped, RetryFailsTyped,
     MatchResumeTyped, CrashTyped
<1>7. ASSUME NEW operator \in BOOLEAN, SpeechReset(operator) PROVE TypeInv'
  BY <1>7, SpeechResetTyped
<1>. QED BY <1>1, <1>2, <1>3, <1>4, <1>5, <1>6, <1>7 DEF Next

\* It depends on the variables only.
LEMMA StutterTyped == ASSUME TypeInv, UNCHANGED vars PROVE TypeInv'
<1>1. d' = d /\ unsaved' = unsaved /\ fired' = fired /\ voiced' = voiced /\ starting' = starting /\ aired' = aired
  BY DEF vars
<1>. QED BY <1>1 DEF TypeInv, Memory, Queue

\* The types that the runs check follow.
LEMMA TypesFollow == ASSUME TypeInv PROVE TypeOK
<1>1. Typed(d) /\ ChoiceTyped(d) /\ TurnTyped(d)
  BY DEF TypeInv, Typed
<1>2. ToSet(d.hands) \subseteq Humans
  BY <1>1, Elements DEF ChoiceTyped
<1>3. Len(fired) <= MaxFired /\ unsaved \cup voiced \cup starting \subseteq Nat
  BY DEF TypeInv, Queue, Memory
<1>4. d.dec \in [Agents -> {"none", "DECIDING", "HAND", "SKIP", "FAILED"}] /\ d.holder \in Sides /\ d.phase \in Phases
      /\ d.opp <= d.gen
  <2>1. Answers = {"none", "DECIDING", "HAND", "SKIP", "FAILED"}
    BY DEF Answers
  <2>. QED BY <1>1, <2>1 DEF ChoiceTyped
<1>5. /\ d.sel \in Waits \cup {"due"} /\ d.wait \in Waits /\ d.ready \in Waits /\ d.due \in Waits \cup {"tied"}
  BY <1>1 DEF ChoiceTyped, Waits
<1>6. {d.speech, d.issued, d.begun, d.src, d.failed} \subseteq Nat /\ {d.left, d.clock, d.start} \subseteq Ticks
  BY <1>1 DEF ChoiceTyped, TurnTyped, Ticks
<1>. QED BY <1>1, <1>2, <1>3, <1>4, <1>5, <1>6 DEF TypeOK, TurnTyped

\* The record of the actor and the memory around it keep their types, whatever
\* is interrupted, late or repeated (MatchRuntimeState, MatchActor).
THEOREM TypesKept == Spec => []TypeInv
<1>1. Init => TypeInv
  BY InitTyped
<1>2. TypeInv /\ [Next]_vars => TypeInv'
  BY NextTyped, StutterTyped
<1>. QED BY <1>1, <1>2, PTL DEF Spec

\* What the run checks of the types follows (MatchRuntimeState).
THEOREM DebateTypes == Spec => []TypeOK
BY TypesKept, TypesFollow, PTL

-----------------------------------------------------------------------------
(* The budgets, outcome by outcome *)

\* Ticks counted since the choice: from nothing when somebody is chosen.
Since(t, s, n) == IF t.phase = "ALLOCATED" /\ s.phase # "ALLOCATED" THEN 0 ELSE n

\* What the types say of the budgets and of the turn.
LEMMA TurnFacts ==
    ASSUME NEW s, Typed(s)
    PROVE  /\ s.budget \in [Sides -> 0..Total] /\ s.left \in -1..Total /\ s.clock \in -1..Total
           /\ s.start \in -1..Total /\ s.used \in 0..Total /\ s.settled \in BOOLEAN
           /\ s.speech \in Nat /\ s.failed \in Nat
           /\ s.holder \in Sides /\ s.hands \in Seq(Humans) /\ ToSet(s.hands) \subseteq Humans
           /\ At(s) \in Turn => s.side \in Sides
           /\ At(s) \in Speaking => s.start # NoTime /\ s.settled = FALSE
           /\ At(s) \in Finalizing => s.settled = TRUE
           /\ s.clock # NoTime => At(s) \in Speaking /\ s.clock <= s.left
<1>1. s.hands \in Seq(Humans) /\ s.holder \in Sides
  BY DEF Typed, ChoiceTyped
<1>2. ToSet(s.hands) \subseteq Humans
  BY <1>1, Elements
<1>3. s.settled \in BOOLEAN
  BY DEF Typed, TurnTyped
<1>4. At(s) \in Speaking => s.start # NoTime /\ s.settled = FALSE
  BY <1>3 DEF Typed, Times
<1>5. At(s) \in Finalizing => s.settled = TRUE
  BY <1>3 DEF Typed, Times
<1>6. s.clock # NoTime => At(s) \in Speaking /\ s.clock <= s.left
  BY DEF Typed, Times, At
<1>7. /\ s.budget \in [Sides -> 0..Total] /\ s.left \in -1..Total /\ s.clock \in -1..Total
      /\ s.start \in -1..Total /\ s.used \in 0..Total /\ s.speech \in Nat /\ s.failed \in Nat
  BY DEF Typed, TurnTyped
<1>8. At(s) \in Turn => s.side \in Sides
  BY DEF Typed, Shape
<1>. QED BY <1>1, <1>2, <1>3, <1>4, <1>5, <1>6, <1>7, <1>8

\* The accounts are a matter of these fields.
Purse == {"side", "speech", "left", "clock", "start", "used", "settled", "budget", "failed"}

\* What is paid depends on the purse and on what the match does.
LEMMA PaidSame ==
    ASSUME NEW s, NEW t, NEW n, NEW a, NEW c, Paid(s, n, a, c), At(t) = At(s), Same(t, s, Purse)
    PROVE  Paid(t, n, a, c)
<1>1. /\ t.side = s.side /\ t.speech = s.speech /\ t.left = s.left /\ t.clock = s.clock /\ t.start = s.start
      /\ t.used = s.used /\ t.settled = s.settled /\ t.budget = s.budget /\ t.failed = s.failed
  BY DEF Same, Purse
<1>2. Stale(t) <=> Stale(s)
  BY <1>1 DEF Stale
<1>3. Pays(s, n, c) => Pays(t, n, c)
  BY <1>1 DEF Pays
<1>4. OwnTurn(s, n, a, c) => OwnTurn(t, n, a, c)
  BY <1>1, <1>2, <1>3 DEF OwnTurn
<1>. QED BY <1>1, <1>4 DEF Paid

\* Hands may be taken down.
LEMMA HandsSame ==
    ASSUME NEW s, NEW t, Hands(s), At(t) = At(s), Same(t, s, {"side", "left", "start", "budget", "opp", "phase"}),
           ToSet(t.hands) \subseteq ToSet(s.hands)
    PROVE  Hands(t)
<1>1. /\ t.side = s.side /\ t.left = s.left /\ t.start = s.start /\ t.budget = s.budget /\ t.opp = s.opp
      /\ t.phase = s.phase
  BY DEF Same
<1>. QED BY <1>1 DEF Hands, HandsPaid, HandsOpposite, PhaseOK, NewlyChosen

\* A step that leaves the purse and the choice alone, and raises no hand, keeps the balance.
LEMMA BalancedSame ==
    ASSUME NEW s, NEW t, NEW n, NEW a, NEW c, Balanced(s, n, a, c), At(t) = At(s),
           Same(t, s, Purse \cup {"opp", "phase"}), ToSet(t.hands) \subseteq ToSet(s.hands)
    PROVE  Balanced(t, n, Since(t, s, a), Since(t, s, c))
<1>1. Same(t, s, Purse) /\ Same(t, s, {"side", "left", "start", "budget", "opp", "phase"})
  BY DEF Same, Purse
<1>2. t.phase = s.phase
  BY DEF Same
<1>3. Since(t, s, a) = a /\ Since(t, s, c) = c
  BY <1>2 DEF Since
<1>. QED BY <1>1, <1>3, PaidSame, HandsSame DEF Balanced


\* _select_free_human: whoever is chosen can pay.
LEMMA ChoseHumanBalanced ==
    ASSUME NEW s, Typed(s), s.status = "RUNNING", s.act \notin Speaking, s.phase # "ALLOCATED", HandsPaid(s),
           NEW n, NEW a, NEW c, Paid(s, n, a, c), NEW t, Typed(t), ChoseHuman(t, s)
    PROVE  Balanced(t, n, Since(t, s, a), Since(t, s, c))
<1>1. /\ t.act = "HUMAN_READY_TO_START" /\ t.speech = 0 /\ t.start = NoTime /\ t.used = 0
      /\ t.who \in ToSet(s.hands) \cap HumansOf(s.holder) /\ t.side = s.holder
      /\ t.left = TurnOf(s, s.holder) /\ t.phase = "ALLOCATED" /\ ToSet(t.hands) \subseteq ToSet(s.hands)
      /\ t.status = s.status /\ t.clock = s.clock /\ t.budget = s.budget /\ t.failed = s.failed
  BY DEF ChoseHuman, Same, Unchosen
<1>2. s.clock = NoTime /\ s.failed = 0 /\ s.holder \in Sides /\ s.budget \in [Sides -> 0..Total]
  BY DEF Typed, Times, Shape, ChoiceTyped, TurnTyped
<1>3. s.budget[s.holder] > 0
  BY <1>1 DEF HandsPaid, HumansOf
<1>4. t.left \in 1..Total /\ t.left <= s.budget[s.holder] /\ t.left <= MaxTurn
  BY <1>1, <1>2, <1>3, TurnTime
<1>5. At(t) = "HUMAN_READY_TO_START" /\ At(t) \in HumanTurn /\ At(t) \in Turn
  BY <1>1, Kinds DEF At
<1>6. Hands(t)
  <2>1. HandsPaid(t)
    BY <1>1 DEF HandsPaid
  <2>2. NewlyChosen(t)
    BY <1>1, <1>5 DEF NewlyChosen
  <2>3. PhaseOK(t)
    BY <1>1, <1>3, <1>4, <1>5 DEF PhaseOK
  <2>. QED BY <2>1, <2>2, <2>3 DEF Hands, HandsOpposite
<1>7. Paid(t, n, 0, 0)
  <2>1. /\ n \in [Sides -> 0..Total] /\ \A side \in Sides : Settles(s.budget[side], n[side])
    BY <1>2 DEF Paid
  <2>2. OwnTurn(t, n, 0, 0)
    BY <1>1, <1>2, <1>4, <2>1, Numbers DEF OwnTurn
  <2>. QED BY <1>1, <1>2, <1>5, <2>1, <2>2, Numbers DEF Paid
<1>8. Since(t, s, a) = 0 /\ Since(t, s, c) = 0
  BY <1>1 DEF Since
<1>. QED BY <1>6, <1>7, <1>8 DEF Balanced

\* An agent is chosen, or a human awaited: the charge before is settled.
LEMMA ChoseOtherBalanced ==
    ASSUME NEW s, Typed(s), s.status = "RUNNING", s.act \notin Speaking, s.phase # "ALLOCATED",
           s.start = NoTime \/ s.settled,
           NEW n, NEW a, NEW c, Paid(s, n, a, c), NEW t, Typed(t), ChoseAgent(t, s) \/ WaitsForHuman(t, s)
    PROVE  Balanced(t, n, Since(t, s, a), Since(t, s, c))
<1>1. /\ t.hands = << >> /\ t.status = s.status /\ t.clock = s.clock /\ t.budget = s.budget /\ t.failed = s.failed
      /\ t.speech = s.speech /\ t.start = s.start /\ t.used = s.used /\ t.settled = s.settled
  BY DEF ChoseAgent, WaitsForHuman, Same, Unchosen, Charge0
<1>2. s.clock = NoTime /\ s.failed = 0 /\ s.holder \in Sides /\ s.budget \in [Sides -> 0..Total]
  BY DEF Typed, Times, Shape, ChoiceTyped, TurnTyped
<1>3. ToSet(t.hands) = {}
  BY <1>1 DEF ToSet
<1>4. /\ n \in [Sides -> 0..Total] /\ a \in 0..MaxTurn /\ \A side \in Sides : Settles(s.budget[side], n[side])
  BY <1>2 DEF Paid
<1>5. CASE ChoseAgent(t, s)
  <2>1. t.act = "AGENT_PREPARING" /\ t.side = s.holder /\ t.left = TurnOf(s, s.holder) /\ t.phase = "ALLOCATED"
    BY <1>5 DEF ChoseAgent
  <2>2. At(t) = "AGENT_PREPARING" /\ At(t) \in AgentTurn /\ At(t) \in Turn
    BY <1>1, <2>1, Kinds DEF At
  <2>3. t.left \in 0..Total /\ t.left <= s.budget[s.holder] /\ t.left <= MaxTurn
    BY <1>2, <2>1, TurnTime
  <2>4. Hands(t)
    BY <1>3, <2>1, <2>2 DEF Hands, HandsPaid, HandsOpposite, PhaseOK, NewlyChosen
  <2>5. t.start = NoTime \/ Stale(t)
    BY <1>1, <2>2 DEF Stale
  <2>6. OwnTurn(t, n, 0, 0)
    BY <1>1, <1>2, <1>4, <2>1, <2>3, <2>5, Numbers DEF OwnTurn
  <2>7. Paid(t, n, 0, 0)
    BY <1>1, <1>2, <1>4, <2>2, <2>6, Numbers, Kinds DEF Paid
  <2>8. Since(t, s, a) = 0 /\ Since(t, s, c) = 0
    BY <2>1 DEF Since
  <2>. QED BY <2>4, <2>7, <2>8 DEF Balanced
<1>6. CASE WaitsForHuman(t, s)
  <2>1. t.act = "FREE_SELECTING" /\ t.phase = "HUMAN_ONLY_WAIT" /\ t.side = s.side
    BY <1>6 DEF WaitsForHuman, Same
  <2>2. At(t) = "FREE_SELECTING" /\ At(t) \notin Turn
    BY <1>1, <2>1, Kinds DEF At
  <2>3. Hands(t)
    BY <1>3, <2>1, <2>2 DEF Hands, HandsPaid, HandsOpposite, PhaseOK, NewlyChosen
  <2>4. Paid(t, n, a, c)
    BY <1>1, <1>2, <1>4, <2>1, <2>2, Kinds DEF Paid
  <2>5. Since(t, s, a) = a /\ Since(t, s, c) = c
    BY <2>1 DEF Since
  <2>. QED BY <2>3, <2>4, <2>5 DEF Balanced
<1>. QED BY <1>5, <1>6

\* Whoever is chosen, a human or an agent, is chosen with the balance kept:
\* everybody's earlier speech is paid by then.
LEMMA ChoseBalanced ==
    ASSUME NEW s, Typed(s), s.status = "RUNNING", s.act \in {"FREE_SELECTING", "HOST_ANNOUNCING"} \cup Finalizing,
           NEW n, NEW a, NEW c, Balanced(s, n, a, c), NEW t, Typed(t), Chose(t, s)
    PROVE  Balanced(t, n, Since(t, s, a), Since(t, s, c))
<1>1. At(s) = s.act /\ s.act \notin Speaking /\ s.act \notin {"HUMAN_READY_TO_START", "AGENT_PREPARING"}
  BY Kinds DEF At, Finalizing, Speaking
<1>2. s.start = NoTime \/ s.settled
  BY <1>1, TurnFacts, Kinds, ZenonT(60) DEF Balanced, Paid
<1>3. s.phase # "ALLOCATED"
  BY <1>1 DEF Balanced, Hands, PhaseOK
<1>. QED BY <1>1, <1>2, <1>3, ChoseHumanBalanced, ChoseOtherBalanced DEF Chose, Balanced, Hands

\* A selection whose window closes.
LEMMA SelectedBalanced ==
    ASSUME NEW s, Typed(s), s.status = "RUNNING", s.act = "FREE_SELECTING",
           NEW n, NEW a, NEW c, Balanced(s, n, a, c), NEW t, Typed(t), Selected(t, s)
    PROVE  Balanced(t, n, Since(t, s, a), Since(t, s, c))
<1>1. CASE Chose(t, s)
  BY <1>1, ChoseBalanced
<1>2. CASE Same(t, s, TurnFields \cup {"holder", "opp", "gen", "src", "hands", "phase"})
  <2>1. Same(t, s, Purse \cup {"opp", "phase"}) /\ t.status = s.status /\ t.act = s.act /\ t.hands = s.hands
    BY <1>2 DEF Same, TurnFields, Purse
  <2>2. At(t) = At(s)
    BY <2>1 DEF At
  <2>. QED BY <2>1, <2>2, BalancedSame
<1>3. CASE WaitsForModel(t, s)
  <2>1. Same(t, s, TurnFields \cup {"hands"}) /\ t.phase = "MODEL_WAIT"
    BY <1>3 DEF WaitsForModel, Same
  <2>2. Same(t, s, Purse) /\ t.status = s.status /\ t.act = s.act /\ t.hands = s.hands
    BY <2>1 DEF Same, TurnFields, Purse
  <2>3. At(t) = At(s) /\ At(t) = "FREE_SELECTING" /\ At(t) \notin Turn
    BY <2>2, Kinds DEF At
  <2>4. Paid(t, n, a, c)
    BY <2>2, <2>3, PaidSame DEF Balanced
  <2>5. t.budget = s.budget
    BY <2>2 DEF Same, Purse
  <2>6. Hands(t)
    BY <2>1, <2>2, <2>3, <2>5 DEF Balanced, Hands, HandsPaid, HandsOpposite, PhaseOK, NewlyChosen
  <2>7. Since(t, s, a) = a /\ Since(t, s, c) = c
    BY <2>1 DEF Since
  <2>. QED BY <2>4, <2>6, <2>7 DEF Balanced
<1>. QED BY <1>1, <1>2, <1>3 DEF Selected

\* A rest too small to speak is forfeit.
LEMMA UsableSettles ==
    ASSUME NEW b \in 0..Total, NEW n \in 0..Total, Settles(b, n)
    PROVE  Usable(b) \in 0..Total /\ Settles(Usable(b), n)
BY Numbers DEF Usable, Settles

\* _finish_free_turn of a speech that is settled
LEMMA TurnFinishedBalanced ==
    ASSUME NEW s, Typed(s), s.status = "RUNNING", s.act \in Finalizing, NEW audio \in Nat,
           NEW n, NEW a, NEW c, Balanced(s, n, a, c), NEW t, Typed(t), TurnFinished(t, s, audio)
    PROVE  Balanced(t, n, Since(t, s, a), Since(t, s, c)) /\ t.phase # "ALLOCATED" /\ s.phase # "ALLOCATED"
<1>1. /\ t.start = NoTime /\ t.side = NoSide /\ t.clock = NoTime /\ t.status = s.status
      /\ t.budget = [x \in Sides |-> IF x = s.side THEN Mine(s, audio) ELSE Theirs(s)]
      /\ t.speech = 0 /\ t.failed = s.failed
  BY DEF TurnFinished, Same
<1>2. At(s) = s.act /\ At(s) \in Turn /\ At(s) \notin {"HUMAN_READY_TO_START", "AGENT_PREPARING"}
  BY Kinds DEF At, Finalizing
<1>3. s.side \in Sides /\ s.settled = TRUE /\ s.budget \in [Sides -> 0..Total] /\ s.left \in -1..Total /\ s.failed = 0
  BY <1>2, TurnFacts DEF Typed, Shape
<1>4. s.clock = NoTime
  BY Kinds DEF Typed, Times
<1>5. n \in [Sides -> 0..Total] /\ a \in 0..MaxTurn /\ \A side \in Sides : Settles(s.budget[side], n[side])
  BY <1>4 DEF Balanced, Paid
<1>6. Mine(s, audio) = Usable(s.budget[s.side]) /\ Theirs(s) = Usable(s.budget[Other(s.side)])
  BY <1>3, Rests DEF Theirs
<1>7. \A side \in Sides : t.budget[side] = Usable(s.budget[side])
  BY <1>1, <1>3, <1>6, Numbers
<1>8. \A side \in Sides : Settles(t.budget[side], n[side])
  BY <1>3, <1>5, <1>7, UsableSettles
<1>9. At(t) \in {"ACTION_FINISHED", "FREE_SELECTING"} /\ At(t) \notin Turn
  <2>1. t.act \in {"ACTION_FINISHED", "FREE_SELECTING"}
    BY DEF TurnFinished
  <2>. QED BY <1>1, <2>1, Kinds DEF At
<1>10. Paid(t, n, a, c)
  BY <1>1, <1>3, <1>5, <1>8, <1>9, Kinds DEF Paid
<1>11. s.phase # "ALLOCATED" /\ t.phase \in {"none", s.phase}
  BY <1>2 DEF Balanced, Hands, PhaseOK, TurnFinished
<1>12. HandsPaid(t)
  <2>1. CASE t.hands = << >>
    BY <2>1 DEF ToSet, HandsPaid
  <2>2. CASE /\ Mine(s, audio) # 0 \/ Theirs(s) # 0
             /\ t.holder = (IF Theirs(s) > 0 THEN Other(s.side) ELSE s.side)
             /\ t.hands = HandsLeft(s.hands, t.holder)
    <3>1. s.hands \in Seq(Humans)
      BY TurnFacts
    <3>2. ToSet(t.hands) = ToSet(s.hands) \cap HumansOf(t.holder)
      BY <2>2, <3>1, Kept DEF HandsLeft
    <3>3. Mine(s, audio) \in 0..Total /\ Theirs(s) \in 0..Total
      BY <1>3, Rests
    <3>4. t.budget[t.holder] > 0
      BY <1>1, <1>3, <2>2, <3>3, Numbers
    <3>. QED BY <3>2, <3>4 DEF HandsPaid, HumansOf
  <2>. QED BY <2>1, <2>2 DEF TurnFinished
<1>13. Hands(t)
  BY <1>9, <1>11, <1>12 DEF Hands, HandsOpposite, PhaseOK, NewlyChosen
<1>14. Since(t, s, a) = a /\ Since(t, s, c) = c
  BY <1>11 DEF Since
<1>. QED BY <1>10, <1>11, <1>13, <1>14 DEF Balanced

\* _hand_window_closed
LEMMA ClosedBalanced ==
    ASSUME NEW s, Typed(s), s.status = "RUNNING", NEW n, NEW a, NEW c, Balanced(s, n, a, c),
           NEW t, ChoiceTyped(t), IsClosed(t, s)
    PROVE  Balanced(t, n, Since(t, s, a), Since(t, s, c))
<1>0. Typed(t)
  BY ClosedTyped
<1>1. CASE t = s
  BY <1>1 DEF Since
<1>2. CASE s.act = "FREE_SELECTING" /\ Selected(t, s)
  BY <1>0, <1>2, SelectedBalanced
<1>3. CASE s.act \in Finalizing /\ GivenUp(t, s)
  <2>1. Same(t, s, TurnFields \cup {"opp", "phase"}) /\ t.hands = << >>
    BY <1>3 DEF GivenUp, Same
  <2>2. Same(t, s, Purse \cup {"opp", "phase"}) /\ t.status = s.status /\ t.act = s.act
    BY <2>1 DEF Same, TurnFields, Purse
  <2>3. At(t) = At(s) /\ ToSet(t.hands) \subseteq ToSet(s.hands)
    BY <2>1, <2>2 DEF At, ToSet
  <2>. QED BY <2>2, <2>3, BalancedSame
<1>4. ASSUME s.act \in Finalizing, NEW r, ChoiceTyped(r), TurnFinished(r, s, 0),
             IF r.act = "FREE_SELECTING" THEN Selected(t, r) ELSE t = r
      PROVE  Balanced(t, n, Since(t, s, a), Since(t, s, c))
  <2>1. s.side \in Sides
    <3>1. At(s) \in Turn
      BY <1>4, Kinds DEF At
    <3>. QED BY <3>1, TurnFacts
  <2>2. Typed(r)
    BY <1>4, <2>1, TurnFinishedTyped
  <2>3. /\ Balanced(r, n, Since(r, s, a), Since(r, s, c)) /\ r.phase # "ALLOCATED" /\ s.phase # "ALLOCATED"
        /\ r.status = "RUNNING"
    <3>1. Balanced(r, n, Since(r, s, a), Since(r, s, c)) /\ r.phase # "ALLOCATED" /\ s.phase # "ALLOCATED"
      BY <1>4, <2>2, TurnFinishedBalanced
    <3>2. r.status = s.status
      BY <1>4 DEF TurnFinished, Same
    <3>. QED BY <3>1, <3>2
  <2>4. Since(r, s, a) = a /\ Since(r, s, c) = c
    BY <2>3 DEF Since
  <2>5. CASE t = r
    BY <2>3, <2>5
  <2>6. CASE r.act = "FREE_SELECTING" /\ Selected(t, r)
    <3>1. Balanced(t, n, Since(t, r, a), Since(t, r, c))
      BY <1>0, <2>2, <2>3, <2>4, <2>6, SelectedBalanced
    <3>2. Since(t, r, a) = Since(t, s, a) /\ Since(t, r, c) = Since(t, s, c)
      BY <2>3 DEF Since
    <3>. QED BY <3>1, <3>2
  <2>. QED BY <1>4, <2>5, <2>6
<1>. QED BY <1>1, <1>2, <1>3, <1>4 DEF IsClosed

\* _freeze_speech_budget: the ticks of a speech that is stopped are consumed,
\* and one that had stopped pays what it had paid.
Stopped(f, s, n, c) ==
    /\ s.clock # NoTime => /\ f.left = s.clock /\ f.used = c /\ f.start = s.start /\ f.start # NoTime
                           /\ f.budget[s.side] = s.start - c /\ f.used + f.left <= f.start
                           /\ Settles(f.start, n[s.side] - c) /\ Settles(f.budget[s.side], n[s.side])
                           /\ \A side \in Sides \ {s.side} : f.budget[side] = s.budget[side]
    /\ s.clock = NoTime => f.left = s.left /\ f.used = s.used /\ f.budget = s.budget

\* _freeze_speech_budget pays what was spoken so far.
LEMMA FrozenBalanced ==
    ASSUME NEW s, Typed(s), NEW n, NEW a, NEW c, Paid(s, n, a, c), NEW terminal, NEW limit \in BOOLEAN,
           limit => s.clock = 0, NEW f, Frozen(f, s, terminal, limit)
    PROVE  Stopped(f, s, n, c)
<1>1. /\ s.budget \in [Sides -> 0..Total] /\ s.left \in -1..Total /\ s.clock \in -1..Total
      /\ s.start \in -1..Total /\ s.used \in 0..Total /\ s.settled \in BOOLEAN
  BY TurnFacts
<1>2. CASE ~Owes(s)
  <2>1. f = s
    BY <1>2 DEF Frozen
  <2>2. s.clock = NoTime
    <3>1. s.clock # NoTime => At(s) \in Turn /\ s.start # NoTime /\ s.settled = FALSE /\ s.side \in Sides
      BY TurnFacts, Kinds
    <3>. QED BY <1>2, <3>1, Numbers DEF Owes
  <2>. QED BY <2>1, <2>2 DEF Stopped
<1>3. CASE Owes(s)
  <2>1. /\ f.left = Rest(s, limit) /\ f.used = Consumed(s, limit)
        /\ f.budget = [s.budget EXCEPT ![s.side] = AtLeastZero(s.start - Consumed(s, limit))]
        /\ f.start = s.start
    BY <1>3 DEF Frozen, Same, Names
  <2>2. s.start # NoTime /\ ~s.settled /\ At(s) \in Turn /\ s.side \in Sides
    <3>1. s.start # NoTime /\ ~s.settled
      BY <1>3 DEF Owes
    <3>. QED BY <3>1, TurnFacts DEF Paid
  <2>3. Pays(s, n, c) /\ s.left >= 0 /\ c \in 0..n[s.side] /\ n[s.side] \in 0..Total
    BY <2>2 DEF Paid, OwnTurn, Stale
  <2>4. CASE s.clock = NoTime
    <3>1. Rest(s, limit) = s.left /\ Consumed(s, limit) = s.used
      BY <1>1, <2>3, <2>4 DEF Rest, Consumed, AtLeastZero
    <3>2. s.budget[s.side] = s.start - s.used /\ s.budget[s.side] \in 0..Total
      BY <1>1, <2>2, <2>3, <2>4 DEF Pays
    <3>3. AtLeastZero(s.start - s.used) = s.budget[s.side]
      BY <3>2 DEF AtLeastZero
    <3>4. f.budget = s.budget
      BY <1>1, <2>1, <3>1, <3>3
    <3>. QED BY <2>1, <2>4, <3>1, <3>4 DEF Stopped
  <2>5. CASE s.clock # NoTime
    <3>0. s.clock <= s.left
      BY <2>5, TurnFacts
    <3>1. s.clock \in 0..Total /\ s.clock <= s.left
      BY <1>1, <2>5, <3>0, Numbers
    <3>2. Rest(s, limit) = s.clock
      BY <1>1, <2>3, <2>5, <3>1 DEF Rest, AtLeastZero, Smaller
    <3>3. Consumed(s, limit) = c
      BY <1>1, <2>3, <2>5, <3>1, <3>2 DEF Consumed, Pays
    <3>4. c + s.clock <= s.start /\ Settles(s.start, n[s.side] - c)
      BY <1>1, <2>3, <2>5, <3>1 DEF Pays
    <3>5. AtLeastZero(s.start - c) = s.start - c
      BY <1>1, <2>3, <3>1, <3>4 DEF AtLeastZero
    <3>6. f.budget[s.side] = s.start - c /\ \A side \in Sides \ {s.side} : f.budget[side] = s.budget[side]
      BY <1>1, <2>1, <2>2, <3>3, <3>5
    <3>7. Settles(s.start - c, n[s.side])
      BY <1>1, <2>3, <3>1, <3>4, Numbers DEF Settles
    <3>. QED BY <1>1, <2>1, <2>2, <2>5, <3>2, <3>3, <3>4, <3>6, <3>7, Numbers DEF Stopped
  <2>. QED BY <2>4, <2>5
<1>. QED BY <1>2, <1>3

\* The clock of whoever speaks is what is left of the turn.
LEMMA StoppedOwn ==
    ASSUME NEW s, Typed(s), NEW n, NEW a, NEW c, Paid(s, n, a, c), s.clock # NoTime,
           NEW f, Stopped(f, s, n, c), NEW t, t.side = s.side, t.clock = NoTime,
           t.left = f.left, t.used = f.used, t.start = f.start, t.budget = f.budget
    PROVE  OwnTurn(t, n, a, c) /\ \A side \in Sides : Settles(t.budget[side], n[side])
<1>1. At(s) \in Turn /\ s.side \in Sides /\ s.clock \in -1..Total /\ s.left \in -1..Total
  <2>1. At(s) \in Speaking
    BY TurnFacts
  <2>2. At(s) \in Turn
    BY <2>1, Kinds
  <2>. QED BY <2>2, TurnFacts
<1>2. OwnTurn(s, n, a, c) /\ n \in [Sides -> 0..Total]
  BY <1>1 DEF Paid
<1>3. /\ t.left = s.clock /\ t.used = c /\ t.start = s.start /\ t.start # NoTime
      /\ t.budget[t.side] = t.start - t.used /\ t.used + t.left <= t.start
      /\ Settles(t.start, n[t.side] - c) /\ Settles(t.budget[t.side], n[t.side])
      /\ \A side \in Sides \ {t.side} : t.budget[side] = s.budget[side]
  BY DEF Stopped
<1>4. c \in 0..n[t.side] /\ a + t.left <= MaxTurn /\ t.left >= 0 /\ n[t.side] \in 0..Total
  BY <1>1, <1>2, <1>3, Numbers DEF OwnTurn
<1>5. t.start \in Int /\ t.left <= t.budget[t.side]
  <2>1. s.start \in -1..Total
    BY TurnFacts
  <2>2. t.start \in Int
    BY <1>3, <2>1
  <2>. QED BY <1>1, <1>3, <1>4, <2>2
<1>6. Pays(t, n, c)
  <2>1. c = c + 0
    BY <1>4
  <2>. QED BY <1>3, <2>1 DEF Pays
<1>7. OwnTurn(t, n, a, c)
  BY <1>3, <1>4, <1>5, <1>6 DEF OwnTurn
<1>8. \A side \in Sides : Settles(t.budget[side], n[side])
  BY <1>3 DEF Paid
<1>. QED BY <1>7, <1>8

\* _finish_speech, _finish_agent_speech
LEMMA SpeechFinishedBalanced ==
    ASSUME NEW s, Typed(s), s.status = "RUNNING", s.act \in Speaking, s.phase # "ALLOCATED",
           s.act = "AGENT_SPEAKING" => s.opp # 0,
           NEW n, NEW a, NEW c, Balanced(s, n, a, c), NEW limit \in BOOLEAN, limit => s.clock = 0,
           NEW t, Typed(t), SpeechFinished(t, s, limit)
    PROVE  Balanced(t, n, Since(t, s, a), Since(t, s, c))
<1>. DEFINE f == Freeze(s, TRUE, limit)
<1>1. Frozen(f, s, TRUE, limit) /\ Same(f, s, Names \ {"left", "clock", "used", "settled", "budget"})
  BY FreezeKeeps DEF Typed
<1>2. Stopped(f, s, n, c)
  BY <1>1, FrozenBalanced DEF Balanced
<1>3. /\ t.act = (IF s.act = "AGENT_SPEAKING" THEN "AGENT_FINALIZING" ELSE "SPEECH_FINALIZING")
      /\ t.clock = NoTime /\ Same(t, f, Kept20)
  BY DEF SpeechFinished
<1>. HIDE DEF f
<1>4. /\ t.status = "RUNNING" /\ t.side = s.side /\ t.speech = s.speech /\ t.left = f.left /\ t.start = f.start
      /\ t.used = f.used /\ t.budget = f.budget /\ t.failed = s.failed /\ t.hands = s.hands /\ t.phase = s.phase
      /\ t.opp = s.opp /\ f.start = s.start
  BY <1>1, <1>3 DEF Same, Kept20, Names
<1>5. At(s) = s.act /\ At(t) = t.act /\ At(t) \in Finalizing /\ At(t) \in Turn /\ At(s) \in Turn
  BY <1>3, <1>4, Kinds DEF At, Finalizing
<1>6. s.clock # NoTime /\ s.side \in Sides /\ s.failed = 0
  BY <1>5, TurnFacts DEF Typed, Times, Shape
<1>7. OwnTurn(t, n, a, c) /\ \A side \in Sides : Settles(t.budget[side], n[side])
  BY <1>2, <1>3, <1>4, <1>6, StoppedOwn DEF Balanced
<1>8. n \in [Sides -> 0..Total] /\ a \in 0..MaxTurn
  BY DEF Balanced, Paid
<1>9. At(t) \in HumanTurn => At(s) \in HumanTurn
  BY <1>3, <1>5, Kinds DEF Finalizing, HumanTurn, Speaking
<1>10. At(s) \in HumanTurn => (s.speech = 0 <=> s.start = NoTime)
  BY DEF Balanced, Paid
<1>11. Paid(t, n, a, c)
  BY <1>4, <1>5, <1>6, <1>7, <1>8, <1>9, <1>10 DEF Paid
<1>12. ToSet(s.hands) \subseteq HumansOf(Other(s.side))
  BY <1>5, Kinds DEF Balanced, Hands, HandsOpposite, NewlyChosen
<1>13. \A side \in Sides \ {s.side} : t.budget[side] = s.budget[side]
  BY <1>2, <1>4, <1>6 DEF Stopped
<1>14. HandsPaid(t)
  <2>1. HandsPaid(s) /\ Other(s.side) \in Sides \ {s.side}
    BY <1>6, Numbers DEF Balanced, Hands
  <2>. QED BY <1>4, <1>12, <1>13, <2>1 DEF HandsPaid, HumansOf
<1>15. Hands(t)
  <2>1. HandsOpposite(t)
    BY <1>4, <1>12 DEF HandsOpposite
  <2>2. PhaseOK(t)
    BY <1>3, <1>4, <1>5, Kinds DEF PhaseOK, NewlyChosen, Finalizing
  <2>. QED BY <1>14, <2>1, <2>2 DEF Hands
<1>16. Since(t, s, a) = a /\ Since(t, s, c) = c
  BY <1>4 DEF Since
<1>. QED BY <1>11, <1>15, <1>16 DEF Balanced

\* A match that stops while nobody speaks keeps its accounts: the charge that
\* was begun is paid as it was.
LEMMA StillBalanced ==
    ASSUME NEW s, Typed(s), s.clock = NoTime, NEW n, NEW a, NEW c, Balanced(s, n, a, c),
           NEW f, Stopped(f, s, n, c), f.settled = s.settled, f.start = s.start,
           NEW t, At(t) = At(s), t.clock = NoTime, t.failed = s.failed \/ t.failed # t.speech \/ At(t) = "SPEECH_FINALIZING",
           Same(t, f, {"left", "start", "used", "settled", "budget"}), Same(t, s, {"side", "speech", "hands", "opp", "phase"})
    PROVE  Balanced(t, n, Since(t, s, a), Since(t, s, c))
<1>1. /\ t.left = s.left /\ t.used = s.used /\ t.budget = s.budget /\ t.start = s.start /\ t.settled = s.settled
      /\ t.side = s.side /\ t.speech = s.speech /\ t.hands = s.hands /\ t.opp = s.opp /\ t.phase = s.phase
  BY DEF Same, Stopped
<1>2. Stale(t) <=> Stale(s)
  BY <1>1 DEF Stale
<1>3. Pays(s, n, c) => Pays(t, n, c)
  BY <1>1 DEF Pays
<1>4. OwnTurn(s, n, a, c) => OwnTurn(t, n, a, c)
  BY <1>1, <1>2, <1>3 DEF OwnTurn
<1>5. t.failed = t.speech /\ t.failed # 0 => At(t) = "SPEECH_FINALIZING"
  BY <1>1 DEF Balanced, Paid
<1>6. Paid(t, n, a, c)
  BY <1>1, <1>4, <1>5 DEF Balanced, Paid
<1>7. Same(t, s, {"side", "left", "start", "budget", "opp", "phase"})
  BY <1>1 DEF Same
<1>8. Hands(t)
  BY <1>1, <1>7, HandsSame DEF Balanced
<1>9. Since(t, s, a) = a /\ Since(t, s, c) = c
  BY <1>1 DEF Since
<1>. QED BY <1>6, <1>8, <1>9 DEF Balanced

\* Freezing without ending the speech does not settle it.
LEMMA FrozenSettled ==
    ASSUME NEW s, Typed(s), NEW limit, NEW f, Frozen(f, s, FALSE, limit)
    PROVE  f.start = s.start /\ f.settled = s.settled
<1>1. s.settled \in BOOLEAN
  BY TurnFacts
<1>2. CASE ~Owes(s)
  BY <1>2 DEF Frozen
<1>3. CASE Owes(s)
  <2>1. f.settled = FALSE /\ f.start = s.start
    BY <1>3 DEF Frozen, Same, Names
  <2>2. s.settled = FALSE
    BY <1>1, <1>3 DEF Owes
  <2>. QED BY <2>1, <2>2
<1>. QED BY <1>2, <1>3

\* A match that stops while somebody speaks.
LEMMA InterruptedBalanced ==
    ASSUME NEW s, Typed(s), s.clock # NoTime, NEW n, NEW a, NEW c, Balanced(s, n, a, c),
           NEW f, Stopped(f, s, n, c), f.settled = s.settled, f.start = s.start,
           NEW t, At(t) = At(s), t.clock = NoTime, t.failed = s.failed \/ t.failed # t.speech,
           Same(t, f, {"left", "start", "used", "settled", "budget"}), Same(t, s, {"side", "speech"}),
           \/ Same(t, s, {"hands", "opp", "phase"}) /\ s.opp # 0 /\ s.phase # "ALLOCATED"
           \/ t.hands = << >> /\ t.phase = "none"
    PROVE  Balanced(t, n, Since(t, s, a), Since(t, s, c))
<1>1. /\ t.left = f.left /\ t.used = f.used /\ t.budget = f.budget /\ t.start = f.start /\ t.settled = s.settled
      /\ t.side = s.side /\ t.speech = s.speech
  BY DEF Same
<1>2. At(s) \in Speaking /\ At(s) \in Turn /\ s.side \in Sides
  <2>1. At(s) \in Speaking
    BY TurnFacts
  <2>2. At(s) \in Turn
    BY <2>1, Kinds
  <2>. QED BY <2>1, <2>2, TurnFacts
<1>3. OwnTurn(t, n, a, c) /\ \A side \in Sides : Settles(t.budget[side], n[side])
  BY <1>1, StoppedOwn DEF Balanced
<1>4. t.failed = t.speech /\ t.failed # 0 => At(t) = "SPEECH_FINALIZING"
  BY <1>1 DEF Balanced, Paid
<1>5. Paid(t, n, a, c)
  BY <1>1, <1>2, <1>3, <1>4 DEF Balanced, Paid
<1>6. ToSet(t.hands) \subseteq HumansOf(Other(s.side)) /\ ToSet(t.hands) \subseteq ToSet(s.hands)
  <2>1. ToSet(s.hands) \subseteq HumansOf(Other(s.side))
    BY <1>2, Kinds DEF Balanced, Hands, HandsOpposite, NewlyChosen
  <2>2. t.hands = s.hands \/ ToSet(t.hands) = {}
    BY DEF Same, ToSet
  <2>. QED BY <2>1, <2>2
<1>7. HandsPaid(t)
  <2>1. HandsPaid(s) /\ Other(s.side) \in Sides \ {s.side}
    BY <1>2, Numbers DEF Balanced, Hands
  <2>2. t.budget[Other(s.side)] = s.budget[Other(s.side)]
    BY <1>1, <2>1 DEF Stopped
  <2>. QED BY <1>6, <2>1, <2>2 DEF HandsPaid, HumansOf
<1>8. HandsOpposite(t)
  BY <1>1, <1>6 DEF HandsOpposite
<1>9. PhaseOK(t) /\ t.phase # "ALLOCATED"
  <2>1. At(t) \notin {"AGENT_PREPARING", "HUMAN_READY_TO_START"}
    BY <1>2 DEF Speaking
  <2>2. t.phase # "ALLOCATED" /\ (t.opp = 0 => t.phase = "none")
    BY DEF Same
  <2>. QED BY <2>1, <2>2 DEF PhaseOK, NewlyChosen
<1>10. Since(t, s, a) = a /\ Since(t, s, c) = c
  BY <1>9 DEF Since
<1>. QED BY <1>5, <1>7, <1>8, <1>9, <1>10 DEF Balanced, Hands

\* _match_pause: what was charged so far is paid, and the rest of the turn is kept.
LEMMA PausedBalanced ==
    ASSUME NEW s, Typed(s), s.status = "RUNNING", s.act \in Goes, Competing(s),
           NEW n, NEW a, NEW c, Balanced(s, n, a, c), NEW t, Typed(t), At(t) = s.act, Paused(t, s)
    PROVE  Balanced(t, n, Since(t, s, a), Since(t, s, c))
<1>. DEFINE f == Freeze(s, FALSE, FALSE)
<1>1. Frozen(f, s, FALSE, FALSE) /\ Same(f, s, Names \ {"left", "clock", "used", "settled", "budget"})
  BY FreezeKeeps DEF Typed
<1>2. Stopped(f, s, n, c) /\ f.settled = s.settled /\ f.start = s.start
  BY <1>1, FrozenBalanced, FrozenSettled DEF Balanced
<1>3. /\ t.clock = NoTime
      /\ Same(t, f, {"who", "side", "speech", "issued", "begun", "left", "start", "used",
                     "settled", "budget", "failed", "op", "holder", "gen", "src"})
      /\ s.opp # 0 /\ s.act \in Speaking => t.opp = 0 /\ t.phase = "none" /\ t.hands = << >>
      /\ ~(s.opp # 0 /\ s.act \in Speaking) => t.opp = s.opp /\ t.phase = s.phase /\ t.hands = s.hands
  BY DEF Paused
<1>. HIDE DEF f
<1>4. Same(t, f, {"left", "start", "used", "settled", "budget"}) /\ t.side = s.side /\ t.speech = s.speech
      /\ t.failed = s.failed
  BY <1>1, <1>3 DEF Same, Names
<1>5. At(t) = At(s)
  BY DEF At
<1>6. CASE s.clock = NoTime
  <2>1. s.act \notin Speaking
    BY <1>6 DEF Typed, Times
  <2>2. Same(t, s, {"side", "speech", "hands", "opp", "phase"})
    BY <1>3, <1>4, <2>1 DEF Same
  <2>. QED BY <1>2, <1>3, <1>4, <1>5, <1>6, <2>2, StillBalanced
<1>7. CASE s.clock # NoTime
  <2>1. s.act \in Speaking /\ s.opp # 0
    BY <1>7 DEF Typed, Times, Competing
  <2>2. Same(t, s, {"side", "speech"}) /\ t.hands = << >> /\ t.phase = "none"
    BY <1>3, <1>4, <2>1 DEF Same
  <2>. QED BY <1>2, <1>3, <1>4, <1>5, <1>7, <2>2, InterruptedBalanced
<1>. QED BY <1>6, <1>7

\* _asr_failed of a speech that has ended, or of the speech before
LEMMA RecognitionFailedBalanced ==
    ASSUME NEW s, Typed(s), Competing(s), NEW speech, speech = s.speech => At(s) = "SPEECH_FINALIZING",
           NEW n, NEW a, NEW c, Balanced(s, n, a, c), NEW t, Typed(t), At(t) = At(s), RecognitionFailed(t, s, speech)
    PROVE  Balanced(t, n, Since(t, s, a), Since(t, s, c))
<1>. DEFINE f == Freeze(s, FALSE, FALSE)
<1>1. Frozen(f, s, FALSE, FALSE) /\ Same(f, s, Names \ {"left", "clock", "used", "settled", "budget"})
  BY FreezeKeeps DEF Typed
<1>2. Stopped(f, s, n, c) /\ f.settled = s.settled /\ f.start = s.start
  BY <1>1, FrozenBalanced, FrozenSettled DEF Balanced
<1>3. /\ t.clock = NoTime /\ t.failed = speech
      /\ Same(t, f, {"who", "side", "speech", "issued", "begun", "left", "start", "used", "settled",
                     "budget", "holder", "opp", "gen", "src", "phase", "hands", "selLeft"})
  BY DEF RecognitionFailed
<1>. HIDE DEF f
<1>4. /\ Same(t, f, {"left", "start", "used", "settled", "budget"})
      /\ Same(t, s, {"side", "speech", "hands", "opp", "phase"})
  BY <1>1, <1>3 DEF Same, Names
<1>5. t.failed # t.speech \/ At(t) = "SPEECH_FINALIZING"
  BY <1>3, <1>4 DEF Same
<1>6. CASE s.clock = NoTime
  BY <1>2, <1>3, <1>4, <1>5, <1>6, StillBalanced
<1>7. CASE s.clock # NoTime
  <2>1. At(s) \in Speaking /\ s.opp # 0 /\ s.phase # "ALLOCATED"
    BY <1>7 DEF Typed, Times, Competing, At
  <2>2. t.failed # t.speech
    BY <1>5, <2>1 DEF Speaking
  <2>3. Same(t, s, {"side", "speech"}) /\ Same(t, s, {"hands", "opp", "phase"})
    BY <1>4 DEF Same
  <2>. QED BY <1>2, <1>3, <1>4, <1>7, <2>1, <2>2, <2>3, InterruptedBalanced
<1>. QED BY <1>6, <1>7

\* _human_wait_timeout, _human_start_timeout
LEMMA TimedOutBalanced ==
    ASSUME NEW s, s.status = "RUNNING", NEW n, NEW a, NEW c, Balanced(s, n, a, c), NEW t, HasTimedOut(t, s)
    PROVE  Balanced(t, n, Since(t, s, a), Since(t, s, c))
<1>1. t.status = "PAUSED" /\ t.from = s.act /\ t.hands = s.hands
  BY DEF HasTimedOut, Same
<1>2. At(t) = At(s)
  BY <1>1 DEF At
<1>3. Same(t, s, Purse \cup {"opp", "phase"})
  BY DEF HasTimedOut, Same, Purse
<1>. QED BY <1>1, <1>2, <1>3, BalancedSame

\* match.resume
LEMMA ResumingBalanced ==
    ASSUME NEW s, s.status # "RUNNING", NEW n, NEW a, NEW c, Balanced(s, n, a, c), NEW t, Resuming(t, s)
    PROVE  Balanced(t, n, Since(t, s, a), Since(t, s, c))
<1>1. t.status = "PAUSED" /\ t.from = s.from /\ t.hands = s.hands
  BY DEF Resuming, Same, Names
<1>2. At(t) = At(s)
  BY <1>1 DEF At
<1>3. Same(t, s, Purse \cup {"opp", "phase"})
  BY DEF Resuming, Same, Names, Purse
<1>. QED BY <1>1, <1>2, <1>3, BalancedSame

\* _asr_finalized of a recognition that was retried
LEMMA RetriedBalanced ==
    ASSUME NEW s, Typed(s), s.op = "PENDING", NEW audio \in Nat, NEW n, NEW a, NEW c, Balanced(s, n, a, c),
           NEW t, Typed(t), Retried(t, s, audio)
    PROVE  Balanced(t, n, Since(t, s, a), Since(t, s, c))
<1>1. s.failed # 0 /\ s.status = "ERROR" /\ At(s) = s.from
  BY DEF Typed, Shape, At
<1>2. CASE t.status = "PAUSED" /\ t.failed = 0 /\ Same(t, s, Names \ {"status", "act", "failed", "op"})
  <2>1. At(t) = At(s) /\ Same(t, s, Purse \ {"failed"}) /\ t.hands = s.hands
    BY <1>1, <1>2 DEF Same, Names, Purse, At
  <2>. DEFINE u == [s EXCEPT !.failed = 0]
  <2>2. u.failed = 0 /\ Same(u, s, Names \ {"failed"})
    BY DEF Typed, ChoiceTyped, Same, Names
  <2>. HIDE DEF u
  <2>3. /\ At(u) = At(s) /\ u.hands = s.hands /\ Same(u, s, {"side", "left", "start", "budget", "opp", "phase"})
        /\ Same(t, u, Purse \cup {"opp", "phase"}) /\ t.hands = u.hands
    BY <1>2, <2>1, <2>2 DEF Same, Names, Purse, At
  <2>4. Paid(u, n, a, c)
    <3>1. /\ u.side = s.side /\ u.speech = s.speech /\ u.left = s.left /\ u.clock = s.clock /\ u.start = s.start
          /\ u.used = s.used /\ u.settled = s.settled /\ u.budget = s.budget
      BY <2>2 DEF Same, Names
    <3>2. Stale(u) <=> Stale(s)
      BY <2>3, <3>1 DEF Stale
    <3>3. Pays(s, n, c) => Pays(u, n, c)
      BY <3>1 DEF Pays
    <3>4. OwnTurn(s, n, a, c) => OwnTurn(u, n, a, c)
      BY <3>1, <3>2, <3>3 DEF OwnTurn
    <3>. QED BY <2>2, <2>3, <3>1, <3>4 DEF Balanced, Paid
  <2>5. Hands(u)
    BY <2>3, HandsSame DEF Balanced
  <2>6. At(t) = At(u) /\ Balanced(u, n, a, c)
    BY <2>1, <2>3, <2>4, <2>5 DEF Balanced
  <2>7. Balanced(t, n, Since(t, u, a), Since(t, u, c))
    BY <2>3, <2>6, BalancedSame
  <2>8. u.phase = s.phase
    BY <2>3 DEF Same
  <2>. QED BY <2>7, <2>8 DEF Since
<1>3. ASSUME s.speech = s.failed, NEW u, NEW r, ChoiceTyped(u), Retrying(u, s), ChoiceTyped(r), TurnFinished(r, u, audio),
             IF r.act = "ACTION_FINISHED" THEN t = r ELSE Recovering(t, r, r.act)
      PROVE  Balanced(t, n, Since(t, s, a), Since(t, s, c))
  <2>1. At(s) = "SPEECH_FINALIZING"
    BY <1>1, <1>3 DEF Balanced, Paid
  <2>2. /\ u.status = "RUNNING" /\ u.act = "SPEECH_FINALIZING" /\ u.failed = 0 /\ u.op = "SUCCEEDED"
        /\ Same(u, s, Names \ {"status", "act", "failed", "op"})
    BY <1>3 DEF Retrying
  <2>3. /\ u.side = s.side /\ u.speech = s.speech /\ u.left = s.left /\ u.clock = s.clock /\ u.start = s.start
        /\ u.used = s.used /\ u.settled = s.settled /\ u.budget = s.budget /\ u.hands = s.hands
        /\ u.opp = s.opp /\ u.phase = s.phase /\ u.who = s.who /\ u.from = s.from /\ u.issued = s.issued
        /\ u.begun = s.begun
    BY <2>2 DEF Same, Names
  <2>4. At(u) = At(s)
    BY <2>1, <2>2 DEF At
  <2>5. Typed(u)
    <3>0. At(u) = "SPEECH_FINALIZING"
      BY <2>1, <2>4
    <3>1. s.clock = NoTime
      BY <1>1 DEF Typed, Times
    <3>2. Times(u)
      BY <2>2, <2>3, <2>4, <3>0, <3>1, Kinds DEF Times, Typed
    <3>3. Shape(u)
      BY <2>1, <2>2, <2>3, <2>4, <3>0, Kinds DEF Shape, Typed
    <3>4. TurnTyped(u)
      <4>1. s.settled \in BOOLEAN
        BY TurnFacts
      <4>. QED BY <2>2, <2>3, <4>1, Kinds DEF TurnTyped, Typed
    <3>. QED BY <1>3, <3>2, <3>3, <3>4 DEF Typed
  <2>6. Balanced(u, n, a, c)
    <3>1. Same(u, s, {"side", "left", "start", "budget", "opp", "phase"})
      BY <2>3 DEF Same
    <3>2. Stale(u) <=> Stale(s)
      BY <2>3, <2>4 DEF Stale
    <3>3. Pays(s, n, c) => Pays(u, n, c)
      BY <2>3 DEF Pays
    <3>4. OwnTurn(s, n, a, c) => OwnTurn(u, n, a, c)
      BY <2>3, <3>2, <3>3 DEF OwnTurn
    <3>5. Paid(u, n, a, c)
      BY <2>2, <2>3, <2>4, <3>4 DEF Balanced, Paid
    <3>. QED BY <2>3, <2>4, <3>1, <3>5, HandsSame DEF Balanced
  <2>7. u.act \in Finalizing /\ u.side \in Sides
    BY <2>2, <2>5, TurnFacts, Kinds DEF Finalizing, At
  <2>8. Typed(r)
    BY <1>3, <2>2, <2>5, <2>7, TurnFinishedTyped
  <2>9. Balanced(r, n, Since(r, u, a), Since(r, u, c)) /\ r.phase # "ALLOCATED" /\ u.phase # "ALLOCATED"
    BY <1>3, <2>2, <2>5, <2>6, <2>7, <2>8, TurnFinishedBalanced
  <2>10. Balanced(r, n, a, c) /\ Since(r, s, a) = a /\ Since(r, s, c) = c
    BY <2>9 DEF Since
  <2>11. CASE t = r
    BY <2>10, <2>11
  <2>12. CASE Recovering(t, r, r.act)
    <3>1. /\ t.status = "PAUSED" /\ t.from = r.act /\ t.speech = 0 /\ t.hands = << >> /\ t.clock = NoTime
          /\ t.side = r.side /\ t.left = r.left /\ t.start = r.start /\ t.used = r.used /\ t.settled = r.settled
          /\ t.budget = r.budget /\ t.failed = r.failed /\ t.phase = r.phase /\ t.opp = r.opp
      BY <2>12 DEF Recovering, Same
    <3>2. r.status = "RUNNING" /\ r.speech = 0 /\ r.clock = NoTime
      BY <1>3, <2>2 DEF TurnFinished, Same
    <3>3. At(t) = At(r)
      BY <3>1, <3>2 DEF At
    <3>4. Same(t, r, Purse \cup {"opp", "phase"})
      BY <3>1, <3>2 DEF Same, Purse
    <3>5. ToSet(t.hands) \subseteq ToSet(r.hands)
      BY <3>1 DEF ToSet
    <3>6. Balanced(t, n, Since(t, r, a), Since(t, r, c))
      BY <2>10, <3>3, <3>4, <3>5, BalancedSame
    <3>7. Since(t, r, a) = Since(t, s, a) /\ Since(t, r, c) = Since(t, s, c)
      BY <2>9, <3>1 DEF Since
    <3>. QED BY <3>6, <3>7
  <2>. QED BY <1>3, <2>11, <2>12
<1>4. \/ t.status = "PAUSED" /\ t.failed = 0 /\ Same(t, s, Names \ {"status", "act", "failed", "op"})
      \/ /\ s.speech = s.failed
         /\ \E u, r : /\ ChoiceTyped(u) /\ Retrying(u, s) /\ ChoiceTyped(r) /\ TurnFinished(r, u, audio)
                      /\ IF r.act = "ACTION_FINISHED" THEN t = r ELSE Recovering(t, r, r.act)
  BY DEF Retried
<1>. QED BY <1>2, <1>3, <1>4

\* _speech_reset: the speech is given back, and its time with it.
LEMMA ResetBalanced ==
    ASSUME NEW s, Typed(s), At(s) \in Turn, ~Stale(s), NEW operator \in BOOLEAN,
           NEW n, NEW a, NEW c, Balanced(s, n, a, c), NEW t, Typed(t), WasReset(t, s, operator), At(t) = Again(s),
           NEW m, m = [n EXCEPT ![s.side] = @ - c]
    PROVE  Balanced(t, m, 0, 0)
<1>1. /\ t.failed = (IF operator THEN 0 ELSE s.failed)
      /\ t.speech = 0 /\ t.start = NoTime /\ t.used = 0 /\ t.clock = NoTime /\ t.left = Smaller(MaxTurn, Unspent(s))
      /\ t.budget = [s.budget EXCEPT ![s.side] = Unspent(s)] /\ t.side = s.side /\ t.opp = 0
      /\ s.opp # 0 => t.phase = "none" /\ t.hands = << >>
      /\ s.opp = 0 => t.phase = s.phase /\ (t.hands = s.hands \/ t.hands = << >>)
  BY DEF WasReset, Same
<1>2. /\ s.side \in Sides /\ s.budget \in [Sides -> 0..Total] /\ s.start \in -1..Total /\ s.hands \in Seq(Humans)
      /\ At(s) \in HumanTurn <=> s.who \in Humans
      /\ At(t) = (IF s.who \in Agents THEN "AGENT_PREPARING" ELSE "HUMAN_READY_TO_START")
  <2>1. At(s) \in HumanTurn <=> s.who \in Humans
    BY Numbers, Kinds DEF Typed, Shape
  <2>. QED BY <2>1, TurnFacts DEF Again
<1>3. OwnTurn(s, n, a, c) /\ n \in [Sides -> 0..Total]
  BY DEF Balanced, Paid
<1>4. /\ Unspent(s) \in 0..Total /\ Settles(Unspent(s), m[s.side]) /\ m \in [Sides -> 0..Total]
      /\ \A side \in Sides \ {s.side} : m[side] = n[side]
  <2>1. c \in 0..n[s.side] /\ n[s.side] \in 0..Total
    BY <1>2, <1>3 DEF OwnTurn
  <2>2. m[s.side] = n[s.side] - c /\ m \in [Sides -> 0..Total] /\ \A side \in Sides \ {s.side} : m[side] = n[side]
    BY <1>2, <1>3, <2>1, Numbers, SMTT(60)
  <2>3. CASE s.start = NoTime
    <3>1. c = 0 /\ s.clock = NoTime
      <4>1. s.clock # NoTime => s.start # NoTime
        BY TurnFacts
      <4>. QED BY <1>3, <2>3, <4>1 DEF OwnTurn
    <3>2. Settles(s.budget[s.side], n[s.side])
      BY <1>2, <3>1 DEF Balanced, Paid
    <3>3. m[s.side] = n[s.side]
      BY <2>1, <2>2, <3>1
    <3>. QED BY <1>2, <2>2, <2>3, <3>2, <3>3 DEF Unspent
  <2>4. CASE s.start # NoTime
    <3>1. Settles(s.start, n[s.side] - c)
      BY <1>3, <2>4 DEF OwnTurn, Pays
    <3>2. s.start \in 0..Total
      BY <1>2, <2>4, Numbers
    <3>. QED BY <2>2, <2>4, <3>1, <3>2 DEF Unspent
  <2>. QED BY <2>3, <2>4
<1>5. At(t) \in {"AGENT_PREPARING", "HUMAN_READY_TO_START"} /\ At(t) \in Turn
  BY <1>2, Kinds
<1>6. t.left \in 0..Total /\ t.left <= Unspent(s) /\ t.left <= MaxTurn /\ (Unspent(s) > 0 => t.left > 0)
      /\ t.budget[s.side] = Unspent(s) /\ \A side \in Sides \ {s.side} : t.budget[side] = s.budget[side]
  BY <1>1, <1>2, <1>4, Numbers DEF Smaller
<1>7. OwnTurn(t, m, 0, 0)
  BY <1>1, <1>2, <1>4, <1>6, Numbers DEF OwnTurn
<1>8. \A side \in Sides : Settles(t.budget[side], m[side])
  BY <1>4, <1>6 DEF Balanced, Paid
<1>9. t.failed # 0 => t.failed # t.speech
  BY <1>1
<1>10. Paid(t, m, 0, 0)
  BY <1>1, <1>4, <1>5, <1>7, <1>8, <1>9, Numbers DEF Paid
<1>11. NewlyChosen(t) => NewlyChosen(s) /\ s.opp = 0
  <2>1. SUFFICES ASSUME NewlyChosen(t) PROVE NewlyChosen(s) /\ s.opp = 0
    OBVIOUS
  <2>2. s.opp = 0 /\ s.phase = "ALLOCATED"
    BY <1>1, <2>1 DEF NewlyChosen
  <2>3. At(s) \in {"HUMAN_READY_TO_START", "AGENT_PREPARING"}
    BY <2>2 DEF Balanced, Hands, PhaseOK
  <2>4. s.who \notin Agents
    BY <1>2, <2>1 DEF NewlyChosen
  <2>5. At(s) \notin AgentTurn
    BY <2>4 DEF Typed, Shape
  <2>. QED BY <2>2, <2>3, <2>5, Kinds DEF NewlyChosen
<1>12. NewlyChosen(s) => s.start = NoTime /\ s.budget[s.side] > 0 /\ Unspent(s) = s.budget[s.side]
  BY DEF Balanced, Hands, PhaseOK, Unspent
<1>13. ToSet(t.hands) \subseteq ToSet(s.hands) /\ (s.opp # 0 => ToSet(t.hands) = {})
  BY <1>1 DEF ToSet
<1>14. HandsOpposite(t)
  <2>1. CASE s.opp # 0
    BY <1>13, <2>1 DEF HandsOpposite
  <2>2. CASE s.opp = 0 /\ ~NewlyChosen(s)
    BY <1>1, <1>13, <2>2 DEF HandsOpposite, Balanced, Hands
  <2>3. CASE s.opp = 0 /\ NewlyChosen(s)
    <3>1. At(s) \in HumanTurn
      BY <2>3, Kinds DEF NewlyChosen
    <3>2. At(t) = "HUMAN_READY_TO_START"
      BY <1>2, <3>1, Numbers
    <3>. QED BY <1>1, <2>3, <3>2 DEF HandsOpposite, NewlyChosen
  <2>. QED BY <2>1, <2>2, <2>3
<1>15. HandsPaid(t)
  <2>1. CASE NewlyChosen(s)
    <3>1. \A side \in Sides : t.budget[side] = s.budget[side]
      BY <1>6, <1>12, <2>1
    <3>. QED BY <1>13, <3>1, Numbers, TurnFacts DEF HandsPaid, Balanced, Hands
  <2>2. CASE ~NewlyChosen(s)
    <3>1. ToSet(s.hands) \subseteq HumansOf(Other(s.side)) /\ Other(s.side) \in Sides \ {s.side}
      BY <1>2, <2>2, Numbers DEF Balanced, Hands, HandsOpposite
    <3>. QED BY <1>6, <1>13, <3>1 DEF HandsPaid, HumansOf, Balanced, Hands
  <2>. QED BY <2>1, <2>2
<1>16. PhaseOK(t)
  <2>1. NewlyChosen(t) => t.left > 0 /\ t.start = NoTime /\ t.budget[t.side] > 0
    BY <1>1, <1>6, <1>11, <1>12
  <2>2. At(t) = "AGENT_PREPARING" => t.phase \notin {"COMPETING", "MODEL_WAIT"}
    <3>1. SUFFICES ASSUME At(t) = "AGENT_PREPARING", s.opp = 0 PROVE t.phase \notin {"COMPETING", "MODEL_WAIT"}
      BY <1>1
    <3>2. s.who \in Agents
      BY <1>2, <3>1
    <3>3. At(s) \in AgentTurn
      BY <1>2, <3>2, Numbers, Kinds
    <3>4. s.phase \notin {"COMPETING", "MODEL_WAIT"}
      BY <3>1, <3>3 DEF AgentTurn, Balanced, Hands, PhaseOK
    <3>. QED BY <1>1, <3>1, <3>4
  <2>3. At(t) \notin {"AGENT_SPEAKING", "AGENT_FINALIZING"}
    BY <1>5
  <2>. QED BY <1>5, <2>1, <2>2, <2>3 DEF PhaseOK
<1>. QED BY <1>10, <1>14, <1>15, <1>16 DEF Balanced, Hands

\* _resume_elapsed
LEMMA ResumedBalanced ==
    ASSUME NEW s, Typed(s), s.status = "PAUSED", NEW n, NEW a, NEW c, Balanced(s, n, a, c),
           NEW t, Typed(t), IsResumed(t, s)
    PROVE  Balanced(t, n, Since(t, s, a), Since(t, s, c))
<1>1. /\ At(s) = s.from /\ s.clock = NoTime /\ s.from \in Goes
  BY DEF At, Typed, Times, Shape
<1>2. /\ t.status = "RUNNING" /\ At(t) = t.act /\ t.clock = s.clock
      /\ t.side = s.side /\ t.left = s.left /\ t.start = s.start /\ t.used = s.used /\ t.settled = s.settled
      /\ t.budget = s.budget /\ t.failed = s.failed /\ t.failed = 0
  <2>1. t.status = "RUNNING" /\ t.clock = NoTime /\ Same(t, s, Kept13)
    BY DEF IsResumed
  <2>2. t.failed = 0 /\ At(t) = t.act
    BY <2>1 DEF Typed, Shape, At
  <2>. QED BY <1>1, <2>1, <2>2 DEF Same, Kept13
<1>3. n \in [Sides -> 0..Total] /\ a \in 0..MaxTurn /\ \A side \in Sides : Settles(s.budget[side], n[side])
  BY <1>1 DEF Balanced, Paid
<1>4. CASE /\ Selects(s) /\ t.act = "FREE_SELECTING" /\ t.phase \in {"COMPETING", "MODEL_WAIT", "HUMAN_ONLY_WAIT"}
           /\ t.hands = s.hands \/ t.hands = << >>
  <2>1. s.start = NoTime \/ s.settled
    <3>1. At(s) \notin Turn \/ At(s) \in Finalizing
      BY <1>1, <1>4, Kinds DEF Selects
    <3>. QED BY <3>1, TurnFacts DEF Balanced, Paid
  <2>2. At(t) = "FREE_SELECTING" /\ At(t) \notin Turn
    BY <1>2, <1>4, Kinds
  <2>3. Paid(t, n, a, c)
    BY <1>1, <1>2, <1>3, <2>1, <2>2, Kinds DEF Paid
  <2>4. ToSet(t.hands) \subseteq ToSet(s.hands)
    BY <1>4 DEF ToSet
  <2>5. Hands(t)
    BY <1>2, <1>4, <2>2, <2>4 DEF Balanced, Hands, HandsPaid, HandsOpposite, PhaseOK, NewlyChosen
  <2>6. Since(t, s, a) = a /\ Since(t, s, c) = c
    BY <1>4 DEF Since
  <2>. QED BY <2>3, <2>5, <2>6 DEF Balanced
<1>5. CASE s.from \in HumanTurn /\ t.act = "HUMAN_READY_TO_START"
           /\ Same(t, s, {"speech", "opp", "phase", "hands", "open", "round"})
  <2>1. t.speech = s.speech /\ t.opp = s.opp /\ t.phase = s.phase /\ t.hands = s.hands
    BY <1>5 DEF Same
  <2>2. /\ At(t) = "HUMAN_READY_TO_START" /\ At(t) \in HumanTurn /\ At(s) \in HumanTurn /\ At(t) \in Turn /\ At(s) \in Turn
        /\ At(t) # "AGENT_PREPARING" /\ At(s) # "AGENT_PREPARING"
    BY <1>1, <1>2, <1>5, Kinds
  <2>3. ~Stale(t) /\ ~Stale(s)
    BY <2>2 DEF Stale
  <2>4. Pays(s, n, c) => Pays(t, n, c)
    BY <1>2 DEF Pays
  <2>5. OwnTurn(t, n, a, c)
    BY <1>2, <2>2, <2>3, <2>4 DEF Balanced, Paid, OwnTurn
  <2>6. Paid(t, n, a, c)
    BY <1>2, <1>3, <2>1, <2>2, <2>5 DEF Balanced, Paid
  <2>7. NewlyChosen(t) => NewlyChosen(s)
    BY <2>1, <2>2 DEF NewlyChosen, Balanced, Hands, PhaseOK
  <2>8. NewlyChosen(s) => NewlyChosen(t)
    BY <2>1, <2>2 DEF NewlyChosen
  <2>9. Hands(t)
    BY <1>2, <2>1, <2>2, <2>7, <2>8 DEF Balanced, Hands, HandsPaid, HandsOpposite, PhaseOK
  <2>10. Since(t, s, a) = a /\ Since(t, s, c) = c
    BY <2>1 DEF Since
  <2>. QED BY <2>6, <2>9, <2>10 DEF Balanced
<1>6. CASE /\ s.from \in AgentTurn \ {"AGENT_PREPARING"} /\ t.act = "AGENT_PREPARING" /\ t.opp = 0
           /\ t.phase = "none" /\ t.hands = << >>
  <2>1. At(t) = "AGENT_PREPARING" /\ At(t) \in AgentTurn /\ At(t) \in Turn /\ At(s) \in Turn /\ At(s) # "AGENT_PREPARING"
    BY <1>1, <1>2, <1>6, Kinds
  <2>2. ~Stale(s)
    BY <2>1 DEF Stale
  <2>3. Pays(s, n, c) => Pays(t, n, c)
    BY <1>2 DEF Pays
  <2>4. OwnTurn(t, n, a, c)
    BY <1>2, <2>1, <2>2, <2>3 DEF Balanced, Paid, OwnTurn
  <2>5. Paid(t, n, a, c)
    BY <1>2, <1>3, <2>1, <2>4, Kinds DEF Paid
  <2>6. ToSet(t.hands) = {}
    BY <1>6 DEF ToSet
  <2>7. Hands(t)
    BY <1>6, <2>1, <2>6 DEF Hands, HandsPaid, HandsOpposite, PhaseOK, NewlyChosen
  <2>8. Since(t, s, a) = a /\ Since(t, s, c) = c
    BY <1>6 DEF Since
  <2>. QED BY <2>5, <2>7, <2>8 DEF Balanced
<1>7. CASE s.from \in {"AGENT_PREPARING", "HOST_ANNOUNCING"} /\ t.act = s.from
           /\ Same(t, s, {"speech", "opp", "phase", "hands", "open", "round"})
  <2>1. At(t) = At(s) /\ t.hands = s.hands
    BY <1>1, <1>2, <1>7 DEF Same
  <2>2. Same(t, s, Purse \cup {"opp", "phase"})
    BY <1>2, <1>7 DEF Same, Purse
  <2>. QED BY <2>1, <2>2, BalancedSame
<1>. QED BY <1>4, <1>5, <1>6, <1>7 DEF IsResumed

\* The accounts of a speech that begins.
LEMMA BegunPaid ==
    ASSUME NEW s, Typed(s), s.status = "RUNNING", NEW act, NEW speech \in Nat \ {0}, NEW again \in BOOLEAN,
           \/ s.act = "HUMAN_READY_TO_START" /\ act = "HUMAN_SPEAKING" /\ (again <=> s.speech # 0)
           \/ s.act = "AGENT_PREPARING" /\ act = "AGENT_SPEAKING" /\ ~again,
           NEW n, NEW a, NEW c, Balanced(s, n, a, c), NEW g, Begun(g, s, act, speech, again),
           NEW e, e = IF act = "AGENT_SPEAKING" THEN 0 ELSE c
    PROVE  Paid(g, n, a, e) /\ At(g) = act /\ g.left = s.left /\ g.clock = s.left /\ g.side \in Sides
<1>1. s.clock = NoTime /\ At(s) = s.act /\ At(s) \in Turn /\ s.side \in Sides /\ s.failed = 0
  <2>1. At(s) = s.act
    BY DEF At
  <2>2. At(s) \in Turn /\ s.act \notin Speaking
    BY <2>1, Kinds
  <2>. QED BY <2>1, <2>2, TurnFacts DEF Typed, Times, Shape
<1>2. s.budget \in [Sides -> 0..Total] /\ s.left \in -1..Total /\ s.used \in 0..Total /\ s.start \in -1..Total
  BY TurnFacts
<1>3. /\ OwnTurn(s, n, a, c) /\ n \in [Sides -> 0..Total] /\ a \in 0..MaxTurn
      /\ \A side \in Sides : Settles(s.budget[side], n[side])
      /\ At(s) \in HumanTurn => (s.speech = 0 <=> s.start = NoTime)
  BY <1>1 DEF Balanced, Paid
<1>4. s.left \in 0..Total /\ TurnLeft(s) = s.left
  BY <1>2, <1>3, Numbers DEF OwnTurn, TurnLeft
<1>5. /\ g.act = act /\ g.speech = speech /\ g.start = (IF again THEN s.start ELSE s.budget[s.side])
      /\ g.used = (IF again THEN s.used ELSE 0) /\ g.clock = s.left /\ g.left = s.left
      /\ g.status = s.status /\ g.side = s.side /\ g.budget = s.budget /\ g.failed = s.failed
  BY <1>4 DEF Begun, Same
<1>6. At(g) = act /\ act \in Speaking /\ act # "AGENT_PREPARING"
  BY <1>5 DEF At, Speaking
<1>7. c \in 0..n[s.side] /\ n[s.side] \in 0..Total /\ s.left <= s.budget[s.side] /\ a + s.left <= MaxTurn
  BY <1>1, <1>3 DEF OwnTurn
<1>8. g.clock # NoTime /\ g.start # NoTime /\ e \in 0..n[s.side]
  <2>1. again => s.start # NoTime
    BY <1>1, <1>3, Kinds
  <2>2. s.budget[s.side] \in 0..Total
    BY <1>1, <1>2
  <2>3. g.start # NoTime
    BY <1>5, <2>1, <2>2, Numbers
  <2>. QED BY <1>4, <1>5, <1>7, <2>3, Numbers
<1>9. Pays(g, n, e)
  <2>1. CASE again
    <3>1. e = c /\ s.act = "HUMAN_READY_TO_START" /\ ~Stale(s) /\ s.start # NoTime
      BY <1>1, <1>3, <2>1, Kinds DEF Stale
    <3>2. Pays(s, n, c)
      BY <1>3, <3>1 DEF OwnTurn
    <3>3. c = s.used
      BY <1>1, <1>2, <3>2 DEF Pays
    <3>4. c = s.used + (s.left - s.left)
      BY <1>2, <1>4, <3>3
    <3>. QED BY <1>5, <1>8, <2>1, <3>1, <3>2, <3>4 DEF Pays
  <2>2. CASE ~again
    <3>1. e = 0
      <4>1. CASE act = "AGENT_SPEAKING"
        BY <4>1
      <4>2. CASE act = "HUMAN_SPEAKING"
        <5>1. s.speech = 0 /\ At(s) \in HumanTurn
          BY <1>1, <2>2, <4>2, Kinds
        <5>. QED BY <1>3, <4>2, <5>1 DEF OwnTurn
      <4>. QED BY <4>1, <4>2
    <3>2. g.start = s.budget[s.side] /\ g.used = 0
      BY <1>5, <2>2
    <3>3. Settles(s.budget[s.side], n[s.side] - 0)
      BY <1>1, <1>3, <1>7 DEF Settles
    <3>4. 0 + s.left <= s.budget[s.side] /\ 0 = 0 + (s.left - s.left)
      BY <1>4, <1>7
    <3>. QED BY <1>5, <1>8, <3>1, <3>2, <3>3, <3>4 DEF Pays
  <2>. QED BY <2>1, <2>2
<1>10. OwnTurn(g, n, a, e)
  BY <1>4, <1>5, <1>7, <1>8, <1>9 DEF OwnTurn
<1>11. At(g) \in Turn
  BY <1>6, Kinds
<1>12. Paid(g, n, a, e)
  BY <1>1, <1>3, <1>5, <1>8, <1>10, <1>11 DEF Paid
<1>. QED BY <1>1, <1>5, <1>6, <1>12

\* _speech_start, _agent_playback_started
LEMMA StartedBalanced ==
    ASSUME NEW s, Typed(s), s.status = "RUNNING", NEW act, NEW speech \in Nat \ {0}, NEW again \in BOOLEAN,
           \/ s.act = "HUMAN_READY_TO_START" /\ act = "HUMAN_SPEAKING" /\ (again <=> s.speech # 0)
           \/ s.act = "AGENT_PREPARING" /\ act = "AGENT_SPEAKING" /\ ~again,
           NEW n, NEW a, NEW c, Balanced(s, n, a, c),
           NEW t, Typed(t), SpeechStarted(t, s, act, speech, again),
           NEW e, e = IF act = "AGENT_SPEAKING" THEN 0 ELSE c
    PROVE  Balanced(t, n, a, e)
<1>1. PICK g : /\ ChoiceTyped(g) /\ Begun(g, s, act, speech, again)
               /\ IF TurnLeft(s) = 0 /\ act = "HUMAN_SPEAKING" THEN t = FinishSpeech(g, TRUE)
                  ELSE t = OpenOpportunity(g, NextHolder(g), speech)
  BY DEF SpeechStarted
<1>2. Typed(g)
  BY <1>1, BegunTyped
<1>3. Paid(g, n, a, e) /\ At(g) = act /\ g.left = s.left /\ g.clock = s.left /\ g.side \in Sides
  BY <1>1, BegunPaid
<1>4. g.status = "RUNNING" /\ g.act = act /\ act \in Speaking /\ g.side = s.side /\ g.phase = s.phase /\ g.budget = s.budget
      /\ (g.hands = s.hands \/ g.hands = << >>)
  BY <1>1 DEF Begun, Same, Speaking
<1>5. At(s) = s.act
  BY DEF At
<1>6. CASE TurnLeft(s) = 0 /\ act = "HUMAN_SPEAKING"
  <2>1. s.left = 0 /\ s.act = "HUMAN_READY_TO_START"
    <3>1. s.left # NoTime
      <4>1. At(s) \in Turn
        BY <1>5, Kinds
      <4>. QED BY <4>1, Numbers DEF Balanced, Paid, OwnTurn
    <3>. QED BY <1>6, <3>1 DEF TurnLeft
  <2>2. ~NewlyChosen(s) /\ s.phase # "ALLOCATED"
    BY <1>5, <2>1 DEF Balanced, Hands, PhaseOK, NewlyChosen
  <2>3. ToSet(g.hands) \subseteq ToSet(s.hands)
    BY <1>4 DEF ToSet
  <2>4. ToSet(s.hands) \subseteq HumansOf(Other(s.side))
    BY <1>5, <2>1, <2>2, Kinds DEF Balanced, Hands, HandsOpposite
  <2>5. Hands(g)
    <3>1. HandsPaid(g)
      BY <1>4, <2>3 DEF Balanced, Hands, HandsPaid
    <3>2. HandsOpposite(g)
      BY <1>4, <2>3, <2>4 DEF HandsOpposite
    <3>3. PhaseOK(g)
      BY <1>3, <1>4, <1>6, <2>2 DEF PhaseOK, NewlyChosen
    <3>. QED BY <3>1, <3>2, <3>3 DEF Hands
  <2>6. SpeechFinished(t, g, TRUE)
    BY <1>1, <1>4, <1>6, FinishesSpeech
  <2>7. Balanced(g, n, a, e) /\ g.phase # "ALLOCATED" /\ g.act # "AGENT_SPEAKING" /\ g.clock = 0
    BY <1>3, <1>4, <1>6, <2>1, <2>2, <2>5 DEF Balanced
  <2>8. Balanced(t, n, Since(t, g, a), Since(t, g, e))
    BY <1>2, <1>4, <2>6, <2>7, SpeechFinishedBalanced
  <2>9. t.phase # "ALLOCATED"
    <3>1. t.act = "SPEECH_FINALIZING" /\ Same(t, Freeze(g, TRUE, TRUE), Kept20)
      BY <2>6, <2>7 DEF SpeechFinished
    <3>. DEFINE f == Freeze(g, TRUE, TRUE)
    <3>2. Same(f, g, Names \ {"left", "clock", "used", "settled", "budget"})
      BY <1>2, FreezeKeeps DEF Typed
    <3>. HIDE DEF f
    <3>3. t.status = "RUNNING"
      BY <1>4, <3>1, <3>2 DEF Same, Kept20, Names, f
    <3>4. At(t) = "SPEECH_FINALIZING"
      BY <3>1, <3>3 DEF At
    <3>. QED BY <2>8, <3>4 DEF Balanced, Hands, PhaseOK
  <2>10. Since(t, g, a) = a /\ Since(t, g, e) = e
    BY <2>9 DEF Since
  <2>. QED BY <2>8, <2>10
<1>7. CASE ~(TurnLeft(s) = 0 /\ act = "HUMAN_SPEAKING")
  <2>. DEFINE side == NextHolder(g)
  <2>1. t = OpenOpportunity(g, side, speech)
    BY <1>1, <1>7
  <2>2. side \in Sides
    BY <1>3, Numbers DEF NextHolder
  <2>. HIDE DEF side
  <2>3. IsOpened(t, g, side, speech)
    BY <1>1, <2>1, <2>2, Opened
  <2>4. Same(t, g, Purse) /\ t.status = g.status /\ t.act = g.act /\ t.phase = "COMPETING" /\ t.opp = g.gen + 1
        /\ t.hands = << >>
    BY <2>3 DEF IsOpened, Same, TurnFields, Purse
  <2>5. At(t) = At(g) /\ t.opp # 0
    BY <1>1, <1>4, <2>4 DEF At, ChoiceTyped
  <2>6. Paid(t, n, a, e)
    BY <1>3, <2>4, <2>5, PaidSame
  <2>7. ToSet(t.hands) = {}
    BY <2>4 DEF ToSet
  <2>8. Hands(t)
    BY <1>3, <1>4, <2>4, <2>5, <2>7 DEF Hands, HandsPaid, HandsOpposite, PhaseOK, NewlyChosen, Speaking
  <2>. QED BY <2>6, <2>8 DEF Balanced
<1>. QED BY <1>6, <1>7

-----------------------------------------------------------------------------
(* Every action keeps the balance *)

\* What an action that keeps the hands has to show: the ticks since the choice
\* are counted from nothing when somebody is chosen.
LEMMA BalanceAfter ==
    ASSUME HandsKept, net' = net, ~waived' => Balanced(d', net, Since(d', d, aired), Since(d', d, charged))
    PROVE  Balance'
<1>1. aired' = Since(d', d, aired) /\ charged' = Since(d', d, charged)
  BY DEF HandsKept, Chosen, Since
<1>. QED BY <1>1 DEF Balance

\* An action that leaves the accounts and the opportunity alone.
LEMMA BalanceStays ==
    ASSUME Balance, At(d') = At(d), Same(d', d, Purse \cup {"opp", "phase"}), ToSet(d'.hands) \subseteq ToSet(d.hands),
           waived' = waived, net' = net, aired' \in {aired, Since(d', d, aired)},
           charged' \in {charged, Since(d', d, charged)}
    PROVE  Balance'
<1>1. SUFFICES ASSUME ~waived' PROVE Balanced(d', net', aired', charged')
  BY DEF Balance
<1>2. Balanced(d, net, aired, charged)
  BY <1>1 DEF Balance
<1>3. d'.phase = d.phase
  BY DEF Same
<1>4. Since(d', d, aired) = aired /\ Since(d', d, charged) = charged
  BY <1>3 DEF Since
<1>. QED BY <1>2, <1>4, BalancedSame

\* The end of a speech does not choose anybody.
LEMMA FinishedPhase ==
    ASSUME NEW s, Typed(s), NEW limit \in BOOLEAN, NEW t, SpeechFinished(t, s, limit)
    PROVE  t.phase = s.phase
<1>. DEFINE f == Freeze(s, TRUE, limit)
<1>1. Same(f, s, Names \ {"left", "clock", "used", "settled", "budget"})
  BY FreezeKeeps DEF Typed
<1>2. Same(t, f, Kept20)
  BY DEF SpeechFinished
<1>. HIDE DEF f
<1>. QED BY <1>1, <1>2 DEF Same, Kept20, Names

\* host.finished
LEMMA HostFinishedBalance == ASSUME TypeInv, Balance, HostFinished PROVE Balance'
<1>1. HostDone(d', d) /\ d.status = "RUNNING" /\ d.act = "HOST_ANNOUNCING" /\ HandsKept /\ net' = net /\ waived' = waived
  BY HostFinishes DEF HostFinished, Running, TypeInv, Typed
<1>2. SUFFICES ASSUME ~waived PROVE Balanced(d', net, Since(d', d, aired), Since(d', d, charged))
  BY <1>1, BalanceAfter
<1>3. Balanced(d, net, aired, charged)
  BY <1>2 DEF Balance
<1>4. /\ d'.act = "FREE_SELECTING" /\ d'.status = d.status /\ d'.side = d.side /\ d'.speech = d.speech
      /\ d'.left = d.left /\ d'.clock = d.clock /\ d'.start = d.start /\ d'.used = d.used
      /\ d'.settled = d.settled /\ d'.budget = d.budget /\ d'.failed = d.failed
      /\ d'.phase \in {d.phase, "COMPETING", "MODEL_WAIT"} /\ (d'.hands = d.hands \/ d'.hands = << >>)
  BY <1>1 DEF HostDone, Same, TurnFields
<1>5. /\ At(d) = "HOST_ANNOUNCING" /\ At(d') = "FREE_SELECTING" /\ At(d) \notin Turn /\ At(d') \notin Turn
  BY <1>1, <1>4, Kinds DEF At
<1>6. d.phase # "ALLOCATED" /\ d'.phase # "ALLOCATED"
  BY <1>3, <1>4, <1>5 DEF Balanced, Hands, PhaseOK
<1>7. Paid(d', net, aired, charged)
  BY <1>3, <1>4, <1>5, Kinds DEF Balanced, Paid
<1>8. ToSet(d'.hands) \subseteq ToSet(d.hands)
  BY <1>4 DEF ToSet
<1>9. Hands(d')
  BY <1>3, <1>4, <1>5, <1>6, <1>8 DEF Balanced, Hands, HandsPaid, HandsOpposite, PhaseOK, NewlyChosen
<1>10. Since(d', d, aired) = aired /\ Since(d', d, charged) = charged
  BY <1>6 DEF Since
<1>. QED BY <1>7, <1>9, <1>10 DEF Balanced

\* hand.raise
LEMMA HandRaiseBalance == ASSUME TypeInv, TypeInv', Balance, NEW h \in Humans, HandRaise(h) PROVE Balance'
<1>1. PICK v : /\ ChoiceTyped(v) /\ Same(v, d, Names \ {"hands"}) /\ ToSet(v.hands) = ToSet(d.hands) \cup {h}
               /\ d' = v \/ (ChoseHuman(d', v) /\ d.phase \in {"HUMAN_ONLY_WAIT", "MODEL_WAIT"})
  BY HandRaised DEF TypeInv, Typed
<1>2. /\ d.status = "RUNNING" /\ d.budget[SideOf[h]] > 0 /\ net' = net /\ waived' = waived
      /\ SideOf[h] = IF d.act \in {"FREE_SELECTING", "HOST_ANNOUNCING"} THEN d.holder ELSE Other(d.side)
      /\ aired' = Since(d', d, aired) /\ charged' = Since(d', d, charged)
  BY DEF HandRaise, Running, Chosen, Since
<1>3. SUFFICES ASSUME ~waived PROVE Balanced(d', net, Since(d', d, aired), Since(d', d, charged))
  BY <1>2 DEF Balance
<1>4. Balanced(d, net, aired, charged)
  BY <1>3 DEF Balance
<1>5. /\ Same(v, d, TurnFields) /\ Same(v, d, Purse) /\ v.status = d.status /\ v.act = d.act /\ v.side = d.side
      /\ v.budget = d.budget /\ v.phase = d.phase /\ v.left = d.left /\ v.start = d.start /\ v.opp = d.opp
  BY <1>1 DEF Same, Names, TurnFields, Purse
<1>6. Typed(v) /\ At(v) = At(d) /\ At(d) = d.act
  BY <1>1, <1>2, <1>5, SameTurn DEF At, TypeInv
<1>7. Paid(v, net, aired, charged)
  BY <1>4, <1>5, <1>6, PaidSame DEF Balanced
<1>8. HandsPaid(v)
  BY <1>1, <1>2, <1>4, <1>5 DEF Balanced, Hands, HandsPaid
<1>9. Hands(v)
  <2>1. NewlyChosen(v) <=> NewlyChosen(d)
    BY <1>5, <1>6 DEF NewlyChosen
  <2>2. HandsOpposite(v)
    <3>1. SUFFICES ASSUME At(d) \in Turn, ~NewlyChosen(d) PROVE ToSet(v.hands) \subseteq HumansOf(Other(d.side))
      BY <1>5, <1>6, <2>1 DEF HandsOpposite
    <3>2. h \in HumansOf(Other(d.side))
      BY <1>2, <1>6, <3>1, Kinds DEF HumansOf
    <3>. QED BY <1>1, <1>4, <3>1, <3>2 DEF Balanced, Hands, HandsOpposite
  <2>3. PhaseOK(v)
    BY <1>4, <1>5, <1>6, <2>1 DEF Balanced, Hands, PhaseOK
  <2>. QED BY <1>8, <2>2, <2>3 DEF Hands
<1>10. CASE d' = v
  <2>1. Since(d', d, aired) = aired /\ Since(d', d, charged) = charged
    BY <1>5, <1>10 DEF Since
  <2>. QED BY <1>7, <1>9, <1>10, <2>1 DEF Balanced
<1>11. CASE ChoseHuman(d', v) /\ d.phase \in {"HUMAN_ONLY_WAIT", "MODEL_WAIT"}
  <2>1. v.act \notin Speaking /\ v.phase # "ALLOCATED" /\ v.status = "RUNNING"
    BY <1>2, <1>5, <1>11 DEF TypeInv, Competing
  <2>2. Typed(d')
    BY DEF TypeInv
  <2>3. Balanced(d', net, Since(d', v, aired), Since(d', v, charged))
    BY <1>6, <1>7, <1>8, <1>11, <2>1, <2>2, ChoseHumanBalanced
  <2>4. Since(d', v, aired) = Since(d', d, aired) /\ Since(d', v, charged) = Since(d', d, charged)
    BY <1>5 DEF Since
  <2>. QED BY <2>3, <2>4
<1>. QED BY <1>1, <1>10, <1>11

\* hand.cancel
LEMMA HandCancelBalance == ASSUME TypeInv, Balance, NEW h \in Humans, HandCancel(h) PROVE Balance'
<1>1. Same(d', d, Names \ {"hands"}) /\ ToSet(d'.hands) = ToSet(d.hands) \ {h}
  BY HandCancelled DEF TypeInv, Typed
<1>2. Same(d', d, Purse \cup {"opp", "phase"}) /\ d'.status = d.status /\ d'.act = d.act /\ d'.from = d.from
  BY <1>1 DEF Same, Names, Purse
<1>3. At(d') = At(d)
  BY <1>2 DEF At
<1>4. waived' = waived /\ net' = net /\ aired' = aired /\ charged' = charged
  BY DEF HandCancel
<1>. QED BY <1>1, <1>2, <1>3, <1>4, BalanceStays

\* What neither chooses nor waits.
LEMMA StaysBalance ==
    ASSUME Balance, Stays(d', d), waived' = waived, net' = net, aired' \in {aired, Since(d', d, aired)},
           charged' \in {charged, Since(d', d, charged)}
    PROVE  Balance'
<1>1. Same(d', d, TurnFields \cup {"opp", "phase", "hands"})
  BY DEF Stays, Same
<1>2. Same(d', d, Purse \cup {"opp", "phase"}) /\ d'.status = d.status /\ d'.act = d.act /\ d'.from = d.from
      /\ d'.hands = d.hands
  BY <1>1 DEF Same, TurnFields, Purse
<1>3. At(d') = At(d)
  BY <1>2 DEF At
<1>. QED BY <1>2, <1>3, BalanceStays

\* report_free_decision
LEMMA DecideBalance ==
    ASSUME TypeInv, TypeInv', Balance, NEW a \in Agents, NEW answer \in {"HAND", "SKIP", "FAILED"}, Decide(a, answer)
    PROVE  Balance'
<1>1. \/ Stays(d', d)
      \/ /\ Chose(d', d) /\ (d.open = FALSE \/ d.phase = "MODEL_WAIT")
         /\ d.act = "FREE_SELECTING" \/
            (d.phase \in {"COMPETING", "MODEL_WAIT"} /\ d.act \in OnAir \cup {"HOST_ANNOUNCING", "AGENT_PREPARING"})
  BY Decided DEF Decide, TypeInv, Typed
<1>2. HandsKept /\ net' = net /\ waived' = waived /\ d.status = "RUNNING"
  BY DEF Decide, Running
<1>3. CASE Stays(d', d)
  <2>1. aired' = Since(d', d, aired) /\ charged' = Since(d', d, charged)
    BY <1>2 DEF HandsKept, Chosen, Since
  <2>. QED BY <1>2, <1>3, <2>1, StaysBalance
<1>4. CASE /\ Chose(d', d) /\ (d.open = FALSE \/ d.phase = "MODEL_WAIT")
           /\ d.act = "FREE_SELECTING" \/
              (d.phase \in {"COMPETING", "MODEL_WAIT"} /\ d.act \in OnAir \cup {"HOST_ANNOUNCING", "AGENT_PREPARING"})
  <2>1. SUFFICES ASSUME ~waived PROVE Balanced(d', net, Since(d', d, aired), Since(d', d, charged))
    BY <1>2, BalanceAfter
  <2>2. Balanced(d, net, aired, charged)
    BY <2>1 DEF Balance
  <2>3. d.act \notin Speaking
    BY <1>2, <1>4 DEF TypeInv, Competing
  <2>4. At(d) = d.act
    BY <1>2 DEF At
  <2>5. d.act \in {"FREE_SELECTING", "HOST_ANNOUNCING"} \cup Finalizing
    BY <1>4, <2>2, <2>3, <2>4, Kinds DEF Balanced, Hands, PhaseOK
  <2>. QED BY <1>2, <1>4, <2>2, <2>5, ChoseBalanced DEF TypeInv
<1>. QED BY <1>1, <1>3, <1>4

\* human_text_known, agent_text_generated
LEMMA TextKnownBalance == ASSUME TypeInv, Balance, NEW speech, BeginDecisions(speech) PROVE Balance'
<1>1. Stays(d', d)
  BY MemoryKept, DecisionsBegun
<1>2. waived' = waived /\ net' = net /\ aired' = aired /\ charged' = charged
  BY DEF BeginDecisions, history
<1>. QED BY <1>1, <1>2, StaysBalance

\* The decision deadline passes, or a timer fires.
LEMMA TouchedBalance == ASSUME Balance, Touched(d', d), UNCHANGED history PROVE Balance'
<1>1. Same(d', d, Purse \cup {"opp", "phase"}) /\ d'.status = d.status /\ d'.act = d.act /\ d'.from = d.from
      /\ d'.hands = d.hands
  BY DEF Touched, Same, Names, Purse
<1>2. At(d') = At(d)
  BY <1>1 DEF At
<1>. QED BY <1>1, <1>2, BalanceStays DEF history

\* The clock of the speaker runs: his side spends the tick.
LEMMA TickBalance == ASSUME TypeInv, Balance, Tick PROVE Balance'
<1>. DEFINE clock == d.clock - 1
            m == [net EXCEPT ![d.side] = @ + 1]
<1>1. /\ d.status = "RUNNING" /\ d.act \in Speaking /\ d.clock > 0 /\ net' = m
      /\ aired' = aired + 1 /\ charged' = charged + 1 /\ waived' = waived
  BY DEF Tick, Running
<1>2. SUFFICES ASSUME ~waived PROVE Balanced(d', m, aired + 1, charged + 1)
  BY <1>1 DEF Balance
<1>3. Balanced(d, net, aired, charged)
  BY <1>2 DEF Balance
<1>4. DOMAIN d = Names /\ ChoiceTyped(d)
  BY DEF TypeInv, Typed, ChoiceTyped
<1>5. d' = [d EXCEPT !.clock = clock]
  BY <1>4 DEF Tick, Names
<1>6. At(d) = d.act /\ At(d) \in Turn /\ d.side \in Sides /\ d.clock # NoTime /\ d.start # NoTime
  <2>1. At(d) = d.act /\ d.clock # NoTime
    BY <1>1, Numbers DEF At
  <2>2. At(d) \in Turn
    BY <1>1, <2>1, Kinds
  <2>. QED BY <1>1, <2>1, <2>2, TurnFacts DEF TypeInv
<1>7. /\ d.clock \in 1..Total /\ d.left \in -1..Total /\ d.used \in 0..Total /\ d.start \in 0..Total /\ d.clock <= d.left
  <2>1. d.clock \in -1..Total /\ d.left \in -1..Total /\ d.used \in 0..Total /\ d.start \in -1..Total
    BY TurnFacts DEF TypeInv
  <2>2. d.clock <= d.left
    BY <1>6, TurnFacts DEF TypeInv
  <2>. QED BY <1>1, <1>6, <2>1, <2>2, Numbers
<1>8. clock \in 0..Total /\ clock # NoTime /\ clock = d.clock - 1
  BY <1>7, Numbers
<1>. HIDE DEF clock
<1>9. d'.clock = clock /\ Same(d', d, Names \ {"clock"})
  BY <1>4, <1>5, FieldChanges
<1>10. /\ d'.status = d.status /\ d'.act = d.act /\ d'.from = d.from /\ d'.side = d.side
       /\ d'.speech = d.speech /\ d'.left = d.left /\ d'.start = d.start /\ d'.used = d.used
       /\ d'.settled = d.settled /\ d'.budget = d.budget /\ d'.failed = d.failed
       /\ d'.phase = d.phase /\ d'.opp = d.opp /\ d'.hands = d.hands
  BY <1>9 DEF Same, Names
<1>11. At(d') = At(d)
  BY <1>10 DEF At
<1>12. /\ net \in [Sides -> 0..Total] /\ aired \in 0..MaxTurn /\ charged \in 0..net[d.side]
       /\ aired + d.clock <= MaxTurn /\ Pays(d, net, charged) /\ d.left >= 0
  <2>1. d.act # "AGENT_PREPARING"
    BY <1>1 DEF Speaking
  <2>2. ~Stale(d)
    BY <1>6, <2>1 DEF Stale
  <2>. QED BY <1>3, <1>6, <2>2 DEF Balanced, Paid, OwnTurn
<1>13. net[d.side] \in 0..Total /\ charged \in 0..Total
  <2>1. net[d.side] \in 0..Total
    BY <1>6, <1>12
  <2>. QED BY <1>12, <2>1, Numbers
<1>14. charged = d.used + (d.left - d.clock) /\ d.used + d.left <= d.start /\ Settles(d.start, net[d.side] - charged)
  BY <1>6, <1>12 DEF Pays
<1>15. net[d.side] + 1 <= Total
  <2>1. charged + 1 <= d.start
    BY <1>7, <1>14
  <2>2. d.start # 0
    BY <1>7, <1>13, <2>1
  <2>3. d.start = Total - (net[d.side] - charged)
    BY <1>14, <2>2 DEF Settles
  <2>. QED BY <1>7, <1>13, <2>1, <2>3, Numbers
<1>16. m \in [Sides -> 0..Total] /\ m[d.side] = net[d.side] + 1 /\ \A side \in Sides \ {d.side} : m[side] = net[side]
  <2>1. net[d.side] + 1 \in 0..Total
    BY <1>13, <1>15, Numbers
  <2>. QED BY <1>6, <1>12, <2>1
<1>. HIDE DEF m
<1>17. Pays(d', m, charged + 1)
  <2>1. Settles(d'.start, m[d'.side] - (charged + 1))
    <3>1. m[d'.side] - (charged + 1) = net[d.side] - charged
      BY <1>10, <1>13, <1>16
    <3>. QED BY <1>10, <1>14, <3>1
  <2>2. charged + 1 = d.used + (d.left - clock)
    BY <1>7, <1>8, <1>13, <1>14
  <2>3. d'.used + d'.left <= d'.start
    BY <1>10, <1>14
  <2>. QED BY <1>8, <1>9, <1>10, <2>1, <2>2, <2>3 DEF Pays
<1>18. charged + 1 \in 0..m[d'.side] /\ aired + 1 + d'.clock <= MaxTurn /\ aired + 1 \in 0..MaxTurn
  <2>1. aired + 1 + clock <= MaxTurn
    BY <1>7, <1>8, <1>12, Numbers
  <2>2. aired + 1 \in 0..MaxTurn
    BY <1>7, <1>12, Numbers
  <2>3. charged + 1 \in 0..(net[d.side] + 1)
    BY <1>12, <1>13
  <2>. QED BY <1>9, <1>10, <1>16, <2>1, <2>2, <2>3
<1>19. OwnTurn(d', m, aired + 1, charged + 1)
  <2>1. d'.clock # NoTime /\ d'.left >= 0 /\ d'.start # NoTime
    BY <1>6, <1>8, <1>9, <1>10, <1>12
  <2>. QED BY <1>17, <1>18, <2>1 DEF OwnTurn
<1>20. Paid(d', m, aired + 1, charged + 1)
  <2>1. \A side \in Sides : side # d'.side => Settles(d'.budget[side], m[side])
    BY <1>3, <1>10, <1>16 DEF Balanced, Paid
  <2>2. d'.clock # NoTime
    BY <1>8, <1>9
  <2>. QED BY <1>3, <1>6, <1>10, <1>11, <1>16, <1>18, <1>19, <2>1, <2>2 DEF Balanced, Paid
<1>21. Hands(d')
  <2>1. Same(d', d, {"side", "left", "start", "budget", "opp", "phase"})
    BY <1>10 DEF Same
  <2>. QED BY <1>3, <1>10, <1>11, <2>1, HandsSame DEF Balanced
<1>. QED BY <1>20, <1>21 DEF Balanced

\* _speech_start
LEMMA HumanStartsBalance == ASSUME TypeInv, TypeInv', Balance, NEW h \in Humans, HumanStarts(h) PROVE Balance'
<1>. DEFINE again == d.speech # 0
            speech == IF again THEN d.speech ELSE d.issued + 1
            act == "HUMAN_SPEAKING"
<1>1. /\ d.status = "RUNNING" /\ d.act = "HUMAN_READY_TO_START" /\ d' = StartSpeech(d, act, speech, again)
      /\ net' = net /\ aired' = aired /\ waived' = waived /\ charged' = charged
  BY DEF HumanStarts, MayTake, Running, Takes
<1>2. speech \in Nat \ {0}
  <2>1. d.speech \in Nat /\ d.issued \in Nat
    BY DEF TypeInv, Typed, TurnTyped
  <2>. QED BY <2>1
<1>3. act = "HUMAN_SPEAKING" /\ (again <=> d.speech # 0) /\ again \in BOOLEAN /\ act # "AGENT_SPEAKING"
  OBVIOUS
<1>. HIDE DEF again, speech, act
<1>4. SpeechStarted(d', d, act, speech, again)
  BY <1>1, <1>3, MemoryKept, StartsSpeech
<1>5. SUFFICES ASSUME ~waived PROVE Balanced(d', net, aired, charged)
  BY <1>1 DEF Balance
<1>6. Balanced(d, net, aired, charged) /\ Typed(d) /\ Typed(d')
  BY <1>5 DEF Balance, TypeInv
<1>7. charged = IF act = "AGENT_SPEAKING" THEN 0 ELSE charged
  BY <1>3
<1>. QED BY <1>1, <1>2, <1>3, <1>4, <1>6, <1>7, StartedBalanced

\* _agent_playback_started: the charge starts from nothing.
LEMMA AgentStartsBalance == ASSUME TypeInv, TypeInv', Balance, NEW a \in Agents, AgentStarts(a) PROVE Balance'
<1>. DEFINE again == FALSE
            speech == d.issued + 1
            act == "AGENT_SPEAKING"
<1>1. /\ d.status = "RUNNING" /\ d.act = "AGENT_PREPARING" /\ d' = StartSpeech(d, act, speech, again)
      /\ net' = net /\ aired' = aired /\ waived' = waived /\ charged' = 0
  BY DEF AgentStarts, MayTake, Running, Takes
<1>2. speech \in Nat \ {0}
  <2>1. d.issued \in Nat
    BY DEF TypeInv, Typed, TurnTyped
  <2>. QED BY <2>1
<1>3. act = "AGENT_SPEAKING" /\ ~again /\ again \in BOOLEAN
  OBVIOUS
<1>. HIDE DEF again, speech, act
<1>4. SpeechStarted(d', d, act, speech, again)
  BY <1>1, <1>3, MemoryKept, StartsSpeech
<1>5. SUFFICES ASSUME ~waived PROVE Balanced(d', net, aired, 0)
  BY <1>1 DEF Balance
<1>6. Balanced(d, net, aired, charged) /\ Typed(d) /\ Typed(d')
  BY <1>5 DEF Balance, TypeInv
<1>7. 0 = IF act = "AGENT_SPEAKING" THEN 0 ELSE charged
  BY <1>3
<1>. QED BY <1>1, <1>2, <1>3, <1>4, <1>6, <1>7, StartedBalanced

\* speech.finish, agent.playback_finished
LEMMA FinishesBalance == ASSUME TypeInv, TypeInv', Balance, Finishes PROVE Balance'
<1>1. d.status = "RUNNING" /\ d.act \in Speaking /\ d' = FinishSpeech(d, FALSE) /\ UNCHANGED history
  BY DEF Finishes, Running
<1>2. SpeechFinished(d', d, FALSE)
  BY <1>1, FinishesSpeech, MemoryKept
<1>3. d.phase # "ALLOCATED" /\ d.opp # 0
  BY <1>1 DEF TypeInv, Competing
<1>4. SUFFICES ASSUME ~waived PROVE Balanced(d', net, aired, charged)
  BY <1>1 DEF Balance, history
<1>5. Balanced(d, net, aired, charged) /\ Typed(d) /\ Typed(d')
  BY <1>4 DEF Balance, TypeInv
<1>6. Balanced(d', net, Since(d', d, aired), Since(d', d, charged))
  BY <1>1, <1>2, <1>3, <1>5, SpeechFinishedBalanced
<1>7. d'.phase = d.phase
  BY <1>2, <1>5, FinishedPhase
<1>. QED BY <1>6, <1>7 DEF Since

\* finalize_asr_speech, finalize_agent_speech
LEMMA FinalBalance ==
    ASSUME TypeInv, TypeInv', Balance, NEW speech, NEW act \in Finalizing,
           d' = IF IsCurrent(speech, act) THEN FinishTurn(d, aired) ELSE d,
           HandsKept, net' = net, waived' = waived
    PROVE  Balance'
<1>1. SUFFICES ASSUME ~waived PROVE Balanced(d', net, Since(d', d, aired), Since(d', d, charged))
  BY BalanceAfter
<1>2. Balanced(d, net, aired, charged) /\ Typed(d) /\ Typed(d')
  BY <1>1 DEF Balance, TypeInv
<1>3. CASE ~IsCurrent(speech, act)
  <2>1. d' = d
    BY <1>3
  <2>. QED BY <1>2, <2>1 DEF Since
<1>4. CASE IsCurrent(speech, act)
  <2>1. d' = FinishTurn(d, aired) /\ d.status = "RUNNING" /\ d.act \in Finalizing /\ aired \in Nat
    BY <1>4 DEF IsCurrent, Running, TypeInv, Memory
  <2>2. d.side \in Sides
    BY <2>1, Kinds DEF TypeInv, Typed, Shape, At
  <2>3. TurnFinished(d', d, aired)
    BY <2>1, <2>2, FinishesTurn, MemoryKept
  <2>. QED BY <1>2, <2>1, <2>3, TurnFinishedBalanced
<1>. QED BY <1>3, <1>4

\* The command of a timer that fired.
LEMMA HandleBalance == ASSUME TypeInv, TypeInv', Balance, Handle PROVE Balance'
<1>. DEFINE entry == Head(fired)
<1>1. ChoiceTyped(d') /\ entry \in ToSet(fired) /\ (d' = d \/ Timed(d', d, entry))
  BY Handled
<1>. HIDE DEF entry
<1>2. HandsKept /\ net' = net /\ waived' = waived
  BY DEF Handle
<1>3. SUFFICES ASSUME ~waived PROVE Balanced(d', net, Since(d', d, aired), Since(d', d, charged))
  BY <1>2, BalanceAfter
<1>4. Balanced(d, net, aired, charged) /\ Typed(d) /\ Typed(d')
  BY <1>3 DEF Balance, TypeInv
<1>5. CASE d' = d
  BY <1>4, <1>5 DEF Since
<1>6. CASE Same(d', d, Names \ {"timer"})
  <2>1. Same(d', d, Purse \cup {"opp", "phase"}) /\ d'.status = d.status /\ d'.act = d.act /\ d'.from = d.from
        /\ d'.hands = d.hands
    BY <1>6 DEF Same, Names, Purse
  <2>2. At(d') = At(d)
    BY <2>1 DEF At
  <2>. QED BY <1>4, <2>1, <2>2, BalancedSame
<1>7. CASE d.status = "RUNNING" /\ IsClosed(d', d)
  BY <1>1, <1>4, <1>7, ClosedBalanced
<1>8. CASE d.status = "RUNNING" /\ HasTimedOut(d', d)
  BY <1>4, <1>8, TimedOutBalanced
<1>9. CASE /\ d.status = "RUNNING" /\ d.act \in Speaking /\ entry.cmd = "speech.deadline"
           /\ d.begun = 0 \/ (entry.speech = d.speech /\ entry.start = d.begun)
           /\ SpeechFinished(d', d, TRUE)
  <2>1. d.clock # NoTime /\ d.begun # 0
    BY <1>4, <1>9 DEF Typed, Times
  <2>2. Answered(d, entry)
    BY <1>1 DEF TypeInv, Queue
  <2>3. d.clock = 0
    BY <1>9, <2>1, <2>2 DEF Answered
  <2>4. d.phase # "ALLOCATED" /\ d.opp # 0
    BY <1>9 DEF TypeInv, Competing
  <2>. QED BY <1>4, <1>9, <2>3, <2>4, SpeechFinishedBalanced
<1>10. CASE d.status = "PAUSED" /\ IsResumed(d', d)
  BY <1>4, <1>10, ResumedBalanced
<1>. QED BY <1>1, <1>5, <1>6, <1>7, <1>8, <1>9, <1>10 DEF Timed

\* match.pause
LEMMA MatchPauseBalance == ASSUME TypeInv, TypeInv', Balance, MatchPause PROVE Balance'
<1>1. d.status = "RUNNING" /\ d.act # "ACTION_FINISHED" /\ d' = Pause(d) /\ HandsKept /\ net' = net /\ waived' = waived
  BY DEF MatchPause, Running
<1>2. d.act \in Goes /\ d.failed = 0
  BY <1>1 DEF TypeInv, Typed, Shape
<1>3. Paused(d', d)
  BY <1>1, Pauses, MemoryKept
<1>4. At(d') = d.act
  BY <1>3 DEF Paused, At
<1>5. SUFFICES ASSUME ~waived PROVE Balanced(d', net, Since(d', d, aired), Since(d', d, charged))
  BY <1>1, BalanceAfter
<1>6. Balanced(d, net, aired, charged) /\ Typed(d) /\ Typed(d') /\ Competing(d)
  BY <1>5 DEF Balance, TypeInv
<1>. QED BY <1>1, <1>2, <1>3, <1>4, <1>6, PausedBalanced

\* handle_asr_failure; what was spoken of a speech that is cut off is not comparable.
LEMMA RecognitionFailsBalance == ASSUME TypeInv, TypeInv', Balance, NEW speech, RecognitionFails(speech) PROVE Balance'
<1>1. /\ d.status = "RUNNING" /\ d' = AsrFailed(d, speech) /\ HandsKept /\ net' = net
      /\ waived' = (waived \/ d.act = "HUMAN_SPEAKING")
      /\ \/ d.speech = speech /\ d.act \in {"HUMAN_SPEAKING", "SPEECH_FINALIZING"}
         \/ d.src = speech /\ d.speech # speech
  BY DEF RecognitionFails, Running
<1>2. SUFFICES ASSUME ~waived, d.act # "HUMAN_SPEAKING"
               PROVE  Balanced(d', net, Since(d', d, aired), Since(d', d, charged))
  BY <1>1, BalanceAfter
<1>3. RecognitionFailed(d', d, speech)
  BY <1>1, RecognitionsFail, MemoryKept
<1>4. At(d) = d.act /\ d.op # "PENDING"
  BY <1>1 DEF At, TypeInv, Typed, Shape
<1>5. At(d') = At(d)
  <2>1. d'.status = "ERROR" /\ d'.from = d.act
    BY <1>3, <1>4 DEF RecognitionFailed
  <2>. QED BY <1>4, <2>1 DEF At
<1>6. speech = d.speech => At(d) = "SPEECH_FINALIZING"
  BY <1>1, <1>2, <1>4
<1>7. Balanced(d, net, aired, charged) /\ Typed(d) /\ Typed(d') /\ Competing(d)
  BY <1>2 DEF Balance, TypeInv
<1>. QED BY <1>3, <1>5, <1>6, <1>7, RecognitionFailedBalanced

\* asr.retry.begin
LEMMA RetryRecognitionBalance == ASSUME TypeInv, Balance, RetryRecognition PROVE Balance'
<1>1. d' = [d EXCEPT !.op = "PENDING"] /\ UNCHANGED history
  BY DEF RetryRecognition
<1>2. Same(d', d, Names \ {"op"})
  BY <1>1, FieldChanges, MemoryKept
<1>3. Same(d', d, Purse \cup {"opp", "phase"}) /\ d'.status = d.status /\ d'.act = d.act /\ d'.from = d.from
      /\ d'.hands = d.hands
  BY <1>2 DEF Same, Names, Purse
<1>4. At(d') = At(d)
  BY <1>3 DEF At
<1>. QED BY <1>1, <1>3, <1>4, BalanceStays DEF history

\* A recognition that was retried succeeds.
LEMMA RetrySucceedsBalance == ASSUME TypeInv, TypeInv', Balance, RetrySucceeds PROVE Balance'
<1>1. d.op = "PENDING" /\ d' = AsrRetried(d, aired) /\ HandsKept /\ net' = net /\ waived' = waived
  BY DEF RetrySucceeds
<1>2. d.failed = d.speech => d.side \in Sides
  <2>1. d.failed # 0
    BY <1>1 DEF TypeInv, Typed, Shape
  <2>2. d.failed = d.speech => At(d) \in OnAir
    BY <1>1, <2>1 DEF TypeInv, Typed, Shape, At, OnAir, Speaking, Finalizing
  <2>. QED BY <2>2, Kinds, TurnFacts DEF TypeInv
<1>3. Retried(d', d, aired) /\ aired \in Nat
  <2>1. aired \in Nat
    BY DEF TypeInv, Memory
  <2>. QED BY <1>1, <1>2, <2>1, Retries, MemoryKept
<1>4. SUFFICES ASSUME ~waived PROVE Balanced(d', net, Since(d', d, aired), Since(d', d, charged))
  BY <1>1, BalanceAfter
<1>5. Balanced(d, net, aired, charged) /\ Typed(d) /\ Typed(d')
  BY <1>4 DEF Balance, TypeInv
<1>. QED BY <1>1, <1>3, <1>5, RetriedBalanced

\* It fails again.
LEMMA RetryFailsBalance == ASSUME TypeInv, TypeInv', Balance, RetryFails PROVE Balance'
<1>. DEFINE speech == d.failed
<1>1. d.op = "PENDING" /\ d' = AsrFailed(d, speech) /\ HandsKept /\ net' = net /\ waived' = waived
  BY DEF RetryFails
<1>2. RecognitionFailed(d', d, speech)
  BY <1>1, RecognitionsFail, MemoryKept
<1>3. d.failed # 0 /\ d.status = "ERROR" /\ At(d) = d.from /\ d.from \in Goes
  BY <1>1 DEF TypeInv, Typed, Shape, At
<1>4. At(d') = At(d)
  <2>1. d'.status = "ERROR" /\ d'.from = d.from
    BY <1>1, <1>2, <1>3, Kinds DEF RecognitionFailed
  <2>. QED BY <1>3, <2>1 DEF At
<1>5. SUFFICES ASSUME ~waived PROVE Balanced(d', net, Since(d', d, aired), Since(d', d, charged))
  BY <1>1, BalanceAfter
<1>6. Balanced(d, net, aired, charged) /\ Typed(d) /\ Typed(d') /\ Competing(d)
  BY <1>5 DEF Balance, TypeInv
<1>7. speech = d.speech => At(d) = "SPEECH_FINALIZING"
  BY <1>3, <1>6 DEF Balanced, Paid
<1>. QED BY <1>2, <1>4, <1>6, <1>7, RecognitionFailedBalanced

\* speech.reset: its time is given back, unless the charge is of a turn that was
\* never finished.
LEMMA SpeechResetBalance == ASSUME TypeInv, TypeInv', Balance, NEW operator \in BOOLEAN, SpeechReset(operator) PROVE Balance'
<1>1. /\ d.op # "PENDING" /\ (operator \/ d.status = "RUNNING") /\ d' = Reset(d, operator)
      /\ (IF d.status = "RUNNING" THEN d.act ELSE d.from)
             \in AgentTurn \cup {"HUMAN_SPEAKING", "SPEECH_FINALIZING", "HUMAN_READY_TO_START"}
      /\ net' = [net EXCEPT ![d.side] = @ - charged] /\ aired' = 0 /\ charged' = 0
      /\ waived' = (waived \/ StaleCharge)
  BY DEF SpeechReset, Running
<1>2. At(d) \in Turn
  BY <1>1 DEF At, Turn, HumanTurn
<1>3. SUFFICES ASSUME ~waived, ~StaleCharge PROVE Balanced(d', net', 0, 0)
  BY <1>1 DEF Balance
<1>4. ~Stale(d)
  BY <1>3 DEF Stale, StaleCharge, At
<1>5. WasReset(d', d, operator)
  BY <1>1, Resets, MemoryKept
<1>6. At(d') = Again(d)
  BY <1>5 DEF WasReset, At
<1>7. Balanced(d, net, aired, charged) /\ Typed(d) /\ Typed(d')
  BY <1>3 DEF Balance, TypeInv
<1>. QED BY <1>1, <1>2, <1>4, <1>5, <1>6, <1>7, ResetBalanced

\* match.resume
LEMMA MatchResumeBalance == ASSUME TypeInv, Balance, MatchResume PROVE Balance'
<1>1. /\ d.status # "RUNNING"
      /\ d' = Arm([d EXCEPT !.status = "PAUSED", !.act = "RESUME_COUNTDOWN"], "resume.elapsed", Fresh)
      /\ UNCHANGED history
  BY DEF MatchResume
<1>2. Resuming(d', d)
  BY <1>1, Resumes, MemoryKept
<1>3. Same(d', d, Purse \cup {"opp", "phase"}) /\ d'.status = "PAUSED" /\ d'.from = d.from /\ d'.hands = d.hands
  BY <1>2 DEF Resuming, Same, Names, Purse
<1>4. At(d') = At(d)
  BY <1>1, <1>3 DEF At
<1>. QED BY <1>1, <1>3, <1>4, BalanceStays DEF history

\* Nothing is spent when the debate begins.
LEMMA InitBalance == ASSUME Init PROVE Balance
<1>1. d = Start(Announced) /\ Announced \in BOOLEAN /\ net = [side \in Sides |-> 0] /\ aired = 0 /\ charged = 0
  BY DebateAssumption DEF Init, DebateAssumption
<1>2. Begins(d)
  BY <1>1, StartTyped
<1>3. At(d) = d.act /\ At(d) \notin Turn /\ d.phase = "COMPETING" /\ d.hands = << >> /\ d.start = NoTime
      /\ d.failed = 0 /\ d.budget = [side \in Sides |-> Total]
  BY <1>2, Kinds DEF At, Begins
<1>4. ToSet(d.hands) = {}
  BY <1>3 DEF ToSet
<1>5. Hands(d)
  BY <1>3, <1>4, Kinds DEF Hands, HandsPaid, HandsOpposite, PhaseOK, NewlyChosen
<1>6. \A side \in Sides : Settles(d.budget[side], net[side])
  BY <1>1, <1>3, Numbers DEF Settles
<1>7. net \in [Sides -> 0..Total] /\ aired \in 0..MaxTurn
  BY <1>1, Numbers
<1>8. Paid(d, net, aired, charged)
  BY <1>3, <1>6, <1>7, Kinds DEF Paid
<1>. QED BY <1>5, <1>8 DEF Balance, Balanced

\* Every handler keeps the accounts.
LEMMA NextBalance == ASSUME TypeInv, TypeInv', Balance, Next PROVE Balance'
<1>1. CASE HostFinished \/ AgentTextKnown \/ DecisionsDue \/ Tick \/ Finishes \/ Fire \/ Handle
  <2>1. ASSUME AgentTextKnown PROVE Balance'
    BY <2>1, TextKnownBalance DEF AgentTextKnown
  <2>2. ASSUME DecisionsDue PROVE Balance'
    <3>1. Touched(d', d) /\ UNCHANGED history
      BY <2>2, DuePasses, MemoryKept, SMTT(60) DEF DecisionsDue
    <3>. QED BY <3>1, TouchedBalance
  <2>3. ASSUME Fire PROVE Balance'
    <3>1. Touched(d', d) /\ UNCHANGED history
      BY <2>3, Fires, MemoryKept DEF Fire
    <3>. QED BY <3>1, TouchedBalance
  <2>. QED BY <1>1, <2>1, <2>2, <2>3, HostFinishedBalance, TickBalance, FinishesBalance, HandleBalance
<1>2. ASSUME NEW h \in Humans, HandRaise(h) \/ HandCancel(h) \/ HumanStarts(h) PROVE Balance'
  BY <1>2, HandRaiseBalance, HandCancelBalance, HumanStartsBalance
<1>3. ASSUME NEW a \in Agents, AgentStarts(a) \/ \E answer \in {"HAND", "SKIP", "FAILED"} : Decide(a, answer)
      PROVE  Balance'
  BY <1>3, AgentStartsBalance, DecideBalance
<1>4. ASSUME NEW speech, HumanTextKnown(speech) PROVE Balance'
  BY <1>4, TextKnownBalance DEF HumanTextKnown
<1>5. ASSUME NEW speech, RecognitionFails(speech) \/ HumanFinal(speech) \/ AgentFinal(speech) PROVE Balance'
  <2>1. ASSUME HumanFinal(speech) PROVE Balance'
    <3>. DEFINE act == "SPEECH_FINALIZING"
    <3>1. /\ d' = IF IsCurrent(speech, act) THEN FinishTurn(d, aired) ELSE d
          /\ HandsKept /\ net' = net /\ waived' = waived
      BY <2>1 DEF HumanFinal
    <3>2. act \in Finalizing
      BY DEF Finalizing
    <3>. HIDE DEF act
    <3>. QED BY <3>1, <3>2, FinalBalance
  <2>2. ASSUME AgentFinal(speech) PROVE Balance'
    <3>. DEFINE act == "AGENT_FINALIZING"
    <3>1. /\ d' = IF IsCurrent(speech, act) THEN FinishTurn(d, aired) ELSE d
          /\ HandsKept /\ net' = net /\ waived' = waived
      BY <2>2 DEF AgentFinal
    <3>2. act \in Finalizing
      BY DEF Finalizing
    <3>. HIDE DEF act
    <3>. QED BY <3>1, <3>2, FinalBalance
  <2>. QED BY <1>5, <2>1, <2>2, RecognitionFailsBalance
<1>6. CASE MatchPause \/ AgentFails \/ RetryRecognition \/ RetrySucceeds \/ RetryFails \/ MatchResume \/ Crash
  <2>1. AgentFails \/ Crash => Balance'
    BY DEF AgentFails, Crash, Balance
  <2>. QED BY <1>6, <2>1, MatchPauseBalance, RetryRecognitionBalance, RetrySucceedsBalance, RetryFailsBalance,
       MatchResumeBalance
<1>7. ASSUME NEW operator \in BOOLEAN, SpeechReset(operator) PROVE Balance'
  BY <1>7, SpeechResetBalance
<1>. QED BY <1>1, <1>2, <1>3, <1>4, <1>5, <1>6, <1>7 DEF Next

\* The accounts follow from the balance.
LEMMA AccountsFollow == ASSUME TypeInv, Balance PROVE BudgetAccounts
<1>1. SUFFICES ASSUME ~waived
               PROVE  /\ TurnBounded
                      /\ d.clock = NoTime =>
                            \A side \in Sides : LET rest == AtLeastZero(Total - net[side])
                                                IN  d.budget[side] = rest \/ (d.budget[side] = 0 /\ rest < Minimum)
  BY DEF BudgetAccounts
<1>2. net \in [Sides -> 0..Total] /\ aired \in 0..MaxTurn
      /\ (d.clock = NoTime => \A side \in Sides : Settles(d.budget[side], net[side]))
  BY <1>1 DEF Balance, Balanced, Paid
<1>3. \A side \in Sides : net[side] \in 0..Total /\ AtLeastZero(Total - net[side]) = Total - net[side]
  BY <1>2, Numbers DEF AtLeastZero
<1>4. TurnBounded
  BY <1>2, <1>3, Numbers DEF TurnBounded
<1>5. ASSUME d.clock = NoTime, NEW side \in Sides
      PROVE  LET rest == AtLeastZero(Total - net[side])
             IN  d.budget[side] = rest \/ (d.budget[side] = 0 /\ rest < Minimum)
  BY <1>2, <1>3, <1>5 DEF Settles
<1>. QED BY <1>4, <1>5

\* The actor of a free debate keeps its budgets balanced, as long as no waived
\* interruption has happened (AgentFails, RecognitionFails while a human speaks,
\* a reset of a StaleCharge, Crash: Balance says nothing after one of them).
THEOREM BalanceKept == Spec => [](TypeInv /\ Balance)
<1>1. Init => TypeInv /\ Balance
  BY InitTyped, InitBalance
<1>2. TypeInv /\ Balance /\ [Next]_vars => (TypeInv /\ Balance)'
  <2>1. ASSUME TypeInv, Balance, Next PROVE TypeInv' /\ Balance'
    <3>1. TypeInv'
      BY <2>1, NextTyped
    <3>. QED BY <2>1, <3>1, NextBalance
  <2>2. ASSUME TypeInv, Balance, UNCHANGED vars PROVE TypeInv' /\ Balance'
    <3>1. TypeInv'
      BY <2>2, StutterTyped
    <3>2. d' = d /\ net' = net /\ aired' = aired /\ charged' = charged /\ waived' = waived
      BY <2>2 DEF vars
    <3>3. Balance'
      BY <2>2, <3>2 DEF Balance
    <3>. QED BY <3>1, <3>3
  <2>. QED BY <2>1, <2>2
<1>. QED BY <1>1, <1>2, PTL DEF Spec

\* Through pauses, resets, late final texts and retried recognitions a side has spent
\* what its speakers spoke, nobody speaks longer than one speech may take, and no
\* budget is overdrawn (_freeze_speech_budget, _finish_free_turn, _match_pause,
\* _speech_reset), until the first failure of an agent, failed recognition while a
\* human is speaking, reset with the charge of another speech, or restart: BudgetAccounts
\* promises nothing after these.
THEOREM BudgetsKept == Spec => []BudgetAccounts
BY BalanceKept, AccountsFollow, PTL
=============================================================================
