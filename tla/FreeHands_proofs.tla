---------------------------- MODULE FreeHands_proofs ----------------------------
(* Proofs about the free debate: the hands and who is chosen. What the handlers *)
(* make of a state is in FreeDebate_proofs, operator by operator.                *)
EXTENDS FreeDebate_proofs

-----------------------------------------------------------------------------
(* The inductive invariant: the hands that stand *)

\* The other side can speak next, and these hands may then stand for it.
Rich(s) == s.budget[Other(s.side)] >= Minimum
StandsFor(s, r) == r \subseteq HumansOf(Other(s.side)) /\ (Rich(s) => r \subseteq ToSet(s.hands))

\* What runs chooses; what was stopped will go on with its opportunity, unless a
\* recognition was retried since, which makes the decisions anew.
Chooses(s) == s.status = "RUNNING" \/ (s.opp # 0 /\ (s.op # "SUCCEEDED" \/ s.failed # 0))

\* A speech is on the air, or was.
Onwards(s) == At(s) \in OnAir \/ (At(s) \in Turn /\ s.phase = "COMPETING")

\* Hands that are up have been raised, by humans who can pay.
HandsUp(s, r) == r \subseteq Humans /\ ToSet(s.hands) \subseteq r /\ HandsPaid(s) /\ HandsOpposite(s)

\* The phase fits what the match does, and no charge is due between two turns.
Phased(s) ==
    /\ s.phase = "ALLOCATED" => At(s) \in {"HUMAN_READY_TO_START", "AGENT_PREPARING"}
    /\ s.phase \in {"MODEL_WAIT", "HUMAN_ONLY_WAIT"} => At(s) = "FREE_SELECTING"
    /\ At(s) \notin Turn => s.start = NoTime \/ s.settled

\* The choice is made among the hands of the holder.
Best(s, r) ==
    /\ r \cap HumansOf(s.holder) \subseteq ToSet(s.hands)
    /\ ToSet(s.hands) \subseteq HumansOf(s.holder) \/ s.budget[Other(s.holder)] \in 1..Minimum - 1
Choosing(s, r) ==
    /\ At(s) = "FREE_SELECTING" /\ Chooses(s) => Best(s, r)
    /\ At(s) = "HOST_ANNOUNCING" =>
        s.holder = First /\ r \subseteq HumansOf(First) /\ r \subseteq ToSet(s.hands) /\ s.opp # 0 /\ s.round = s.opp /\ s.src = 0

\* Hands raised during a turn stand for the other side.
OnFloor(s, r) ==
    /\ Onwards(s) => StandsFor(s, r)
    /\ At(s) \in Turn /\ s.holder # s.side => Rich(s)

\* A speech that opened no opportunity keeps its hands for the turn to come. One
\* that has ended remembers that its window was open.
Heard(s, r) ==
    /\ At(s) \in OnAir /\ s.holder = s.side /\ s.opp # 0 => ~Rich(s)
    /\ At(s) \in Finalizing /\ s.opp # 0 => s.selLeft
    /\ At(s) \in OnAir /\ s.opp = 0 /\ Rich(s) /\ s.failed = 0 => s.open \/ r = {}
    /\ At(s) = "HUMAN_SPEAKING" /\ s.status # "RUNNING" /\ s.failed = 0 => s.opp = 0

\* A human about to speak has time, or speaks on without any: then the hands
\* raised before he was interrupted stand.
Awaiting(s, r, late) ==
    /\ NewlyChosen(s) => s.left > 0 /\ s.start = NoTime /\ s.budget[s.side] > 0
    /\ At(s) \in HumanTurn => s.left # NoTime
    /\ At(s) = "HUMAN_READY_TO_START" /\ s.left = 0 =>
        /\ s.opp = 0 /\ s.failed = 0 /\ (s.src = s.speech \/ s.src \notin late)
        /\ StandsFor(s, r) /\ (Rich(s) => s.open \/ r = {})

\* An agent speaks as an agent. One that prepares while an opportunity is open was
\* interrupted, and no recognition of a human holds it up.
Voiced(s, late, v) ==
    /\ At(s) \in {"AGENT_SPEAKING", "AGENT_FINALIZING"} => s.speech \in v
    /\ At(s) = "AGENT_PREPARING" /\ s.phase = "COMPETING" =>
        s.src \notin late \ v /\ s.failed = 0 /\ s.src # 0 /\ (s.start = NoTime \/ s.settled \/ s.open)

\* Before the first speech nothing is spent and nothing has failed.
Unspoken(s) ==
    s.src = 0 =>
        /\ At(s) \in {"HOST_ANNOUNCING", "FREE_SELECTING", "HUMAN_READY_TO_START", "AGENT_PREPARING"}
        /\ s.start = NoTime /\ s.budget = [x \in Sides |-> Total] /\ s.failed = 0 /\ s.op \in {"NONE", "RESET"}
        /\ At(s) = "FREE_SELECTING" => s.opp # 0
        /\ At(s) = "HUMAN_READY_TO_START" => s.left > 0

Stands(s, r, late, v) ==
    /\ HandsUp(s, r) /\ Phased(s) /\ Choosing(s, r) /\ OnFloor(s, r) /\ Heard(s, r)
    /\ Awaiting(s, r, late) /\ Voiced(s, late, v) /\ Unspoken(s)

\* The hands that stand after a step: none for a new opportunity (HandsKept).
Standing(t, s, r) == IF t.opp = s.opp THEN r ELSE {}

\* An agent is chosen when no human of the side that chooses stands.
AgentsLast(t, s, r) ==
    t.phase = "ALLOCATED" /\ s.phase # "ALLOCATED" /\ t.act = "AGENT_PREPARING" => r \cap HumansOf(s.holder) = {}

-----------------------------------------------------------------------------
(* The hands, outcome by outcome *)

\* What a step that does not choose leaves alone.
StandFields == {"side", "start", "settled", "phase", "hands", "holder", "opp", "src", "speech"}

\* The budget of a side changes only by the charge of a turn that is not settled.
Charged(t, s) ==
    /\ t.budget \in [Sides -> 0..Total]
    /\ \A x \in Sides : x # s.side \/ s.start = NoTime \/ s.settled => t.budget[x] = s.budget[x]

\* The state of a failed recognition is the same, or another one, of a speech the
\* opportunity waits for, or it was retried while nobody had the floor.
FailedOn(t, s) ==
    \/ t.failed = s.failed /\ (s.failed = 0 => (t.op = s.op \/ s.src # 0) /\ (At(s) \in Turn => t.open = s.open))
    \/ /\ t.failed # 0 /\ s.src # 0 /\ ~(At(s) = "HUMAN_READY_TO_START" /\ s.left = 0)
       /\ ~(At(s) = "AGENT_PREPARING" /\ s.phase = "COMPETING")
    \/ s.failed # 0 /\ At(s) \notin OnAir

\* A step that leaves the opportunity and the hands alone keeps the hands standing,
\* whatever it stops, charges or saves.
LEMMA StandsOn ==
    ASSUME NEW s, Typed(s), NEW r, NEW late, NEW v, Stands(s, r, late, v), NEW t, NEW after,
           At(t) = At(s), Same(t, s, StandFields), Charged(t, s), FailedOn(t, s),
           At(s) = "HUMAN_READY_TO_START" => t.left = s.left, At(s) \in HumanTurn => t.left # NoTime,
           At(s) = "FREE_SELECTING" /\ Chooses(t) => Chooses(s),
           At(s) = "HOST_ANNOUNCING" => t.round \in {s.round, s.opp},
           At(s) \in Finalizing /\ s.selLeft => t.selLeft,
           At(s) = "HUMAN_SPEAKING" /\ t.failed = 0 /\ t.status # "RUNNING" => s.status # "RUNNING",
           after \subseteq late \/ t.failed # 0
    PROVE  Stands(t, r, after, v)
<1>1. /\ t.side = s.side /\ t.start = s.start /\ t.settled = s.settled /\ t.phase = s.phase /\ t.hands = s.hands
      /\ t.holder = s.holder /\ t.opp = s.opp /\ t.src = s.src /\ t.speech = s.speech
  BY DEF Same, StandFields
<1>2. /\ s.budget \in [Sides -> 0..Total] /\ s.holder \in Sides /\ (At(s) \in Turn => s.side \in Sides)
      /\ ToSet(s.hands) \subseteq Humans
  BY TurnFacts
<1>3. At(s) \in Turn => t.budget[Other(s.side)] = s.budget[Other(s.side)] /\ (Rich(t) <=> Rich(s))
  BY <1>1, <1>2, Numbers DEF Charged, Rich
<1>4. s.start = NoTime \/ s.settled => t.budget = s.budget
  BY <1>2 DEF Charged
<1>5. NewlyChosen(t) <=> NewlyChosen(s)
  BY <1>1 DEF NewlyChosen
<1>6. HandsUp(t, r)
  <2>1. HandsOpposite(t)
    BY <1>1, <1>5 DEF Stands, HandsUp, HandsOpposite
  <2>2. ASSUME NEW h \in ToSet(s.hands) PROVE t.budget[SideOf[h]] > 0
    <3>1. s.budget[SideOf[h]] > 0 /\ SideOf[h] \in Sides
      BY <1>2, <2>2, Numbers DEF Stands, HandsUp, HandsPaid
    <3>2. CASE s.start = NoTime \/ s.settled
      BY <1>4, <3>1, <3>2
    <3>3. CASE ~(s.start = NoTime \/ s.settled)
      <4>1. At(s) \in Turn /\ ~NewlyChosen(s)
        BY <3>3 DEF Stands, Phased, Awaiting
      <4>2. SideOf[h] = Other(s.side)
        BY <2>2, <4>1 DEF Stands, HandsUp, HandsOpposite, HumansOf
      <4>. QED BY <1>3, <3>1, <4>1, <4>2
    <3>. QED BY <3>2, <3>3
  <2>3. HandsPaid(t)
    BY <1>1, <2>2 DEF HandsPaid
  <2>. QED BY <1>1, <2>1, <2>3 DEF Stands, HandsUp
<1>7. Phased(t)
  BY <1>1 DEF Stands, Phased
<1>8. Choosing(t, r)
  <2>1. ASSUME At(s) = "FREE_SELECTING", Chooses(t) PROVE Best(t, r)
    <3>1. Best(s, r)
      BY <2>1 DEF Stands, Choosing
    <3>2. t.budget = s.budget
      BY <1>4, <2>1, Kinds DEF Stands, Phased
    <3>. QED BY <1>1, <3>1, <3>2 DEF Best
  <2>. QED BY <1>1, <2>1 DEF Stands, Choosing
<1>9. OnFloor(t, r)
  <2>1. Onwards(t) <=> Onwards(s)
    BY <1>1 DEF Onwards
  <2>2. Onwards(s) => At(s) \in Turn
    BY Kinds DEF Onwards
  <2>. QED BY <1>1, <1>3, <2>1, <2>2 DEF Stands, OnFloor, StandsFor
<1>10. Heard(t, r)
  <2>1. At(s) \in OnAir => At(s) \in Turn
    BY Kinds
  <2>2. At(s) \in OnAir /\ s.holder = s.side /\ s.opp # 0 => ~Rich(t)
    BY <1>3, <2>1 DEF Stands, Heard
  <2>3. At(s) \in Finalizing /\ s.opp # 0 => t.selLeft
    BY DEF Stands, Heard
  <2>4. At(s) \in OnAir /\ t.failed = 0 => s.failed = 0 /\ t.open = s.open
    BY <2>1 DEF FailedOn
  <2>5. At(s) \in OnAir /\ s.opp = 0 /\ Rich(t) /\ t.failed = 0 => t.open \/ r = {}
    BY <1>3, <2>1, <2>4 DEF Stands, Heard
  <2>6. At(s) = "HUMAN_SPEAKING" /\ t.status # "RUNNING" /\ t.failed = 0 => s.opp = 0
    BY <2>4, Kinds DEF Stands, Heard
  <2>. QED BY <1>1, <2>2, <2>3, <2>5, <2>6 DEF Heard
<1>11. Awaiting(t, r, after)
  <2>1. NewlyChosen(s) => t.left > 0 /\ t.start = NoTime /\ t.budget[t.side] > 0
    BY <1>1, <1>4 DEF Stands, Awaiting, NewlyChosen
  <2>2. ASSUME At(s) = "HUMAN_READY_TO_START", t.left = 0
        PROVE  /\ t.opp = 0 /\ t.failed = 0 /\ (t.src = t.speech \/ t.src \notin after)
               /\ StandsFor(t, r) /\ (Rich(t) => t.open \/ r = {})
    <3>1. /\ s.opp = 0 /\ s.failed = 0 /\ (s.src = s.speech \/ s.src \notin late)
          /\ StandsFor(s, r) /\ (Rich(s) => s.open \/ r = {}) /\ s.left = 0
      BY <2>2 DEF Stands, Awaiting
    <3>2. t.failed = 0 /\ t.open = s.open
      BY <2>2, <3>1, Kinds DEF FailedOn
    <3>3. Rich(t) <=> Rich(s)
      BY <1>3, <2>2, Kinds
    <3>. QED BY <1>1, <3>1, <3>2, <3>3 DEF StandsFor
  <2>. QED BY <1>5, <2>1, <2>2 DEF Awaiting
<1>12. Voiced(t, after, v)
  <2>1. ASSUME At(s) = "AGENT_PREPARING", s.phase = "COMPETING"
        PROVE  t.src \notin after \ v /\ t.failed = 0 /\ t.src # 0 /\ (t.start = NoTime \/ t.settled \/ t.open)
    <3>1. s.src \notin late \ v /\ s.failed = 0 /\ s.src # 0 /\ (s.start = NoTime \/ s.settled \/ s.open)
      BY <2>1 DEF Stands, Voiced
    <3>2. t.failed = 0 /\ t.open = s.open
      BY <2>1, <3>1, Kinds DEF FailedOn
    <3>. QED BY <1>1, <3>1, <3>2
  <2>2. At(s) \in {"AGENT_SPEAKING", "AGENT_FINALIZING"} => s.speech \in v
    BY DEF Stands, Voiced
  <2>. QED BY <1>1, <2>1, <2>2 DEF Voiced
<1>13. Unspoken(t)
  <2>1. SUFFICES ASSUME s.src = 0
                 PROVE  /\ t.start = NoTime /\ t.budget = [x \in Sides |-> Total] /\ t.failed = 0
                        /\ t.op \in {"NONE", "RESET"}
                        /\ At(s) = "HUMAN_READY_TO_START" => t.left > 0
    BY <1>1 DEF Stands, Unspoken
  <2>2. /\ s.start = NoTime /\ s.budget = [x \in Sides |-> Total] /\ s.failed = 0 /\ s.op \in {"NONE", "RESET"}
        /\ At(s) = "HUMAN_READY_TO_START" => s.left > 0
    BY <2>1 DEF Stands, Unspoken
  <2>3. t.failed = 0 /\ t.op = s.op
    BY <2>1, <2>2 DEF FailedOn
  <2>. QED BY <1>1, <1>4, <2>2, <2>3
<1>. QED BY <1>6, <1>7, <1>8, <1>9, <1>10, <1>11, <1>12, <1>13 DEF Stands

\* Whoever is chosen, or awaited, is so among the hands of the holder; an agent is
\* chosen when there are none (_lock_experiment_selection_if_ready).
LEMMA ChoseStands ==
    ASSUME NEW s, Typed(s), s.status = "RUNNING", s.act \notin Speaking, NEW r, HandsPaid(s), r \subseteq Humans,
           ToSet(s.hands) \subseteq r, r \cap HumansOf(s.holder) \subseteq ToSet(s.hands),
           s.start = NoTime \/ s.settled,
           s.src = 0 => /\ s.start = NoTime /\ s.budget = [x \in Sides |-> Total] /\ s.op \in {"NONE", "RESET"}
                        /\ s.opp # 0,
           NEW t, Typed(t), Chose(t, s), NEW late, NEW v
    PROVE  Stands(t, r, late, v) /\ AgentsLast(t, s, r) /\ t.opp = s.opp
<1>1. /\ t.phase \in {"ALLOCATED", "HUMAN_ONLY_WAIT"}
      /\ t.status = s.status /\ t.budget = s.budget /\ t.failed = s.failed /\ t.op = s.op
      /\ t.holder = s.holder /\ t.opp = s.opp /\ t.src = s.src
  BY DEF Chose, ChoseHuman, ChoseAgent, WaitsForHuman, Same, Unchosen
<1>2. s.failed = 0 /\ s.holder \in Sides /\ s.budget \in [Sides -> 0..Total]
  BY DEF Typed, Shape, ChoiceTyped, TurnTyped
<1>3. CASE ChoseHuman(t, s)
  <2>1. /\ t.act = "HUMAN_READY_TO_START" /\ t.start = NoTime /\ t.phase = "ALLOCATED"
        /\ t.who \in ToSet(s.hands) \cap HumansOf(s.holder) /\ t.side = s.holder
        /\ t.left = TurnOf(s, s.holder) /\ ToSet(t.hands) \subseteq ToSet(s.hands)
    BY <1>3 DEF ChoseHuman
  <2>2. s.budget[s.holder] > 0
    BY <2>1 DEF HandsPaid, HumansOf
  <2>3. t.left \in 1..Total
    BY <1>2, <2>1, <2>2, TurnTime
  <2>4. At(t) = "HUMAN_READY_TO_START" /\ At(t) \in HumanTurn /\ At(t) \in Turn /\ At(t) \notin OnAir
    BY <1>1, <2>1, Kinds DEF At
  <2>5. NewlyChosen(t)
    BY <2>1, <2>4 DEF NewlyChosen
  <2>6. HandsUp(t, r)
    BY <1>1, <2>1, <2>5 DEF HandsUp, HandsPaid, HandsOpposite
  <2>7. Phased(t) /\ Choosing(t, r) /\ OnFloor(t, r) /\ Heard(t, r)
    BY <1>1, <2>1, <2>4, Kinds DEF Phased, Choosing, OnFloor, Onwards, Heard
  <2>8. Awaiting(t, r, late)
    BY <1>1, <2>1, <2>2, <2>3, Numbers DEF Awaiting
  <2>9. Voiced(t, late, v) /\ Unspoken(t)
    BY <1>1, <1>2, <2>1, <2>3, <2>4 DEF Voiced, Unspoken
  <2>10. AgentsLast(t, s, r)
    BY <2>1 DEF AgentsLast
  <2>. QED BY <1>1, <2>6, <2>7, <2>8, <2>9, <2>10 DEF Stands
<1>4. CASE ChoseAgent(t, s) \/ WaitsForHuman(t, s)
  <2>1. /\ t.hands = << >> /\ ~HandUp(s) /\ t.start = s.start /\ t.settled = s.settled
        /\ \/ t.act = "AGENT_PREPARING" /\ t.side = s.holder /\ t.phase = "ALLOCATED"
           \/ t.act = "FREE_SELECTING" /\ t.phase = "HUMAN_ONLY_WAIT"
    BY <1>4 DEF ChoseAgent, WaitsForHuman, Same, Unchosen, Charge0
  <2>2. ToSet(t.hands) = {}
    BY <2>1 DEF ToSet
  <2>3. r \cap HumansOf(s.holder) = {}
    <3>1. SUFFICES ASSUME NEW h \in r \cap HumansOf(s.holder) PROVE FALSE
      OBVIOUS
    <3>2. h \in ToSet(s.hands) \cap HumansOf(s.holder)
      BY <3>1
    <3>3. s.budget[s.holder] > 0
      BY <3>2 DEF HandsPaid, HumansOf
    <3>. QED BY <2>1, <3>2, <3>3 DEF HandUp
  <2>4. /\ At(t) = t.act /\ At(t) \notin OnAir /\ At(t) \notin HumanTurn
        /\ At(t) \notin Turn \/ At(t) = "AGENT_PREPARING"
    BY <1>1, <2>1, Kinds DEF At
  <2>5. HandsUp(t, r)
    BY <2>2 DEF HandsUp, HandsPaid, HandsOpposite
  <2>6. Phased(t) /\ OnFloor(t, r) /\ Heard(t, r)
    BY <1>1, <2>1, <2>4, Kinds DEF Phased, OnFloor, Onwards, Heard
  <2>7. Choosing(t, r)
    BY <1>1, <2>1, <2>2, <2>3, <2>4 DEF Choosing, Best
  <2>8. Awaiting(t, r, late)
    BY <2>1, <2>4, Kinds DEF Awaiting, NewlyChosen
  <2>9. Voiced(t, late, v) /\ Unspoken(t)
    BY <1>1, <1>2, <2>1, <2>4 DEF Voiced, Unspoken
  <2>10. AgentsLast(t, s, r)
    BY <2>3 DEF AgentsLast
  <2>. QED BY <1>1, <2>5, <2>6, <2>7, <2>8, <2>9, <2>10 DEF Stands
<1>. QED BY <1>3, <1>4 DEF Chose

\* What holds when it selects and the next speaker is not chosen.
LEMMA SelectingStands ==
    ASSUME NEW t, At(t) = "FREE_SELECTING", NEW r, r \subseteq Humans, ToSet(t.hands) \subseteq r, HandsPaid(t),
           t.phase # "ALLOCATED", t.start = NoTime \/ t.settled, Chooses(t) => Best(t, r),
           t.src = 0 => /\ t.start = NoTime /\ t.budget = [x \in Sides |-> Total] /\ t.failed = 0
                        /\ t.op \in {"NONE", "RESET"} /\ t.opp # 0,
           NEW late, NEW v
    PROVE  Stands(t, r, late, v)
<1>1. At(t) \notin Turn /\ At(t) \notin OnAir /\ At(t) \notin HumanTurn
  BY Kinds
<1>2. HandsUp(t, r)
  BY <1>1 DEF HandsUp, HandsOpposite
<1>3. Phased(t) /\ Choosing(t, r) /\ OnFloor(t, r) /\ Heard(t, r)
  BY <1>1, Kinds DEF Phased, Choosing, OnFloor, Onwards, Heard
<1>4. Awaiting(t, r, late) /\ Voiced(t, late, v) /\ Unspoken(t)
  BY <1>1 DEF Awaiting, NewlyChosen, Voiced, Unspoken
<1>. QED BY <1>2, <1>3, <1>4 DEF Stands

\* A selection goes on or chooses (_hand_window_closed).
LEMMA SelectedStands ==
    ASSUME NEW s, Typed(s), s.status = "RUNNING", s.act = "FREE_SELECTING", NEW r, NEW late, NEW v,
           Stands(s, r, late, v), NEW t, Typed(t), Selected(t, s)
    PROVE  Stands(t, r, late, v) /\ AgentsLast(t, s, r) /\ t.opp = s.opp
<1>1. At(s) = "FREE_SELECTING" /\ At(s) \notin Turn /\ s.act \notin Speaking
  BY Kinds DEF At, Speaking
<1>2. /\ s.start = NoTime \/ s.settled
      /\ Best(s, r) /\ s.phase # "ALLOCATED"
      /\ r \subseteq Humans /\ ToSet(s.hands) \subseteq r /\ HandsPaid(s)
  BY <1>1 DEF Stands, Phased, Choosing, Chooses, HandsUp
<1>3. s.src = 0 => /\ s.start = NoTime /\ s.budget = [x \in Sides |-> Total] /\ s.failed = 0
                   /\ s.op \in {"NONE", "RESET"} /\ s.opp # 0
  BY <1>1 DEF Stands, Unspoken
<1>4. CASE Chose(t, s)
  BY <1>1, <1>2, <1>3, <1>4, ChoseStands DEF Best
<1>5. ASSUME Same(t, s, TurnFields \cup {"holder", "opp", "gen", "src", "hands"}), t.phase # "ALLOCATED"
      PROVE  Stands(t, r, late, v) /\ AgentsLast(t, s, r) /\ t.opp = s.opp
  <2>1. /\ t.status = s.status /\ t.act = s.act /\ t.start = s.start /\ t.settled = s.settled
        /\ t.budget = s.budget /\ t.failed = s.failed /\ t.op = s.op /\ t.holder = s.holder /\ t.opp = s.opp
        /\ t.src = s.src /\ t.hands = s.hands
    BY <1>5 DEF Same, TurnFields
  <2>2. At(t) = "FREE_SELECTING"
    BY <2>1 DEF At
  <2>3. HandsPaid(t) /\ Best(t, r)
    BY <1>2, <2>1 DEF HandsPaid, Best
  <2>. QED BY <1>2, <1>3, <1>5, <2>1, <2>2, <2>3, SelectingStands DEF AgentsLast
<1>6. CASE Same(t, s, TurnFields \cup {"holder", "opp", "gen", "src", "hands", "phase"})
  BY <1>2, <1>5, <1>6 DEF Same
<1>7. CASE WaitsForModel(t, s)
  BY <1>5, <1>7 DEF WaitsForModel, Same
<1>. QED BY <1>4, <1>6, <1>7 DEF Selected

\* _finish_free_turn keeps the hands of the side that speaks next, which can pay.
LEMMA TurnFinishedStands ==
    ASSUME NEW s, Typed(s), s.status = "RUNNING", s.act \in Finalizing, NEW r, NEW late, NEW v, Stands(s, r, late, v),
           NEW audio \in Nat, NEW t, Typed(t), TurnFinished(t, s, audio), NEW after
    PROVE  /\ Stands(t, Standing(t, s, r), after, v) /\ t.phase # "ALLOCATED"
           /\ t.act = "FREE_SELECTING" => t.opp = s.opp /\ r \cap HumansOf(s.holder) \subseteq HumansOf(t.holder)
<1>1. /\ t.start = NoTime /\ t.status = s.status /\ t.failed = s.failed /\ t.src = s.src /\ t.op = s.op
      /\ t.budget = [x \in Sides |-> IF x = s.side THEN Mine(s, audio) ELSE Theirs(s)]
  BY DEF TurnFinished, Same
<1>2. At(s) = s.act /\ At(s) \in Turn /\ At(s) \in OnAir /\ ~NewlyChosen(s) /\ At(s) \notin {"HUMAN_READY_TO_START", "AGENT_PREPARING"}
  BY Kinds DEF At, Finalizing, NewlyChosen
<1>3. s.side \in Sides /\ s.budget \in [Sides -> 0..Total] /\ s.left \in -1..Total /\ s.hands \in Seq(Humans)
      /\ s.holder \in Sides
  BY <1>2, TurnFacts
<1>4. Mine(s, audio) \in 0..Total /\ Theirs(s) \in 0..Total
  BY <1>3, Rests
<1>5. Theirs(s) > 0 <=> Rich(s)
  <2>1. s.budget[Other(s.side)] \in 0..Total
    BY <1>3, Numbers
  <2>. QED BY <2>1, Numbers DEF Theirs, Usable, Rich
<1>6. /\ r \subseteq Humans /\ ToSet(s.hands) \subseteq r /\ HandsPaid(s) /\ StandsFor(s, r)
      /\ ToSet(s.hands) \subseteq HumansOf(Other(s.side)) /\ s.phase # "ALLOCATED" /\ s.src # 0
      /\ s.holder # s.side => Rich(s)
  <2>1. /\ r \subseteq Humans /\ ToSet(s.hands) \subseteq r /\ HandsPaid(s)
        /\ ToSet(s.hands) \subseteq HumansOf(Other(s.side))
    BY <1>2 DEF Stands, HandsUp, HandsOpposite
  <2>2. s.phase # "ALLOCATED" /\ s.src # 0
    BY <1>2, Kinds DEF Stands, Phased, Unspoken, Finalizing
  <2>3. StandsFor(s, r) /\ (s.holder # s.side => Rich(s))
    BY <1>2 DEF Stands, OnFloor, Onwards
  <2>. QED BY <2>1, <2>2, <2>3
<1>7. t.phase # "ALLOCATED"
  BY <1>6 DEF TurnFinished
<1>8. CASE t.act = "ACTION_FINISHED" /\ t.opp = 0 /\ t.phase = "none" /\ t.hands = << >>
  <2>. DEFINE q == Standing(t, s, r)
  <2>1. q \subseteq Humans /\ ToSet(t.hands) = {}
    BY <1>6, <1>8 DEF ToSet, Standing
  <2>2. At(t) = "ACTION_FINISHED" /\ At(t) \notin Turn /\ At(t) \notin OnAir /\ At(t) \notin HumanTurn
    BY <1>1, <1>8, Kinds DEF At
  <2>. HIDE DEF q
  <2>3. HandsUp(t, q)
    BY <2>1, <2>2 DEF HandsUp, HandsPaid, HandsOpposite
  <2>4. Phased(t) /\ Choosing(t, q) /\ OnFloor(t, q) /\ Heard(t, q)
    BY <1>1, <1>8, <2>2, Kinds DEF Phased, Choosing, OnFloor, Onwards, Heard
  <2>5. Awaiting(t, q, after) /\ Voiced(t, after, v) /\ Unspoken(t)
    BY <1>1, <1>6, <2>2 DEF Awaiting, NewlyChosen, Voiced, Unspoken
  <2>6. Stands(t, q, after, v)
    BY <2>3, <2>4, <2>5 DEF Stands
  <2>. QED BY <1>7, <1>8, <2>6 DEF q
<1>9. CASE /\ t.act = "FREE_SELECTING" /\ (Mine(s, audio) # 0 \/ Theirs(s) # 0)
           /\ t.holder = (IF Theirs(s) > 0 THEN Other(s.side) ELSE s.side)
           /\ t.hands = HandsLeft(s.hands, t.holder) /\ t.opp = s.opp /\ t.phase = s.phase
  <2>1. At(t) = "FREE_SELECTING"
    BY <1>1, <1>9 DEF At
  <2>2. ToSet(t.hands) = ToSet(s.hands) \cap HumansOf(t.holder)
    BY <1>3, <1>9, Kept DEF HandsLeft
  <2>3. t.budget[t.holder] > 0
    BY <1>1, <1>3, <1>4, <1>9, Numbers
  <2>4. HandsPaid(t)
    BY <2>2, <2>3 DEF HandsPaid, HumansOf
  <2>5. r \cap HumansOf(t.holder) \subseteq ToSet(s.hands)
    <3>1. CASE Rich(s)
      BY <1>6, <3>1 DEF StandsFor
    <3>2. CASE ~Rich(s)
      <4>1. t.holder = s.side
        BY <1>5, <1>9, <3>2
      <4>2. HumansOf(s.side) \cap HumansOf(Other(s.side)) = {}
        BY <1>3, Numbers DEF HumansOf
      <4>. QED BY <1>6, <4>1, <4>2 DEF StandsFor
    <3>. QED BY <3>1, <3>2
  <2>6. Best(t, r)
    BY <2>2, <2>5 DEF Best
  <2>7. Stands(t, r, after, v)
    BY <1>1, <1>6, <1>9, <2>1, <2>2, <2>4, <2>6, SelectingStands
  <2>8. r \cap HumansOf(s.holder) \subseteq HumansOf(t.holder)
    <3>1. CASE s.holder = s.side
      <4>1. HumansOf(s.side) \cap HumansOf(Other(s.side)) = {}
        BY <1>3, Numbers DEF HumansOf
      <4>. QED BY <1>6, <3>1, <4>1 DEF StandsFor
    <3>2. CASE s.holder # s.side
      <4>1. Rich(s) /\ s.holder = Other(s.side)
        BY <1>3, <1>6, <3>2, Numbers
      <4>. QED BY <1>5, <1>9, <4>1
    <3>. QED BY <3>1, <3>2
  <2>. QED BY <1>7, <1>9, <2>7, <2>8 DEF Standing
<1>. QED BY <1>8, <1>9 DEF TurnFinished

\* _hand_window_closed: the window of a selection, or of a speech that has ended and
\* whose turn is finished without its text.
LEMMA ClosedStands ==
    ASSUME NEW s, Typed(s), s.status = "RUNNING", NEW r, NEW late, NEW v, Stands(s, r, late, v),
           NEW t, ChoiceTyped(t), IsClosed(t, s)
    PROVE  Stands(t, Standing(t, s, r), late, v) /\ AgentsLast(t, s, r)
<1>0. Typed(t)
  BY ClosedTyped
<1>1. CASE t = s
  BY <1>1 DEF AgentsLast, Standing
<1>2. CASE s.act = "FREE_SELECTING" /\ Selected(t, s)
  BY <1>0, <1>2, SelectedStands DEF Standing
<1>3. CASE s.act \in Finalizing /\ GivenUp(t, s)
  <2>1. /\ t.status = s.status /\ t.act = s.act /\ t.side = s.side /\ t.left = s.left /\ t.start = s.start
        /\ t.settled = s.settled /\ t.budget = s.budget /\ t.speech = s.speech /\ t.holder = s.holder
        /\ t.opp = s.opp /\ t.src = s.src /\ t.phase = s.phase /\ t.hands = << >> /\ t.selLeft
    BY <1>3 DEF GivenUp, Same, TurnFields
  <2>2. /\ At(t) = At(s) /\ At(s) = s.act /\ At(s) \in Turn /\ At(s) \in OnAir /\ At(s) \in Finalizing
        /\ At(s) \notin {"HUMAN_READY_TO_START", "AGENT_PREPARING", "HUMAN_SPEAKING", "FREE_SELECTING", "HOST_ANNOUNCING"}
    BY <1>3, <2>1, Kinds DEF At, Finalizing
  <2>3. s.side \in Sides /\ s.budget \in [Sides -> 0..Total] /\ ToSet(t.hands) = {}
    <3>1. ToSet(t.hands) = {}
      BY <2>1 DEF ToSet
    <3>. QED BY <2>2, <3>1, TurnFacts
  <2>4. ~Rich(s) /\ ~Rich(t)
    BY <1>3, <2>1, <2>3, Numbers DEF GivenUp, Poor, Rich
  <2>5. HandsUp(t, r)
    BY <2>3 DEF Stands, HandsUp, HandsPaid, HandsOpposite
  <2>6. Phased(t) /\ Choosing(t, r)
    BY <2>1, <2>2 DEF Stands, Phased, Choosing
  <2>7. OnFloor(t, r)
    BY <2>1, <2>2, <2>4 DEF Stands, OnFloor, Onwards, StandsFor
  <2>8. Heard(t, r)
    BY <2>1, <2>2, <2>4 DEF Heard
  <2>9. Awaiting(t, r, late) /\ Voiced(t, late, v)
    BY <2>1, <2>2 DEF Stands, Awaiting, NewlyChosen, Voiced
  <2>10. Unspoken(t)
    BY <2>1, <2>2, Kinds DEF Stands, Unspoken, Finalizing
  <2>11. AgentsLast(t, s, r)
    BY <2>1, <2>2 DEF AgentsLast
  <2>. QED BY <2>1, <2>5, <2>6, <2>7, <2>8, <2>9, <2>10, <2>11 DEF Stands, Standing
<1>4. ASSUME s.act \in Finalizing, NEW u, ChoiceTyped(u), TurnFinished(u, s, 0),
             IF u.act = "FREE_SELECTING" THEN Selected(t, u) ELSE t = u
      PROVE  Stands(t, Standing(t, s, r), late, v) /\ AgentsLast(t, s, r)
  <2>1. s.side \in Sides
    <3>1. At(s) \in Turn
      BY <1>4, Kinds DEF At
    <3>. QED BY <3>1, TurnFacts
  <2>2. Typed(u) /\ u.status = "RUNNING"
    <3>1. u.status = s.status
      BY <1>4 DEF TurnFinished, Same
    <3>. QED BY <1>4, <2>1, <3>1, TurnFinishedTyped
  <2>3. /\ Stands(u, Standing(u, s, r), late, v) /\ u.phase # "ALLOCATED"
        /\ u.act = "FREE_SELECTING" => u.opp = s.opp /\ r \cap HumansOf(s.holder) \subseteq HumansOf(u.holder)
    <3>1. 0 \in Nat
      OBVIOUS
    <3>. QED BY <1>4, <2>2, <3>1, TurnFinishedStands
  <2>4. CASE t = u
    BY <2>3, <2>4 DEF AgentsLast
  <2>5. CASE u.act = "FREE_SELECTING" /\ Selected(t, u)
    <3>1. Stands(u, r, late, v)
      BY <2>3, <2>5 DEF Standing
    <3>2. Stands(t, r, late, v) /\ AgentsLast(t, u, r) /\ t.opp = u.opp
      BY <1>0, <2>2, <2>5, <3>1, SelectedStands
    <3>3. AgentsLast(t, s, r)
      BY <2>3, <2>5, <3>2 DEF AgentsLast
    <3>. QED BY <2>3, <2>5, <3>2, <3>3 DEF Standing
  <2>. QED BY <1>4, <2>4, <2>5
<1>. QED BY <1>1, <1>2, <1>3, <1>4 DEF IsClosed

\* The charge of a turn is to its own side (_freeze_speech_budget).
LEMMA FreezeCharges ==
    ASSUME NEW s, Typed(s), NEW terminal \in BOOLEAN, NEW limit \in BOOLEAN, NEW f, f = Freeze(s, terminal, limit)
    PROVE  /\ Charged(f, s) /\ f.start = s.start
           /\ Same(f, s, Names \ {"left", "clock", "used", "settled", "budget"})
           /\ ~terminal => f.settled = s.settled
           /\ s.clock = NoTime /\ s.left # NoTime => f.left = s.left
           /\ s.clock # NoTime => f.left # NoTime
<1>1. Frozen(f, s, terminal, limit) /\ Same(f, s, Names \ {"left", "clock", "used", "settled", "budget"})
  BY FreezeKeeps DEF Typed
<1>2. f.start = s.start
  BY <1>1 DEF Same, Names
<1>3. s.budget \in [Sides -> 0..Total] /\ f.budget \in [Sides -> 0..Total] /\ (s.clock # NoTime => f.left # NoTime)
      /\ s.left \in -1..Total /\ s.settled \in BOOLEAN
  BY <1>1, FrozenTimes, TurnFacts
<1>4. ~Owes(s) => f = s
  BY <1>1 DEF Frozen
<1>5. Owes(s) => /\ f.left = Rest(s, limit) /\ f.settled = terminal
                 /\ f.budget = [s.budget EXCEPT ![s.side] = AtLeastZero(s.start - Consumed(s, limit))]
  BY <1>1 DEF Frozen
<1>6. Charged(f, s)
  <2>1. CASE ~Owes(s)
    BY <1>3, <1>4, <2>1 DEF Charged
  <2>2. CASE Owes(s)
    <3>1. ~(s.start = NoTime \/ s.settled)
      BY <2>2 DEF Owes
    <3>. QED BY <1>3, <1>5, <2>2, <3>1 DEF Charged
  <2>. QED BY <2>1, <2>2
<1>7. ~terminal => f.settled = s.settled
  <2>1. Owes(s) => s.settled = FALSE
    BY <1>3 DEF Owes
  <2>. QED BY <1>4, <1>5, <2>1
<1>8. s.clock = NoTime /\ s.left # NoTime => f.left = s.left
  <2>1. s.clock = NoTime /\ s.left # NoTime => Rest(s, limit) = s.left
    BY <1>3, Numbers DEF Rest, AtLeastZero
  <2>. QED BY <1>4, <1>5, <2>1
<1>. QED BY <1>1, <1>2, <1>3, <1>6, <1>7, <1>8

\* _finish_speech: the hands raised during the speech stand for its window.
LEMMA SpeechFinishedStands ==
    ASSUME NEW s, Typed(s), s.status = "RUNNING", s.act \in Speaking, NEW r, NEW late, NEW v, Stands(s, r, late, v),
           NEW limit \in BOOLEAN, NEW t, ChoiceTyped(t), SpeechFinished(t, s, limit)
    PROVE  Stands(t, r, late, v) /\ AgentsLast(t, s, r) /\ t.opp = s.opp
<1>. DEFINE f == Freeze(s, TRUE, limit)
<1>1. /\ Charged(f, s) /\ Same(f, s, Names \ {"left", "clock", "used", "settled", "budget"})
      /\ s.clock # NoTime => f.left # NoTime
  BY FreezeCharges
<1>2. Typed(t) /\ t.act \in Finalizing /\ t.status = "RUNNING" /\ t.speech = s.speech /\ t.src = s.src /\ t.failed = s.failed
  BY SpeechFinishedTyped
<1>3. /\ t.act = (IF s.act = "AGENT_SPEAKING" THEN "AGENT_FINALIZING" ELSE "SPEECH_FINALIZING")
      /\ Same(t, f, Kept20) /\ (s.opp # 0 => t.selLeft)
  BY DEF SpeechFinished
<1>. HIDE DEF f
<1>4. /\ t.side = s.side /\ t.budget = f.budget /\ t.left = f.left /\ t.holder = s.holder /\ t.opp = s.opp
      /\ t.hands = s.hands /\ t.phase = s.phase /\ t.open = s.open
  BY <1>1, <1>3 DEF Same, Names, Kept20
<1>5. /\ At(s) = s.act /\ At(s) \in Turn /\ At(s) \in OnAir /\ At(t) = t.act /\ At(t) \in Turn /\ At(t) \in OnAir
      /\ At(s) \notin {"HUMAN_READY_TO_START", "AGENT_PREPARING", "FREE_SELECTING", "HOST_ANNOUNCING"}
      /\ At(t) \notin {"HUMAN_READY_TO_START", "AGENT_PREPARING", "FREE_SELECTING", "HOST_ANNOUNCING", "HUMAN_SPEAKING"}
      /\ At(t) \in {"AGENT_SPEAKING", "AGENT_FINALIZING"} => At(s) = "AGENT_SPEAKING"
  BY <1>2, <1>3, Kinds DEF At, Speaking, Finalizing
<1>6. s.side \in Sides /\ s.failed = 0 /\ s.clock # NoTime
  BY <1>5, TurnFacts DEF Typed, Shape, Times
<1>7. t.budget[Other(s.side)] = s.budget[Other(s.side)] /\ (Rich(t) <=> Rich(s))
  BY <1>1, <1>4, <1>6, Numbers DEF Charged, Rich
<1>8. HandsUp(t, r)
  <2>1. r \subseteq Humans /\ ToSet(s.hands) \subseteq r /\ HandsPaid(s) /\ ToSet(s.hands) \subseteq HumansOf(Other(s.side))
    BY <1>5 DEF Stands, HandsUp, HandsOpposite, NewlyChosen
  <2>2. \A h \in ToSet(s.hands) : t.budget[SideOf[h]] > 0
    BY <1>7, <2>1 DEF HandsPaid, HumansOf
  <2>. QED BY <1>4, <2>1, <2>2 DEF HandsUp, HandsPaid, HandsOpposite
<1>9. Phased(t) /\ Choosing(t, r)
  BY <1>4, <1>5 DEF Stands, Phased, Choosing
<1>10. OnFloor(t, r)
  BY <1>4, <1>5, <1>7 DEF Stands, OnFloor, Onwards, StandsFor
<1>11. Heard(t, r)
  <2>1. s.holder = s.side /\ s.opp # 0 => ~Rich(t)
    BY <1>5, <1>7 DEF Stands, Heard
  <2>2. s.opp = 0 /\ Rich(t) => s.open \/ r = {}
    BY <1>5, <1>6, <1>7 DEF Stands, Heard
  <2>. QED BY <1>3, <1>4, <1>5, <2>1, <2>2 DEF Heard
<1>12. Awaiting(t, r, late) /\ Voiced(t, late, v)
  BY <1>1, <1>2, <1>4, <1>5, <1>6 DEF Stands, Awaiting, NewlyChosen, Voiced
<1>13. Unspoken(t)
  BY <1>2, <1>5 DEF Stands, Unspoken
<1>14. AgentsLast(t, s, r)
  BY <1>4 DEF AgentsLast
<1>. QED BY <1>4, <1>8, <1>9, <1>10, <1>11, <1>12, <1>13, <1>14 DEF Stands

\* A speech that begins opens the opportunity of the other side, or of its own when
\* the other has too little time; nobody has raised a hand for it.
LEMMA OpenedStands ==
    ASSUME NEW g, Typed(g), g.status = "RUNNING", g.act \in Speaking, NEW speech \in Nat \ {0},
           g.speech = speech, g.left # NoTime,
           NEW t, ChoiceTyped(t), t = OpenOpportunity(g, NextHolder(g), speech),
           NEW late, NEW v, g.act = "AGENT_SPEAKING" => speech \in v
    PROVE  Stands(t, {}, late, v)
<1>1. At(g) = g.act /\ g.side \in Sides
  <2>1. At(g) = g.act /\ At(g) \in Turn
    BY Kinds DEF At
  <2>. QED BY <2>1, TurnFacts
<1>2. IsOpened(t, g, NextHolder(g), speech)
  <2>1. NextHolder(g) \in Sides
    BY <1>1, Numbers DEF NextHolder
  <2>. QED BY <2>1, Opened DEF Typed
<1>3. /\ t.status = g.status /\ t.act = g.act /\ t.side = g.side /\ t.left = g.left /\ t.budget = g.budget
      /\ t.speech = speech /\ t.phase = "COMPETING" /\ t.opp = g.gen + 1 /\ t.hands = << >> /\ t.src = speech
      /\ t.holder = NextHolder(g) /\ t.open = TRUE
  BY <1>2 DEF IsOpened, Same, TurnFields
<1>4. t.opp # 0
  BY <1>3 DEF Typed, ChoiceTyped
<1>5. /\ At(t) = g.act /\ At(t) \in Turn /\ At(t) \in OnAir
      /\ At(t) \notin Finalizing \cup {"HUMAN_READY_TO_START", "AGENT_PREPARING", "FREE_SELECTING", "HOST_ANNOUNCING"}
  BY <1>3, Kinds DEF At, Speaking
<1>6. ToSet(t.hands) = {}
  BY <1>3 DEF ToSet
<1>7. HandsUp(t, {})
  BY <1>6 DEF HandsUp, HandsPaid, HandsOpposite
<1>8. Phased(t) /\ Choosing(t, {})
  BY <1>3, <1>5 DEF Phased, Choosing
<1>9. t.holder # t.side <=> Rich(t)
  BY <1>1, <1>3, Numbers DEF NextHolder, Rich
<1>10. OnFloor(t, {})
  BY <1>9 DEF OnFloor, StandsFor
<1>11. Heard(t, {})
  BY <1>3, <1>4, <1>5, <1>9 DEF Heard
<1>12. Awaiting(t, {}, late) /\ Voiced(t, late, v) /\ Unspoken(t)
  BY <1>3, <1>5, Kinds DEF Awaiting, NewlyChosen, Voiced, Unspoken, Speaking
<1>. QED BY <1>7, <1>8, <1>10, <1>11, <1>12 DEF Stands

\* _speech_start, _agent_playback_started: the hands that stood are answered, unless
\* the speech goes on without any time left; then they stand for its window.
LEMMA StartedStands ==
    ASSUME NEW s, Typed(s), s.status = "RUNNING", NEW r, NEW late, NEW v, Stands(s, r, late, v), s.src \notin late,
           NEW act, NEW speech \in Nat \ {0}, NEW again \in BOOLEAN,
           \/ s.act = "HUMAN_READY_TO_START" /\ act = "HUMAN_SPEAKING" /\ (again <=> s.speech # 0)
           \/ s.act = "AGENT_PREPARING" /\ act = "AGENT_SPEAKING" /\ ~again,
           NEW t, ChoiceTyped(t), SpeechStarted(t, s, act, speech, again),
           NEW after, NEW w, act = "AGENT_SPEAKING" => speech \in w
    PROVE  Stands(t, Standing(t, s, r), after, w) /\ AgentsLast(t, s, r)
<1>1. PICK g : /\ ChoiceTyped(g) /\ Begun(g, s, act, speech, again)
               /\ IF TurnLeft(s) = 0 /\ act = "HUMAN_SPEAKING" THEN t = FinishSpeech(g, TRUE)
                  ELSE t = OpenOpportunity(g, NextHolder(g), speech)
  BY DEF SpeechStarted
<1>2. Typed(g)
  BY <1>1, BegunTyped
<1>3. /\ g.act = act /\ g.speech = speech /\ g.left = TurnLeft(s)
      /\ g.hands = (IF s.open THEN s.hands ELSE << >>) /\ g.open = TRUE
      /\ g.status = s.status /\ g.side = s.side /\ g.budget = s.budget /\ g.failed = s.failed
      /\ g.holder = s.holder /\ g.opp = s.opp /\ g.gen = s.gen /\ g.src = s.src /\ g.phase = s.phase
  BY <1>1 DEF Begun, Same
<1>4. g.act \in Speaking /\ g.left # NoTime /\ At(g) = g.act /\ At(s) = s.act
  BY <1>3, Numbers DEF Speaking, TurnLeft, At
<1>5. CASE ~(TurnLeft(s) = 0 /\ act = "HUMAN_SPEAKING")
  <2>1. t = OpenOpportunity(g, NextHolder(g), speech)
    BY <1>1, <1>5
  <2>2. Stands(t, {}, after, w)
    BY <1>2, <1>3, <1>4, <2>1, OpenedStands
  <2>3. t.opp = s.gen + 1 /\ t.phase = "COMPETING"
    <3>1. DOMAIN g = Names
      BY <1>1 DEF ChoiceTyped
    <3>. QED BY <1>3, <2>1, <3>1 DEF OpenOpportunity, Names
  <2>4. t.opp # s.opp
    BY <2>3 DEF Typed, ChoiceTyped
  <2>. QED BY <2>2, <2>3, <2>4 DEF Standing, AgentsLast
<1>6. CASE TurnLeft(s) = 0 /\ act = "HUMAN_SPEAKING"
  <2>1. s.left = 0 /\ s.act = "HUMAN_READY_TO_START"
    BY <1>6, Numbers DEF TurnLeft
  <2>2. /\ At(s) \in Turn /\ At(s) \in HumanTurn /\ At(g) \in Turn /\ At(g) \in OnAir
        /\ At(g) = "HUMAN_SPEAKING" /\ At(g) \notin Finalizing /\ s.side \in Sides
    <3>1. At(s) \in Turn
      BY <1>4, <2>1, Kinds
    <3>. QED BY <1>3, <1>4, <1>6, <2>1, <3>1, Kinds, TurnFacts
  <2>3. /\ s.opp = 0 /\ s.failed = 0 /\ StandsFor(s, r) /\ (Rich(s) => s.open \/ r = {}) /\ ~NewlyChosen(s)
        /\ s.src # 0
    BY <1>4, <2>1 DEF Stands, Awaiting, Unspoken
  <2>4. s.phase \notin {"ALLOCATED", "MODEL_WAIT", "HUMAN_ONLY_WAIT"}
    BY <1>4, <2>1, <2>3 DEF Stands, Phased, NewlyChosen
  <2>5. /\ ToSet(g.hands) \subseteq ToSet(s.hands)
        /\ s.open => g.hands = s.hands
    BY <1>3 DEF ToSet
  <2>6. Rich(g) <=> Rich(s)
    BY <1>3 DEF Rich
  <2>7. HandsUp(g, r)
    BY <1>3, <2>2, <2>3, <2>5 DEF Stands, HandsUp, HandsPaid, HandsOpposite
  <2>8. Phased(g) /\ Choosing(g, r)
    BY <1>3, <2>2, <2>4 DEF Phased, Choosing
  <2>9. OnFloor(g, r)
    <3>1. StandsFor(g, r)
      BY <1>3, <2>3, <2>5, <2>6 DEF StandsFor
    <3>2. s.holder # s.side => Rich(s)
      BY <2>2 DEF Stands, OnFloor
    <3>. QED BY <1>3, <2>6, <3>1, <3>2 DEF OnFloor
  <2>10. Heard(g, r)
    BY <1>3, <2>2, <2>3 DEF Heard
  <2>11. Awaiting(g, r, after) /\ Voiced(g, after, w) /\ Unspoken(g)
    BY <1>3, <1>4, <2>2, <2>3, <2>4 DEF Awaiting, NewlyChosen, Voiced, Unspoken
  <2>12. Stands(g, r, after, w)
    BY <2>7, <2>8, <2>9, <2>10, <2>11 DEF Stands
  <2>13. SpeechFinished(t, g, TRUE)
    BY <1>1, <1>6, FinishesSpeech
  <2>14. Stands(t, r, after, w) /\ t.opp = g.opp /\ AgentsLast(t, g, r)
    BY <1>2, <1>3, <1>4, <2>12, <2>13, SpeechFinishedStands
  <2>. QED BY <1>3, <2>14 DEF Standing, AgentsLast
<1>. QED BY <1>5, <1>6

\* What a turn leaves of itself when it is over: nobody has the floor, and the hands
\* that stood are of an opportunity that is gone, or of one that made no choice yet.
LEMMA DroppedStands ==
    ASSUME NEW t, At(t) \in Turn, t.phase = "none", t.hands = << >>, NEW r, r \subseteq Humans,
           At(t) \notin OnAir \/ (t.opp = 0 /\ r = {}), At(t) # "HUMAN_READY_TO_START",
           At(t) \in HumanTurn => t.left # NoTime, t.holder # t.side => Rich(t), t.src # 0,
           NEW late, NEW v, At(t) \in {"AGENT_SPEAKING", "AGENT_FINALIZING"} => t.speech \in v
    PROVE  Stands(t, r, late, v)
<1>1. ToSet(t.hands) = {}
  BY DEF ToSet
<1>2. At(t) \notin {"FREE_SELECTING", "HOST_ANNOUNCING"} /\ (At(t) \in Finalizing => At(t) \in OnAir)
  BY Kinds
<1>3. HandsUp(t, r) /\ Phased(t) /\ Choosing(t, r)
  BY <1>1, <1>2 DEF HandsUp, HandsPaid, HandsOpposite, Phased, Choosing
<1>4. OnFloor(t, r)
  BY DEF OnFloor, Onwards, StandsFor
<1>5. Heard(t, r)
  <2>1. At(t) = "HUMAN_SPEAKING" => At(t) \in OnAir
    BY Kinds
  <2>. QED BY <1>2, <2>1 DEF Heard
<1>6. Awaiting(t, r, late) /\ Voiced(t, late, v) /\ Unspoken(t)
  BY DEF Awaiting, NewlyChosen, Voiced, Unspoken
<1>. QED BY <1>3, <1>4, <1>5, <1>6 DEF Stands

\* _match_pause
LEMMA PausedStands ==
    ASSUME NEW s, Typed(s), Competing(s), s.status = "RUNNING", s.act \in Goes, NEW r, NEW late, NEW v,
           Stands(s, r, late, v), NEW t, ChoiceTyped(t), Paused(t, s), NEW after \in SUBSET late
    PROVE  Stands(t, Standing(t, s, r), after, v) /\ AgentsLast(t, s, r)
<1>. DEFINE f == Freeze(s, FALSE, FALSE)
<1>1. /\ Charged(f, s) /\ f.start = s.start /\ f.settled = s.settled
      /\ Same(f, s, Names \ {"left", "clock", "used", "settled", "budget"})
      /\ s.clock = NoTime /\ s.left # NoTime => f.left = s.left
      /\ s.clock # NoTime => f.left # NoTime
  <2>1. FALSE \in BOOLEAN
    OBVIOUS
  <2>. QED BY <2>1, FreezeCharges
<1>2. Typed(t) /\ At(t) = s.act /\ t.speech = s.speech /\ t.src = s.src /\ t.failed = 0 /\ At(s) = s.act
  BY PausedTyped DEF At
<1>3. Same(t, f, {"side", "left", "start", "settled", "budget", "op", "holder"})
  BY DEF Paused, Same
<1>4. /\ s.opp # 0 /\ s.act \in Speaking => t.opp = 0 /\ t.phase = "none" /\ t.hands = << >>
      /\ ~(s.opp # 0 /\ s.act \in Speaking) => /\ t.opp = s.opp /\ t.phase = s.phase /\ t.hands = s.hands
                                               /\ t.open = s.open /\ t.round = s.round
      /\ s.selLeft => t.selLeft
      /\ t.status = "PAUSED"
  BY DEF Paused
<1>. HIDE DEF f
<1>5. /\ t.side = s.side /\ t.left = f.left /\ t.start = s.start /\ t.settled = s.settled /\ t.budget = f.budget
      /\ t.holder = s.holder /\ t.op = s.op
  BY <1>1, <1>3 DEF Same, Names
<1>6. Charged(t, s)
  BY <1>1, <1>5 DEF Charged
<1>7. s.failed = 0 /\ (s.clock # NoTime <=> s.act \in Speaking) /\ (At(s) \in HumanTurn => s.left # NoTime)
  BY <1>2 DEF Typed, Shape, Times, Stands, Awaiting
<1>8. CASE s.act \in Speaking
  <2>1. s.opp # 0 /\ At(s) \in Turn /\ At(s) \in OnAir
    BY <1>2, <1>8, Kinds DEF Competing
  <2>2. t.opp = 0 /\ t.phase = "none" /\ t.hands = << >> /\ Standing(t, s, r) = {}
    BY <1>4, <1>8, <2>1 DEF Standing
  <2>3. s.side \in Sides
    BY <2>1, TurnFacts
  <2>4. Rich(t) <=> Rich(s)
    BY <1>5, <1>6, <2>3, Numbers DEF Charged, Rich
  <2>5. t.holder # t.side => Rich(t)
    BY <1>5, <2>1, <2>4 DEF Stands, OnFloor
  <2>6. s.src # 0 /\ (At(s) \in {"AGENT_SPEAKING", "AGENT_FINALIZING"} => s.speech \in v)
    BY <1>2, <1>8 DEF Stands, Unspoken, Voiced, Speaking
  <2>7. t.left # NoTime /\ At(s) # "HUMAN_READY_TO_START"
    BY <1>1, <1>2, <1>5, <1>7, <1>8 DEF Speaking
  <2>8. Stands(t, {}, after, v)
    BY <1>2, <2>1, <2>2, <2>5, <2>6, <2>7, DroppedStands
  <2>. QED BY <2>2, <2>8 DEF AgentsLast
<1>9. CASE s.act \notin Speaking
  <2>1. t.opp = s.opp /\ t.phase = s.phase /\ t.hands = s.hands /\ t.open = s.open /\ t.round = s.round
    BY <1>4, <1>9
  <2>2. Same(t, s, StandFields)
    BY <1>2, <1>5, <2>1 DEF Same, StandFields
  <2>3. FailedOn(t, s)
    BY <1>2, <1>5, <1>7, <2>1 DEF FailedOn
  <2>4. At(s) \in HumanTurn => t.left = s.left
    BY <1>1, <1>5, <1>7, <1>9
  <2>5. Chooses(s)
    BY DEF Chooses
  <2>6. At(s) # "HUMAN_SPEAKING" /\ (At(s) = "HUMAN_READY_TO_START" => At(s) \in HumanTurn)
    BY <1>2, <1>9, Kinds DEF Speaking
  <2>7. Stands(t, r, after, v)
    <3>1. /\ At(t) = At(s) /\ (At(s) = "HUMAN_READY_TO_START" => t.left = s.left) /\ (At(s) \in HumanTurn => t.left # NoTime)
          /\ (At(s) = "HOST_ANNOUNCING" => t.round \in {s.round, s.opp}) /\ after \subseteq late
      BY <1>2, <1>7, <2>1, <2>4, <2>6
    <3>. QED BY <1>4, <1>6, <2>2, <2>3, <2>5, <2>6, <3>1, StandsOn
  <2>. QED BY <2>1, <2>7 DEF Standing, AgentsLast
<1>. QED BY <1>8, <1>9

\* _human_wait_timeout, _human_start_timeout
LEMMA TimedOutStands ==
    ASSUME NEW s, Typed(s), s.status = "RUNNING", s.act \in {"FREE_SELECTING", "HUMAN_READY_TO_START"}, NEW r, NEW late, NEW v,
           Stands(s, r, late, v), NEW t, HasTimedOut(t, s)
    PROVE  Stands(t, r, late, v) /\ AgentsLast(t, s, r) /\ t.opp = s.opp
<1>1. /\ t.status = "PAUSED" /\ t.from = s.act /\ t.side = s.side /\ t.left = s.left /\ t.start = s.start
      /\ t.settled = s.settled /\ t.budget = s.budget /\ t.failed = s.failed /\ t.op = s.op /\ t.phase = s.phase
      /\ t.hands = s.hands /\ t.holder = s.holder /\ t.opp = s.opp /\ t.src = s.src /\ t.speech = s.speech
      /\ s.act # "FREE_SELECTING" => t.open = s.open
  BY DEF HasTimedOut, Same
<1>2. At(t) = At(s) /\ At(s) = s.act /\ At(s) \notin OnAir /\ At(s) # "HOST_ANNOUNCING" /\ At(s) # "HUMAN_SPEAKING"
  BY <1>1, Kinds DEF At
<1>3. Same(t, s, StandFields)
  BY <1>1 DEF Same, StandFields
<1>4. s.budget \in [Sides -> 0..Total]
  BY TurnFacts
<1>5. Charged(t, s)
  BY <1>1, <1>4 DEF Charged
<1>6. FailedOn(t, s)
  BY <1>1, <1>2, Kinds DEF FailedOn
<1>7. Chooses(s) /\ (At(s) \in Finalizing => At(s) \in OnAir)
  BY Kinds DEF Chooses
<1>8. At(s) \in HumanTurn => t.left # NoTime
  BY <1>1 DEF Stands, Awaiting
<1>9. Stands(t, r, late, v)
  BY <1>1, <1>2, <1>3, <1>5, <1>6, <1>7, <1>8, StandsOn
<1>. QED BY <1>1, <1>9 DEF AgentsLast

\* An agent's turn that starts again has the hands raised during it.
LEMMA PreparesStands ==
    ASSUME NEW s, Typed(s), Competing(s), s.status = "RUNNING", s.act \in AgentTurn, NEW r, NEW late, Sources(s, late),
           NEW v, Stands(s, r, late, v), NEW t, At(t) = "AGENT_PREPARING", t.failed = 0,
           Same(t, s, {"side", "start", "settled", "phase", "hands", "holder", "opp", "src", "open", "budget", "op"}),
           NEW after \in SUBSET late
    PROVE  Stands(t, r, after, v)
<1>1. /\ t.side = s.side /\ t.start = s.start /\ t.settled = s.settled /\ t.phase = s.phase /\ t.hands = s.hands
      /\ t.holder = s.holder /\ t.opp = s.opp /\ t.src = s.src /\ t.open = s.open /\ t.budget = s.budget /\ t.op = s.op
  BY DEF Same
<1>2. /\ At(s) = s.act /\ At(s) \in Turn /\ At(s) \in AgentTurn /\ At(s) \notin HumanTurn /\ At(t) \in Turn
      /\ At(t) \notin OnAir /\ At(t) \notin HumanTurn
      /\ At(s) \notin {"HUMAN_READY_TO_START", "FREE_SELECTING", "HOST_ANNOUNCING"}
      /\ At(s) \in OnAir => At(s) \in {"AGENT_SPEAKING", "AGENT_FINALIZING"} /\ (At(s) \in Speaking \/ At(s) \in Finalizing)
      /\ At(s) \notin OnAir => At(s) = "AGENT_PREPARING"
  BY Kinds DEF At, AgentTurn, OnAir, Speaking, Finalizing
<1>3. s.failed = 0 /\ (Rich(t) <=> Rich(s))
  BY <1>1 DEF Typed, Shape, Rich
<1>4. HandsUp(t, r)
  BY <1>1, <1>2 DEF Stands, HandsUp, HandsPaid, HandsOpposite, NewlyChosen
<1>5. Phased(t) /\ Choosing(t, r)
  BY <1>1, <1>2 DEF Stands, Phased, Choosing
<1>6. OnFloor(t, r)
  BY <1>1, <1>2, <1>3 DEF Stands, OnFloor, Onwards, StandsFor
<1>7. Heard(t, r) /\ Awaiting(t, r, after)
  BY <1>2, Kinds DEF Heard, Awaiting, NewlyChosen
<1>8. Voiced(t, after, v)
  <2>1. SUFFICES ASSUME s.phase = "COMPETING"
                 PROVE  s.src \notin late \ v /\ s.src # 0 /\ (s.start = NoTime \/ s.settled \/ s.open)
    BY <1>1, <1>2 DEF Voiced
  <2>2. CASE At(s) \in OnAir
    <3>1. s.speech \in v /\ s.src # 0
      BY <1>2, <2>2 DEF Stands, Voiced, Unspoken
    <3>2. s.src = s.speech \/ s.src \notin late
      BY <2>2 DEF Sources
    <3>3. s.settled \/ s.open
      BY <1>2, <2>2 DEF Competing, Typed, Times
    <3>. QED BY <3>1, <3>2, <3>3
  <2>3. CASE At(s) \notin OnAir
    BY <1>2, <2>1, <2>3 DEF Stands, Voiced
  <2>. QED BY <2>2, <2>3
<1>9. Unspoken(t)
  BY <1>1, <1>2, <1>3 DEF Stands, Unspoken
<1>. QED BY <1>4, <1>5, <1>6, <1>7, <1>8, <1>9 DEF Stands

\* handle_agent_failure
LEMMA AgentFailedStands ==
    ASSUME NEW s, Typed(s), Competing(s), s.status = "RUNNING", s.act \in AgentTurn, NEW r, NEW late, Sources(s, late),
           NEW v, Stands(s, r, late, v), NEW t, AgentFailed(t, s)
    PROVE  Stands(t, r, late, v) /\ AgentsLast(t, s, r) /\ t.opp = s.opp
<1>1. /\ Same(t, s, {"side", "start", "settled", "phase", "hands", "holder", "opp", "src", "open", "budget", "op"})
      /\ t.failed = s.failed /\ t.phase = s.phase /\ t.opp = s.opp
  BY DEF AgentFailed, Same
<1>2. At(t) = "AGENT_PREPARING"
  BY DEF AgentFailed, At
<1>3. s.failed = 0
  BY DEF Typed, Shape
<1>4. Stands(t, r, late, v)
  BY <1>1, <1>2, <1>3, PreparesStands
<1>. QED BY <1>1, <1>4 DEF AgentsLast

\* _asr_failed: of the current speech, or of the one the opportunity waits for.
LEMMA RecognitionFailedStands ==
    ASSUME NEW s, Typed(s), Competing(s), NEW r, NEW late \in SUBSET (Nat \ {0}), Sources(s, late), NEW v,
           Stands(s, r, late, v),
           NEW speech, MayFail(s, speech),
           s.status = "RUNNING" => speech = s.speech \/ (speech = s.src /\ speech \in late \ v),
           NEW t, ChoiceTyped(t), RecognitionFailed(t, s, speech), NEW after
    PROVE  Stands(t, r, after, v) /\ AgentsLast(t, s, r) /\ t.opp = s.opp
<1>. DEFINE f == Freeze(s, FALSE, FALSE)
<1>1. /\ Charged(f, s) /\ f.start = s.start /\ f.settled = s.settled
      /\ Same(f, s, Names \ {"left", "clock", "used", "settled", "budget"})
      /\ s.clock = NoTime /\ s.left # NoTime => f.left = s.left
      /\ s.clock # NoTime => f.left # NoTime
  <2>1. FALSE \in BOOLEAN
    OBVIOUS
  <2>. QED BY <2>1, FreezeCharges
<1>2. Typed(t) /\ At(t) = At(s) /\ t.speech = s.speech /\ t.src = s.src /\ t.failed = speech
  BY RecognitionFailedTyped
<1>3. Same(t, f, {"side", "left", "start", "settled", "budget", "holder", "opp", "src", "phase", "hands", "selLeft"})
  BY DEF RecognitionFailed, Same
<1>. HIDE DEF f
<1>4. /\ t.side = s.side /\ t.left = f.left /\ t.start = s.start /\ t.settled = s.settled /\ t.budget = f.budget
      /\ t.holder = s.holder /\ t.opp = s.opp /\ t.phase = s.phase /\ t.hands = s.hands /\ t.selLeft = s.selLeft
  BY <1>1, <1>3 DEF Same, Names
<1>5. Charged(t, s) /\ Same(t, s, StandFields)
  BY <1>1, <1>2, <1>4 DEF Charged, Same, StandFields
<1>6. (s.clock # NoTime <=> s.status = "RUNNING" /\ s.act \in Speaking) /\ (At(s) \in HumanTurn => s.left # NoTime)
      /\ t.failed # 0
  BY <1>2 DEF Typed, Times, Stands, Awaiting, MayFail
<1>7. /\ At(s) \in HumanTurn => t.left # NoTime
      /\ At(s) = "HUMAN_READY_TO_START" => t.left = s.left
  <2>1. s.clock # NoTime => At(s) \in Speaking
    BY <1>6 DEF At
  <2>2. At(s) = "HUMAN_READY_TO_START" => At(s) \in HumanTurn /\ At(s) \notin Speaking
    BY Kinds
  <2>. QED BY <1>1, <1>4, <1>6, <2>1, <2>2
<1>8. At(s) # "HOST_ANNOUNCING" /\ FailedOn(t, s)
  <2>1. CASE s.status # "RUNNING"
    <3>1. s.failed # 0 /\ s.src # 0
      BY <2>1 DEF MayFail, Stands, Unspoken
    <3>2. /\ ~(At(s) = "HUMAN_READY_TO_START" /\ s.left = 0)
          /\ ~(At(s) = "AGENT_PREPARING" /\ s.phase = "COMPETING")
          /\ At(s) # "HOST_ANNOUNCING"
      BY <3>1 DEF Stands, Awaiting, Voiced, Choosing
    <3>. QED BY <1>6, <3>1, <3>2 DEF FailedOn
  <2>2. CASE speech = s.speech
    <3>1. At(s) \in {"HUMAN_SPEAKING", "SPEECH_FINALIZING"}
      BY <2>2 DEF MayFail
    <3>. QED BY <1>6, <3>1 DEF FailedOn, Stands, Unspoken
  <2>3. CASE speech = s.src /\ speech \in late \ v /\ speech # s.speech
    <3>1. s.src # 0
      BY <2>3
    <3>2. /\ ~(At(s) = "HUMAN_READY_TO_START" /\ s.left = 0)
          /\ ~(At(s) = "AGENT_PREPARING" /\ s.phase = "COMPETING")
          /\ At(s) # "HOST_ANNOUNCING"
      BY <2>3, <3>1 DEF Stands, Awaiting, Voiced, Choosing
    <3>. QED BY <1>6, <3>1, <3>2 DEF FailedOn
  <2>. QED BY <2>1, <2>2, <2>3
<1>9. Chooses(t) => Chooses(s)
  <2>1. s.status # "RUNNING" => s.failed # 0 /\ t.status = "ERROR"
    BY DEF MayFail, Typed, Shape, RecognitionFailed
  <2>. QED BY <1>4, <2>1 DEF Chooses
<1>10. Stands(t, r, after, v)
  BY <1>2, <1>4, <1>5, <1>6, <1>7, <1>8, <1>9, StandsOn
<1>. QED BY <1>4, <1>10 DEF AgentsLast

\* _asr_finalized of a retried recognition: the turn that waited for it is over, and
\* the choice will be made anew.
LEMMA RetriedStands ==
    ASSUME NEW s, Typed(s), s.op = "PENDING", NEW r, NEW late, Sources(s, late), NEW v, Stands(s, r, late, v),
           NEW audio \in Nat, NEW t, ChoiceTyped(t), Retried(t, s, audio), NEW after \in SUBSET late
    PROVE  Stands(t, Standing(t, s, r), after, v) /\ AgentsLast(t, s, r)
<1>0. s.failed # 0 /\ s.status # "RUNNING" /\ r \subseteq Humans /\ s.src # 0
  BY DEF Typed, Shape, Stands, HandsUp, Unspoken
<1>1. CASE /\ s.speech # s.failed /\ t.status = "PAUSED" /\ t.act = "RECOVERY_REQUIRED" /\ t.failed = 0
           /\ t.op = "SUCCEEDED" /\ Same(t, s, Names \ {"status", "act", "failed", "op"})
  <2>1. /\ Same(t, s, StandFields) /\ t.from = s.from /\ t.budget = s.budget /\ t.left = s.left /\ t.round = s.round
        /\ t.selLeft = s.selLeft /\ t.opp = s.opp /\ t.phase = s.phase
    BY <1>1 DEF Same, Names, StandFields
  <2>2. At(t) = At(s) /\ At(s) \notin OnAir
    BY <1>0, <1>1, <2>1 DEF At, Sources
  <2>3. s.budget \in [Sides -> 0..Total]
    BY TurnFacts
  <2>4. Charged(t, s) /\ FailedOn(t, s) /\ ~Chooses(t)
    BY <1>0, <1>1, <2>1, <2>2, <2>3 DEF Charged, FailedOn, Chooses
  <2>5. At(s) \in HumanTurn => t.left # NoTime
    BY <2>1 DEF Stands, Awaiting
  <2>6. At(s) # "HUMAN_SPEAKING"
    BY <2>2, Kinds
  <2>7. Stands(t, r, after, v)
    BY <2>1, <2>2, <2>4, <2>5, <2>6, StandsOn
  <2>. QED BY <2>1, <2>7 DEF Standing, AgentsLast
<1>2. ASSUME s.speech = s.failed,
             NEW u, NEW turn, ChoiceTyped(u), Retrying(u, s), ChoiceTyped(turn), TurnFinished(turn, u, audio),
             IF turn.act = "ACTION_FINISHED" THEN t = turn ELSE Recovering(t, turn, turn.act)
      PROVE  Stands(t, Standing(t, s, r), after, v) /\ AgentsLast(t, s, r)
  <2>. DEFINE q == Standing(t, s, r)
  <2>1. u.phase = s.phase /\ u.src = s.src /\ u.status = "RUNNING" /\ u.op = "SUCCEEDED" /\ u.failed = 0
    BY <1>2 DEF Retrying, Same, Names
  <2>2. /\ turn.start = NoTime /\ turn.status = "RUNNING" /\ turn.src = s.src /\ turn.op = "SUCCEEDED" /\ turn.failed = 0
        /\ turn.act \in {"ACTION_FINISHED", "FREE_SELECTING"} /\ turn.phase \in {"none", s.phase}
        /\ turn.act = "ACTION_FINISHED" => turn.hands = << >> /\ turn.phase = "none"
    BY <1>2, <2>1 DEF TurnFinished, Same
  <2>3. At(s) \in {"HUMAN_SPEAKING", "SPEECH_FINALIZING"}
    BY <1>0, <1>2 DEF Typed, Shape, At
  <2>4. s.phase # "ALLOCATED"
    BY <2>3 DEF Stands, Phased
  <2>5. t.start = NoTime /\ t.src # 0 /\ t.hands = << >> /\ t.phase # "ALLOCATED" /\ t.op = "SUCCEEDED" /\ t.failed = 0
    BY <1>0, <1>2, <2>2, <2>4 DEF Recovering, Same
  <2>6. q \subseteq Humans /\ ToSet(t.hands) = {}
    BY <1>0, <2>5 DEF Standing, ToSet
  <2>. HIDE DEF q
  <2>7. CASE turn.act = "ACTION_FINISHED"
    <3>1. t = turn
      BY <1>2, <2>7
    <3>2. At(t) = "ACTION_FINISHED" /\ At(t) \notin Turn /\ At(t) \notin OnAir /\ At(t) \notin HumanTurn
      BY <2>2, <2>7, <3>1, Kinds DEF At
    <3>3. HandsUp(t, q) /\ Phased(t) /\ Choosing(t, q) /\ OnFloor(t, q) /\ Heard(t, q)
      BY <2>2, <2>5, <2>6, <2>7, <3>1, <3>2, Kinds
         DEF HandsUp, HandsPaid, HandsOpposite, Phased, Choosing, OnFloor, Onwards, Heard
    <3>4. Awaiting(t, q, after) /\ Voiced(t, after, v) /\ Unspoken(t)
      BY <2>5, <3>2 DEF Awaiting, NewlyChosen, Voiced, Unspoken
    <3>5. Stands(t, q, after, v)
      BY <3>3, <3>4 DEF Stands
    <3>. QED BY <2>5, <3>5 DEF q, AgentsLast
  <2>8. CASE turn.act = "FREE_SELECTING"
    <3>1. t.status = "PAUSED" /\ t.from = "FREE_SELECTING"
      BY <1>2, <2>8 DEF Recovering
    <3>2. At(t) = "FREE_SELECTING" /\ ~Chooses(t) /\ HandsPaid(t)
      BY <2>5, <2>6, <3>1 DEF At, Chooses, HandsPaid
    <3>3. ToSet(t.hands) \subseteq q
      BY <2>6
    <3>4. Stands(t, q, after, v)
      BY <2>5, <2>6, <3>2, <3>3, SelectingStands
    <3>. QED BY <2>5, <3>4 DEF q, AgentsLast
  <2>. QED BY <2>2, <2>7, <2>8
<1>. QED BY <1>1, <1>2 DEF Retried

\* _speech_reset: a turn that starts again has its hands only when it had opened no
\* opportunity, and only its speaker may keep them.
LEMMA ResetStands ==
    ASSUME NEW s, Typed(s), Competing(s), At(s) \in Turn, NEW operator \in BOOLEAN, s.op # "PENDING",
           operator \/ (s.status = "RUNNING" /\ At(s) # "HUMAN_READY_TO_START"),
           NEW r, NEW late, Sources(s, late), NEW v, Stands(s, r, late, v), s.src \notin late \/ s.src = s.speech,
           NEW t, Typed(t), At(t) = Again(s), WasReset(t, s, operator), NEW q, q = IF s.opp # 0 \/ operator THEN {} ELSE r,
           NEW after, after = late \ {s.speech}
    PROVE  Stands(t, q, after, v) /\ AgentsLast(t, s, r)
<1>1. /\ t.failed = (IF operator THEN 0 ELSE s.failed) /\ t.op = (IF operator THEN "RESET" ELSE s.op)
      /\ t.speech = 0 /\ t.start = NoTime /\ t.left = Smaller(MaxTurn, Unspent(s))
      /\ t.budget = [s.budget EXCEPT ![s.side] = Unspent(s)]
      /\ t.side = s.side /\ t.holder = s.holder /\ t.src = s.src /\ t.opp = 0
      /\ s.opp # 0 => t.phase = "none" /\ t.hands = << >>
      /\ s.opp = 0 => t.phase = s.phase /\ (t.hands = s.hands \/ t.hands = << >>)
      /\ s.opp = 0 /\ ~operator => t.hands = s.hands /\ t.open = s.open
      /\ operator => t.hands = << >>
  BY DEF WasReset, Same
<1>2. /\ s.side \in Sides /\ s.budget \in [Sides -> 0..Total] /\ s.start \in -1..Total /\ s.settled \in BOOLEAN
      /\ s.holder \in Sides
  BY TurnFacts
<1>3. /\ At(t) = (IF At(s) \in AgentTurn THEN "AGENT_PREPARING" ELSE "HUMAN_READY_TO_START")
      /\ At(t) \in Turn /\ At(t) \notin OnAir
      /\ At(s) \notin AgentTurn => At(s) \in HumanTurn
      /\ At(s) \notin {"FREE_SELECTING", "HOST_ANNOUNCING"}
  <2>1. At(s) \in AgentTurn \/ At(s) \in HumanTurn
    BY Kinds
  <2>2. s.who \in Agents <=> At(s) \in AgentTurn
    BY <2>1, Numbers, Kinds DEF Typed, Shape
  <2>. QED BY <2>1, <2>2, Kinds DEF Again
<1>4. Unspent(s) \in 0..Total /\ (s.start = NoTime => Unspent(s) = s.budget[s.side])
  BY <1>2, Numbers DEF Unspent
<1>5. t.left \in 0..Total /\ (Unspent(s) > 0 => t.left > 0)
  <2>1. t.left = IF MaxTurn < Unspent(s) THEN MaxTurn ELSE Unspent(s)
    BY <1>1 DEF Smaller
  <2>. QED BY <1>4, <2>1, Numbers
<1>6. t.budget[Other(s.side)] = s.budget[Other(s.side)] /\ (Rich(t) <=> Rich(s))
  BY <1>1, <1>2, Numbers DEF Rich
<1>7. q \subseteq r /\ r \subseteq Humans /\ ToSet(s.hands) \subseteq r /\ HandsPaid(s)
  BY DEF Stands, HandsUp
<1>8. /\ ToSet(t.hands) \subseteq ToSet(s.hands)
      /\ t.hands = << >> \/ (s.opp = 0 /\ ~operator /\ t.hands = s.hands)
      /\ t.hands = << >> => ToSet(t.hands) = {}
  BY <1>1 DEF ToSet
<1>9. ToSet(t.hands) # {} => s.opp = 0 /\ ~operator /\ t.hands = s.hands /\ ToSet(s.hands) \subseteq HumansOf(Other(s.side))
  BY <1>8 DEF Stands, HandsUp, HandsOpposite, NewlyChosen
<1>10. AgentsLast(t, s, r)
  BY <1>1 DEF AgentsLast
<1>11. CASE s.opp # 0 \/ operator
  <2>1. q = {} /\ ToSet(t.hands) = {} /\ (t.phase = "none" \/ (s.opp = 0 /\ t.phase = s.phase))
    BY <1>1, <1>8, <1>11
  <2>. QED
    <3>1. HandsUp(t, q)
      BY <2>1 DEF HandsUp, HandsPaid, HandsOpposite
    <3>2. Phased(t) /\ Choosing(t, q)
      BY <1>3, <2>1 DEF Stands, Phased, Choosing
    <3>3. OnFloor(t, q)
      BY <1>1, <1>6, <2>1 DEF Stands, OnFloor, StandsFor
    <3>4. Heard(t, q)
      BY <1>3, Kinds DEF Heard
    <3>5. Awaiting(t, q, after)
      <4>1. NewlyChosen(t) => NewlyChosen(s)
        BY <1>3, <2>1, Kinds DEF NewlyChosen, Stands, Phased
      <4>2. NewlyChosen(t) => t.left > 0 /\ t.start = NoTime /\ t.budget[t.side] > 0
        BY <1>1, <1>2, <1>4, <1>5, <4>1 DEF Stands, Awaiting
      <4>3. t.failed = 0
        BY <1>1 DEF Typed, Shape
      <4>4. t.left # NoTime
        BY <1>5, Numbers
      <4>5. t.src = t.speech \/ t.src \notin after
        BY <1>1
      <4>. QED BY <1>1, <2>1, <4>2, <4>3, <4>4, <4>5 DEF Awaiting, StandsFor
    <3>6. Voiced(t, after, v)
      <4>1. SUFFICES ASSUME At(t) = "AGENT_PREPARING", t.phase = "COMPETING"
                     PROVE  t.src \notin after \ v /\ t.failed = 0 /\ t.src # 0 /\ t.start = NoTime
        BY <1>3, Kinds DEF Voiced
      <4>2. t.failed = 0
        BY <1>1 DEF Typed, Shape
      <4>3. s.src # 0
        BY <1>3, <2>1, <4>1, Kinds DEF Stands, Voiced, Unspoken
      <4>. QED BY <1>1, <4>2, <4>3
    <3>7. Unspoken(t)
      <4>1. SUFFICES ASSUME s.src = 0
                     PROVE  /\ t.budget = [x \in Sides |-> Total] /\ t.failed = 0 /\ t.op \in {"NONE", "RESET"} /\ t.left > 0
        BY <1>1, <1>3 DEF Unspoken
      <4>2. s.start = NoTime /\ s.budget = [x \in Sides |-> Total] /\ s.failed = 0 /\ s.op \in {"NONE", "RESET"}
        BY <4>1 DEF Stands, Unspoken
      <4>. QED BY <1>1, <1>2, <1>4, <1>5, <4>2, Numbers
    <3>. QED BY <1>10, <3>1, <3>2, <3>3, <3>4, <3>5, <3>6, <3>7 DEF Stands
<1>12. CASE s.opp = 0 /\ ~operator
  <2>1. /\ t.hands = s.hands /\ t.open = s.open /\ t.phase = s.phase /\ s.status = "RUNNING" /\ s.failed = 0
        /\ At(s) # "HUMAN_READY_TO_START" /\ t.failed = 0 /\ t.op = s.op /\ q = r
    BY <1>1, <1>12 DEF Typed, Shape
  <2>2. /\ At(s) \notin AgentTurn => At(s) \in OnAir
        /\ At(s) \in AgentTurn => At(s) \in OnAir \/ At(s) = "AGENT_PREPARING"
    BY <1>3, <2>1 DEF HumanTurn, AgentTurn, OnAir, Speaking, Finalizing
  <2>3. ~NewlyChosen(t)
    BY <1>3, <2>1, Kinds DEF NewlyChosen, Stands, Phased
  <2>4. ToSet(s.hands) \subseteq HumansOf(Other(s.side))
    BY <2>1 DEF Stands, HandsUp, HandsOpposite, NewlyChosen
  <2>5. HandsUp(t, q)
    <3>1. \A h \in ToSet(s.hands) : t.budget[SideOf[h]] > 0
      BY <1>6, <1>7, <2>4 DEF HandsPaid, HumansOf
    <3>. QED BY <1>1, <1>7, <2>1, <2>4, <3>1 DEF HandsUp, HandsPaid, HandsOpposite
  <2>6. Phased(t) /\ Choosing(t, q)
    BY <1>3, <2>1 DEF Stands, Phased, Choosing
  <2>7. OnFloor(t, q)
    BY <1>1, <1>3, <1>6, <2>1, <2>2 DEF Stands, OnFloor, Onwards, StandsFor
  <2>8. Heard(t, q)
    BY <1>3, Kinds DEF Heard
  <2>9. Awaiting(t, q, after)
    <3>1. t.left # NoTime
      BY <1>5, Numbers
    <3>2. At(t) = "HUMAN_READY_TO_START" => StandsFor(t, q) /\ (Rich(t) => t.open \/ q = {})
      <4>1. SUFFICES ASSUME At(s) \in OnAir PROVE StandsFor(s, r) /\ (Rich(s) => s.open \/ r = {})
        BY <1>1, <1>3, <1>6, <2>1, <2>2 DEF StandsFor
      <4>. QED BY <1>12, <2>1, <4>1 DEF Stands, OnFloor, Onwards, Heard
    <3>. QED BY <1>1, <2>1, <2>3, <3>1, <3>2 DEF Awaiting
  <2>10. Voiced(t, after, v)
    <3>1. SUFFICES ASSUME At(t) = "AGENT_PREPARING", s.phase = "COMPETING" PROVE s.src # 0
      BY <1>1, <1>3, <2>1, Kinds DEF Voiced
    <3>2. At(s) \in AgentTurn
      BY <1>3, <3>1
    <3>3. At(s) \in OnAir => s.src # 0
      BY <2>2, Kinds DEF Stands, Unspoken
    <3>. QED BY <2>2, <3>1, <3>2, <3>3 DEF Stands, Voiced
  <2>11. Unspoken(t)
    <3>1. SUFFICES ASSUME s.src = 0
                   PROVE  t.budget = [x \in Sides |-> Total] /\ s.op \in {"NONE", "RESET"} /\ t.left > 0
      BY <1>1, <1>3, <2>1 DEF Unspoken
    <3>2. s.start = NoTime /\ s.budget = [x \in Sides |-> Total] /\ s.op \in {"NONE", "RESET"}
      BY <3>1 DEF Stands, Unspoken
    <3>. QED BY <1>1, <1>2, <1>4, <1>5, <3>2, Numbers
  <2>. QED BY <1>10, <2>5, <2>6, <2>7, <2>8, <2>9, <2>10, <2>11 DEF Stands
<1>. QED BY <1>11, <1>12

\* A restart of the process: what ran starts again with the hands that stood, and a
\* match that had stopped is as it was (_system_recover).
LEMMA RecoveredStands ==
    ASSUME NEW s, Typed(s), Competing(s), s.act # "ACTION_FINISHED", s.status = "RUNNING" \/ s.failed # 0,
           NEW r, NEW late, Sources(s, late), NEW v, Stands(s, r, late, v),
           NEW u, Lost(u, s), NEW t, ChoiceTyped(t), Recovered(t, u), NEW after \in SUBSET late
    PROVE  Stands(t, r, after, v) /\ AgentsLast(t, s, r) /\ t.opp = s.opp
<1>1. /\ u.act = s.act /\ u.who = s.who /\ u.side = s.side /\ u.start = s.start /\ u.settled = s.settled
      /\ u.budget = s.budget /\ u.failed = s.failed /\ u.op = s.op /\ u.holder = s.holder /\ u.opp = s.opp
      /\ u.src = s.src /\ u.phase = s.phase /\ u.hands = s.hands /\ u.round = s.round /\ u.selLeft = s.selLeft
      /\ u.from = s.from /\ u.left = s.left /\ u.speech = s.speech /\ u.open = s.open
  BY DEF Lost, Same, Names
<1>2. /\ t.start = s.start /\ t.settled = s.settled /\ t.budget = s.budget /\ t.failed = s.failed
      /\ t.holder = s.holder /\ t.opp = s.opp /\ t.src = s.src /\ t.phase = s.phase /\ t.hands = s.hands
      /\ t.round = s.round /\ t.selLeft = s.selLeft /\ t.act = "RECOVERY_REQUIRED"
  BY <1>1 DEF Recovered, Same
<1>3. s.budget \in [Sides -> 0..Total] /\ AgentsLast(t, s, r)
  BY <1>2, TurnFacts DEF AgentsLast
<1>4. CASE s.failed # 0
  <2>1. t.status = "ERROR" /\ t.from = s.from /\ t.side = s.side /\ t.speech = s.speech /\ t.left = s.left
    BY <1>1, <1>4 DEF Recovered, Same
  <2>2. At(t) = At(s)
    BY <1>4, <2>1 DEF At, Typed, Shape
  <2>3. Same(t, s, StandFields) /\ Charged(t, s)
    BY <1>2, <1>3, <2>1 DEF Same, StandFields, Charged
  <2>4. FailedOn(t, s) /\ (Chooses(t) => Chooses(s))
    BY <1>2, <1>4, <2>1 DEF FailedOn, Chooses
  <2>5. At(s) \in HumanTurn => t.left # NoTime
    BY <2>1 DEF Stands, Awaiting
  <2>6. Stands(t, r, after, v)
    BY <1>2, <1>4, <2>1, <2>2, <2>3, <2>4, <2>5, StandsOn
  <2>. QED BY <1>2, <1>3, <2>6
<1>5. CASE s.failed = 0
  <2>1. /\ t.status = "SYSTEM_RECOVERY" /\ t.op = s.op /\ t.open = s.open
        /\ t.side = (IF s.act = "FREE_SELECTING" THEN NoSide ELSE s.side)
        /\ t.left = (IF s.act = "FREE_SELECTING" THEN NoTime ELSE Total)
        /\ t.from = RecoveredFrom(u)
    BY <1>1, <1>5 DEF Recovered
  <2>2. At(t) = RecoveredFrom(s) /\ At(s) = s.act /\ s.status = "RUNNING"
    BY <1>1, <1>5, <2>1 DEF At, RecoveredFrom
  <2>3. CASE s.act = "FREE_SELECTING"
    <3>1. At(t) = "FREE_SELECTING" /\ At(s) = "FREE_SELECTING" /\ At(s) \notin Turn /\ Chooses(s)
      BY <2>2, <2>3, Kinds DEF RecoveredFrom, Chooses
    <3>2. /\ r \subseteq Humans /\ ToSet(s.hands) \subseteq r /\ HandsPaid(s) /\ Best(s, r)
          /\ s.phase # "ALLOCATED" /\ (s.start = NoTime \/ s.settled)
      BY <3>1 DEF Stands, HandsUp, Phased, Choosing
    <3>3. s.src = 0 => /\ s.start = NoTime /\ s.budget = [x \in Sides |-> Total] /\ s.failed = 0
                       /\ s.op \in {"NONE", "RESET"} /\ s.opp # 0
      BY <3>1 DEF Stands, Unspoken
    <3>4. HandsPaid(t) /\ Best(t, r)
      BY <1>2, <3>2 DEF HandsPaid, Best
    <3>5. Stands(t, r, after, v)
      BY <1>2, <2>1, <3>1, <3>2, <3>3, <3>4, SelectingStands
    <3>. QED BY <1>2, <1>3, <3>5
  <2>4. CASE s.act = "HOST_ANNOUNCING"
    <3>1. /\ At(t) = "HOST_ANNOUNCING" /\ At(s) = "HOST_ANNOUNCING" /\ At(s) \notin Turn /\ At(s) \notin OnAir
          /\ At(s) \notin HumanTurn /\ At(s) \notin Finalizing
      BY <2>2, <2>4, Kinds DEF RecoveredFrom
    <3>2. /\ r \subseteq Humans /\ ToSet(s.hands) \subseteq r /\ HandsPaid(s)
          /\ s.holder = First /\ r \subseteq HumansOf(First) /\ r \subseteq ToSet(s.hands) /\ s.opp # 0 /\ s.round = s.opp
          /\ s.src = 0
      BY <3>1 DEF Stands, HandsUp, Choosing
    <3>3. HandsUp(t, r) /\ Phased(t)
      BY <1>2, <3>1, <3>2 DEF Stands, HandsUp, HandsPaid, HandsOpposite, Phased
    <3>4. Choosing(t, r) /\ OnFloor(t, r) /\ Heard(t, r)
      BY <1>2, <3>1, <3>2, Kinds DEF Choosing, OnFloor, Onwards, Heard
    <3>5. Awaiting(t, r, after) /\ Voiced(t, after, v)
      BY <3>1 DEF Awaiting, NewlyChosen, Voiced
    <3>6. Unspoken(t)
      BY <1>2, <2>1, <3>1 DEF Stands, Unspoken
    <3>7. Stands(t, r, after, v)
      BY <3>3, <3>4, <3>5, <3>6 DEF Stands
    <3>. QED BY <1>2, <1>3, <3>7
  <2>5. CASE s.act \in AgentTurn
    <3>1. At(t) = "AGENT_PREPARING" /\ t.side = s.side
      BY <2>1, <2>2, <2>5, Kinds DEF RecoveredFrom, Typed, Shape
    <3>2. Same(t, s, {"side", "start", "settled", "phase", "hands", "holder", "opp", "src", "open", "budget", "op"})
      BY <1>2, <2>1, <3>1 DEF Same
    <3>3. Stands(t, r, after, v)
      BY <1>2, <1>5, <2>2, <2>5, <3>1, <3>2, PreparesStands
    <3>. QED BY <1>2, <1>3, <3>3
  <2>6. CASE s.act \in HumanTurn
    <3>1. /\ At(s) \in Turn /\ At(s) \in HumanTurn
          /\ s.act \notin {"FREE_SELECTING", "HOST_ANNOUNCING", "AGENT_PREPARING"} /\ s.who \notin Agents
      BY <2>2, <2>6, Kinds, Numbers DEF Typed, Shape
    <3>2. At(t) = "HUMAN_READY_TO_START" /\ t.side = s.side /\ t.left = Total
      BY <2>1, <2>2, <3>1 DEF RecoveredFrom
    <3>3. At(t) \in Turn /\ At(t) \notin OnAir /\ At(t) \notin Finalizing
      BY <3>2, Kinds
    <3>4. (NewlyChosen(t) <=> NewlyChosen(s)) /\ (Rich(t) <=> Rich(s))
      BY <1>2, <2>2, <3>1, <3>2 DEF NewlyChosen, Rich, Stands, Phased
    <3>5. HandsUp(t, r)
      BY <1>2, <3>1, <3>2, <3>3, <3>4 DEF Stands, HandsUp, HandsPaid, HandsOpposite
    <3>6. Phased(t) /\ Choosing(t, r)
      BY <1>2, <2>2, <3>1, <3>2, <3>3 DEF Stands, Phased, Choosing
    <3>7. OnFloor(t, r)
      BY <1>2, <3>1, <3>2, <3>3, <3>4 DEF Stands, OnFloor, Onwards, StandsFor
    <3>8. Heard(t, r) /\ Voiced(t, after, v)
      BY <3>2, <3>3 DEF Heard, Voiced
    <3>9. Awaiting(t, r, after)
      BY <1>2, <3>2, <3>4, Numbers DEF Stands, Awaiting
    <3>10. Unspoken(t)
      BY <1>2, <2>1, <3>2, Numbers DEF Stands, Unspoken
    <3>11. Stands(t, r, after, v)
      BY <3>5, <3>6, <3>7, <3>8, <3>9, <3>10 DEF Stands
    <3>. QED BY <1>2, <1>3, <3>11
  <2>. QED
    <3>1. s.act \in Goes
      BY <2>2 DEF Typed, Shape
    <3>. QED BY <2>3, <2>4, <2>5, <2>6, <3>1, Kinds DEF Goes
<1>. QED BY <1>4, <1>5

\* A match that had stopped keeps what it knew.
LEMMA LostStands ==
    ASSUME NEW s, Typed(s), s.status # "RUNNING", NEW r, NEW late, NEW v, Stands(s, r, late, v), NEW t, Lost(t, s)
    PROVE  Stands(t, r, late, v) /\ AgentsLast(t, s, r) /\ t.opp = s.opp
<1>1. /\ Same(t, s, StandFields) /\ t.status = s.status /\ t.act = s.act /\ t.from = s.from /\ t.budget = s.budget
      /\ t.left = s.left /\ t.failed = s.failed /\ t.op = s.op /\ t.open = s.open /\ t.round = s.round
      /\ t.selLeft = s.selLeft /\ t.opp = s.opp /\ t.phase = s.phase
  BY DEF Lost, Same, Names, StandFields
<1>2. At(t) = At(s) /\ s.budget \in [Sides -> 0..Total]
  BY <1>1, TurnFacts DEF At
<1>3. Charged(t, s) /\ FailedOn(t, s) /\ (Chooses(t) <=> Chooses(s))
  BY <1>1, <1>2 DEF Charged, FailedOn, Chooses
<1>4. At(s) \in HumanTurn => t.left # NoTime
  BY <1>1 DEF Stands, Awaiting
<1>5. Stands(t, r, late, v)
  BY <1>1, <1>2, <1>3, <1>4, StandsOn
<1>. QED BY <1>1, <1>5 DEF AgentsLast

\* match.resume, before its countdown
LEMMA ResumingStands ==
    ASSUME NEW s, Typed(s), s.status # "RUNNING", s.failed = 0, NEW r, NEW late, NEW v, Stands(s, r, late, v),
           NEW t, Resuming(t, s)
    PROVE  Stands(t, r, late, v) /\ AgentsLast(t, s, r) /\ t.opp = s.opp
<1>1. /\ Same(t, s, StandFields) /\ t.status = "PAUSED" /\ t.from = s.from /\ t.budget = s.budget
      /\ t.left = s.left /\ t.failed = s.failed /\ t.op = s.op /\ t.open = s.open /\ t.round = s.round
      /\ t.selLeft = s.selLeft /\ t.opp = s.opp /\ t.phase = s.phase
  BY DEF Resuming, Same, Names, StandFields
<1>2. At(t) = At(s) /\ s.budget \in [Sides -> 0..Total]
  BY <1>1, TurnFacts DEF At
<1>3. Charged(t, s) /\ FailedOn(t, s) /\ (Chooses(t) => Chooses(s))
  BY <1>1, <1>2 DEF Charged, FailedOn, Chooses
<1>4. At(s) \in HumanTurn => t.left # NoTime
  BY <1>1 DEF Stands, Awaiting
<1>5. Stands(t, r, late, v)
  BY <1>1, <1>2, <1>3, <1>4, StandsOn
<1>. QED BY <1>1, <1>5 DEF AgentsLast

\* What is kept of the hands is theirs.
LEMMA StandingIn ==
    ASSUME NEW t, NEW s, NEW r
    PROVE  /\ Standing(t, s, r) \subseteq r /\ (t.opp = s.opp => Standing(t, s, r) = r)
           /\ t.opp # s.opp => Standing(t, s, r) = {}
  BY DEF Standing

\* A speech that had ended goes on with its window: the hands raised during it are
\* those of the side that speaks next, unless that side has too little time.
LEMMA WindowStands ==
    ASSUME NEW s, Typed(s), At(s) \in Finalizing, s.opp # 0, NEW r, NEW late, NEW v, Stands(s, r, late, v)
    PROVE  Best(s, r)
<1>1. At(s) \in OnAir /\ At(s) \in Turn /\ s.side \in Sides /\ s.holder \in Sides /\ s.budget \in [Sides -> 0..Total]
  BY Kinds, TurnFacts
<1>2. r \subseteq HumansOf(Other(s.side)) /\ (Rich(s) => r \subseteq ToSet(s.hands)) /\ ToSet(s.hands) \subseteq r
  BY <1>1 DEF Stands, OnFloor, Onwards, StandsFor, HandsUp
<1>3. CASE s.holder = s.side
  <2>1. ~Rich(s)
    BY <1>1, <1>3 DEF Stands, Heard
  <2>2. r \cap HumansOf(s.holder) = {}
    BY <1>1, <1>2, <1>3, Numbers DEF HumansOf
  <2>3. ASSUME NEW h \in ToSet(s.hands) PROVE s.budget[Other(s.holder)] \in 1..Minimum - 1
    <3>1. SideOf[h] = Other(s.holder)
      BY <1>2, <1>3, <2>3 DEF HumansOf
    <3>2. s.budget[Other(s.holder)] > 0
      BY <2>3, <3>1 DEF Stands, HandsUp, HandsPaid
    <3>3. s.budget[Other(s.holder)] \in 0..Total /\ Minimum \in Nat \ {0}
      BY <1>1, Numbers
    <3>. QED BY <1>3, <2>1, <3>2, <3>3 DEF Rich
  <2>. QED BY <2>2, <2>3 DEF Best
<1>4. CASE s.holder # s.side
  <2>1. Rich(s) /\ s.holder = Other(s.side)
    BY <1>1, <1>4, Numbers DEF Stands, OnFloor
  <2>. QED BY <1>2, <2>1 DEF Best
<1>. QED BY <1>3, <1>4

\* _resume_elapsed: a selection goes on with its hands or is made anew without any; a
\* turn that starts again keeps those it was given.
LEMMA ResumedStands ==
    ASSUME NEW s, Typed(s), s.status = "PAUSED", NEW r, NEW late, Sources(s, late), NEW v, Stands(s, r, late, v),
           NEW t, Typed(t), IsResumed(t, s)
    PROVE  Stands(t, Standing(t, s, r), late, v) /\ AgentsLast(t, s, r)
<1>1. At(s) = s.from /\ s.from \in Goes /\ s.failed = 0 /\ s.gen \in Nat /\ s.opp <= s.gen /\ s.opp \in Nat
  BY DEF At, Typed, Shape, ChoiceTyped
<1>2. /\ t.status = "RUNNING" /\ At(t) = t.act /\ t.side = s.side /\ t.left = s.left /\ t.start = s.start
      /\ t.settled = s.settled /\ t.budget = s.budget /\ t.failed = 0 /\ t.op = s.op /\ t.holder = s.holder
      /\ t.src = s.src
  BY <1>1 DEF IsResumed, Same, Kept13, At
<1>3. /\ r \subseteq Humans /\ ToSet(s.hands) \subseteq r /\ HandsPaid(s) /\ s.budget \in [Sides -> 0..Total]
  BY TurnFacts DEF Stands, HandsUp
<1>4. CASE /\ Selects(s) /\ t.act = "FREE_SELECTING" /\ t.phase \in {"COMPETING", "MODEL_WAIT", "HUMAN_ONLY_WAIT"}
           /\ \/ t.opp = s.opp /\ t.hands = s.hands /\ s.opp # 0 /\ s.op # "SUCCEEDED"
              \/ /\ t.opp = s.gen + 1 /\ (t.hands = << >> \/ (t.hands = s.hands /\ s.src = 0))
                 /\ s.opp = 0 \/ s.op = "SUCCEEDED"
  <2>1. At(t) = "FREE_SELECTING" /\ t.phase # "ALLOCATED"
    BY <1>2, <1>4
  <2>2. At(s) \notin Turn \/ At(s) \in Finalizing
    BY <1>1, <1>4, Kinds DEF Selects
  <2>3. t.start = NoTime \/ t.settled
    BY <1>2, <2>2, TurnFacts DEF Stands, Phased
  <2>4. s.src = 0 => /\ s.start = NoTime /\ s.budget = [x \in Sides |-> Total] /\ s.op \in {"NONE", "RESET"} /\ s.opp # 0
    <3>1. s.src = 0 => At(s) = "FREE_SELECTING"
      BY <1>1, <1>4 DEF Selects, Finalizing, Stands, Unspoken
    <3>. QED BY <3>1 DEF Stands, Unspoken
  <2>5. CASE t.opp = s.opp /\ t.hands = s.hands /\ s.opp # 0 /\ s.op # "SUCCEEDED"
    <3>1. Best(s, r)
      BY <1>1, <1>4, <2>5, WindowStands DEF Selects, Stands, Choosing, Chooses
    <3>2. Best(t, r) /\ HandsPaid(t)
      BY <1>2, <1>3, <2>5, <3>1 DEF Best, HandsPaid
    <3>3. Stands(t, r, late, v)
      BY <1>2, <1>3, <2>1, <2>3, <2>4, <2>5, <3>2, SelectingStands
    <3>. QED BY <2>1, <2>5, <3>3, StandingIn DEF AgentsLast
  <2>6. CASE t.opp = s.gen + 1 /\ t.hands = << >>
    <3>1. ToSet(t.hands) = {}
      BY <2>6 DEF ToSet
    <3>2. Best(t, {}) /\ HandsPaid(t)
      BY <3>1 DEF Best, HandsPaid
    <3>3. t.opp # s.opp /\ t.opp # 0
      BY <1>1, <2>6
    <3>4. Stands(t, {}, late, v)
      BY <1>2, <2>1, <2>3, <2>4, <3>1, <3>2, <3>3, SelectingStands
    <3>. QED BY <2>1, <3>3, <3>4, StandingIn DEF AgentsLast
  <2>. QED BY <1>4, <2>4, <2>5, <2>6
<1>5. CASE ~Selects(s) /\ s.from \in HumanTurn /\ t.act = "HUMAN_READY_TO_START"
           /\ Same(t, s, {"speech", "opp", "phase", "hands", "open", "round"})
  <2>1. /\ t.speech = s.speech /\ t.opp = s.opp /\ t.phase = s.phase /\ t.hands = s.hands /\ t.open = s.open
        /\ t.round = s.round
    BY <1>5 DEF Same
  <2>2. At(t) = "HUMAN_READY_TO_START"
    BY <1>2, <1>5
  <2>3. CASE At(s) = "HUMAN_READY_TO_START"
    <3>1. Same(t, s, StandFields) /\ Charged(t, s) /\ FailedOn(t, s)
      BY <1>1, <1>2, <1>3, <2>1 DEF Same, StandFields, Charged, FailedOn
    <3>2. At(s) \in HumanTurn => t.left # NoTime
      BY <1>2 DEF Stands, Awaiting
    <3>3. At(s) \notin Finalizing
      BY <2>3, Kinds
    <3>4. Stands(t, r, late, v)
      BY <1>2, <2>1, <2>2, <2>3, <3>1, <3>2, <3>3, StandsOn
    <3>. QED BY <2>1, <3>4, StandingIn DEF AgentsLast
  <2>4. CASE At(s) # "HUMAN_READY_TO_START"
    <3>1. At(s) \in {"HUMAN_SPEAKING", "SPEECH_FINALIZING"} /\ At(s) \in OnAir /\ At(s) \in Turn /\ At(s) \in HumanTurn
      BY <1>1, <1>5, <2>4, Kinds DEF HumanTurn
    <3>2. s.opp = 0
      BY <1>1, <1>5, <3>1, Kinds DEF Selects, Stands, Heard
    <3>3. s.phase \notin {"ALLOCATED", "MODEL_WAIT", "HUMAN_ONLY_WAIT"} /\ ~NewlyChosen(s) /\ ~NewlyChosen(t)
      BY <2>1, <3>1 DEF Stands, Phased, NewlyChosen
    <3>4. At(t) \in Turn /\ At(t) \notin OnAir /\ At(t) \notin Finalizing
      BY <2>2, Kinds
    <3>5. Rich(t) <=> Rich(s)
      BY <1>2 DEF Rich
    <3>6. HandsUp(t, r)
      BY <1>2, <2>1, <3>1, <3>3 DEF Stands, HandsUp, HandsPaid, HandsOpposite
    <3>7. Phased(t) /\ Choosing(t, r)
      BY <2>1, <2>2, <3>3, <3>4 DEF Phased, Choosing
    <3>8. StandsFor(t, r)
      BY <1>2, <2>1, <3>1, <3>5 DEF Stands, OnFloor, Onwards, StandsFor
    <3>9. OnFloor(t, r)
      BY <1>2, <3>1, <3>5, <3>8 DEF Stands, OnFloor
    <3>10. Heard(t, r) /\ Voiced(t, late, v)
      BY <2>2, <3>4 DEF Heard, Voiced
    <3>11. s.src = s.speech \/ s.src \notin late
      BY <3>1 DEF Sources
    <3>12. Rich(s) => s.open \/ r = {}
      BY <1>1, <3>1, <3>2 DEF Stands, Heard
    <3>13. s.left # NoTime
      BY <3>1 DEF Stands, Awaiting
    <3>14. Awaiting(t, r, late)
      BY <1>2, <2>1, <3>2, <3>3, <3>5, <3>8, <3>11, <3>12, <3>13 DEF Awaiting
    <3>15. Unspoken(t)
      BY <1>2, <3>1 DEF Stands, Unspoken
    <3>16. Stands(t, r, late, v)
      BY <3>6, <3>7, <3>9, <3>10, <3>14, <3>15 DEF Stands
    <3>. QED BY <2>1, <3>16, StandingIn DEF AgentsLast
  <2>. QED BY <2>3, <2>4
<1>6. CASE /\ s.from \in AgentTurn \ {"AGENT_PREPARING"} /\ t.act = "AGENT_PREPARING" /\ t.opp = 0
           /\ t.phase = "none" /\ t.hands = << >>
  <2>1. At(t) = "AGENT_PREPARING" /\ At(s) \in {"AGENT_SPEAKING", "AGENT_FINALIZING"} /\ At(s) \in Turn
    BY <1>1, <1>2, <1>6, Kinds DEF AgentTurn
  <2>2. At(t) \in Turn /\ At(t) \notin OnAir /\ At(t) \notin HumanTurn
    BY <2>1, Kinds
  <2>3. t.src # 0
    BY <1>2, <2>1 DEF Stands, Unspoken
  <2>4. t.holder # t.side => Rich(t)
    BY <1>2, <2>1 DEF Stands, OnFloor, Rich
  <2>5. Standing(t, s, r) \subseteq Humans
    BY <1>3, StandingIn
  <2>. DEFINE q == Standing(t, s, r)
  <2>6. Stands(t, q, late, v)
    <3>. HIDE DEF q
    <3>1. q \subseteq Humans
      BY <2>5 DEF q
    <3>. QED BY <1>6, <2>1, <2>2, <2>3, <2>4, <3>1, DroppedStands
  <2>. QED BY <1>6, <2>6 DEF AgentsLast
<1>7. CASE s.from \in {"AGENT_PREPARING", "HOST_ANNOUNCING"} /\ t.act = s.from
           /\ Same(t, s, {"speech", "opp", "phase", "hands", "open", "round"})
  <2>1. /\ t.speech = s.speech /\ t.opp = s.opp /\ t.phase = s.phase /\ t.hands = s.hands /\ t.open = s.open
        /\ t.round = s.round
    BY <1>7 DEF Same
  <2>2. At(t) = At(s) /\ At(s) \notin HumanTurn /\ At(s) \notin Finalizing /\ At(s) # "FREE_SELECTING"
    BY <1>1, <1>2, <1>7, Kinds
  <2>3. Same(t, s, StandFields) /\ Charged(t, s) /\ FailedOn(t, s)
    BY <1>1, <1>2, <1>3, <2>1 DEF Same, StandFields, Charged, FailedOn
  <2>4. Stands(t, r, late, v)
    BY <1>2, <1>7, <2>1, <2>2, <2>3, Kinds, StandsOn
  <2>. QED BY <2>1, <2>4, StandingIn DEF AgentsLast
<1>. QED BY <1>4, <1>5, <1>6, <1>7 DEF IsResumed

\* host.finished: the hands raised while the host spoke stand for the first selection.
LEMMA HostDoneStands ==
    ASSUME NEW s, Typed(s), s.status = "RUNNING", s.act = "HOST_ANNOUNCING", NEW r, NEW late, NEW v,
           Stands(s, r, late, v), NEW t, HostDone(t, s)
    PROVE  Stands(t, r, late, v) /\ AgentsLast(t, s, r) /\ t.opp = s.opp
<1>1. /\ t.act = "FREE_SELECTING" /\ t.status = s.status /\ t.start = s.start /\ t.settled = s.settled
      /\ t.budget = s.budget /\ t.failed = s.failed /\ t.op = s.op /\ t.holder = s.holder /\ t.src = s.src
  BY DEF HostDone, Same, TurnFields
<1>2. At(s) = "HOST_ANNOUNCING" /\ At(t) = "FREE_SELECTING" /\ At(s) \notin Turn
  BY <1>1, Kinds DEF At
<1>3. /\ s.holder = First /\ r \subseteq HumansOf(First) /\ r \subseteq ToSet(s.hands) /\ s.opp # 0
      /\ s.round = s.opp /\ s.src = 0 /\ r \subseteq Humans /\ ToSet(s.hands) \subseteq r /\ HandsPaid(s)
      /\ s.phase # "ALLOCATED" /\ (s.start = NoTime \/ s.settled)
  BY <1>2 DEF Stands, Choosing, HandsUp, Phased
<1>4. t.opp = s.opp /\ t.hands = s.hands /\ t.phase = s.phase
  BY <1>3 DEF HostDone, Same
<1>5. /\ s.start = NoTime /\ s.budget = [x \in Sides |-> Total] /\ s.failed = 0 /\ s.op \in {"NONE", "RESET"}
  BY <1>3 DEF Stands, Unspoken
<1>6. Best(t, r) /\ HandsPaid(t)
  BY <1>1, <1>3, <1>4 DEF Best, HandsPaid
<1>7. Stands(t, r, late, v)
  BY <1>1, <1>2, <1>3, <1>4, <1>5, <1>6, SelectingStands
<1>. QED BY <1>4, <1>7 DEF AgentsLast

\* What the hands depend on, besides what StandsOn leaves alone.
HandFields == StandFields \cup {"status", "act", "from", "budget", "left", "failed", "op", "open", "round", "selLeft"}

\* A step elsewhere.
LEMMA UntouchedStands ==
    ASSUME NEW s, Typed(s), NEW r, NEW late, NEW v, Stands(s, r, late, v), NEW t, Same(t, s, HandFields),
           NEW after \in SUBSET late
    PROVE  Stands(t, r, after, v) /\ AgentsLast(t, s, r) /\ t.opp = s.opp
<1>1. /\ Same(t, s, StandFields) /\ t.status = s.status /\ t.act = s.act /\ t.from = s.from /\ t.budget = s.budget
      /\ t.left = s.left /\ t.failed = s.failed /\ t.op = s.op /\ t.open = s.open /\ t.round = s.round
      /\ t.selLeft = s.selLeft /\ t.opp = s.opp /\ t.phase = s.phase
  BY DEF Same, HandFields, StandFields
<1>2. At(t) = At(s) /\ s.budget \in [Sides -> 0..Total]
  BY <1>1, TurnFacts DEF At
<1>3. Charged(t, s) /\ FailedOn(t, s) /\ (Chooses(t) <=> Chooses(s))
  BY <1>1, <1>2 DEF Charged, FailedOn, Chooses
<1>4. At(s) \in HumanTurn => t.left # NoTime
  BY <1>1 DEF Stands, Awaiting
<1>5. Stands(t, r, after, v)
  BY <1>1, <1>2, <1>3, <1>4, StandsOn
<1>. QED BY <1>1, <1>5 DEF AgentsLast

\* What starts decisions, or awaits them.
LEMMA StaysStands ==
    ASSUME NEW s, Typed(s), NEW r, NEW late, NEW v, Stands(s, r, late, v), NEW t, Stays(t, s)
    PROVE  Stands(t, r, late, v) /\ AgentsLast(t, s, r) /\ t.opp = s.opp
<1>1. /\ Same(t, s, StandFields) /\ t.status = s.status /\ t.act = s.act /\ t.from = s.from /\ t.budget = s.budget
      /\ t.left = s.left /\ t.failed = s.failed /\ t.op = s.op /\ t.opp = s.opp /\ t.phase = s.phase
  BY DEF Stays, Same, TurnFields, StandFields
<1>2. At(t) = At(s) /\ s.budget \in [Sides -> 0..Total]
  BY <1>1, TurnFacts DEF At
<1>3. At(s) \in Turn => t.open = s.open
  BY Kinds DEF Stays, Stands, Phased
<1>4. Charged(t, s) /\ FailedOn(t, s) /\ (Chooses(t) <=> Chooses(s))
  BY <1>1, <1>2, <1>3 DEF Charged, FailedOn, Chooses
<1>5. At(s) \in HumanTurn => t.left # NoTime
  BY <1>1 DEF Stands, Awaiting
<1>6. (s.selLeft => t.selLeft) /\ t.round \in {s.round, s.opp}
  BY DEF Stays
<1>7. Stands(t, r, late, v)
  BY <1>1, <1>2, <1>4, <1>5, <1>6, StandsOn
<1>. QED BY <1>1, <1>7 DEF AgentsLast

\* A hand goes up for the side that speaks next.
LEMMA RaisedStands ==
    ASSUME NEW s, Typed(s), s.status = "RUNNING", s.open, NEW r, NEW late, NEW v, Stands(s, r, late, v),
           NEW h \in Humans, s.budget[SideOf[h]] > 0,
           SideOf[h] = IF s.act \in {"FREE_SELECTING", "HOST_ANNOUNCING"} THEN s.holder ELSE Other(s.side),
           NEW t, Same(t, s, Names \ {"hands"}), ToSet(t.hands) = ToSet(s.hands) \cup {h},
           NEW q, q = r \cup {h}
    PROVE  Stands(t, q, late, v)
<1>1. /\ t.side = s.side /\ t.start = s.start /\ t.settled = s.settled /\ t.phase = s.phase /\ t.holder = s.holder
      /\ t.opp = s.opp /\ t.src = s.src /\ t.speech = s.speech /\ t.status = s.status /\ t.act = s.act
      /\ t.from = s.from /\ t.budget = s.budget /\ t.left = s.left /\ t.failed = s.failed /\ t.op = s.op
      /\ t.open = s.open /\ t.round = s.round /\ t.selLeft = s.selLeft
  BY DEF Same, Names
<1>2. /\ At(t) = At(s) /\ At(s) = s.act /\ (NewlyChosen(t) <=> NewlyChosen(s)) /\ (Rich(t) <=> Rich(s))
      /\ (Chooses(t) <=> Chooses(s)) /\ (Onwards(t) <=> Onwards(s))
  BY <1>1 DEF At, NewlyChosen, Rich, Chooses, Onwards
<1>3. /\ At(s) \in Turn => h \in HumansOf(Other(s.side))
      /\ At(s) \in {"FREE_SELECTING", "HOST_ANNOUNCING"} => h \in HumansOf(s.holder)
  BY <1>2, Kinds DEF HumansOf
<1>4. HandsUp(t, q)
  <2>1. r \subseteq Humans /\ ToSet(s.hands) \subseteq r /\ HandsPaid(s) /\ HandsOpposite(s)
    BY DEF Stands, HandsUp
  <2>2. HandsPaid(t)
    BY <1>1, <2>1 DEF HandsPaid
  <2>3. HandsOpposite(t)
    BY <1>1, <1>2, <1>3, <2>1 DEF HandsOpposite
  <2>. QED BY <2>1, <2>2, <2>3 DEF HandsUp
<1>5. Phased(t)
  BY <1>1, <1>2 DEF Stands, Phased
<1>6. Choosing(t, q)
  <2>1. At(s) = "FREE_SELECTING" /\ Chooses(s) => Best(t, q)
    BY <1>1, <1>3 DEF Stands, Choosing, Best
  <2>2. At(s) = "HOST_ANNOUNCING" =>
          s.holder = First /\ q \subseteq HumansOf(First) /\ q \subseteq ToSet(t.hands) /\ s.opp # 0 /\ s.round = s.opp /\ s.src = 0
    BY <1>3 DEF Stands, Choosing
  <2>. QED BY <1>1, <1>2, <2>1, <2>2 DEF Choosing
<1>7. At(s) \in Turn /\ StandsFor(s, r) => StandsFor(t, q)
  BY <1>1, <1>2, <1>3 DEF StandsFor
<1>8. OnFloor(t, q)
  <2>1. Onwards(s) => At(s) \in Turn
    BY Kinds DEF Onwards
  <2>. QED BY <1>1, <1>2, <1>7, <2>1 DEF Stands, OnFloor
<1>9. Heard(t, q)
  BY <1>1, <1>2 DEF Stands, Heard
<1>10. Awaiting(t, q, late)
  <2>1. At(s) = "HUMAN_READY_TO_START" => At(s) \in Turn
    BY Kinds
  <2>. QED BY <1>1, <1>2, <1>7, <2>1 DEF Stands, Awaiting
<1>11. Voiced(t, late, v) /\ Unspoken(t)
  BY <1>1, <1>2 DEF Stands, Voiced, Unspoken
<1>. QED BY <1>4, <1>5, <1>6, <1>8, <1>9, <1>10, <1>11 DEF Stands

\* A hand goes down.
LEMMA LoweredStands ==
    ASSUME NEW s, Typed(s), NEW r, NEW late, NEW v, Stands(s, r, late, v), NEW h,
           NEW t, Same(t, s, Names \ {"hands"}), ToSet(t.hands) = ToSet(s.hands) \ {h}, NEW q, q = r \ {h}
    PROVE  Stands(t, q, late, v)
<1>1. /\ t.side = s.side /\ t.start = s.start /\ t.settled = s.settled /\ t.phase = s.phase /\ t.holder = s.holder
      /\ t.opp = s.opp /\ t.src = s.src /\ t.speech = s.speech /\ t.status = s.status /\ t.act = s.act
      /\ t.from = s.from /\ t.budget = s.budget /\ t.left = s.left /\ t.failed = s.failed /\ t.op = s.op
      /\ t.open = s.open /\ t.round = s.round /\ t.selLeft = s.selLeft
  BY DEF Same, Names
<1>2. /\ At(t) = At(s) /\ (NewlyChosen(t) <=> NewlyChosen(s)) /\ (Rich(t) <=> Rich(s))
      /\ (Chooses(t) <=> Chooses(s)) /\ (Onwards(t) <=> Onwards(s))
  BY <1>1 DEF At, NewlyChosen, Rich, Chooses, Onwards
<1>3. HandsUp(t, q)
  BY <1>1, <1>2 DEF Stands, HandsUp, HandsPaid, HandsOpposite
<1>4. Phased(t)
  BY <1>1, <1>2 DEF Stands, Phased
<1>5. Choosing(t, q)
  <2>1. Best(s, r) => Best(t, q)
    BY <1>1 DEF Best
  <2>. QED BY <1>1, <1>2, <2>1 DEF Stands, Choosing
<1>6. StandsFor(s, r) => StandsFor(t, q)
  BY <1>1, <1>2 DEF StandsFor
<1>7. OnFloor(t, q)
  BY <1>1, <1>2, <1>6 DEF Stands, OnFloor
<1>8. Heard(t, q)
  BY <1>1, <1>2 DEF Stands, Heard
<1>9. Awaiting(t, q, late)
  BY <1>1, <1>2, <1>6 DEF Stands, Awaiting
<1>10. Voiced(t, late, v) /\ Unspoken(t)
  BY <1>1, <1>2 DEF Stands, Voiced, Unspoken
<1>. QED BY <1>3, <1>4, <1>5, <1>7, <1>8, <1>9, <1>10 DEF Stands

\* A decision that is the last one chooses at once.
LEMMA DecidedStands ==
    ASSUME NEW s, Typed(s), Competing(s), s.status = "RUNNING", NEW r, NEW late, NEW v, Stands(s, r, late, v),
           NEW t, Typed(t), Chose(t, s), s.open = FALSE \/ s.phase = "MODEL_WAIT",
           s.act = "FREE_SELECTING" \/
           (s.phase \in {"COMPETING", "MODEL_WAIT"} /\ s.act \in OnAir \cup {"HOST_ANNOUNCING", "AGENT_PREPARING"})
    PROVE  Stands(t, r, late, v) /\ AgentsLast(t, s, r) /\ t.opp = s.opp
<1>1. At(s) = s.act /\ s.holder \in Sides /\ s.act \notin Speaking
  BY TurnFacts DEF At, Competing, Stands, Phased, Speaking
<1>2. /\ r \subseteq Humans /\ ToSet(s.hands) \subseteq r /\ HandsPaid(s)
  BY DEF Stands, HandsUp
<1>3. /\ r \cap HumansOf(s.holder) \subseteq ToSet(s.hands) /\ (s.start = NoTime \/ s.settled)
      /\ s.src = 0 => s.opp # 0
  <2>1. CASE s.act = "FREE_SELECTING"
    <3>1. At(s) \notin Turn /\ Chooses(s)
      BY <1>1, <2>1, Kinds DEF Chooses
    <3>. QED BY <1>1, <2>1, <3>1 DEF Stands, Choosing, Best, Phased, Unspoken
  <2>2. CASE s.act = "HOST_ANNOUNCING"
    <3>1. At(s) \notin Turn
      BY <1>1, <2>2, Kinds
    <3>. QED BY <1>1, <2>2, <3>1 DEF Stands, Choosing, Phased
  <2>3. CASE s.act \in Finalizing \/ s.act = "AGENT_PREPARING"
    <3>1. (s.phase = "COMPETING" /\ s.open = FALSE) \/ s.act \in Finalizing
      BY <1>1, <2>3 DEF Stands, Phased
    <3>2. At(s) \in Turn /\ Onwards(s) /\ s.side \in Sides
      BY <1>1, <2>3, <3>1, Kinds, TurnFacts DEF Onwards
    <3>3. r \subseteq HumansOf(Other(s.side)) /\ (Rich(s) => r \subseteq ToSet(s.hands)) /\ (s.holder # s.side => Rich(s))
      BY <3>2 DEF Stands, OnFloor, StandsFor
    <3>4. r \cap HumansOf(s.holder) \subseteq ToSet(s.hands)
      BY <1>1, <3>2, <3>3, Numbers DEF HumansOf
    <3>5. CASE s.act \in Finalizing
      <4>1. s.settled = TRUE
        BY <1>1, <3>5, TurnFacts
      <4>2. s.src # 0
        BY <1>1, <3>5 DEF Stands, Unspoken, Finalizing
      <4>. QED BY <3>4, <4>1, <4>2
    <3>6. CASE s.act = "AGENT_PREPARING"
      <4>1. s.phase = "COMPETING" /\ s.open = FALSE
        BY <3>1, <3>6 DEF Finalizing
      <4>. QED BY <1>1, <3>4, <3>6, <4>1 DEF Stands, Voiced
    <3>. QED BY <2>3, <3>5, <3>6
  <2>. QED BY <1>1, <2>1, <2>2, <2>3, Kinds
<1>4. s.src = 0 => /\ s.start = NoTime /\ s.budget = [x \in Sides |-> Total] /\ s.op \in {"NONE", "RESET"}
                   /\ s.opp # 0
  BY <1>3 DEF Stands, Unspoken
<1>. QED BY <1>1, <1>2, <1>3, <1>4, ChoseStands

-----------------------------------------------------------------------------
(* The hands, action by action *)

HandsInv == Stands(d, raised, unsaved, voiced)

\* What an action has to show: who is chosen, and which hands stand afterwards.
HandsAfter == Stands(d', raised', unsaved', voiced') /\ AgentsLast(d', d, raised)

\* The history keeps the hands of the opportunity that goes on.
LEMMA RaisedKept == ASSUME HandsKept PROVE raised' = Standing(d', d, raised)
  BY DEF HandsKept, Standing

\* So do those of an outcome that leaves the opportunity alone.
LEMMA RaisedSame == ASSUME HandsKept, d'.opp = d.opp PROVE raised' = raised
  BY DEF HandsKept

\* host.finished
LEMMA HostFinishedHands == ASSUME TypeInv, HandsInv, HostFinished PROVE HandsAfter
<1>1. HostDone(d', d) /\ d.status = "RUNNING" /\ d.act = "HOST_ANNOUNCING" /\ HandsKept
      /\ unsaved' = unsaved /\ voiced' = voiced
  BY HostFinishes DEF HostFinished, Running, TypeInv, Typed
<1>2. Stands(d', raised, unsaved, voiced) /\ AgentsLast(d', d, raised) /\ d'.opp = d.opp
  BY <1>1, HostDoneStands DEF HandsInv, TypeInv
<1>. QED BY <1>1, <1>2, RaisedSame DEF HandsAfter

\* hand.raise
LEMMA HandRaiseHands == ASSUME TypeInv, TypeInv', HandsInv, NEW h \in Humans, HandRaise(h) PROVE HandsAfter
<1>. DEFINE q == raised \cup {h}
<1>1. PICK v : /\ ChoiceTyped(v) /\ Same(v, d, Names \ {"hands"}) /\ ToSet(v.hands) = ToSet(d.hands) \cup {h}
               /\ d' = v \/ (ChoseHuman(d', v) /\ d.phase \in {"HUMAN_ONLY_WAIT", "MODEL_WAIT"})
  BY HandRaised DEF TypeInv, Typed
<1>2. /\ d.status = "RUNNING" /\ d.open /\ d.budget[SideOf[h]] > 0
      /\ SideOf[h] = IF d.act \in {"FREE_SELECTING", "HOST_ANNOUNCING"} THEN d.holder ELSE Other(d.side)
      /\ raised' = q /\ unsaved' = unsaved /\ voiced' = voiced
  BY DEF HandRaise, Running
<1>3. q = raised \cup {h}
  OBVIOUS
<1>. HIDE DEF q
<1>4. Stands(v, q, unsaved, voiced)
  BY <1>1, <1>2, <1>3, RaisedStands DEF TypeInv, HandsInv
<1>5. /\ Same(v, d, TurnFields) /\ v.status = d.status /\ v.act = d.act /\ v.phase = d.phase
      /\ v.budget = d.budget /\ v.start = d.start
  BY <1>1 DEF Same, Names, TurnFields
<1>6. CASE d' = v
  <2>1. AgentsLast(d', d, raised)
    BY <1>5, <1>6 DEF AgentsLast
  <2>. QED BY <1>2, <1>4, <1>6, <2>1 DEF HandsAfter
<1>7. CASE ChoseHuman(d', v) /\ d.phase \in {"HUMAN_ONLY_WAIT", "MODEL_WAIT"}
  <2>1. Typed(v) /\ v.status = "RUNNING" /\ Typed(d') /\ Chose(d', v)
    BY <1>1, <1>2, <1>5, <1>7, SameTurn DEF TypeInv, Chose
  <2>2. At(v) = "FREE_SELECTING" /\ v.act = "FREE_SELECTING" /\ At(v) \notin Turn /\ Chooses(v) /\ v.act \notin Speaking
    BY <1>4, <1>5, <1>7, <2>1, Kinds DEF Stands, Phased, At, Chooses, Speaking
  <2>3. /\ HandsPaid(v) /\ q \subseteq Humans /\ ToSet(v.hands) \subseteq q
        /\ q \cap HumansOf(v.holder) \subseteq ToSet(v.hands) /\ (v.start = NoTime \/ v.settled)
    BY <1>4, <2>2 DEF Stands, HandsUp, Choosing, Best, Phased
  <2>4. v.src = 0 => /\ v.start = NoTime /\ v.budget = [x \in Sides |-> Total] /\ v.op \in {"NONE", "RESET"}
                     /\ v.opp # 0
    BY <1>4, <2>2 DEF Stands, Unspoken
  <2>5. Stands(d', q, unsaved, voiced)
    BY <2>1, <2>2, <2>3, <2>4, ChoseStands
  <2>6. AgentsLast(d', d, raised)
    BY <1>7 DEF ChoseHuman, AgentsLast
  <2>. QED BY <1>2, <2>5, <2>6 DEF HandsAfter
<1>. QED BY <1>1, <1>6, <1>7

\* hand.cancel
LEMMA HandCancelHands == ASSUME TypeInv, HandsInv, NEW h \in Humans, HandCancel(h) PROVE HandsAfter
<1>. DEFINE q == raised \ {h}
<1>1. Same(d', d, Names \ {"hands"}) /\ ToSet(d'.hands) = ToSet(d.hands) \ {h}
  BY HandCancelled DEF TypeInv, Typed
<1>2. raised' = q /\ unsaved' = unsaved /\ voiced' = voiced /\ q = raised \ {h}
  BY DEF HandCancel
<1>. HIDE DEF q
<1>3. Stands(d', q, unsaved, voiced)
  BY <1>1, <1>2, LoweredStands DEF TypeInv, HandsInv
<1>4. d'.phase = d.phase
  BY <1>1 DEF Same, Names
<1>. QED BY <1>2, <1>3, <1>4 DEF HandsAfter, AgentsLast

\* report_free_decision
LEMMA DecideHands ==
    ASSUME TypeInv, TypeInv', HandsInv, NEW a \in Agents, NEW answer \in {"HAND", "SKIP", "FAILED"}, Decide(a, answer)
    PROVE  HandsAfter
<1>1. \/ Stays(d', d)
      \/ /\ Chose(d', d) /\ (d.open = FALSE \/ d.phase = "MODEL_WAIT")
         /\ d.act = "FREE_SELECTING" \/
            (d.phase \in {"COMPETING", "MODEL_WAIT"} /\ d.act \in OnAir \cup {"HOST_ANNOUNCING", "AGENT_PREPARING"})
  BY Decided DEF Decide, TypeInv, Typed
<1>2. HandsKept /\ d.status = "RUNNING" /\ unsaved' = unsaved /\ voiced' = voiced
  BY DEF Decide, Running
<1>3. Stands(d', raised, unsaved, voiced) /\ AgentsLast(d', d, raised) /\ d'.opp = d.opp
  <2>1. CASE Stays(d', d)
    BY <2>1, StaysStands DEF TypeInv, HandsInv
  <2>2. CASE /\ Chose(d', d) /\ (d.open = FALSE \/ d.phase = "MODEL_WAIT")
             /\ d.act = "FREE_SELECTING" \/
                (d.phase \in {"COMPETING", "MODEL_WAIT"} /\ d.act \in OnAir \cup {"HOST_ANNOUNCING", "AGENT_PREPARING"})
    BY <1>2, <2>2, DecidedStands DEF TypeInv, HandsInv
  <2>. QED BY <1>1, <2>1, <2>2
<1>. QED BY <1>2, <1>3, RaisedSame DEF HandsAfter

\* human_text_known, agent_text_generated
LEMMA TextKnownHands == ASSUME TypeInv, HandsInv, NEW speech, BeginDecisions(speech) PROVE HandsAfter
<1>1. Stays(d', d)
  BY MemoryKept, DecisionsBegun
<1>2. raised' = raised /\ unsaved' = unsaved /\ voiced' = voiced
  BY DEF BeginDecisions, history
<1>3. Stands(d', raised, unsaved, voiced) /\ AgentsLast(d', d, raised)
  BY <1>1, StaysStands DEF TypeInv, HandsInv
<1>. QED BY <1>2, <1>3 DEF HandsAfter

\* The decision deadline passes, a timer fires, or the clock of the speaker runs.
LEMMA UntouchedHands ==
    ASSUME TypeInv, HandsInv, Same(d', d, HandFields), raised' = raised, unsaved' = unsaved, voiced' = voiced
    PROVE  HandsAfter
  BY UntouchedStands DEF TypeInv, HandsInv, HandsAfter

\* The three of them.
LEMMA TimeHands == ASSUME TypeInv, HandsInv, DecisionsDue \/ Fire \/ Tick PROVE HandsAfter
<1>1. CASE DecisionsDue
  <2>1. Touched(d', d) /\ UNCHANGED history /\ unsaved' = unsaved /\ voiced' = voiced
    BY <1>1, DuePasses, MemoryKept, SMTT(60) DEF DecisionsDue
  <2>2. Same(d', d, HandFields)
    BY <2>1 DEF Touched, Same, Names, HandFields, StandFields
  <2>. QED BY <2>1, <2>2, UntouchedHands DEF history
<1>2. CASE Fire
  <2>1. Touched(d', d) /\ UNCHANGED history /\ unsaved' = unsaved /\ voiced' = voiced
    BY <1>2, Fires, MemoryKept DEF Fire
  <2>2. Same(d', d, HandFields)
    BY <2>1 DEF Touched, Same, Names, HandFields, StandFields
  <2>. QED BY <2>1, <2>2, UntouchedHands DEF history
<1>3. CASE Tick
  <2>. DEFINE clock == d.clock - 1
  <2>1. DOMAIN d = Names /\ ChoiceTyped(d)
    BY DEF TypeInv, Typed, ChoiceTyped
  <2>2. d' = [d EXCEPT !.clock = clock]
    BY <1>3, <2>1 DEF Tick, Names
  <2>. HIDE DEF clock
  <2>3. Same(d', d, Names \ {"clock"})
    BY <2>1, <2>2, FieldChanges
  <2>4. Same(d', d, HandFields)
    BY <2>3 DEF Same, Names, HandFields, StandFields
  <2>5. raised' = raised /\ unsaved' = unsaved /\ voiced' = voiced
    BY <1>3 DEF Tick
  <2>. QED BY <2>4, <2>5, UntouchedHands
<1>. QED BY <1>1, <1>2, <1>3

\* _speech_start
LEMMA HumanStartsHands == ASSUME TypeInv, TypeInv', HandsInv, NEW h \in Humans, HumanStarts(h) PROVE HandsAfter
<1>. DEFINE again == d.speech # 0
            speech == IF again THEN d.speech ELSE d.issued + 1
            act == "HUMAN_SPEAKING"
<1>1. /\ d.status = "RUNNING" /\ d.act = "HUMAN_READY_TO_START" /\ d' = StartSpeech(d, act, speech, again)
      /\ d.src \notin unsaved /\ raised' = Standing(d', d, raised)
  BY DEF HumanStarts, MayTake, Running, Takes, SourceSaved, Standing
<1>2. speech \in Nat \ {0}
  <2>1. d.speech \in Nat /\ d.issued \in Nat
    BY DEF TypeInv, Typed, TurnTyped
  <2>. QED BY <2>1
<1>3. act = "HUMAN_SPEAKING" /\ (again <=> d.speech # 0) /\ again \in BOOLEAN /\ act # "AGENT_SPEAKING"
  OBVIOUS
<1>. HIDE DEF again, speech, act
<1>4. SpeechStarted(d', d, act, speech, again)
  BY <1>1, <1>3, MemoryKept, StartsSpeech
<1>5. Typed(d) /\ ChoiceTyped(d') /\ Stands(d, raised, unsaved, voiced)
  BY DEF TypeInv, Typed, HandsInv
<1>6. Stands(d', Standing(d', d, raised), unsaved', voiced') /\ AgentsLast(d', d, raised)
  BY <1>1, <1>2, <1>3, <1>4, <1>5, StartedStands
<1>. QED BY <1>1, <1>6 DEF HandsAfter

\* _agent_playback_started
LEMMA AgentStartsHands == ASSUME TypeInv, TypeInv', HandsInv, NEW a \in Agents, AgentStarts(a) PROVE HandsAfter
<1>. DEFINE again == FALSE
            speech == d.issued + 1
            act == "AGENT_SPEAKING"
<1>1. /\ d.status = "RUNNING" /\ d.act = "AGENT_PREPARING" /\ d' = StartSpeech(d, act, speech, again)
      /\ d.src \notin unsaved /\ raised' = Standing(d', d, raised) /\ voiced' = voiced \cup {speech}
  BY DEF AgentStarts, MayTake, Running, Takes, SourceSaved, Standing
<1>2. speech \in Nat \ {0}
  <2>1. d.issued \in Nat
    BY DEF TypeInv, Typed, TurnTyped
  <2>. QED BY <2>1
<1>3. act = "AGENT_SPEAKING" /\ ~again /\ again \in BOOLEAN
  OBVIOUS
<1>. HIDE DEF again, speech, act
<1>4. SpeechStarted(d', d, act, speech, again)
  BY <1>1, <1>3, MemoryKept, StartsSpeech
<1>5. Typed(d) /\ ChoiceTyped(d') /\ Stands(d, raised, unsaved, voiced) /\ speech \in voiced'
  BY <1>1 DEF TypeInv, Typed, HandsInv
<1>6. Stands(d', Standing(d', d, raised), unsaved', voiced') /\ AgentsLast(d', d, raised)
  BY <1>1, <1>2, <1>3, <1>4, <1>5, StartedStands
<1>. QED BY <1>1, <1>6 DEF HandsAfter

\* speech.finish, agent.playback_finished
LEMMA FinishesHands == ASSUME TypeInv, TypeInv', HandsInv, Finishes PROVE HandsAfter
<1>1. /\ d.status = "RUNNING" /\ d.act \in Speaking /\ d' = FinishSpeech(d, FALSE) /\ UNCHANGED history
      /\ unsaved' = unsaved /\ voiced' = voiced
  BY DEF Finishes, Running
<1>2. SpeechFinished(d', d, FALSE) /\ FALSE \in BOOLEAN
  BY <1>1, FinishesSpeech, MemoryKept
<1>3. Stands(d', raised, unsaved, voiced) /\ AgentsLast(d', d, raised)
  BY <1>1, <1>2, SpeechFinishedStands DEF TypeInv, Typed, HandsInv
<1>. QED BY <1>1, <1>3 DEF HandsAfter, history

\* finalize_asr_speech, finalize_agent_speech
LEMMA FinalHands ==
    ASSUME TypeInv, TypeInv', HandsInv, NEW speech, NEW act \in Finalizing,
           d' = IF IsCurrent(speech, act) THEN FinishTurn(d, aired) ELSE d,
           HandsKept, unsaved' = unsaved \ {speech}, voiced' = voiced
    PROVE  HandsAfter
<1>1. CASE ~IsCurrent(speech, act)
  <2>1. d' = d /\ raised' = raised
    BY <1>1, RaisedSame
  <2>2. Same(d', d, HandFields) /\ unsaved' \in SUBSET unsaved
    BY <2>1 DEF Same
  <2>. QED BY <2>1, <2>2, UntouchedStands DEF TypeInv, HandsInv, HandsAfter
<1>2. CASE IsCurrent(speech, act)
  <2>1. d' = FinishTurn(d, aired) /\ d.status = "RUNNING" /\ d.act \in Finalizing /\ aired \in Nat
    BY <1>2 DEF IsCurrent, Running, TypeInv, Memory
  <2>2. d.side \in Sides
    BY <2>1, Kinds DEF TypeInv, Typed, Shape, At
  <2>3. TurnFinished(d', d, aired)
    BY <2>1, <2>2, FinishesTurn, MemoryKept
  <2>4. Stands(d', Standing(d', d, raised), unsaved', voiced) /\ d'.phase # "ALLOCATED"
    BY <2>1, <2>3, TurnFinishedStands DEF TypeInv, HandsInv
  <2>. QED BY <2>4, RaisedKept DEF HandsAfter, AgentsLast
<1>. QED BY <1>1, <1>2

\* The command of a timer that fired.
LEMMA HandleHands == ASSUME TypeInv, TypeInv', HandsInv, Handle PROVE HandsAfter
<1>. DEFINE entry == Head(fired)
<1>1. ChoiceTyped(d') /\ entry \in ToSet(fired) /\ (d' = d \/ Timed(d', d, entry))
  BY Handled
<1>. HIDE DEF entry
<1>2. HandsKept /\ unsaved' = unsaved /\ voiced' = voiced
  BY DEF Handle
<1>3. Stands(d, raised, unsaved, voiced) /\ Typed(d) /\ Typed(d') /\ Sources(d, unsaved)
  BY DEF HandsInv, TypeInv
<1>4. SUFFICES \/ Stands(d', Standing(d', d, raised), unsaved, voiced) /\ AgentsLast(d', d, raised)
               \/ Stands(d', raised, unsaved, voiced) /\ AgentsLast(d', d, raised) /\ d'.opp = d.opp
  BY <1>2, RaisedKept, RaisedSame DEF HandsAfter
<1>5. CASE d' = d \/ Same(d', d, Names \ {"timer"})
  <2>1. Same(d', d, HandFields) /\ unsaved \in SUBSET unsaved
    BY <1>5 DEF Same, Names, HandFields, StandFields
  <2>. QED BY <1>3, <2>1, UntouchedStands
<1>6. CASE d.status = "RUNNING" /\ IsClosed(d', d)
  BY <1>1, <1>3, <1>6, ClosedStands
<1>7. CASE d.status = "RUNNING" /\ d.act \in {"FREE_SELECTING", "HUMAN_READY_TO_START"} /\ HasTimedOut(d', d)
  BY <1>3, <1>7, TimedOutStands
<1>8. CASE d.status = "RUNNING" /\ d.act \in Speaking /\ SpeechFinished(d', d, TRUE)
  <2>1. TRUE \in BOOLEAN
    OBVIOUS
  <2>. QED BY <1>1, <1>3, <1>8, <2>1, SpeechFinishedStands
<1>9. CASE d.status = "PAUSED" /\ IsResumed(d', d)
  BY <1>3, <1>9, ResumedStands
<1>. QED BY <1>1, <1>5, <1>6, <1>7, <1>8, <1>9 DEF Timed

\* match.pause
LEMMA MatchPauseHands == ASSUME TypeInv, TypeInv', HandsInv, MatchPause PROVE HandsAfter
<1>1. /\ d.status = "RUNNING" /\ d.act # "ACTION_FINISHED" /\ d' = Pause(d) /\ HandsKept
      /\ unsaved' \in SUBSET unsaved /\ voiced' = voiced
  BY DEF MatchPause, Running
<1>2. d.act \in Goes
  BY <1>1 DEF TypeInv, Typed, Shape
<1>3. Paused(d', d) /\ ChoiceTyped(d')
  BY <1>1, Pauses, MemoryKept
<1>4. Stands(d', Standing(d', d, raised), unsaved', voiced) /\ AgentsLast(d', d, raised)
  BY <1>1, <1>2, <1>3, PausedStands DEF TypeInv, HandsInv
<1>. QED BY <1>1, <1>4, RaisedKept DEF HandsAfter

\* handle_agent_failure
LEMMA AgentFailsHands == ASSUME TypeInv, TypeInv', HandsInv, AgentFails PROVE HandsAfter
<1>1. /\ d.status = "RUNNING" /\ d.act \in AgentTurn /\ d' = AgentError(d) /\ HandsKept
      /\ unsaved' = unsaved /\ voiced' = voiced
  BY DEF AgentFails, Running
<1>2. AgentFailed(d', d)
  BY <1>1, AgentsFail, MemoryKept
<1>3. Stands(d', raised, unsaved, voiced) /\ AgentsLast(d', d, raised) /\ d'.opp = d.opp
  BY <1>1, <1>2, AgentFailedStands DEF TypeInv, HandsInv
<1>. QED BY <1>1, <1>3, RaisedSame DEF HandsAfter

\* handle_asr_failure
LEMMA RecognitionFailsHands == ASSUME TypeInv, TypeInv', HandsInv, NEW speech, RecognitionFails(speech) PROVE HandsAfter
<1>1. /\ d.status = "RUNNING" /\ d' = AsrFailed(d, speech) /\ HandsKept /\ speech \in unsaved \ voiced /\ voiced' = voiced
      /\ \/ d.speech = speech /\ d.act \in {"HUMAN_SPEAKING", "SPEECH_FINALIZING"}
         \/ d.src = speech /\ d.speech # speech
  BY DEF RecognitionFails, Running
<1>2. RecognitionFailed(d', d, speech) /\ ChoiceTyped(d')
  BY <1>1, RecognitionsFail, MemoryKept
<1>3. At(d) = d.act /\ d.op # "PENDING" /\ d.act \in Goes \cup {"ACTION_FINISHED"}
  BY <1>1 DEF TypeInv, Typed, Shape, At
<1>4. d.act # "ACTION_FINISHED"
  BY <1>1, <1>3 DEF TypeInv, Sources
<1>5. unsaved \in SUBSET (Nat \ {0}) /\ speech \in Nat \ {0}
  BY <1>1, MemoryKept
<1>6. MayFail(d, speech)
  BY <1>1, <1>3, <1>4, <1>5 DEF MayFail
<1>7. Stands(d', raised, unsaved', voiced) /\ AgentsLast(d', d, raised) /\ d'.opp = d.opp
  BY <1>1, <1>2, <1>5, <1>6, RecognitionFailedStands DEF TypeInv, HandsInv
<1>. QED BY <1>1, <1>7, RaisedSame DEF HandsAfter

\* asr.retry.begin
LEMMA RetryRecognitionHands == ASSUME TypeInv, HandsInv, RetryRecognition PROVE HandsAfter
<1>1. d' = [d EXCEPT !.op = "PENDING"] /\ UNCHANGED history /\ d.failed # 0 /\ voiced' = voiced
  BY DEF RetryRecognition
<1>2. Same(d', d, Names \ {"op"})
  BY <1>1, FieldChanges, MemoryKept
<1>3. /\ Same(d', d, StandFields) /\ d'.status = d.status /\ d'.act = d.act /\ d'.from = d.from /\ d'.budget = d.budget
      /\ d'.left = d.left /\ d'.failed = d.failed /\ d'.open = d.open /\ d'.round = d.round
      /\ d'.selLeft = d.selLeft /\ d'.opp = d.opp /\ d'.phase = d.phase
  BY <1>2 DEF Same, Names, StandFields
<1>4. At(d') = At(d) /\ d.budget \in [Sides -> 0..Total]
  BY <1>3, TurnFacts DEF At, TypeInv
<1>5. Charged(d', d) /\ FailedOn(d', d) /\ (Chooses(d') => Chooses(d))
  BY <1>1, <1>3, <1>4 DEF Charged, FailedOn, Chooses
<1>6. At(d) \in HumanTurn => d'.left # NoTime
  BY <1>3 DEF HandsInv, Stands, Awaiting
<1>7. Stands(d', raised, unsaved', voiced)
  BY <1>1, <1>3, <1>4, <1>5, <1>6, StandsOn DEF TypeInv, HandsInv
<1>. QED BY <1>1, <1>3, <1>7 DEF HandsAfter, AgentsLast, history

\* A recognition that was retried succeeds.
LEMMA RetrySucceedsHands == ASSUME TypeInv, TypeInv', HandsInv, RetrySucceeds PROVE HandsAfter
<1>1. d.op = "PENDING" /\ d' = AsrRetried(d, aired) /\ HandsKept /\ unsaved' \in SUBSET unsaved /\ voiced' = voiced
  BY DEF RetrySucceeds
<1>2. d.failed = d.speech => d.side \in Sides
  <2>1. d.failed # 0
    BY <1>1 DEF TypeInv, Typed, Shape
  <2>2. d.failed = d.speech => At(d) \in OnAir
    BY <1>1, <2>1 DEF TypeInv, Typed, Shape, At, OnAir, Speaking, Finalizing
  <2>. QED BY <2>2, Kinds, TurnFacts DEF TypeInv
<1>3. ChoiceTyped(d') /\ Retried(d', d, aired) /\ aired \in Nat
  <2>1. aired \in Nat
    BY DEF TypeInv, Memory
  <2>. QED BY <1>1, <1>2, <2>1, Retries, MemoryKept
<1>4. Stands(d', Standing(d', d, raised), unsaved', voiced) /\ AgentsLast(d', d, raised)
  BY <1>1, <1>3, RetriedStands DEF TypeInv, HandsInv
<1>. QED BY <1>1, <1>4, RaisedKept DEF HandsAfter

\* It fails again.
LEMMA RetryFailsHands == ASSUME TypeInv, TypeInv', HandsInv, RetryFails PROVE HandsAfter
<1>. DEFINE speech == d.failed
<1>1. d.op = "PENDING" /\ d' = AsrFailed(d, speech) /\ HandsKept /\ voiced' = voiced
  BY DEF RetryFails
<1>2. RecognitionFailed(d', d, speech) /\ ChoiceTyped(d')
  BY <1>1, RecognitionsFail, MemoryKept
<1>3. /\ d.failed # 0 /\ d.status = "ERROR" /\ At(d) = d.from
      /\ d.failed = d.speech => d.from \in {"HUMAN_SPEAKING", "SPEECH_FINALIZING"}
  BY <1>1 DEF TypeInv, Typed, Shape, At
<1>4. MayFail(d, speech) /\ unsaved \in SUBSET (Nat \ {0})
  BY <1>1, <1>3, MemoryKept DEF MayFail
<1>. HIDE DEF speech
<1>5. Stands(d', raised, unsaved', voiced) /\ AgentsLast(d', d, raised) /\ d'.opp = d.opp
  BY <1>2, <1>3, <1>4, RecognitionFailedStands DEF TypeInv, HandsInv
<1>. QED BY <1>1, <1>5, RaisedSame DEF HandsAfter

\* speech.reset
LEMMA SpeechResetHands == ASSUME TypeInv, TypeInv', HandsInv, NEW operator \in BOOLEAN, SpeechReset(operator) PROVE HandsAfter
<1>. DEFINE q == IF d.opp # 0 \/ operator THEN {} ELSE raised
<1>1. /\ d.op # "PENDING" /\ (operator \/ d.status = "RUNNING") /\ d' = Reset(d, operator)
      /\ (IF d.status = "RUNNING" THEN d.act ELSE d.from)
             \in AgentTurn \cup {"HUMAN_SPEAKING", "SPEECH_FINALIZING"} \cup (IF operator THEN {"HUMAN_READY_TO_START"} ELSE {})
      /\ d.src \notin unsaved \/ d.src = d.speech
      /\ unsaved' = unsaved \ {d.speech} /\ voiced' = voiced
      /\ raised' = IF operator \/ d'.opp # d.opp THEN {} ELSE raised
  BY DEF SpeechReset, Running, SourceSaved
<1>2. At(d) \in Turn /\ (operator \/ (d.status = "RUNNING" /\ At(d) # "HUMAN_READY_TO_START"))
  BY <1>1 DEF At, Turn, HumanTurn, AgentTurn
<1>3. WasReset(d', d, operator)
  BY <1>1, Resets, MemoryKept
<1>4. At(d') = Again(d) /\ d'.opp = 0
  BY <1>3 DEF WasReset, At
<1>5. raised' = q
  BY <1>1, <1>4
<1>6. q = IF d.opp # 0 \/ operator THEN {} ELSE raised
  OBVIOUS
<1>. HIDE DEF q
<1>7. Stands(d', q, unsaved', voiced) /\ AgentsLast(d', d, raised)
  BY <1>1, <1>2, <1>3, <1>4, <1>6, ResetStands DEF TypeInv, HandsInv
<1>. QED BY <1>1, <1>5, <1>7 DEF HandsAfter

\* match.resume
LEMMA MatchResumeHands == ASSUME TypeInv, HandsInv, MatchResume PROVE HandsAfter
<1>1. /\ d.status # "RUNNING" /\ d.failed = 0
      /\ d' = Arm([d EXCEPT !.status = "PAUSED", !.act = "RESUME_COUNTDOWN"], "resume.elapsed", Fresh)
      /\ UNCHANGED history /\ unsaved' = unsaved /\ voiced' = voiced
  BY DEF MatchResume
<1>2. Resuming(d', d)
  BY <1>1, Resumes, MemoryKept
<1>3. Stands(d', raised, unsaved, voiced) /\ AgentsLast(d', d, raised)
  BY <1>1, <1>2, ResumingStands DEF TypeInv, HandsInv
<1>. QED BY <1>1, <1>3 DEF HandsAfter, history

\* The process ends and the match is recovered.
LEMMA CrashHands == ASSUME TypeInv, TypeInv', HandsInv, Crash PROVE HandsAfter
<1>. DEFINE u == [Cancel(d) EXCEPT !.sel = "none", !.due = "none", !.ended = FALSE, !.wait = "none",
                                   !.ready = "none", !.clock = NoTime]
<1>1. /\ d.act # "ACTION_FINISHED" /\ d' = (IF d.status = "RUNNING" \/ d.failed # 0 THEN Recover(u) ELSE u)
      /\ unsaved' \in SUBSET unsaved /\ (d.status # "RUNNING" => unsaved' = unsaved) /\ voiced' = voiced /\ HandsKept
  BY DEF Crash, Running
<1>2. ChoiceTyped(u) /\ Lost(u, d)
  BY MemoryKept, Loses
<1>. HIDE DEF u
<1>3. Stands(d', raised, unsaved', voiced) /\ AgentsLast(d', d, raised) /\ d'.opp = d.opp
  <2>1. CASE d.status = "RUNNING" \/ d.failed # 0
    <3>1. ChoiceTyped(d') /\ Recovered(d', u)
      BY <1>1, <1>2, <2>1, Recoveries
    <3>. QED BY <1>1, <1>2, <2>1, <3>1, RecoveredStands DEF TypeInv, HandsInv
  <2>2. CASE ~(d.status = "RUNNING" \/ d.failed # 0)
    <3>1. Lost(d', d) /\ unsaved' = unsaved /\ d.status # "RUNNING"
      BY <1>1, <1>2, <2>2
    <3>. QED BY <3>1, LostStands DEF TypeInv, HandsInv
  <2>. QED BY <2>1, <2>2
<1>. QED BY <1>1, <1>3, RaisedSame DEF HandsAfter

\* No hand is up when the debate begins.
LEMMA InitHands == ASSUME Init PROVE HandsInv
<1>1. d = Start(Announced) /\ Announced \in BOOLEAN /\ raised = {}
  BY DebateAssumption DEF Init, DebateAssumption
<1>2. Begins(d)
  BY <1>1, StartTyped
<1>3. /\ At(d) = d.act /\ d.phase = "COMPETING" /\ d.hands = << >> /\ d.start = NoTime /\ d.failed = 0 /\ d.op = "NONE"
      /\ d.budget = [x \in Sides |-> Total] /\ d.holder = First /\ d.opp # 0 /\ d.round = d.opp /\ d.src = 0
      /\ At(d) \in {"FREE_SELECTING", "HOST_ANNOUNCING"} /\ At(d) \notin Turn
  BY <1>2, Kinds DEF At, Begins
<1>4. ToSet(d.hands) = {}
  BY <1>3 DEF ToSet
<1>5. HandsUp(d, {})
  BY <1>3, <1>4 DEF HandsUp, HandsPaid, HandsOpposite
<1>6. Phased(d) /\ Choosing(d, {})
  BY <1>3, <1>4 DEF Phased, Choosing, Best
<1>7. OnFloor(d, {}) /\ Heard(d, {})
  BY <1>3, Kinds DEF OnFloor, Onwards, Heard
<1>8. Awaiting(d, {}, unsaved) /\ Voiced(d, unsaved, voiced) /\ Unspoken(d)
  BY <1>3, Kinds DEF Awaiting, NewlyChosen, Voiced, Unspoken
<1>. QED BY <1>1, <1>5, <1>6, <1>7, <1>8 DEF HandsInv, Stands

\* Every handler keeps the hands, and chooses among them.
LEMMA NextHands == ASSUME TypeInv, TypeInv', HandsInv, Next PROVE HandsAfter
<1>1. CASE HostFinished \/ AgentTextKnown \/ DecisionsDue \/ Tick \/ Finishes \/ Fire \/ Handle
  <2>1. ASSUME AgentTextKnown PROVE HandsAfter
    BY <2>1, TextKnownHands DEF AgentTextKnown
  <2>. QED BY <1>1, <2>1, HostFinishedHands, TimeHands, FinishesHands, HandleHands
<1>2. ASSUME NEW h \in Humans, HandRaise(h) \/ HandCancel(h) \/ HumanStarts(h) PROVE HandsAfter
  BY <1>2, HandRaiseHands, HandCancelHands, HumanStartsHands
<1>3. ASSUME NEW a \in Agents, AgentStarts(a) \/ \E answer \in {"HAND", "SKIP", "FAILED"} : Decide(a, answer)
      PROVE  HandsAfter
  BY <1>3, AgentStartsHands, DecideHands
<1>4. ASSUME NEW speech, HumanTextKnown(speech) PROVE HandsAfter
  BY <1>4, TextKnownHands DEF HumanTextKnown
<1>5. ASSUME NEW speech, RecognitionFails(speech) \/ HumanFinal(speech) \/ AgentFinal(speech) PROVE HandsAfter
  <2>1. ASSUME HumanFinal(speech) PROVE HandsAfter
    <3>. DEFINE act == "SPEECH_FINALIZING"
    <3>1. /\ d' = IF IsCurrent(speech, act) THEN FinishTurn(d, aired) ELSE d
          /\ HandsKept /\ unsaved' = unsaved \ {speech} /\ voiced' = voiced
      BY <2>1 DEF HumanFinal
    <3>2. act \in Finalizing
      BY DEF Finalizing
    <3>. HIDE DEF act
    <3>. QED BY <3>1, <3>2, FinalHands
  <2>2. ASSUME AgentFinal(speech) PROVE HandsAfter
    <3>. DEFINE act == "AGENT_FINALIZING"
    <3>1. /\ d' = IF IsCurrent(speech, act) THEN FinishTurn(d, aired) ELSE d
          /\ HandsKept /\ unsaved' = unsaved \ {speech} /\ voiced' = voiced
      BY <2>2 DEF AgentFinal
    <3>2. act \in Finalizing
      BY DEF Finalizing
    <3>. HIDE DEF act
    <3>. QED BY <3>1, <3>2, FinalHands
  <2>. QED BY <1>5, <2>1, <2>2, RecognitionFailsHands
<1>6. CASE MatchPause \/ AgentFails \/ RetryRecognition \/ RetrySucceeds \/ RetryFails \/ MatchResume \/ Crash
  BY <1>6, MatchPauseHands, AgentFailsHands, RetryRecognitionHands, RetrySucceedsHands, RetryFailsHands,
     MatchResumeHands, CrashHands
<1>7. ASSUME NEW operator \in BOOLEAN, SpeechReset(operator) PROVE HandsAfter
  BY <1>7, SpeechResetHands
<1>. QED BY <1>1, <1>2, <1>3, <1>4, <1>5, <1>6, <1>7 DEF Next

\* A selection that runs is made among the hands raised for it.
LEMMA HandsFollow == ASSUME TypeInv, HandsInv PROVE HandsStand
<1>1. SUFFICES ASSUME Selecting
               PROVE  /\ ToSet(d.hands) \cap HumansOf(d.holder) = RaisedHere
                      /\ ToSet(d.hands) \subseteq HumansOf(d.holder) \/ Unforfeited
  BY DEF HandsStand
<1>2. At(d) = "FREE_SELECTING" /\ Chooses(d)
  BY <1>1 DEF Selecting, Running, At, Chooses
<1>3. Best(d, raised) /\ ToSet(d.hands) \subseteq raised /\ raised \subseteq Humans
  BY <1>2 DEF HandsInv, Stands, Choosing, HandsUp
<1>4. RaisedHere = raised \cap HumansOf(d.holder)
  BY <1>3 DEF RaisedHere, HumansOf
<1>. QED BY <1>3, <1>4 DEF Best, Unforfeited

\* The hands that stand are an invariant.
THEOREM HandsKeptUp == Spec => [](TypeInv /\ HandsInv)
<1>1. Init => TypeInv /\ HandsInv
  BY InitTyped, InitHands
<1>2. TypeInv /\ HandsInv /\ [Next]_vars => (TypeInv /\ HandsInv)'
  <2>1. ASSUME TypeInv, HandsInv, Next PROVE TypeInv' /\ HandsInv'
    <3>1. TypeInv'
      BY <2>1, NextTyped
    <3>2. HandsAfter
      BY <2>1, <3>1, NextHands
    <3>. QED BY <3>1, <3>2 DEF HandsAfter, HandsInv
  <2>2. ASSUME TypeInv, HandsInv, UNCHANGED vars PROVE TypeInv' /\ HandsInv'
    <3>1. TypeInv'
      BY <2>2, StutterTyped
    <3>2. d' = d /\ raised' = raised /\ unsaved' = unsaved /\ voiced' = voiced
      BY <2>2 DEF vars
    <3>. QED BY <2>2, <3>1, <3>2 DEF HandsInv
  <2>. QED BY <2>1, <2>2
<1>. QED BY <1>1, <1>2, PTL DEF Spec

\* When the choice is made the hands of the holder's side that stand are those raised
\* for it (hands of the other side may stand with a rest that was not forfeit), and an
\* agent is chosen only when no human of its side has a hand up, however late the
\* decisions and the end of the window arrive (_lock_experiment_selection_if_ready).
THEOREM HumansSpeakFirst == Spec => HumansFirst
<1>. DEFINE A == HandsStand' /\ (Chosen /\ d'.act = "AGENT_PREPARING" => RaisedHere = {})
<1>1. TypeInv /\ HandsInv /\ (TypeInv /\ HandsInv)' /\ [Next]_vars => [A]_vars
  <2>1. SUFFICES ASSUME TypeInv, HandsInv, TypeInv', HandsInv', Next PROVE A
    OBVIOUS
  <2>2. HandsStand'
    <3>1. (TypeInv /\ HandsInv => HandsStand)'
      BY HandsFollow, PTL
    <3>. QED BY <2>1, <3>1
  <2>3. AgentsLast(d', d, raised) /\ raised \subseteq Humans
    BY <2>1, NextHands DEF HandsAfter, HandsInv, Stands, HandsUp
  <2>4. RaisedHere = raised \cap HumansOf(d.holder)
    BY <2>3 DEF RaisedHere, HumansOf
  <2>. QED BY <2>2, <2>3, <2>4 DEF AgentsLast, Chosen
<1>. QED BY <1>1, HandsKeptUp, PTL DEF Spec, HumansFirst
=============================================================================
