----------------------------- MODULE FreeDebate -----------------------------
(* The free debate action of a formal match: who may speak next. Every       *)
(* speech opens an opportunity for the next one. Humans raise hands, agents  *)
(* decide in the background, and when the window after the speech closes     *)
(* MatchActor gives the floor: to the first human, or to a willing agent, or *)
(* it waits for a decision (MODEL_WAIT) and then for a human                 *)
(* (HUMAN_ONLY_WAIT). Each side pays for its speeches from a budget.         *)
(* MatchActor handles one command at a time, so an action is one handler;    *)
(* MatchRuntimeState is immutable, so it is the record d and a handler is an *)
(* operator from records to records (to sets of them where a seed decides).  *)
EXTENDS Integers, Sequences, SequencesExt, FiniteSets

CONSTANTS
    Humans, Agents,  \* participants
    NoOne,           \* nobody
    SideOf,          \* the side of a participant
    First,           \* free_starting_side
    Announced,       \* whether the action has host audio
    Total,           \* ticks of a side's budget (duration_seconds)
    MaxTurn,         \* ticks of one speech (free_max_speech_seconds)
    Minimum,         \* FREE_MINIMUM_SPEECH_MS: a smaller rest is forfeit
    Stops,           \* the interruptions that may happen
    MaxOpps,         \* bound: opportunities opened
    MaxStops,        \* bound: interruptions
    MaxFired         \* bound: fired timers waiting in the queue

Sides == {"AFFIRMATIVE", "NEGATIVE"}
NoSide == "none"
NoTime == -1

ASSUME DebateAssumption ==
    /\ SideOf \in [Humans \cup Agents -> Sides]
    /\ Humans \cap Agents = {} /\ NoOne \notin Humans \cup Agents
    /\ First \in Sides /\ Announced \in BOOLEAN
    /\ {Total, MaxTurn, Minimum, MaxOpps} \subseteq Nat \ {0} /\ Minimum <= Total
    /\ Stops \subseteq {"pause", "error", "asr", "crash", "reset"}
    /\ {MaxStops, MaxFired} \subseteq Nat

VARIABLES
    d,          \* MatchRuntimeState, with the actor's timer
    fired,      \* commands of fired timers, in the queue of the actor
    cached,     \* fixed message ids the actor has answered (_idempotency)
    deciding,   \* the opportunity whose decision calls run, or 0
    unsaved,    \* speeches whose row is STARTED or FINALIZING
    voiced,     \* the speeches of agents
    starting,   \* speeches whose final text is about to start the decisions
    stops,      \* interruptions so far
    raised,     \* history: hands standing for the current opportunity
    net, aired, \* history: ticks spoken by each side, and by whoever has the floor
    charged,    \* history: those of them since the charge of the speech began
    waived      \* history: an interruption made the budgets incomparable

vars == <<d, fired, cached, deciding, unsaved, voiced, starting, stops, raised, net, aired, charged, waived>>
history == <<raised, net, aired, charged, waived>>

Speaking == {"HUMAN_SPEAKING", "AGENT_SPEAKING"}
Finalizing == {"SPEECH_FINALIZING", "AGENT_FINALIZING"}
AgentTurn == {"AGENT_PREPARING", "AGENT_SPEAKING", "AGENT_FINALIZING"}
ActionStates == Speaking \cup Finalizing \cup
    {"HOST_ANNOUNCING", "FREE_SELECTING", "HUMAN_READY_TO_START", "AGENT_PREPARING",
     "RECOVERY_REQUIRED", "RESUME_COUNTDOWN", "ACTION_FINISHED"}
Phases == {"none", "COMPETING", "MODEL_WAIT", "HUMAN_ONLY_WAIT", "ALLOCATED"}

Undecided == [a \in Agents |-> "none"]
NoTimer == [cmd |-> "none", id |-> << >>, speech |-> 0, start |-> 0]
Fresh == << >>      \* a message id that is never used again

Other(side) == IF side = "AFFIRMATIVE" THEN "NEGATIVE" ELSE "AFFIRMATIVE"
AgentsOf(side) == {a \in Agents : SideOf[a] = side}
HumansOf(side) == {h \in Humans : SideOf[h] = side}
Smaller(a, b) == IF a < b THEN a ELSE b
\* Mutant: the clamp is forgotten.
NotClamped(n) == n
AtLeastZero(n) == IF n < 0 THEN 0 ELSE n
TurnOf(s, side) == Smaller(MaxTurn, s.budget[side])     \* _free_turn_duration_ms

-----------------------------------------------------------------------------
(* Timers and opportunities *)

Arm(s, cmd, id) ==
    [s EXCEPT !.timer = [cmd |-> cmd, id |-> id,
                         speech |-> IF cmd = "speech.deadline" THEN s.speech ELSE 0,
                         start |-> IF cmd = "speech.deadline" THEN s.begun ELSE 0]]
Cancel(s) == [s EXCEPT !.timer = NoTimer]

\* _open_experiment_opportunity: the speech that begins opens the next one.
OpenOpportunity(s, side, source) ==
    [s EXCEPT !.src = source, !.ended = FALSE, !.due = "none", !.holder = side,
              !.gen = @ + 1, !.opp = s.gen + 1, !.phase = "COMPETING", !.waiting = TRUE,
              !.sel = "none", !.selLeft = FALSE, !.wait = "none", !.hands = << >>,
              !.round = 0, !.dec = Undecided, !.open = TRUE]

\* _start_free_agent_decisions. The decision deadline is never before the end
\* of the window ("tied"), unless the speech before it has not ended.
StartDecisions(s, side, window) ==
    LET gen == IF s.opp = 0 THEN s.gen + 1 ELSE s.gen
        opp == IF s.opp = 0 THEN gen ELSE s.opp
    IN  [s EXCEPT !.gen = gen, !.opp = opp, !.round = opp,
                  !.dec = [a \in Agents |-> IF SideOf[a] = side THEN "DECIDING" ELSE "none"],
                  !.phase = IF @ = "MODEL_WAIT" THEN @ ELSE "COMPETING",
                  !.waiting = FALSE, !.wait = "none",
                  !.ended = window \/ @,
                  !.due = IF window \/ (s.ended /\ s.sel = "open") THEN "tied" ELSE "open",
                  !.sel = IF window THEN "open" ELSE @,
                  !.selLeft = window \/ @]

\* Mutant: the timer of the wait has one message id for the whole action.
EnterModelWaitOnce(s) ==
    Arm([s EXCEPT !.phase = "MODEL_WAIT", !.open = TRUE, !.ended = TRUE,
                  !.due = IF @ = "passed" THEN @ ELSE "open", !.sel = "due", !.selLeft = TRUE],
        "hand.window_closed", <<"model-wait">>)
\* _enter_model_wait: the window stays open until the decisions are due.
EnterModelWait(s) ==
    Arm([s EXCEPT !.phase = "MODEL_WAIT", !.open = TRUE, !.ended = TRUE,
                  !.due = IF @ = "passed" THEN @ ELSE "open", !.sel = "due",
                  !.selLeft = TRUE],
        "hand.window_closed", <<"model-wait", s.opp, s.round>>)

-----------------------------------------------------------------------------
(* Selection *)

\* The hands that are kept, in their order.
Keep(hands, kept) ==
    LET f[i \in 0..Len(hands)] ==
            IF i = 0 THEN << >>
            ELSE IF hands[i] \in kept THEN Append(f[i - 1], hands[i]) ELSE f[i - 1]
    IN  f[Len(hands)]

\* Mutant: the hands raised during a speech are dropped when its turn ends.
HandsLeftNone(hands, side) == << >>
HandsLeft(hands, side) == Keep(hands, HumansOf(side))

\* _select_free_human; what it refuses leaves the match as it was.
SelectHuman(s, h) ==
    IF h \notin HumansOf(s.holder) THEN s
    ELSE Arm([s EXCEPT !.act = "HUMAN_READY_TO_START", !.speech = 0, !.begun = 0,
                       !.start = NoTime, !.used = 0, !.settled = FALSE,
                       !.who = h, !.side = s.holder, !.left = TurnOf(s, s.holder),
                       !.phase = "ALLOCATED", !.wait = "none", !.open = FALSE,
                       !.ready = "open"],
             "human.start_timeout", Fresh)

SelectAgent(s, a) ==
    [s EXCEPT !.act = "AGENT_PREPARING", !.who = a, !.side = s.holder,
              !.left = TurnOf(s, s.holder), !.phase = "ALLOCATED", !.waiting = FALSE]

WaitForHuman(s) ==
    Arm([s EXCEPT !.act = "FREE_SELECTING", !.phase = "HUMAN_ONLY_WAIT", !.waiting = FALSE,
                  !.open = TRUE, !.wait = "open"],
        "human.wait_timeout", <<"human-wait", s.opp, s.gen>>)

Willing(s) == {a \in Agents : s.dec[a] = "HAND"}
\* A side of agents only, all of which passed: one of them must speak.
AllPassed(s) ==
    {a \in Agents : /\ HumansOf(s.holder) = {} /\ s.dec[a] = "SKIP"
                    /\ \A b \in Agents : s.dec[b] \in {"none", "SKIP"}}

\* _lock_experiment_selection_if_ready; the seed chooses among the agents.
Lock(s) ==
    LET t == [s EXCEPT !.hands = IF s.budget[s.holder] > 0 THEN HandsLeft(@, s.holder) ELSE << >>]
    IN  IF s.phase = "HUMAN_ONLY_WAIT" \/ s.open THEN {s}
        ELSE IF t.hands # << >> THEN {SelectHuman(t, Head(t.hands))}
        ELSE IF Willing(t) # {} THEN {SelectAgent(t, a) : a \in Willing(t)}
        ELSE IF AllPassed(t) # {} THEN {SelectAgent(t, a) : a \in AllPassed(t)}
        ELSE {WaitForHuman(t)}

-----------------------------------------------------------------------------
(* Speeches and budgets *)

\* Mutant: a speech that was settled is settled again.
OwesAlways(s) == s.start # NoTime /\ s.side # NoSide
Owes(s) == s.start # NoTime /\ s.side # NoSide /\ ~s.settled

\* _freeze_speech_budget: the speech pays for the time it took, once.
Freeze(s, terminal, limit) ==
    IF ~Owes(s) THEN s
    ELSE LET rest == IF s.clock = NoTime THEN AtLeastZero(s.left)
                     ELSE IF limit THEN 0 ELSE Smaller(AtLeastZero(s.left), s.clock)
             consumed == s.used + (IF s.clock = NoTime THEN 0 ELSE s.left - rest)
         IN  [s EXCEPT !.left = rest, !.clock = NoTime, !.used = consumed,
                       !.settled = terminal,
                       !.budget[s.side] = AtLeastZero(s.start - consumed)]

NoSpeech(s) == [s EXCEPT !.start = NoTime, !.used = 0, !.settled = FALSE, !.speech = 0,
                         !.who = NoOne, !.side = NoSide, !.left = NoTime, !.clock = NoTime]

\* What the end of a turn still charges: its audio, if no one settled it.
Charge(s, audio) == IF s.settled THEN 0 ELSE IF audio > 0 THEN audio ELSE AtLeastZero(s.left)
\* A rest too small to speak is forfeit.
Usable(ticks) == IF ticks < Minimum THEN 0 ELSE ticks

\* _finish_free_turn: charge what is not settled, and either end the action or leave the next selection to its window.
FinishTurn(s, audio) ==
    LET mine == Usable(AtLeastZero(s.budget[s.side] - Charge(s, audio)))
        next == Other(s.side)
        theirs == Usable(s.budget[next])
        paid == [NoSpeech(s) EXCEPT !.budget = [x \in Sides |-> IF x = s.side THEN mine ELSE theirs]]
    IN  IF mine = 0 /\ theirs = 0
        THEN [Cancel(paid) EXCEPT !.act = "ACTION_FINISHED", !.open = FALSE, !.hands = << >>,
                  !.round = 0, !.dec = Undecided, !.opp = 0, !.phase = "none",
                  !.waiting = FALSE, !.sel = "none", !.selLeft = FALSE, !.wait = "none"]
        ELSE LET holder == IF theirs > 0 THEN next ELSE s.side
             IN  Arm([paid EXCEPT !.act = "FREE_SELECTING", !.holder = holder, !.open = TRUE,
                         !.hands = HandsLeft(s.hands, holder), !.sel = IF @ = "none" THEN "open" ELSE @,
                         !.selLeft = TRUE],
                     "hand.window_closed", Fresh)

\* _finish_speech, _finish_agent_speech: the window for the next speech starts.
FinishSpeech(s, limit) ==
    LET f == [Cancel(Freeze(s, TRUE, limit)) EXCEPT
                 !.act = IF s.act = "AGENT_SPEAKING" THEN "AGENT_FINALIZING" ELSE "SPEECH_FINALIZING",
                 !.begun = 0, !.clock = NoTime]
    IN  IF f.opp = 0 THEN f
        ELSE Arm([f EXCEPT !.sel = "open", !.ended = TRUE, !.due = "tied", !.selLeft = TRUE],
                 "hand.window_closed", <<"speech-end", f.speech>>)

\* The next speech is the other side's, unless it has too little time left.
NextHolder(s) == IF s.budget[Other(s.side)] >= Minimum THEN Other(s.side) ELSE s.side

\* Mutant: a speech that goes on has a whole turn again.
TurnLeftAnew(s) == TurnOf(s, s.side)
TurnLeft(s) == IF s.left = NoTime THEN Total ELSE s.left

\* _speech_start, _agent_playback_started after their checks; speech is the
\* identity of the speech, again the charge it continues.
StartSpeech(s, act, speech, again) ==
    LET left == TurnLeft(s)
        t == Arm([s EXCEPT !.act = act, !.issued = @ + 1, !.begun = s.issued + 1, !.speech = speech,
                     !.start = IF again THEN @ ELSE s.budget[s.side],
                     !.used = IF again THEN @ ELSE 0, !.settled = FALSE,
                     !.clock = left, !.left = left, !.ready = IF act = "HUMAN_SPEAKING" THEN "none" ELSE @,
                     !.hands = IF s.open THEN @ ELSE << >>,
                     !.round = 0, !.dec = Undecided, !.open = TRUE],
                 "speech.deadline", Fresh)
    IN  IF left = 0 /\ act = "HUMAN_SPEAKING" THEN FinishSpeech(t, TRUE)
        ELSE OpenOpportunity(t, NextHolder(t), speech)

-----------------------------------------------------------------------------
(* The window closes *)

\* Mutant: an agent that is willing does not wait for the humans.
CloseSelectionEager(s) ==
    IF Willing(s) # {} THEN {SelectAgent([s EXCEPT !.open = FALSE], a) : a \in Willing(s)}
    ELSE {EnterModelWait(s)}
CloseSelection(s) ==
    LET undecided == \E a \in Agents : s.dec[a] = "DECIDING"
        pending == undecided \/ (s.dec = Undecided /\ s.waiting)
    IN  IF s.hands # << >> THEN {SelectHuman(s, Head(s.hands))}
        ELSE IF pending /\ s.due # "passed" THEN {EnterModelWait(s)}
        ELSE Lock([s EXCEPT !.open = FALSE, !.sel = "none", !.selLeft = TRUE,
                            !.waiting = @ /\ ~pending,
                            !.dec = [a \in Agents |-> IF @[a] = "DECIDING" THEN "FAILED" ELSE @[a]]])

\* _hand_window_closed. A final text that is late does not hold up the debate.
WindowClosed(s) ==
    IF ~s.open \/ s.act \notin Finalizing \cup {"FREE_SELECTING"} THEN {s}
    ELSE IF s.act = "FREE_SELECTING" THEN CloseSelection(s)
    ELSE IF \A side \in Sides : s.budget[side] < Minimum
         THEN {[s EXCEPT !.open = FALSE, !.hands = << >>, !.sel = "none", !.selLeft = TRUE]}
    ELSE LET released == FinishTurn(s, 0)
         IN  IF released.act = "FREE_SELECTING" THEN CloseSelection(released) ELSE {released}

\* _free_agent_decision_result
DecisionResult(s, a, opp, answer) ==
    IF \/ s.act \notin {"FREE_SELECTING"} /\ ~(/\ s.phase \in {"COMPETING", "MODEL_WAIT"}
                                                /\ s.act \in Speaking \cup Finalizing \cup
                                                             {"HOST_ANNOUNCING", "AGENT_PREPARING"})
       \/ s.due = "passed" \/ s.round # opp \/ s.dec[a] # "DECIDING"
    THEN {s}
    ELSE LET t == [s EXCEPT !.dec[a] = answer, !.waiting = FALSE]
             decided == \A b \in Agents : t.dec[b] # "DECIDING"
         IN  Lock([t EXCEPT !.open = @ /\ ~(s.phase = "MODEL_WAIT" /\ decided)])

\* _free_agent_decision_start
DecisionStart(s, opp) ==
    IF s.phase \notin {"COMPETING", "MODEL_WAIT"} \/ s.opp # opp \/ s.round # 0 THEN s
    ELSE LET t == StartDecisions(s, s.holder, FALSE)
         IN  IF t.phase = "MODEL_WAIT" THEN EnterModelWait(t) ELSE t

-----------------------------------------------------------------------------
(* Interruptions *)

Dropped(s) == [s EXCEPT !.opp = 0, !.phase = "none", !.waiting = FALSE, !.hands = << >>,
                        !.round = 0, !.dec = Undecided, !.open = FALSE]

\* _match_pause of a running match: the opportunity that a speech had opened
\* for the next one ends with the interrupted speech.
Pause(s) ==
    LET f == IF s.opp # 0 /\ s.act \in Speaking THEN Dropped(Freeze(s, FALSE, FALSE))
             ELSE Freeze(s, FALSE, FALSE)
    IN  [Cancel(f) EXCEPT !.status = "PAUSED", !.act = "RECOVERY_REQUIRED", !.from = s.act,
             !.clock = NoTime, !.ready = "none", !.sel = "none",
             !.selLeft = @ \/ s.sel # "none", !.wait = "none"]

\* _human_wait_timeout, _human_start_timeout
TimedOut(s) ==
    [Cancel(s) EXCEPT !.status = "PAUSED", !.act = "RECOVERY_REQUIRED", !.from = s.act,
         !.ready = "none", !.open = @ /\ s.act # "FREE_SELECTING", !.wait = "none"]

\* _system_error from a failed agent: its speech is not settled.
AgentError(s) ==
    [Cancel(s) EXCEPT !.status = "ERROR", !.act = "RECOVERY_REQUIRED", !.from = "AGENT_PREPARING",
         !.left = IF s.clock = NoTime THEN @ ELSE Smaller(@, s.clock), !.clock = NoTime, !.ready = "none"]

\* _asr_failed. The selection deadline is kept by _system_error, not here.
AsrFailed(s, speech) ==
    LET f == Freeze(s, FALSE, FALSE)
        retrying == s.op = "PENDING"
    IN  [Cancel(f) EXCEPT !.status = "ERROR", !.act = "RECOVERY_REQUIRED", !.failed = speech,
             !.from = IF retrying /\ @ # "none" THEN @ ELSE s.act,
             !.op = IF retrying THEN "FAILED" ELSE @,
             !.clock = NoTime, !.ready = "none", !.sel = "none", !.wait = "none", !.open = FALSE]

\* _paused_recovery
PausedRecovery(s, from) ==
    [Cancel(s) EXCEPT !.status = "PAUSED", !.act = "RECOVERY_REQUIRED", !.from = from,
         !.clock = NoTime, !.ready = "none", !.sel = "none", !.wait = "none", !.speech = 0,
         !.begun = 0, !.open = FALSE, !.hands = << >>, !.round = 0, !.dec = Undecided]

\* _asr_finalized of a retried recognition.
AsrRetried(s, audio) ==
    LET done == [s EXCEPT !.failed = 0, !.op = "SUCCEEDED"]
        turn == FinishTurn([done EXCEPT !.status = "RUNNING", !.act = "SPEECH_FINALIZING"], audio)
    IN  IF s.speech # s.failed
        THEN [done EXCEPT !.status = "PAUSED", !.act = "RECOVERY_REQUIRED"]
        ELSE IF turn.act = "ACTION_FINISHED" THEN turn ELSE PausedRecovery(turn, turn.act)

\* _speech_reset by a speaker or an operator: the speech is given back.
Reset(s, operator) ==
    LET agent == s.who \in Agents
        whole == IF s.start = NoTime THEN s.budget[s.side] ELSE s.start
        back == IF agent THEN "AGENT_PREPARING" ELSE "HUMAN_READY_TO_START"
        cleared == [Cancel(IF s.opp # 0 THEN Dropped(s) ELSE s) EXCEPT
                       !.status = "RUNNING", !.act = back, !.speech = 0, !.begun = 0,
                       !.budget[s.side] = whole, !.start = NoTime, !.used = 0, !.settled = FALSE,
                       !.gen = @ + 1, !.clock = NoTime, !.left = Smaller(MaxTurn, whole),
                       !.sel = "none", !.selLeft = FALSE, !.wait = "none", !.ready = "none"]
    IN  IF operator THEN PausedRecovery([cleared EXCEPT !.failed = 0, !.op = "RESET"], back)
        ELSE IF agent THEN cleared
        ELSE Arm([cleared EXCEPT !.ready = "open"], "human.start_timeout", Fresh)

\* _system_recover after a restart of the process. Nothing is settled, and the
\* speech begins again with the duration of the whole action.
Recover(s) ==
    LET selecting == s.act = "FREE_SELECTING"
    IN  IF s.failed # 0
        THEN [Cancel(s) EXCEPT !.status = "ERROR", !.act = "RECOVERY_REQUIRED", !.open = FALSE,
                  !.op = IF @ = "PENDING" THEN "FAILED" ELSE @]
        ELSE [Cancel(s) EXCEPT !.status = "SYSTEM_RECOVERY", !.act = "RECOVERY_REQUIRED",
                  !.speech = 0, !.begun = 0,
                  !.who = IF selecting THEN NoOne ELSE @, !.side = IF selecting THEN NoSide ELSE @,
                  !.left = IF selecting THEN NoTime ELSE Total,
                  !.from = IF s.act \in {"FREE_SELECTING", "HOST_ANNOUNCING"} THEN s.act
                           ELSE IF s.who \in Agents THEN "AGENT_PREPARING" ELSE "HUMAN_READY_TO_START"]

\* _resume_elapsed for the action that was interrupted. A speech that ended
\* goes on with its window; one that did not starts again.
RecoveryRound(s) ==
    LET o == IF s.src # 0 THEN OpenOpportunity(s, s.holder, s.src) ELSE [s EXCEPT !.opp = 0]
        t == StartDecisions(o, s.holder, TRUE)
    IN  Arm(t, "hand.window_closed", <<"recovery-round", t.opp>>)

ResumedSelection(s) ==
    IF s.opp = 0 \/ s.op = "SUCCEEDED" THEN RecoveryRound(s)
    ELSE IF s.phase = "HUMAN_ONLY_WAIT"
    THEN Arm([s EXCEPT !.open = TRUE, !.waiting = FALSE, !.wait = "open"],
             "human.wait_timeout", <<"human-wait-resumed", s.opp>>)
    ELSE Arm([s EXCEPT !.open = TRUE, !.phase = "COMPETING", !.sel = "open",
                       !.due = IF @ = "tied" THEN "open" ELSE @],
             "hand.window_closed", <<"free-window-resumed", s.opp>>)

Resumed(s) ==
    LET selecting == s.from = "FREE_SELECTING" \/ (s.from \in Finalizing /\ s.selLeft)
        t == [s EXCEPT !.status = "RUNNING", !.from = "none", !.clock = NoTime, !.ready = "none"]
    IN  CASE selecting -> ResumedSelection([t EXCEPT !.act = "FREE_SELECTING"])
          [] ~selecting /\ s.from \in {"HUMAN_READY_TO_START", "HUMAN_SPEAKING", "SPEECH_FINALIZING"} ->
               Arm([t EXCEPT !.act = "HUMAN_READY_TO_START", !.ready = "open"],
                   "human.start_timeout", Fresh)
          [] ~selecting /\ s.from \in {"AGENT_SPEAKING", "AGENT_FINALIZING"} ->
               [Dropped(t) EXCEPT !.act = "AGENT_PREPARING", !.speech = 0,
                                  !.sel = "none", !.wait = "none"]
          [] s.from \in {"AGENT_PREPARING", "HOST_ANNOUNCING"} -> [t EXCEPT !.act = s.from]

-----------------------------------------------------------------------------
(* Actions *)

Running == d.status = "RUNNING"

\* The hands that stand belong to the current opportunity, the time spoken to the current choice.
Chosen == d'.phase = "ALLOCATED" /\ d.phase # "ALLOCATED"
HandsKept ==
    /\ raised' = IF d'.opp = d.opp THEN raised ELSE {}
    /\ aired' = IF Chosen THEN 0 ELSE aired
    /\ charged' = IF Chosen THEN 0 ELSE charged
\* Interruptions stop the decision calls (_reset_interrupted_agent).
CallsStopped == deciding' = 0
Interrupts(kind) == kind \in Stops /\ stops < MaxStops /\ stops' = stops + 1

Start(host) ==
    LET s == [status |-> "RUNNING", act |-> "FREE_SELECTING", from |-> "none", who |-> NoOne,
              side |-> NoSide, speech |-> 0, issued |-> 0, begun |-> 0, left |-> NoTime,
              clock |-> NoTime, start |-> NoTime, used |-> 0, settled |-> FALSE,
              budget |-> [side \in Sides |-> Total], holder |-> First, opp |-> 0, gen |-> 0,
              phase |-> "none", waiting |-> FALSE, hands |-> << >>, open |-> TRUE,
              round |-> 0, dec |-> Undecided, sel |-> "none", selLeft |-> FALSE, due |-> "none",
              ended |-> FALSE, src |-> 0, wait |-> "none", ready |-> "none", failed |-> 0,
              op |-> "NONE", timer |-> NoTimer]
    IN  IF host THEN [StartDecisions(s, First, FALSE) EXCEPT !.act = "HOST_ANNOUNCING"]
        ELSE Arm(StartDecisions(s, First, TRUE), "hand.window_closed", <<"free-initial">>)

Init ==
    /\ d = Start(Announced)
    /\ fired = << >> /\ cached = {} /\ unsaved = {} /\ voiced = {} /\ starting = {} /\ stops = 0
    /\ deciding = IF AgentsOf(First) = {} THEN 0 ELSE d.round
    /\ raised = {} /\ net = [side \in Sides |-> 0] /\ aired = 0 /\ charged = 0 /\ waived = FALSE

\* host.finished: the initial decisions, made while the host spoke, stand.
HostFinished ==
    /\ Running /\ d.act = "HOST_ANNOUNCING"
    /\ LET s == [d EXCEPT !.act = "FREE_SELECTING", !.open = TRUE]
       IN  d' = Arm(IF d.opp # 0 /\ d.round # 0 THEN [s EXCEPT !.sel = "open", !.selLeft = TRUE]
                    ELSE StartDecisions([s EXCEPT !.hands = << >>], First, TRUE),
                    "hand.window_closed", <<"free-initial">>)
    /\ HandsKept
    /\ UNCHANGED <<fired, cached, deciding, unsaved, voiced, starting, stops, net, waived>>

HandRaise(h) ==
    /\ Running /\ d.open
    /\ d.phase = "HUMAN_ONLY_WAIT" \/ d.sel # "passed"
    /\ SideOf[h] = IF d.act \in {"FREE_SELECTING", "HOST_ANNOUNCING"} THEN d.holder ELSE Other(d.side)
    /\ d.budget[SideOf[h]] > 0
    /\ ~Contains(d.hands, h)
    /\ LET s == [d EXCEPT !.hands = Append(@, h)]
       IN  d' = IF d.phase \in {"HUMAN_ONLY_WAIT", "MODEL_WAIT"} THEN SelectHuman(s, h) ELSE s
    /\ raised' = raised \cup {h}
    /\ aired' = (IF Chosen THEN 0 ELSE aired) /\ charged' = (IF Chosen THEN 0 ELSE charged)
    /\ UNCHANGED <<fired, cached, deciding, unsaved, voiced, starting, stops, net, waived>>

HandCancel(h) ==
    /\ Running /\ d.open /\ Contains(d.hands, h)
    /\ d' = [d EXCEPT !.hands = Keep(@, Humans \ {h})]
    /\ raised' = raised \ {h}
    /\ UNCHANGED <<fired, cached, deciding, unsaved, voiced, starting, stops, net, aired, charged, waived>>

\* The text of the speech before is known: the decisions of its opportunity
\* start (_start_current_experiment_decision).
BeginDecisions(speech) ==
    LET id == <<"decide", d.opp, d.gen>>
        begins == Running /\ d.opp # 0 /\ d.src = speech /\ d.round = 0 /\ id \notin cached
                  /\ d.phase \in {"COMPETING", "MODEL_WAIT"}
    IN  /\ d' = IF begins THEN DecisionStart(d, d.opp) ELSE d
        /\ cached' = IF begins THEN cached \cup {id} ELSE cached
        /\ deciding' = IF begins /\ AgentsOf(d.holder) # {} THEN d.opp ELSE deciding
        /\ UNCHANGED <<fired, unsaved, voiced, stops, history>>

HumanTextKnown(speech) ==
    /\ speech \in starting /\ starting' = starting \ {speech}
    /\ BeginDecisions(speech)

\* agent_text_generated: known while the agent still speaks.
AgentTextKnown ==
    /\ Running /\ d.act \in {"AGENT_SPEAKING", "AGENT_FINALIZING"} /\ d.speech \in unsaved
    /\ d.round = 0 /\ d.opp # 0
    /\ BeginDecisions(d.speech)
    /\ UNCHANGED starting

\* report_free_decision: an answer, or FAILED after two attempts.
Decide(a, answer) ==
    /\ Running /\ deciding # 0 /\ d.round = deciding /\ d.dec[a] = "DECIDING"
    /\ d' \in DecisionResult(d, a, deciding, answer)
    /\ HandsKept
    /\ UNCHANGED <<fired, cached, deciding, unsaved, voiced, starting, stops, net, waived>>

\* The decision deadline passes; tied to the window, never before it.
DecisionsDue ==
    /\ d.due = "open" \/ (d.due = "tied" /\ d.sel # "open")
    /\ d.sel # "due"
    /\ d' = [d EXCEPT !.due = "passed"]
    /\ UNCHANGED <<fired, cached, deciding, unsaved, voiced, starting, stops, history>>

\* Time passes for the speaker.
Tick ==
    /\ Running /\ d.act \in Speaking /\ d.clock > 0
    /\ d' = [d EXCEPT !.clock = @ - 1]
    /\ net' = [net EXCEPT ![d.side] = @ + 1] /\ aired' = aired + 1 /\ charged' = charged + 1
    /\ UNCHANGED <<fired, cached, deciding, unsaved, voiced, starting, stops, raised, waived>>

\* The speech before must be saved: the context of the next speaker holds it.
SourceSaved == d.src \notin unsaved
MayTake(state) == Running /\ d.act = state /\ SourceSaved /\ d.gen < MaxOpps
Takes ==
    /\ raised' = IF d'.opp = d.opp THEN raised ELSE {}
    /\ UNCHANGED <<fired, cached, deciding, starting, stops, net, aired, waived>>

\* _speech_start, with the check of _pre_commit. A speech that was paused goes
\* on under its own identity; its text is what the check then waits for.
HumanStarts(h) ==
    LET again == d.speech # 0
        speech == IF again THEN d.speech ELSE d.issued + 1
    IN  /\ MayTake("HUMAN_READY_TO_START") /\ d.who = h
        /\ d' = StartSpeech(d, "HUMAN_SPEAKING", speech, again)
        /\ unsaved' = unsaved \cup {speech} /\ Takes /\ UNCHANGED <<voiced, charged>>

\* _start_agent_after_source_finalized, then agent.playback_started.
AgentStarts(a) ==
    LET speech == d.issued + 1
    IN  /\ MayTake("AGENT_PREPARING") /\ d.who = a
        /\ d' = StartSpeech(d, "AGENT_SPEAKING", speech, FALSE)
        /\ unsaved' = unsaved \cup {speech} /\ voiced' = voiced \cup {speech}
        /\ charged' = 0 /\ Takes

\* speech.finish of the speaker, agent.playback_finished
Finishes ==
    /\ Running /\ d.act \in Speaking
    /\ d' = FinishSpeech(d, FALSE)
    /\ UNCHANGED <<fired, cached, deciding, unsaved, voiced, starting, stops, history>>

IsCurrent(speech, act) == Running /\ d.act = act /\ d.speech = speech
\* The speech has ended, which settles its charge, and its recognition or
\* generation has not failed.
HasEnded(speech) == speech \in unsaved /\ speech # d.failed /\ (speech = d.speech => d.settled)

\* finalize_asr_speech: the recognised text ends the turn, or it is late and
\* is only saved; either way the decisions that wait for it may start.
HumanFinal(speech) ==
    /\ HasEnded(speech) /\ speech \notin voiced
    /\ d' = IF IsCurrent(speech, "SPEECH_FINALIZING") THEN FinishTurn(d, aired) ELSE d
    /\ unsaved' = unsaved \ {speech} /\ starting' = starting \cup {speech}
    /\ HandsKept
    /\ UNCHANGED <<fired, cached, deciding, voiced, stops, net, waived>>

\* finalize_agent_speech
AgentFinal(speech) ==
    /\ HasEnded(speech) /\ speech \in voiced
    /\ d' = IF IsCurrent(speech, "AGENT_FINALIZING") THEN FinishTurn(d, aired) ELSE d
    /\ unsaved' = unsaved \ {speech}
    /\ HandsKept
    /\ UNCHANGED <<fired, cached, deciding, voiced, starting, stops, net, waived>>

\* submit_after_delay: a timer fires when its time has come.
Fire ==
    /\ d.timer.cmd # "none" /\ Len(fired) < MaxFired
    /\ d.timer.cmd = "speech.deadline" => d.clock = 0
    /\ fired' = Append(fired, d.timer)
    /\ d' = CASE d.timer.cmd = "hand.window_closed" ->
                   [Cancel(d) EXCEPT !.due = IF d.sel = "due" THEN "passed" ELSE @,
                                     !.sel = IF @ = "none" THEN @ ELSE "passed"]
              [] d.timer.cmd = "human.wait_timeout" ->
                   [Cancel(d) EXCEPT !.wait = IF @ = "none" THEN @ ELSE "passed"]
              [] d.timer.cmd = "human.start_timeout" ->
                   [Cancel(d) EXCEPT !.ready = IF @ = "none" THEN @ ELSE "passed"]
              [] OTHER -> Cancel(d)
    /\ UNCHANGED <<cached, deciding, unsaved, voiced, starting, stops, history>>

\* What the command of a fired timer does.
Answer(s, entry) ==
    CASE entry.cmd = "hand.window_closed" -> WindowClosed(s)
      [] entry.cmd = "human.wait_timeout" ->
           IF s.act # "FREE_SELECTING" \/ s.phase # "HUMAN_ONLY_WAIT" \/ s.wait = "none" THEN {s}
           ELSE IF s.wait = "open"
           THEN {Arm(s, "human.wait_timeout", <<"human-wait-recheck", s.opp>>)}
           ELSE {TimedOut(s)}
      [] entry.cmd = "human.start_timeout" ->
           IF s.act # "HUMAN_READY_TO_START" \/ s.ready = "none" THEN {s}
           ELSE IF s.ready = "open" THEN {Arm(s, "human.start_timeout", Fresh)}
           ELSE {TimedOut(s)}
      [] entry.cmd = "speech.deadline" ->
           IF s.act \notin Speaking
              \/ (s.begun # 0 /\ (entry.speech # s.speech \/ entry.start # s.begun))
           THEN {s} ELSE {FinishSpeech(s, TRUE)}
      [] entry.cmd = "resume.elapsed" ->
           IF s.status = "PAUSED" /\ s.act = "RESUME_COUNTDOWN" THEN {Resumed(s)} ELSE {s}

\* The first hand is not of the side that chooses: _select_free_human refuses it.
WindowRefused(s) ==
    s.open /\ s.act = "FREE_SELECTING" /\ s.hands # << >> /\ SideOf[Head(s.hands)] # s.holder

\* A repeated message id is answered from the cache; a stopped match refuses
\* everything but the end of its resume countdown. What is refused is not cached.
Handle ==
    /\ fired # << >> /\ fired' = Tail(fired)
    /\ LET entry == Head(fired)
           known == entry.id \in cached
           refused == \/ d.status # "RUNNING" /\ entry.cmd # "resume.elapsed"
                      \/ entry.cmd = "hand.window_closed" /\ WindowRefused(d)
       IN  /\ d.gen < MaxOpps
           /\ d' \in IF known \/ refused THEN {d} ELSE Answer(d, entry)
           /\ cached' = IF entry.id = Fresh \/ refused THEN cached ELSE cached \cup {entry.id}
           /\ deciding' = IF d'.status # "RUNNING" THEN 0
                          ELSE IF d'.round \notin {d.round, 0} THEN d'.round ELSE deciding
    /\ HandsKept
    /\ UNCHANGED <<unsaved, voiced, starting, stops, net, waived>>

-----------------------------------------------------------------------------
(* Interruptions and recovery *)

MatchPause ==
    /\ Interrupts("pause") /\ Running /\ d.act # "ACTION_FINISHED"
    /\ d' = Pause(d)
    /\ unsaved' = IF d.act \in {"AGENT_SPEAKING", "AGENT_FINALIZING"} THEN unsaved \ {d.speech} ELSE unsaved
    /\ HandsKept /\ CallsStopped
    /\ UNCHANGED <<fired, cached, voiced, starting, net, waived>>

\* handle_agent_failure; also when the speech before is not saved in time.
AgentFails ==
    /\ Interrupts("error") /\ Running /\ d.act \in AgentTurn
    /\ d' = AgentError(d) /\ waived' = TRUE
    /\ HandsKept /\ CallsStopped
    /\ UNCHANGED <<fired, cached, unsaved, voiced, starting, net>>

\* handle_asr_failure of the current speech or of the one before it.
RecognitionFails(speech) ==
    /\ Interrupts("asr") /\ Running /\ speech \in unsaved \ voiced
    /\ \/ d.speech = speech /\ d.act \in {"HUMAN_SPEAKING", "SPEECH_FINALIZING"}
       \/ d.src = speech /\ d.speech # speech
    /\ d' = AsrFailed(d, speech)
    /\ unsaved' = unsaved \ {speech}
    /\ waived' = (waived \/ d.act = "HUMAN_SPEAKING")
    /\ HandsKept /\ CallsStopped
    /\ UNCHANGED <<fired, cached, voiced, starting, net>>

\* asr.retry.begin, and what comes of it.
RetryRecognition ==
    /\ d.failed # 0 /\ d.status = "ERROR" /\ d.op # "PENDING"
    /\ d' = [d EXCEPT !.op = "PENDING"] /\ unsaved' = unsaved \cup {d.failed}
    /\ UNCHANGED <<fired, cached, deciding, voiced, starting, stops, history>>

RetrySucceeds ==
    /\ d.op = "PENDING" /\ d' = AsrRetried(d, aired)
    /\ unsaved' = unsaved \ {d.failed} /\ starting' = starting \cup {d.failed}
    /\ HandsKept /\ CallsStopped
    /\ UNCHANGED <<fired, cached, voiced, stops, net, waived>>

RetryFails ==
    /\ d.op = "PENDING" /\ d' = AsrFailed(d, d.failed) /\ unsaved' = unsaved \ {d.failed}
    /\ HandsKept /\ CallsStopped
    /\ UNCHANGED <<fired, cached, voiced, starting, stops, net, waived>>

\* The charge is of a turn that was never finished, not of the agent chosen since.
StaleCharge == d.settled /\ "AGENT_PREPARING" \in {d.act, d.from}
SpeechReset(operator) ==
    /\ Interrupts("reset") /\ d.op # "PENDING" /\ (Running \/ operator)
    /\ (IF Running THEN d.act ELSE d.from) \in AgentTurn \cup {"HUMAN_SPEAKING", "SPEECH_FINALIZING"} \cup
           (IF operator THEN {"HUMAN_READY_TO_START"} ELSE {})
    /\ (SourceSaved \/ d.src = d.speech) /\ d.gen < MaxOpps
    /\ d' = Reset(d, operator)
    /\ unsaved' = unsaved \ {d.speech}
    /\ net' = [net EXCEPT ![d.side] = @ - charged]
    /\ raised' = IF operator \/ d'.opp # d.opp THEN {} ELSE raised
    /\ aired' = 0 /\ charged' = 0 /\ CallsStopped
    /\ waived' = (waived \/ StaleCharge)
    /\ UNCHANGED <<fired, cached, voiced, starting>>

MatchResume ==
    /\ d.status \in {"PAUSED", "SYSTEM_RECOVERY", "ERROR"} /\ d.failed = 0 /\ d.op # "PENDING"
    /\ d.timer.cmd = "none" /\ fired = << >>
    /\ d' = Arm([d EXCEPT !.status = "PAUSED", !.act = "RESUME_COUNTDOWN"], "resume.elapsed", Fresh)
    /\ UNCHANGED <<fired, cached, deciding, unsaved, voiced, starting, stops, history>>

\* The process ends; deadlines and the memory of answered messages are lost.
Crash ==
    /\ Interrupts("crash") /\ d.act # "ACTION_FINISHED"
    /\ LET s == [Cancel(d) EXCEPT !.sel = "none", !.due = "none", !.ended = FALSE, !.wait = "none",
                                  !.ready = "none", !.clock = NoTime]
       IN  d' = IF Running \/ d.failed # 0 THEN Recover(s) ELSE s
    /\ fired' = << >> /\ cached' = {} /\ starting' = {}
    /\ unsaved' = IF Running THEN unsaved \ {d.speech} ELSE unsaved
    /\ waived' = TRUE
    /\ HandsKept /\ CallsStopped
    /\ UNCHANGED <<voiced, net>>

Next ==
    \/ HostFinished \/ AgentTextKnown \/ DecisionsDue \/ Tick \/ Finishes \/ Fire \/ Handle
    \/ \E h \in Humans : HandRaise(h) \/ HandCancel(h) \/ HumanStarts(h)
    \/ \E a \in Agents : AgentStarts(a) \/ \E answer \in {"HAND", "SKIP", "FAILED"} : Decide(a, answer)
    \/ \E speech \in unsaved \cup starting : HumanTextKnown(speech) \/ RecognitionFails(speech)
    \/ \E speech \in unsaved : HumanFinal(speech) \/ AgentFinal(speech)
    \/ MatchPause \/ AgentFails \/ RetryRecognition \/ RetrySucceeds \/ RetryFails
    \/ \E operator \in BOOLEAN : SpeechReset(operator)
    \/ MatchResume \/ Crash

Spec == Init /\ [][Next]_vars

-----------------------------------------------------------------------------
(* Properties *)

Ticks == -1..Total
Waits == {"none", "open", "passed"}

\* The record of the actor and the memory around it have their types.
TypeOK ==
    /\ d.status \in {"RUNNING", "PAUSED", "ERROR", "SYSTEM_RECOVERY"}
    /\ d.act \in ActionStates /\ d.from \in ActionStates \cup {"none"} /\ d.phase \in Phases
    /\ d.who \in Humans \cup Agents \cup {NoOne} /\ d.side \in Sides \cup {NoSide} /\ d.holder \in Sides
    /\ {d.speech, d.issued, d.begun, d.src, d.failed} \subseteq Nat
    /\ {d.left, d.clock, d.start} \subseteq Ticks /\ d.used \in 0..Total
    /\ d.budget \in [Sides -> 0..Total] /\ d.opp <= d.gen
    /\ ToSet(d.hands) \subseteq Humans
    /\ d.dec \in [Agents -> {"none", "DECIDING", "HAND", "SKIP", "FAILED"}]
    /\ d.sel \in Waits \cup {"due"} /\ d.wait \in Waits /\ d.ready \in Waits
    /\ d.due \in Waits \cup {"tied"} /\ d.op \in {"NONE", "PENDING", "SUCCEEDED", "FAILED", "RESET"}
    /\ Len(fired) <= MaxFired /\ unsaved \cup voiced \cup starting \subseteq Nat

\* Nobody speaks longer than one speech may take, pauses included, and the
\* budget of a side is never overdrawn (_match_pause, _free_turn_duration_ms).
TurnBounded == aired <= MaxTurn /\ \A side \in Sides : net[side] <= Total

\* A side has spent what its speakers spoke, whatever was paused, reset,
\* finalized late or recognised again; a rest too small to speak is forfeit
\* (_freeze_speech_budget, _finish_free_turn, _speech_reset). Nothing is said
\* after a failed agent, a recognition that failed while a human spoke, a reset
\* of a StaleCharge or a restart.
BudgetAccounts ==
    ~waived =>
        /\ TurnBounded
        /\ d.clock = NoTime =>
            \A side \in Sides :
                LET rest == AtLeastZero(Total - net[side])
                IN  d.budget[side] = rest \/ (d.budget[side] = 0 /\ rest < Minimum)

Selecting == Running /\ d.act = "FREE_SELECTING"

\* The side that has not the choice keeps a rest that _finish_free_turn would have
\* forfeit: resuming a turn that was paused while being finalized skips it, and
\* hands raised on that rest stay.
Unforfeited == d.budget[Other(d.holder)] \in 1..Minimum - 1

\* A running selection always has a timer that will end it, or the command of
\* one is queued: nobody else would (_hand_window_closed, _enter_model_wait).
\* Excepted are a selection resumed for the second time, whose timer has the
\* fixed message id of the first, and one whose window a stale hand may refuse.
SelectionHasTimer ==
    Selecting =>
        \/ d.timer.cmd # "none" \/ fired # << >>
        \/ cached \cap {<<"human-wait-resumed", d.opp>>, <<"free-window-resumed", d.opp>>} # {}
        \/ Unforfeited

\* No window closes on a hand it refuses. The code does not keep this after two
\* pauses, hence the second exception above, and no run claims it.
WindowAlwaysCloses == Selecting => ~WindowRefused(d)

\* Whoever has the floor can begin: he waits for the text of the speech before
\* at most, never for his own that was interrupted (_pre_commit).
NoWaitForOwnText ==
    Running /\ d.act \in {"HUMAN_READY_TO_START", "AGENT_PREPARING"} =>
        ~(d.src # 0 /\ d.src = d.speech /\ d.src \in unsaved)

RaisedHere == {h \in raised : SideOf[h] = d.holder}

\* When the choice is made, the hands that stand are those the holder's side has
\* raised for this opportunity and not taken down, and no others unless the turn
\* before was not finished (_finish_free_turn).
HandsStand ==
    Selecting => /\ ToSet(d.hands) \cap HumansOf(d.holder) = RaisedHere
                 /\ ToSet(d.hands) \subseteq HumansOf(d.holder) \/ Unforfeited

\* Hands stand, and an agent is chosen only when no human of its side has a hand
\* up, however late the decisions and the end of the window arrive
\* (_lock_experiment_selection_if_ready).
HumansFirst ==
    [][/\ HandsStand'
       /\ Chosen /\ d'.act = "AGENT_PREPARING" => RaisedHere = {}]_vars
=============================================================================
