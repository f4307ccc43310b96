----------------------------- MODULE MatchFlow -----------------------------
(* The flow of one match through its plan of linear actions, as MatchActor   *)
(* runs it: entering and activating actions, the one speech timer and the    *)
(* commands it submits when it fires, pause and resume, presence and the     *)
(* grace period of an absent speaker, failed speech recognition, the         *)
(* operator's emergency operations and the AI placeholder worker, and the    *)
(* restart of the process.                                                   *)
(*                                                                           *)
(* Commands are handled one at a time (ActorPipeline), so each action below  *)
(* is one handler with everything it calls. A timer that fires only puts its *)
(* command in the queue: other commands may still be handled before it.      *)
(* MatchRuntimeState is immutable and replaced by every handler; here it is  *)
(* the record match, and a handler is an operator from records to records.   *)
EXTENDS Integers, Sequences, SequencesExt, FiniteSets

CONSTANTS
    Matches,         \* the matches: their compiled actions [kind, host, stage, speaker],
                     \* and bounds: [plan, starts, ops]
    Users,           \* human debaters
    Agent, NoOne,    \* the AI speaker of an action, and nobody
    Duration,        \* ticks a speech or a preparation may take
    MaxDisruptions,  \* bound: disconnections, failures, restarts
    MaxFired         \* bound: fired timers waiting in the queue

Kinds == {"HOST_AUDIO", "PREPARATION", "HUMAN_SPEECH", "AGENT_SPEECH"}

ASSUME MatchesAssumption ==
    \A m \in Matches :
        /\ m.plan \in Seq([kind : Kinds, host : BOOLEAN, stage : Nat \ {0},
                           speaker : Users \cup {Agent, NoOne}])
        /\ Len(m.plan) > 0
        /\ \A i \in 1..Len(m.plan) :
              /\ (m.plan[i].kind = "HUMAN_SPEECH") <=> (m.plan[i].speaker \in Users)
              /\ (m.plan[i].kind = "AGENT_SPEECH") <=> (m.plan[i].speaker = Agent)
              /\ (m.plan[i].kind = "HOST_AUDIO") => m.plan[i].host
        /\ \A i, j \in 1..Len(m.plan) : i < j => m.plan[i].stage <= m.plan[j].stage
        /\ {m.starts, m.ops} \subseteq Nat
ASSUME SpeakerAssumption == Agent # NoOne /\ Agent \notin Users /\ NoOne \notin Users
ASSUME BoundAssumption ==
    /\ Duration \in Nat \ {0}
    /\ {MaxDisruptions, MaxFired} \subseteq Nat

VARIABLES
    match,       \* MatchRuntimeState, with the actor's timer and host guard
    fired,       \* commands of fired timers, in the queue of the actor
    cached,      \* fixed timer message ids the actor has answered
    offline,     \* MatchActor._offline_users
    grace,       \* users whose 60-second timer runs (_offline_timers)
    over,        \* users absent for more than 60 seconds
    away,        \* users whose room_members.online is false
    joining,     \* the speech whose media is being set up again, or 0
    worker,      \* the operation the placeholder worker is of, or 0
    continuing,  \* finished operations whose automatic resume is under way
    disruptions, \* disruptions so far
    hold         \* history: a pause no operator has lifted, see Pause and Continue

vars == <<match, fired, cached, offline, grace, over, away, joining, worker,
          continuing, disruptions, hold>>
presence == <<offline, grace, over, away, joining>>
operation == <<worker, continuing>>

Plan == match.of.plan           \* the compiled actions of this match
MaxStarts == match.of.starts    \* bound: speeches started
MaxOps == match.of.ops          \* bound: emergency operations

NoTime == -1
Fresh == 0      \* the id of a timer message that is never used again

Statuses == {"START_PENDING_RUNTIME", "START_COUNTDOWN", "RUNNING", "PAUSED",
             "SYSTEM_RECOVERY", "ERROR", "FINISHED", "TERMINATED"}
HumanTurn == {"HUMAN_READY_TO_START", "HUMAN_SPEAKING", "SPEECH_FINALIZING"}
AgentTurn == {"AGENT_PREPARING", "AGENT_SPEAKING", "AGENT_FINALIZING"}
Speaking == {"HUMAN_SPEAKING", "AGENT_SPEAKING"}
Finalizing == {"SPEECH_FINALIZING", "AGENT_FINALIZING"}
ActionStates == HumanTurn \cup AgentTurn \cup
    {"NOT_STARTED", "HOST_ANNOUNCING", "PREPARING", "ACTION_FINISHED",
     "RECOVERY_REQUIRED", "RESUME_COUNTDOWN", "MATCH_FINISHED"}
Terminal == {"FINISHED", "TERMINATED"}

NoTimer == [cmd |-> "none", id |-> Fresh, speech |-> 0, start |-> 0, guard |-> 0, user |-> NoOne]
NoOp == [kind |-> "none", status |-> "NONE", auto |-> FALSE, gen |-> 0, idx |-> 0]

TimerCommands == {"countdown.elapsed", "host.elapsed", "preparation.elapsed",
                  "human.start_timeout", "speech.deadline", "resume.elapsed"}
Entries == [cmd : TimerCommands \cup {"none", "offline.expired", "system.error"},
            id : 0..Len(Plan), speech : 0..MaxStarts, start : 0..MaxStarts,
            guard : 0..(MaxFired + 1), user : Users \cup {NoOne}]

TypeOK ==
    /\ match \in [of : Matches, status : Statuses, act : ActionStates, idx : 1..(Len(Plan) + 1),
                  from : ActionStates \cup {"none"},
                  speaker : Users \cup {Agent, NoOne}, seated : BOOLEAN,
                  speech : 0..MaxStarts, start : 0..MaxStarts, issued : 0..MaxStarts,
                  left : NoTime..Duration, clock : NoTime..Duration,
                  due : {"none", "waiting", "passed"},
                  ckpt : {Plan[i].stage : i \in 1..Len(Plan)} \cup {0},
                  op : [kind : {"none", "stage.reset", "speech.skip", "speech.reset", "asr.retry"},
                        status : {"NONE", "PENDING", "SUCCEEDED", "FAILED", "CANCELLED"},
                        auto : BOOLEAN, gen : 0..MaxOps, idx : 0..(Len(Plan) + 1)],
                  failed : 0..MaxStarts, offUser : Users \cup {NoOne}, since : SUBSET Users,
                  timer : Entries, guard : 0..(MaxFired + 1), used : Nat, cut : BOOLEAN]
    /\ fired \in Seq(Entries)
    /\ cached \in SUBSET (TimerCommands \X (1..Len(Plan)))
    /\ offline \in SUBSET Users /\ grace \in SUBSET offline /\ over \in SUBSET Users
    /\ away \in SUBSET Users
    /\ joining \in 0..MaxStarts
    /\ worker \in 0..MaxOps
    /\ continuing \in SUBSET (1..MaxOps)
    /\ disruptions \in 0..MaxDisruptions
    /\ hold \in {"none", "automatic", "running", "countdown", "resuming", "held"}

\* A match just created: its room starts it with runtime.start.
Init ==
    /\ \E of \in Matches :
       match = [of |-> of, status |-> "START_PENDING_RUNTIME", act |-> "NOT_STARTED", idx |-> 1,
                from |-> "none", speaker |-> NoOne, seated |-> FALSE,
                speech |-> 0, start |-> 0, issued |-> 0, left |-> NoTime, clock |-> NoTime,
                due |-> "none", ckpt |-> 0, op |-> NoOp, failed |-> 0,
                offUser |-> NoOne, since |-> {}, timer |-> NoTimer, guard |-> 0,
                used |-> 0, cut |-> FALSE]
    /\ fired = << >> /\ cached = {}
    /\ offline = {} /\ grace = {} /\ over = {} /\ away = {} /\ joining = 0
    /\ worker = 0 /\ continuing = {} /\ disruptions = 0 /\ hold = "none"

-----------------------------------------------------------------------------
(* The timer *)

\* A host guard id no entry in the queue carries.
NewGuard == CHOOSE g \in 1..(MaxFired + 1) : \A i \in DOMAIN fired : fired[i].guard # g

\* Mutant: a timer is armed without the host guard it carries.
ArmUnguarded(s, cmd, id) ==
    LET timed == cmd = "speech.deadline"
    IN  [s EXCEPT !.timer = [cmd |-> cmd, id |-> id, user |-> NoOne,
                             guard |-> IF cmd = "host.elapsed" THEN NewGuard ELSE 0,
                             speech |-> IF timed THEN s.speech ELSE 0,
                             start |-> IF timed THEN s.start ELSE 0]]

\* _schedule_internal: the previous timer and host guard are replaced.
Arm(s, cmd, id) ==
    LET g == IF cmd = "host.elapsed" THEN NewGuard ELSE 0
        timed == cmd = "speech.deadline"
    IN  [s EXCEPT !.guard = g,
                  !.timer = [cmd |-> cmd, id |-> id, guard |-> g, user |-> NoOne,
                             speech |-> IF timed THEN s.speech ELSE 0,
                             start |-> IF timed THEN s.start ELSE 0]]

\* _cancel_timer
Cancel(s) == [s EXCEPT !.timer = NoTimer, !.guard = 0]

\* Mutant: what is left is not taken from the running clock.
ViewLeftAtStart(s) == IF s.act \in Finalizing THEN NoTime ELSE s.left

\* The remaining time view() shows: none while a speech is being finalized.
ViewLeft(s) ==
    IF s.clock # NoTime THEN s.clock
    ELSE IF s.act \in Finalizing THEN NoTime ELSE s.left

-----------------------------------------------------------------------------
(* Moving through the plan *)

FirstOfStage(i) ==
    CHOOSE j \in 1..i : /\ Plan[j].stage = Plan[i].stage
                        /\ \A k \in 1..(j - 1) : Plan[k].stage # Plan[i].stage

\* Mutant: nothing limits the wait for the speaker.
AwaitStartUntimed(s) == [s EXCEPT !.due = "waiting"]

\* _schedule_human_start_timeout
AwaitStart(s) == Arm([s EXCEPT !.due = "waiting"], "human.start_timeout", Fresh)

\* Mutant: the budget is added to what is left.
GrantOnTop(s) == [s EXCEPT !.left = @ + Duration, !.used = 0, !.cut = FALSE]

\* A full budget is granted for the action (history: nothing of it is used).
Grant(s) == [s EXCEPT !.left = Duration, !.used = 0, !.cut = FALSE]

\* _activate_action: an agent's turn leaves the previous timer running.
Activate(s) ==
    LET a == Plan[s.idx]
    IN  CASE a.kind = "PREPARATION" ->
               Arm([Grant(s) EXCEPT !.act = "PREPARING", !.due = "none", !.clock = Duration],
                   "preparation.elapsed", s.idx)
          [] a.kind = "AGENT_SPEECH" ->
               [Grant(s) EXCEPT !.act = "AGENT_PREPARING", !.speaker = Agent, !.seated = TRUE,
                                !.speech = 0, !.clock = NoTime, !.due = "none"]
          [] a.kind = "HUMAN_SPEECH" ->
               AwaitStart([Grant(s) EXCEPT !.act = "HUMAN_READY_TO_START",
                                           !.speaker = a.speaker, !.seated = TRUE,
                                           !.speech = 0, !.clock = NoTime])

\* Mutant: only the first stage records its checkpoint.
CheckpointOnce(s) == IF s.ckpt = 0 THEN [s EXCEPT !.ckpt = Plan[s.idx].stage] ELSE s

\* The first action of a stage records the checkpoint stage.reset needs.
Checkpoint(s) ==
    IF FirstOfStage(s.idx) = s.idx THEN [s EXCEPT !.ckpt = Plan[s.idx].stage] ELSE s

\* _enter_current_action
Enter(s) ==
    IF s.idx > Len(Plan)
      THEN [s EXCEPT !.status = "FINISHED", !.act = "MATCH_FINISHED", !.speech = 0]
      ELSE IF Plan[s.idx].host
        THEN Arm([Checkpoint(s) EXCEPT !.act = "HOST_ANNOUNCING", !.speaker = NoOne,
                                       !.seated = FALSE, !.speech = 0, !.clock = NoTime,
                                       !.due = "none", !.left = NoTime],
                 "host.elapsed", s.idx)
        ELSE Activate(Checkpoint(s))

\* _advance_action
Advance(s) ==
    Enter([s EXCEPT !.act = "ACTION_FINISHED", !.idx = @ + 1, !.speech = 0,
                    !.speaker = NoOne, !.clock = NoTime, !.due = "none", !.left = NoTime])

\* The host's audio has been played to its end.
HostDone(s) == IF Plan[s.idx].kind = "HOST_AUDIO" THEN Advance(s) ELSE Activate(s)

\* _finish_speech and _finish_agent_speech
Finish(s, finalizing) ==
    Cancel([s EXCEPT !.act = finalizing, !.start = 0, !.clock = NoTime])

\* _speech_start and _agent_playback_started, once a speech id is chosen
StartSpeech(s, id, speaking, finalizing) ==
    LET granted == IF s.left = NoTime THEN Duration ELSE s.left
        token == s.issued + 1
        begun == Arm([s EXCEPT !.act = speaking, !.speech = id, !.start = token,
                               !.issued = token, !.due = "none", !.seated = TRUE,
                               !.left = granted, !.clock = granted],
                     "speech.deadline", Fresh)
    IN  IF granted = 0 /\ speaking = "HUMAN_SPEAKING" THEN Finish(begun, finalizing) ELSE begun

-----------------------------------------------------------------------------
(* Holding the match *)

\* _paused_recovery
PausedRecovery(s, restored) ==
    Cancel([s EXCEPT !.status = "PAUSED", !.act = "RECOVERY_REQUIRED", !.from = restored,
                     !.clock = NoTime, !.due = "none", !.speech = 0, !.start = 0])

\* The turn to restore after a failure or a restart.
Restart(s, speaker) ==
    CASE s.act = "HOST_ANNOUNCING" -> s.act
      [] s.act # "HOST_ANNOUNCING" /\ speaker = Agent -> "AGENT_PREPARING"
      [] s.act # "HOST_ANNOUNCING" /\ speaker \in Users -> "HUMAN_READY_TO_START"
      [] OTHER -> s.act

\* A speech cut while it was being finalized (history).
Cut(s) == s.cut \/ s.act \in Finalizing

\* _system_error
SystemError(s) ==
    Cancel([s EXCEPT !.status = "ERROR", !.act = "RECOVERY_REQUIRED",
                     !.from = Restart(s, s.speaker), !.left = ViewLeft(s),
                     !.clock = NoTime, !.due = "none", !.cut = Cut(s)])

\* _asr_failed; a recognition retry under way has failed with it.
AsrFail(s) ==
    LET retrying == s.op.kind = "asr.retry" /\ s.op.status = "PENDING"
    IN  Cancel([s EXCEPT !.status = "ERROR", !.act = "RECOVERY_REQUIRED",
                         !.from = IF s.status = "RUNNING" THEN s.act ELSE @,
                         !.failed = s.speech, !.left = ViewLeft(s), !.cut = Cut(s),
                         !.op.status = IF retrying THEN "FAILED" ELSE @,
                         !.clock = NoTime, !.due = "none"])

\* _system_recover
SystemRecover(s) ==
    IF s.failed # 0
      THEN Cancel([s EXCEPT !.status = "ERROR", !.act = "RECOVERY_REQUIRED",
                            !.clock = NoTime, !.due = "none",
                            !.op.status = IF @ = "PENDING" THEN "FAILED" ELSE @])
      ELSE LET planned == IF s.idx <= Len(Plan) THEN Plan[s.idx].speaker ELSE NoOne
               speaker == IF planned # NoOne THEN planned ELSE s.speaker
           IN  Cancel([Grant(s) EXCEPT !.status = "SYSTEM_RECOVERY",
                         !.act = "RECOVERY_REQUIRED", !.from = Restart(s, speaker),
                         !.speaker = speaker, !.speech = 0, !.start = 0,
                         !.clock = NoTime, !.due = "none"])

\* required_resume_reasons: where a human turn resumes its speaker must be
\* present; the device check and the lease of the connection may refuse too.
MayBeRefused(s) == s.speaker \in Users /\ s.from \in HumanTurn
MustBeRefused(s) == MayBeRefused(s) /\ s.speaker \in away

\* _match_resume, all checks passed
Countdown(s) ==
    Arm([s EXCEPT !.status = "PAUSED", !.act = "RESUME_COUNTDOWN", !.offUser = NoOne],
        "resume.elapsed", Fresh)

\* _resume_elapsed, all checks passed
Resumed(s) ==
    LET to == CASE s.from \in HumanTurn -> "HUMAN_READY_TO_START"
                [] s.from \in AgentTurn -> "AGENT_PREPARING"
                [] OTHER -> s.from
        r == [s EXCEPT !.status = "RUNNING", !.act = to, !.from = "none",
                       !.clock = NoTime, !.due = "none",
                       !.speech = IF s.from \in AgentTurn \ {"AGENT_PREPARING"} THEN 0 ELSE @]
    IN  CASE to = "NOT_STARTED" -> Enter(r)
          [] to = "HUMAN_READY_TO_START" -> AwaitStart(r)
          [] to = "HOST_ANNOUNCING" -> Arm(r, "host.elapsed", Fresh)
          [] to = "PREPARING" /\ r.left # NoTime ->
                Arm([r EXCEPT !.clock = r.left], "preparation.elapsed", Fresh)
          [] OTHER -> r

-----------------------------------------------------------------------------
(* What _process admits, and who else may act *)

Emergency == {"stage.reset", "speech.skip.begin", "speech.skip.complete", "speech.skip.fail",
              "asr.retry.begin", "asr.failed", "asr.finalized", "asr.retry.failed",
              "operator.reset"}
Control == {"match.terminate", "match.resume", "match.pause", "system.recover"}
DuringOperation == {"speech.skip.complete", "speech.skip.fail", "asr.failed", "asr.finalized",
                    "asr.retry.failed", "match.pause", "match.terminate", "system.recover"}

\* Mutant: a pending operation excludes nothing.
AdmittedMeanwhile(s, cmd) ==
    /\ s.status \notin Terminal
    /\ s.status \in {"SYSTEM_RECOVERY", "ERROR"} => cmd \in Control \cup Emergency
    /\ s.status = "PAUSED" =>
          cmd \in Control \cup Emergency \cup {"resume.elapsed", "member.online"}

\* The refusals at the head of _process, in the state s.
Admitted(s, cmd) ==
    /\ s.status \notin Terminal
    /\ s.op.status = "PENDING" => cmd \in DuringOperation
    /\ s.status \in {"SYSTEM_RECOVERY", "ERROR"} => cmd \in Control \cup Emergency
    /\ s.status = "PAUSED" =>
          cmd \in Control \cup Emergency \cup {"resume.elapsed", "member.online"}

Admits(cmd) == Admitted(match, cmd)

\* An action that only replaces the match state.
Becomes(s) ==
    /\ match' = s
    /\ UNCHANGED <<fired, cached, presence, operation, disruptions, hold>>

Disrupt == disruptions < MaxDisruptions /\ disruptions' = disruptions + 1

\* A failure reported by a callback: counted as a disruption.
FailsTo(s) ==
    /\ Disrupt
    /\ match' = s
    /\ UNCHANGED <<fired, cached, presence, operation, hold>>

-----------------------------------------------------------------------------
(* The start, the host and the speakers *)

RuntimeStart ==
    /\ Admits("runtime.start") /\ match.status = "START_PENDING_RUNTIME"
    /\ Becomes(Arm([match EXCEPT !.status = "START_COUNTDOWN"], "countdown.elapsed", 1))

HostFinished ==
    /\ Admits("host.finished") /\ match.act = "HOST_ANNOUNCING"
    /\ Becomes(HostDone(match))

HostFailed ==
    /\ Admits("system.error") /\ match.act = "HOST_ANNOUNCING"
    /\ FailsTo(SystemError(match))

SpeechStart ==
    /\ Admits("speech.start") /\ match.act = "HUMAN_READY_TO_START"
    /\ match.issued < MaxStarts
    /\ Becomes(StartSpeech(match, IF match.speech = 0 THEN match.issued + 1 ELSE match.speech,
                           "HUMAN_SPEAKING", "SPEECH_FINALIZING"))

SpeechFinish ==
    /\ Admits("speech.finish") /\ match.act = "HUMAN_SPEAKING"
    /\ Becomes(Finish(match, "SPEECH_FINALIZING"))

AsrFinalized ==
    /\ Admits("asr.finalized") /\ match.act = "SPEECH_FINALIZING"
    /\ Becomes(Advance(match))

\* Recognition of the current human speech fails, or a paused recording could
\* not be closed (asr_recording_recovery).
AsrFailed ==
    /\ Admits("asr.failed") /\ match.status \in {"RUNNING", "PAUSED"}
    /\ match.speech # 0 /\ match.speaker \in Users
    /\ FailsTo(AsrFail(match))

PlaybackStarted ==
    /\ Admits("agent.playback_started") /\ match.act = "AGENT_PREPARING"
    /\ match.issued < MaxStarts
    /\ Becomes(StartSpeech(match, match.issued + 1, "AGENT_SPEAKING", "AGENT_FINALIZING"))

PlaybackFinished ==
    /\ Admits("agent.playback_finished") /\ match.act = "AGENT_SPEAKING"
    /\ Becomes(Finish(match, "AGENT_FINALIZING"))

AgentFinalized ==
    /\ Admits("agent.finalized") /\ match.act = "AGENT_FINALIZING"
    /\ Becomes(Advance(match))

AgentFailed ==
    /\ Admits("system.error") /\ match.act \in AgentTurn
    /\ FailsTo(SystemError(match))

-----------------------------------------------------------------------------
(* Pause, resume and termination *)

\* match.pause cancels a recognition retry, withdraws the automatic resume of
\* an operation, or stops a running match. hold remembers that the caller was
\* told the match is paused, and what the match was doing when asked.
Pause ==
    /\ Admits("match.pause")
    /\ \/ /\ match.status = "ERROR" /\ match.op.kind = "asr.retry" /\ match.op.status = "PENDING"
          /\ match' = [match EXCEPT !.op.status = "CANCELLED", !.op.auto = FALSE]
       \/ /\ match.status = "PAUSED" /\ match.op.kind # "none"
          /\ match' = [match EXCEPT !.op.auto = FALSE]
       \/ /\ match.status = "RUNNING"
          /\ match' = Cancel([match EXCEPT !.status = "PAUSED", !.act = "RECOVERY_REQUIRED",
                                !.from = match.act, !.due = "none", !.clock = NoTime,
                                !.left = IF match.clock # NoTime THEN match.clock ELSE @,
                                !.cut = Cut(match)])
    /\ hold' = CASE match.status = "RUNNING" -> "running"
                 [] match.act = "RESUME_COUNTDOWN" ->
                       IF hold = "automatic" THEN "countdown" ELSE "resuming"
                 [] OTHER -> "held"
    /\ UNCHANGED <<fired, cached, presence, operation, disruptions>>

\* Mutant: a failed recognition does not keep the match from resuming.
CanResumeUnrecognised(s) ==
    /\ Admitted(s, "match.resume")
    /\ s.status \in {"PAUSED", "SYSTEM_RECOVERY", "ERROR"}

CanResume(s) ==
    /\ Admitted(s, "match.resume")
    /\ s.status \in {"PAUSED", "SYSTEM_RECOVERY", "ERROR"}
    /\ s.failed = 0

\* A resume forgets who is offline; offline_since_ms is left as it was.
StartCountdown ==
    /\ CanResume(match) /\ ~MustBeRefused(match)
    /\ match' = Countdown(match)
    /\ offline' = {} /\ grace' = {}
    /\ UNCHANGED <<fired, cached, over, away, joining, disruptions>>

\* An operator resumes.
Resume ==
    /\ StartCountdown
    /\ hold' = "none"
    /\ UNCHANGED operation

\* Mutant: the withdrawal of the automatic resume is not looked at.
ContinueAnyway(g) ==
    /\ g \in continuing
    /\ continuing' = continuing \ {g}
    /\ UNCHANGED <<worker, hold>>
    /\ match.op.gen = g /\ match.op.status = "SUCCEEDED" /\ StartCountdown

\* continue_after_operation: the operation g resumes the match by itself, if
\* nobody has withdrawn that and the speaker passes the checks. The check made
\* before the command was queued may be outdated: the handler's own counts.
Continue(g) ==
    /\ g \in continuing
    /\ continuing' = continuing \ {g}
    /\ UNCHANGED worker
    /\ LET wanted == match.op.gen = g /\ match.op.status = "SUCCEEDED" /\ match.op.auto
       IN  \/ wanted /\ StartCountdown /\ hold' = IF hold = "none" THEN "automatic" ELSE hold
           \/ /\ ~(wanted /\ CanResume(match)) \/ MayBeRefused(match)
              /\ UNCHANGED <<match, fired, cached, presence, disruptions, hold>>

Terminate ==
    /\ Admits("match.terminate")
    /\ match' = Cancel([match EXCEPT !.status = "TERMINATED", !.act = "MATCH_FINISHED",
                          !.speech = 0, !.due = "none",
                          !.op.status = IF @ = "PENDING" THEN "CANCELLED" ELSE @])
    /\ grace' = {} /\ worker' = 0
    /\ UNCHANGED <<fired, cached, offline, over, away, joining, continuing, disruptions, hold>>

-----------------------------------------------------------------------------
(* Emergency operations of the operator; a request whose expected target is  *)
(* not the current one is refused (_emergency_target)                        *)

NewOp(kind, status) ==
    [kind |-> kind, status |-> status, gen |-> match.op.gen + 1, idx |-> match.idx,
     auto |-> match.status = "RUNNING" \/ kind = "asr.retry"]

Targeted(cmd) ==
    Admits(cmd) /\ match.idx <= Len(Plan) /\ match.op.gen < MaxOps

\* The turn an emergency operation finds, running or held.
Turn == IF match.status = "RUNNING" THEN match.act ELSE match.from

StageReset ==
    /\ Targeted("stage.reset")
    /\ match.ckpt = Plan[match.idx].stage
    /\ Becomes(PausedRecovery([match EXCEPT !.idx = FirstOfStage(match.idx),
                                 !.op = NewOp("stage.reset", "SUCCEEDED"), !.failed = 0,
                                 !.speaker = NoOne, !.seated = FALSE, !.left = NoTime],
                              "NOT_STARTED"))

\* The attempt being skipped is retired: if no placeholder comes of it, the
\* turn resumes with what was left when that attempt began.
SkipBegin ==
    /\ Targeted("speech.skip.begin")
    /\ Turn \in HumanTurn \cup AgentTurn
    /\ match.seated /\ match.speaker # NoOne
    /\ worker = 0 /\ worker' = match.op.gen + 1
    /\ match' = PausedRecovery([match EXCEPT !.op = NewOp("speech.skip", "PENDING"),
                                  !.used = IF match.left = NoTime THEN 0 ELSE Duration - match.left],
                    IF match.speaker = Agent THEN "AGENT_PREPARING" ELSE "HUMAN_READY_TO_START")
    /\ UNCHANGED <<fired, cached, presence, continuing, disruptions, hold>>

\* A result is accepted only for the operation it was made for, while that is
\* pending and the match is held for it.
SkipPending ==
    match.status = "PAUSED" /\ match.op.kind = "speech.skip" /\ match.op.status = "PENDING"

\* The placeholder is stored. A worker that has stopped waiting for the actor
\* may have left its command in the queue.
SkipComplete ==
    /\ Admits("speech.skip.complete") /\ SkipPending
    /\ match.idx = match.op.idx
    /\ match' = PausedRecovery([match EXCEPT !.idx = @ + 1, !.op.status = "SUCCEEDED",
                                  !.failed = 0, !.speaker = NoOne, !.seated = FALSE,
                                  !.left = NoTime],
                               "NOT_STARTED")
    /\ continuing' = continuing \cup {match.op.gen}
    /\ UNCHANGED <<worker, fired, cached, presence, disruptions, hold>>

\* The worker reports a failure, or an operator gives the operation up: with
\* cancel_skip, or by asking again for an operation that has lost its worker.
SkipFail ==
    /\ Admits("speech.skip.fail") /\ SkipPending
    /\ Becomes([match EXCEPT !.op.status = "FAILED"])

\* The worker is dropped: its result or its failure is stored, the operation was
\* given up by an operator, or neither could be stored, the failure in two tries
\* and two seconds, and the operation stays pending.
WorkerEnds ==
    /\ worker # 0 /\ worker' = 0
    /\ UNCHANGED <<match, fired, cached, presence, continuing, disruptions, hold>>

\* The turn starts again with a full budget and nobody speaking.
ResetTurn(s) ==
    LET agent == Plan[s.idx].kind = "AGENT_SPEECH"
    IN  Cancel([Grant(s) EXCEPT !.act = IF agent THEN "AGENT_PREPARING" ELSE "HUMAN_READY_TO_START",
                                !.speech = 0, !.start = 0, !.speaker = Plan[s.idx].speaker,
                                !.seated = TRUE, !.clock = NoTime, !.due = "none"])

SpeechReset ==
    /\ Admits("speech.reset")
    /\ match.act \in (HumanTurn \cup AgentTurn) \ {"HUMAN_READY_TO_START"}
    /\ LET s == ResetTurn(match)
       IN  Becomes(IF s.act = "HUMAN_READY_TO_START" THEN AwaitStart(s) ELSE s)

OperatorReset ==
    /\ Targeted("operator.reset")
    /\ Turn \in HumanTurn \cup AgentTurn
    /\ LET s == ResetTurn([match EXCEPT !.op = NewOp("speech.reset", "SUCCEEDED"), !.failed = 0])
       IN  Becomes(PausedRecovery(s, s.act))

\* Recognition of a kept recording is tried again; it resumes the match by
\* itself when it succeeds, which lifts an earlier pause.
RetryBegin ==
    /\ Targeted("asr.retry.begin")
    /\ match.failed # 0 /\ match.status = "ERROR"
    /\ match' = [match EXCEPT !.op = NewOp("asr.retry", "PENDING")]
    /\ hold' = "none"
    /\ UNCHANGED <<fired, cached, presence, operation, disruptions>>

RetryPending == match.op.kind = "asr.retry" /\ match.op.status = "PENDING"

\* The recognised speech ends its action, if it is still the current one; the
\* next action is entered and at once held for the resume.
RetryDone ==
    /\ Admits("asr.finalized") /\ RetryPending /\ match.failed # 0
    /\ LET s == [match EXCEPT !.op.status = "SUCCEEDED", !.failed = 0]
           next == Advance([s EXCEPT !.status = "RUNNING"])
       IN  match' = IF match.speech # match.failed
                      THEN [s EXCEPT !.status = "PAUSED", !.act = "RECOVERY_REQUIRED"]
                      ELSE IF next.status = "FINISHED" THEN next
                      ELSE PausedRecovery(next, next.act)
    /\ continuing' = continuing \cup {match.op.gen}
    /\ UNCHANGED <<fired, cached, presence, worker, disruptions, hold>>

RetryFailed ==
    /\ Admits("asr.retry.failed") /\ RetryPending
    /\ match.speech = match.failed
    /\ Becomes(AsrFail(match))

-----------------------------------------------------------------------------
(* Presence *)

\* The speaker's clock stops while the connection is set up again.
StopClock(s) == Cancel([s EXCEPT !.left = ViewLeft(s), !.clock = NoTime])

Speaks(u) == match.act = "HUMAN_SPEAKING" /\ match.speaker = u

\* The connection of u is lost: room_members first, then member.offline, which
\* the actor may refuse.
Offline(u) ==
    /\ match.status \notin Terminal
    /\ Disrupt
    /\ away' = away \cup {u}
    /\ IF Admits("member.offline") /\ u \notin offline
         THEN /\ LET s == [match EXCEPT !.offUser = u, !.since = @ \cup {u}]
                 IN  match' = IF Speaks(u) THEN StopClock(s) ELSE s
              /\ offline' = offline \cup {u} /\ grace' = grace \cup {u} /\ over' = over \ {u}
         ELSE UNCHANGED <<match, offline, grace, over>>
    /\ UNCHANGED <<fired, cached, joining, operation, hold>>

Known(u) == u \in offline \/ match.offUser = u

\* u is back, or has a newer connection without having been away. The actor
\* refuses member.online, clears the absence it knows of, stops the clock of a
\* speech whose speaker it did not know to be absent, or has nothing to do.
Online(u) ==
    /\ match.status \notin Terminal
    /\ IF u \in away THEN UNCHANGED disruptions ELSE Disrupt
    /\ away' = away \ {u}
    /\ \/ /\ Admits("member.online") /\ Known(u)
          /\ \E other \in IF offline \subseteq {u} THEN {NoOne} ELSE offline \ {u} :
                match' = [match EXCEPT !.offUser = other, !.since = @ \ {u}]
          /\ offline' = offline \ {u} /\ grace' = grace \ {u}
          /\ joining' = IF Speaks(u) THEN match.speech ELSE joining
       \/ /\ Admits("member.online") /\ ~Known(u)
          /\ match.status = "RUNNING" /\ Speaks(u)
          /\ match' = StopClock(match)
          /\ joining' = match.speech
          /\ UNCHANGED <<offline, grace>>
       \/ /\ ~(Admits("member.online") /\ Known(u))
          /\ UNCHANGED <<match, offline, grace, joining>>
    /\ UNCHANGED <<fired, cached, over, operation, hold>>

\* The presence transition of the speech ends: the media is ready and the
\* clock runs again, setting it up failed, or the transition found itself
\* outdated. It takes a speaker with a time of disconnection for offline.
MediaSettled ==
    /\ joining # 0 /\ joining' = 0
    /\ UNCHANGED <<fired, cached, offline, grace, over, away, operation, hold>>
    /\ LET current == /\ Admits("speech.media_ready")
                      /\ match.act = "HUMAN_SPEAKING" /\ match.speech = joining
                      /\ match.speaker \notin match.since \cup offline
       IN  \/ /\ current /\ match.clock = NoTime
              /\ match' = Arm([match EXCEPT !.clock = match.left], "speech.deadline", Fresh)
              /\ UNCHANGED disruptions
           \/ current /\ Disrupt /\ match' = AsrFail(match)
           \/ /\ ~current \/ match.clock # NoTime
              /\ UNCHANGED <<match, disruptions>>

-----------------------------------------------------------------------------
(* Time, and the commands of timers *)

Tick ==
    /\ match.clock > 0
    /\ match' = [match EXCEPT !.clock = @ - 1,
                              !.used = IF match.act \in Speaking THEN @ + 1 ELSE @]
    /\ UNCHANGED <<fired, cached, presence, operation, disruptions, hold>>

Queue(e) == Len(fired) < MaxFired /\ fired' = Append(fired, e)

\* The timer fires: it is forgotten, and its command goes to the queue.
Fire ==
    /\ match.timer # NoTimer
    /\ match.timer.cmd \in {"preparation.elapsed", "speech.deadline"} => match.clock = 0
    /\ Queue(match.timer)
    /\ match' = [match EXCEPT !.timer = NoTimer,
                    !.due = IF match.timer.cmd = "human.start_timeout" THEN "passed" ELSE @]
    /\ UNCHANGED <<cached, presence, operation, disruptions, hold>>

GraceFires(u) ==
    /\ u \in grace
    /\ Queue([NoTimer EXCEPT !.cmd = "offline.expired", !.user = u])
    /\ grace' = grace \ {u} /\ over' = over \cup {u}
    /\ UNCHANGED <<match, cached, offline, away, joining, operation, disruptions, hold>>

\* What the handler of a timer command leaves behind; e is the head of the
\* queue. A command the handler does not apply to leaves the match as it is.
CountdownElapsed(e) ==
    IF match.status = "START_COUNTDOWN" THEN {Enter([match EXCEPT !.status = "RUNNING"])} ELSE {match}

HostElapsed(e) ==
    IF match.act = "HOST_ANNOUNCING" /\ e.guard # 0 /\ e.guard = match.guard
      THEN {SystemError(match)} ELSE {match}

PreparationElapsed(e) == IF match.act = "PREPARING" THEN {Advance(match)} ELSE {match}

HumanStartTimeout(e) ==
    IF match.act # "HUMAN_READY_TO_START" \/ match.due = "none" THEN {match}
    ELSE IF match.due = "waiting" THEN {Arm(match, "human.start_timeout", Fresh)}
    ELSE {Cancel([match EXCEPT !.status = "PAUSED", !.act = "RECOVERY_REQUIRED",
                               !.from = "HUMAN_READY_TO_START", !.due = "none"])}

\* Mutant: a deadline is not matched with its speech.
SameSpeechUnchecked(e) == TRUE

SameSpeech(e) == match.start = 0 \/ (e.speech = match.speech /\ e.start = match.start)

SpeechDeadline(e) ==
    IF ~SameSpeech(e) THEN {match}
    ELSE IF match.act = "AGENT_SPEAKING" THEN {Finish(match, "AGENT_FINALIZING")}
    ELSE IF match.act = "HUMAN_SPEAKING" THEN {Finish(match, "SPEECH_FINALIZING")}
    ELSE {match}

ResumeElapsed(e) ==
    IF match.act # "RESUME_COUNTDOWN" THEN {match}
    ELSE (IF MustBeRefused(match) THEN {} ELSE {Resumed(match)}) \cup
         (IF MayBeRefused(match) THEN {[match EXCEPT !.act = "RECOVERY_REQUIRED"]} ELSE {})

\* Mutant: an absent speaker is only waited for before the speech.
OfflineExpiredReady(e) ==
    IF match.status = "RUNNING" /\ match.speaker = e.user /\ e.user \in offline
          /\ match.act = "HUMAN_READY_TO_START"
      THEN {Cancel([match EXCEPT !.status = "PAUSED", !.act = "RECOVERY_REQUIRED",
                      !.from = match.act, !.since = @ \ {e.user}, !.left = ViewLeft(match),
                      !.due = "none"])}
      ELSE {match}

\* An expired grace period pauses the turn of the absent speaker; the speech
\* deadline is not cleared.
OfflineExpired(e) ==
    IF match.status = "RUNNING" /\ match.speaker = e.user /\ e.user \in offline
          /\ match.act \in {"HUMAN_SPEAKING", "HUMAN_READY_TO_START"}
      THEN {Cancel([match EXCEPT !.status = "PAUSED", !.act = "RECOVERY_REQUIRED",
                      !.from = match.act, !.since = @ \ {e.user}, !.left = ViewLeft(match),
                      !.due = "none"])}
      ELSE {match}

\* After a failed timer transaction: the error of a human deadline becomes a
\* recognition failure that keeps the recording, that of an agent deadline is
\* dropped, and the host's only counts in its own cycle.
TimerError(e) ==
    IF e.start # 0
      THEN IF match.act = "HUMAN_SPEAKING" /\ e.speech = match.speech
             THEN {AsrFail(match)} ELSE {match}
      ELSE IF e.guard # 0 /\ ~(match.act = "HOST_ANNOUNCING" /\ e.guard = match.guard)
             THEN {match} ELSE {SystemError(match)}

Handled(e) ==
    CASE e.cmd = "countdown.elapsed" -> CountdownElapsed(e)
      [] e.cmd = "host.elapsed" -> HostElapsed(e)
      [] e.cmd = "preparation.elapsed" -> PreparationElapsed(e)
      [] e.cmd = "human.start_timeout" -> HumanStartTimeout(e)
      [] e.cmd = "speech.deadline" -> SpeechDeadline(e)
      [] e.cmd = "resume.elapsed" -> ResumeElapsed(e)
      [] e.cmd = "offline.expired" -> OfflineExpired(e)
      [] e.cmd = "system.error" -> TimerError(e)

\* A handler raises instead of answering, and its message id is not cached.
Raises(e) == e.cmd = "preparation.elapsed" /\ match.act # "PREPARING"

Early(e) == e.cmd = "offline.expired" /\ match.status = "RUNNING"
            /\ e.user \in (offline \cap match.since) \ over

Repeated(e) == <<e.cmd, e.id>> \in cached

\* The command of a fired timer is handled: answered from the cache, refused,
\* or applied.
Deliver ==
    /\ fired # << >>
    /\ fired' = Tail(fired)
    /\ LET e == Head(fired)
       IN  /\ IF Repeated(e) \/ ~Admits(e.cmd) \/ Early(e)
                THEN match' = match
                ELSE match' \in Handled(e)
           /\ cached' = IF e.id # Fresh /\ Admits(e.cmd) /\ ~Raises(e)
                          THEN cached \cup {<<e.cmd, e.id>>} ELSE cached
           /\ grace' = IF ~Repeated(e) /\ Admits(e.cmd) /\ Early(e)
                         THEN grace \cup {e.user} ELSE grace
    /\ hold' = IF match.status # "RUNNING" /\ match'.status = "RUNNING" THEN "none" ELSE hold
    /\ UNCHANGED <<offline, over, away, joining, operation, disruptions>>

\* The transaction of a timer command fails; the timer reports system.error.
TransactionFails ==
    /\ fired # << >> /\ Head(fired).cmd # "system.error"
    /\ ~Repeated(Head(fired)) /\ Admits(Head(fired).cmd) /\ ~Raises(Head(fired))
    /\ Disrupt
    /\ fired' = Append(Tail(fired), [Head(fired) EXCEPT !.cmd = "system.error", !.id = Fresh])
    /\ UNCHANGED <<match, cached, presence, operation, hold>>

\* The process dies. On restart the match is recovered from its row: timers,
\* queue and workers are gone, a running match is put in SYSTEM_RECOVERY, an
\* operation left pending is cancelled, and the connections of the old process
\* are marked offline.
Crash ==
    /\ match.status \notin Terminal
    /\ Disrupt
    /\ LET lost == Cancel([match EXCEPT !.clock = NoTime, !.due = "none"])
           back == IF match.status \in {"START_PENDING_RUNTIME", "START_COUNTDOWN", "RUNNING"}
                        \/ match.failed # 0
                     THEN SystemRecover(lost) ELSE lost
       IN  match' = [back EXCEPT !.op.status = IF @ = "PENDING" THEN "CANCELLED" ELSE @]
    /\ offline' = IF match.since # {} THEN match.since ELSE {match.offUser} \ {NoOne}
    /\ grace' = IF match.status = "RUNNING" THEN offline' ELSE {}
    /\ away' = Users
    /\ fired' = << >> /\ cached' = {} /\ joining' = 0
    /\ worker' = 0 /\ continuing' = {}
    /\ UNCHANGED <<over, hold>>

Next ==
    \/ RuntimeStart \/ HostFinished \/ HostFailed
    \/ SpeechStart \/ SpeechFinish \/ AsrFinalized \/ AsrFailed
    \/ PlaybackStarted \/ PlaybackFinished \/ AgentFinalized \/ AgentFailed
    \/ Pause \/ Resume \/ Terminate
    \/ \E g \in continuing : Continue(g)
    \/ StageReset \/ SkipBegin \/ SkipComplete \/ SkipFail \/ WorkerEnds
    \/ SpeechReset \/ OperatorReset \/ RetryBegin \/ RetryDone \/ RetryFailed
    \/ \E u \in Users : Offline(u) \/ Online(u) \/ GraceFires(u)
    \/ MediaSettled
    \/ Tick \/ Fire \/ Deliver \/ TransactionFails \/ Crash

Spec == Init /\ [][Next]_vars

\* Time passes, timers and queued commands get their turn (so the publish hook of
\* the command before does return), and the setting up of media ends. Nothing is
\* assumed of users, operators, agents or callbacks.
Fairness ==
    /\ WF_vars(Tick) /\ WF_vars(Fire) /\ WF_vars(Deliver) /\ WF_vars(MediaSettled)
    /\ \A u \in Users : WF_vars(GraceFires(u))

FairSpec == Spec /\ Fairness

-----------------------------------------------------------------------------
(* Properties *)

InFlight == {match.timer} \cup ToSet(fired)

\* The timer command the current wait needs, "none" if it needs none: a turn
\* of an agent is ended by its runtime.
Awaited ==
    IF match.status = "START_COUNTDOWN" THEN "countdown.elapsed"
    ELSE CASE match.act = "HOST_ANNOUNCING" -> "host.elapsed"
           [] match.act = "PREPARING" -> "preparation.elapsed"
           [] match.act = "HUMAN_READY_TO_START" -> "human.start_timeout"
           [] match.act = "HUMAN_SPEAKING" /\ match.clock # NoTime -> "speech.deadline"
           [] OTHER -> "none"

\* A timer or queued timer command e that will end the current wait.
Ends(e) ==
    \/ /\ e.cmd = Awaited
       /\ e.cmd = "host.elapsed" => e.guard = match.guard
       /\ e.cmd = "speech.deadline" => SameSpeech(e)
    \/ e.cmd = "system.error" /\ TimerError(e) # {match}

\* Somebody will start the stopped clock of a speech again, or pause it.
ClockWatched ==
    \/ match.speaker \in grace
    \/ \E e \in ToSet(fired) : e.cmd = "offline.expired" /\ e.user = match.speaker
    \/ \E e \in ToSet(fired) : e.cmd = "system.error" /\ TimerError(e) # {match}
    \/ joining = match.speech /\ match.speaker \notin match.since

ClockStopped == match.act = "HUMAN_SPEAKING" /\ match.clock = NoTime

\* A stopped clock whose speaker still carries the time of an earlier absence.
Orphaned == ClockStopped /\ match.speaker \in match.since \ offline

\* No wait of a running match is forgotten: the timer that ends it is armed or
\* queued, and a stopped clock is watched. Two waits are excepted, see
\* TimedWaitEnds and StoppedClockReturns below (_schedule_internal, _cancel_timer).
WaitHasEnd ==
    /\ (Awaited # "none" /\ <<Awaited, match.idx>> \notin cached) => \E e \in InFlight : Ends(e)
    /\ ClockStopped => ClockWatched \/ Orphaned

\* The same without exception for the timers of a replayed stage.
TimedWaitEnds ==
    Awaited # "none" => \E e \in InFlight : Ends(e) /\ ~Repeated(e)

\* The same without exception for a speaker who reconnects.
StoppedClockReturns == ClockStopped => ClockWatched

\* Whatever users, operators and the network do, the host, a preparation, an
\* invitation to speak and a human speech come to an end or are held for an
\* operator, but for the clock StoppedClockReturns is about (the timers of
\* _enter_current_action, _activate_action, _speech_start, _resume_elapsed,
\* _speech_media_ready and _schedule_offline_expiry).
TimedWaitsEnd ==
    \A a \in {"HOST_ANNOUNCING", "PREPARING", "HUMAN_READY_TO_START", "HUMAN_SPEAKING"} :
        match.act = a ~> (match.act # a \/ Orphaned)

\* A full budget is spoken at most once: unless it is interrupted while being
\* finalized, a turn speaks no longer than was granted, through any number of
\* pauses, disconnections and failures (speech_remaining_ms, view).
SpokenBounded == match.cut \/ match.used <= Duration

Runs == match.status # "RUNNING" /\ match'.status = "RUNNING"

\* A pause asked for while an operation holds the match, or before its result
\* arrives, is kept: neither the automatic resume of the operation nor a queued
\* timer runs the match before an operator resumes it (_match_pause,
\* continue_after_operation, _resume_elapsed).
HeldMatchStaysPaused == [][Runs => hold # "held"]_vars

\* The same for a pause acknowledged during the automatic resume countdown of an
\* operation, and for one of the running match while that resume is in flight.
\* The code does not keep those (_match_pause): no run claims this.
WorkerNeverLiftsPause == [][Runs => hold \notin {"countdown", "running"}]_vars

\* The checkpoint of a running match belongs to the stage of its action
\* (_enter_current_action), so that stage.reset never restores another stage.
CheckpointCurrent ==
    (match.status = "RUNNING" /\ match.ckpt # 0) => match.ckpt = Plan[match.idx].stage

\* A timer command ends a speech only when its time is up, whatever happened
\* between the firing and the handling of it (_speech_deadline; the timer of a
\* preparation does not say which preparation it is of, and makes no such promise).
TimersNeverCutShort ==
    [][(Len(fired') < Len(fired) /\ fired # << >> /\ fired' = Tail(fired)
          /\ match.act \in Speaking /\ match'.act \in Finalizing)
       => ViewLeft(match) = 0]_vars

\* While an operation is pending the match is held at the action it was asked
\* for: a skip with its turn kept, a retry with the failure it is to repair. So
\* it stays when the worker of a skip has given up and only an operator or a
\* restart will settle it; a worker is that of the pending operation or of an
\* earlier one (_process, _emergency_target, _speech_skip_begin, _run, _fail).
PendingHolds ==
    match.op.status = "PENDING" =>
        /\ match.idx = match.op.idx
        /\ match.op.kind = "speech.skip" =>
              /\ match.status = "PAUSED" /\ match.act = "RECOVERY_REQUIRED"
              /\ match.from \in {"AGENT_PREPARING", "HUMAN_READY_TO_START"}
              /\ worker \in {0, match.op.gen}
        /\ match.op.kind = "asr.retry" => match.status = "ERROR" /\ match.failed # 0

\* The match neither runs nor ends with a speech whose recognition failed and
\* was not repaired, reset or replaced (_asr_failed, _match_resume).
RunningIsRecognised ==
    match.failed # 0 => match.status \in {"ERROR", "PAUSED", "TERMINATED"}
                        /\ match.act # "RESUME_COUNTDOWN"
=============================================================================
