# A TLA+ model of the Jixia debate core

Jixia (稷下) runs live four-against-four debates between people and AI agents. This directory
holds TLA+ modules that model the core of the program, TLC configurations that check them on
small instances, and proofs that TLAPS checks for every instance. Paths below are relative to
`src/`; `domain.py` and `service.py` are the ones of `apps/core/src/jx_core/matches/`.

## 1. Inventory

| Component | Code | State it keeps | Operations |
| --- | --- | --- | --- |
| Match actor | `matches/domain.py` `MatchActor` | `MatchRuntimeState`, the bounded queue, one timer, the grace timers, the result cache | one handler per command type, run one at a time by `_run` |
| Match runtime manager | `matches/service.py` | actors by match, background tasks, row `matches` | prepare, pre-commit, commit, publish; recovery; callbacks of recognition and agents |
| Emergency coordinator | `matches/emergency.py` | at most one placeholder worker per match | start, run, fail, cancel, recover, close |
| Lease and lifecycle | `lease.py`, `runtime.py`, `app.py` | a PostgreSQL advisory lock, health | acquire, monitor, release; start, stop |
| Presence | `presence.py` | WebSocket and media members by connection epoch, announced state | joined, left, media event, revoke, close |
| Room connections | `room_connections.py` | a connection summary and a lease per user | acquire (replaces), heartbeat, release, revoke |
| Rooms | `rooms/service.py` | rooms, seats, readiness | create, join, claim a seat, ready, start |
| Rules and formats | `rules/`, `formats/` | versioned definitions, host audio generations | edit, publish, freeze, compile to a linear plan; generate and repair host audio |
| Agent runtime | `agent/runtime.py`, `agent/llm.py`, `agent/tts.py` | runs, generations, decisions, playback, LLM capacity | prepare, speak, decide, fence, cancel, finalize, retry |
| Speech recognition | `asr/runtime.py`, `asr/session.py` | a receiver per match with one session, the paused speech, the retained recording | start, pause, finish, replay, retry, fence, reset, close |
| Experiments | `experiments/` | batches, scheduled matches, attempts | schedule, start, close, exclude |
| Post-match | `postmatch.py`, `experiments/service.py` | judge results, annotation tasks, publication, transcripts | request, run, retry; submit, override; submit and archive transcripts |
| Jobs | `apps/jobs/src/jx_jobs` | `background_tasks`, leases | claim, complete, fail; workers |
| Provider capture | `data_capture/` | bounded queues of log records | enqueue, flush, drop |
| Users and sessions | `auth/`, `users/`, `devices/` | users, sessions, device checks | request handlers over single rows |
| Web, showcase | `apps/web`, `apps/showcase` | presentation | none of the decisions below |

How they interact. A command reaches the actor from a WebSocket or HTTP request, from a timer of
the actor itself, or from a callback of the recognition, agent, presence or emergency component;
all of them call `submit` and wait for a future. The runner takes one command at a time; the
handler computes a candidate state and events, `_commit` stores it in a PostgreSQL transaction,
only then `self.state` is replaced, timers are started or cancelled, and `_publish` starts the
media, agent and continuation tasks the events call for. These tasks later come back as commands.

Hard behaviour, and what correctness means:

* *The pipeline.* Acknowledgements are lost, processes overlap after a lost lease session, results
  are evicted, actors are closed with commands in flight. Correct: the stored history is never
  forked, nothing unstored is announced, every caller is answered, and a retried message id takes
  effect once as long as its result is remembered.
* *The flow of a match.* One timer slot serves every wait; a fired timer only queues a command, so
  a pause, a reset or a disconnection can come between. Operators, workers and failures interrupt
  at any point. Correct: every wait has an end, time is neither lost nor given twice, a pending
  operation holds the match, a pause is kept, and a failed recognition is not skipped over.
* *Presence.* Connections are replaced by newer epochs while the old ones are still closing, and
  WebSocket and media report separately. Correct: the actor ends up with the state of the newest
  connection.
* *Free debate.* Hands, the closing of the window and agent decisions arrive in any order, and a
  speech can be paused, fail or be reset when it is already the source of the next opportunity.
  Correct: the floor goes to humans first and to nobody who has not asked for it, selections have an
  end, and a side pays for what it spoke, no more and no less.
* *Agent media.* Generation, playback and finalization of a speech are tasks of one event loop that
  the actor fences, cancels and resets while they wait. Correct: no audio after the reset, one end
  for every stored generation, and nobody waits in a circle.
* *Recognition.* The provider's answer, its failure, two deadlines, a pause, an automatic replay and
  an operator's retry race over one session. Correct: each piece of audio is text once and in order.
* *Rooms.* Rooms are opened, joined, started and ended concurrently, and the match writes its status
  back to them. Correct: one open room per user, capacity, seats and attempts hold.
* *After the match.* The judge, six debaters, an administrator and a job work on one attempt in their
  own transactions. Correct: nothing is public or ranked before its time, and a public score is ranked
  at last.
* *Jobs.* A lease expires while its worker is still at work; texts change while audio is made.
  Correct: the holder of the latest attempt decides, and what is ready is made from the current text.

`PROJECT.json` lists every component with its status and every hazard with the properties that
cover it, or why none does yet.

## 2. Plan

Done, in this order:

1. `MatchHistory`, `ActorPipeline`, `ActorPipeline_proofs`: the pipeline, checked and proved.
2. `MatchFlow`: the linear actions, pause and resume, presence of speakers, emergency operations,
   restart.
3. `Presence`: connection leases, epochs, the coordinator and the actor's epoch filter.
4. `FreeDebate`: opportunities, hands, decisions, budgets of the two sides and their timers.
5. `Rooms`: lobby, seats, capacity, scheduled matches and what the match writes to them.
6. `HostAudio`: the task queue and the one worker that is fenced, with generations and repair.
7. `AgentRuntime`: the tasks of an agent's speech. 8. `Recognition`: the recognition of a speech.
9. `Postmatch`: judge, annotations, publication and ranking of a formal match.
10. `MatchFlow_proofs`, `Participants_proofs`, `Liveness_proofs`, `Postmatch_proofs`,
    `FreeDebate_proofs`, `FreeHands_proofs`, `Debate_proofs`: the safety properties of these, proved (section 5).

Left:

* Proof of `FreeDebate!SelectionHasTimer` (section 5 has the invariants it needs).
* A run on webhooks that come out of order ("joined" after "left" leaves a participant in `_media`
  that is not in the room), and presence during a free debate.
* Transcripts and their archiving, expert tasks; the remaining workers (audio processing, exports),
  sessions, the showcase.

## 3. Modules

### ActorPipeline and MatchHistory

`ActorPipeline` follows one match through any number of operating-system processes. A process is
`down`, `starting`, `serving` or `stopping`; `lock` is the advisory lock, which PostgreSQL may drop
(`LoseLease`) long before the process notices (`Stop`). Each process has an actor: `runner`,
`queue`, `current` and `phase` say where `_run` and `_process` are, `mem` is `self.state`, `cand`
the candidate, `cache` is `_idempotency`. The match state is abstracted to the history of message
ids whose commands produced events: its length is `MatchRuntimeState.sequence`, the value the
transaction compares with `matches.sequence`. A handler may produce no event; its candidate then
equals `mem`, and the transaction stores it all the same.

| Code | Action |
| --- | --- |
| `InstanceLease.acquire`, `_monitor`, `release` | `Acquire`, `LoseLease`, `Stop`, `Exit` |
| `recover_unfinished` | `Recover` |
| `submit`, queue full or not started | `Submit` |
| `_process` up to the handler; cached id | `Take`; `TakeDuplicate` |
| `_commit`: stored; refused or failed; acknowledgement lost | `Store`; `Abort`; `LoseAck` |
| `self.state = candidate_state`; publish and cache | `Ack`; `Publish`, `PublishFails` |
| `close`: cancel the runner; reject the queue | `CancelRunner`; `DrainQueue` |
| death of the process | `Crash` |

`forgotten` is a history variable: message ids whose result may be missing from the cache.
`MatchHistory` is the abstract promise, a history that is only appended to; `HistoryOnlyGrows`
states that `row` implements it.

### MatchFlow

`MatchFlow` is one actor and its handlers. `match` holds the fields of `MatchRuntimeState` that
decide anything, together with the actor's timer and host guard, because a handler replaces all of
them in one step; a handler is an operator from one record to the next, and an action is one
handler with every call it makes. The correspondence of fields is:

| Field | Code |
| --- | --- |
| `status`, `act`, `idx`, `from` | `status`, `action_state`, `action_index`, `paused_from_action_state` |
| `speaker`, `seated`, `speech`, `start` | `current_speaker_*`, whether a seat is set, `current_speech_id`, `speech_start_sequence` |
| `left`, `clock` | `speech_remaining_ms`; the time left to `speech_deadline_mono` |
| `due` | `human_start_deadline_mono`: none, in the future, passed |
| `ckpt` | the stage of `stage_checkpoint` |
| `op`, `failed` | `emergency_operation`, `asr_failed_speech_id` |
| `offUser`, `since` | `offline_user_id`, the users in `offline_since_ms` |
| `timer`, `guard` | `_timer` with the command it will submit, `_host_guard_id` |
| `issued`, `used`, `cut` | histories: speeches started, ticks spoken of the granted budget, whether the turn was interrupted while being finalized |

The other variables are `fired` (commands of fired timers in the queue), `cached` (the fixed timer
message ids already answered), `offline`, `grace` and `over` (`_offline_users`, the running 60-second
timers, the users whose 60 seconds are over), `away` (`room_members.online` is false), `joining` (the
presence transition of a speech), `worker` (the placeholder worker, which may go before its operation is
settled: `WorkerEnds`; the commands it has left in the queue may still come, so `SkipComplete` and
`SkipFail` do not ask for it), `continuing` (finished operations whose automatic resume is in flight)
and `hold` (a history: what the match was doing when a pause was acknowledged that no operator has
lifted).

The plan is a constant: the list `compile_linear_actions` returns, reduced to kind, stage, speaker
and whether a host announces it. Message ids that contain a sequence number are never repeated and
are all `Fresh`; the ids that repeat are the action's index, and `Deliver` answers a repeated one
from the cache, as `_process` does. Reading `room_members` for a resume and the command that
reports a reconnection are each one step with what they change.

### Presence

`Presence` is one debater in one match and everything that decides whether the match believes the
debater is there. A connection is identified by its epoch; the state is

| Variable | Code |
| --- | --- |
| `highWater`, `lease`, `member` | `room_connections.connection_epoch`, the epoch of the user's `RoomConnectionLease` in this room, `room_members.online` |
| `authed`, `revoking` | the user has a valid session; a request has committed the invalidation and has not yet called `revoke_user` |
| `entering`, `conn` | `match_events` between authentication and `acquire`; of each epoch, how far its handler is |
| `tokens`, `part`, `hooks` | LiveKit tokens issued, participants, webhooks on their way |
| `sock`, `media`, `seen`, `online`, `announced`, `closed` | `_websocket`, `_media`, `_seen_events`, `_online_state`, `_announced_epoch`, `_closed_matches` |
| `call` | the transition that holds `_lock`, between its transaction and its announcement |
| `status`, `known`, `absent`, `since` | of the actor: what it admits, `connection_epochs`, `_offline_users`, `offline_since_ms` |
| `taken`, `incidents` | histories: whether the actor took the last announcement, the incidents so far |

| Code | Action |
| --- | --- |
| `match_events`: authenticate; `acquire`; the end, `release` | `Enter`; `Acquire`, `AcquireElsewhere`; `Release` |
| `websocket_joined`, `websocket_left`, `media_event`, `revoke_user` up to the announcement | `WebsocketJoined`, `WebsocketLeft`, `MediaEvent`, `RevokeUser` |
| the announcement of `_transition`; its failure with the restored membership | `Announce`; `AnnounceFails` |
| the handler's own `member.online`, `member.offline` | `FallbackOnline`, `FallbackOffline` |
| `create_match_livekit_token`; LiveKit | `IssueToken`; `ParticipantJoins`, `ParticipantLeaves` |
| `logout`, `change_password` and the administrator's resets | `RevokeSessions` |
| pause, 60 seconds over, resume and its countdown, error or operation, end | `Pause`, `OfflineExpired`, `Resume`, `Resumed`, `Refuse`, `End` |
| crash and start of jx-core | `Crash` |

A transition is two steps because the lock is all that is held between them: leases change, sessions
end, the match pauses there. The reads and the write of its one transaction are taken as a single step;
the rest of each half runs without an await. The match is reduced to what it admits; when it pauses and
resumes is free here and settled in `MatchFlow`.

### FreeDebate

`FreeDebate` is the free debate action, one actor and its handlers, in the style of `MatchFlow`: `d`
is the record of the fields of `MatchRuntimeState` that decide who may speak, with the actor's
timer. Every speech opens an *opportunity* (`free_opportunity_id`, here its number) for the next one;
its phase goes from `COMPETING` over `MODEL_WAIT` and `HUMAN_ONLY_WAIT` to `ALLOCATED`. `deciding` are
the background decision calls, `unsaved` the rows of `speeches` a following start must wait for,
`raised`, `net`, `aired`, `charged` and `waived` are histories the properties speak about: the hands
that stand for the current opportunity, the ticks each side has spoken and not been given back, those
of whoever has the floor, those of them since the charge of the speech began (an agent that is
interrupted begins a new charge and keeps the earlier one; a human goes on with the old one), and
whether an interruption made the budgets incomparable. A speech *has ended*, so that its final text may
come, when its charge is settled and its recognition or generation has not failed (`HasEnded`).

| Code | Action |
| --- | --- |
| `_free_hand_raise`, `_free_hand_cancel` | `HandRaise`, `HandCancel` |
| `_free_decision_start` by the final text of a human or an agent; `_free_decision_result` | `HumanTextKnown`, `AgentTextKnown`, `DecisionsDue`; `Decide` |
| `_speech_start`; `_agent_playback_started` | `HumanStarts`; `AgentStarts` |
| `_speech_finish`, the speech deadline; `_asr_finalized`, `_agent_finalized` | `Finishes`; `HumanFinal`, `AgentFinal` |
| `_free_selection_timeout`, windows and waits as timers; the queue | `Tick`, `Fire`, `Handle` |
| `_pause`, `_resume`, `_resume_complete` | `MatchPause`, `MatchResume`, `Handle` |
| `_agent_error`; `_asr_failed`; the retry of recognition | `AgentFails`; `RecognitionFails`; `RetryRecognition`, `RetrySucceeds`, `RetryFails` |
| `_speech_reset`, by the system or an operator | `SpeechReset` |
| restart | `Crash` |

### AgentRuntime

`AgentRuntime` is the media of a match's agents: tasks of one event loop, so a step ends where the
code awaits. `runs` are the `AgentRun` objects with the places of their two tasks (`at` of `_run`,
`player` of `_play_pcm`) and flags; `registered` is `_runs[match_id]`, `mediaLock` the holder of
`_media_lock`, `rows` the stored `AgentGeneration` of each run and attempt, and `cancels`, `finals`,
`start` say where `_cancel_run`, `finalize_agent` and `start_agent` stand. The actor is reduced to its
action state, the current speaker and what it waits for.

| Code | Action |
| --- | --- |
| `start_agent`; `_run`: generate, retry, drain, report | `Start`; `Produce`, `Fail`, `Unwind` |
| `_play_pcm`: first frame, callback, frames, end; its cancellation | `Play`; `StopPlayer` |
| `_cancel_run`, `fence_agent`, `reset_agent` | `Cancel`, `Retire`, `ResetInterrupted`, `ResetDone` |
| `finalize_agent` with the tail of the audio | `Finalize` |
| the actor's handlers and publish hooks | `PlaybackStarted`, `PlaybackFinished`, `SpeechDeadline`, `Finalized`, `Pause`, `FailureReported`, `FenceDone`, `Resume`, `ResetSpeech` |

A cancelled task may take any time to stop, so whoever cancelled it goes on without it, except
where the code waits for it.

### Recognition

`Recognition` is the recognition of one human speech in a linear action. A piece of audio is its
number, and a text is the sequence of pieces it covers: losing, repeating or reordering audio shows
as another sequence. `session` is `_speech`, `paused` `_paused_speech`, `retained` `_retained_speech`;
`waits` are the callers inside `finish_speech`, `pause_speech` and `retry_speech`; `reports` are the
callbacks in the actor's queue with their envelopes, and `core` is what `MatchRuntimeState` says of
the speech. The synchronous fence in the publish hook of a pause and the `pause_speech` spawned after it
are one step, `Fence`: that the session ends between the two, so that `pause_speech` finds nothing and
reports nothing (`asr/runtime.py:1367`), is not reached.

| Code | Action |
| --- | --- |
| `_start_speech_locked`; `speech.start`, refused or failed | `BeginStart`; `CommitStart`, `StartFails` |
| audio and sentences; the automatic replay; a failing provider | `Speak`, `Sentence`; `Replay`; `Fails` |
| completion, the stored final text, the deadline of either side | `Complete`, `Saved`, `Deadline` |
| `finish_speech`, `pause_speech`, the fence of a dying match | `Finish`, `Pause`, `Fence` |
| `_asr_finalized`, `_asr_failed`, a failed retry | `Finalized`, `Failed`, `RetryFailed` |
| `match.resume`; `asr.retry.begin`, `cancel`; the reset of a speech | `Resume`; `RetryBegin`, `RetryCancel`; `Reset` |

### Rooms

`Rooms` is a set of rooms and everybody in them. Every operation locks its room row and is one
transaction, so it is one action; what a request checks by further locks it takes in the same
transaction. `rooms` holds each room's status and kind with the status of its match and attempt,
`people` the members (who has left is `none`, as who has not joined), `places` the seats, `swaps` the
pending swap requests, `scheduled` the status of two scheduled matches, a formal and a training one. The
room of a formal match has fixed seats; the room of a training match is opened by one debater, has
agents on every seat and is otherwise an ordinary room that is linked to an attempt. Actions:
`CreateRoom`, `JoinRoom`, `WatchFormal`, `SelectSeat`, `ChangeRole`, `Ready`, `NotReady`, `RequestSwap`,
`AnswerSwap`, `LeaveRoom`, `EnterOpenAttempt`, `CreateAttempt` (`enter_scheduled_match` on an open
attempt and without one), `StartRoom`, `PrepareMatch`, `CommitMatch` (`_commit` of the match, which
writes room, attempt and scheduled match) and `TerminateRoom`.

### HostAudio

`HostAudio` is the host audio of one rule and the workers that make it. `manifest` is the current
generation: for each segment the inputs of its audio; `assets` are its rows, `tasks` the rows of
`background_tasks` in order of creation, `turn` where each worker is between its three
transactions. Actions: `Regenerate` (an edit, or a forced generation), `Retry`, `Reconcile`, `Claim`
(with the repair of what a dead worker left), `Begin`, `Finish`, `LeaseExpires`, `Crash`.

### Postmatch

`Postmatch` is what follows one formal match, as transactions of the core and of the jobs process.
`results` are the `JudgeResult` rows in order of creation, each with the task that makes it
(`_execute`); `annotation` the status of each debater's task and `submitting` the count of a submission
that is not committed; `public` and `override` are `public_at` and the row of an override. `waiting`
are the background tasks that may be claimed, at once or when a dead worker's lease is over,
`holding` the one the process works on, `stuck` a ranking that stays `RUNNING` after the last attempt
died, `shown` the result in the newest batch of the leaderboard.

| Code | Action |
| --- | --- |
| `_request_postmatch_judge`; `retry_judge`; `_execute` | `RequestJudge`; `RetryJudge`; `Execute` |
| `submit_participant_task` up to its count; its commit | `BeginSubmit`; `CommitSubmit` |
| `override_result_visibility` | `Override` |
| `ensure_daily_tasks`; `claim_next`; `complete`; `fail` | `NewDay`, `EnsureDaily`; `Claim`; `Complete`; `Fail` |
| `process_one_experiment_postmatch`; `process_one_leaderboard` | `MakeTasks`; `Rank` |
| death of the jobs process; of the core | `JobsCrash`; `CoreCrash` |

A submission is cut in two because the attempt is locked only after the count; everything else of
these handlers is one transaction, and so one step.

### Composed modules

Three MC modules hold several components each: `MCDebate` (free debate, agent media,
recognition), `MCParticipants` (presence, rooms), `MCLiveness` (pipeline, flow, recognition, host
audio). The components abstract from one another - each treats the others' commands and callbacks as
inputs that may come whenever its handlers would take them - and share no variable, so a behaviour
is about one of them, its `subject`. Their interactions are inside the components: the actor's side of
the media is in `AgentRuntime`, its side of the recognition in `Recognition`, the match's writes to
rooms in `Rooms`, the announcements of presence in `Presence`.

## 4. Runs

| Run | Instance | What it shows |
| --- | --- | --- |
| `pipeline_safety` | two processes, three submissions, two with one message id; queue and cache of 1 | `MemoryIsPrefix`, `PublishedIsStored`, `NobodyStranded`, `EffectOnce`, and the refinement `HistoryOnlyGrows` |
| `flow` | two matches: an announced human turn and an agent turn (2 starts, 1 operation); a preparation with its closing announcement and a speech in a second stage (2 operations); 1 disruption, budget of 1 tick | `WaitHasEnd`, `RunningIsRecognised`, `SpokenBounded`, `CheckpointCurrent`, `PendingHolds`, `HeldMatchStaysPaused`, `TimersNeverCutShort` |
| `debate` | a free debate of a human and an agent against an agent, 3 opportunities, 1 interruption; two agent runs and 1 trouble; a speech of 2 pieces of audio and up to 4 disturbances and pieces together | `BudgetAccounts`, `SelectionHasTimer`, `HumansFirst`; `NoLateAudio`, `SettledOnce`; `TranscriptExact` |
| `participants` | two connections with one LiveKit session each, 1 incident; two rooms, ordinary or of a formal or a training match, two users, two agents, two seats, capacity 1 | `LeaseIsNewest`, `ConnectedIsOnline`, `AnnouncedIsKnown`, `RevokedStaysOffline`; `OneOpenRoom`, `CapacityHeld`, `SeatsAreTaken`, `AttemptsAgree` |
| `liveness` | one process, three submissions; the preparation plan without operations; one piece of audio; two segments, two texts, two workers, 1 crash | `EveryCallerAnswered`; `TimedWaitsEnd`; `RecognitionEnds`; `ReadyAudioIsCurrent`, `HolderDecides`, `GenerationSettles` |
| `postmatch` | two debaters; one score and 2 faults, or two scores; 1 waiting task when a day begins | `ResultsKeptSecret`, `ScoreIsRanked` |
| `stage_replay` | the preparation plan, 1 operation | violates `TimedWaitEnds` |
| `reconnect` | one announced speech, 2 disruptions | violates `StoppedClockReturns` |
| `free_restart` | a free debate with one pause | violates `NoWaitForOwnText` |
| `room_closed` | two rooms, capacity 1, a running room closed through its own interface | violates `CapacityHeld` |
| `pause_deadlock` | one agent run, one pause | violates `NoWaitCycle` |
| `speech_forgotten` | a speech of one piece of audio, one pause | violates `NothingForgotten` |

Bounds. Two processes are enough for a stale actor beside a current one, and the proofs lift the bound.
A queue and a cache of one make "full" and "evicted" happen at once. In `MatchFlow`, two operations let
one follow another (a reset after a failed skip, a retry after a skip); two starts let a speech be
resumed or restarted and an agent speak after a person; one disruption is one disconnection, failure or
crash at any point, and the second one `reconnect` needs is given to it. One fired timer may wait in the
queue while any other command is handled; the actor has one timer slot, and a second entry only adds the
grace timer beside it. In `Presence` two connections are a replaced one and its successor, and one
incident is one failed announcement, crash, invalidation, repeated webhook, visit to another match,
error or end at any point; everything else is free. A budget of one tick distinguishes a clock that is
stopped, running and over. In `FreeDebate` three ticks for a side and two for a turn make a turn the
whole rest, a part of it, and less than the minimum; three opportunities let the floor change sides and
return. In `AgentRuntime` two runs are one that was reset and its successor. In `Recognition` two pieces
of audio distinguish lost, repeated and reordered; with two faults a replay fails too. In `Rooms` two
rooms and a capacity of one make every conflict between rooms possible; `CloseRunning` is off in
`participants` because ending a running room through the interface of rooms is what `room_closed` shows
to break the capacity, and its state constraint `Separate` leaves out the behaviours with both an
ordinary and a training room (the theorems of section 5 have neither bound, except where they say so).
In `Postmatch` two debaters are the two last ones; two faults kill a ranking for good; two scores let
the second one come while the first is ranked. In `HostAudio` three tasks let a segment be repaired
after an edit. Deadlock is not checked: a finished match, a settled generation, closed rooms and
answered submissions stop.

Fairness. `ActorPipeline`: the event loop runs every ready task and a stopping process closes its
actor. That a transaction or a publish hook returns is not assumed, as a hook may wait for ever
(`pause_deadlock`): `EveryCallerAnswered` is about callers whose own actor is not held by one command
for ever (`Held`), and says that nothing else, no queue, shutdown or crash, leaves a caller waiting.
Nothing forces a process to start, a client to submit or a crash to happen. `MatchFlow`: time passes,
fired timers and queued commands get their turn, and setting up media ends; nothing is assumed of users,
operators, agents and callbacks, so the turn of an agent, which no timer of the actor bounds, is not
promised to end. `Recognition`: deadlines pass, the actor's queue is handled, a transaction that stores
a final text ends; these two are about the flow of one match and one speech in an actor that goes on,
so they too are not about an actor that `pause_deadlock` has stopped. For the rest, nothing is assumed of the
provider and the people. `HostAudio`: workers go on polling (a crashed one is started again) and
leases expire; crashes and edits are bounded, as nothing promises an end while they never cease.
`Postmatch`: days pass and the jobs process takes a step when it can, started again after a crash;
nothing is assumed of debaters, administrators and the judge.

Each violated property is something a document says of the program and the code does not do:

* `TimedWaitEnds`: preparation and host timers have fixed message ids. When a stage is reset after
  they fired, the replayed stage arms timers whose commands the cache swallows; the preparation
  never ends (spec 304: after the replay the match proceeds normally). `WaitHasEnd` is the same
  statement for all other waits, and holds.
* `StoppedClockReturns`: `match.resume` clears `_offline_users` and `offline_user_id` but not
  `offline_since_ms`. A user who was absent over a resume and later reconnects while speaking has the
  clock stopped, and the presence transition, which reads `offline_since_ms`, gives up without
  starting it again (spec 168: recognition resumes with the remaining time). `WaitHasEnd` and
  `TimedWaitsEnd` except exactly this state (`Orphaned`).
* `NoWaitForOwnText`: a free speech is the source of the next opportunity from its start on. Paused and
  resumed, its speaker has the floor again, and `speech.start` waits for the text of the very
  speech it is to continue until it times out.
* `CapacityHeld` with `CloseRunning`: `terminate_room` closes a room whose match runs without telling
  the match; its place is given to another room, and the next command of the match opens it again.
* `NoWaitCycle`: `_play_pcm` waits for the actor with the media lock in its hands while the actor, in
  the publish hook of a pause, waits for the lock to fence the player (spec 305: the lock is not held
  across a callback of the actor). No timeout ends it.
* `NothingForgotten`: recognition reaches its deadline while a human pauses; `pause_speech` raises an
  error its caller does not report, the match is never told, and after the resume the next start
  discards the retained audio while the time already spoken stays spent (the requirements: a pause
  first finalizes the current segment).

Two premises in the properties of `Presence` stand for races seen there. `revoke_user` takes no
epoch: if the user reconnects between the transaction of an invalidation and that call, the new
socket is dropped too, hence `incidents.logout = 0` in `ConnectedIsOnline`. In the same gap the close
of an old socket can write `room_members.online` again; a restart or the end of the match before
`revoke_user` leaves it so, hence the premises of `RevokedStaysOffline`.

Three more statements the code does not keep stand in the modules, each with a remark, and have no
run; TLC finds each when its name is given as the property of a configuration (the last needs two
pauses and a speaker with little time left, the others a second):

* `MatchFlow!WorkerNeverLiftsPause`: a pause during the automatic resume countdown of an operation is
  acknowledged and the countdown goes on (spec 307: a worker does not resume against a new intent to
  pause). The same happens to a pause of the running match while a continuation is in flight, and to
  a pause during an operator's own countdown once the match has had an operation.
  `HeldMatchStaysPaused` is the statement for every other pause.
* `Postmatch!PublicWhenAllSubmitted`: `submit_participant_task` counts the committed submissions
  (`experiments/service.py:2595`) with only its own task locked. When the last two debaters submit at
  the same time each counts five; none publishes, nobody can submit again, and the result stays
  hidden and unranked until an administrator overrides (spec 201: the public sees the result when all
  six have submitted).
* `FreeDebate!WindowAlwaysCloses`: resuming a turn that was paused while being finalized skips
  `_finish_free_turn`, so its rests are not forfeit and the hands of both sides stand in the selection.
  When the same side has to go on, the first hand may be of the other side: `hand.window_closed` is
  then refused by `_select_free_human` (`domain.py:1893`), logged as stale, and never sent again. Even
  if the hand is taken down, the selection has no timer. `SelectionHasTimer` and the second half of
  `HandsStand` make an exception (`Unforfeited`) of the selections in which the other side still has
  a rest that `_finish_free_turn` would have forfeited.

Seen while modelling, without a property:

* *Flow.* A pause while a linear speech is finalized refunds the time spoken (`domain.py:3203`);
  `SpokenBounded` is the statement for all other interruptions. `_offline_expired` does not clear
  `speech_deadline_mono`, so a speech begun while its speaker still counts as absent is paused with
  its clock running; `_system_recover` during the start countdown restores the first action's turn
  without entering the action, so its host and its checkpoint are missing until the next stage; a
  skip that fails after a recognition failure leaves the match paused, where `asr.retry.begin` is
  refused. The worker of a skip whose failure cannot be stored gives up after two tries or two seconds
  and is dropped (`emergency.py:289`, `275`); the operation stays `PENDING` and holds the match until an
  operator cancels it or asks for the same operation again, the match is terminated, or the core
  restarts. `PendingHolds` therefore does not ask for a worker, nothing says that a skip is settled at
  last, and a `speech.skip.complete` that is refused or fails leads to the same `_fail`.
* *Presence.* An actor in recovery, in error or with a pending operation refuses `member.online`;
  `_transition` swallows the refusal and remembers the announcement as made (`presence.py:293`), so
  the actor keeps the old epoch. `AnnouncedIsKnown` is about the announcements the actor took.
* *Free debate.* A reset of an agent that was chosen out of an unfinished turn restores the budget of
  another speech (`StaleCharge`, section 5). When both sides have less than the minimum left, the window
  that closes in `AGENT_FINALIZING` does not finish the turn (`domain.py:1601`), and a decision that
  arrives before the final text gives an agent the floor for less than a second. A window close that is
  late and handled in `HUMAN_ONLY_WAIT` closes the window for humans. `human-wait-resumed` and
  `free-window-resumed` are fixed message ids: after a second resume in one opportunity those waits
  never time out. Resuming a pause in `SPEECH_FINALIZING` skips `_finish_free_turn`; a reset restores a
  budget that the other side's start recorded; a window close that was queued is taken in
  `HUMAN_ONLY_WAIT` too; a restart sets `speech_remaining_ms` to the whole action; a recognition failure
  during the speech may charge it twice. `waived` marks these in `BudgetAccounts`.
* *Rooms.* Joining a formal room as a spectator and re-entering an open attempt skip the check for other
  participation; `OneOpenRoom` is about ordinary rooms. The spectator limit is skipped on re-entry.
  `select_seat` locks the user first and `join_room` the room first; the conflict query of
  `enter_scheduled_match` (`experiments/service.py:1776`) takes no lock on the users. The last organizer
  of a waiting training room ends the room by leaving it (`rooms/service.py:1570`), and neither attempt
  nor scheduled match is told: `enter_scheduled_match` then finds the open attempt
  (`experiments/service.py:1711`) and leads into the dead room, so that training match cannot be entered
  anew, and `terminate_room` passes over a room that is terminated. `AttemptsAgree` and `OutcomesMatch`
  make an exception (`Abandoned`) of exactly these rooms. Re-entry also makes a spectator with a seat of
  whoever took a seat in a training room without being one of the debaters of its match, so the second
  part of `SeatsAreTaken` is about ordinary rooms. A crash between `start_room` and `prepare` leaves
  `START_PENDING_RUNTIME`.
* *Agent runtime.* A generation row committed while the task that awaits it is cancelled may stay
  `GENERATING`.
* *Recognition.* A failing `speech.start` after a pause also forgets text and audio (`service.py:1085`);
  audio spoken after a pause that arrives while `asr.finalized` is queued is missing from the stored
  recording; a resumed speech finished without new audio fails as empty and its retry is refused;
  recognition that fails between readiness and the commit of `speech.start` leaves a speech nobody
  listens to until it ends.
* *After the match.* A judge whose process dies, or whose failure cannot be stored, leaves its result
  `RUNNING` for ever, and the page offers a retry only for `FAILED`; a match that finishes just before a
  crash is never judged unless somebody retries. A score that succeeds after publication waits for the
  daily ranking, and so does an override while another ranking is `RUNNING`, were it dead.
  `submit_transcripts` does not lock the match: two last submissions may both leave it unarchived until
  the daily job, which also overwrites what was submitted by hand.
* *Task queue.* `complete` and `fail` check neither attempt nor status; `HolderDecides` is about the one
  worker that fences itself. A worker that dies on its last
  attempt leaves the row `RUNNING` for ever, except for host audio, which is reconciled.

## 5. Proofs

Eight modules of proofs, one for each component or composition; each EXTENDS the module it is about.
They hold for every value of the constants that satisfies the ASSUMEs of the modules, which every run
evaluates: any numbers of processes, users, connections, rooms, runs, debaters, workers and pieces of
audio, any plan of a match, any sizes and bounds.

| Module | Theorems and the properties they state |
| --- | --- |
| `ActorPipeline_proofs` | `TypeCorrect` (`TypeOK`), `MemoryNeverForks` (`MemoryIsPrefix`), `EffectsAreIdempotent` (`EffectOnce`), `NobodyIsStranded` (`NobodyStranded`), `PublishedAfterStored` (`PublishedIsStored`), `HistoryRefined` (`HistoryOnlyGrows`: initial states map to initial states, steps to steps or stutters) |
| `MatchFlow_proofs` | `TypeCorrect` (`TypeOK`), `PendingIsHeld` (`PendingHolds`), `FailedIsHeld` (`RunningIsRecognised`), `CheckpointOfStage` (`CheckpointCurrent`), `BudgetNeverExceeded` (`SpokenBounded`), `PauseIsKept` (`HeldMatchStaysPaused`), `SpeechHasItsTime` (`TimersNeverCutShort`), `NoWaitForgotten` (`WaitHasEnd`) |
| `Participants_proofs` | of the connection, `TypeCorrect`, `LeaseNeverOutdated` (`LeaseIsNewest`), `ConnectedIsAnnounced` (`ConnectedIsOnline`), `CoordinatorAndActorAgree` (`AnnouncedIsKnown`), `RevokedNeverReturns` (`RevokedStaysOffline`); of the rooms, `ParticipantTypes` (`MCTypeOK`), `OneRoomPerUser` (`OneOpenRoom`), `CapacityNeverExceeded` (`CapacityHeld`), `SeatsBelongToDebaters` (`SeatsAreTaken`), `OutcomesAgree` (`OutcomesMatch`, and `AttemptsAgree` if no room is closed under its match) |
| `FreeDebate_proofs` | `DebateTypes`, `BalanceKept`, `BudgetsKept` (`BudgetAccounts`) |
| `FreeHands_proofs` | `HandsKeptUp`, `HumansSpeakFirst` (`HumansFirst`) |
| `Debate_proofs` | `MediaInvariance`, `SilencedStaysSilent` (`NoLateAudio`), `RowsSettleOnce` (`SettledOnce`), `EachPieceOnce` (`TranscriptExact`); of the composition, `TypeCorrect` (`MCTypeOK`), `BudgetsAccounted` (`BudgetAccounts`) |
| `Liveness_proofs` | `AudioTypes` (`MCTypeOK`), `AudioIsCurrent` (`ReadyAudioIsCurrent`), `HolderKeepsItsTask` (`HolderDecides`) |
| `Postmatch_proofs` | `TypeCorrect` (`PostmatchTypeOK`), `SecretsKept` (`ResultsKeptSecret`) |

Each module states its inductive invariant first, clause by clause; TLC checked it before it was
proved. One lemma for each action, or for each operator several actions are built from, says that it
keeps the invariant; the last lemma of a component splits on the disjuncts of `Next`. Facts about
sequences, finite sets and greatest elements that the steps need are lemmas of their own at the top.

*ActorPipeline.* `MemoryIsPrefix` is not inductive: an actor that has computed a candidate may find
the row changed under it. `HandOK`: an actor has a command in hand exactly in the phases after `Take`,
only while its runner runs. `CandidateOK`: the candidate is `mem` or `mem` with the command's message
id appended, and once stored it is a prefix of the row, so that `Ack` keeps `mem` a prefix. The fence
enters in `Store`: `mem` is a prefix of the row and has its length, so it *is* the row, and the new
row extends it. `RecognisedOK` and `FreshOK` say that a message id of the row that is not forgotten is
in the cache of every actor that remembers it, or in the hands of the actor that is about to put it
there; a candidate's id is therefore new to the row or forgotten, which is `EffectOnce`.
`NobodyStranded` is inductive with `TypeOK`. `SentOK`, that an actor publishes no more than it
remembers, turns `MemoryIsPrefix` into `PublishedIsStored`.

*MatchFlow.* The handlers are operators on the record of the match, so most clauses are predicates of
a record and are proved to be kept by the operators before the actions are looked at. `ShapeOK` says
which action states go with which status and what a held match would restore. `PendingOK` ties a
pending operation to the action and the failure it belongs to, and a worker, if there is one, to the
operation; `FailedOK` says where a
failed recognition can be, and with that `RunningIsRecognised` follows. `CkptOK`: the checkpoint is of
the stage of the current action, or the stage is about to be entered. `SpokenOK` and `ClockOK` are the
accounting behind `SpokenBounded`: what was spoken and what may still be spoken (the clock while it
runs, the rest while it is stopped) make no more than the budget, and a turn that would be granted a
full budget has spent nothing. `HoldOK`: an acknowledged pause has left nothing that resumes by itself.
`TimerOK` and `QueueOK`: a queued deadline that carries the token of the current speech finds its time
up. The proof of `TimersNeverCutShort` as first stated failed, and rightly: `preparation.elapsed` does not
say which preparation it is of (`domain.py:1189`), and with a queue of two a timer of the preparation
before a reset ends the one after it early. The property is now about speeches, whose deadline
carries the token of its start, and the comment beside it says what is not promised.
`WaitHasEnd` is about every kind of wait, and one slot serves them all. `WaitInv` says what each
entry of the slot and of the queue is (only the commands of speeches carry the token of a start, only the
host's a guard), that unless the fixed message id of the action has been answered the entry that ends
the present wait is armed or queued, carries its token or guard, and hence applies when it is
delivered; and that a handler either leaves the wait and arms the next one itself or leaves it as
it was. A stopped clock is watched by a queued error, the grace timer of the absent speaker, the
setting up of the media, or it is the state of an earlier absence that `StoppedClockReturns` is about.

*Presence.* `CallTypeOK` describes the transition that holds the coordinator's lock, `HandlerOK` where
the handler of a connection is while it waits for that lock, `ToldOK` that whoever is connected is
announced or about to be, in the present state and in the one a failed announcement goes back to;
`OpenOK` that an open connection that holds the lease is known to the coordinator. `KnownOK` says that
the actor still knows what it took, as reports that go around the coordinator are of older epochs;
`RevokeOK` what is left of a user whose session was invalidated.

*Rooms.* `RowsAgree` relates the rows of room, match and attempt; `CapacityCounted` is the count
`start_room` makes, over rooms whose match is still to start too; `OpenOnce` is the check of one
participation for whoever takes part in an open room, in whatever role; `ActiveOnce` and `CountedOnce`
are about the attempts of a scheduled match, the one through the index of active attempts, the other
through the check of `enter_scheduled_match`; `SeatedOnce` and `SeatedDebate` are about seats. Capacity,
participation and the scheduled match are promised under the hypothesis `~CloseRunning`, that nobody
closes a room through its own interface during its match: the run `room_closed` shows that the code
breaks the capacity otherwise, and with it the count; participation and the scheduled match rest on the
room being in the state of its match, which it then is not. Types, seats, the outcome of a room and its
attempt (`OutcomesMatch`) and the one active attempt need no such hypothesis, so for them a room may be
closed under its match and be opened again by it.

*Free debate.* A handler is an operator on the record `d`, and each has a lemma that says what it leaves
and what it makes of the fields, from which the type invariant and the accounts both follow. The type
invariant is inductive with bounds on what a speech has used. `BudgetAccounts` is not: between the
freeze of a charge and the end of its turn, a budget holds neither what is left nor what was granted.
`Balance` says what is owed in each such state: an unsettled charge has spoken what it used and what its
clock has run down (`Settles`), a settled one has paid what was spoken since it began (`Pays`), a turn
that has not begun has spoken nothing, or what an interrupted agent has paid already (`OwnTurn`), and
hands can pay for a turn, so that nobody is chosen on an empty budget. The first attempt failed, and
with a reason: when `_lock_experiment_selection_if_ready` chooses an agent out of a turn that was not
finished, it leaves `speech_budget_start_ms` of the speech before, and a reset of the agent then gives
the *new* side what the *old* speech had to spend. `StaleCharge` names the state, `Stale` says where it
can arise, and `waived` is set by a reset in it. From the first waived interruption on (section 4 lists
what the code does to the budgets there) `Balance` says nothing, so `BudgetsKept` covers pauses, resets,
retries and late final texts and is silent about failed agents, recognition that fails while a human
speaks, and restarts.

`HumansFirst` needs to know where the hands raised for the next turn are in every state, and has an
invariant of its own, `Stands`, without waivers. `HandsUp`: a hand that is up was raised by somebody who can
pay. `Phased`: which phase goes with which state. `Choosing` with `Best`: in a selection all hands of the
holder stand, and no others but on an unforfeited rest. `OnFloor`: during a turn the hands that stand are
of the other side, and all are kept if that side can speak. `Heard`: a speech that opened no opportunity
keeps its hands for the turn to come. `Awaiting`, `Voiced`, `Unspoken`: a human about to speak, an agent
that speaks, and the beginning, where a turn may be chosen, stopped or lost. A pause in a selection and a
restart clear the turn's side, which is why the exception is about the rest of the other side and not
about the turn that kept it.

*Agent media.* `LockOK`: whoever captures audio has the media lock. `SilenceOK`: a run that was silenced
is fenced, nothing of it is queued, and nobody captures for it. `BeginOK` and `SpeechOK` are the order of the
tasks of a run: loaded, created, streamed, played, finalized once. `RowOK` is why a cancelled row is
never stored: whoever would store it is not registered, is over, or never spoke. `ActorOK` says which
run the actor waits for.

*Recognition.* `TranscriptExact` needs to know where all that was heard is, in every state. `Fits`: the
text of a session is what came with it and the confirmed prefix of its audio. `LiveOK`: a session holds
all that was heard (`Whole`); if it is failing it is retained as well; a session that answers a pause is
fenced and no replay, so a failure during it is not reported; a replay runs only in a match in error,
and its envelope is newer than its source's. `GoneOK`: without a session the checkpoint of a pause holds
everything, or the retained recording does, never both. `ReportOK`: a final text on its way to the actor
carries an envelope, and if that is the session's or the recording's it is that one's whole text, so a
late report of an earlier envelope stores nothing. `CoreOK`: what is stored is stored at the end of a
speech without a session. Most of the work is in the sequences (a prefix, its rest, and what comes
before them), which are lemmas about opaque sequences.

*Host audio.* `ClaimsExist` and `ClaimsDiffer`: a claim is of an attempt that was made, and no two workers
make the same one, so the end of a lease is the only thing that takes a task away. `TasksKnown` and
`TextCurrent`: whoever works for the current generation says what its manifest says; a late result of
an earlier one is refused by its generation.

*Postmatch.* `HoldingOK` and `QueueOK` bound the queue. `CountOK` is the step that a lock would make
trivial: a submission that has counted is still pending, and what it counted is committed and stays so;
hence a count of all is right, though it is made outside any common lock. `SecretOK` follows the
result through reading and showing the ranking.

Assumptions. Beside those of the types: `MatchesAssumption` (the plans are what `compile_linear_actions`
returns), `RoomsAssumption` (finitely many rooms, the seats of a formal match are given to different
participants, and there are enough agents to seat), `AudioAssumption` (a generation has no more
segments than tasks may be made), `RaterAssumption` (finitely many debaters); bounds are natural
numbers.

What the model changed for. Operators that replaced a field of a record whose value was computed from
the record itself several times (`Reseated`, `Attempt` in `Rooms`, the number of an attempt in `HostAudio`) got
names of their own, so did the updates of a run in `AgentRuntime` (`With`, `Return`), and its rows are
indexed by pairs; the states TLC finds are the same. Looking for the invariant that `HumansFirst`
needs showed that `Lock` did not drop the hands of the other side as
`_lock_experiment_selection_if_ready` does, and that a refused command is not put in the cache; with
both corrected, two pauses give the behaviour of `WindowAlwaysCloses` in section 4. Looking for the one that
`BudgetAccounts` needs showed that the property compared a budget with more than its own charge when an
agent had been interrupted (hence `charged`), and that a final text could come for a speech whose
recognition had just failed (hence `HasEnded`); the hands that are kept are a recursive function
(`Keep`), as the prover cannot use the library's selection. Proving `HumansFirst` showed that its exception
had to be about the rest that was not forfeited (`Unforfeited`).

Left to TLC, and why:

* `EveryCallerAnswered`, `TimedWaitsEnd`, `RecognitionEnds`, `GenerationSettles`, `ScoreIsRanked`: liveness
  under fairness is out of the prover's reach.
* `FreeDebate!SelectionHasTimer`: not proved yet. TLC checked the invariant it needs on larger instances
  than the run's (both sides with humans and agents, two interruptions).
* The properties of the runs that expect a violation, which do not hold.

## 6. Not modelled

* In the pipeline: the tables beside the row, the eviction of finished actors after a minute, the
  startup cleanup order.
* In the flow: the identity envelopes of callbacks (a callback is an input that may come
  whenever its handler would accept it); connection epochs (a reconnection is newer: that is
  `Presence`); the capacity and timeouts of placeholder workers (that one ends without having settled
  its operation is modelled); a `system.error` whose own
  transaction fails as well; a user speaking in two actions at a time, which a plan cannot have.
* In the free debate: the absence of speakers, `speech.skip` and `stage.reset`.
* In presence: a token requested without a connection epoch (the web client always sends it); joining
  and leaving the room outside the match, which write `room_members.online` too; a handshake that
  fails after its lease; the failure of a transition's own transaction, and a full queue, which is
  swallowed like a refusal; the eviction above 2048 events and above the bound of the tombstones;
  spectators, whose flag the handler writes itself; other users.
* In rooms: terms of participation, device checks and the online flag, which are one `READY`; lobby
  listings; the generation of a schedule and the quota of training matches; the rooms an administrator
  opens for agents alone (`rooms/service.py:560`, `899`), in which nobody sits and which hold a place of the
  capacity like any other.
* After the match: transcripts and their archiving, drafts of annotations, expert tasks, the limits of
  what a judge is shown, training matches (never ranked), rules that keep their matches off the leaderboard
  (`ScoreIsRanked` is about the others), the batches in which other matches are ranked.
* In host audio: the synthesis itself and its files; a claim that finds nothing because another
  request holds the row of the only task; the other workers of the queue.
* In the agent runtime: the playback of hosts, decisions (their answers are in `FreeDebate`), provider
  calls and their capacity; a reset after a pause that begins later than the resume countdown.
* In recognition: tracks and connection epochs, the recording file, the recovery of a recording after a
  restart, the queue of audio and its watchdog (they end a session like any other failure), the
  failed storage of a failure, late final texts of the free debate.
* The components listed as `not_modelled` in `PROJECT.json`, each with its reason.
