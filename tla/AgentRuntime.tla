---------------------------- MODULE AgentRuntime ----------------------------
(* The media of a match's agents (agent/runtime.py): a run generates a speech *)
(* and plays it, while the match actor starts, fences, resets and finalizes   *)
(* runs (matches/service.py). Tasks of one event loop: a step ends where the  *)
(* code awaits. A cancelled task may take any time to stop, so whoever        *)
(* cancelled it goes on without it. Hosts and free-debate decisions are left  *)
(* out; a reset that follows a pause starts before the match resumes.         *)
EXTENDS Naturals

CONSTANTS
    MaxRuns,           \* runs in one behaviour
    MaxTroubles        \* pauses, resets and failures

VARIABLES
    runs,          \* AgentRun
    registered,    \* _runs[match_id]
    started,       \* how many runs have been started
    mediaLock,     \* _media_lock: the run whose player or tail holds it
    rows,          \* AgentGeneration: status, by run and attempt
    cancels,       \* _cancel_run: where it stands
    finals,        \* finalize_agent: where it stands
    start,         \* start_agent: where it stands, and _pending_media_starts
    action,        \* the actor: state of the current action
    speaker,       \* the actor: whose speech it is
    actor,         \* what the actor waits for
    resetting,     \* _reset_interrupted_agent has been spawned
    troubles  \* counts up to MaxTroubles

agentVars == <<runs, registered, started, mediaLock, rows, cancels, finals, start,
               action, speaker, actor, resetting, troubles>>

Runs == 1..MaxRuns
None == 0
NoRun == [at |-> "none", attempt |-> 1, player |-> "none", fenced |-> FALSE, finalizing |-> FALSE,
          spoke |-> FALSE, natural |-> FALSE, cancelled |-> FALSE, queued |-> FALSE,
          silenced |-> FALSE]
Settled == {"FAILED", "CANCELLED", "FINALIZED"}
Idle == [waits |-> "idle", run |-> None]
Busy(waits, r) == [waits |-> waits, run |-> r]

AgentTypeOK ==
    /\ \A r \in Runs :
        /\ runs[r].at \in {"none", "loading", "creating", "created", "connecting", "streaming",
                           "drained", "failing", "reporting", "done"}
        /\ runs[r].player \in {"none", "frames", "asking", "capturing", "ended", "refused"}
        /\ runs[r].attempt \in {1, 2}
        /\ runs[r].queued => runs[r].at \notin {"none", "loading"}
    /\ {registered, mediaLock, started, speaker} \subseteq 0..MaxRuns
    /\ rows \in [Runs \X {1, 2} -> {"none", "GENERATING"} \cup Settled]
    /\ cancels \in [Runs -> {"none", "clear", "task", "cleanup", "done"}]
    /\ finals \in [Runs -> {"none", "completed", "truncated", "tail", "tailing", "drain", "check",
                            "persist", "delivering", "cancelled", "closing", "closed"}]
    /\ start \in {"none", "pending", "retired"}
    /\ action \in {"PREPARING", "SPEAKING", "FINALIZING", "PAUSED"}
    /\ actor \in [waits : {"idle", "fencing", "cancelling"}, run : 0..MaxRuns]

Init ==
    /\ runs = [r \in Runs |-> NoRun]
    /\ registered = None /\ started = 0 /\ mediaLock = None
    /\ rows = [row \in Runs \X {1, 2} |-> "none"]
    /\ cancels = [r \in Runs |-> "none"]
    /\ finals = [r \in Runs |-> "none"]
    /\ start = "pending"
    /\ action = "PREPARING" /\ speaker = None /\ actor = Idle
    /\ resetting = FALSE /\ troubles = 0

-----------------------------------------------------------------------------
(* A run *)

Current(r) == registered = r /\ ~runs[r].fenced
RowOf(r) == rows[<<r, runs[r].attempt>>]
SetRow(r, status) == [rows EXCEPT ![<<r, runs[r].attempt>>] = status]

\* _mark_generation_failed: what has ended keeps its end.
MarkFailed(r, status) == IF RowOf(r) = "GENERATING" THEN SetRow(r, status) ELSE rows

With(run, fields) == [k \in DOMAIN run |-> IF k \in DOMAIN fields THEN fields[k] ELSE run[k]]
Update(r, fields) == [runs EXCEPT ![r] = With(@, fields)]
At(r, at) == Update(r, [at |-> at])

\* The task ends; nobody else owns the handle of a run that failed or returned.
Return(r) ==
    /\ runs' = At(r, "done")
    /\ registered' = IF Current(r) /\ ~runs[r].finalizing THEN None ELSE registered

Unrun == UNCHANGED <<started, mediaLock, cancels, finals, start, action, speaker, actor,
                     resetting, troubles>>

\* _run_with_retry, up to the playback: every await is followed by a check.
Produce(r) ==
    /\ ~runs[r].cancelled /\ Unrun
    /\ \/ /\ runs[r].at = "loading" /\ ~Current(r)
          /\ Return(r) /\ UNCHANGED rows
       \/ /\ runs[r].at = "loading" /\ Current(r)
          /\ runs' = At(r, "creating") /\ UNCHANGED <<registered, rows>>
       \/ /\ runs[r].at = "creating"
          /\ rows' = SetRow(r, "GENERATING")
          /\ runs' = At(r, "created") /\ UNCHANGED registered
       \/ /\ runs[r].at = "created" /\ Current(r)
          /\ runs' = At(r, "connecting") /\ UNCHANGED <<registered, rows>>
       \/ /\ runs[r].at = "created" /\ ~Current(r)
          /\ rows' = MarkFailed(r, "CANCELLED") /\ Return(r)
       \/ /\ runs[r].at = "connecting" /\ Current(r)
          /\ runs' = Update(r, [at |-> "streaming", player |-> "frames"])
          /\ UNCHANGED <<registered, rows>>
       \/ /\ runs[r].at \in {"connecting", "streaming"} /\ ~Current(r)
          /\ Return(r) /\ UNCHANGED rows
       \/ /\ runs[r].at = "streaming" /\ Current(r) /\ runs[r].player = "ended" /\ ~runs[r].queued
          /\ runs' = Update(r, [at |-> "drained", natural |-> TRUE])
          /\ UNCHANGED <<registered, rows>>

\* A provider, a decoder or a refused callback fails the attempt; the second
\* one is made if nothing has been played.
Fail(r) ==
    /\ ~runs[r].cancelled
    /\ UNCHANGED <<started, mediaLock, cancels, finals, start, action, speaker, actor, resetting>>
    /\ \/ /\ troubles < MaxTroubles /\ troubles' = troubles + 1
          /\ \/ runs[r].at \in {"loading", "creating", "connecting"}
             \/ runs[r].at = "streaming" /\ runs[r].player # "asking"
          /\ IF Current(r) THEN runs' = At(r, "failing") /\ UNCHANGED registered ELSE Return(r)
          /\ UNCHANGED rows
       \/ /\ runs[r].at = "failing" /\ runs[r].player # "capturing"
          /\ rows' = MarkFailed(r, "FAILED") /\ UNCHANGED troubles
          /\ \/ /\ ~runs[r].spoke /\ runs[r].attempt = 1 /\ Current(r)
                /\ runs' = Update(r, [at |-> "loading", attempt |-> 2, player |-> "none"])
                /\ UNCHANGED registered
             \/ /\ runs[r].spoke \/ runs[r].attempt = 2
                /\ runs' = Update(r, [at |-> "reporting", player |-> "none"])
                /\ UNCHANGED registered
             \/ ~Current(r) /\ Return(r)

\* CancelledError reaches the task at its await.
Unwind(r) ==
    /\ runs[r].cancelled /\ runs[r].at \notin {"none", "done"}
    /\ Return(r)
    /\ UNCHANGED rows /\ Unrun

-----------------------------------------------------------------------------
(* The player of a run: _play_pcm *)

Unplayed == UNCHANGED <<registered, started, rows, cancels, finals, start, action, speaker,
                        actor, resetting, troubles>>

\* Mutant: the fence is not looked at again under the lock.
MayCaptureUnfenced(r) == TRUE

\* The check under the lock, after every wait for it.
MayCapture(r) == Current(r)

Play(r) ==
    /\ Unplayed
    /\ \/ /\ runs[r].player = "frames" /\ mediaLock = None
          /\ \/ /\ ~MayCapture(r)
                /\ runs' = Update(r, [player |-> "none"]) /\ UNCHANGED mediaLock
             \/ /\ MayCapture(r)
                /\ mediaLock' = r
                /\ runs' = Update(r, [player |-> IF runs[r].spoke THEN "capturing" ELSE "asking",
                                      spoke |-> TRUE])
       \/ /\ runs[r].player = "capturing"
          /\ runs' = Update(r, [player |-> "frames", queued |-> TRUE])
          /\ mediaLock' = None
       \/ /\ runs[r].player = "frames" /\ runs[r].spoke
          /\ runs' = Update(r, [player |-> "ended"]) /\ UNCHANGED mediaLock
       \/ /\ runs[r].queued
          /\ runs' = Update(r, [queued |-> FALSE]) /\ UNCHANGED mediaLock

\* The end of its run cancels the player, wherever it is.
StopPlayer(r) ==
    /\ runs[r].at \in {"done", "failing"} /\ runs[r].player \notin {"none", "ended"}
    /\ \E captured \in {runs[r].queued, runs[r].player = "capturing" \/ runs[r].queued} :
        runs' = Update(r, [player |-> "none", queued |-> captured])
    /\ mediaLock' = IF runs[r].player \in {"asking", "capturing"} THEN None ELSE mediaLock
    /\ Unplayed

-----------------------------------------------------------------------------
(* Retirement: _cancel_run, called by reset_agent *)

\* Nobody is between its check and its frame.
Quiet == mediaLock = None

Silence(r) == Update(r, [queued |-> FALSE, silenced |-> TRUE])

\* Mutant: cancellation does not look for the owner of a finalization.
MayMarkCancelledAlways(r) == TRUE

\* A finalizer that is storing the speech decides about its row.
MayMarkCancelled(r) == finals[r] # "persist"

Cancel(r) ==
    /\ \/ /\ cancels[r] = "clear" /\ Quiet
          /\ runs' = Silence(r)
          /\ cancels' = [cancels EXCEPT ![r] = "task"] /\ UNCHANGED rows
       \/ /\ cancels[r] = "task"
          /\ runs' = Update(r, [cancelled |-> TRUE])
          /\ cancels' = [cancels EXCEPT ![r] = "cleanup"] /\ UNCHANGED rows
       \/ /\ cancels[r] = "cleanup"
          /\ runs' = Update(r, [queued |-> FALSE])
          /\ rows' = IF runs[r].at # "created" /\ MayMarkCancelled(r)
                     THEN MarkFailed(r, "CANCELLED") ELSE rows
          /\ cancels' = [cancels EXCEPT ![r] = "done"]
    /\ UNCHANGED <<registered, started, mediaLock, finals, start, action, speaker, actor,
                   resetting, troubles>>

\* The fence of _cancel_run is set before it waits for anything.
Retire(r) ==
    /\ runs' = Update(r, [fenced |-> TRUE])
    /\ cancels' = [cancels EXCEPT ![r] = IF @ = "none" THEN "clear" ELSE @]

\* start_agent, spawned for agent.preparing. No run is left by then: the code's
\* cancellation of one that is still registered is not reached.
Start ==
    /\ \/ /\ start = "pending" /\ registered = None /\ started < MaxRuns
          /\ started' = started + 1
          /\ registered' = started + 1
          /\ runs' = At(started + 1, "loading")
       \/ /\ start = "retired"
          /\ UNCHANGED <<runs, started, registered>>
    /\ start' = "none"
    /\ UNCHANGED <<mediaLock, rows, cancels, finals, action, speaker, actor, resetting, troubles>>

\* retire_pending_media_start
RetireStart == start' = IF start = "none" THEN "none" ELSE "retired"

\* _reset_interrupted_agent
ResetInterrupted ==
    /\ resetting /\ resetting' = FALSE
    /\ RetireStart
    /\ IF registered = None THEN UNCHANGED <<runs, cancels>> ELSE Retire(registered)
    /\ registered' = None
    /\ UNCHANGED <<started, mediaLock, rows, finals, action, speaker, actor, troubles>>

-----------------------------------------------------------------------------
(* Finalization: finalize_agent *)

Final(r, from, to) == finals[r] = from /\ finals' = [finals EXCEPT ![r] = to]
Unfinal == UNCHANGED <<started, cancels, start, action, speaker, actor, resetting, troubles>>

\* After every wait of the tail: the run is still the registered one.
MayPersist(r) == registered = r

Finalize(r) ==
    /\ Unfinal
    /\ \/ /\ finals[r] \in {"completed", "truncated"} /\ (registered # r \/ runs[r].finalizing)
          /\ finals' = [finals EXCEPT ![r] = "closed"]
          /\ UNCHANGED <<runs, registered, mediaLock, rows>>
       \/ /\ Final(r, "completed", "tail") /\ registered = r /\ ~runs[r].finalizing
          /\ runs' = Update(r, [finalizing |-> TRUE]) /\ UNCHANGED <<registered, mediaLock, rows>>
       \/ /\ Final(r, "truncated", "check") /\ registered = r /\ ~runs[r].finalizing
          /\ runs' = Update(r, [finalizing |-> TRUE, queued |-> FALSE, cancelled |-> TRUE])
          /\ UNCHANGED <<registered, mediaLock, rows>>
       \/ /\ Final(r, "tail", IF Current(r) THEN "tailing" ELSE "cancelled") /\ mediaLock = None
          /\ mediaLock' = IF Current(r) THEN r ELSE None
          /\ UNCHANGED <<runs, registered, rows>>
       \/ /\ Final(r, "tailing", IF Current(r) THEN "drain" ELSE "cancelled")
          /\ mediaLock' = None
          /\ runs' = Update(r, [queued |-> Current(r)]) /\ UNCHANGED <<registered, rows>>
       \/ /\ Final(r, "drain", IF Current(r) THEN "check" ELSE "cancelled")
          /\ ~runs[r].queued \/ ~Current(r)
          /\ runs' = Update(r, [queued |-> FALSE]) /\ UNCHANGED <<registered, mediaLock, rows>>
       \/ /\ Final(r, "check", IF MayPersist(r) THEN "persist" ELSE "cancelled")
          /\ UNCHANGED <<runs, registered, mediaLock, rows>>
       \/ /\ Final(r, "persist", IF runs[r].natural /\ ~Current(r) THEN "closing" ELSE "delivering")
          /\ rows' = SetRow(r, "FINALIZED")
          /\ registered' = IF registered = r /\ finals'[r] = "delivering" THEN None ELSE registered
          /\ UNCHANGED <<runs, mediaLock>>
       \/ /\ Final(r, "persist", "cancelled")   \* the transaction fails, or takes too long
          /\ UNCHANGED <<runs, registered, mediaLock, rows>>
       \/ /\ Final(r, "cancelled", "closing")
          /\ rows' = MarkFailed(r, "CANCELLED") /\ UNCHANGED <<runs, registered, mediaLock>>
       \/ /\ Final(r, "closing", "closed")
          /\ registered' = IF registered = r THEN None ELSE registered
          /\ runs' = Update(r, [queued |-> FALSE]) /\ UNCHANGED <<mediaLock, rows>>

-----------------------------------------------------------------------------
(* The match actor: one command at a time, and it waits for the hooks *)

Unacted == UNCHANGED <<started, rows, cancels, finals, troubles>>

\* A player's first frame, an end of playback, the end of a finalization.
PlaybackStarted(r) ==
    /\ actor = Idle /\ runs[r].player = "asking"
    /\ IF action = "PREPARING" /\ Current(r)
       THEN /\ action' = "SPEAKING" /\ speaker' = r
            /\ runs' = Update(r, [player |-> "capturing"]) /\ UNCHANGED mediaLock
       ELSE /\ runs' = Update(r, [player |-> "refused"]) /\ mediaLock' = None
            /\ UNCHANGED <<action, speaker>>
    /\ Unacted /\ UNCHANGED <<registered, start, actor, resetting>>

PlaybackFinished(r) ==
    /\ actor = Idle /\ runs[r].at = "drained"
    /\ IF action = "SPEAKING" /\ speaker = r
       THEN /\ action' = "FINALIZING"
            /\ finals' = [finals EXCEPT ![r] = "completed"]
            /\ runs' = At(r, "done")        \* handed to the finalizer, still registered
       ELSE /\ runs' = At(r, "failing") /\ UNCHANGED <<action, finals>>
    /\ UNCHANGED <<registered, started, mediaLock, rows, cancels, start, speaker, actor,
                   resetting, troubles>>

SpeechDeadline ==
    /\ actor = Idle /\ action = "SPEAKING"
    /\ action' = "FINALIZING"
    /\ finals' = [finals EXCEPT ![speaker] = "truncated"]
    /\ UNCHANGED <<runs, registered, started, mediaLock, rows, cancels, start, speaker, actor,
                   resetting, troubles>>

Finalized(r) ==
    /\ actor = Idle /\ Final(r, "delivering", "closing")
    /\ IF action = "FINALIZING" /\ speaker = r
       THEN action' = "PREPARING" /\ speaker' = None /\ start' = "pending"
       ELSE UNCHANGED <<action, speaker, start>>
    /\ UNCHANGED <<runs, registered, started, mediaLock, rows, cancels, actor, resetting, troubles>>

\* match.paused, match.error: the fence comes before the broadcast, and the
\* reset after it.
Interrupt ==
    /\ action' = "PAUSED"
    /\ RetireStart
    /\ IF registered = None
       THEN actor' = Idle /\ resetting' = TRUE /\ UNCHANGED runs
       ELSE actor' = Busy("fencing", registered) /\ runs' = Update(registered, [fenced |-> TRUE]) /\ UNCHANGED resetting

Pause ==
    /\ actor = Idle /\ action # "PAUSED" /\ troubles < MaxTroubles
    /\ Interrupt
    /\ troubles' = troubles + 1
    /\ UNCHANGED <<registered, started, mediaLock, rows, cancels, finals, speaker>>

\* handle_agent_failure, while the producer waits for it; then it returns.
FailureReported(r) ==
    /\ actor = Idle /\ runs[r].at = "reporting"
    /\ \/ /\ action # "PAUSED" /\ Current(r) /\ (action = "PREPARING" \/ speaker = r)
          /\ action' = "PAUSED" /\ RetireStart
          /\ runs' = Update(r, [at |-> "done", fenced |-> TRUE])
          /\ actor' = Busy("fencing", r) /\ UNCHANGED <<registered, resetting>>
       \/ /\ action = "PAUSED" \/ ~Current(r) \/ (action # "PREPARING" /\ speaker # r)
          /\ Return(r) /\ UNCHANGED <<action, start, actor, resetting>>
    /\ Unacted /\ UNCHANGED <<mediaLock, speaker>>

\* fence_agent has the lock at last.
FenceDone ==
    /\ actor.waits = "fencing" /\ Quiet
    /\ runs' = Silence(actor.run)
    /\ actor' = Idle /\ resetting' = TRUE
    /\ Unacted /\ UNCHANGED <<registered, mediaLock, start, action, speaker>>

Resume ==
    /\ actor = Idle /\ action = "PAUSED" /\ ~resetting
    /\ action' = "PREPARING" /\ speaker' = None /\ start' = "pending"
    /\ Unacted /\ UNCHANGED <<runs, registered, mediaLock, actor, resetting>>

\* speech.reset: the run is retired before the commit.
ResetSpeech ==
    /\ actor = Idle /\ action # "FINALIZING" /\ troubles < MaxTroubles
    /\ troubles' = troubles + 1
    /\ RetireStart
    /\ actor' = Busy("cancelling", registered) /\ speaker' = None
    /\ IF registered = None THEN UNCHANGED <<runs, cancels>> ELSE Retire(registered)
    /\ registered' = None
    /\ UNCHANGED <<started, mediaLock, rows, finals, action, resetting>>

ResetDone ==
    /\ actor.waits = "cancelling"
    /\ actor.run # None => cancels[actor.run] = "done"
    /\ actor' = Idle /\ action' = "PREPARING" /\ start' = "pending"
    /\ Unacted /\ UNCHANGED <<runs, registered, mediaLock, speaker, resetting>>

Next ==
    \/ \E r \in Runs :
        \/ Produce(r) \/ Fail(r) \/ Unwind(r)
        \/ Play(r) \/ StopPlayer(r)
        \/ Cancel(r) \/ Finalize(r)
        \/ PlaybackStarted(r) \/ PlaybackFinished(r) \/ Finalized(r) \/ FailureReported(r)
    \/ Start \/ ResetInterrupted
    \/ SpeechDeadline \/ Pause \/ FenceDone \/ Resume \/ ResetSpeech \/ ResetDone

Spec == Init /\ [][Next]_agentVars

-----------------------------------------------------------------------------
(* What must hold *)

\* runtime.py, _cancel_run: "A cancelled generation must never enqueue another
\* frame after reset commits." However late its provider, player or finalizer.
NoLateAudio == \A r \in Runs : runs[r].silenced => ~runs[r].queued

\* A speech that was stored stays stored and a cancelled one is never stored:
\* a reset and a finalizer of the same run agree on who settles the row.
SettledOnce ==
    [][\A row \in Runs \X {1, 2} :
        rows[row] \in {"FINALIZED", "CANCELLED"} => rows'[row] = rows[row]]_agentVars

\* specs/261 and 305: late callbacks do not deadlock the match, and the media
\* lock is not held across a callback of the actor. A player that holds the
\* lock while the actor, which must answer it, waits for the lock.
NoWaitCycle ==
    ~(actor # Idle /\ \E r \in Runs : runs[r].player = "asking")
=============================================================================
