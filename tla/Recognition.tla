---------------------------- MODULE Recognition -----------------------------
(* The recognition of one human speech (asr/runtime.py, asr/session.py) and   *)
(* what the match actor does with it (matches/service.py, matches/domain.py): *)
(* the speech is paused and continued, recognition fails and is replayed, the *)
(* deadline passes, an operator retries or resets. A piece of audio is its    *)
(* number; the text of some audio is the sequence of its pieces. A step ends  *)
(* where the code awaits. The speech is one of a linear action.               *)
EXTENDS Naturals, Sequences, SequencesExt, Functions

CONSTANTS
    MaxAudio,          \* pieces of audio in one speech
    MaxEvents          \* disturbances of each kind; "all" of them with the audio

VARIABLES
    core,          \* MatchRuntimeState: status, state of the action, operation
    session,       \* _speech: the AsrSpeechSession that owns the receiver
    paused,        \* _paused_speech
    retained,      \* _retained_speech
    pauseRequested,\* _pause_requested
    waits,         \* who waits for the session: finish, pause or retry
    reports,       \* callbacks of the receiver in the queue of the actor
    envelopes,     \* how many CallbackEnvelopes have been made
    heard,         \* history: audio taken since recognition last began anew
    replays,       \* history: automatic replays since then
    stored,        \* Speech.asr_raw_final_text
    spent          \* the disturbances so far

recognitionVars == <<core, session, paused, retained, pauseRequested, waits, reports, envelopes,
                     heard, replays, stored, spent>>

NoSession == [envelope |-> 0, at |-> "none", initial |-> <<>>, text |-> <<>>, history |-> <<>>,
              confirmed |-> 0, closed |-> FALSE, fenced |-> FALSE, retriesLeft |-> 0,
              retried |-> FALSE, replay |-> FALSE]
NotPaused == [kept |-> FALSE, text |-> <<>>, retried |-> FALSE]
NoSource == [session |-> NoSession, current |-> FALSE]
NotStored == <<0>>
Nobody == [finish |-> FALSE, pause |-> FALSE, retry |-> FALSE]

\* Pauses, failures of the provider or a transaction, failed starts, retries and
\* resets by an operator.
Kinds == {"pauses", "faults", "starts", "retries", "resets"}

Running(action) == [status |-> "RUNNING", action |-> action, failed |-> FALSE, operation |-> FALSE]

Audio == Seq(1..MaxAudio)
Sessions ==
    [envelope : Nat, at : {"none", "ready", "streaming", "saving", "reporting", "failing"},
     initial : Audio, text : Audio, history : Audio, confirmed : 0..MaxAudio, closed : BOOLEAN,
     fenced : BOOLEAN, retriesLeft : {0, 1}, retried : BOOLEAN, replay : BOOLEAN]

RecognitionTypeOK ==
    /\ core \in [status : {"RUNNING", "PAUSED", "ERROR", "DONE"},
                 action : {"READY", "STARTING", "SPEAKING", "FINALIZING"},
                 failed : BOOLEAN, operation : BOOLEAN]
    /\ session \in Sessions /\ retained \in [session : Sessions, current : BOOLEAN]
    /\ paused \in [kept : BOOLEAN, text : Audio, retried : BOOLEAN]
    /\ pauseRequested \in BOOLEAN
    /\ waits \in [finish : BOOLEAN, pause : BOOLEAN, retry : BOOLEAN]
    /\ heard \in Audio /\ (stored = NotStored \/ stored \in Audio)
    /\ \A r \in reports : r.kind \in {"finalized", "failed", "retry failed"} /\ r.envelope <= envelopes

Init ==
    /\ core = Running("READY")
    /\ session = NoSession /\ paused = NotPaused /\ retained = NoSource
    /\ pauseRequested = FALSE /\ waits = Nobody
    /\ reports = {} /\ envelopes = 0
    /\ heard = <<>> /\ replays = 0 /\ stored = NotStored /\ spent = [kind \in Kinds |-> 0]

-----------------------------------------------------------------------------
(* The receiver *)

HasSession == session # NoSession
HasSource == retained # NoSource
Receiver == <<session, paused, retained, pauseRequested, waits>>

\* The bound: disturbances and pieces of audio together.
Within == SumFunction(spent) + Len(heard) < MaxEvents["all"]

Spend(kind) ==
    /\ spent[kind] < MaxEvents[kind] /\ Within
    /\ spent' = [spent EXCEPT ![kind] = @ + 1]

\* has_unconfirmed_audio, pcm_snapshot(unconfirmed_only)
Unconfirmed(s) == SubSeq(s.history, s.confirmed + 1, Len(s.history))

\* speech_callback_envelope: whose callbacks are still accepted.
Owns(envelope) ==
    IF HasSession THEN session.envelope = envelope /\ ~session.fenced
    ELSE retained.current /\ retained.session.envelope = envelope

\* recovery_source_envelope
OwnsSource(envelope) == HasSource /\ retained.session.envelope = envelope

Report(kind, s) == [kind |-> kind, envelope |-> s.envelope, text |-> s.text, recovery |-> FALSE]

\* Mutant: a speech that is being finalized is not told.
MayReportSpeaking(s) ==
    /\ \/ core.operation
       \/ core.status = "RUNNING" /\ core.action = "SPEAKING"
    /\ Owns(s.envelope)

\* handle_asr_failure: only a match that is in this speech is told.
MayReport(s) ==
    /\ \/ core.operation
       \/ core.status = "RUNNING" /\ core.action \in {"SPEAKING", "FINALIZING"}
    /\ Owns(s.envelope)

\* The last of _run_speech, in its finally. A pause that waited for the session
\* and finds no checkpoint but a recording reports it (_pause_human_input).
End(p, source, others) ==
    /\ session' = NoSession /\ pauseRequested' = FALSE /\ waits' = Nobody
    /\ paused' = p /\ retained' = source
    /\ reports' = others \cup
          IF waits.pause /\ ~p.kept /\ source.session.envelope = session.envelope
          THEN {[Report("failed", session) EXCEPT !.recovery = TRUE]} ELSE {}

Checkpoint(s) == [kept |-> TRUE, text |-> s.text, retried |-> s.retried]

\* Recognition ends with an exception: a pause keeps what is confirmed, anything
\* else keeps the session with its audio and tells the match.
RunFails(s, others) ==
    IF pauseRequested /\ Unconfirmed(s) = <<>>
    THEN End(Checkpoint(s), retained, others)
    ELSE LET closed == [s EXCEPT !.closed = TRUE] IN
         IF MayReport(s)
         THEN /\ session' = [closed EXCEPT !.at = "failing"]
              /\ retained' = [session |-> [closed EXCEPT !.at = "failing"], current |-> TRUE]
              /\ reports' = others \cup {Report("failed", s)}
              /\ UNCHANGED <<paused, pauseRequested, waits>>
         ELSE End(paused, [session |-> [closed EXCEPT !.at = "failing"], current |-> TRUE], others)

\* _retain_and_retire: the session loses the receiver, its task is cancelled.
Retire ==
    /\ retained' = [session |-> [session EXCEPT !.closed = TRUE], current |-> TRUE]
    /\ session' = NoSession /\ pauseRequested' = FALSE /\ waits' = Nobody
    /\ UNCHANGED paused

\* _detach_speech
Detach ==
    /\ session' = NoSession /\ paused' = NotPaused /\ retained' = NoSource
    /\ pauseRequested' = FALSE /\ waits' = Nobody
    /\ heard' = <<>> /\ replays' = 0

-----------------------------------------------------------------------------
(* The provider and the session: AsrSpeechSession.run *)

Listening == session.at = "streaming"
Progress == UNCHANGED <<core, envelopes, stored>>

\* feed_pcm, from the track of the speaker
Speak ==
    /\ Listening /\ ~session.closed /\ Len(heard) < MaxAudio /\ Within
    /\ heard' = Append(heard, Len(heard) + 1)
    /\ session' = [session EXCEPT !.history = Append(@, Len(heard) + 1)]
    /\ UNCHANGED <<paused, retained, pauseRequested, waits, reports, replays, spent>> /\ Progress

\* on_sentence: the end of a sentence confirms the audio before it.
Sentence ==
    /\ Listening
    /\ \E n \in session.confirmed + 1 .. Len(session.history) :
          session' = [session EXCEPT !.confirmed = n,
                          !.text = @ \o SubSeq(session.history, session.confirmed + 1, n)]
    /\ UNCHANGED <<paused, retained, pauseRequested, waits, reports, heard, replays, spent>>
    /\ Progress

\* Mutant: the replay sends all audio again after the confirmed text.
ReplayedFromStart(s) == [s EXCEPT !.retriesLeft = 0, !.retried = TRUE, !.confirmed = 0]

\* One automatic replay, from the first piece that is not confirmed.
Replayed(s) == [s EXCEPT !.retriesLeft = 0, !.retried = TRUE]

Replay ==
    /\ Listening /\ session.retriesLeft > 0
    /\ Spend("faults")
    /\ session' = Replayed(session) /\ replays' = replays + 1
    /\ UNCHANGED <<paused, retained, pauseRequested, waits, reports, heard>> /\ Progress

\* A failure that is not replayed; a closed session without audio always fails.
Fails ==
    /\ \/ session.at \in {"ready", "streaming", "saving"} /\ Spend("faults")
       \/ Listening /\ session.closed /\ session.history = <<>> /\ UNCHANGED spent
    /\ RunFails(session, reports)
    /\ UNCHANGED <<heard, replays>> /\ Progress

\* All audio was sent and the provider has finished.
Complete ==
    /\ Listening /\ session.closed /\ session.history # <<>>
    /\ session' = [session EXCEPT !.at = "saving", !.confirmed = Len(session.history),
                                  !.text = @ \o Unconfirmed(session)]
    /\ UNCHANGED <<paused, retained, pauseRequested, waits, reports, heard, replays, spent>>
    /\ Progress

\* The segment is stored and run returns: a checkpoint, or the final text.
Saved ==
    /\ session.at = "saving"
    /\ IF pauseRequested THEN End(Checkpoint(session), retained, reports)
       ELSE /\ session' = [session EXCEPT !.at = "reporting"]
            /\ reports' = reports \cup IF Owns(session.envelope) THEN {Report("finalized", session)} ELSE {}
            /\ UNCHANGED <<paused, retained, pauseRequested, waits>>
    /\ UNCHANGED <<heard, replays, spent>> /\ Progress

\* Twenty seconds after the input was closed. finish_speech retires the session;
\* the deadline of _finish_human_speech and _retry_human_asr around it may fire
\* first and leave the session alone. Nobody tells the match of a pause.
Deadline ==
    /\ session.closed /\ waits # Nobody
    /\ \/ Retire
       \/ /\ ~waits.pause
          /\ waits' = Nobody /\ UNCHANGED <<session, paused, retained, pauseRequested>>
    /\ reports' = reports \cup
          IF waits.retry THEN {Report("retry failed", session)}
          ELSE IF waits.finish /\ ~waits.pause /\ MayReport(session)
          THEN {Report("failed", session)} ELSE {}
    /\ UNCHANGED <<heard, replays, spent>> /\ Progress

-----------------------------------------------------------------------------
(* The match actor *)

Free == core.action # "STARTING"       \* it handles one command at a time

\* _speech_start and start_speech: a paused speech goes on where it stopped, any
\* other one begins anew.
NewSession(text, retried) ==
    [NoSession EXCEPT !.envelope = envelopes + 1, !.at = "ready", !.initial = text, !.text = text,
                      !.retriesLeft = IF retried THEN 0 ELSE 1, !.retried = retried]

BeginStart ==
    /\ core.status = "RUNNING" /\ core.action = "READY" /\ ~HasSession
    /\ core' = [core EXCEPT !.action = "STARTING"]
    /\ session' = NewSession(paused.text, paused.retried) /\ envelopes' = envelopes + 1
    /\ paused' = NotPaused
    /\ IF paused.kept THEN UNCHANGED <<retained, heard, replays>>
       ELSE retained' = NoSource /\ heard' = <<>> /\ replays' = 0
    /\ UNCHANGED <<pauseRequested, waits, reports, stored, spent>>

\* commit_speech_start opens the input of the session, if it is still there.
CommitStart ==
    /\ core.action = "STARTING"
    /\ core' = [core EXCEPT !.action = "SPEAKING"]
    /\ session' = IF HasSession THEN [session EXCEPT !.at = "streaming"] ELSE session
    /\ UNCHANGED <<paused, retained, pauseRequested, waits, reports, envelopes, heard, replays,
                   stored, spent>>

\* Provider or track are not ready in time, or the transaction fails.
StartFails ==
    /\ core.action = "STARTING" /\ Spend("starts")
    /\ core' = [core EXCEPT !.action = "READY"]
    /\ Detach
    /\ UNCHANGED <<reports, envelopes, stored>>

\* speech.finish or speech.deadline; then _finish_human_speech.
Finish ==
    /\ core.status = "RUNNING" /\ core.action = "SPEAKING"
    /\ core' = [core EXCEPT !.action = "FINALIZING"]
    /\ IF HasSession
       THEN /\ session' = [session EXCEPT !.closed = TRUE] /\ waits' = [waits EXCEPT !.finish = TRUE]
            /\ UNCHANGED reports
       ELSE /\ reports' = reports \cup IF retained.current THEN {Report("failed", retained.session)} ELSE {}
            /\ UNCHANGED <<session, waits>>
    /\ UNCHANGED <<paused, retained, pauseRequested, envelopes, heard, replays, stored, spent>>

\* _asr_finalized and its pre-commit check; a refusal fails the sender.
MayFinalize(r) ==
    /\ Owns(r.envelope)
    /\ core.operation \/ (core.status = "RUNNING" /\ core.action = "FINALIZING")

Sender(r, at) == session.at = at /\ session.envelope = r.envelope

Finalized(r) ==
    /\ r.kind = "finalized" /\ Free
    /\ \/ /\ MayFinalize(r)
          /\ stored' = r.text /\ core' = [Running("FINALIZING") EXCEPT !.status = "DONE"]
          /\ IF Sender(r, "reporting") THEN End(paused, NoSource, reports \ {r})
             ELSE reports' = reports \ {r} /\ UNCHANGED Receiver
          /\ UNCHANGED spent
       \/ /\ IF MayFinalize(r) THEN Spend("faults") ELSE UNCHANGED spent
          /\ IF Sender(r, "reporting") THEN RunFails(session, reports \ {r})
             ELSE reports' = reports \ {r} /\ UNCHANGED Receiver
          /\ UNCHANGED <<core, stored>>
    /\ UNCHANGED <<envelopes, heard, replays>>

\* _asr_failed and its pre-commit check
MayFail(r) ==
    IF r.recovery
    THEN core.status \in {"RUNNING", "PAUSED"} /\ OwnsSource(r.envelope)
    ELSE (core.status = "RUNNING" \/ core.operation) /\ Owns(r.envelope)

\* handle_asr_failure swallows a refusal.
Failed(r) ==
    /\ r.kind = "failed" /\ Free
    /\ core' = IF MayFail(r)
               THEN [core EXCEPT !.status = "ERROR", !.failed = TRUE, !.operation = FALSE] ELSE core
    /\ IF Sender(r, "failing") /\ ~r.recovery THEN End(paused, retained, reports \ {r})
       ELSE reports' = reports \ {r} /\ UNCHANGED Receiver
    /\ UNCHANGED <<envelopes, heard, replays, stored, spent>>

RetryFailed(r) ==
    /\ r.kind = "retry failed" /\ Free
    /\ core' = [core EXCEPT !.operation = FALSE]
    /\ reports' = reports \ {r}
    /\ UNCHANGED Receiver /\ UNCHANGED <<envelopes, heard, replays, stored, spent>>

\* fence_speech_input and the pause_speech spawned after it, as one step. That
\* the session has ended in between, so that pause_speech finds nothing to
\* pause, is not reached: who asks for the recovery then differs, what has been
\* recognised does not.
Fence ==
    /\ IF HasSession
       THEN /\ session' = [session EXCEPT !.closed = TRUE, !.fenced = TRUE]
            /\ pauseRequested' = TRUE /\ waits' = [waits EXCEPT !.pause = TRUE]
       ELSE UNCHANGED <<session, pauseRequested, waits>>
    /\ retained' = [retained EXCEPT !.current = FALSE]
    /\ UNCHANGED paused

Pause ==
    /\ core.status = "RUNNING" /\ Free /\ Spend("pauses")
    /\ core' = [core EXCEPT !.status = "PAUSED"]
    /\ Fence
    /\ UNCHANGED <<reports, envelopes, heard, replays, stored>>

\* match.resume and its countdown: the speaker has the floor again.
Resume ==
    /\ core.status = "PAUSED"
    /\ core' = Running("READY")
    /\ UNCHANGED Receiver /\ UNCHANGED <<reports, envelopes, heard, replays, stored, spent>>

\* asr.retry.begin and retry_from_recording: the recording is recognised from
\* the first piece not confirmed, or all of it if there is none.
Recovery(s) ==
    LET rest == Unconfirmed(s)
        text == IF rest = <<>> THEN s.initial ELSE s.text IN
    [NoSession EXCEPT !.envelope = envelopes + 1, !.at = "streaming", !.closed = TRUE,
                      !.initial = text, !.text = text, !.retried = s.retried, !.replay = TRUE,
                      !.history = IF rest = <<>> THEN s.history ELSE rest]

RetryBegin ==
    /\ core.status = "ERROR" /\ core.failed /\ ~core.operation
    /\ HasSource /\ retained.session.history # <<>>
    /\ Spend("retries")
    /\ core' = [core EXCEPT !.operation = TRUE]
    /\ IF HasSession
       THEN /\ reports' = reports \cup {Report("retry failed", retained.session)}
            /\ UNCHANGED <<session, retained, waits, envelopes>>
       ELSE /\ session' = Recovery(retained.session) /\ envelopes' = envelopes + 1
            /\ retained' = [retained EXCEPT !.current = FALSE]
            /\ waits' = [waits EXCEPT !.retry = TRUE]
            /\ UNCHANGED reports
    /\ UNCHANGED <<paused, pauseRequested, heard, replays, stored>>

\* match.pause during a retry cancels it.
RetryCancel ==
    /\ core.status = "ERROR" /\ core.operation
    /\ core' = [core EXCEPT !.operation = FALSE]
    /\ IF session.replay
       THEN /\ retained' = [session |-> [session EXCEPT !.fenced = TRUE], current |-> FALSE]
            /\ session' = NoSession /\ pauseRequested' = FALSE /\ waits' = Nobody
            /\ UNCHANGED paused
       ELSE Fence
    /\ UNCHANGED <<reports, envelopes, heard, replays, stored, spent>>

\* speech.reset: the speech starts over under a new id.
Reset ==
    /\ core.status # "DONE" /\ Free /\ ~core.operation /\ Spend("resets")
    /\ core' = Running("READY")
    /\ Detach
    /\ UNCHANGED <<reports, envelopes, stored>>

Handle == \E r \in reports : Finalized(r) \/ Failed(r) \/ RetryFailed(r)

Next ==
    \/ Speak \/ Sentence \/ Replay \/ Fails \/ Complete \/ Saved \/ Deadline
    \/ BeginStart \/ CommitStart \/ StartFails \/ Finish \/ Handle
    \/ Pause \/ Resume \/ RetryBegin \/ RetryCancel \/ Reset

RecognitionSpec == Init /\ [][Next]_recognitionVars

-----------------------------------------------------------------------------
(* Properties *)

\* What a session, a checkpoint or a recording can still turn into text.
Covered ==
    IF stored # NotStored THEN stored
    ELSE IF HasSession THEN session.text \o Unconfirmed(session)
    ELSE IF paused.kept THEN paused.text
    ELSE retained.session.text \o Unconfirmed(retained.session)

\* Whatever fails, is replayed, paused, continued or retried, exactly the audio
\* taken since recognition began, each piece once and in order, is or will be
\* the text of the speech; and it is replayed automatically once at most
\* (AsrSpeechSession.run, _start_speech_locked, _run_speech).
TranscriptExact == Covered = heard /\ replays <= 1

\* A speech that is being finalized is stored, fails or is interrupted, and a
\* retry comes to an end, even if the provider never answers (finish_speech).
RecognitionEnds ==
    /\ (core.status = "RUNNING" /\ core.action = "FINALIZING")
         ~> ~(core.status = "RUNNING" /\ core.action = "FINALIZING")
    /\ core.operation ~> ~core.operation

\* A speech that is paused and continued keeps its text and audio: nothing that
\* was heard is forgotten unless the speech is reset (start_speech, reset_speech).
NothingForgotten == [][spent'.resets = spent.resets => IsPrefix(heard, heard')]_recognitionVars
=============================================================================
