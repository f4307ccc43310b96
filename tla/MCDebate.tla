----------------------------- MODULE MCDebate ------------------------------
(* A free debate, the media of the agents and the recognition of a human that *)
(* speak in it. FreeDebate answers for media and recognition what the actors  *)
(* of AgentRuntime and Recognition answer themselves: the three share no      *)
(* variable, so each behaviour is of one of them.                             *)
EXTENDS MCFreeDebate, TLC

CONSTANTS MaxRuns, MaxTroubles, MaxAudio, MaxEvents

VARIABLES
    subject,                                   \* "debate", "media" or "speech"
    runs, registered, started, mediaLock, rows, cancels, finals, start,
    action, speaker, actor, resetting, troubles,
    core, session, paused, retained, pauseRequested, waits, reports, envelopes, heard, replays,
    stored, spent

AG == INSTANCE AgentRuntime
RG == INSTANCE Recognition

\* A behaviour has so many runs, pieces of audio and disturbances.
ASSUME MediaAssumption == MaxRuns \in Nat /\ MaxTroubles \in Nat /\ MaxAudio \in Nat

media == <<runs, registered, started, mediaLock, rows, cancels, finals, start,
           action, speaker, actor, resetting, troubles>>
speech == <<core, session, paused, retained, pauseRequested, waits, reports, envelopes, heard,
            replays, stored, spent>>
MCvars == <<subject, vars, media, speech>>

\* A speech that is paused, fails, is replayed and retried.
Events == [pauses |-> 1, faults |-> 2, starts |-> 1, retries |-> 1, resets |-> 1, all |-> 4]

MCInit == subject \in {"debate", "media", "speech"} /\ Init /\ AG!Init /\ RG!Init

OfDebate == subject = "debate" /\ Next /\ UNCHANGED <<subject, media, speech>>
OfMedia == subject = "media" /\ AG!Next /\ UNCHANGED <<subject, vars, speech>>
OfSpeech == subject = "speech" /\ RG!Next /\ UNCHANGED <<subject, vars, media>>

MCNext == OfDebate \/ OfMedia \/ OfSpeech
MCSpec == MCInit /\ [][MCNext]_MCvars

\* The debate, the media and the speech keep their types.
MCTypeOK ==
    /\ subject = "debate" => TypeOK
    /\ subject = "media" => AG!AgentTypeOK
    /\ subject = "speech" => RG!RecognitionTypeOK

\* As AgentRuntime states them: no audio after a reset or a fence, and one end
\* for every stored generation.
NoLateAudio == AG!NoLateAudio
SettledOnce == AG!SettledOnce

\* As Recognition states it: each piece of audio is text once and in order.
TranscriptExact == RG!TranscriptExact
=============================================================================
