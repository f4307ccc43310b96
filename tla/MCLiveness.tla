---------------------------- MODULE MCLiveness -----------------------------
(* What must eventually happen: in the pipeline of an actor, the flow of a    *)
(* match, the recognition of a speech and the making of host audio. The four  *)
(* modules abstract from one another and share no state: each behaviour is of *)
(* one of them, with the fairness of that one.                                *)
EXTENDS MCMatchFlow, TLC

CONSTANTS
    p1, c1, c2, c3, m1, m2,
    Procs, Callers, Msgs, MsgOf, QueueSize, CacheSize, NoProc, NoCaller,
    MaxAudio, MaxEvents,
    g1, g2, x1, x2, w1, w2, Segments, Texts, Workers, MaxTasks, MaxEdits, MaxCrashes

VARIABLES
    subject,                \* "pipeline", "flow", "speech" or "audio"
    lock, row, life, runner, queue, current, phase, mem, cand, cache, sent, future, forgotten,
    core, session, paused, retained, pauseRequested, waits, reports, envelopes, heard, replays,
    stored, spent,
    manifest, edits, status, assets, tasks, turn, crashes

AP == INSTANCE ActorPipeline
RG == INSTANCE Recognition
HA == INSTANCE HostAudio

\* A rule has finitely many host segments, and a task for each of them fits.
ASSUME AudioAssumption ==
    /\ IsFiniteSet(Segments) /\ Cardinality(Segments) <= MaxTasks
    /\ MaxTasks \in Nat /\ MaxEdits \in Nat /\ MaxCrashes \in Nat

pipeline == <<lock, row, life, runner, queue, current, phase, mem, cand, cache, sent,
              future, forgotten>>
speech == <<core, session, paused, retained, pauseRequested, waits, reports, envelopes, heard,
            replays, stored, spent>>
audio == <<manifest, edits, status, assets, tasks, turn, crashes>>
MCvars == <<subject, vars, pipeline, speech, audio>>

MCMsgOf == (c1 :> m1) @@ (c2 :> m1) @@ (c3 :> m2)

\* A speech that is paused, fails, is replayed and retried.
Events == [pauses |-> 1, faults |-> 2, starts |-> 1, retries |-> 1, resets |-> 1, all |-> 3]

\* One text for both segments or one for each; which is which does not matter.
Same == [g \in Segments |-> x1]
Different == (g1 :> x1) @@ (g2 :> x2)

OfPipeline(step) == subject = "pipeline" /\ step /\ UNCHANGED <<subject, vars, speech, audio>>
OfFlow(step) == subject = "flow" /\ step /\ UNCHANGED <<subject, pipeline, speech, audio>>
OfSpeech(step) == subject = "speech" /\ step /\ UNCHANGED <<subject, vars, pipeline, audio>>
OfAudio(step) == subject = "audio" /\ step /\ UNCHANGED <<subject, vars, pipeline, speech>>

MCInit ==
    /\ subject \in {"pipeline", "flow", "speech", "audio"}
    /\ Init /\ AP!Init /\ RG!Init /\ HA!Init
    /\ manifest \in IF subject = "audio" THEN {Same, Different} ELSE {Same}
MCNext == OfPipeline(AP!Next) \/ OfFlow(Next) \/ OfSpeech(RG!Next) \/ OfAudio(HA!Next)

\* The fairness of each module, for the behaviours that are about it.
PipelineFairness ==
    \A p \in Procs :
        /\ WF_MCvars(OfPipeline(AP!TakeDuplicate(p) \/ AP!Take(p)))
        /\ WF_MCvars(OfPipeline(AP!CancelRunner(p) \/ AP!DrainQueue(p)))
FlowFairness ==
    /\ WF_MCvars(OfFlow(Tick)) /\ WF_MCvars(OfFlow(Fire))
    /\ WF_MCvars(OfFlow(Deliver)) /\ WF_MCvars(OfFlow(MediaSettled))
    /\ \A u \in Users : WF_MCvars(OfFlow(GraceFires(u)))
SpeechFairness ==
    /\ WF_MCvars(OfSpeech(RG!Deadline)) /\ WF_MCvars(OfSpeech(RG!Handle))
    /\ WF_MCvars(OfSpeech(RG!Saved))
AudioFairness ==
    /\ \A w \in Workers : WF_MCvars(OfAudio(HA!Work(w)))
    /\ \A id \in 1..MaxTasks : WF_MCvars(OfAudio(id \in DOMAIN tasks /\ HA!LeaseExpires(id)))

MCSpec ==
    /\ MCInit /\ [][MCNext]_MCvars
    /\ PipelineFairness /\ FlowFairness /\ SpeechFairness /\ AudioFairness

\* Host audio keeps its type (the others: in runs of their own).
MCTypeOK == HA!AudioTypeOK

\* As ActorPipeline states it: a caller waits for ever only behind a stuck command.
EveryCallerAnswered == AP!EveryCallerAnswered

\* As Recognition states it: an end for every speech and every retry.
RecognitionEnds == RG!RecognitionEnds

\* As HostAudio states them: the audio of the current text, the worker of the
\* latest attempt, and an end for every generation.
ReadyAudioIsCurrent == HA!ReadyAudioIsCurrent
HolderDecides == HA!HolderDecides
GenerationSettles == subject = "audio" => HA!GenerationSettles
=============================================================================
