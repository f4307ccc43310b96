---------------------------- MODULE MCMatchFlow ----------------------------
(* Small plans for model checking MatchFlow. *)
EXTENDS MatchFlow

CONSTANTS u1

Human(stage, host) == [kind |-> "HUMAN_SPEECH", host |-> host, stage |-> stage, speaker |-> u1]
AI(stage) == [kind |-> "AGENT_SPEECH", host |-> FALSE, stage |-> stage, speaker |-> Agent]
Prepare(stage) == [kind |-> "PREPARATION", host |-> FALSE, stage |-> stage, speaker |-> NoOne]
Host(stage) == [kind |-> "HOST_AUDIO", host |-> TRUE, stage |-> stage, speaker |-> NoOne]

\* A stage of two turns, announced by the host.
Debate == <<Human(1, TRUE), AI(1)>>
\* A preparation with its closing announcement, and a stage of one speech.
Ceremony == <<Prepare(1), Host(1), Human(2, FALSE)>>
\* One announced speech.
Speech == <<Human(1, TRUE)>>

Match(plan, starts, ops) == [plan |-> plan, starts |-> starts, ops |-> ops]
\* Speeches are resumed and restarted, or operations follow one another.
DebateAndCeremony == {Match(Debate, 2, 1), Match(Ceremony, 1, 2)}
DebateOnly == {Match(Debate, 1, 1)}
CeremonyOnly == {Match(Ceremony, 1, 0)}
CeremonyReset == {Match(Ceremony, 1, 1)}
SpeechOnce == {Match(Speech, 1, 0)}

OneUser == {u1}
=============================================================================
