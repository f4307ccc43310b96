---------------------------- MODULE MatchHistory ----------------------------
(* What a match promises to everyone who reads it: one history of effects    *)
(* that is only ever extended.  Whatever processes, queues, retries and      *)
(* crashes do, no recorded effect is overwritten, reordered or lost.         *)
EXTENDS Sequences

CONSTANT Msgs       \* the message identities of commands

VARIABLE history    \* the recorded effects, oldest first

Init == history = << >>

Record(m) == history' = Append(history, m)

Next == \E m \in Msgs : Record(m)

Spec == Init /\ [][Next]_history
=============================================================================
