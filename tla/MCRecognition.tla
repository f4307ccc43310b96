--------------------------- MODULE MCRecognition ----------------------------
(* Bounds for Recognition. *)
EXTENDS Recognition

\* For what the program forgets: one pause.
OnePause == [pauses |-> 1, faults |-> 0, starts |-> 0, retries |-> 0, resets |-> 0, all |-> 2]
=============================================================================
