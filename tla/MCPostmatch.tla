---------------------------- MODULE MCPostmatch ----------------------------
(* Two debaters; a second score is asked for, or there are two faults.        *)
EXTENDS Postmatch

CONSTANTS r1, r2

MCNext == Next /\ 2 * Len(results') + faults' <= 4
MCSpec == Init /\ [][MCNext]_postmatchVars /\ Fairness
=============================================================================
