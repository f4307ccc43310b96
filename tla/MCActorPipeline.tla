-------------------------- MODULE MCActorPipeline --------------------------
(* Three submissions, two of them carrying the same message id.             *)
EXTENDS ActorPipeline, TLC

CONSTANTS p1, p2, c1, c2, c3, m1, m2

MCMsgOf == (c1 :> m1) @@ (c2 :> m1) @@ (c3 :> m2)
=============================================================================
