--------------------------- MODULE MCFreeDebate ---------------------------
(* A small free debate: humans and an agent against agents only. *)
EXTENDS FreeDebate

CONSTANTS h1, h2, a1, b1, b2, nobody

MCHumans == {h1}
MCAgents == {a1, b1}
MCSideOf == [p \in {h1, h2, a1, b1, b2} \cap (MCHumans \cup MCAgents) |->
                IF p \in {h1, h2, a1} THEN "AFFIRMATIVE" ELSE "NEGATIVE"]
=============================================================================
