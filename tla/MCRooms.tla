------------------------------ MODULE MCRooms ------------------------------
EXTENDS Rooms, TLC
CONSTANTS u1, u2, a1, a2, s1, s2
Formal == (s1 :> u1) @@ (s2 :> a1)
=============================================================================
